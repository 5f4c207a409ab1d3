----------------------------- MODULE ToolChain ------------------------------
(***************************************************************************)
(* What the tools compute on the way from the command line to the CSV      *)
(* files, over one device's control register (IbsControl): the list of     *)
(* online CPUs (OnlineCpus), the sampling rate, the trace file and its     *)
(* decoding (TraceFile).  A computation starts with the register in its    *)
(* default state and shows its input and result in job.                    *)
(***************************************************************************)
EXTENDS IbsControl, OnlineCpus, TraceFile

CONSTANTS Families,     \* of the machines: <<family, model>>
          IdBits,       \* feature bits of CPUID_Fn8000_001B_EAX that vary
          Texts,        \* free texts of trace headers, as the decoder reads them
          Rates         \* sampling rates of the command line

VARIABLES job,          \* the last computation, or Idle
          rate          \* history: {r} if rate r is the maximum count's source

ASSUME ToolAssumption ==
  /\ Rates \subseteq Nat /\ Families \subseteq Nat \X Nat
  /\ Texts \subseteq Seq(HeaderLine)

toolVars == <<ctlRegVars, job, rate>>

Idle == [kind |-> "idle"]
ToolInit == ControlInit /\ job = Idle /\ rate = {}

\* Bits 0, 1, 2 and 4 say that op and fetch sampling are there at all.
Machines ==
  {[fam |-> f[1], model |-> f[2], id |-> S \cup {0, 1, 2, 4}, text |-> t] :
     f \in Families, S \in SUBSET IdBits, t \in Texts}
Samples == [ld_op : BOOLEAN, dc_miss : BOOLEAN, l2_miss : BOOLEAN, wc_mem_acc : BOOLEAN]

\* The computations do not use the register: they start in one of its states.
Fresh == job = Idle /\ isOp /\ ext /\ rearms = 0 /\ msr = {} /\ ctl = Defaults
Start(record) == job' = record /\ UNCHANGED <<ctlRegVars, rate>>

ListCpus(online) ==
  Start([kind |-> "cpus", online |-> online, monitor |-> MonitorCores(online),
         daemon |-> DaemonCores(online)])

DecodeOp(m, s) ==
  LET v == ParseHeader(OpKeys, OpTraceHeader(m))
  IN  OpSupported(m) /\ Start([kind |-> "op", machine |-> m, val |-> v,
                               valid |-> NbDataValid(v, s),
                               header |-> OpHeaderCells(v), row |-> OpRow(v, s)])

DecodeFetch(m) ==
  LET v == ParseHeader(FetchKeys, FetchTraceHeader(m))
  IN  FetchSupported(m) /\ Start([kind |-> "fetch", machine |-> m, val |-> v,
                                  header |-> FetchHeaderCells(v), row |-> FetchRow(v)])

Finish == job # Idle /\ job' = Idle /\ UNCHANGED <<ctlRegVars, rate>>

\* set_global_op_sample_rate and set_global_fetch_sample_rate refuse what the
\* register cannot hold and set the maximum count to a sixteenth.
MaxRate == IF isOp /\ ext THEN 2^27 ELSE 2^20
RateAccepted(r) == r < MaxRate /\ (isOp => r >= 144)
SetRate(r) ==
  /\ job = Idle /\ RateAccepted(r) /\ SetMaxCnt(r \div 16)
  /\ rate' = {r} /\ UNCHANGED job
Control ==
  /\ job = Idle /\ ControlNext
  /\ rate' = IF asked'.max = asked.max THEN rate ELSE {}
  /\ UNCHANGED job

ToolNext ==
  \/ Control
  \/ \E r \in Rates : SetRate(r)
  \/ Fresh /\ \E online \in SUBSET AllCpus : online # {} /\ ListCpus(online)
  \/ Fresh /\ \E m \in Machines : DecodeFetch(m) \/ \E s \in Samples : DecodeOp(m, s)
  \/ Finish

ToolSpec == ToolInit /\ [][ToolNext]_toolVars

-----------------------------------------------------------------------------
(* Properties.                                                             *)

\* The tools believe exactly the online CPUs to be online, and the daemon tool
\* reserves the last of them, as long as CPU numbers have one digit; with larger
\* numbers the lists are wrong but stay inside the arrays.
OnlineCpusFound ==
  job.kind = "cpus" =>
    LET d == job.daemon
    IN  /\ job.monitor \cup d.app \cup {d.daemon} \subseteq AllCpus
        /\ job.online \subseteq 0 .. 9 => /\ job.monitor = job.online
                                          /\ d.app \cup {d.daemon} = job.online
                                          /\ d.daemon = Max(job.online)

\* The decoder knows the machine's family, model and flags, and every cell of a
\* CSV row stands under the name of its field.  Two exceptions in the rows: the
\* column IbsOpReturn shows another bit; and without columns for bits 4 and 5 of
\* IBS_OP_DATA2, as on families 14h and 16h, a row without valid northbridge data
\* has two cells too many.  Free text (a command line of several lines or more
\* than 254 bytes) that the decoder takes for a line of its own can replace
\* the family and the model, but no flag, because those come later, unless it
\* looks like the end of the header; header and rows still agree then.
RowsUnderNames ==
  job.kind \in {"op", "fetch"} =>
    LET m == job.machine
        flags == IF job.kind = "op" THEN OpFlags(m) ELSE FetchFlags(m)
        TextHas(key) == \E i \in DOMAIN m.text : m.text[i][1] = key
        Fits(k) == job.row[k] \in {Blank, job.header[k]} \/ job.header[k] = "op_return"
    IN  /\ TextHas("Family") \/ job.val.Family = m.fam
        /\ TextHas("Model") \/ job.val.Model = m.model
        /\ TextHas("end") \/ \A i \in DOMAIN flags : job.val[flags[i][1]] = flags[i][2]
        /\ IF job.kind = "op" /\ job.val.OpData2_4_5 = 0 /\ ~job.valid
           THEN Len(job.row) = Len(job.header) + 2
           ELSE Len(job.row) = Len(job.header) /\ \A k \in DOMAIN job.row : Fits(k)

\* The rate that the decoder prints for a sample is the one that the user set on
\* the command line, rounded down to a multiple of 16: on machines with and
\* without the wider counter an accepted rate survives the shift, the ioctl, the
\* split field, other settings, re-arming and the decoder's bit fields.  A count
\* set by ioctl is printed as 16 times what GET_MAX_CNT returns.
RateDecoded ==
  LET printed == IF isOp THEN OpMaxCnt(ext, msr) ELSE FetchMaxCnt(msr)
  IN  EnBit \in msr => /\ \A r \in rate : printed = 16 * (r \div 16)
                       /\ printed = 16 * Number(Gets.max)
=============================================================================
