----------------------------- MODULE OnlineCpus -----------------------------
(***************************************************************************)
(* fill_out_online_cores of the monitor and of the daemon tool: which CPUs *)
(* they believe to be online, from the text of                             *)
(* /sys/devices/system/cpu/online.  A character is its digit, or Comma or  *)
(* Dash.                                                                   *)
(***************************************************************************)
EXTENDS Integers, SequencesExt

CONSTANT NumCpus        \* get_nprocs_conf(), at most 100

ASSUME OnlineAssumption == NumCpus \in 1 .. 100

AllCpus == 0 .. NumCpus - 1
Comma == 10
Dash  == 11
IsDigit(c) == c < 10

-----------------------------------------------------------------------------
(* The kernel's text (external): ascending ranges "a-b" and numbers "a".   *)

Digits(c) == IF c < 10 THEN <<c>> ELSE <<c \div 10, c % 10>>
\* The range of online CPUs that ends with CPU b.
RangeText(online, b) ==
  LET a == Min({c \in 0 .. b : c .. b \subseteq online})
  IN  IF a = b THEN Digits(a) ELSE Digits(a) \o <<Dash>> \o Digits(b)
\* The text grows at every CPU that ends a range.
WithRange(online, text, b) ==
  IF b \in online /\ b + 1 \notin online
  THEN (IF text = <<>> THEN <<>> ELSE text \o <<Comma>>) \o RangeText(online, b)
  ELSE text
OnlineText(online) ==
  LET text[n \in 0 .. NumCpus] ==
        IF n = 0 THEN <<>> ELSE WithRange(online, text[n - 1], n - 1)
  IN  text[NumCpus]

-----------------------------------------------------------------------------
(* The parsers.  They differ in how they read a number: atoi from the      *)
(* current character on (monitor), or one digit (daemon).                  *)

Atoi(text, k) ==
  LET end == Min({j \in k .. Len(text) + 1 : j > Len(text) \/ ~IsDigit(text[j])})
  IN  FoldLeft(LAMBDA num, c : 10 * num + c, 0, SubSeq(text, k, end - 1))
OneDigit(text, k) == text[k]
NumberAt(tool, text, k) == IF tool = "monitor" THEN Atoi(text, k) ELSE OneDigit(text, k)

\* The CPUs between the ends of a range, which are marked as numbers.
GapOpenEnd(previous, next) == previous + 1 .. next - 2
Gap(previous, next) == previous + 1 .. next - 1

\* One iteration of the loop; every iteration advances by one character.
ParseChar(tool, text, k, numOnline, st) ==
  LET Marked(S, cpu) == [list |-> st.list \cup S, previous |-> cpu,
                         seen |-> st.seen + Cardinality(S),
                         break |-> st.seen + Cardinality(S) >= numOnline]
  IN  CASE st.break \/ text[k] = Comma -> st
        [] ~st.break /\ text[k] = Dash ->
             LET next == NumberAt(tool, text, k + 1)
             IN  Marked(Gap(st.previous, next), next)
        [] ~st.break /\ IsDigit(text[k]) ->
             LET cpu == NumberAt(tool, text, k)
             IN  IF cpu < NumCpus THEN Marked({cpu}, cpu) ELSE [st EXCEPT !.break = TRUE]

Parse(tool, text, numOnline) ==
  FoldLeftDomain(LAMBDA st, k : ParseChar(tool, text, k, numOnline, st),
                 [list |-> {}, previous |-> -1, seen |-> 0, break |-> FALSE], text)

\* The monitor skips the file when all CPUs are online.
MonitorCores(online) ==
  IF online = AllCpus THEN AllCpus
  ELSE Parse("monitor", OnlineText(online), Cardinality(online)).list

\* The daemon tool samples the CPUs of its program, and keeps the last one it
\* found for the daemon.  (main gives up unless two or more are online.)
DaemonCores(online) ==
  LET st == Parse("daemon", OnlineText(online), Cardinality(online))
  IN  [app |-> st.list \ {st.previous}, daemon |-> st.previous]
=============================================================================
