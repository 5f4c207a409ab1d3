------------------------------- MODULE LibIbs -------------------------------
(***************************************************************************)
(* The user library (lib/ibs.c): initialisation with its error path,       *)
(* enabling and disabling the devices of the listed CPUs, the sampling     *)
(* call, and the daemon, a forked copy of the process that shares its      *)
(* descriptors and is told to stop by a signal.                            *)
(*                                                                         *)
(* Device d is the op (even) or fetch (odd) device of CPU d \div 2.  The   *)
(* driver and the kernel's processes, signals and select are external: a   *)
(* device is in use while some process holds a descriptor, its last close  *)
(* disables it, samples arrive while it is enabled.  The application calls *)
(* the library from one thread; once it has a daemon it only finalizes and *)
(* exits.  So one process at a time runs library code that has state, and  *)
(* at, todo, fds, ... are that process's.                                  *)
(*                                                                         *)
(* The application is arbitrary, or it is ibs_daemon                       *)
(* (tools/ibs_daemon/ibs_daemon.c), which runs a program under the daemon  *)
(* and finalizes when the program ends or a signal tells it to.            *)
(***************************************************************************)
EXTENDS Integers, FiniteSets, FiniteSetsExt

CONSTANTS NumCpus,      \* get_nprocs_conf()
          Flavors,      \* 0 if the options ask for op, 1 if for fetch
          Capacity,     \* samples a device holds
          PollNum,      \* ibs_poll_num_samples
          MaxSamples,   \* max_samples of the sampling calls
          Timeout       \* TRUE: ibs_poll_timeout > 0

ASSUME LibAssumption == /\ NumCpus \in Nat \ {0} /\ Flavors \subseteq {0, 1}
                        /\ Capacity \in Nat \ {0}
                        /\ PollNum \in 1 .. Capacity
                        /\ MaxSamples \in Nat \ {0}
                        /\ Timeout \in BOOLEAN

Cpus == 0 .. NumCpus - 1
Devs == 0 .. 2 * NumCpus - 1
Cpu(d) == d \div 2
Procs == {"main", "daemon", "work"}

VARIABLES
  online,       \* CPUs that is_cpu_online finds online
  list,         \* ibs_cpu_list
  aggressive,   \* ibs_aggressive_read
  onTimeout,    \* ibs_read_on_timeout
  inited,       \* ibs_initialized
  fds, flag,    \* op_fd, fetch_fd > 0; op_enabled, fetch_enabled
  at,           \* statement of the process that runs the library
  todo, scope,  \* devices left in the loop, devices of the call
  after,        \* where a disabling loop goes
  rfds, tot, want,      \* fd_set, total_new_samples, samples to read
  up, daemonize,        \* processes alive; initialisation asked for a daemon
  sent, handler, die,   \* SIGUSR1 sent; its handler installed; static int die
  tool, known,  \* the application is ibs_daemon; ibs_daemon # 0, or was
  ran,          \* ibs_daemon has launched its program
  open,         \* per process: devices it holds a descriptor of
  ctl, avail,   \* devices enabled in the driver; samples waiting
  forgotten,    \* history: descriptors that ibs_finalize did not close
  delisted,     \* history: CPUs taken off the list while a device was enabled
  killed,       \* history: the signal met a daemon without a handler
  untold        \* history: the tool ended without telling its daemon

optVars  == <<online, list, aggressive, onTimeout>>
loopVars == <<todo, scope, after>>
readVars == <<rfds, tot, want>>
toolVars == <<tool, known, ran, untold>>
procVars == <<up, daemonize, sent, handler, die, toolVars>>
histVars == <<forgotten, delisted, killed>>
vars == <<optVars, inited, fds, flag, at, loopVars, readVars, procVars, open,
          ctl, avail, histVars>>

\* The default options; CPU 0 is always online.
Init ==
  /\ online \in {S \in SUBSET Cpus : 0 \in S} /\ list = {}
  /\ aggressive = FALSE /\ onTimeout = TRUE
  /\ inited = FALSE /\ fds = {} /\ flag = {} /\ at = "idle"
  /\ todo = {} /\ scope = {} /\ after = "idle"
  /\ rfds = {} /\ tot = 0 /\ want = 0
  /\ up = {"main"} /\ daemonize = FALSE
  /\ sent = FALSE /\ handler = FALSE /\ die = FALSE
  /\ open = [p \in Procs |-> {}] /\ ctl = {} /\ avail = [d \in Devs |-> 0]
  /\ forgotten = {} /\ delisted = {} /\ killed = FALSE
  /\ tool \in BOOLEAN /\ known = FALSE /\ ran = FALSE /\ untold = FALSE

Go(l, m) == at = l /\ at' = m
Forked == "daemon" \in up \/ sent \/ at = "exited"
MainCalls == at = "idle" /\ "main" \in up
AppCalls == MainCalls /\ inited /\ ~Forked /\ ~tool
Listed == {d \in Devs : Cpu(d) \in list}

\* Process p closes its descriptors S; the last close of a device runs
\* ibs_release, which disables it.
CloseFds(p, S) ==
  /\ open' = [open EXCEPT ![p] = @ \ S]
  /\ ctl' = ctl \ {d \in S : \A q \in Procs \ {p} : d \notin open[q]}

-----------------------------------------------------------------------------
(* ibs_initialize.                                                         *)

Wanted == {d \in Devs : Cpu(d) \in online /\ d % 2 \in Flavors}

\* The list is allocated and filled from the options (any list of CPUs).
InitStart(dmn) ==
  /\ MainCalls /\ ~inited
  /\ list' \in SUBSET Cpus
  /\ at' = "open" /\ daemonize' = dmn
  /\ todo' = Wanted /\ fds' = {} /\ flag' = {}
  /\ UNCHANGED <<online, aggressive, inited, scope, after, readVars, up, sent, handler,
                 die, toolVars, open, ctl, avail, histVars>>
Initialize(dmn) == ~tool /\ InitStart(dmn) /\ UNCHANGED onTimeout

\* ibs_daemon: IBS_READ_ON_TIMEOUT 0, once, with a daemon.
ToolInitialize == tool /\ ~daemonize /\ InitStart(TRUE) /\ onTimeout' = FALSE

\* The devices of a CPU are opened in turn; after the last one its options are
\* applied (SET_MAX_CNT, SET_POLL_SIZE).  The driver refuses a device in use,
\* and open and the ioctls may fail for other reasons.
OpenDev ==
  LET d == Min(todo)
      Opened == /\ d \notin open["main"]
                /\ open' = [open EXCEPT !["main"] = @ \cup {d}]
                /\ fds' = fds \cup {d}
                /\ avail' = [avail EXCEPT ![d] = 0]
  IN  /\ at = "open" /\ todo # {}
      /\ \/ Opened /\ at' = "open"
         \/ Opened /\ (\A e \in todo \ {d} : Cpu(e) > Cpu(d)) /\ at' = "undo"
         \/ UNCHANGED <<open, fds, avail>> /\ at' = "undo"
      /\ todo' = todo \ {d}
      /\ UNCHANGED <<optVars, inited, flag, scope, after, readVars, procVars, ctl,
                     histVars>>

\* err: of do_ibs_initialize.
UndoOpenLeaks ==
  /\ Go("undo", "idle")
  /\ CloseFds("main", {d \in fds : Cpu(d) < Cpu(Max(fds \cup {0}))})
  /\ fds' = {}
  /\ UNCHANGED <<optVars, inited, flag, loopVars, readVars, procVars, avail,
                 histVars>>
UndoOpen ==
  /\ Go("undo", "idle")
  /\ CloseFds("main", fds) /\ fds' = {}
  /\ UNCHANGED <<optVars, inited, flag, loopVars, readVars, procVars, avail,
                 histVars>>

\* The end of do_ibs_initialize, and the fork; a failed fork leaves the library
\* initialised.  The daemon's copy of the tables is the one that matters from
\* then on.
Forks ==
  /\ at' = "start" /\ up' = up \cup {"daemon"}
  /\ open' = [open EXCEPT !["daemon"] = open["main"]]
InitDone ==
  /\ at = "open" /\ todo = {}
  /\ inited' = TRUE
  /\ \/ daemonize /\ Forks
     \/ at' = "idle" /\ UNCHANGED <<up, open>>
  /\ UNCHANGED <<optVars, fds, flag, loopVars, readVars, daemonize, sent, handler,
                 die, toolVars, ctl, avail, histVars>>

-----------------------------------------------------------------------------
(* Options, enabling and disabling.                                        *)

\* ibs_set_option; IBS_CPU_LIST writes the list that initialisation allocated.
SetOption ==
  /\ MainCalls /\ ~Forked /\ ~tool
  /\ aggressive' \in BOOLEAN /\ onTimeout' \in BOOLEAN
  /\ IF inited THEN list' \in SUBSET Cpus ELSE list' = list
  /\ delisted' = delisted \cup {Cpu(d) : d \in {e \in flag : Cpu(e) \notin list'}}
  /\ UNCHANGED <<online, inited, fds, flag, at, loopVars, readVars, procVars, open,
                 ctl, avail, forgotten, killed>>

\* ibs_enable_cpu and ibs_enable_all (S: the devices of the CPU, or all).
StartEnable(S) == at' = "enable" /\ scope' = S /\ todo' = S \cap Listed \cap fds
\* ibs_disable_cpu and ibs_disable_all; the loop ends at l.
StartDisable(S, l) == at' = "disable" /\ after' = l /\ todo' = S \cap Listed \cap flag

DevsOf(c) == {2 * c, 2 * c + 1}
Ranges == {DevsOf(c) : c \in list} \cup {Devs}

EnableCall(S) ==
  /\ AppCalls
  /\ StartEnable(S)
  /\ UNCHANGED <<optVars, inited, fds, flag, after, readVars, procVars, open, ctl,
                 avail, histVars>>
DisableCall(S) ==
  /\ AppCalls
  /\ StartDisable(S, "idle")
  /\ UNCHANGED <<optVars, inited, fds, flag, scope, readVars, procVars, open, ctl,
                 avail, histVars>>

EnableDev ==
  LET d == Min(todo)
  IN  /\ at = "enable" /\ todo # {}
      /\ ctl' = ctl \cup {d} /\ flag' = flag \cup {d}
      /\ todo' = todo \ {d}
      /\ UNCHANGED <<optVars, inited, fds, at, scope, after, readVars, procVars,
                     open, avail, histVars>>

\* The ioctl fails: the CPU and, in ibs_enable_all, the CPUs before it are
\* disabled; a daemon that cannot enable gives up.
UpTo(d) == {e \in scope : Cpu(e) <= Cpu(d)}
EnableFails ==
  /\ at = "enable" /\ todo # {}
  /\ StartDisable(UpTo(Min(todo)), IF "daemon" \in up THEN "exit" ELSE "idle")
  /\ UNCHANGED <<optVars, inited, fds, flag, scope, readVars, procVars, open, ctl,
                 avail, histVars>>

EnableEnd ==
  /\ at = "enable" /\ todo = {}
  /\ at' = IF "daemon" \in up THEN "handlers" ELSE "idle"
  /\ UNCHANGED <<optVars, inited, fds, flag, loopVars, readVars, procVars, open,
                 ctl, avail, histVars>>

DisableDev ==
  LET d == Min(todo)
  IN  /\ at = "disable" /\ todo # {}
      /\ ctl' = ctl \ {d} /\ flag' = flag \ {d}
      /\ todo' = todo \ {d}
      /\ UNCHANGED <<optVars, inited, fds, at, scope, after, readVars, procVars,
                     open, avail, histVars>>

DisableEnd ==
  /\ at = "disable" /\ todo = {} /\ at' = after
  /\ UNCHANGED <<optVars, inited, fds, flag, loopVars, readVars, procVars, open,
                 ctl, avail, histVars>>

-----------------------------------------------------------------------------
(* ibs_sample.                                                             *)

Return == IF "daemon" \in up THEN "test" ELSE "idle"
Asked == fds \cap Listed

\* do_ibs_sample up to select.
StartSample == at' = "select" /\ rfds' = flag \cap Asked /\ tot' = 0
SampleCall ==
  /\ AppCalls
  /\ StartSample
  /\ UNCHANGED <<optVars, inited, fds, flag, loopVars, want, procVars, open, ctl,
                 avail, histVars>>

\* ibs_poll: enough data, or a device that is off.
Ready(d) == avail[d] >= PollNum \/ d \notin ctl
GetAll == at' = "get" /\ todo' = {d \in Asked : aggressive \/ d \in rfds'}
Bail == at' = Return /\ todo' = {}

\* select returns: descriptors are ready, time is up (the set is empty), or a
\* signal arrived (the set is as it was).
Select ==
  /\ at = "select"
  /\ \/ \E d \in rfds : Ready(d)
        /\ rfds' = {e \in rfds : Ready(e)} /\ GetAll
     \/ Timeout /\ (\A d \in rfds : ~Ready(d))
        /\ rfds' = {} /\ IF onTimeout THEN GetAll ELSE Bail
  /\ UNCHANGED <<optVars, inited, fds, flag, scope, after, tot, want, procVars,
                 open, ctl, avail, histVars>>

\* do_ibs_get_sample: FIONREAD, and what it makes of the answer.
Enough(n) == n > 0 /\ (aggressive \/ n >= PollNum)
ToReadAll(n) == n
ToReadRoom(n) == MaxSamples - tot
ToRead(n) == IF n > MaxSamples - tot THEN MaxSamples - tot ELSE n
GetDev ==
  LET d == Min(todo)
  IN  /\ at = "get" /\ todo # {}
      /\ IF Enough(avail[d])
         THEN at' = "read" /\ want' = ToRead(avail[d]) /\ todo' = todo
         ELSE at' = "get" /\ want' = want /\ todo' = todo \ {d}
      /\ UNCHANGED <<optVars, inited, fds, flag, scope, after, rfds, tot, procVars,
                     open, ctl, avail, histVars>>

\* The read, and the end of the loop when max_samples are there.
ReadDev ==
  LET d == Min(todo)
  IN  /\ at = "read"
      /\ avail' = [avail EXCEPT ![d] = IF want < @ THEN @ - want ELSE 0]
      /\ tot' = tot + want /\ want' = 0
      /\ at' = IF tot' = MaxSamples THEN Return ELSE "get"
      /\ todo' = IF tot' = MaxSamples THEN {} ELSE todo \ {d}
      /\ UNCHANGED <<optVars, inited, fds, flag, scope, after, rfds, procVars,
                     open, ctl, histVars>>

SampleEnd ==
  /\ at = "get" /\ todo = {} /\ at' = Return
  /\ UNCHANGED <<optVars, inited, fds, flag, loopVars, readVars, procVars, open,
                 ctl, avail, histVars>>

-----------------------------------------------------------------------------
(* ibs_finalize and the end of the processes.                              *)

FinalizeNoDisable ==
  /\ AppCalls
  /\ at' = "free"
  /\ UNCHANGED <<optVars, inited, fds, flag, loopVars, readVars, procVars, open, ctl,
                 avail, histVars>>
FinalizeDirect ==
  /\ AppCalls
  /\ StartDisable(Devs, "free")
  /\ UNCHANGED <<optVars, inited, fds, flag, scope, readVars, procVars, open, ctl,
                 avail, histVars>>

\* The tables are freed; the descriptors stay open.
Free ==
  /\ Go("free", "idle")
  /\ inited' = FALSE /\ fds' = {} /\ flag' = {}
  /\ forgotten' = forgotten \cup fds
  /\ UNCHANGED <<optVars, loopVars, readVars, procVars, open, ctl, avail, delisted,
                 killed>>

\* In the parent, after the fork.
StorePid ==
  /\ "main" \in up /\ Forked /\ ~known
  /\ known' = TRUE
  /\ UNCHANGED <<optVars, inited, fds, flag, at, loopVars, readVars, up, daemonize,
                 sent, handler, die, tool, ran, untold, open, ctl, avail, histVars>>

\* With a daemon: kill(ibs_daemon, SIGUSR1).  ibs_daemon calls it when its
\* program has ended (clean_exit) or, at any time, on a signal (bad_exit).
FinalizeDaemon ==
  /\ "main" \in up /\ known /\ ~sent
  /\ sent' = TRUE
  /\ UNCHANGED <<optVars, inited, fds, flag, at, loopVars, readVars, up, daemonize,
                 handler, die, toolVars, open, ctl, avail, histVars>>

MainGone ==
  /\ up' = up \ {"main"}
  /\ at' = IF Forked THEN at ELSE "exited"
  /\ CloseFds("main", open["main"])

\* The application exits, between calls; ibs_daemon after finalizing if it has a
\* daemon.
MainExitUntold ==
  /\ "main" \in up /\ (IF Forked THEN known ELSE at = "idle")
  /\ MainGone
  /\ UNCHANGED <<optVars, inited, fds, flag, loopVars, readVars, daemonize, sent,
                 handler, die, toolVars, avail, histVars>>
MainExit ==
  /\ "main" \in up /\ (IF Forked THEN known ELSE at = "idle")
  /\ tool /\ known => sent
  /\ MainGone
  /\ UNCHANGED <<optVars, inited, fds, flag, loopVars, readVars, daemonize, sent,
                 handler, die, toolVars, avail, histVars>>

-----------------------------------------------------------------------------
(* ibs_daemon.                                                             *)

\* bad_exit interrupts ibs_initialize before it knows the daemon's pid:
\* ibs_finalize then finds no device enabled, and the tool exits.
BadExitEarly ==
  /\ tool /\ "main" \in up /\ ~known
  /\ untold' = Forked
  /\ MainGone
  /\ UNCHANGED <<optVars, inited, fds, flag, loopVars, readVars, daemonize, sent,
                 handler, die, tool, known, ran, avail, histVars>>

\* launch_child_work: the program inherits the descriptors.  If the fork fails
\* the tool exits at once.
LaunchChildWork ==
  /\ tool /\ "main" \in up /\ known /\ ~sent /\ ~ran
  /\ ran' = TRUE
  /\ \/ /\ up' = up \cup {"work"} /\ open' = [open EXCEPT !["work"] = open["main"]]
        /\ UNCHANGED <<at, ctl, untold>>
     \/ MainGone /\ untold' = TRUE
  /\ UNCHANGED <<optVars, inited, fds, flag, loopVars, readVars, daemonize, sent,
                 handler, die, tool, known, avail, histVars>>
WorkExit ==
  /\ "work" \in up /\ up' = up \ {"work"}
  /\ CloseFds("work", open["work"])
  /\ UNCHANGED <<optVars, inited, fds, flag, at, loopVars, readVars, daemonize, sent,
                 handler, die, toolVars, avail, histVars>>

-----------------------------------------------------------------------------
(* start_ibs_daemon.                                                       *)

\* Memory and files are set up, which may fail; then all CPUs are enabled.
DaemonStart ==
  /\ at = "start"
  /\ \/ StartEnable(Devs)
     \/ at' = "exit" /\ UNCHANGED <<todo, scope>>
  /\ UNCHANGED <<optVars, inited, fds, flag, after, readVars, procVars, open, ctl,
                 avail, histVars>>

DaemonHandlers ==
  /\ Go("handlers", "test") /\ handler' = TRUE
  /\ UNCHANGED <<optVars, inited, fds, flag, loopVars, readVars, up, daemonize,
                 sent, die, toolVars, open, ctl, avail, histVars>>

\* while (die == 0) ibs_sample(...); the samples are written after it returns.
DaemonTest ==
  /\ at = "test"
  /\ IF die THEN /\ StartDisable(Devs, "exit") /\ UNCHANGED <<rfds, tot>>
            ELSE StartSample /\ UNCHANGED <<todo, after>>
  /\ UNCHANGED <<optVars, inited, fds, flag, scope, want, procVars, open, ctl,
                 avail, histVars>>

\* exit() closes the daemon's descriptors.
DaemonGone ==
  /\ at' = "exited" /\ todo' = {} /\ up' = up \ {"daemon"}
  /\ CloseFds("daemon", open["daemon"])
  /\ flag' = {} /\ fds' = {}
DaemonExit ==
  /\ at = "exit" /\ DaemonGone
  /\ UNCHANGED <<optVars, inited, scope, after, readVars, daemonize, sent, handler,
                 die, toolVars, avail, histVars>>

\* SIGUSR1 arrives: without a handler it ends the daemon, with one it sets die
\* and interrupts select.
SignalLost ==
  /\ sent /\ ~die /\ "daemon" \in up /\ handler
  /\ UNCHANGED die
  /\ IF at = "select" THEN rfds' = rfds /\ IF onTimeout THEN GetAll ELSE Bail
                      ELSE UNCHANGED <<rfds, todo, at>>
  /\ UNCHANGED <<optVars, inited, fds, flag, scope, after, tot, want, up, daemonize,
                 sent, handler, toolVars, open, ctl, avail, histVars>>
SignalHandled ==
  /\ sent /\ ~die /\ "daemon" \in up /\ handler
  /\ die' = TRUE
  /\ IF at = "select" THEN rfds' = rfds /\ IF onTimeout THEN GetAll ELSE Bail
                      ELSE UNCHANGED <<rfds, todo, at>>
  /\ UNCHANGED <<optVars, inited, fds, flag, scope, after, tot, want, up, daemonize,
                 sent, handler, toolVars, open, ctl, avail, histVars>>
SignalKills ==
  /\ sent /\ "daemon" \in up /\ ~handler
  /\ killed' = TRUE
  /\ DaemonGone
  /\ UNCHANGED <<optVars, inited, scope, after, readVars, daemonize, sent, handler,
                 die, toolVars, avail, forgotten, delisted>>

\* A sample arrives at an enabled device.
Sampled(d) ==
  /\ d \in ctl /\ avail[d] < Capacity
  /\ avail' = [avail EXCEPT ![d] = @ + 1]
  /\ UNCHANGED <<optVars, inited, fds, flag, at, loopVars, readVars, procVars, open,
                 ctl, histVars>>

Library ==
  \/ OpenDev \/ UndoOpen \/ InitDone \/ EnableDev \/ EnableFails \/ EnableEnd
  \/ DisableDev \/ DisableEnd \/ Select \/ GetDev \/ ReadDev \/ SampleEnd \/ Free
  \/ StorePid \/ DaemonStart \/ DaemonHandlers \/ DaemonTest \/ DaemonExit
Signal == SignalHandled \/ SignalKills
Application ==
  \/ (\E dmn \in BOOLEAN : Initialize(dmn)) \/ ToolInitialize
  \/ SetOption \/ SampleCall \/ FinalizeDirect \/ FinalizeDaemon \/ MainExit
  \/ BadExitEarly \/ LaunchChildWork \/ WorkExit
  \/ \E S \in Ranges : EnableCall(S) \/ DisableCall(S)

Next == Library \/ Signal \/ Application \/ \E d \in Devs : Sampled(d)

Spec == Init /\ [][Next]_vars

\* A process inside the library keeps running, and signals are delivered.
FairSpec == Spec /\ WF_vars(Library) /\ WF_vars(Signal)

-----------------------------------------------------------------------------
(* Properties.                                                             *)

\* No device samples that the library would not disable: whatever failed half
\* way, every device enabled in the driver is marked enabled in the tables of
\* the process that runs the library, and nothing samples once that process has
\* finalized or exited.  Two exceptions: a CPU taken off the list while its
\* devices sample, and a daemon killed by the signal before it had a handler.
NoOrphanSampling ==
  \A d \in ctl : d \in flag \/ Cpu(d) \in delisted \/ killed

\* A process that runs the library holds descriptors of exactly the devices in
\* its tables, also after an initialisation that failed at any step, apart from
\* those that an earlier ibs_finalize did not close.
DescriptorsKnown ==
  LET p == IF "daemon" \in up THEN "daemon" ELSE "main"
  IN  p \in up /\ at # "exited" => open[p] \ forgotten = fds \ forgotten

\* A sampling call never writes past the caller's max_samples entries.
WithinMaxSamples == tot + want <= MaxSamples

\* "This should not be possible" (lib/ibs.c 477): a read that follows FIONREAD
\* gets all it asked for.
ReadIsFull == at = "read" => avail[Min(todo)] >= want

\* "Send a signal to kill the daemon": after ibs_finalize the daemon ends,
\* wherever in its loop the signal meets it, given a poll timeout.
DaemonStops == sent ~> "daemon" \notin up

\* "attempts to exit this program should kill the daemon with ibs_finalize(), or
\* it's going to sit around forever" (tools/ibs_daemon/ibs_daemon.c 359): once
\* the tool is gone, its daemon goes, unless a signal ended the tool before
\* ibs_initialize had stored the daemon's pid, or the tool could not fork its
\* program.
ToolTakesDaemonAlong == tool /\ "main" \notin up ~> "daemon" \notin up \/ untold
=============================================================================
