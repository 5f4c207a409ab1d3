----------------------------- MODULE IbsModule -----------------------------
(***************************************************************************)
(* Loading and unloading the driver (driver/ibs-core.c: ibs_init and       *)
(* ibs_exit with every failing step), CPU hotplug and the static           *)
(* workaround for first-generation Family 17h cores, as built for kernels  *)
(* from 4.10 on.  Three kinds of actors: the loader, the kernel's hotplug  *)
(* machinery, which runs the driver's callbacks, and users of the device   *)
(* nodes.                                                                  *)
(*                                                                         *)
(* A device is a pair of CPU and flavor.  CPU numbers put the SMT siblings *)
(* of a core next to each other.  The APIC's LVT entry and the contents of *)
(* struct ibs_dev are not modelled.                                        *)
(***************************************************************************)
EXTENDS Integers, FiniteSets, FiniteSetsExt

CONSTANTS NumCpus,   \* possible CPUs
          Smt,       \* SMT threads per core
          MaxPlug,   \* bound: hotplug transitions of a behaviour
          MaxOpen    \* bound: files open at a time

ASSUME ModAssumption == /\ NumCpus \in Nat \ {0} /\ Smt \in Nat \ {0}
                        /\ MaxPlug \in Nat /\ MaxOpen \in Nat

Cpus == 0 .. NumCpus - 1
Core(c) == c \div Smt
Flavors == {"op", "fetch"}
Devs == Cpus \X Flavors
DevsOf(c) == {c} \X Flavors
NoCpu == NumCpus

VARIABLES
  zen, features,   \* hardware: needs workaround_fam17h_zn; flavors supported
  pc, err, todo,   \* ibs_init, ibs_exit: statement, error code # 0, loop
  sib,             \* the sibling that a static workaround took down
  exiting,         \* ibs_exit is running or has run
  held,            \* what the driver has acquired and not released
  bufs, nodes,     \* devices with a buffer, with a device node
  readers,         \* get_online_cpus() not yet put
  online,          \* cpu_online_mask
  plug,            \* the hotplug transition in progress
  plugs,           \* history: number of transitions, for the bound
  wa2, cpuid,      \* cores with the WA_2 bits, CPUs with the CPUID bit
  opened, hw,      \* devices with an open file, devices that sample
  silent,          \* history: a failed step left err at 0
  doubled,         \* history: something not held was released
  missed,          \* history: CPUs that left with bits set and no callback
  raced            \* history: devices enabled on a CPU past its disable

hardware == <<zen, features>>
loadVars == <<pc, err, todo, sib, exiting, silent, doubled>>
plugVars == <<online, plug, plugs, missed>>
msrVars  == <<wa2, cpuid>>
userVars == <<opened, hw, raced>>
vars == <<hardware, loadVars, held, bufs, nodes, readers, plugVars, msrVars,
          userVars>>

Idle == [cpu |-> NoCpu, at |-> "idle"]

Init ==
  /\ zen \in BOOLEAN /\ features \in SUBSET Flavors
  /\ pc = "start" /\ err = FALSE /\ todo = {} /\ sib = NoCpu
  /\ exiting = FALSE /\ silent = FALSE /\ doubled = FALSE
  /\ held = {} /\ bufs = {} /\ nodes = {} /\ readers = 0
  /\ online \in SUBSET Cpus \ {{}} /\ plug = Idle /\ plugs = 0 /\ missed = {}
  /\ wa2 = {} /\ cpuid = {}
  /\ opened = {} /\ hw = {} /\ raced = {}

-----------------------------------------------------------------------------
(* The static workaround and the hotplug callbacks.                        *)

\* topology_sibling_cpumask, which holds online CPUs only.
SiblingMask(c) == {k \in online : Core(k) = Core(c)}

\* start_fam17h_zn_static_workaround returns early when the core has the bits.
MustTakeDown(c) == Core(c) \notin wa2 /\ SiblingMask(c) # {c}

\* Its register writes.
StartStatic(c) == cpuid' = cpuid \cup {c} /\ wa2' = wa2 \cup {Core(c)}

\* stop_fam17h_zn_static_workaround(c) for all c of S in ascending order; a
\* CPU that is offline cannot be reached.
StopStaticPossible(S) ==
  /\ wa2' = wa2 \ {Core(c) : c \in {k \in S \cap online : k % Smt = 0}}
  /\ cpuid' = cpuid \ (S \cap online)
StopStatic(S) ==
  /\ wa2' = wa2 \ {Core(c) : c \in {k \in S \cap online : k = Min(SiblingMask(k))}}
  /\ cpuid' = cpuid \ (S \cap online)

IfZen(A) == (zen /\ A) \/ (~zen /\ UNCHANGED msrVars)

\* ibs_prepare_up: the nodes a CPU gets.  device_create may fail; when the
\* fetch node fails the op node is destroyed again.  ibs_online_up ignores
\* the error.
PrepareUp(c) == nodes' \in {nodes, nodes \cup ({c} \X features)}

\* ibs_down.
DestroyNodes(S) == nodes' = nodes \ (S \X features)

\* ibs_prepare_down after the two disables.
PrepareDownRest(c) == IfZen(StopStatic({c})) /\ DestroyNodes({c})

-----------------------------------------------------------------------------
(* ibs_init.                                                               *)

At(l, m) == pc = l /\ pc' = m
LoaderOnly == UNCHANGED <<hardware, plugVars, userVars, exiting>>

\* A failing step of ibs_init: where it goes, and whether it sets err.
FailTo(l, m, e) ==
  /\ At(l, m) /\ err' = e /\ silent' = (silent \/ ~e)
  /\ UNCHANGED <<todo, sib, doubled>>
StepTo(l, m) == At(l, m) /\ UNCHANGED <<err, todo, sib, silent, doubled>>

\* check_for_ibs_support up to the loop over the online CPUs.
LoadStart ==
  /\ At("start", "check")
  /\ todo' = IF zen THEN Cpus ELSE {}
  /\ LoaderOnly
  /\ UNCHANGED <<err, sib, silent, doubled, held, bufs, nodes, readers, msrVars>>

\* start_fam17h_zn_static_workaround from check_for_ibs_support.  It allocates
\* the workaround structures and ignores a failure to; it takes down the
\* sibling, which waits for the hotplug machinery, and writes the registers.  For
\* a core the write of the CPUID bit, the take-down and the write of WA_2 are one
\* step.
LoadStatic ==
  /\ pc = "check" /\ todo \cap online # {}
  /\ LET c == Min(todo \cap online)
         others == IF MustTakeDown(c) THEN SiblingMask(c) \ {c} ELSE {}
     IN  /\ StartStatic(c)
         /\ others # {} => plug = Idle /\ readers = 0
         /\ online' = online \ others
         /\ sib' = IF others = {} THEN NoCpu ELSE Max(others)
         /\ pc'  = IF others = {} THEN "check" ELSE "readd"
         /\ todo' = {k \in todo : k > c}
  /\ held' \in {held, held \cup {"wa"}}
  /\ UNCHANGED <<hardware, err, exiting, silent, doubled, bufs, nodes, readers,
                 plug, plugs, missed, userVars>>

\* add_cpu(cpu_to_online).
LoadReadd ==
  /\ At("readd", "check")
  /\ plug = Idle /\ readers = 0
  /\ online' = online \cup {sib}
  /\ sib' = NoCpu
  /\ UNCHANGED <<hardware, err, todo, exiting, silent, doubled, held, bufs,
                 nodes, readers, plug, plugs, missed, msrVars, userVars>>

\* The rest of check_for_ibs_support: the capability flags.
LoadFeatures ==
  /\ pc = "check" /\ todo \cap online = {}
  /\ IF features = {} THEN FailTo("check", "none", TRUE)
                      ELSE StepTo("check", "alloc")
  /\ LoaderOnly /\ UNCHANGED <<held, bufs, nodes, readers, msrVars>>

\* The two alloc_percpu and init_workaround_structs; whichever fails, the ones
\* before it are freed.
LoadAlloc ==
  /\ \/ StepTo("alloc", "buffers")
        /\ held' = held \cup {"op_dev", "fetch_dev", "wa"}
     \/ FailTo("alloc", "none", TRUE) /\ held' = held
  /\ LoaderOnly /\ UNCHANGED <<bufs, nodes, readers, msrVars>>

\* setup_ibs_buffer of op, then fetch, of every possible CPU.
BuffersBefore(c) == {k \in Cpus : k < c} \X Flavors
LoadBuffers ==
  /\ \/ StepTo("buffers", "chrdev") /\ bufs' = Devs
     \/ /\ FailTo("buffers", "free", TRUE)
        /\ \E c \in Cpus : bufs' \in {BuffersBefore(c),
                                      BuffersBefore(c) \cup {<<c, "op">>}}
  /\ LoaderOnly /\ UNCHANGED <<held, nodes, readers, msrVars>>

\* __register_chrdev; a failure leaves err as it is.
LoadChrdev ==
  /\ \/ StepTo("chrdev", "class") /\ held' = held \cup {"chrdev"}
     \/ FailTo("chrdev", "free", FALSE) /\ held' = held
  /\ LoaderOnly /\ UNCHANGED <<bufs, nodes, readers, msrVars>>

LoadClassWrongLabel ==
  /\ \/ StepTo("class", "cpus") /\ held' = held \cup {"class"}
     \/ FailTo("class", "unplug", TRUE) /\ held' = held
  /\ LoaderOnly /\ UNCHANGED <<bufs, nodes, readers, msrVars>>
LoadClass ==
  /\ \/ StepTo("class", "cpus") /\ held' = held \cup {"class"}
     \/ FailTo("class", "unchrdev", TRUE) /\ held' = held
  /\ LoaderOnly /\ UNCHANGED <<bufs, nodes, readers, msrVars>>

\* get_online_cpus waits for a transition in progress.
LoadGetCpus ==
  /\ plug = Idle
  /\ StepTo("cpus", "cpuhp") /\ readers' = readers + 1
  /\ LoaderOnly /\ UNCHANGED <<held, bufs, nodes, msrVars>>

\* cpuhp_setup_state; a failure leaves err as it is and the CPUs held.
LoadCpuhp ==
  /\ \/ At("cpuhp", "online") /\ todo' = online
        /\ UNCHANGED <<err, sib, silent, doubled>>
     \/ FailTo("cpuhp", "unchrdev", FALSE)
  /\ LoaderOnly /\ UNCHANGED <<held, bufs, nodes, readers, msrVars>>

\* ibs_online_up for each online CPU, called by cpuhp_setup_state.
LoadOnline ==
  /\ pc = "online" /\ todo # {}
  /\ LET c == Min(todo)
     IN  /\ PrepareUp(c)
         /\ IF zen /\ MustTakeDown(c)
            THEN pc' = "stuck" /\ cpuid' = cpuid \cup {c} /\ wa2' = wa2
            ELSE pc' = pc /\ IfZen(StartStatic(c))
         /\ todo' = todo \ {c}
  /\ LoaderOnly
  /\ UNCHANGED <<err, sib, silent, doubled, held, bufs, readers>>

\* The end of cpuhp_setup_state, and put_online_cpus.
LoadOnlineEnd ==
  /\ todo = {}
  /\ StepTo("online", "nmi")
  /\ held' = held \cup {"hotplug"} /\ readers' = readers - 1
  /\ LoaderOnly /\ UNCHANGED <<bufs, nodes, msrVars>>

\* register_nmi_handler.
LoadNmi ==
  /\ \/ StepTo("nmi", "loaded") /\ held' = held \cup {"nmi"}
     \/ FailTo("nmi", "undevices", TRUE) /\ held' = held
  /\ LoaderOnly /\ UNCHANGED <<bufs, nodes, readers, msrVars>>

-----------------------------------------------------------------------------
(* ibs_exit, and the error path of ibs_init, which share their functions.  *)

\* Release R; the history notes a release of what is not held.
Release(R) == held' = held \ R /\ doubled' = (doubled \/ ~(R \subseteq held))

\* The module cannot be unloaded while a file is open (ibs_fops.owner).
ExitStartAnyTime ==
  /\ At("loaded", "unplug") /\ exiting' = TRUE
  /\ Release({"nmi"})
  /\ UNCHANGED <<hardware, err, todo, sib, silent, bufs, nodes, readers,
                 plugVars, msrVars, userVars>>
ExitStart ==
  /\ opened = {}
  /\ At("loaded", "unplug") /\ exiting' = TRUE
  /\ Release({"nmi"})
  /\ UNCHANGED <<hardware, err, todo, sib, silent, bufs, nodes, readers,
                 plugVars, msrVars, userVars>>

\* destroy_ibs_devices.
UndoDevices ==
  /\ StepTo("undevices", "unplug")
  /\ DestroyNodes(online)
  /\ LoaderOnly /\ UNCHANGED <<held, bufs, readers, msrVars>>

\* destroy_ibs_hotplug: get_online_cpus and cpuhp_remove_state ...
UndoHotplug ==
  /\ plug = Idle
  /\ At("unplug", "removing")
  /\ todo' = IF "hotplug" \in held THEN online ELSE {}
  /\ readers' = readers + 1
  /\ LoaderOnly
  /\ UNCHANGED <<err, sib, silent, doubled, held, bufs, nodes, msrVars>>

\* ... which calls ibs_prepare_down for each online CPU ...
UndoOnline ==
  /\ pc = "removing" /\ todo # {}
  /\ LET c == Min(todo)
     IN  /\ hw' = hw \ DevsOf(c)
         /\ PrepareDownRest(c)
         /\ todo' = todo \ {c}
  /\ UNCHANGED <<hardware, pc, err, sib, exiting, silent, doubled, held, bufs,
                 readers, plugVars, opened, raced>>

\* ... and put_online_cpus.
UndoHotplugEnd ==
  /\ todo = {}
  /\ At("removing", "unchrdev")
  /\ Release({"hotplug"}) /\ readers' = readers - 1
  /\ LoaderOnly /\ UNCHANGED <<err, todo, sib, silent, bufs, nodes, msrVars>>

\* unregister_ibs_chrdev.
UndoChrdev ==
  /\ At("unchrdev", "free")
  /\ Release({"chrdev"})
  /\ LoaderOnly
  /\ UNCHANGED <<err, todo, sib, silent, bufs, nodes, readers, msrVars>>

\* destroy_ibs_cpu_structs.  ibs_init returns after it: with err = 0 the
\* kernel keeps the module.
UndoStructs ==
  /\ At("free", IF exiting THEN "unclass" ELSE IF err THEN "none" ELSE "loaded")
  /\ Release({"op_dev", "fetch_dev", "wa"}) /\ bufs' = {}
  /\ IfZen(StopStatic(Cpus))
  /\ LoaderOnly /\ UNCHANGED <<err, todo, sib, silent, nodes, readers>>

\* destroy_ibs_class, in ibs_exit only.
UndoClass ==
  /\ At("unclass", "none")
  /\ Release({"class"})
  /\ LoaderOnly
  /\ UNCHANGED <<err, todo, sib, silent, bufs, nodes, readers, msrVars>>

Loader ==
  \/ LoadStart \/ LoadStatic \/ LoadReadd \/ LoadFeatures \/ LoadAlloc
  \/ LoadBuffers \/ LoadChrdev \/ LoadClass \/ LoadGetCpus \/ LoadCpuhp
  \/ LoadOnline \/ LoadOnlineEnd \/ LoadNmi
  \/ ExitStart \/ UndoDevices \/ UndoHotplug \/ UndoOnline \/ UndoHotplugEnd
  \/ UndoChrdev \/ UndoStructs \/ UndoClass

-----------------------------------------------------------------------------
(* CPU hotplug: one transition at a time, none while the CPUs are held.    *)

PlugOnly == UNCHANGED <<hardware, loadVars, held, bufs, readers, opened, raced>>
PlugBegin == plug = Idle /\ readers = 0 /\ plugs < MaxPlug /\ plugs' = plugs + 1
Go(c, l) == plug' = IF l = "idle" THEN Idle ELSE [cpu |-> c, at |-> l]
Callback == "hotplug" \in held

DownBegin(c) ==
  /\ PlugBegin /\ c \in online /\ online # {c}
  /\ Go(c, IF Callback THEN "disable" ELSE "skipped")
  /\ PlugOnly /\ UNCHANGED <<online, missed, nodes, msrVars, hw>>

\* ibs_prepare_down disables both devices, without their ctl_lock ...
DownDisableOp ==
  /\ plug.at = "disable" /\ Go(plug.cpu, "stop")
  /\ hw' = hw \ {<<plug.cpu, "op">>}
  /\ PlugOnly /\ UNCHANGED <<online, plugs, missed, nodes, msrVars>>
DownDisable ==
  /\ plug.at = "disable" /\ Go(plug.cpu, "stop")
  /\ hw' = hw \ DevsOf(plug.cpu)
  /\ PlugOnly /\ UNCHANGED <<online, plugs, missed, nodes, msrVars>>

\* ... and then stops the workaround and destroys the nodes.
DownStop ==
  /\ plug.at = "stop" /\ Go(plug.cpu, "done")
  /\ PrepareDownRest(plug.cpu)
  /\ PlugOnly /\ UNCHANGED <<online, plugs, missed, hw>>

DownDead ==
  /\ plug.at \in {"skipped", "done"} /\ Go(plug.cpu, "idle")
  /\ online' = online \ {plug.cpu}
  /\ missed' = IF plug.at = "skipped" THEN missed \cup ({plug.cpu} \cap cpuid)
                                     ELSE missed
  /\ PlugOnly /\ UNCHANGED <<plugs, nodes, msrVars, hw>>

UpBegin(c) ==
  /\ PlugBegin /\ c \notin online
  /\ online' = online \cup {c}
  /\ Go(c, IF Callback THEN "up" ELSE "idle")
  /\ PlugOnly /\ UNCHANGED <<missed, nodes, msrVars, hw>>

\* ibs_online_up.  Taking a sibling down waits for this transition to end.
UpOnline ==
  /\ plug.at = "up"
  /\ LET c == plug.cpu
     IN  /\ PrepareUp(c)
         /\ IF zen /\ MustTakeDown(c)
            THEN Go(c, "stuck") /\ cpuid' = cpuid \cup {c} /\ wa2' = wa2
            ELSE Go(c, "idle") /\ IfZen(StartStatic(c))
  /\ PlugOnly /\ UNCHANGED <<online, plugs, missed, hw>>

Hotplug == \/ \E c \in Cpus : DownBegin(c) \/ UpBegin(c)
           \/ DownDisable \/ DownStop \/ DownDead \/ UpOnline

-----------------------------------------------------------------------------
(* Users.                                                                  *)

UserOnly == UNCHANGED <<hardware, loadVars, held, bufs, nodes, readers,
                        plugVars, msrVars>>

\* The kernel opens no file of a module that is being unloaded.
Open(d) ==
  /\ d \in nodes \ opened /\ ~exiting
  /\ Cardinality(opened) < MaxOpen
  /\ opened' = opened \cup {d}
  /\ UserOnly /\ UNCHANGED <<hw, raced>>

\* ibs_prepare_down has disabled the CPU's devices, in a transition or in the
\* removal of the callbacks.
PastDisable(c) ==
  \/ plug.cpu = c /\ plug.at \in {"stop", "done"}
  \/ pc = "removing" /\ c \notin todo
  \/ pc \in {"unchrdev", "free"}

\* IBS_ENABLE: the register write fails silently on a CPU that is offline.
\* Calls into a module that is gone (a file opened while a load was failing)
\* are undefined and not modelled.
Enable(d) ==
  /\ d \in opened /\ pc # "none"
  /\ hw' = IF d[1] \in online THEN hw \cup {d} ELSE hw
  /\ raced' = IF PastDisable(d[1]) THEN raced \cup {d} ELSE raced
  /\ UserOnly /\ UNCHANGED opened

\* ibs_release, which disables the device first.
CloseEnabled(d) ==
  /\ d \in opened /\ pc # "none"
  /\ opened' = opened \ {d}
  /\ UserOnly /\ UNCHANGED <<hw, raced>>
Close(d) ==
  /\ d \in opened /\ pc # "none"
  /\ opened' = opened \ {d}
  /\ hw' = IF d[1] \in online THEN hw \ {d} ELSE hw
  /\ UserOnly /\ UNCHANGED raced

User == \E d \in Devs : Open(d) \/ Enable(d) \/ Close(d)

Next == Loader \/ Hotplug \/ User

Spec == Init /\ [][Next]_vars
-----------------------------------------------------------------------------
(* Properties.                                                             *)

\* Whatever a user can reach is there: while a device node or an open file
\* exists, the devices' structures and buffers are allocated and the character
\* device is registered, through hotplug and unloading (ibs_init creates nodes
\* last, ibs_exit removes them first).  The exception is a load that fails at
\* its last step, after users could open a node.
UsersBacked ==
  nodes # {} \/ (opened # {} /\ ~err) =>
    {"op_dev", "fetch_dev", "wa", "chrdev", "class"} \subseteq held /\ bufs = Devs

\* No device samples without the NMI handler from the end of ibs_init on, also
\* while ibs_exit, which removes the handler first, is running: otherwise the
\* kernel would see unknown NMIs.  A device enabled on a CPU that was already
\* past its disable in ibs_prepare_down may sample.
SamplingHasHandler ==
  pc = "loaded" \/ exiting => "nmi" \in held \/ hw \subseteq raced

\* Every release, on all error paths of ibs_init and in ibs_exit, is of
\* something held, unless a step failed without setting err: then ibs_init
\* reports success after releasing everything and ibs_exit releases it again.
NoDoubleRelease == doubled => silent

\* After ibs_exit nothing is held, no node is left and no workaround bit is set
\* on any CPU, online or not, whatever hotplug did in between, except on CPUs
\* that went down between the start of the workaround and the registration of
\* the hotplug callbacks.
UnloadRestores ==
  pc = "none" /\ exiting =>
    /\ held = {} /\ bufs = {} /\ nodes = {}
    /\ cpuid \subseteq missed /\ wa2 \subseteq {Core(c) : c \in missed}

\* ibs-core.c 274-277: a CPU that is down keeps no workaround state and no
\* enabled device, unless the device was enabled after ibs_prepare_down had
\* disabled it (it takes no ctl_lock), or the callback was not registered.
DownIsClean ==
  \A c \in Cpus \ online :
    /\ DevsOf(c) \cap hw \subseteq raced
    /\ c \notin cpuid \/ c \in missed
    /\ Core(c) \in wa2 => \/ \E k \in online : Core(k) = Core(c)
                          \/ \E k \in missed : Core(k) = Core(c)

\* "This will also prevent us from trying to perform cpu_down on any
\* neighboring cores while we are in a hotplug transition": no callback takes a
\* sibling down.  Violated: see the run hotplug_deadlock.
NoOfflineInTransition == pc # "stuck" /\ plug.at # "stuck"
=============================================================================
