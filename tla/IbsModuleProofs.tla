-------------------------- MODULE IbsModuleProofs --------------------------
(***************************************************************************)
(* Proofs about IbsModule for any number of CPUs and SMT threads per core, *)
(* any number of hotplug transitions and of open files.                    *)
(***************************************************************************)
EXTENDS IbsModule, WellFoundedInduction, TLAPS

Resources == {"op_dev", "fetch_dev", "wa", "chrdev", "class", "hotplug", "nmi"}
Structs == {"op_dev", "fetch_dev", "wa"}

\* Types of the sets, of the masks and of the transition in progress.
ModTypeOK ==
  /\ zen \in BOOLEAN /\ features \subseteq Flavors
  /\ err \in BOOLEAN /\ exiting \in BOOLEAN
  /\ silent \in BOOLEAN /\ doubled \in BOOLEAN
  /\ todo \subseteq Cpus /\ online \subseteq Cpus
  /\ pc = "readd" => sib \in Cpus
  /\ held \subseteq Resources /\ readers \in Nat /\ plugs \in Nat
  /\ opened \subseteq Devs /\ hw \subseteq Devs
  /\ \/ plug = Idle
     \/ /\ plug.cpu \in online
        /\ plug.at \in {"disable", "stop", "done", "skipped", "up", "stuck"}

\* What the driver holds at each statement.  While the hotplug callbacks are
\* registered everything under them is there; without a silent failure the
\* error path and ibs_exit find what they are about to release.
HeldInv ==
  /\ "hotplug" \in held =>
       /\ Structs \cup {"chrdev", "class"} \subseteq held /\ bufs = Devs
       /\ pc \in {"nmi", "loaded", "undevices", "unplug", "removing"}
       /\ ~silent
  /\ pc \in {"cpuhp", "online", "stuck"} =>
       Structs \cup {"chrdev", "class"} \subseteq held /\ bufs = Devs
  /\ pc \in {"nmi", "undevices"} => "hotplug" \in held
  /\ pc \in {"loaded", "unplug", "removing"} /\ ~silent => "hotplug" \in held
  /\ pc = "loaded" /\ ~silent => "nmi" \in held
  /\ pc \in {"buffers", "chrdev", "class", "cpus"} => Structs \subseteq held
  /\ pc \in {"class", "cpus"} => "chrdev" \in held
  /\ pc \in {"chrdev", "class", "cpus"} => bufs = Devs
  /\ pc = "cpus" => "class" \in held
  /\ pc = "unchrdev" /\ ~silent => Structs \cup {"chrdev"} \subseteq held
  /\ pc = "free" /\ ~silent => Structs \subseteq held
  /\ exiting /\ pc # "none" /\ ~silent => "class" \in held

\* What it no longer holds, and which path it is on.
PathInv ==
  /\ pc \in {"start", "check", "readd", "alloc", "buffers", "chrdev", "class",
             "cpus", "cpuhp", "online", "stuck", "nmi"} => ~silent /\ ~err
  /\ pc \in {"start", "check", "readd", "alloc", "buffers", "chrdev"} =>
       held \subseteq Structs
  /\ pc \in {"class", "cpus", "cpuhp", "online", "stuck", "nmi"} => "nmi" \notin held
  /\ exiting => /\ pc \in {"unplug", "removing", "unchrdev", "free", "unclass", "none"}
                /\ "nmi" \notin held
  /\ pc = "unclass" => exiting
  /\ pc \in {"undevices", "unplug", "removing", "unchrdev", "free"} /\ ~exiting =>
       (err \/ silent) /\ "nmi" \notin held
  /\ pc \in {"free", "unclass"} => "chrdev" \notin held
  /\ pc = "unclass" => held \subseteq {"class"} /\ bufs = {}
  /\ pc = "loaded" => ~err

\* get_online_cpus keeps the hotplug machinery idle; the driver's callbacks run
\* only while they are registered.
PlugInv ==
  /\ readers > 0 => plug = Idle
  /\ pc \in {"cpuhp", "online", "stuck", "removing"} => readers > 0
  /\ plug.at \in {"disable", "stop", "done", "up", "stuck"} => "hotplug" \in held
  /\ plug.at = "skipped" => "hotplug" \notin held
  /\ pc = "removing" /\ "hotplug" \notin held => todo = {}

\* Nodes, open files and sampling devices: there are none before the callbacks
\* run, and after their removal only devices enabled behind its back sample.
UserInv ==
  /\ nodes \subseteq online \X features
  /\ "hotplug" \notin held /\ pc \notin {"online", "stuck"} => nodes = {} /\ hw \subseteq raced
  /\ "hotplug" \notin held /\ pc \notin {"online", "stuck", "unchrdev", "free", "none"} =>
       opened = {}
  /\ pc \in {"start", "check", "readd"} => hw = {}
  /\ opened # {} /\ ~err => "hotplug" \in held \/ pc \in {"online", "stuck"}
  /\ exiting => opened = {}
  /\ hw \subseteq opened \cup raced
  /\ \A c \in Cpus \ online : DevsOf(c) \cap hw \subseteq raced
  /\ plug.at = "done" => nodes \cap DevsOf(plug.cpu) = {}
  /\ plug.at \in {"stop", "done"} => hw \cap DevsOf(plug.cpu) \subseteq raced
  /\ pc = "removing" =>
       \A c \in online \ todo : nodes \cap DevsOf(c) = {} /\ hw \cap DevsOf(c) \subseteq raced

\* The workaround's registers: a core keeps WA_2 only while one of its CPUs has
\* the CPUID bit and is online, or left it behind unseen.  The callbacks find
\* the CPUID bit on every online CPU, and visit the CPUs in ascending order.
MsrInv ==
  /\ ~zen => wa2 = {} /\ cpuid = {}
  /\ ~zen /\ pc \in {"check", "readd"} => todo = {}
  /\ pc \in {"start", "check", "readd"} => \A c \in cpuid : Core(c) \in wa2
  /\ cpuid \subseteq online \cup missed
  /\ \A n \in wa2 : \E k \in (cpuid \cap online) \cup missed : Core(k) = n
  /\ plug.at = "done" => plug.cpu \notin cpuid
  /\ pc \in {"online", "removing"} => todo \subseteq online
  /\ zen /\ pc = "online" => online \ todo \subseteq cpuid
  /\ zen /\ "hotplug" \in held /\ pc # "removing" =>
       \A c \in online : c \in cpuid \/ plug = [cpu |-> c, at |-> "up"]
                                     \/ plug = [cpu |-> c, at |-> "done"]
  /\ pc = "removing" /\ "hotplug" \in held =>
       \A c \in online \ todo : Core(c) \notin wa2 /\ \A t \in todo : c < t
  /\ exiting /\ pc \in {"unclass", "none"} =>
       cpuid \subseteq missed /\ wa2 \subseteq {Core(c) : c \in missed}

\* The inductive invariant.
ModInv ==
  /\ ModTypeOK
  /\ HeldInv
  /\ PathInv
  /\ PlugInv
  /\ UserInv
  /\ MsrInv
  /\ NoDoubleRelease
  /\ UnloadRestores
-----------------------------------------------------------------------------
(* Facts about the operators of the model.                                 *)

\* The natural numbers are well ordered.
LEMMA LeastCpu ==
  ASSUME NEW T, T \subseteq Nat, T # {}
  PROVE  Min(T) \in T /\ \A y \in T : Min(T) <= y
  <1>1. \E R : /\ IsWellFoundedOn(R, Nat)
               /\ \A x, y \in Nat : <<y, x>> \in R <=> y < x
    <2>1. \A x, y \in Nat : <<y, x>> \in OpToRel(<, Nat) <=> y < x
      BY DEF OpToRel
    <2> QED BY <2>1, NatLessThanWellFounded
  <1>2. PICK R : /\ IsWellFoundedOn(R, Nat)
                 /\ \A x, y \in Nat : <<y, x>> \in R <=> y < x
    BY <1>1
  <1>3. PICK x \in T : \A y \in T : ~ (<<y, x>> \in R)
    BY <1>2, WFMin
  <1>4. ASSUME NEW y \in T
        PROVE  x <= y
    <2>1. x \in Nat /\ y \in Nat
      OBVIOUS
    <2>2. ~(y < x)
      BY <1>2, <1>3, <2>1
    <2> QED BY <2>1, <2>2
  <1> QED BY <1>3, <1>4 DEF Min

\* CPUs are numbered from 0 on, and the loops take the least of a set.
LEMMA MinCpu ==
  ASSUME NEW T, T \subseteq Cpus, T # {}
  PROVE  /\ Min(T) \in T /\ Min(T) \in Cpus /\ Min(T) \in Nat
         /\ \A y \in T : y \in Nat /\ Min(T) <= y
         /\ \A y \in T \ {Min(T)} : Min(T) < y
  <1>1. T \subseteq Nat
    BY ModAssumption DEF Cpus
  <1>2. Min(T) \in T /\ \A y \in T : Min(T) <= y
    BY <1>1, LeastCpu
  <1>3. ASSUME NEW y \in T, y # Min(T)
        PROVE  Min(T) < y
    <2>1. Min(T) \in Nat /\ y \in Nat /\ Min(T) <= y
      BY <1>1, <1>2
    <2> QED BY <1>3, <2>1
  <1>4. Min(T) \in Nat /\ Min(T) \in Cpus /\ \A y \in T : y \in Nat
    BY <1>1, <1>2
  <1> QED BY <1>2, <1>3, <1>4

\* A set of CPUs has a greatest one.
LEMMA MaxCpu ==
  ASSUME NEW T, T \subseteq Cpus, T # {}
  PROVE  Max(T) \in T
  <1> DEFINE Above == {n \in Nat : \A y \in T : y <= n}
  <1>1. T \subseteq Nat /\ \A y \in T : y <= NumCpus
    BY ModAssumption DEF Cpus
  <1>2. Above \subseteq Nat /\ Above # {}
    BY <1>1, ModAssumption
  <1>3. Min(Above) \in Above /\ \A n \in Above : Min(Above) <= n
    <2> HIDE DEF Above
    <2> QED BY <1>2, LeastCpu
  <1> DEFINE m == Min(Above)
  <1>4. m \in Nat /\ \A y \in T : y <= m
    BY <1>3
  <1>5. \A n \in Nat : (\A y \in T : y <= n) => m <= n
    BY <1>3
  <1> HIDE DEF m
  <1>6. m \in T
    <2> SUFFICES ASSUME m \notin T PROVE FALSE
      OBVIOUS
    <2>1. \A y \in T : y \in Nat /\ y < m
      BY <1>1, <1>4
    <2>2. m # 0
      BY <2>1
    <2>3. m - 1 \in Nat /\ \A y \in T : y <= m - 1
      BY <2>1, <2>2, <1>4
    <2> QED BY <2>3, <1>4, <1>5
  <1>7. m \in T /\ \A y \in T : m >= y
    BY <1>1, <1>4, <1>6
  <1> QED BY <1>7 DEF Max

\* A CPU's devices are those whose first component it is.
LEMMA DevFacts ==
  /\ \A d \in Devs : d[1] \in Cpus /\ d \in DevsOf(d[1])
  /\ \A c : \A d \in DevsOf(c) : d[1] = c
  /\ \A c \in Cpus : DevsOf(c) \subseteq Devs
  BY DEF Devs, DevsOf

\* The least sibling of an online CPU is online, on its core, and its own least
\* sibling: stopping the workaround on it resets the core's bits.
LEMMA LeastSibling ==
  ASSUME online \subseteq Cpus, NEW k \in online
  PROVE  \E m \in online : /\ m = Min(SiblingMask(m)) /\ Core(m) = Core(k)
                           /\ m = k \/ m < k
  <1>1. SiblingMask(k) \subseteq Cpus /\ k \in SiblingMask(k)
    BY DEF SiblingMask
  <1> DEFINE m == Min(SiblingMask(k))
  <1>2. m \in SiblingMask(k) /\ (m = k \/ m < k)
    BY <1>1, MinCpu
  <1>3. SiblingMask(m) = SiblingMask(k)
    BY <1>2 DEF SiblingMask
  <1>4. m = Min(SiblingMask(m)) /\ m \in online /\ Core(m) = Core(k)
    BY <1>2, <1>3 DEF SiblingMask
  <1> QED BY <1>2, <1>4

-----------------------------------------------------------------------------
(* Every action preserves the invariant.                                   *)

USE DEF hardware, loadVars, plugVars, msrVars, userVars

LEMMA LoadStartInv ==
  ASSUME ModInv, LoadStart
  PROVE  ModInv'
  <1>1. ModTypeOK'
    BY DEF ModInv, LoadStart, At, LoaderOnly, ModTypeOK, PlugInv, MsrInv,
           Resources, Structs, Idle, Go
  <1>2. HeldInv'
    BY DEF ModInv, LoadStart, At, LoaderOnly, HeldInv, ModTypeOK, PathInv,
           Structs
  <1>3. PathInv'
    BY DEF ModInv, LoadStart, At, LoaderOnly, PathInv, ModTypeOK, HeldInv,
           Structs, Resources
  <1>4. PlugInv'
    BY DEF ModInv, LoadStart, At, LoaderOnly, PlugInv, ModTypeOK, HeldInv, Idle
  <1>5. UserInv'
    BY DEF ModInv, LoadStart, At, LoaderOnly, UserInv, ModTypeOK, HeldInv,
           PathInv, PlugInv, MsrInv, DevsOf, Idle
  <1>6. MsrInv'
    BY DEF ModInv, LoadStart, At, LoaderOnly, MsrInv, ModTypeOK, HeldInv,
           PathInv, PlugInv, Idle
  <1>7. NoDoubleRelease' /\ UnloadRestores'
    BY DEF ModInv, LoadStart, At, LoaderOnly, NoDoubleRelease, UnloadRestores,
           ModTypeOK, HeldInv, PathInv, PlugInv, UserInv, MsrInv, Structs
  <1> QED BY <1>1, <1>2, <1>3, <1>4, <1>5, <1>6, <1>7 DEF ModInv

\* The sibling comes back before any callback is registered.
LEMMA LoadReaddInv ==
  ASSUME ModInv, LoadReadd
  PROVE  ModInv'
  <1>1. ModTypeOK'
    BY DEF ModInv, LoadReadd, At, ModTypeOK, PlugInv, MsrInv, Resources,
           Structs, Idle, Go
  <1>2. HeldInv'
    BY DEF ModInv, LoadReadd, At, HeldInv, ModTypeOK, PathInv, Structs
  <1>3. PathInv'
    BY DEF ModInv, LoadReadd, At, PathInv, ModTypeOK, HeldInv, Structs,
           Resources
  <1>4. PlugInv'
    BY DEF ModInv, LoadReadd, At, PlugInv, ModTypeOK, HeldInv, Idle
  <1>5. UserInv'
    BY DEF ModInv, LoadReadd, At, UserInv, ModTypeOK, HeldInv, PathInv,
           PlugInv, MsrInv, DevsOf, Idle
  <1>6. MsrInv'
    <2>1. ~zen' => wa2' = {} /\ cpuid' = {}
      BY DEF ModInv, LoadReadd, At, Idle, ModTypeOK, HeldInv, PathInv, PlugInv,
             MsrInv
    <2>2. ~zen' /\ pc' \in {"check", "readd"} => todo' = {}
      BY DEF ModInv, LoadReadd, At, Idle, ModTypeOK, HeldInv, PathInv, PlugInv,
             MsrInv
    <2>3. pc' \in {"start", "check", "readd"} => \A x \in cpuid' : Core(x) \in wa2'
      BY DEF ModInv, LoadReadd, At, Idle, ModTypeOK, HeldInv, PathInv, PlugInv,
             MsrInv
    <2>4. cpuid' \subseteq online' \cup missed'
      BY DEF ModInv, LoadReadd, At, Idle, ModTypeOK, HeldInv, PathInv, PlugInv,
             MsrInv
    <2>5. \A n \in wa2' : \E k \in (cpuid' \cap online') \cup missed' : Core(k) = n
      BY DEF ModInv, LoadReadd, At, Idle, ModTypeOK, HeldInv, PathInv, PlugInv,
             MsrInv
    <2>6. plug'.at = "done" => plug'.cpu \notin cpuid'
      BY DEF ModInv, LoadReadd, At, Idle, ModTypeOK, HeldInv, PathInv, PlugInv,
             MsrInv
    <2>7. pc' \in {"online", "removing"} => todo' \subseteq online'
      BY DEF ModInv, LoadReadd, At, Idle, ModTypeOK, HeldInv, PathInv, PlugInv,
             MsrInv
    <2>8. zen' /\ pc' = "online" => online' \ todo' \subseteq cpuid'
      BY DEF ModInv, LoadReadd, At, Idle, ModTypeOK, HeldInv, PathInv, PlugInv,
             MsrInv
    <2>9. zen' /\ "hotplug" \in held' /\ pc' # "removing" =>
            \A x \in online' : x \in cpuid' \/ plug' = [cpu |-> x, at |-> "up"]
                                           \/ plug' = [cpu |-> x, at |-> "done"]
      BY DEF ModInv, LoadReadd, At, Idle, ModTypeOK, HeldInv, PathInv, PlugInv,
             MsrInv
    <2>10. pc' = "removing" /\ "hotplug" \in held' =>
            \A x \in online' \ todo' : Core(x) \notin wa2' /\ \A t \in todo' : x < t
      BY DEF ModInv, LoadReadd, At, Idle, ModTypeOK, HeldInv, PathInv, PlugInv,
             MsrInv
    <2>11. exiting' /\ pc' \in {"unclass", "none"} =>
            cpuid' \subseteq missed' /\ wa2' \subseteq {Core(x) : x \in missed'}
      BY DEF ModInv, LoadReadd, At, Idle, ModTypeOK, HeldInv, PathInv, PlugInv,
             MsrInv
    <2> QED BY <2>1, <2>2, <2>3, <2>4, <2>5, <2>6, <2>7, <2>8, <2>9, <2>10,
               <2>11 DEF MsrInv
  <1>7. NoDoubleRelease' /\ UnloadRestores'
    BY DEF ModInv, LoadReadd, At, NoDoubleRelease, UnloadRestores, ModTypeOK,
           HeldInv, PathInv, PlugInv, UserInv, MsrInv, Structs
  <1> QED BY <1>1, <1>2, <1>3, <1>4, <1>5, <1>6, <1>7 DEF ModInv

LEMMA LoadFeaturesInv ==
  ASSUME ModInv, LoadFeatures
  PROVE  ModInv'
  <1>1. ModTypeOK'
    BY DEF ModInv, LoadFeatures, At, LoaderOnly, FailTo, StepTo, ModTypeOK,
           PlugInv, MsrInv, Resources, Structs, Idle, Go
  <1>2. HeldInv'
    BY DEF ModInv, LoadFeatures, At, LoaderOnly, FailTo, StepTo, HeldInv,
           ModTypeOK, PathInv, Structs
  <1>3. PathInv'
    BY DEF ModInv, LoadFeatures, At, LoaderOnly, FailTo, StepTo, PathInv,
           ModTypeOK, HeldInv, Structs, Resources
  <1>4. PlugInv'
    BY DEF ModInv, LoadFeatures, At, LoaderOnly, FailTo, StepTo, PlugInv,
           ModTypeOK, HeldInv, Idle
  <1>5. UserInv'
    BY DEF ModInv, LoadFeatures, At, LoaderOnly, FailTo, StepTo, UserInv,
           ModTypeOK, HeldInv, PathInv, PlugInv, MsrInv, DevsOf, Idle
  <1>6. MsrInv'
    BY DEF ModInv, LoadFeatures, At, LoaderOnly, FailTo, StepTo, MsrInv,
           ModTypeOK, HeldInv, PathInv, PlugInv, Idle
  <1>7. NoDoubleRelease' /\ UnloadRestores'
    BY DEF ModInv, LoadFeatures, At, LoaderOnly, FailTo, StepTo,
           NoDoubleRelease, UnloadRestores, ModTypeOK, HeldInv, PathInv,
           PlugInv, UserInv, MsrInv, Structs
  <1> QED BY <1>1, <1>2, <1>3, <1>4, <1>5, <1>6, <1>7 DEF ModInv

LEMMA LoadAllocInv ==
  ASSUME ModInv, LoadAlloc
  PROVE  ModInv'
  <1>1. ModTypeOK'
    BY DEF ModInv, LoadAlloc, At, LoaderOnly, FailTo, StepTo, ModTypeOK,
           PlugInv, MsrInv, Resources, Structs, Idle, Go
  <1>2. HeldInv'
    BY DEF ModInv, LoadAlloc, At, LoaderOnly, FailTo, StepTo, HeldInv,
           ModTypeOK, PathInv, Structs
  <1>3. PathInv'
    <2>1. CASE StepTo("alloc", "buffers") /\ held' = held \cup Structs
      BY <2>1
         DEF ModInv, LoadAlloc, At, LoaderOnly, StepTo, PathInv, HeldInv, Structs,
             Resources
    <2>2. CASE FailTo("alloc", "none", TRUE)
      <3>1. exiting' = FALSE /\ pc' = "none"
        BY <2>2
           DEF ModInv, LoadAlloc, At, LoaderOnly, FailTo, PathInv, ModTypeOK,
               HeldInv, Structs
      <3> QED BY <3>1 DEF PathInv
    <2> QED BY <2>1, <2>2 DEF LoadAlloc, Structs
  <1>4. PlugInv'
    BY DEF ModInv, LoadAlloc, At, LoaderOnly, FailTo, StepTo, PlugInv,
           ModTypeOK, HeldInv, Idle
  <1>5. UserInv'
    BY DEF ModInv, LoadAlloc, At, LoaderOnly, FailTo, StepTo, UserInv,
           ModTypeOK, HeldInv, PathInv, PlugInv, MsrInv, DevsOf, Idle
  <1>6. MsrInv'
    BY DEF ModInv, LoadAlloc, At, LoaderOnly, FailTo, StepTo, MsrInv,
           ModTypeOK, HeldInv, PathInv, PlugInv, Idle
  <1>7. NoDoubleRelease' /\ UnloadRestores'
    BY DEF ModInv, LoadAlloc, At, LoaderOnly, FailTo, StepTo, NoDoubleRelease,
           UnloadRestores, ModTypeOK, HeldInv, PathInv, PlugInv, UserInv,
           MsrInv, Structs
  <1> QED BY <1>1, <1>2, <1>3, <1>4, <1>5, <1>6, <1>7 DEF ModInv

LEMMA LoadBuffersInv ==
  ASSUME ModInv, LoadBuffers
  PROVE  ModInv'
  <1>1. ModTypeOK'
    BY DEF ModInv, LoadBuffers, At, LoaderOnly, FailTo, StepTo, ModTypeOK,
           PlugInv, MsrInv, Resources, Structs, Idle, Go
  <1>2. HeldInv'
    BY DEF ModInv, LoadBuffers, At, LoaderOnly, FailTo, StepTo, HeldInv,
           ModTypeOK, PathInv, Structs
  <1>3. PathInv'
    BY DEF ModInv, LoadBuffers, At, LoaderOnly, FailTo, StepTo, PathInv,
           ModTypeOK, HeldInv, Structs, Resources
  <1>4. PlugInv'
    BY DEF ModInv, LoadBuffers, At, LoaderOnly, FailTo, StepTo, PlugInv,
           ModTypeOK, HeldInv, Idle
  <1>5. UserInv'
    BY DEF ModInv, LoadBuffers, At, LoaderOnly, FailTo, StepTo, UserInv,
           ModTypeOK, HeldInv, PathInv, PlugInv, MsrInv, DevsOf, Idle
  <1>6. MsrInv'
    BY DEF ModInv, LoadBuffers, At, LoaderOnly, FailTo, StepTo, MsrInv,
           ModTypeOK, HeldInv, PathInv, PlugInv, Idle
  <1>7. NoDoubleRelease' /\ UnloadRestores'
    BY DEF ModInv, LoadBuffers, At, LoaderOnly, FailTo, StepTo,
           NoDoubleRelease, UnloadRestores, ModTypeOK, HeldInv, PathInv,
           PlugInv, UserInv, MsrInv, Structs
  <1> QED BY <1>1, <1>2, <1>3, <1>4, <1>5, <1>6, <1>7 DEF ModInv

\* A failure here is silent: the error path will not find what it releases.
LEMMA LoadChrdevInv ==
  ASSUME ModInv, LoadChrdev
  PROVE  ModInv'
  <1>1. ModTypeOK'
    BY DEF ModInv, LoadChrdev, At, LoaderOnly, FailTo, StepTo, ModTypeOK,
           PlugInv, MsrInv, Resources, Structs, Idle, Go
  <1>2. HeldInv'
    BY DEF ModInv, LoadChrdev, At, LoaderOnly, FailTo, StepTo, HeldInv,
           ModTypeOK, PathInv, Structs
  <1>3. PathInv'
    <2>1. CASE StepTo("chrdev", "class") /\ held' = held \cup {"chrdev"}
      BY <2>1
         DEF ModInv, LoadChrdev, At, LoaderOnly, StepTo, PathInv, HeldInv, Structs,
             Resources
    <2>2. CASE FailTo("chrdev", "free", FALSE) /\ held' = held
      <3>1. /\ exiting' = FALSE /\ pc' = "free" /\ silent' = TRUE
            /\ held' \subseteq Structs /\ "nmi" \notin held' /\ "chrdev" \notin held'
        BY <2>2
           DEF ModInv, LoadChrdev, At, LoaderOnly, FailTo, PathInv, ModTypeOK,
               HeldInv, Structs
      <3> QED BY <3>1 DEF PathInv
    <2> QED BY <2>1, <2>2 DEF LoadChrdev
  <1>4. PlugInv'
    BY DEF ModInv, LoadChrdev, At, LoaderOnly, FailTo, StepTo, PlugInv,
           ModTypeOK, HeldInv, Idle
  <1>5. UserInv'
    BY DEF ModInv, LoadChrdev, At, LoaderOnly, FailTo, StepTo, UserInv,
           ModTypeOK, HeldInv, PathInv, PlugInv, MsrInv, DevsOf, Idle
  <1>6. MsrInv'
    BY DEF ModInv, LoadChrdev, At, LoaderOnly, FailTo, StepTo, MsrInv,
           ModTypeOK, HeldInv, PathInv, PlugInv, Idle
  <1>7. NoDoubleRelease' /\ UnloadRestores'
    BY DEF ModInv, LoadChrdev, At, LoaderOnly, FailTo, StepTo, NoDoubleRelease,
           UnloadRestores, ModTypeOK, HeldInv, PathInv, PlugInv, UserInv,
           MsrInv, Structs
  <1> QED BY <1>1, <1>2, <1>3, <1>4, <1>5, <1>6, <1>7 DEF ModInv

LEMMA LoadClassInv ==
  ASSUME ModInv, LoadClass
  PROVE  ModInv'
  <1>1. ModTypeOK'
    BY DEF ModInv, LoadClass, At, LoaderOnly, FailTo, StepTo, ModTypeOK,
           PlugInv, MsrInv, Resources, Structs, Idle, Go
  <1>2. HeldInv'
    BY DEF ModInv, LoadClass, At, LoaderOnly, FailTo, StepTo, HeldInv,
           ModTypeOK, PathInv, Structs
  <1>3. PathInv'
    BY DEF ModInv, LoadClass, At, LoaderOnly, FailTo, StepTo, PathInv,
           ModTypeOK, HeldInv, Structs, Resources
  <1>4. PlugInv'
    BY DEF ModInv, LoadClass, At, LoaderOnly, FailTo, StepTo, PlugInv,
           ModTypeOK, HeldInv, Idle
  <1>5. UserInv'
    BY DEF ModInv, LoadClass, At, LoaderOnly, FailTo, StepTo, UserInv,
           ModTypeOK, HeldInv, PathInv, PlugInv, MsrInv, DevsOf, Idle
  <1>6. MsrInv'
    BY DEF ModInv, LoadClass, At, LoaderOnly, FailTo, StepTo, MsrInv,
           ModTypeOK, HeldInv, PathInv, PlugInv, Idle
  <1>7. NoDoubleRelease' /\ UnloadRestores'
    BY DEF ModInv, LoadClass, At, LoaderOnly, FailTo, StepTo, NoDoubleRelease,
           UnloadRestores, ModTypeOK, HeldInv, PathInv, PlugInv, UserInv,
           MsrInv, Structs
  <1> QED BY <1>1, <1>2, <1>3, <1>4, <1>5, <1>6, <1>7 DEF ModInv

LEMMA LoadGetCpusInv ==
  ASSUME ModInv, LoadGetCpus
  PROVE  ModInv'
  <1>1. ModTypeOK'
    BY DEF ModInv, LoadGetCpus, At, LoaderOnly, StepTo, ModTypeOK, PlugInv,
           MsrInv, Resources, Structs, Idle, Go
  <1>2. HeldInv'
    BY DEF ModInv, LoadGetCpus, At, LoaderOnly, StepTo, HeldInv, ModTypeOK,
           PathInv, Structs
  <1>3. PathInv'
    BY DEF ModInv, LoadGetCpus, At, LoaderOnly, StepTo, PathInv, ModTypeOK,
           HeldInv, Structs, Resources
  <1>4. PlugInv'
    BY DEF ModInv, LoadGetCpus, At, LoaderOnly, StepTo, PlugInv, ModTypeOK,
           HeldInv, Idle
  <1>5. UserInv'
    BY DEF ModInv, LoadGetCpus, At, LoaderOnly, StepTo, UserInv, ModTypeOK,
           HeldInv, PathInv, PlugInv, MsrInv, DevsOf, Idle
  <1>6. MsrInv'
    BY DEF ModInv, LoadGetCpus, At, LoaderOnly, StepTo, MsrInv, ModTypeOK,
           HeldInv, PathInv, PlugInv, Idle
  <1>7. NoDoubleRelease' /\ UnloadRestores'
    BY DEF ModInv, LoadGetCpus, At, LoaderOnly, StepTo, NoDoubleRelease,
           UnloadRestores, ModTypeOK, HeldInv, PathInv, PlugInv, UserInv,
           MsrInv, Structs
  <1> QED BY <1>1, <1>2, <1>3, <1>4, <1>5, <1>6, <1>7 DEF ModInv

LEMMA LoadCpuhpInv ==
  ASSUME ModInv, LoadCpuhp
  PROVE  ModInv'
  <1>1. ModTypeOK'
    BY DEF ModInv, LoadCpuhp, At, LoaderOnly, FailTo, ModTypeOK, PlugInv,
           MsrInv, Resources, Structs, Idle, Go
  <1>2. HeldInv'
    BY DEF ModInv, LoadCpuhp, At, LoaderOnly, FailTo, HeldInv, ModTypeOK,
           PathInv, Structs
  <1>3. PathInv'
    <2>1. CASE At("cpuhp", "online") /\ UNCHANGED <<err, sib, silent, doubled>>
      BY <2>1
         DEF ModInv, LoadCpuhp, At, LoaderOnly, StepTo, PathInv, HeldInv, Structs,
             Resources
    <2>2. CASE FailTo("cpuhp", "unchrdev", FALSE)
      <3>1. /\ exiting' = FALSE /\ pc' = "unchrdev" /\ silent' = TRUE
            /\ "nmi" \notin held'
        BY <2>2
           DEF ModInv, LoadCpuhp, At, LoaderOnly, FailTo, PathInv, ModTypeOK,
               HeldInv, Structs
      <3> QED BY <3>1 DEF PathInv
    <2> QED BY <2>1, <2>2 DEF LoadCpuhp
  <1>4. PlugInv'
    BY DEF ModInv, LoadCpuhp, At, LoaderOnly, FailTo, PlugInv, ModTypeOK,
           HeldInv, Idle
  <1>5. UserInv'
    BY DEF ModInv, LoadCpuhp, At, LoaderOnly, FailTo, UserInv, ModTypeOK,
           HeldInv, PathInv, PlugInv, MsrInv, DevsOf, Idle
  <1>6. MsrInv'
    BY DEF ModInv, LoadCpuhp, At, LoaderOnly, FailTo, MsrInv, ModTypeOK,
           HeldInv, PathInv, PlugInv, Idle
  <1>7. NoDoubleRelease' /\ UnloadRestores'
    BY DEF ModInv, LoadCpuhp, At, LoaderOnly, FailTo, NoDoubleRelease,
           UnloadRestores, ModTypeOK, HeldInv, PathInv, PlugInv, UserInv,
           MsrInv, Structs
  <1> QED BY <1>1, <1>2, <1>3, <1>4, <1>5, <1>6, <1>7 DEF ModInv

LEMMA LoadOnlineEndInv ==
  ASSUME ModInv, LoadOnlineEnd
  PROVE  ModInv'
  <1>1. ModTypeOK'
    BY DEF ModInv, LoadOnlineEnd, At, LoaderOnly, StepTo, ModTypeOK, PlugInv,
           MsrInv, Resources, Structs, Idle, Go
  <1>2. HeldInv'
    BY DEF ModInv, LoadOnlineEnd, At, LoaderOnly, StepTo, HeldInv, ModTypeOK,
           PathInv, Structs
  <1>3. PathInv'
    BY DEF ModInv, LoadOnlineEnd, At, LoaderOnly, StepTo, PathInv, ModTypeOK,
           HeldInv, Structs, Resources
  <1>4. PlugInv'
    BY DEF ModInv, LoadOnlineEnd, At, LoaderOnly, StepTo, PlugInv, ModTypeOK,
           HeldInv, Idle
  <1>5. UserInv'
    BY DEF ModInv, LoadOnlineEnd, At, LoaderOnly, StepTo, UserInv, ModTypeOK,
           HeldInv, PathInv, PlugInv, MsrInv, DevsOf, Idle
  <1>6. MsrInv'
    BY DEF ModInv, LoadOnlineEnd, At, LoaderOnly, StepTo, MsrInv, ModTypeOK,
           HeldInv, PathInv, PlugInv, Idle
  <1>7. NoDoubleRelease' /\ UnloadRestores'
    BY DEF ModInv, LoadOnlineEnd, At, LoaderOnly, StepTo, NoDoubleRelease,
           UnloadRestores, ModTypeOK, HeldInv, PathInv, PlugInv, UserInv,
           MsrInv, Structs
  <1> QED BY <1>1, <1>2, <1>3, <1>4, <1>5, <1>6, <1>7 DEF ModInv

LEMMA LoadNmiInv ==
  ASSUME ModInv, LoadNmi
  PROVE  ModInv'
  <1>1. ModTypeOK'
    BY DEF ModInv, LoadNmi, At, LoaderOnly, FailTo, StepTo, ModTypeOK, PlugInv,
           MsrInv, Resources, Structs, Idle, Go
  <1>2. HeldInv'
    BY DEF ModInv, LoadNmi, At, LoaderOnly, FailTo, StepTo, HeldInv, ModTypeOK,
           PathInv, Structs
  <1>3. PathInv'
    BY DEF ModInv, LoadNmi, At, LoaderOnly, FailTo, StepTo, PathInv, ModTypeOK,
           HeldInv, Structs, Resources
  <1>4. PlugInv'
    BY DEF ModInv, LoadNmi, At, LoaderOnly, FailTo, StepTo, PlugInv, ModTypeOK,
           HeldInv, Idle
  <1>5. UserInv'
    BY DEF ModInv, LoadNmi, At, LoaderOnly, FailTo, StepTo, UserInv, ModTypeOK,
           HeldInv, PathInv, PlugInv, MsrInv, DevsOf, Idle
  <1>6. MsrInv'
    BY DEF ModInv, LoadNmi, At, LoaderOnly, FailTo, StepTo, MsrInv, ModTypeOK,
           HeldInv, PathInv, PlugInv, Idle
  <1>7. NoDoubleRelease' /\ UnloadRestores'
    BY DEF ModInv, LoadNmi, At, LoaderOnly, FailTo, StepTo, NoDoubleRelease,
           UnloadRestores, ModTypeOK, HeldInv, PathInv, PlugInv, UserInv,
           MsrInv, Structs
  <1> QED BY <1>1, <1>2, <1>3, <1>4, <1>5, <1>6, <1>7 DEF ModInv

\* With no file open, nothing samples unseen when the handler goes.
LEMMA ExitStartInv ==
  ASSUME ModInv, ExitStart
  PROVE  ModInv'
  <1>1. ModTypeOK'
    BY DEF ModInv, ExitStart, At, Release, ModTypeOK, PlugInv, MsrInv,
           Resources, Structs, Idle, Go
  <1>2. HeldInv'
    BY DEF ModInv, ExitStart, At, Release, HeldInv, ModTypeOK, PathInv, Structs
  <1>3. PathInv'
    BY DEF ModInv, ExitStart, At, Release, PathInv, ModTypeOK, HeldInv,
           Structs, Resources
  <1>4. PlugInv'
    BY DEF ModInv, ExitStart, At, Release, PlugInv, ModTypeOK, HeldInv, Idle
  <1>5. UserInv'
    BY DEF ModInv, ExitStart, At, Release, UserInv, ModTypeOK, HeldInv,
           PathInv, PlugInv, MsrInv, DevsOf, Idle
  <1>6. MsrInv'
    BY DEF ModInv, ExitStart, At, Release, MsrInv, ModTypeOK, HeldInv, PathInv,
           PlugInv, Idle
  <1>7. NoDoubleRelease' /\ UnloadRestores'
    BY DEF ModInv, ExitStart, At, Release, NoDoubleRelease, UnloadRestores,
           ModTypeOK, HeldInv, PathInv, PlugInv, UserInv, MsrInv, Structs
  <1> QED BY <1>1, <1>2, <1>3, <1>4, <1>5, <1>6, <1>7 DEF ModInv

LEMMA UndoDevicesInv ==
  ASSUME ModInv, UndoDevices
  PROVE  ModInv'
  <1>1. ModTypeOK'
    BY DEF ModInv, UndoDevices, At, LoaderOnly, StepTo, DestroyNodes,
           ModTypeOK, PlugInv, MsrInv, Resources, Structs, Idle, Go
  <1>2. HeldInv'
    BY DEF ModInv, UndoDevices, At, LoaderOnly, StepTo, DestroyNodes, HeldInv,
           ModTypeOK, PathInv, Structs
  <1>3. PathInv'
    BY DEF ModInv, UndoDevices, At, LoaderOnly, StepTo, DestroyNodes, PathInv,
           ModTypeOK, HeldInv, Structs, Resources
  <1>4. PlugInv'
    BY DEF ModInv, UndoDevices, At, LoaderOnly, StepTo, DestroyNodes, PlugInv,
           ModTypeOK, HeldInv, Idle
  <1>5. UserInv'
    BY DEF ModInv, UndoDevices, At, LoaderOnly, StepTo, DestroyNodes, UserInv,
           ModTypeOK, HeldInv, PathInv, PlugInv, MsrInv, DevsOf, Idle
  <1>6. MsrInv'
    BY DEF ModInv, UndoDevices, At, LoaderOnly, StepTo, DestroyNodes, MsrInv,
           ModTypeOK, HeldInv, PathInv, PlugInv, Idle
  <1>7. NoDoubleRelease' /\ UnloadRestores'
    BY DEF ModInv, UndoDevices, At, LoaderOnly, StepTo, DestroyNodes,
           NoDoubleRelease, UnloadRestores, ModTypeOK, HeldInv, PathInv,
           PlugInv, UserInv, MsrInv, Structs
  <1> QED BY <1>1, <1>2, <1>3, <1>4, <1>5, <1>6, <1>7 DEF ModInv

LEMMA UndoHotplugInv ==
  ASSUME ModInv, UndoHotplug
  PROVE  ModInv'
  <1>1. ModTypeOK'
    BY DEF ModInv, UndoHotplug, At, LoaderOnly, ModTypeOK, PlugInv, MsrInv,
           Resources, Structs, Idle, Go
  <1>2. HeldInv'
    BY DEF ModInv, UndoHotplug, At, LoaderOnly, HeldInv, ModTypeOK, PathInv,
           Structs
  <1>3. PathInv'
    BY DEF ModInv, UndoHotplug, At, LoaderOnly, PathInv, ModTypeOK, HeldInv,
           Structs, Resources
  <1>4. PlugInv'
    BY DEF ModInv, UndoHotplug, At, LoaderOnly, PlugInv, ModTypeOK, HeldInv,
           Idle
  <1>5. UserInv'
    BY DEF ModInv, UndoHotplug, At, LoaderOnly, UserInv, ModTypeOK, HeldInv,
           PathInv, PlugInv, MsrInv, DevsOf, Idle
  <1>6. MsrInv'
    BY DEF ModInv, UndoHotplug, At, LoaderOnly, MsrInv, ModTypeOK, HeldInv,
           PathInv, PlugInv, Idle
  <1>7. NoDoubleRelease' /\ UnloadRestores'
    BY DEF ModInv, UndoHotplug, At, LoaderOnly, NoDoubleRelease,
           UnloadRestores, ModTypeOK, HeldInv, PathInv, PlugInv, UserInv,
           MsrInv, Structs
  <1> QED BY <1>1, <1>2, <1>3, <1>4, <1>5, <1>6, <1>7 DEF ModInv

\* Every CPU has been visited, or was offline.
LEMMA UndoHotplugEndInv ==
  ASSUME ModInv, UndoHotplugEnd
  PROVE  ModInv'
  <1>1. ModTypeOK'
    BY DEF ModInv, UndoHotplugEnd, At, LoaderOnly, Release, ModTypeOK, PlugInv,
           MsrInv, Resources, Structs, Idle, Go
  <1>2. HeldInv'
    BY DEF ModInv, UndoHotplugEnd, At, LoaderOnly, Release, HeldInv, ModTypeOK,
           PathInv, Structs
  <1>3. PathInv'
    BY DEF ModInv, UndoHotplugEnd, At, LoaderOnly, Release, PathInv, ModTypeOK,
           HeldInv, Structs, Resources
  <1>4. PlugInv'
    BY DEF ModInv, UndoHotplugEnd, At, LoaderOnly, Release, PlugInv, ModTypeOK,
           HeldInv, Idle
  <1>5. UserInv'
    <2>1. hw \subseteq raced
      BY DevFacts DEF ModInv, ModTypeOK, UserInv, UndoHotplugEnd, At
    <2>2. nodes = {}
      <3>1. \A c \in online : nodes \cap DevsOf(c) = {}
        BY DEF ModInv, UserInv, UndoHotplugEnd, At
      <3>2. nodes \subseteq online \X Flavors
        BY DEF ModInv, ModTypeOK, UserInv
      <3> QED BY <3>1, <3>2 DEF DevsOf
    <2>3. opened' # {} /\ ~err' => "hotplug" \in held' \/ pc' \in {"online", "stuck"}
      BY DEF ModInv, ModTypeOK, UserInv, HeldInv, PathInv, UndoHotplugEnd, At,
             LoaderOnly
    <2> QED
      BY <2>1, <2>2, <2>3
         DEF ModInv, UndoHotplugEnd, At, LoaderOnly, Release, UserInv, PlugInv,
             HeldInv
  <1>6. MsrInv'
    BY DEF ModInv, UndoHotplugEnd, At, LoaderOnly, Release, MsrInv, ModTypeOK,
           HeldInv, PathInv, PlugInv, Idle
  <1>7. NoDoubleRelease' /\ UnloadRestores'
    BY DEF ModInv, UndoHotplugEnd, At, LoaderOnly, Release, NoDoubleRelease,
           UnloadRestores, ModTypeOK, HeldInv, PathInv, PlugInv, UserInv,
           MsrInv, Structs
  <1> QED BY <1>1, <1>2, <1>3, <1>4, <1>5, <1>6, <1>7 DEF ModInv

LEMMA UndoChrdevInv ==
  ASSUME ModInv, UndoChrdev
  PROVE  ModInv'
  <1>1. ModTypeOK'
    BY DEF ModInv, UndoChrdev, At, LoaderOnly, Release, ModTypeOK, PlugInv,
           MsrInv, Resources, Structs, Idle, Go
  <1>2. HeldInv'
    BY DEF ModInv, UndoChrdev, At, LoaderOnly, Release, HeldInv, ModTypeOK,
           PathInv, Structs
  <1>3. PathInv'
    BY DEF ModInv, UndoChrdev, At, LoaderOnly, Release, PathInv, ModTypeOK,
           HeldInv, Structs, Resources
  <1>4. PlugInv'
    BY DEF ModInv, UndoChrdev, At, LoaderOnly, Release, PlugInv, ModTypeOK,
           HeldInv, Idle
  <1>5. UserInv'
    BY DEF ModInv, UndoChrdev, At, LoaderOnly, Release, UserInv, ModTypeOK,
           HeldInv, PathInv, PlugInv, MsrInv, DevsOf, Idle
  <1>6. MsrInv'
    BY DEF ModInv, UndoChrdev, At, LoaderOnly, Release, MsrInv, ModTypeOK,
           HeldInv, PathInv, PlugInv, Idle
  <1>7. NoDoubleRelease' /\ UnloadRestores'
    BY DEF ModInv, UndoChrdev, At, LoaderOnly, Release, NoDoubleRelease,
           UnloadRestores, ModTypeOK, HeldInv, PathInv, PlugInv, UserInv,
           MsrInv, Structs
  <1> QED BY <1>1, <1>2, <1>3, <1>4, <1>5, <1>6, <1>7 DEF ModInv

\* All online CPUs are reset, and with them their cores.
LEMMA UndoStructsInv ==
  ASSUME ModInv, UndoStructs
  PROVE  ModInv'
  <1>0. zen => \A k \in online : Core(k) \notin wa2'
    <2> SUFFICES ASSUME zen, NEW k \in online
                 PROVE  Core(k) \notin wa2'
      OBVIOUS
    <2>1. \E m \in Cpus \cap online : m = Min(SiblingMask(m)) /\ Core(m) = Core(k)
      BY LeastSibling DEF ModInv, ModTypeOK
    <2> QED BY <2>1 DEF UndoStructs, IfZen, StopStatic, ModInv, ModTypeOK
  <1>1. ModTypeOK'
    BY <1>0
       DEF ModInv, UndoStructs, At, LoaderOnly, Release, IfZen, StopStatic,
           ModTypeOK, PlugInv, MsrInv, Resources, Structs, Idle, Go
  <1>2. HeldInv'
    BY <1>0
       DEF ModInv, UndoStructs, At, LoaderOnly, Release, IfZen, StopStatic,
           HeldInv, ModTypeOK, PathInv, Structs
  <1>3. PathInv'
    BY <1>0
       DEF ModInv, UndoStructs, At, LoaderOnly, Release, IfZen, StopStatic,
           PathInv, ModTypeOK, HeldInv, Structs, Resources
  <1>4. PlugInv'
    BY <1>0
       DEF ModInv, UndoStructs, At, LoaderOnly, Release, IfZen, StopStatic,
           PlugInv, ModTypeOK, HeldInv, Idle
  <1>5. UserInv'
    BY <1>0
       DEF ModInv, UndoStructs, At, LoaderOnly, Release, IfZen, StopStatic,
           UserInv, ModTypeOK, HeldInv, PathInv, PlugInv, MsrInv, DevsOf, Idle
  <1>6. MsrInv'
    <2>1. ~zen' => wa2' = {} /\ cpuid' = {}
      BY <1>0
         DEF ModInv, UndoStructs, At, LoaderOnly, IfZen, StopStatic, Release,
             ModTypeOK, HeldInv, PathInv, PlugInv, MsrInv
    <2>2. ~zen' /\ pc' \in {"check", "readd"} => todo' = {}
      BY <1>0
         DEF ModInv, UndoStructs, At, LoaderOnly, IfZen, StopStatic, Release,
             ModTypeOK, HeldInv, PathInv, PlugInv, MsrInv
    <2>3. pc' \in {"start", "check", "readd"} => \A x \in cpuid' : Core(x) \in wa2'
      BY <1>0
         DEF ModInv, UndoStructs, At, LoaderOnly, IfZen, StopStatic, Release,
             ModTypeOK, HeldInv, PathInv, PlugInv, MsrInv
    <2>4. cpuid' \subseteq online' \cup missed'
      BY <1>0
         DEF ModInv, UndoStructs, At, LoaderOnly, IfZen, StopStatic, Release,
             ModTypeOK, HeldInv, PathInv, PlugInv, MsrInv
    <2>5. \A n \in wa2' : \E k \in (cpuid' \cap online') \cup missed' : Core(k) = n
      BY <1>0
         DEF ModInv, UndoStructs, At, LoaderOnly, IfZen, StopStatic, Release,
             ModTypeOK, HeldInv, PathInv, PlugInv, MsrInv
    <2>6. plug'.at = "done" => plug'.cpu \notin cpuid'
      BY <1>0
         DEF ModInv, UndoStructs, At, LoaderOnly, IfZen, StopStatic, Release,
             ModTypeOK, HeldInv, PathInv, PlugInv, MsrInv
    <2>7. pc' \in {"online", "removing"} => todo' \subseteq online'
      BY <1>0
         DEF ModInv, UndoStructs, At, LoaderOnly, IfZen, StopStatic, Release,
             ModTypeOK, HeldInv, PathInv, PlugInv, MsrInv
    <2>8. zen' /\ pc' = "online" => online' \ todo' \subseteq cpuid'
      BY <1>0
         DEF ModInv, UndoStructs, At, LoaderOnly, IfZen, StopStatic, Release,
             ModTypeOK, HeldInv, PathInv, PlugInv, MsrInv
    <2>9. zen' /\ "hotplug" \in held' /\ pc' # "removing" =>
            \A x \in online' : x \in cpuid' \/ plug' = [cpu |-> x, at |-> "up"]
                                           \/ plug' = [cpu |-> x, at |-> "done"]
      BY <1>0
         DEF ModInv, UndoStructs, At, LoaderOnly, IfZen, StopStatic, Release,
             ModTypeOK, HeldInv, PathInv, PlugInv, MsrInv
    <2>10. pc' = "removing" /\ "hotplug" \in held' =>
            \A x \in online' \ todo' : Core(x) \notin wa2' /\ \A t \in todo' : x < t
      BY <1>0
         DEF ModInv, UndoStructs, At, LoaderOnly, IfZen, StopStatic, Release,
             ModTypeOK, HeldInv, PathInv, PlugInv, MsrInv
    <2>11. exiting' /\ pc' \in {"unclass", "none"} =>
            cpuid' \subseteq missed' /\ wa2' \subseteq {Core(x) : x \in missed'}
      BY <1>0
         DEF ModInv, UndoStructs, At, LoaderOnly, IfZen, StopStatic, Release,
             ModTypeOK, HeldInv, PathInv, PlugInv, MsrInv
    <2> QED BY <2>1, <2>2, <2>3, <2>4, <2>5, <2>6, <2>7, <2>8, <2>9, <2>10,
               <2>11 DEF MsrInv
  <1>7. NoDoubleRelease' /\ UnloadRestores'
    BY <1>0
       DEF ModInv, UndoStructs, At, LoaderOnly, Release, IfZen, StopStatic,
           NoDoubleRelease, UnloadRestores, ModTypeOK, HeldInv, PathInv,
           PlugInv, UserInv, MsrInv, Structs
  <1> QED BY <1>1, <1>2, <1>3, <1>4, <1>5, <1>6, <1>7 DEF ModInv

LEMMA UndoClassInv ==
  ASSUME ModInv, UndoClass
  PROVE  ModInv'
  <1>1. ModTypeOK'
    BY DEF ModInv, UndoClass, At, LoaderOnly, Release, ModTypeOK, PlugInv,
           MsrInv, Resources, Structs, Idle, Go
  <1>2. HeldInv'
    BY DEF ModInv, UndoClass, At, LoaderOnly, Release, HeldInv, ModTypeOK,
           PathInv, Structs
  <1>3. PathInv'
    BY DEF ModInv, UndoClass, At, LoaderOnly, Release, PathInv, ModTypeOK,
           HeldInv, Structs, Resources
  <1>4. PlugInv'
    BY DEF ModInv, UndoClass, At, LoaderOnly, Release, PlugInv, ModTypeOK,
           HeldInv, Idle
  <1>5. UserInv'
    BY DEF ModInv, UndoClass, At, LoaderOnly, Release, UserInv, ModTypeOK,
           HeldInv, PathInv, PlugInv, MsrInv, DevsOf, Idle
  <1>6. MsrInv'
    BY DEF ModInv, UndoClass, At, LoaderOnly, Release, MsrInv, ModTypeOK,
           HeldInv, PathInv, PlugInv, Idle
  <1>7. NoDoubleRelease' /\ UnloadRestores'
    BY DEF ModInv, UndoClass, At, LoaderOnly, Release, NoDoubleRelease,
           UnloadRestores, ModTypeOK, HeldInv, PathInv, PlugInv, UserInv,
           MsrInv, Structs
  <1> QED BY <1>1, <1>2, <1>3, <1>4, <1>5, <1>6, <1>7 DEF ModInv

LEMMA LoadOnlineInv ==
  ASSUME ModInv, LoadOnline
  PROVE  ModInv'
  <1>0. /\ Min(todo) \in todo /\ Min(todo) \in Cpus /\ Min(todo) \in Nat
        /\ \A t \in todo \ {Min(todo)} : Min(todo) < t
    BY MinCpu DEF ModInv, ModTypeOK, LoadOnline
  <1>1. ModTypeOK'
    BY <1>0
       DEF ModInv, LoadOnline, LoaderOnly, StartStatic, IfZen, MustTakeDown,
           PrepareUp, ModTypeOK, PlugInv, MsrInv, Resources, Structs, Idle, Go
  <1>2. HeldInv'
    BY <1>0
       DEF ModInv, LoadOnline, LoaderOnly, StartStatic, IfZen, MustTakeDown,
           PrepareUp, HeldInv, ModTypeOK, PathInv, Structs
  <1>3. PathInv'
    BY <1>0
       DEF ModInv, LoadOnline, LoaderOnly, StartStatic, IfZen, MustTakeDown,
           PrepareUp, PathInv, ModTypeOK, HeldInv, Structs, Resources
  <1>4. PlugInv'
    BY <1>0
       DEF ModInv, LoadOnline, LoaderOnly, StartStatic, IfZen, MustTakeDown,
           PrepareUp, PlugInv, ModTypeOK, HeldInv, Idle
  <1>5. UserInv'
    BY <1>0
       DEF ModInv, LoadOnline, LoaderOnly, StartStatic, IfZen, MustTakeDown,
           PrepareUp, UserInv, ModTypeOK, HeldInv, PathInv, PlugInv, MsrInv,
           DevsOf, Idle
  <1>6. MsrInv'
    <2>1. ~zen' => wa2' = {} /\ cpuid' = {}
      BY <1>0
         DEF ModInv, LoadOnline, LoaderOnly, StartStatic, IfZen, MustTakeDown,
             PrepareUp, ModTypeOK, HeldInv, PathInv, PlugInv, MsrInv
    <2>2. ~zen' /\ pc' \in {"check", "readd"} => todo' = {}
      BY <1>0
         DEF ModInv, LoadOnline, LoaderOnly, StartStatic, IfZen, MustTakeDown,
             PrepareUp, ModTypeOK, HeldInv, PathInv, PlugInv, MsrInv
    <2>3. pc' \in {"start", "check", "readd"} => \A x \in cpuid' : Core(x) \in wa2'
      BY <1>0
         DEF ModInv, LoadOnline, LoaderOnly, StartStatic, IfZen, MustTakeDown,
             PrepareUp, ModTypeOK, HeldInv, PathInv, PlugInv, MsrInv
    <2>4. cpuid' \subseteq online' \cup missed'
      BY <1>0
         DEF ModInv, LoadOnline, LoaderOnly, StartStatic, IfZen, MustTakeDown,
             PrepareUp, ModTypeOK, HeldInv, PathInv, PlugInv, MsrInv
    <2>5. \A n \in wa2' : \E k \in (cpuid' \cap online') \cup missed' : Core(k) = n
      BY <1>0
         DEF ModInv, LoadOnline, LoaderOnly, StartStatic, IfZen, MustTakeDown,
             PrepareUp, ModTypeOK, HeldInv, PathInv, PlugInv, MsrInv
    <2>6. plug'.at = "done" => plug'.cpu \notin cpuid'
      BY <1>0
         DEF ModInv, LoadOnline, LoaderOnly, StartStatic, IfZen, MustTakeDown,
             PrepareUp, ModTypeOK, HeldInv, PathInv, PlugInv, MsrInv
    <2>7. pc' \in {"online", "removing"} => todo' \subseteq online'
      BY <1>0
         DEF ModInv, LoadOnline, LoaderOnly, StartStatic, IfZen, MustTakeDown,
             PrepareUp, ModTypeOK, HeldInv, PathInv, PlugInv, MsrInv
    <2>8. zen' /\ pc' = "online" => online' \ todo' \subseteq cpuid'
      BY <1>0
         DEF ModInv, LoadOnline, LoaderOnly, StartStatic, IfZen, MustTakeDown,
             PrepareUp, ModTypeOK, HeldInv, PathInv, PlugInv, MsrInv
    <2>9. zen' /\ "hotplug" \in held' /\ pc' # "removing" =>
            \A x \in online' : x \in cpuid' \/ plug' = [cpu |-> x, at |-> "up"]
                                           \/ plug' = [cpu |-> x, at |-> "done"]
      BY <1>0
         DEF ModInv, LoadOnline, LoaderOnly, StartStatic, IfZen, MustTakeDown,
             PrepareUp, ModTypeOK, HeldInv, PathInv, PlugInv, MsrInv
    <2>10. pc' = "removing" /\ "hotplug" \in held' =>
            \A x \in online' \ todo' : Core(x) \notin wa2' /\ \A t \in todo' : x < t
      BY <1>0
         DEF ModInv, LoadOnline, LoaderOnly, StartStatic, IfZen, MustTakeDown,
             PrepareUp, ModTypeOK, HeldInv, PathInv, PlugInv, MsrInv
    <2>11. exiting' /\ pc' \in {"unclass", "none"} =>
            cpuid' \subseteq missed' /\ wa2' \subseteq {Core(x) : x \in missed'}
      BY <1>0
         DEF ModInv, LoadOnline, LoaderOnly, StartStatic, IfZen, MustTakeDown,
             PrepareUp, ModTypeOK, HeldInv, PathInv, PlugInv, MsrInv
    <2> QED BY <2>1, <2>2, <2>3, <2>4, <2>5, <2>6, <2>7, <2>8, <2>9, <2>10,
               <2>11 DEF MsrInv
  <1>7. NoDoubleRelease' /\ UnloadRestores'
    BY <1>0
       DEF ModInv, LoadOnline, LoaderOnly, StartStatic, IfZen, MustTakeDown,
           PrepareUp, NoDoubleRelease, UnloadRestores, ModTypeOK, HeldInv,
           PathInv, PlugInv, UserInv, MsrInv, Structs
  <1> QED BY <1>1, <1>2, <1>3, <1>4, <1>5, <1>6, <1>7 DEF ModInv

\* The siblings taken down have no bit yet.
LEMMA LoadStaticInv ==
  ASSUME ModInv, LoadStatic
  PROVE  ModInv'
  <1> DEFINE c == Min(todo \cap online)
             others == IF MustTakeDown(c) THEN SiblingMask(c) \ {c} ELSE {}
  <1>0. /\ c \in todo /\ c \in online
        /\ c \notin others
        /\ others # {} => Core(c) \notin wa2
        /\ \A k \in others : Core(k) = Core(c)
        /\ others # {} => Max(others) \in Cpus
    BY MinCpu, MaxCpu DEF ModInv, ModTypeOK, LoadStatic, SiblingMask, MustTakeDown
  <1>a. /\ pc = "check"
        /\ cpuid' = cpuid \cup {c} /\ wa2' = wa2 \cup {Core(c)}
        /\ others # {} => plug = Idle
        /\ online' = online \ others
        /\ sib' = IF others = {} THEN NoCpu ELSE Max(others)
        /\ pc' = IF others = {} THEN "check" ELSE "readd"
        /\ todo' = {k \in todo : k > c}
        /\ held' \in {held, held \cup {"wa"}}
        /\ UNCHANGED <<hardware, err, exiting, silent, doubled, bufs, nodes,
                       readers, plug, plugs, missed, userVars>>
    BY DEF LoadStatic, StartStatic
  <1> HIDE DEF c, others
  <1>1. ModTypeOK'
    BY <1>0, <1>a
       DEF ModInv, ModTypeOK, PlugInv, MsrInv, Resources, Structs, Idle, Go
  <1>2. HeldInv'
    BY <1>0, <1>a
       DEF ModInv, HeldInv, ModTypeOK, PathInv, Structs
  <1>3. PathInv'
    BY <1>0, <1>a
       DEF ModInv, PathInv, ModTypeOK, HeldInv, Structs, Resources
  <1>4. PlugInv'
    BY <1>0, <1>a
       DEF ModInv, PlugInv, ModTypeOK, HeldInv, Idle
  <1>5. UserInv'
    BY <1>0, <1>a
       DEF ModInv, UserInv, ModTypeOK, HeldInv, PathInv, PlugInv, MsrInv,
           DevsOf, Idle
  <1>6. MsrInv'
    <2>1. ~zen' => wa2' = {} /\ cpuid' = {}
      BY <1>0, <1>a
         DEF ModInv, ModTypeOK, HeldInv, PathInv, PlugInv, MsrInv
    <2>2. ~zen' /\ pc' \in {"check", "readd"} => todo' = {}
      BY <1>0, <1>a
         DEF ModInv, ModTypeOK, HeldInv, PathInv, PlugInv, MsrInv
    <2>3. pc' \in {"start", "check", "readd"} => \A x \in cpuid' : Core(x) \in wa2'
      BY <1>0, <1>a
         DEF ModInv, ModTypeOK, HeldInv, PathInv, PlugInv, MsrInv
    <2>4. cpuid' \subseteq online' \cup missed'
      BY <1>0, <1>a
         DEF ModInv, ModTypeOK, HeldInv, PathInv, PlugInv, MsrInv
    <2>5. \A n \in wa2' : \E k \in (cpuid' \cap online') \cup missed' : Core(k) = n
      BY <1>0, <1>a
         DEF ModInv, ModTypeOK, HeldInv, PathInv, PlugInv, MsrInv
    <2>6. plug'.at = "done" => plug'.cpu \notin cpuid'
      BY <1>0, <1>a
         DEF ModInv, ModTypeOK, HeldInv, PathInv, PlugInv, MsrInv
    <2>7. pc' \in {"online", "removing"} => todo' \subseteq online'
      BY <1>0, <1>a
         DEF ModInv, ModTypeOK, HeldInv, PathInv, PlugInv, MsrInv
    <2>8. zen' /\ pc' = "online" => online' \ todo' \subseteq cpuid'
      BY <1>0, <1>a
         DEF ModInv, ModTypeOK, HeldInv, PathInv, PlugInv, MsrInv
    <2>9. zen' /\ "hotplug" \in held' /\ pc' # "removing" =>
            \A x \in online' : x \in cpuid' \/ plug' = [cpu |-> x, at |-> "up"]
                                           \/ plug' = [cpu |-> x, at |-> "done"]
      BY <1>0, <1>a
         DEF ModInv, ModTypeOK, HeldInv, PathInv, PlugInv, MsrInv
    <2>10. pc' = "removing" /\ "hotplug" \in held' =>
            \A x \in online' \ todo' : Core(x) \notin wa2' /\ \A t \in todo' : x < t
      BY <1>0, <1>a
         DEF ModInv, ModTypeOK, HeldInv, PathInv, PlugInv, MsrInv
    <2>11. exiting' /\ pc' \in {"unclass", "none"} =>
            cpuid' \subseteq missed' /\ wa2' \subseteq {Core(x) : x \in missed'}
      BY <1>0, <1>a
         DEF ModInv, ModTypeOK, HeldInv, PathInv, PlugInv, MsrInv
    <2> QED BY <2>1, <2>2, <2>3, <2>4, <2>5, <2>6, <2>7, <2>8, <2>9, <2>10,
               <2>11 DEF MsrInv
  <1>7. NoDoubleRelease' /\ UnloadRestores'
    BY <1>0, <1>a
       DEF ModInv, NoDoubleRelease, UnloadRestores, ModTypeOK, HeldInv,
           PathInv, PlugInv, UserInv, MsrInv, Structs
  <1> QED BY <1>1, <1>2, <1>3, <1>4, <1>5, <1>6, <1>7 DEF ModInv

\* The least sibling of a core comes first and resets its bits.
LEMMA UndoOnlineInv ==
  ASSUME ModInv, UndoOnline
  PROVE  ModInv'
  <1>0. /\ Min(todo) \in todo /\ Min(todo) \in Cpus /\ Min(todo) \in Nat
        /\ \A t \in todo \ {Min(todo)} : Min(todo) < t
    BY MinCpu DEF ModInv, ModTypeOK, UndoOnline
  <1>a. zen => Core(Min(todo)) \notin wa2'
    <2> SUFFICES ASSUME zen PROVE Core(Min(todo)) \notin wa2'
      OBVIOUS
    <2>1. Min(todo) \in online /\ online \subseteq Cpus /\ "hotplug" \in held
      BY <1>0 DEF ModInv, ModTypeOK, MsrInv, PlugInv, UndoOnline
    <2>2. PICK m \in online : /\ m = Min(SiblingMask(m)) /\ Core(m) = Core(Min(todo))
                              /\ m = Min(todo) \/ m < Min(todo)
      BY <2>1, LeastSibling
    <2>3. CASE m = Min(todo)
      BY <2>1, <2>2, <2>3 DEF UndoOnline, PrepareDownRest, IfZen, StopStatic
    <2>4. CASE m < Min(todo)
      <3>1. m \notin todo
        <4>1. m \in Nat
          BY <2>1, ModAssumption DEF Cpus
        <4> QED BY <1>0, <2>4, <4>1
      <3>2. Core(m) \notin wa2
        BY <2>1, <3>1 DEF ModInv, MsrInv, UndoOnline
      <3> QED BY <2>1, <2>2, <3>2 DEF UndoOnline, PrepareDownRest, IfZen, StopStatic
    <2> QED BY <2>2, <2>3, <2>4
  <1>1. ModTypeOK'
    BY <1>0, <1>a
       DEF ModInv, UndoOnline, DestroyNodes, PrepareDownRest, IfZen, ModTypeOK,
           PlugInv, MsrInv, Resources, Structs, Idle, Go
  <1>2. HeldInv'
    BY <1>0, <1>a
       DEF ModInv, UndoOnline, DestroyNodes, PrepareDownRest, IfZen, HeldInv,
           ModTypeOK, PathInv, Structs
  <1>3. PathInv'
    BY <1>0, <1>a
       DEF ModInv, UndoOnline, DestroyNodes, PrepareDownRest, IfZen, PathInv,
           ModTypeOK, HeldInv, Structs, Resources
  <1>4. PlugInv'
    BY <1>0, <1>a
       DEF ModInv, UndoOnline, DestroyNodes, PrepareDownRest, IfZen, PlugInv,
           ModTypeOK, HeldInv, Idle
  <1>5. UserInv'
    BY <1>0, <1>a
       DEF ModInv, UndoOnline, DestroyNodes, PrepareDownRest, IfZen, UserInv,
           ModTypeOK, HeldInv, PathInv, PlugInv, MsrInv, DevsOf, Idle
  <1>6. MsrInv'
    <2>1. ~zen' => wa2' = {} /\ cpuid' = {}
      BY <1>0, <1>a
         DEF ModInv, UndoOnline, PrepareDownRest, DestroyNodes, IfZen,
             StopStatic, ModTypeOK, HeldInv, PathInv, PlugInv, MsrInv
    <2>2. ~zen' /\ pc' \in {"check", "readd"} => todo' = {}
      BY <1>0, <1>a
         DEF ModInv, UndoOnline, PrepareDownRest, DestroyNodes, IfZen,
             StopStatic, ModTypeOK, HeldInv, PathInv, PlugInv, MsrInv
    <2>3. pc' \in {"start", "check", "readd"} => \A x \in cpuid' : Core(x) \in wa2'
      BY <1>0, <1>a
         DEF ModInv, UndoOnline, PrepareDownRest, DestroyNodes, IfZen,
             StopStatic, ModTypeOK, HeldInv, PathInv, PlugInv, MsrInv
    <2>4. cpuid' \subseteq online' \cup missed'
      BY <1>0, <1>a
         DEF ModInv, UndoOnline, PrepareDownRest, DestroyNodes, IfZen,
             StopStatic, ModTypeOK, HeldInv, PathInv, PlugInv, MsrInv
    <2>5. \A n \in wa2' : \E k \in (cpuid' \cap online') \cup missed' : Core(k) = n
      BY <1>0, <1>a
         DEF ModInv, UndoOnline, PrepareDownRest, DestroyNodes, IfZen,
             StopStatic, ModTypeOK, HeldInv, PathInv, PlugInv, MsrInv
    <2>6. plug'.at = "done" => plug'.cpu \notin cpuid'
      BY <1>0, <1>a
         DEF ModInv, UndoOnline, PrepareDownRest, DestroyNodes, IfZen,
             StopStatic, ModTypeOK, HeldInv, PathInv, PlugInv, MsrInv
    <2>7. pc' \in {"online", "removing"} => todo' \subseteq online'
      BY <1>0, <1>a
         DEF ModInv, UndoOnline, PrepareDownRest, DestroyNodes, IfZen,
             StopStatic, ModTypeOK, HeldInv, PathInv, PlugInv, MsrInv
    <2>8. zen' /\ pc' = "online" => online' \ todo' \subseteq cpuid'
      BY <1>0, <1>a
         DEF ModInv, UndoOnline, PrepareDownRest, DestroyNodes, IfZen,
             StopStatic, ModTypeOK, HeldInv, PathInv, PlugInv, MsrInv
    <2>9. zen' /\ "hotplug" \in held' /\ pc' # "removing" =>
            \A x \in online' : x \in cpuid' \/ plug' = [cpu |-> x, at |-> "up"]
                                           \/ plug' = [cpu |-> x, at |-> "done"]
      BY <1>0, <1>a
         DEF ModInv, UndoOnline, PrepareDownRest, DestroyNodes, IfZen,
             StopStatic, ModTypeOK, HeldInv, PathInv, PlugInv, MsrInv
    <2>10. pc' = "removing" /\ "hotplug" \in held' =>
            \A x \in online' \ todo' : Core(x) \notin wa2' /\ \A t \in todo' : x < t
      BY <1>0, <1>a
         DEF ModInv, UndoOnline, PrepareDownRest, DestroyNodes, IfZen,
             StopStatic, ModTypeOK, HeldInv, PathInv, PlugInv, MsrInv
    <2>11. exiting' /\ pc' \in {"unclass", "none"} =>
            cpuid' \subseteq missed' /\ wa2' \subseteq {Core(x) : x \in missed'}
      BY <1>0, <1>a
         DEF ModInv, UndoOnline, PrepareDownRest, DestroyNodes, IfZen,
             StopStatic, ModTypeOK, HeldInv, PathInv, PlugInv, MsrInv
    <2> QED BY <2>1, <2>2, <2>3, <2>4, <2>5, <2>6, <2>7, <2>8, <2>9, <2>10,
               <2>11 DEF MsrInv
  <1>7. NoDoubleRelease' /\ UnloadRestores'
    BY <1>0, <1>a
       DEF ModInv, UndoOnline, DestroyNodes, PrepareDownRest, IfZen,
           NoDoubleRelease, UnloadRestores, ModTypeOK, HeldInv, PathInv,
           PlugInv, UserInv, MsrInv, Structs
  <1> QED BY <1>1, <1>2, <1>3, <1>4, <1>5, <1>6, <1>7 DEF ModInv

LEMMA DownBeginInv ==
  ASSUME ModInv, NEW c \in Cpus, DownBegin(c)
  PROVE  ModInv'
  <1>1. ModTypeOK'
    BY DEF ModInv, DownBegin, PlugOnly, Go, Idle, PlugBegin, Callback,
           ModTypeOK, PlugInv, MsrInv, Resources, Structs
  <1>2. HeldInv'
    BY DEF ModInv, DownBegin, PlugOnly, Go, Idle, PlugBegin, Callback, HeldInv,
           ModTypeOK, PathInv, Structs
  <1>3. PathInv'
    BY DEF ModInv, DownBegin, PlugOnly, Go, Idle, PlugBegin, Callback, PathInv,
           ModTypeOK, HeldInv, Structs, Resources
  <1>4. PlugInv'
    BY DEF ModInv, DownBegin, PlugOnly, Go, Idle, PlugBegin, Callback, PlugInv,
           ModTypeOK, HeldInv
  <1>5. UserInv'
    BY DEF ModInv, DownBegin, PlugOnly, Go, Idle, PlugBegin, Callback, UserInv,
           ModTypeOK, HeldInv, PathInv, PlugInv, MsrInv, DevsOf
  <1>6. MsrInv'
    BY DEF ModInv, DownBegin, PlugOnly, Go, Idle, PlugBegin, Callback, MsrInv,
           ModTypeOK, HeldInv, PathInv, PlugInv
  <1>7. NoDoubleRelease' /\ UnloadRestores'
    BY DEF ModInv, DownBegin, PlugOnly, Go, Idle, PlugBegin, Callback,
           NoDoubleRelease, UnloadRestores, ModTypeOK, HeldInv, PathInv,
           PlugInv, UserInv, MsrInv, Structs
  <1> QED BY <1>1, <1>2, <1>3, <1>4, <1>5, <1>6, <1>7 DEF ModInv

LEMMA DownDisableInv ==
  ASSUME ModInv, DownDisable
  PROVE  ModInv'
  <1>1. ModTypeOK'
    BY DEF ModInv, DownDisable, PlugOnly, Go, Idle, ModTypeOK, PlugInv, MsrInv,
           Resources, Structs
  <1>2. HeldInv'
    BY DEF ModInv, DownDisable, PlugOnly, Go, Idle, HeldInv, ModTypeOK,
           PathInv, Structs
  <1>3. PathInv'
    BY DEF ModInv, DownDisable, PlugOnly, Go, Idle, PathInv, ModTypeOK,
           HeldInv, Structs, Resources
  <1>4. PlugInv'
    BY DEF ModInv, DownDisable, PlugOnly, Go, Idle, PlugInv, ModTypeOK, HeldInv
  <1>5. UserInv'
    BY DEF ModInv, DownDisable, PlugOnly, Go, Idle, UserInv, ModTypeOK,
           HeldInv, PathInv, PlugInv, MsrInv, DevsOf
  <1>6. MsrInv'
    BY DEF ModInv, DownDisable, PlugOnly, Go, Idle, MsrInv, ModTypeOK, HeldInv,
           PathInv, PlugInv
  <1>7. NoDoubleRelease' /\ UnloadRestores'
    BY DEF ModInv, DownDisable, PlugOnly, Go, Idle, NoDoubleRelease,
           UnloadRestores, ModTypeOK, HeldInv, PathInv, PlugInv, UserInv,
           MsrInv, Structs
  <1> QED BY <1>1, <1>2, <1>3, <1>4, <1>5, <1>6, <1>7 DEF ModInv

\* A core whose least CPU stays online keeps its bits, and that CPU its own.
LEMMA DownStopInv ==
  ASSUME ModInv, DownStop
  PROVE  ModInv'
  <1>0. zen => \/ Core(plug.cpu) \notin wa2'
               \/ \E m \in online \cap cpuid' : Core(m) = Core(plug.cpu)
    <2> SUFFICES ASSUME zen
                 PROVE  \/ Core(plug.cpu) \notin wa2'
                        \/ \E m \in online \cap cpuid' : Core(m) = Core(plug.cpu)
      OBVIOUS
    <2>1. /\ plug.cpu \in online /\ online \subseteq Cpus /\ plug # Idle /\ plug.at = "stop"
          /\ "hotplug" \in held /\ pc # "removing"
      BY DEF ModInv, ModTypeOK, PlugInv, DownStop, Idle
    <2>2. PICK m \in online : m = Min(SiblingMask(m)) /\ Core(m) = Core(plug.cpu)
      BY <2>1, LeastSibling
    <2>3. CASE m = plug.cpu
      BY <2>1, <2>2, <2>3 DEF DownStop, PrepareDownRest, IfZen, StopStatic
    <2>4. CASE m # plug.cpu
      <3>1. m \in cpuid
        BY <2>1, <2>4 DEF ModInv, MsrInv
      <3> QED BY <2>2, <2>4, <3>1 DEF DownStop, PrepareDownRest, IfZen, StopStatic
    <2> QED BY <2>3, <2>4
  <1>a. plug.cpu \in online /\ plug' = [cpu |-> plug.cpu, at |-> "done"]
    BY DEF ModInv, ModTypeOK, DownStop, Go, Idle
  <1>1. ModTypeOK'
    BY <1>0, <1>a
       DEF ModInv, DownStop, PlugOnly, Go, Idle, PrepareDownRest, DestroyNodes,
           IfZen, StopStatic, ModTypeOK, PlugInv, MsrInv, Resources, Structs
  <1>2. HeldInv'
    BY <1>0, <1>a
       DEF ModInv, DownStop, PlugOnly, Go, Idle, PrepareDownRest, DestroyNodes,
           IfZen, StopStatic, HeldInv, ModTypeOK, PathInv, Structs
  <1>3. PathInv'
    BY <1>0, <1>a
       DEF ModInv, DownStop, PlugOnly, Go, Idle, PrepareDownRest, DestroyNodes,
           IfZen, StopStatic, PathInv, ModTypeOK, HeldInv, Structs, Resources
  <1>4. PlugInv'
    BY <1>0, <1>a
       DEF ModInv, DownStop, PlugOnly, Go, Idle, PrepareDownRest, DestroyNodes,
           IfZen, StopStatic, PlugInv, ModTypeOK, HeldInv
  <1>5. UserInv'
    BY <1>0, <1>a
       DEF ModInv, DownStop, PlugOnly, Go, Idle, PrepareDownRest, DestroyNodes,
           IfZen, StopStatic, UserInv, ModTypeOK, HeldInv, PathInv, PlugInv,
           MsrInv, DevsOf
  <1>6. MsrInv'
    <2>1. ~zen' => wa2' = {} /\ cpuid' = {}
      BY <1>0, <1>a
         DEF ModInv, DownStop, PlugOnly, Go, Idle, PrepareDownRest,
             DestroyNodes, IfZen, StopStatic, ModTypeOK, HeldInv, PathInv,
             PlugInv, MsrInv
    <2>2. ~zen' /\ pc' \in {"check", "readd"} => todo' = {}
      BY <1>0, <1>a
         DEF ModInv, DownStop, PlugOnly, Go, Idle, PrepareDownRest,
             DestroyNodes, IfZen, StopStatic, ModTypeOK, HeldInv, PathInv,
             PlugInv, MsrInv
    <2>3. pc' \in {"start", "check", "readd"} => \A x \in cpuid' : Core(x) \in wa2'
      BY <1>0, <1>a
         DEF ModInv, DownStop, PlugOnly, Go, Idle, PrepareDownRest,
             DestroyNodes, IfZen, StopStatic, ModTypeOK, HeldInv, PathInv,
             PlugInv, MsrInv
    <2>4. cpuid' \subseteq online' \cup missed'
      BY <1>0, <1>a
         DEF ModInv, DownStop, PlugOnly, Go, Idle, PrepareDownRest,
             DestroyNodes, IfZen, StopStatic, ModTypeOK, HeldInv, PathInv,
             PlugInv, MsrInv
    <2>5. \A n \in wa2' : \E k \in (cpuid' \cap online') \cup missed' : Core(k) = n
      BY <1>0, <1>a
         DEF ModInv, DownStop, PlugOnly, Go, Idle, PrepareDownRest,
             DestroyNodes, IfZen, StopStatic, ModTypeOK, HeldInv, PathInv,
             PlugInv, MsrInv
    <2>6. plug'.at = "done" => plug'.cpu \notin cpuid'
      BY <1>0, <1>a
         DEF ModInv, DownStop, PlugOnly, Go, Idle, PrepareDownRest,
             DestroyNodes, IfZen, StopStatic, ModTypeOK, HeldInv, PathInv,
             PlugInv, MsrInv
    <2>7. pc' \in {"online", "removing"} => todo' \subseteq online'
      BY <1>0, <1>a
         DEF ModInv, DownStop, PlugOnly, Go, Idle, PrepareDownRest,
             DestroyNodes, IfZen, StopStatic, ModTypeOK, HeldInv, PathInv,
             PlugInv, MsrInv
    <2>8. zen' /\ pc' = "online" => online' \ todo' \subseteq cpuid'
      BY <1>0, <1>a
         DEF ModInv, DownStop, PlugOnly, Go, Idle, PrepareDownRest,
             DestroyNodes, IfZen, StopStatic, ModTypeOK, HeldInv, PathInv,
             PlugInv, MsrInv
    <2>9. zen' /\ "hotplug" \in held' /\ pc' # "removing" =>
            \A x \in online' : x \in cpuid' \/ plug' = [cpu |-> x, at |-> "up"]
                                           \/ plug' = [cpu |-> x, at |-> "done"]
      BY <1>0, <1>a
         DEF ModInv, DownStop, PlugOnly, Go, Idle, PrepareDownRest,
             DestroyNodes, IfZen, StopStatic, ModTypeOK, HeldInv, PathInv,
             PlugInv, MsrInv
    <2>10. pc' = "removing" /\ "hotplug" \in held' =>
            \A x \in online' \ todo' : Core(x) \notin wa2' /\ \A t \in todo' : x < t
      BY <1>0, <1>a
         DEF ModInv, DownStop, PlugOnly, Go, Idle, PrepareDownRest,
             DestroyNodes, IfZen, StopStatic, ModTypeOK, HeldInv, PathInv,
             PlugInv, MsrInv
    <2>11. exiting' /\ pc' \in {"unclass", "none"} =>
            cpuid' \subseteq missed' /\ wa2' \subseteq {Core(x) : x \in missed'}
      BY <1>0, <1>a
         DEF ModInv, DownStop, PlugOnly, Go, Idle, PrepareDownRest,
             DestroyNodes, IfZen, StopStatic, ModTypeOK, HeldInv, PathInv,
             PlugInv, MsrInv
    <2> QED BY <2>1, <2>2, <2>3, <2>4, <2>5, <2>6, <2>7, <2>8, <2>9, <2>10,
               <2>11 DEF MsrInv
  <1>7. NoDoubleRelease' /\ UnloadRestores'
    BY <1>0, <1>a
       DEF ModInv, DownStop, PlugOnly, Go, Idle, PrepareDownRest, DestroyNodes,
           IfZen, StopStatic, NoDoubleRelease, UnloadRestores, ModTypeOK,
           HeldInv, PathInv, PlugInv, UserInv, MsrInv, Structs
  <1> QED BY <1>1, <1>2, <1>3, <1>4, <1>5, <1>6, <1>7 DEF ModInv

LEMMA DownDeadInv ==
  ASSUME ModInv, DownDead
  PROVE  ModInv'
  <1>0. /\ plug.cpu \in online /\ plug # Idle /\ plug' = Idle /\ plug'.at = "idle"
        /\ pc \notin {"online", "stuck", "removing"}
    BY DEF ModInv, ModTypeOK, PlugInv, DownDead, Go, Idle
  <1>1. ModTypeOK'
    BY <1>0
       DEF ModInv, DownDead, PlugOnly, Go, Idle, ModTypeOK, PlugInv, MsrInv,
           Resources, Structs
  <1>2. HeldInv'
    BY <1>0
       DEF ModInv, DownDead, PlugOnly, Go, Idle, HeldInv, ModTypeOK, PathInv,
           Structs
  <1>3. PathInv'
    BY <1>0
       DEF ModInv, DownDead, PlugOnly, Go, Idle, PathInv, ModTypeOK, HeldInv,
           Structs, Resources
  <1>4. PlugInv'
    BY <1>0
       DEF ModInv, DownDead, PlugOnly, Go, Idle, PlugInv, ModTypeOK, HeldInv
  <1>5. UserInv'
    BY <1>0
       DEF ModInv, DownDead, PlugOnly, Go, Idle, UserInv, ModTypeOK, HeldInv,
           PathInv, PlugInv, MsrInv, DevsOf
  <1>6. MsrInv'
    <2>1. ~zen' => wa2' = {} /\ cpuid' = {}
      BY <1>0
         DEF ModInv, DownDead, PlugOnly, Go, Idle, ModTypeOK, HeldInv, PathInv,
             PlugInv, MsrInv
    <2>2. ~zen' /\ pc' \in {"check", "readd"} => todo' = {}
      BY <1>0
         DEF ModInv, DownDead, PlugOnly, Go, Idle, ModTypeOK, HeldInv, PathInv,
             PlugInv, MsrInv
    <2>3. pc' \in {"start", "check", "readd"} => \A x \in cpuid' : Core(x) \in wa2'
      BY <1>0
         DEF ModInv, DownDead, PlugOnly, Go, Idle, ModTypeOK, HeldInv, PathInv,
             PlugInv, MsrInv
    <2>4. cpuid' \subseteq online' \cup missed'
      BY <1>0
         DEF ModInv, DownDead, PlugOnly, Go, Idle, ModTypeOK, HeldInv, PathInv,
             PlugInv, MsrInv
    <2>5. \A n \in wa2' : \E k \in (cpuid' \cap online') \cup missed' : Core(k) = n
      BY <1>0
         DEF ModInv, DownDead, PlugOnly, Go, Idle, ModTypeOK, HeldInv, PathInv,
             PlugInv, MsrInv
    <2>6. plug'.at = "done" => plug'.cpu \notin cpuid'
      BY <1>0
         DEF ModInv, DownDead, PlugOnly, Go, Idle, ModTypeOK, HeldInv, PathInv,
             PlugInv, MsrInv
    <2>7. pc' \in {"online", "removing"} => todo' \subseteq online'
      BY <1>0
         DEF ModInv, DownDead, PlugOnly, Go, Idle, ModTypeOK, HeldInv, PathInv,
             PlugInv, MsrInv
    <2>8. zen' /\ pc' = "online" => online' \ todo' \subseteq cpuid'
      BY <1>0
         DEF ModInv, DownDead, PlugOnly, Go, Idle, ModTypeOK, HeldInv, PathInv,
             PlugInv, MsrInv
    <2>9. zen' /\ "hotplug" \in held' /\ pc' # "removing" =>
            \A x \in online' : x \in cpuid' \/ plug' = [cpu |-> x, at |-> "up"]
                                           \/ plug' = [cpu |-> x, at |-> "done"]
      BY <1>0
         DEF ModInv, DownDead, PlugOnly, Go, Idle, ModTypeOK, HeldInv, PathInv,
             PlugInv, MsrInv
    <2>10. pc' = "removing" /\ "hotplug" \in held' =>
            \A x \in online' \ todo' : Core(x) \notin wa2' /\ \A t \in todo' : x < t
      BY <1>0
         DEF ModInv, DownDead, PlugOnly, Go, Idle, ModTypeOK, HeldInv, PathInv,
             PlugInv, MsrInv
    <2>11. exiting' /\ pc' \in {"unclass", "none"} =>
            cpuid' \subseteq missed' /\ wa2' \subseteq {Core(x) : x \in missed'}
      BY <1>0
         DEF ModInv, DownDead, PlugOnly, Go, Idle, ModTypeOK, HeldInv, PathInv,
             PlugInv, MsrInv
    <2> QED BY <2>1, <2>2, <2>3, <2>4, <2>5, <2>6, <2>7, <2>8, <2>9, <2>10,
               <2>11 DEF MsrInv
  <1>7. NoDoubleRelease' /\ UnloadRestores'
    BY <1>0
       DEF ModInv, DownDead, PlugOnly, Go, Idle, NoDoubleRelease,
           UnloadRestores, ModTypeOK, HeldInv, PathInv, PlugInv, UserInv,
           MsrInv, Structs
  <1> QED BY <1>1, <1>2, <1>3, <1>4, <1>5, <1>6, <1>7 DEF ModInv

LEMMA UpBeginInv ==
  ASSUME ModInv, NEW c \in Cpus, UpBegin(c)
  PROVE  ModInv'
  <1>1. ModTypeOK'
    BY DEF ModInv, UpBegin, PlugOnly, Go, Idle, PlugBegin, Callback, ModTypeOK,
           PlugInv, MsrInv, Resources, Structs
  <1>2. HeldInv'
    BY DEF ModInv, UpBegin, PlugOnly, Go, Idle, PlugBegin, Callback, HeldInv,
           ModTypeOK, PathInv, Structs
  <1>3. PathInv'
    BY DEF ModInv, UpBegin, PlugOnly, Go, Idle, PlugBegin, Callback, PathInv,
           ModTypeOK, HeldInv, Structs, Resources
  <1>4. PlugInv'
    BY DEF ModInv, UpBegin, PlugOnly, Go, Idle, PlugBegin, Callback, PlugInv,
           ModTypeOK, HeldInv
  <1>5. UserInv'
    BY DEF ModInv, UpBegin, PlugOnly, Go, Idle, PlugBegin, Callback, UserInv,
           ModTypeOK, HeldInv, PathInv, PlugInv, MsrInv, DevsOf
  <1>6. MsrInv'
    <2>1. ~zen' => wa2' = {} /\ cpuid' = {}
      BY DEF ModInv, UpBegin, PlugOnly, Go, Idle, PlugBegin, Callback,
             ModTypeOK, HeldInv, PathInv, PlugInv, MsrInv
    <2>2. ~zen' /\ pc' \in {"check", "readd"} => todo' = {}
      BY DEF ModInv, UpBegin, PlugOnly, Go, Idle, PlugBegin, Callback,
             ModTypeOK, HeldInv, PathInv, PlugInv, MsrInv
    <2>3. pc' \in {"start", "check", "readd"} => \A x \in cpuid' : Core(x) \in wa2'
      BY DEF ModInv, UpBegin, PlugOnly, Go, Idle, PlugBegin, Callback,
             ModTypeOK, HeldInv, PathInv, PlugInv, MsrInv
    <2>4. cpuid' \subseteq online' \cup missed'
      BY DEF ModInv, UpBegin, PlugOnly, Go, Idle, PlugBegin, Callback,
             ModTypeOK, HeldInv, PathInv, PlugInv, MsrInv
    <2>5. \A n \in wa2' : \E k \in (cpuid' \cap online') \cup missed' : Core(k) = n
      BY DEF ModInv, UpBegin, PlugOnly, Go, Idle, PlugBegin, Callback,
             ModTypeOK, HeldInv, PathInv, PlugInv, MsrInv
    <2>6. plug'.at = "done" => plug'.cpu \notin cpuid'
      BY DEF ModInv, UpBegin, PlugOnly, Go, Idle, PlugBegin, Callback,
             ModTypeOK, HeldInv, PathInv, PlugInv, MsrInv
    <2>7. pc' \in {"online", "removing"} => todo' \subseteq online'
      BY DEF ModInv, UpBegin, PlugOnly, Go, Idle, PlugBegin, Callback,
             ModTypeOK, HeldInv, PathInv, PlugInv, MsrInv
    <2>8. zen' /\ pc' = "online" => online' \ todo' \subseteq cpuid'
      BY DEF ModInv, UpBegin, PlugOnly, Go, Idle, PlugBegin, Callback,
             ModTypeOK, HeldInv, PathInv, PlugInv, MsrInv
    <2>9. zen' /\ "hotplug" \in held' /\ pc' # "removing" =>
            \A x \in online' : x \in cpuid' \/ plug' = [cpu |-> x, at |-> "up"]
                                           \/ plug' = [cpu |-> x, at |-> "done"]
      BY DEF ModInv, UpBegin, PlugOnly, Go, Idle, PlugBegin, Callback,
             ModTypeOK, HeldInv, PathInv, PlugInv, MsrInv
    <2>10. pc' = "removing" /\ "hotplug" \in held' =>
            \A x \in online' \ todo' : Core(x) \notin wa2' /\ \A t \in todo' : x < t
      BY DEF ModInv, UpBegin, PlugOnly, Go, Idle, PlugBegin, Callback,
             ModTypeOK, HeldInv, PathInv, PlugInv, MsrInv
    <2>11. exiting' /\ pc' \in {"unclass", "none"} =>
            cpuid' \subseteq missed' /\ wa2' \subseteq {Core(x) : x \in missed'}
      BY DEF ModInv, UpBegin, PlugOnly, Go, Idle, PlugBegin, Callback,
             ModTypeOK, HeldInv, PathInv, PlugInv, MsrInv
    <2> QED BY <2>1, <2>2, <2>3, <2>4, <2>5, <2>6, <2>7, <2>8, <2>9, <2>10,
               <2>11 DEF MsrInv
  <1>7. NoDoubleRelease' /\ UnloadRestores'
    BY DEF ModInv, UpBegin, PlugOnly, Go, Idle, PlugBegin, Callback,
           NoDoubleRelease, UnloadRestores, ModTypeOK, HeldInv, PathInv,
           PlugInv, UserInv, MsrInv, Structs
  <1> QED BY <1>1, <1>2, <1>3, <1>4, <1>5, <1>6, <1>7 DEF ModInv

LEMMA UpOnlineInv ==
  ASSUME ModInv, UpOnline
  PROVE  ModInv'
  <1>1. ModTypeOK'
    BY DEF ModInv, UpOnline, PlugOnly, Go, Idle, StartStatic, IfZen,
           MustTakeDown, PrepareUp, ModTypeOK, PlugInv, MsrInv, Resources,
           Structs
  <1>2. HeldInv'
    BY DEF ModInv, UpOnline, PlugOnly, Go, Idle, StartStatic, IfZen,
           MustTakeDown, PrepareUp, HeldInv, ModTypeOK, PathInv, Structs
  <1>3. PathInv'
    BY DEF ModInv, UpOnline, PlugOnly, Go, Idle, StartStatic, IfZen,
           MustTakeDown, PrepareUp, PathInv, ModTypeOK, HeldInv, Structs,
           Resources
  <1>4. PlugInv'
    BY DEF ModInv, UpOnline, PlugOnly, Go, Idle, StartStatic, IfZen,
           MustTakeDown, PrepareUp, PlugInv, ModTypeOK, HeldInv
  <1>5. UserInv'
    BY DEF ModInv, UpOnline, PlugOnly, Go, Idle, StartStatic, IfZen,
           MustTakeDown, PrepareUp, UserInv, ModTypeOK, HeldInv, PathInv,
           PlugInv, MsrInv, DevsOf
  <1>6. MsrInv'
    <2>1. ~zen' => wa2' = {} /\ cpuid' = {}
      BY DEF ModInv, UpOnline, PlugOnly, Go, Idle, StartStatic, IfZen,
             MustTakeDown, PrepareUp, ModTypeOK, HeldInv, PathInv, PlugInv,
             MsrInv
    <2>2. ~zen' /\ pc' \in {"check", "readd"} => todo' = {}
      BY DEF ModInv, UpOnline, PlugOnly, Go, Idle, StartStatic, IfZen,
             MustTakeDown, PrepareUp, ModTypeOK, HeldInv, PathInv, PlugInv,
             MsrInv
    <2>3. pc' \in {"start", "check", "readd"} => \A x \in cpuid' : Core(x) \in wa2'
      BY DEF ModInv, UpOnline, PlugOnly, Go, Idle, StartStatic, IfZen,
             MustTakeDown, PrepareUp, ModTypeOK, HeldInv, PathInv, PlugInv,
             MsrInv
    <2>4. cpuid' \subseteq online' \cup missed'
      BY DEF ModInv, UpOnline, PlugOnly, Go, Idle, StartStatic, IfZen,
             MustTakeDown, PrepareUp, ModTypeOK, HeldInv, PathInv, PlugInv,
             MsrInv
    <2>5. \A n \in wa2' : \E k \in (cpuid' \cap online') \cup missed' : Core(k) = n
      BY DEF ModInv, UpOnline, PlugOnly, Go, Idle, StartStatic, IfZen,
             MustTakeDown, PrepareUp, ModTypeOK, HeldInv, PathInv, PlugInv,
             MsrInv
    <2>6. plug'.at = "done" => plug'.cpu \notin cpuid'
      BY DEF ModInv, UpOnline, PlugOnly, Go, Idle, StartStatic, IfZen,
             MustTakeDown, PrepareUp, ModTypeOK, HeldInv, PathInv, PlugInv,
             MsrInv
    <2>7. pc' \in {"online", "removing"} => todo' \subseteq online'
      BY DEF ModInv, UpOnline, PlugOnly, Go, Idle, StartStatic, IfZen,
             MustTakeDown, PrepareUp, ModTypeOK, HeldInv, PathInv, PlugInv,
             MsrInv
    <2>8. zen' /\ pc' = "online" => online' \ todo' \subseteq cpuid'
      BY DEF ModInv, UpOnline, PlugOnly, Go, Idle, StartStatic, IfZen,
             MustTakeDown, PrepareUp, ModTypeOK, HeldInv, PathInv, PlugInv,
             MsrInv
    <2>9. zen' /\ "hotplug" \in held' /\ pc' # "removing" =>
            \A x \in online' : x \in cpuid' \/ plug' = [cpu |-> x, at |-> "up"]
                                           \/ plug' = [cpu |-> x, at |-> "done"]
      BY DEF ModInv, UpOnline, PlugOnly, Go, Idle, StartStatic, IfZen,
             MustTakeDown, PrepareUp, ModTypeOK, HeldInv, PathInv, PlugInv,
             MsrInv
    <2>10. pc' = "removing" /\ "hotplug" \in held' =>
            \A x \in online' \ todo' : Core(x) \notin wa2' /\ \A t \in todo' : x < t
      BY DEF ModInv, UpOnline, PlugOnly, Go, Idle, StartStatic, IfZen,
             MustTakeDown, PrepareUp, ModTypeOK, HeldInv, PathInv, PlugInv,
             MsrInv
    <2>11. exiting' /\ pc' \in {"unclass", "none"} =>
            cpuid' \subseteq missed' /\ wa2' \subseteq {Core(x) : x \in missed'}
      BY DEF ModInv, UpOnline, PlugOnly, Go, Idle, StartStatic, IfZen,
             MustTakeDown, PrepareUp, ModTypeOK, HeldInv, PathInv, PlugInv,
             MsrInv
    <2> QED BY <2>1, <2>2, <2>3, <2>4, <2>5, <2>6, <2>7, <2>8, <2>9, <2>10,
               <2>11 DEF MsrInv
  <1>7. NoDoubleRelease' /\ UnloadRestores'
    BY DEF ModInv, UpOnline, PlugOnly, Go, Idle, StartStatic, IfZen,
           MustTakeDown, PrepareUp, NoDoubleRelease, UnloadRestores, ModTypeOK,
           HeldInv, PathInv, PlugInv, UserInv, MsrInv, Structs
  <1> QED BY <1>1, <1>2, <1>3, <1>4, <1>5, <1>6, <1>7 DEF ModInv

LEMMA OpenInv ==
  ASSUME ModInv, NEW d \in Devs, Open(d)
  PROVE  ModInv'
  <1>1. ModTypeOK'
    BY DEF ModInv, Open, UserOnly, ModTypeOK, PlugInv, MsrInv, Resources,
           Structs, Idle, Go
  <1>2. HeldInv'
    BY DEF ModInv, Open, UserOnly, HeldInv, ModTypeOK, PathInv, Structs
  <1>3. PathInv'
    BY DEF ModInv, Open, UserOnly, PathInv, ModTypeOK, HeldInv, Structs,
           Resources
  <1>4. PlugInv'
    BY DEF ModInv, Open, UserOnly, PlugInv, ModTypeOK, HeldInv, Idle
  <1>5. UserInv'
    BY DEF ModInv, Open, UserOnly, UserInv, ModTypeOK, HeldInv, PathInv,
           PlugInv, MsrInv, DevsOf, Idle
  <1>6. MsrInv'
    BY DEF ModInv, Open, UserOnly, MsrInv, ModTypeOK, HeldInv, PathInv,
           PlugInv, Idle
  <1>7. NoDoubleRelease' /\ UnloadRestores'
    BY DEF ModInv, Open, UserOnly, NoDoubleRelease, UnloadRestores, ModTypeOK,
           HeldInv, PathInv, PlugInv, UserInv, MsrInv, Structs
  <1> QED BY <1>1, <1>2, <1>3, <1>4, <1>5, <1>6, <1>7 DEF ModInv

LEMMA EnableInv ==
  ASSUME ModInv, NEW d \in Devs, Enable(d)
  PROVE  ModInv'
  <1>1. ModTypeOK'
    BY DEF ModInv, Enable, UserOnly, PastDisable, ModTypeOK, PlugInv, MsrInv,
           Resources, Structs, Idle, Go
  <1>2. HeldInv'
    BY DEF ModInv, Enable, UserOnly, PastDisable, HeldInv, ModTypeOK, PathInv,
           Structs
  <1>3. PathInv'
    BY DEF ModInv, Enable, UserOnly, PastDisable, PathInv, ModTypeOK, HeldInv,
           Structs, Resources
  <1>4. PlugInv'
    BY DEF ModInv, Enable, UserOnly, PastDisable, PlugInv, ModTypeOK, HeldInv,
           Idle
  <1>5. UserInv'
    BY DEF ModInv, Enable, UserOnly, PastDisable, UserInv, ModTypeOK, HeldInv,
           PathInv, PlugInv, MsrInv, DevsOf, Idle
  <1>6. MsrInv'
    BY DEF ModInv, Enable, UserOnly, PastDisable, MsrInv, ModTypeOK, HeldInv,
           PathInv, PlugInv, Idle
  <1>7. NoDoubleRelease' /\ UnloadRestores'
    BY DEF ModInv, Enable, UserOnly, PastDisable, NoDoubleRelease,
           UnloadRestores, ModTypeOK, HeldInv, PathInv, PlugInv, UserInv,
           MsrInv, Structs
  <1> QED BY <1>1, <1>2, <1>3, <1>4, <1>5, <1>6, <1>7 DEF ModInv

LEMMA CloseInv ==
  ASSUME ModInv, NEW d \in Devs, Close(d)
  PROVE  ModInv'
  <1>0. d \in DevsOf(d[1]) /\ d[1] \in Cpus
    BY DevFacts
  <1>1. ModTypeOK'
    BY <1>0
       DEF ModInv, Close, UserOnly, ModTypeOK, PlugInv, MsrInv, Resources,
           Structs, Idle, Go
  <1>2. HeldInv'
    BY <1>0
       DEF ModInv, Close, UserOnly, HeldInv, ModTypeOK, PathInv, Structs
  <1>3. PathInv'
    BY <1>0
       DEF ModInv, Close, UserOnly, PathInv, ModTypeOK, HeldInv, Structs,
           Resources
  <1>4. PlugInv'
    BY <1>0
       DEF ModInv, Close, UserOnly, PlugInv, ModTypeOK, HeldInv, Idle
  <1>5. UserInv'
    BY <1>0
       DEF ModInv, Close, UserOnly, UserInv, ModTypeOK, HeldInv, PathInv,
           PlugInv, MsrInv, DevsOf, Idle
  <1>6. MsrInv'
    BY <1>0
       DEF ModInv, Close, UserOnly, MsrInv, ModTypeOK, HeldInv, PathInv,
           PlugInv, Idle
  <1>7. NoDoubleRelease' /\ UnloadRestores'
    BY <1>0
       DEF ModInv, Close, UserOnly, NoDoubleRelease, UnloadRestores, ModTypeOK,
           HeldInv, PathInv, PlugInv, UserInv, MsrInv, Structs
  <1> QED BY <1>1, <1>2, <1>3, <1>4, <1>5, <1>6, <1>7 DEF ModInv

-----------------------------------------------------------------------------
(* Theorems.                                                               *)

LEMMA ModInvInit == Init => ModInv
  <1> SUFFICES ASSUME Init PROVE ModInv
    OBVIOUS
  <1> USE DEF Init, Idle
  <1>1. ModTypeOK
    BY ModAssumption DEF ModTypeOK
  <1>2. HeldInv /\ PathInv /\ PlugInv /\ UserInv
    BY DEF HeldInv, PathInv, PlugInv, UserInv
  <1>3. MsrInv /\ NoDoubleRelease /\ UnloadRestores
    BY DEF MsrInv, NoDoubleRelease, UnloadRestores
  <1> QED BY <1>1, <1>2, <1>3 DEF ModInv

LEMMA ModInvNext == ModInv /\ [Next]_vars => ModInv'
  <1> SUFFICES ASSUME ModInv, [Next]_vars PROVE ModInv'
    OBVIOUS
  <1>1. CASE Loader
    BY <1>1, LoadStartInv, LoadStaticInv, LoadReaddInv, LoadFeaturesInv,
           LoadAllocInv, LoadBuffersInv, LoadChrdevInv, LoadClassInv,
           LoadGetCpusInv, LoadCpuhpInv, LoadOnlineInv, LoadOnlineEndInv,
           LoadNmiInv, ExitStartInv, UndoDevicesInv, UndoHotplugInv,
           UndoOnlineInv, UndoHotplugEndInv, UndoChrdevInv, UndoStructsInv,
           UndoClassInv
       DEF Loader
  <1>2. CASE Hotplug
    BY <1>2, DownBeginInv, UpBeginInv, DownDisableInv, DownStopInv, DownDeadInv,
       UpOnlineInv
       DEF Hotplug
  <1>3. CASE User
    BY <1>3, OpenInv, EnableInv, CloseInv DEF User
  <1>4. CASE UNCHANGED vars
    BY <1>4
       DEF vars, ModInv, ModTypeOK, HeldInv, PathInv, PlugInv, UserInv, MsrInv,
           NoDoubleRelease, UnloadRestores
  <1> QED BY <1>1, <1>2, <1>3, <1>4 DEF Next

\* The inductive invariant: what ibs_init and ibs_exit hold at each statement,
\* when the hotplug machinery is idle, and where nodes, sampling devices and
\* workaround bits can be.
THEOREM ModInvariant == Spec => []ModInv
  BY ModInvInit, ModInvNext, PTL DEF Spec

\* Every release in the error path of ibs_init and in ibs_exit is of something
\* held, unless a step of ibs_init failed without setting err.
THEOREM ReleasesAreOfHeld == Spec => []NoDoubleRelease
  <1>1. ModInv => NoDoubleRelease
    BY DEF ModInv
  <1> QED BY <1>1, ModInvariant, PTL

\* After ibs_exit nothing is held, no node is left, and no workaround bit is
\* set except on CPUs that left before the callbacks were registered.
THEOREM UnloadLeavesNothing == Spec => []UnloadRestores
  <1>1. ModInv => UnloadRestores
    BY DEF ModInv
  <1> QED BY <1>1, ModInvariant, PTL

\* While a node or an open file exists, the structures, the buffers and the
\* character device behind it do, unless ibs_init is failing at its last step.
THEOREM UsersAreBacked == Spec => []UsersBacked
  <1>1. ModInv => UsersBacked
    BY DEF ModInv, ModTypeOK, HeldInv, PathInv, UserInv, UsersBacked, Structs
  <1> QED BY <1>1, ModInvariant, PTL

\* From the end of ibs_init on, and throughout ibs_exit, a device samples only
\* while the NMI handler is registered, or was enabled past its disable.
THEOREM SamplingIsHandled == Spec => []SamplingHasHandler
  <1>1. ModInv => SamplingHasHandler
    BY DEF ModInv, ModTypeOK, HeldInv, PathInv, UserInv, SamplingHasHandler
  <1> QED BY <1>1, ModInvariant, PTL

\* A CPU that is down has no CPUID bit, its core no WA_2 bits without a CPU that
\* is up, and none of its devices samples, with the exceptions the property
\* names.
THEOREM DownCpusAreClean == Spec => []DownIsClean
  <1>1. ModInv => DownIsClean
    BY DEF ModInv, ModTypeOK, UserInv, MsrInv, DownIsClean
  <1> QED BY <1>1, ModInvariant, PTL
=============================================================================
