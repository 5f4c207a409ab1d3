# TLA+ models of the AMD IBS Toolkit

The toolkit samples instruction fetches and micro-ops with AMD's Instruction
Based Sampling (IBS) hardware. A Linux driver (`src/driver`) gives every CPU two
character devices (op and fetch); an NMI handler stores samples into a ring per
device; a user library (`src/lib`) and tools (`src/tools`) configure the devices
and read the samples. This directory models the parts of it whose correctness
depends on the order of events, and the computations by which settings and
samples travel between command line, register and CSV file.

## 1. Inventory

| Part | Source | State | Operations |
|---|---|---|---|
| Sample ring | `driver/ibs-fops.c` `do_ibs_read`, `driver/ibs-interrupt.c` | `buf`, `capacity`, atomics `wr`, `rd`, `entries`, `lost` | store or lose a sample (NMI), read, `GET_LOST` |
| Device file operations | `driver/ibs-fops.c`, `ibs-utils.c` | `ctl`, `poll_threshold`, `in_use`, `ctl_lock`, `read_lock`, `readq`, `pollq` | open, release, read, poll, ioctls |
| Interrupt handler, bottom half | `driver/ibs-interrupt.c` | the control MSRs, `irq_work` | `handle_ibs_nmi`, `handle_ibs_work` |
| Enabling and disabling | `driver/ibs-fops.c` 48-140, `do_fam10h_workaround_420` | the control MSRs, `dev->ctl` | remote MSR writes |
| Zen dynamic workaround | `driver/ibs-workarounds.c` 128-222 | MSRs WA_1 and WA_3, saved values, a lock per core | start with the first, stop with the last enabled device of a core |
| Zen static workaround | `driver/ibs-workarounds.c` 224-339 | MSR WA_2, the CPUID bit | set on CPU up, cleared on CPU down and unload |
| Module load, unload, hotplug | `driver/ibs-core.c` | per-CPU structures, chrdev, class, notifier, NMI handler | `ibs_init`, `ibs_exit`, `ibs_online_up`, `ibs_prepare_down` |
| Bit fields, LFSR | `driver/ibs-utils.c`, `ibs-fops.c` 138-160 and 375-460, `ibs-interrupt.c` 45-74 | the fields of `dev->ctl` and of the MSR, LFSR value | `SET_*`, `GET_*`, scatter and gather, re-arm with random bits |
| User library | `lib/ibs.c` | options, per-CPU descriptors and flags, daemon pid | initialise, enable, sample, daemon |
| `ibs_monitor` | `tools/ibs_monitor` | descriptors, statistics, child process, trace files | enable, fork, poll loop, flush, disable; list of online CPUs, sampling rate, file headers |
| `ibs_daemon` | `tools/ibs_daemon` | the library's daemon, child process | initialise, launch, finalize on exit or signal; list of online CPUs |
| `ibs_decoder` | `tools/ibs_decoder` | what the header of a trace file said | parse the header, write CSV header and rows |
| Test program, scripts | `tools/ibs_test`, `tools/ibs_run_and_annotate`, `*.sh` | none | |

**Interactions.** The NMI handler and the threads in a file operation share the
ring without a lock; the handler cannot take one. Configuration calls are
serialised by `ctl_lock`, reads by `read_lock`, and the two are never nested.
The handler queues the bottom half, which wakes `readq` and, at
`poll_threshold`, `pollq`. Enabling and disabling run register writes on the
device's CPU in cross-CPU calls, which never interrupt an NMI. On Zen cores
the devices of the core's SMT siblings also share the workaround MSRs. The tools
fork: descriptors opened by the monitor, or by the application of the library,
are also held by the program and by whatever it starts, and a device is released
only by the last of them. Between monitor and decoder lies a file whose header
says which fields the machine's samples have.

**What is hard.** The lock-free hand-over between handler and reader; resets of
the ring that hold a different lock than reads; wake-ups between a test and a
sleep; NMIs that arrive after their device was stopped; register writes spread
over several steps while another device of the core is being stopped; the end of
a measurement, when samples still arrive, processes exit in any order and signals
meet a process half-way; columns and fields that two programs must agree on for
every processor family.

**What makes each part correct.**

- *Ring*: it is a bounded FIFO queue; records are neither overwritten, skipped,
  repeated nor reordered; `entries` is its occupancy; every interrupt is stored
  or counted as lost.
- *File operations*: the hardware samples only as `dev->ctl` says; the ring is
  never reset under a running handler; nobody sees a previous user's records;
  every call ends or sleeps, and no sleeper misses its wake-up.
- *NMIs*: every IBS NMI is claimed; nothing the driver itself writes is taken for
  a sample; a stopped device stays stopped.
- *Zen workaround*: on while any device of the core samples; the MSRs are as
  before when none does.
- *Module*: what a user can reach is allocated; every error path releases what is
  held and nothing else; unloading and CPUs going down leave nothing behind.
- *Library*: every device it enables it also disables, whatever fails half-way; a
  sampling call stays within the caller's buffer; the daemon ends when told to.
- *Control register*: a field holds what was last asked for, however often the
  hardware was re-armed, and settings do not reach other bits.
- *Monitor*: its statistics account for every sample; nothing is missed silently
  but in the final window; no full ring is left unread; it ends after its program
  and leaves no device sampling.
- *Daemon tool*: its daemon does not outlive it.
- *Decoder*: every cell stands under its column's name; the printed sampling rate
  is the one that was set.

## 2. Modules

| Module | Models | Built on |
|---|---|---|
| `SampleQueue` | abstract bounded FIFO queue | |
| `IbsRing` | the ring between NMI handler, reader and `GET_LOST` | refines `SampleQueue` |
| `IbsDevice` | one device node: threads, locks, wait queues, bottom half, hardware register | extends `IbsRing` |
| `IbsNmi` | one CPU: both control registers, NMIs on their way, enable and disable step by step, erratum 420 | |
| `IbsZenWorkaround` | one core: dynamic workaround of up to 2 devices per sibling | |
| `IbsModule` | `ibs_init`, `ibs_exit`, hotplug callbacks, static workaround, users of the nodes | |
| `LibIbs` | the user library: one application (any, or `ibs_daemon`), its daemon and its program | |
| `IbsMonitor` | `ibs_monitor`: monitor, program, heirs of its descriptors, devices | |
| `IbsControl` | the control register bit by bit: ioctls, enabling, re-arming, LFSR | |
| `OnlineCpus` | the two parsers of the list of online CPUs (operators) | |
| `TraceFile` | header of the trace files, columns and cells of the CSV files (operators) | |
| `ToolChain` | command line to CSV: rates, CPU lists, decoding | extends `IbsControl`, `OnlineCpus`, `TraceFile` |
| `*Proofs` | theorems of the module they are named after | |
| `MC*` | the root modules of the runs | |

Program counters name the statement a thread is at (`npc` for the NMI handler,
`rpc` for `do_ibs_read`, `tpc[t]` for thread `t`, `ppc[f]` for the caller that
enables or disables flavor `f`, `pc` for the loader and for the monitor, `at` for
the library). Local C variables keep their names with an `l_`
prefix. History variables are never read by guards of modelled code; they only
state properties. They count and name records (`events`, `stored`, `taken`,
`reported`, `base`), mark samples (`sampled`, `phantom`), or mark that a known
exception of a property happened: `discarded` (IbsNmi), `raced`
(IbsZenWorkaround, IbsModule), `silent`, `missed` (IbsModule), `forgotten`,
`delisted`, `killed`, `untold` (LibIbs); `doubled` marks a release of what is not
held. In IbsMonitor `taken` counts samples, `thrown` those dropped by a reset or
release, `mark` those taken before the flush read the device; in IbsControl
`asked` is the last accepted argument per field, in ToolChain `rate` the rate that
the maximum count comes from. The bounds are `MaxEvents` (interrupts), `MaxRearms`
(interrupts of IbsControl), `MaxCalls` (calls in progress on a core), `MaxPlug`
(hotplug transitions) and `MaxOpen` (open files), each a guard.

### IbsRing
Each access to `wr`, `rd`, `entries`, `lost` or the buffer is a step, except that
the handler's load of `wr` and its full test are one: nobody else writes `wr`
while a handler can run, and a reader that moves `rd` between the two only
matters through the value the test sees. A record is its serial number.
`NoRecord` is what a copy delivers where there is no record of the device. Sizes
are in entries. In `do_ibs_read` a count of entries that has become negative
turns into a huge `size_t` (`ReadCount`), and so does `capacity - rd` after a
shrink (`BytesToEnd`). `copy_to_user` may fail at any copy (`CopyFault`).

### IbsDevice
All threads share one open file. `open` loses the `in_use` exchange silently
(`-EBUSY` changes nothing). `release` runs when no call is in progress on the
file, as the kernel guarantees. `reset_ibs_buffer` is four steps. `wait_event` is
enqueue, test, sleep; `poll_wait` enqueues before the tests. The option fields of
the control register are one value `opt`; the disable sequence is one step here
and refined in `IbsNmi`. A SET_BUFFER_SIZE to the same number of entries counts
as an unchanged size. `GET_*`, `FIONREAD` and `DEBUG_BUFFER` change nothing and
have no action. The code of kernels from 4.10 on is the one modelled.

### IbsNmi
The hardware and the kernel's NMI entry are external. A sample sets the valid bit
and sends an NMI; the NMI reaches the CPU within the microsecond that
`disable_ibs_op` waits and before a running handler ends; while one NMI is handled
one more is held. The kernel reports an NMI as unknown if no handler claims it,
unless it arrived back to back after one whose handlers claimed more than one
event. `handle_ibs_event` looks at op, then fetch. Erratum 420 is modelled by its
two effects: the register write from a value read on any CPU, and a possible NMI.
`dev->ctl` always holds a nonzero maximum count, as `set_ibs_defaults` gives it.
`Flavors` are the ones in use, `Workarounds` the possible values of the device's
erratum 420 flag. `discarded` becomes true when a caller writes a flavor's
register while an NMI of that flavor is on its way: the valid bit that would have
claimed it is gone.

### IbsZenWorkaround
Every device of a core has at most one call in progress (its `ctl_lock`). The
loop over siblings reads one control register per step while the workaround lock
is held; each read-modify-write of an MSR is one step since only the holder of
the lock writes those MSRs. `Saved` says whether `init_workaround_structs` read
the old values, which it does on model 01h only. `raced` becomes true when a stop
begins between another device's workaround start and its enable bit.

### IbsModule
Three actors: the loader, with one step per call that can fail or wait; the
kernel's hotplug machinery, which runs one transition at a time, none while
`readers` (the number of `get_online_cpus` not yet put) is positive, and calls the
driver back if the notifier is registered; and users who open, enable and close.
`held` is the set of what was acquired. A failing step says which label it jumps to
and whether `err` is set. A callback that takes a sibling down waits for its own
transition: the state `stuck`. The WA_2 bits are clear before the module is
loaded; the APIC's LVT entry is not modelled, nor are calls into a module that is
already gone. The code of kernels from 4.10 on is modelled.

### LibIbs
The tables (`fds`, `flag`, `list`) are those of the one process that runs library
code: the application, or after the fork the daemon, since an application with a
daemon only finalizes and exits. Every `open` and `ioctl(IBS_ENABLE)` may fail.
The loops over CPUs take one device per step. `select` returns on data, on
timeout, or on a signal (the set unchanged). The driver is external: a device is
disabled by its last close, samples arrive while it is enabled. Changes of the poll
size after initialisation and the files the daemon writes are left out.

If `tool` is true the application is `ibs_daemon`: it initialises once with a
daemon and without reading on timeout, launches its program, which inherits the
descriptors, and finalizes when the program has ended. A signal (`bad_exit`)
finalizes at any moment; `known` tells the moments before and after
`ibs_initialize` has stored the daemon's pid. The fork of the program may fail,
and then the tool exits without finalizing.

### IbsMonitor
Device `d` is the op device of CPU `d` or the fetch device of CPU `d - NumCpus`,
so that the order of `Devs` is the order of the descriptors. `main` is one program
counter, with the loops over `fds` one device per step and the `read` and the
`GET_LOST` of a device separate steps, between which samples arrive. The driver is
modelled as its calls behave for a single reader: `IbsDevice` shows what they do.
`RESET_BUFFER` finds the devices enabled and is refused. `Close` and the exit of a
process release a device only if nobody else holds it; the program and one process
that it starts (the heir) end in any order. `fork` and `poll` may fail, `open` may
find a device in use.

### IbsControl and OnlineCpus
A 64-bit word is the set of the positions of its one bits. `scatter_bits` and
`gather_bits` walk a mask and move on in the quantity at every one bit of it:
`Place(b, fmt)` is the position reached at bit `b`. `Rearm` is what an interrupt
does to the register; a maximum count cut to 0 lets the op handler return before.
`OnlineCpus` writes the kernel's text (external) for a set of CPUs as a sequence
of characters, range by range in the order of the CPU numbers, and folds the loop
body of the parsers over it. The loop advances by one character in every case (the
inner `while(isdigit(...))` of the monitor starts at the dash and does nothing).

### TraceFile and ToolChain
The header of a trace file is a sequence of lines with key and value, as the
decoder reads them with `fgets(line, 255)`. Family and model come first, then free
text (stepping, names, time, working directory, command line), the flags, and a
line of equal signs. A text with a line break or of more than 254 bytes reaches the
decoder as several lines, of which all but the first can begin with anything, a key
or the equal signs included: `text` is any sequence of such lines. What is read as
samples when the header ends early is not modelled. A CSV header and a row are
sequences of field names, a cell that shows a dash is `Blank`. Headers and
rows are written out separately, as in the code, since their agreement is the
property. `ToolChain` starts each computation in the register's default state,
records input and result in `job`, and interleaves the rates of the command line
with the register's other operations.

## 3. Runs

Passing runs:

| Run | Question and result | Bounds |
|---|---|---|
| `ring_fifo` | The ring implements the FIFO queue; all ring invariants | capacities 1 to 4, 6 interrupts, any read sizes: the ring is empty, full and wrapped more than once |
| `device_single` | Any sequence of all calls of one thread, `vmalloc` may fail: ring consistent, reads in order and complete across resets, resizes and re-opens, sessions isolated (until a `vmalloc` failed), hardware follows `ctl`, resets are quiet | capacities 1 to 3, 4 interrupts: a ring of 2 records fills, is reset or replaced, and fills again |
| `device_share` | Two threads read, poll, enable and disable one device: under fairness every call ends or sleeps, and no reader or poller is stranded | capacity 2, 2 interrupts: the ring fills and one sample is lost |
| `nmi_stop` | Both flavors enabled, re-enabled and disabled with and without erratum 420: an NMI is unknown only after its register was overwritten, no phantom sample, stopped devices stay off | finite as it is |
| `zen_restore` | Overlapping calls on a core of two siblings: WA_1 is restored, and the workaround is on under every sampling device unless a stop raced | 4 devices, 3 calls at a time |
| `module_load` | Load with every failing step, unload, hotplug and users: reachable devices are backed, no double release, unloading and CPU down clean up | 3 CPUs (a core of two threads and one of one), 3 transitions, 1 open file |
| `lib_calls` | Library calls in any order, failing half-way, with and without a daemon, or `ibs_daemon`: nothing samples that would not be disabled, no descriptor lost, no overrun, the daemon stops when told and goes with the tool | 2 CPUs, op devices, capacity and poll size 2, 3 samples per call: a call can be cut short in the middle of the second device |
| `monitor` | The monitor from enabling to its end: statistics account for every sample, only samples of the final window go unreported, no device is left sampling, full rings are read, the monitor ends | both devices of 1 CPU, rings of 2 records, every poll argument 0 to 3, 5 samples: a ring overflows, is read by poll and by the flush, and samples fall into the final window |
| `toolchain` | Settings survive bit fields and re-arming, cut to the width of the field, CPU lists are right for one-digit numbers, the flags of a trace header arrive behind any free text, CSV rows fit their header with two exceptions, the printed rate is the one set | every set of online CPUs out of 12, the 11 family and model ranges the tools distinguish with all 64 combinations of feature bits, free texts of one line and with a second line that looks like the model, a flag or the end of the header, arguments at the borders of the fields, rates at both limits, 2 re-arms |

Three CPUs are the fewest with both a sibling and another core; three transitions
allow down, up, and one more during load or unload. The violations below need two
threads, at most two interrupts past a full ring and capacities up to 3; no
property of the ring distinguishes records beyond their order, and the proofs of
section 5 cover all capacities and numbers of interrupts.

Runs that are expected to find a violation, each stating what a comment or a
message of the code says:

| Run | What happens |
|---|---|
| `ring_torn_read` | `do_ibs_read` loads `rd`, `wr`, `entries` in turn. A record stored between the last two is counted but not copied when the ring has wrapped: the read returns more bytes than it wrote and the record is consumed (capacity 3, `rd` = 2, loaded `wr` = 0, then one record: count 2, one record copied). When the ring has not wrapped the same race can carry the single copy past the end of the buffer (capacity 4, `rd` = 2, loaded `wr` = 3, then two records: count 3 from slot 2); the model delivers `NoRecord` there. |
| `device_reset_race` | `RESET_BUFFER` in the middle of another thread's read: `rd` and `entries` disagree for good. |
| `hotplug_deadlock` | The first thread of a core goes down and clears WA_2 for the whole core; when it comes up again the callback finds the bits clear and takes the online sibling down from within the transition, which waits for itself. |

Deadlock is checked in all runs but `module_load`, `hotplug_deadlock` (the system
may stop after unloading), `lib_calls` (after all processes have exited) and
`monitor` (which ends).

Every property of a passing run has a mutant, an operator defined next to the
one it replaces (`RingFullNever`, `ToReadAll`, `NbCellsTwoBlanks`, ...), under which
TLC finds the property violated. The type invariants (`RingTypeOK`, `DeviceTypeOK`,
...) are in no run: they are parts of the inductive invariants of section 5.

**Also seen while modelling.** These are behaviours of the code that the
properties above name as exceptions, or that no property covers. A property with
such an exception does not find the behaviour: it shows that there is no other way
to go wrong. They follow from the code as described:

- `IBS_DISABLE` wakes nobody: a reader already asleep stays asleep.
- `ibs_poll` tests data and enable bit under different locks, so it can report
  `POLLHUP` though enough data arrived in between.
- `SET_BUFFER_SIZE` below an accepted poll size leaves a threshold no ring reaches.
- `SET_BUFFER_SIZE` frees before it allocates: after a failed `vmalloc` `dev->buf`
  points to freed memory, which later samples and reads use, although the message
  (`ibs-fops.c` 485) says "leaving buffer unchanged". Properties of the ring's
  contents are stated up to such a failure (`allocated`).
- `SET_CUR_CNT` and `SET_MAX_CNT` cut their argument to the field without an error.
  `include/ibs-uapi.h` (212-214, 231-235) promises 23 bits of both counts for every
  op device ("Possible values satisfy 9 <= MAX_CNT < 2^23"); without the count
  extension the masks (`ibs-msr-index.h`) hold 20 and 16 bits, and a documented
  count loses its upper bits. `SettingsKept` names this exception; the run has it
  (65545 and 4194304 on an op device without the extension). What is left may be 0,
  and the op handler then returns without re-arming.
- Disabling fetch, and `IBS_ENABLE` on an enabled device, can discard the valid bit
  of a sample whose NMI is on its way: the kernel reports an unknown NMI.
- The erratum 420 workaround reads the control register of the caller's CPU.
- The Zen workaround is turned off under a sampling device by a disable that scans
  between another device's workaround start and its enable bit; the WA_3 bits are
  set on the last disable whatever they were; the old values are saved on model 01h
  only.
- A failed `__register_chrdev` or `cpuhp_setup_state` leaves `err` at 0: the module
  stays loaded with everything released, and unloading releases it again. The
  second also leaves the CPUs held, and a failed load leaves the class.
- Device nodes exist before the NMI handler is registered, so a device enabled at
  once has no handler yet; if that registration, the last step of a load, fails,
  files that were already opened lose what backs them.
- CPUs that go down before the hotplug callback is registered keep their
  workaround bits; `ibs_prepare_down` takes no `ctl_lock` and leaves `dev->ctl`.
- `ibs_finalize` closes no descriptor, and disables only CPUs still on the list. A
  SIGUSR1 before its handler is installed kills the daemon, and its devices stay
  enabled as long as the application holds their descriptors.
- `ibs_daemon` leaves its daemon running when a signal meets it between the fork
  and the store of the daemon's pid, or when it cannot fork its program.
- The monitor resets the rings after enabling the devices, which the driver
  refuses; samples taken before the program starts are therefore reported. A poll
  that times out reads nothing, so what is below the threshold waits for the flush.
  Samples between the flush of a device and its disabling are neither read nor
  counted as lost. Poll percentages that come to 0 or to the whole ring are refused
  by the driver, and the threshold stays 1.
- A monitor whose `fork` or `poll` fails exits without disabling: while its program
  lives, the devices keep sampling on the inherited descriptors.
- Both tools misread CPU numbers from 10 on when they read the list: the monitor
  (only if a CPU is offline) sees the digits after the first once more as numbers,
  the daemon tool takes every digit for a number. On CPUs 0 to 15 it finds 0, 1 and
  5, and reserves 5.
- On families 14h and 16h a CSV row without valid northbridge data has two cells
  more than the header. The column `IbsOpReturn` shows `ibs_op_brn_ret`. The test
  for erratum 717 (`ibs_dc_miss -= 0`, `ibs_decoder.c` 540) is an assignment.
- The decoder reads the free text of a trace header like any other line: a command
  line of several lines, or of more than 254 bytes, can replace family and model,
  or end the header early. Flags come after it and are always right in the first
  case. A short `fwrite` of samples is reported but still counted in the statistics.

## 4. Fairness

`FairSpec` of `IbsDevice` assumes: a handler that has started finishes (it runs to
completion with interrupts held); queued irq_work runs (the kernel's promise); a
thread inside a call that waits for nothing gets the CPU (weak fairness); a thread
that keeps asking for a mutex gets it (strong fairness: kernel mutexes hand over
to waiters). Nothing is assumed of new samples, new calls, signals or timeouts.
`FairSpec` of `LibIbs` assumes that a process inside a library call keeps running
and that a sent signal is delivered (weak fairness); `DaemonStops` also needs a
poll timeout (`Timeout = TRUE`, the default options have one), without which a
signal between the test of `die` and `select` leaves the daemon waiting for
samples. Nothing is assumed of the application or of samples. `FairSpec` of
`IbsMonitor` assumes that the monitor keeps running, where a `poll` returns at the
latest when its timeout (at least 1 ms) is over; failures are outside the fair
part, and nothing is assumed of the program, its heirs and the samples. The other
modules state safety only.

## 5. Theorems

All are proved for every value of the constants that satisfies the modules'
assumptions (capacities positive, `None` not a thread or option, at least one
sibling, ...).

- **Ring** (`IbsRingProofs`): `EntriesCorrect`, `EventsConserved`, `RecordsSafe`,
  `RaceFreedom`, `ReadsInOrder`, `CleanReadsExact`. The runs' invariants are not
  inductive: `RingInv` adds what the two sides know through their locals (the
  handler's `old_wr` is `wr` and the slot after it is not `rd` until published; the
  reader's `l_rd` is `rd`, its count is at most the occupancy, and what it has
  copied so far is the front of the queue). `RingInvariant` proves it, one step per
  action. Arithmetic on the circle is in lemmas on `Dist` and `NextSlot`.
  `RingRefinesQueue`: the ring implements `SampleQueue`, with the contents of the
  buffer between `rd` and `wr` as the queue. The handler's store of `wr` accepts a
  record, its full test drops one, the reader's store of `rd` takes its count; all
  other steps stutter.
- **Device** (`IbsDeviceProofs`): `DeviceTypeCorrect`, `HardwareControlled`,
  `ResetsAreQuiet`, `PollNeedsRecords`. `DevInv` says who holds `ctl_lock` at each
  program counter, that a thread past the busy check runs with `ctl.en` clear and
  the register off, and that `in_use` is held from open to release; `ThresholdInv`
  that the threshold is positive from `set_ibs_defaults` of the open on.
  `RingStaysConsistent`, `SessionsIsolated` and `DeviceReadsInOrder`
  (`OrderAcrossResets`) carry the ring's
  invariant into the device, for any number of threads. They assume `ResetsApart`
  of every state: no thread is in `do_ibs_read` while another is in
  `reset_ibs_buffer` for an ioctl, and none in `ibs_read` while another replaces the
  buffer; `device_reset_race` shows that this is needed. `SerialResetsAreApart`: a
  process with one thread, or without `RESET_BUFFER` and `SET_BUFFER_SIZE`, keeps it
  whatever it does. `DevRingInv` says that `RingInv` holds outside
  `reset_ibs_buffer`, what is already zero inside it (`HalfReset`: handler and reader
  are idle, which for the handler follows from `DevInv`, for a reader from
  `ResetsApart` or, in open and release, from the file having no calls in progress),
  and that `base` is behind `taken` once the reset of an open has moved `rd`.
  `ReaderWakeUpIsDue` and `PollerWakeUpIsDue` are the safety core of the two
  stranding properties: a sleeper on its queue with something to wake up for has
  the handler about to queue the bottom half, or the bottom half pending. A reader
  goes to sleep only when `rd = wr` was seen after it had queued; `do_ibs_read` moves
  `rd` only while there are records (`RingInv`); a reset ends with both at 0. A
  poller needs in addition that `SET_POLL_SIZE`, which wakes nobody, is not applied
  while a thread sleeps in `poll` (`PollSizeApart`). `SerialThreadsWakeUp`: one
  thread needs neither discipline.
- **NMIs** (`IbsNmiProofs`): `NoPhantoms` and `StoppedIsOff` rest on `StopInv` (a
  valid bit with a maximum count is a sample; past the first register write of a
  disable the count is 0). `UnclaimedOnlyDiscarded`: `ClaimInv`, which holds as long
  as no register was overwritten under an NMI on its way, pairs each NMI on its way
  or held with a valid bit or with a kernel allowance to swallow it.
- **Zen** (`IbsZenWorkaroundProofs`): `Wa1AlwaysRestored`, assuming `Saved = TRUE`.
  `ZenInv` says that if WA_1 differs from its old value then a device is on or some
  caller is bound to turn it back (`Responsible`), and that such a caller has yet
  to scan. `WorkaroundOnUnlessRaced` needs no saved values; `OnInv` says that until
  a race every device that samples or is about to has the workaround on, and that a
  stop in its critical section is the only call that could change that.

- **Module** (`IbsModuleProofs`): `ReleasesAreOfHeld`, `UnloadLeavesNothing`,
  `UsersAreBacked`, `SamplingIsHandled`, `DownCpusAreClean`, for any number of CPUs,
  threads per core, transitions and open files. `ModInv` has what is held at each
  statement as long as no failure was silent (`HeldInv`), what is no longer held and
  which path the loader is on (`PathInv`), that `get_online_cpus` keeps the hotplug
  machinery idle (`PlugInv`), that nodes, open files and sampling devices exist only
  while the callbacks are registered, but for the recorded races (`UserInv`), and
  that a core has WA_2 set only while one of its online CPUs shows the CPUID bit or
  went down unseen (`MsrInv`). The last needs the order of the loops over CPUs.
- **Library** (`LibIbsProofs`): `NoOrphans`, `DescriptorsAreKnown`, `BufferSafe`,
  `ReadsFull`, for any number of CPUs and every buffer and poll size. `LibInv` adds
  which process runs at each point (`ControlInv`), and that every loop that
  disables has all flagged devices of listed CPUs still before it (`FlagInv`): in
  the daemon, whose `ibs_enable_all` may fail half-way, because CPUs are enabled in
  ascending order.
- **Monitor** (`IbsMonitorProofs`): `LateOnlyMissed`, `MonitorStopsSampling`,
  `SamplesAreAccounted`, for any number of CPUs, ring size, threshold and samples.
  `MonInv` says that each device is in `fds` once, which devices can be sampling
  behind the position of each loop, and where an unread sample can be: a counted
  loss lies behind a nonempty ring until `GET_LOST` comes to it. The statistics
  are sums over all devices; `SumChange` says what changing one term does.
- **Tools** (`ToolChainProofs`): `SettingsAreKept`, `RateIsDecoded`,
  `RowsAreUnderNames`, for every argument, rate, machine, free text and number of
  interrupts.
  `ToolInv` says that each field of `dev->ctl` is the scatter of what was asked for
  and that the hardware differs in the random bits only. `GatherScatter`
  says that a field reads back what was written to it, `FieldsApart` that masks do
  not overlap, `LfsrRange` that the LFSR is never 0. `RateIsDecoded` needs numbers
  and their bits: `NumberBits` (the bits of a number add up to it), `NumberPieces`
  and `NumberShift` (a split field adds up to the whole). `RowsAreUnderNames` is inductive by itself;
  its lemmas say what `header_parse` finds (`ParsedIsLast`: the value of the
  last line with a key), where the lines of a header are and which of them the
  decoder reads (`HeaderLines`, `EndFound`, `HeaderValues`), and that header and row are made of pieces that fit each
  other (`UnderConcat`). `OnlineCpusAreFound` holds for every set of online CPUs. The
  kernel's text is a recursive function of the CPU number (`TextDef`), the parsers'
  loop a fold. Every text of that form keeps the loop inside the array (`Readable`);
  if the numbers have one digit, then after the text of the ranges that end before
  CPU n the loop has marked exactly the CPUs of these ranges (`Closed`), a dash
  marks up to the number behind it, and the last number is the last CPU.

The induction theorems of the library cannot be instantiated, so facts about
recursive definitions and folds (`SumOver`, `Number`, `ParseLines`, loops in
ascending order) are proved from a least counterexample: the natural numbers, and
the subsets of a finite set, are well-founded (`WFMin`), and the definition
unfolded once contradicts the minimality.

Some definitions changed because of the proofs. `Width` (IbsControl) was a CASE
whose guards overlap, of which TLC takes the first and the semantics any: it is
now an IF. `DownIsClean` (IbsModule) exempted CPUs whose transition had not ended,
which was not needed. The kernel's text (OnlineCpus) was built by sorting the
starts of the ranges and is now a recursive function of the CPU number.

**Only model-checked**: liveness (`CallsFinish`, `ReaderNotStranded`,
`PollerNotStranded`, `DaemonStops`, `ToolTakesDaemonAlong`, `MonitorEnds`,
`FullRingIsRead`), which the prover does not handle; for the two stranding
properties the invariants above are what is proved. Every invariant that a passing
run checks is a theorem. What the violation runs show is a counterexample, and needs
no proof. Several invariants are checked with few threads or CPUs and proved for any
number.

## 6. Not modelled, and the plan

Not modelled: the contents of samples but for the control register; `DEBUG_BUFFER`
(it prints); kernel versions before 4.10, whose hotplug callbacks differ; the
APIC's LVT setup; the parsing of command lines and the text of numbers, messages
and files; the environment that the monitor builds for its program; the test
program and the annotation scripts, which have no state of their own; build files.
Next:

1. The older kernels' notifier callbacks as a variant of `IbsModule`.
2. The environment that the monitor builds for its program (`update_environment`,
   which adds `LD_DEBUG` unless it is already there).
