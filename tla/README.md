# A TLA+ verification of clues

clues is a C++ library (libclues) and a command line tool that trace the system
calls of other processes by ptrace(2), like strace. This project models what is hard
to get right in it: the life of a tracee between the kernel, which stops and kills
threads at any moment, the `Engine`, which waits for all tracees at once, and the
client, which may detach in the middle of everything; the `SystemCall` objects, which
are reused from call to call and read a memory that others change; the map of file
descriptors, which follows the kernel's tables from behind; and the command line tool,
which prints the calls of many tracees on one terminal.

## 1. Inventory

| Component | Source | State | Operations |
|---|---|---|---|
| `Engine` | `src/src/Engine.cxx` | `m_tracees`, `m_unknown_events`, `m_newly_attached_pid` | `addTracee`, `trace`, `handleEvent`, `checkUnknownTraceeEvent`, `checkUnknownEvents`, `tryUpdateTraceePID`, `handleAutoAttach`, `handleSubstitution`, `handleNoChildren`, `checkCleanupTracee`, `stop` |
| `Tracee` | `src/src/Tracee.cxx` | `m_state`, `m_prev_state`, `m_flags`, `m_restart_mode`, `m_ptrace`, `m_stop_signal`, `m_current_syscall`, `m_interrupted_syscall`, `m_syscall_ctr`, process data | `attach`, `detach`, `processEvent` and a handler for each ptrace-stop, `attachThreads`, readers for memory and registers |
| `ChildTracee`, `ForeignTracee`, `AutoAttachedTracee` | `src/src/*Tracee.cxx` | the `SubProc` of a child | `create`, `configure`, `cleanupChild`, destructors |
| `EventConsumer` | `src/include/EventConsumer.hxx` | that of the client | callbacks |
| `SystemCall`, items, `SystemCallDB` | `src/src/SystemCall*.cxx`, `src/src/items`, `src/src/syscalls` | one object per system call number | `setEntryInfo`, `setExitInfo`, `updateFDTracking` |
| File descriptors | `ProcessData.hxx`, `utils.cxx`, `Tracee.cxx` | `fd_info_map`, shared between threads | `trackFD`, `updateFD`, `dropFD`, `syncFDsAfterExec`, `unshareProcessData` |
| `TermTracer` | `src/src/termtracer` | active and unfinished system calls, number of tracees, main status | the callbacks, `stop` |
| Tables, registers, formatting | `src/src/sysnrs`, `include/regs`, `format.cxx` | none | lookup, text |

**Interaction.** The program has one thread of its own. `Engine::trace()` calls
wait(2), looks the PID up in `m_tracees` and calls `Tracee::processEvent()`. The
Tracee makes ptrace requests, calls the `EventConsumer` and calls back into the
Engine (`handleAutoAttach`, `handleSubstitution`, `addTracee`). In a callback the
client may call `detach()` or `stop()`. All concurrency comes from the kernel:
the tracees run, stop, get signals and die while the tracer is busy.

**What is hard.** SIGKILL between any two requests of a handler (every request may
fail with ESRCH, and the handler's remaining steps do not happen); events of
parent and child in any order; execve() in a multi-threaded process, where a
thread changes its PID and all others vanish; group-stops, where the kernel
answers requests only in some states; a detach that needs another stop to happen
first; the belief about being in a system call, which is kept in a flag and
never looked up; items that depend on each other and are filled in register order;
data of an earlier call in a reused object; two threads that change one descriptor table
while their exits are reported in any order; events of other tracees in the middle of a
line. `PROJECT.json` lists each of these under `hazards` with its line.

**What makes it correct.** A Tracee and its thread agree about system calls; no
thread is left in a stop nobody ends; the end of each tracee is reported once; the
client hears of a new child before anything else of it; after execve() one Tracee
is left; a detach is completed; trace() returns. A `SystemCall` shows nothing but
the present call, with each argument from its register; the descriptor map agrees with
the kernel; the tool's lines are not mixed up and its notes of pending calls are right.

## 2. Modules

| Module | Models |
|---|---|
| `PtraceKernel` | External: one thread under ptrace(2). Operators for each request (`Seize`, `Interrupt`, `Resume`, `Listen`, `Detach`, `Kill`, `Send`, `Collect`) and each step a thread can take |
| `TraceeObject` | class `Tracee`: one operator per member function, on a frame of the object, its thread, the view of the consumer and the exception in flight |
| `TraceeContract` | The abstract specification: what the `Engine` promises to an `EventConsumer` about one tracee, without ptrace, statuses or signals |
| `TraceeLifecycle` | One Tracee in the Engine from `addTracee()` to its removal, with all that can happen to its thread. Implements `TraceeContract`. `MCTraceeLifecycle` is its TLC module |
| `Engine` | Several threads and processes, `m_tracees` and `m_unknown_events`. Every tracee keeps `TraceeContract`. `MCEngine` is its TLC module |
| `Items`, `NetItems` | The classes of `include/items`, `src/items`: what an item reads at the entry and at the exit, which sibling it consults, what is left in it if the memory cannot be read |
| `CallObject` | class `SystemCall`: parameters, return item, optional items, and the filling of items with DEFER_FILL |
| `FileCalls`, `IoCalls`, `ProcessCalls`, `NetCalls`, `PrctlCalls` | The classes of `include/syscalls`, `src/syscalls`: the parameters of each call by operation and ABI, `prepareNewSystemCall()`, `check2ndPass()`, `postSystemCall()` |
| `SystemCall` | `SystemCallDB::get()`, `setEntryInfo()` and `setExitInfo()`, for one number that a tracee calls again and again. `MCSystemCall` is its TLC module |
| `FDTracking` | `fd_info_map` of several tracees beside the kernel's descriptor tables. `MCFDTracking` is its TLC module |
| `TermTracer` | The command line tool's callbacks, for the callbacks of several tracees in any order |
| `TraceeObjectProofs` | Lemmas on the operators of `PtraceKernel` and `TraceeObject`: types, object and thread stay in step, also while the thread goes on by itself |
| `TraceeViewProofs` | Lemmas on the same operators: what the consumer is told, and what becomes of the thread |
| `TraceeContractProofs` | Theorems about `TraceeLifecycle`: types, object and thread in step, its other safety properties and the refinement of `TraceeContract` |
| `TermTracerProofs` | The theorems about `TermTracer`, with the lemmas on its callbacks |
| `FDTrackingProofs` | The theorems about `FDTracking`, with the lemmas on its system calls |
| `EngineProofs` | Theorems about `Engine`: types, and new threads are announced first |
| `EngineStepProofs` | Theorems about `Engine`: its tracees are in step, stored stops are pending, no stop is forgotten, and the consumer is told of each what `TraceeContract` allows |
| `EngineExecProofs` | Theorem about `Engine`: what execve() in a process with several threads leaves in `m_tracees` |

`TraceeLifecycle` and `Engine` both are built from `TraceeObject`, so that a
handler is written once and checked in both settings.

### Tracee and Engine

`processEvent()` is one step: between two calls
of wait(2) the tracer runs alone, and what the thread can do meanwhile while it
sits in a stop is to be killed. That moment is an input of the step (`in.kill`):
before the first request of the handler (`request`), while parameters are read
from the tracee's memory (`decode`), before the restart (`late`), or not at all.
Exceptions are the field `ex` of the frame: an operator that throws leaves the
changes made so far, and every caller passes the exception on, until
`handleEvent()` swallows ESRCH and EIO and lets the others leave `trace()`.
A callback records in the view `v` what the consumer was told (`Told`) and may
call `detach()` (`in.detach`). System calls are told apart as far as the control
flow does (`clone`, `execve`, `exit`, `restart_syscall`, `sigreturn`, and `read` for
all others), signals as SIGCONT, stopping signals and others. Parameters,
registers, names and log output are left out.

`cleanupChild()` blocks in wait(2) for the end of the child; this is the field
`blocked`, which holds the Engine until `ChildCollected`.

The kernel's rules in `PtraceKernel` that the results depend on: a request
fails with ESRCH unless the thread is in a ptrace-stop (PTRACE_LISTEN is not one
any more); the trap of PTRACE_INTERRUPT is dropped if another ptrace-stop comes first; the trap that
tells of SIGCONT is not; PTRACE_LISTEN is refused with EIO outside of
PTRACE_EVENT_STOP; SIGKILL ends every stop, also the exit-stop, and a status not yet
collected is lost; a killed thread may or may not stop in PTRACE_EVENT_EXIT; the
end of a main thread is reported after that of all other threads.

`Engine` does not repeat what `TraceeLifecycle` covers: its tracees are no direct
children, there are no signals but SIGKILL, and system calls are not interrupted.
`msg` is what PTRACE_GETEVENTMSG returns. The keys of `m_tracees` and the PIDs
inside of the Tracee objects (`own`) are kept apart because
`tryUpdateTraceePID()` changes one and `setPID()` the other. `handleNoChildren()`
increments an erased iterator: its outcome is a choice between what was intended
and a crash (`over = "iterator"`).

**The contract.** `TraceeContract` has an action per kind of callback and three rules
that tie them together: attached() at most once, entries and exits in turn, and one end,
after which, or after detach(), the Tracee may be dropped. `TraceeLifecycle` implements it with
`v.attached`, `v.insys`, `v.intr`, `v.ends` and `v.asked` for the abstract variables
(`Contract`); every other step, signals and SIGKILL among them, is a stutter. `Engine`
instantiates it for each PID (`EachKeepsContract`, checked and proved without execve(), by which a PID
changes its owner).

### System calls and items

What an item remembers is abstracted to where it comes from: nothing, this call's entry or
exit, an earlier call, default values, or freed memory. A `Style` per class tells how
`processData()` and `updateData()` treat its members at the entry and at the exit of a
call that succeeded or failed; an unusable pointer or length is null, unreadable (itself or
what it refers to), too short or too large. An item has a main member and, where the class keeps what
the kernel wrote beside what the caller passed, a second one. `eu` and `xu` name the sibling
it consults. Items that live in a `std::optional` are marked, and `live` says which
of these exist. A parameter list is a sequence of items, whose index is the register.

`Entry` and `Exit` are `handleSystemCallEntry()` and `handleSystemCallExit()` as far as
they concern the object; the tracee chooses the ABI, the operation and at most one unusable
pointer at each stop, anew at the exit, because other threads map and unmap memory
meanwhile. An exception that leaves the handlers ends the behaviour (`broken`).
`KernelRegister` and `ExitOddities` are the kernel's side.

### File descriptors

The kernel performs a call in one step (`Create`, `Close`, `Dup`, ...); the exit is
handled later (`HandleExit`) and calls of other threads may come in between. New tasks share
or copy the table (`Fork`), are announced (`AutoAttach`) and attached to (`HandleAttached`).
The paths, addresses and other details of `FDInfo` are left out; what is kept is whether there is an
entry, its type, and the CLOEXEC flag. The map cannot always be right, and the model keeps account of
why: `off` holds the numbers for which one of these has happened since they were
last closed alone: two calls under way at once that name the same number; dup2() onto an
open number; a call the library does not implement; what `syncFDsAfterExec()` skips; execve() or unshare()
in a process that shares its table with another; the end of a thread in the middle of a call; a copy made from such an
entry. `exact` marks descriptors whose CLOEXEC flag the code records: dup(),
pipe2(), epoll_create1() and pidfd_open() do not. epoll descriptors are tracked as EVENT_FD but found as EPOLL in /proc;
`Agrees` accepts both. `Warnings` are all that the tracking logs at the exit of a call: of the
numbers it registers (`Registered`: by a call that creates, copies or receives a descriptor) those that the map has
already, and those that it looks for and does not find (`Missed`). dup2() of a number onto itself is made as well; its warning is
the one that `NoNeedlessWarning` excepts although the map is right (section 4).

### TermTracer

`tt` is the tool's state with, of the terminal, the owner of the unended last line
(`line`) and whether anything was printed in the middle of it (`mixed`). The environment makes the
callbacks that `TraceeContract` allows, for several tracees. Not everything the `Engine` can do is
part of every run: `Hurried` adds ends that are not told before execve() or before the attach-stop, and
`FollowExec` the answer not to follow; the count and the notes then go wrong (section 4).

Definitions that begin with `Variant:` in their comment are plausible mistakes. No specification
uses them; they replace the definition of the code in order to show that the
properties notice.

## 3. Runs

One tracee:

- `lifecycle_stops` (92,302 states): children, foreign processes and auto-attached
  ones, SIGSTOP, SIGCONT and another signal in any order, SIGKILL in and between handlers,
  detach() at every point. `TypeOK`, `InStepInv`, `EndReportedOnce`,
  `NoForgottenStop`, `ListenMeansStopped`, `NothingLeftTraced`; the refinement
  `ImplementsContract`; under fairness `DetachCompletes` and `EndNoticed`.
- `lifecycle_calls` (111,184 states): all kinds of system calls, interrupted and restarted, with
  nested signal handlers. `SyscallInStep`, `CallbacksInOrder` (RESUMED
  follows the right INTERRUPTED), `NeverLostToOthers`, `ImplementsContract`. The kinds are
  those traced from their start.

Several tracees:

- `engine_clone` (21,971 states): up to three threads or processes that come about by clone() and
  fork() of each other; `TypeOK`, `AnnouncedFirst` and, under fairness, `StoredIsHandled`.
- `engine_detach` (618,368 states): a parent and its child with exit(), with detach() of either (of the child
  also in newChildProcess(), before its first stop is handled), stop() and with SIGKILL at every point;
  `StoredIsPending`, `NoForgottenStop`, `SyscallInStep`, `EachKeepsContract`.
- `engine_exec` (32,861 states): execve() by either of two threads, of which the one, the other or both
  are traced (the four cases of `handleSubstitution()`), with SIGKILL at every
  point where the main thread is traced; `NoForgottenStop`, `OneTraceeAfterExec` and, under fairness,
  `TraceEnds` (trace() returns, or one of the failures of section 4 ends it).

System calls, descriptors, the tool:

- `systemcall` (12,198 states): every implemented call on one reused object, every operation and ABI in
  turn. `TypeOK` (never more parameters than registers), `HistoryFree` (the object looks as if created for this call),
  `NoDangling`, `SiblingsReady`, `NothingStale`, `ResultsFresh`, `ArgsInPosition`, `UsableCallHandled`.
- `fd` (1,571,938 states): `MapInStep`, `SharedAlike` (one `ProcessData` exactly where there is one table),
  `NoNeedlessWarning`, `TypeOK`, for each of three programs (`MCPrograms`): one process with every call; threads and processes with a common
  table, execve() and unshare(); threads and processes of which some have a copy.
- `term` (195,291 states): attached to a process with two threads, a third tracee that comes about by clone(), the user asked
  whether to follow, clone() not printed. `LinesIntact`, `PendingInStep`, `CountInStep`, `RemainingTrue`, `TypeOK`.

**Bounds.** One thread's state is finite without any bound: signals of a kind are
pending at most once, as in the kernel, and `ends` saturates at 2. `Pids` bounds
the number of threads: two are enough for every relation the Engine looks at
(parent and child, main thread and execve() thread), the third one in `engine_clone`
lets a child have a child of its own while its own first stop is still stored. A PID
is not used again after its thread ended, except by execve(). `KillPoints`, `Killable`, `KilledSets` and
`MayDetach` select what a run is about: `engine_clone` has three threads and no SIGKILL,
`engine_detach` two with SIGKILL everywhere; `KilledSets` names the sets of traced threads with which SIGKILL is part of
the behaviour (`killing` is chosen once, in the initial state). `SystemCall` needs no bound but one unusable pointer per
stop; ABIs are varied for the calls whose treatment depends on them. `FDTracking` has
two threads and two descriptor numbers: two neighbouring numbers, a full table and a reuse of a
number all happen; with two numbers the parity that `SyncFDsAfterExec` counts by takes both values. `Programs` are sets of calls of which each behaviour has one: the calls that create a single
descriptor with its flags do the same and are represented by open(), so that socket() and the like occur in no program. `SizeRange` in `TermTracer` stands for the 2^64
values of `size_t`; `term.cfg` gives it as 8, larger than any number of tracees, so that a wrap-around shows.

**VIEW.** `fd` compares states without the tables and maps that no living thread refers to, and without the process numbers of ended threads:
no action reads these before they are written again, and of the properties only `TypeOK`, which held when they were last written.

**Deadlock** is not checked: a process ends and trace() returns, so that every
system here may stop. What must not stop is stated by the liveness properties and by
`NoForgottenStop`.

**Fairness.** The trace loop handles what wait() reports (weak fairness of
`EngineHandleEvent`, per PID in `Engine`: the kernel goes through all children). The
kernel lets a thread take a stop that is due and end when it has been killed. A
system call that is to be interrupted returns. A thread that calls exit() ends.
Nothing is assumed of the client, of the signals others send, or of a thread's wish
to make system calls or to end. In both modules the weak fairness of
`EngineHandleEvent` is written out, `[]<>~EventPending \/ []<><<...>>_vars`:
the action is enabled exactly when `EventPending` holds.

**Exceptions in the properties.** Properties name the cases in which the code does
not keep them, see section 4. `v.refused` marks a
request that the kernel refused to a living thread (PTRACE_LISTEN in an exit-stop,
PTRACE_DETACH in LISTEN); `v.asked` that the client detached. In `SystemCall`, `KeepsOld` and `NotRead` name classes of items,
`Unsupported` calls that the code rejects. In `FDTracking`, `off` and `clash`.

## 4. Where code and documentation disagree

Each of these runs checks one property that states what a comment or the API
documentation says; TLC refutes it. `PROJECT.json` quotes the lines.

| Run | Property | What the code does |
|---|---|---|
| `v_trace` | `TraceReturns` | a process killed in group-stop is stuck in its exit-stop, and trace() does not return |
| `v_exec` | `NoException` | after execve() by another thread the main thread's Tracee runs into handleStateMismatch() |
| `v_fdexec` | `ExecSynced` | the second of two neighbouring descriptors closed by execve() stays in the map |
| `v_termfilter` | `AssertionHolds` | execve() that is not printed, in one process, makes the tool forget the active call of another |

They are statements about the code under the kernel rules of section 2. Other
behaviours of this sort are part of the model without a run of their own; the properties
of section 3 are stated, or their runs bounded, such that these are left out:

- detach() after PTRACE_LISTEN fails with ESRCH and the tracee is given up, still traced (`Tracee.cxx:220`);
- resumed() is not called when SIGCONT ends a group-stop that was listened to (`Tracee.cxx:948`);
- INJECTED_SIGSTOP is still set after a child has been attached to, so that its first
  genuine group-stop is undone (`Tracee.cxx:380`);
- signaled() can precede attached(), and the attach-stop of PTRACE_INTERRUPT is lost for good if
  another stop comes first (`Tracee.cxx:194`, `895`); if this stop is the event of a new child,
  `m_current_syscall` is null (`Tracee.cxx:732`);
- a DEAD tracee may still sit in its exit-stop, because ESRCH is taken for death
  (`Tracee.cxx:262`);
- the exit-stop of a child that is not announced yet is dropped, and trace() does not return (`Engine.cxx:231`);
- if a child is killed in its first stop and its end reported before the event that announces it, the end is dropped as that of an unknown PID,
  and then a Tracee is made for a thread that is gone: the consumer is told of its birth and neither by exited() nor by disappeared() of its end, until
  `handleNoChildren()` drops the Tracee (`Engine.cxx:231`, `89`; `engine_detach` with `Killable = {1, 2}` shows it);
- ESRCH of the request in `checkUnknownTraceeEvent()` leaves trace() (`Engine.cxx:206`); a SIGKILL
  between the two requests for the former PID leaves the Tracee with a PID that no longer exists, and a SIGKILL
  before the event is collected leaves an exit-stop under an unknown PID;
- a detach() that waits for the next stop and meets PTRACE_EVENT_EXEC under a new PID uses the
  former PID (`Tracee.cxx:896`);
- `handleNoChildren()` advances an erased iterator (`Engine.cxx:115`);
- items that keep data of an earlier call when the memory cannot be read: signal sets, the argument structures of old mmap()
  and select() (`items/signal.cxx:160`); items that are not read after a successful call: F_GETLK64, F_OFD_GETLK
  (`items/fcntl.cxx:274`); the remaining time of an interrupted
  sleep, since the base class that is to read it after EINTR reads only after success (`items/time.cxx:126`, `30`);
- `updateData()` of some output items (`StatParameter`, `items/fs.cxx:245`) reads the memory also when the call failed, and shows what
  happens to be there (`SystemCallItem.hxx:233` leaves that to each class);
- rseq() frees its buffer twice (`items/other.cxx:72`); with unusable pointers some items end trace() with an
  exception or dereference an empty optional (message headers, seccomp filters, counts that are too large);
- a descriptor that one thread closes and another one opens at the same time can be missing from the map for good, if the exit of
  the open() is handled first (`Tracee.cxx:1083`); dup2() onto an open descriptor, dup()'s CLOEXEC flag (`syscalls/fs.cxx:397`);
- dup2() of a number onto itself registers it again, and `trackFD()` warns that it "was already open" although the map is right
  (`syscalls/fs.cxx:410`, `Tracee.cxx:1083`); unshare(CLONE_FILES) is not followed, so that two tables go on with one map;
- m_num_tracees counts down for tracees that were never counted, which makes it wrap around, and not for those that are detached from
  after execve() (`TermTracer.cxx:724`).

## 5. Proofs

Proved are all safety properties that the runs check of `TraceeLifecycle`, its refinement of `TraceeContract`, all
that they check of `TermTracer` and `FDTracking`, and all seven of `Engine`, four of which for programs without execve() and one for programs without clone(): for every value of the constants that satisfies the `ASSUME`s of the modules, that
is, for any number of tracees, threads and descriptors (finitely many), all system calls, signals and programs.

| Module | Theorem | States |
|---|---|---|
| `TraceeContractProofs` | `TypeCorrect` | `TypeOK` |
| | `SyscallsInStep` | `SyscallInStep`: no system call stop surprises the object |
| | `ObjectInStep` | `InStepInv`, the same at every moment |
| | `NeverLeftTraced` | `NothingLeftTraced` |
| | `StopsNotForgotten` | `NoForgottenStop` |
| | `ListenOnlyStopped` | `ListenMeansStopped` |
| | `EndOnce` | `EndReportedOnce` |
| | `CallbackOrder` | `CallbacksInOrder` |
| | `ExitHeuristicRight` | `NeverLostToOthers` |
| | `RefinesContract` | `ImplementsContract` |
| `EngineProofs` | `TypeCorrect` | `TypeOK` |
| | `HeardOfFirst` | `AnnouncedFirst` |
| `EngineStepProofs` | `EveryTraceeInStep` | `NoExec` implies `SyscallInStep` |
| | `StoredStillPending` | `NoExec` implies `StoredIsPending` |
| | `NoStopForgotten` | `NoExec` implies `NoForgottenStop` |
| | `EachTraceeKeepsContract` | `NoExec` and `FirstOnly` imply `EachKeepsContract` |
| | `NoExceptionLeaves` | `NoExec` and `FirstOnly` imply `NoException` |
| `EngineExecProofs` | `OneTraceeLeft` | `PidsKept` implies `OneTraceeAfterExec` |
| `TermTracerProofs` | `TypeCorrect` | `TypeOK` |
| | `PendingCallsKept` | `ExecHeard` implies `PendingInStep` |
| | `LinesKept` | `ExecHeard` implies `LinesIntact` and `AssertionHolds` |
| | `TraceesCounted` | `CountHeard` implies `CountInStep` |
| | `RemainingNamed` | `CountHeard` implies `RemainingTrue` |
| `FDTrackingProofs` | `TypeCorrect` | `TypeOK` |
| | `SharedRight` | `SharedAlike` |
| | `MapsKept` | `MapInStep` |
| | `WarningsDue` | `NoNeedlessWarning` |

### A tracee in step (`TraceeObjectProofs`, `TraceeContractProofs`)

`SyscallInStep` speaks of one moment only, when a system call stop is about to be
handled, and is not inductive. `InStepInv` says what must hold all the time in
between: `Synced(t, k)` ties SYSCALL_ENTERED to the thread being in a system call
whenever it is under PTRACE_SYSCALL, says that the first PTRACE_SYSCALL restart happens
in user space (so that attaching inside of a call does no harm), that a running
thread is believed to be running (so that detach() interrupts it), and that only a thread in or next to
LISTEN can be traced by an object that has let go of it. It is required only while
the thread is `Live`: after SIGKILL the flags may be anything, since no
system call stop comes any more. `IInv == TypeOK /\ InStepInv` is inductive; TLC checks it as well.

The argument for a handler is the same throughout. `Safe(f, k0)` says of a frame in the
middle of `processEvent()` that the thread is still the one that wait() reported, in its
stop and in step with the object, or has been killed; each handler lemma
(`HandleSystemCallEntry...`, `HandleStopEvent...`, `DetachTracee...`) shows that the handler keeps it, whatever
the point of SIGKILL and whether or not the client detaches. `Settled(f)` is what holds after the restart; `RestartTraceeSettled`,
`ProcessEventSettled`, `DetachTraceeSettled` and `AttachSettled` lead from the one to the other. `NextIInv` then
has a step for each action of `Next`; steps of the thread use the `Keeps` lemmas, which
state that a step of the kernel keeps `Synced` for an object that does not change.

### What the consumer is told (`TraceeViewProofs`, `TraceeContractProofs`)

The other properties relate three things: the object, its thread and the view. They hold for a killed thread too, for which `Synced`
says nothing, so they need an invariant of their own. `ViewInv` says what is known in each place the object can be in (`obj`):

- always, `AlwaysInv`: what the kernel guarantees of any thread (`KernelInv`: only an untraced one is in job control stop, ...), that
  nothing has been told wrongly, and that an end is told of an ended thread only;
- in `m_tracees`, `Core`, which is `HeldInv` (a valid object still traces its thread), `ToldInv` (the view and the object's states name the same call as entered or
  interrupted) and `ListenInv` (LISTEN only while the object believes in a group-stop), and between two events `RestInv` (no stop is
  left over: whatever the thread is stopped in, wait() has still to report);
- removed from it, `ErasedInv`: the thread is released and its end has been told.

`Core` is kept in the middle of a handler, `RestInv` is given up at its beginning and must be there again at its end; the lemmas of `TraceeViewProofs` state both for
each member function, every point of SIGKILL, and a detach() in every callback.

For the refinement each handler lemma also states `Tells(v, w)`: the view changes by at most one callback, in the order the
contract allows. `NextContract` shows that a step of `TraceeLifecycle` is, under the mapping `Contract`, an action of
`TraceeContract` or a stutter. The mapping needs the invariants: that attached() is not told twice follows from `ToldInv`,
that the object may be dropped from `ErasedInv` of the next state.

### Several tracees (`EngineProofs`)

That a thread is announced before anything else is told of it depends on what the Engine does with events of PIDs it does not know, on who can
be the parent or the successor of whom, and on the kernel not letting a new thread past its first stop. `Inv` is the inductive invariant:

- `TypeInv`: `TypeOK`, with `m_tracees`, `own` and `m_unknown_events` as functions on some of the PIDs;
- `PidsInv`: the keys of `m_tracees`, the PIDs that the Tracees make their requests for and the leaders of processes with several threads are
  all `Known`, that is, announced or of the first process. The last part is needed for execve(), after which the Tracee of the caller goes on under the leader's PID;
- `UnheardInv`: a thread that is not known does not run and is not at its execve event, since only a request could let it go on, and nothing was told of it;
- `LeadInv`, `ThreadsInv`: a process has its main thread's PID, and no thread is its own child, so that the Tracee created for the child of an event is not the
  one that handles the event, and is there when its stored stop is looked up.

`ContextInv(w)` says the same of the data in the middle of `handleEvent()`, together with `Keeps`: the Tracee's handlers put no thread into a CLONE or EXEC stop,
leave a running thread without one, and a reaped one stays reaped. Each operator of the dispatch (`AutoAttach`, `CheckUnknownEvents`, `HandleKnown`, `TryUpdateTraceePID`, ...) keeps it; the lemmas on
`TraceeObject` supply the types. The steps between two events follow from one lemma on threads that end or go on (`ThreadsInvStep`); `Clone` and
`ExecDone`, which move PIDs, have their own. No condition on the constants is needed.

### Several tracees in step (`EngineStepProofs`)

The theorems relate each Tracee to the thread it makes its requests for, so they need an invariant for each PID, which says who is in
charge of its thread. `StepInv` is inductive together with `Inv`; its main part is `Fit`, which distinguishes

- a known PID (`KnownFit`): no event of it is stored, and either its Tracee is in `m_tracees`, makes its requests for this PID and is `Joined` with the thread (`Synced`, which is
  the invariant of `TraceeLifecycle`, and `Bound`: an object that has let go was asked to, or its thread is gone), or the thread is not traced alive any more;
- a PID nobody has heard of (`UnheardFit`): the thread is in its first stop or was killed there, and once wait() has returned that stop its event is stored.

`ChildInv` says that the child a PTRACE_EVENT_CLONE is about to announce is not known yet and is no other parent's; without it the Tracee that
`handleAutoAttach()` makes could replace one in use. `PresentInv`: nothing is known of PIDs without a thread, so that `Clone` finds nothing stored for the PID it takes.
`NoneForgotten` is `NoForgottenStop` of a known PID and is claimed while trace() goes on only, since an exception leaves stops behind.

In the middle of a handler `Held(f, k0)` states that a thread which has neither been let go nor been killed is still in the stop it was found in; `Rested`
states what the end of `processEvent()` makes of it: restarted, let go or dying, or an exception leaves trace(). `Synced` comes from the lemmas of `TraceeObjectProofs`.
For the dispatch, `OthersStay` says that the other tracees do not change but for SIGKILL, and `Outcome` what is left of the event's own: the stored event
of the new child is handled in the same step and follows the same lemmas. `Advances(a, b)` is the relation between a thread before and after any step that the Engine takes no notice of;
`ThreadsStep` and `BetweenEventsStep` carry `StepInv` over such steps and over the calls of the consumer.

`NoExec`, no thread calls execve(), is needed: `SyscallInStep` does not hold across execve() of a thread, which is what `v_exec` shows, and a Tracee that is to be detached at the stop
of its execve() makes its request for a PID that is gone, which leaves the thread in the stop. Without execve() the theorems hold for any number of generations of threads and
processes, all orders in which wait() reports them, and SIGKILL, detach() and stop() at any moment.

For the contract `VoiceInv` is added. `Voiced` of a Tracee in `m_tracees` is the invariant that proves the refinement in `TraceeLifecycle`, `Core` and `RestInv` of
`TraceeViewProofs`, without what these say of a process with one thread (their parameter `alone` tells the two cases apart). It says what the consumer knows from what the object
remembers, and in particular that the consumer has not been told of the end of a Tracee that is kept. `Sound` is what the kernel
guarantees of a thread, `Heard` both for one PID, and `NewbornInv` ties a child that has not been announced to its parent: it waits in its first stop, and any signal
or exit() that ends it ends the parent as well or comes to a process of its own, the one to which `FirstOnly` rules out that SIGKILL is sent (SIGKILL from outside of the handlers
is for the process that was traced first). Without `FirstOnly` the contract does not hold (section 4).
`Spoken` is what `processEvent()` has told in the end, `Spoke` the same in `m_tracees`, `Uttered` what a step tells of each PID, which is one step of the contract for
each (`ContractStep`): the event of a parent speaks of two tracees, of itself and of the child whose stored stop is handled along with it.

### After execve() (`EngineExecProofs`)

`OneTraceeAfterExec` is the promise of `handleSubstitution()` and `tryUpdateTraceePID()`: the thread that called execve() goes on under the main thread's PID, and
its Tracee must not stay behind under the one that is gone. `ExecInv` is inductive together with `Inv`:

- `LostFit` is the property itself, sharpened: the thread whose event is still to come, or that was killed, is a main thread;
- `TracedFit`: the Tracee of any other thread stays traced, and its thread is not reaped. So when the kernel has ended all other threads, which are reaped before execve() succeeds,
  the only Tracee whose PID can vanish is that of the caller;
- `ExecFit`: the thread that reports an execve() is the only one of its process, which means that nobody else's exit or execve() can do away with the report, and the PID it
  had before is gone or is its own;
- `OwnFit`: a Tracee makes its requests for its own PID or for one that is gone (it keeps the former PID if SIGKILL comes between the two requests for it);
- `ThreadsFit`: a signal that ends one thread dooms the whole process, so that no killed thread can be what an execve() leaves; `FlagsFit`: no Tracee waits to be detached.

`Tends(in, a, b)` says what a handler does to the thread: doomed stays doomed, an EXEC stop does not come about, only SIGKILL makes it end by a signal. It is shown for each
handler and for `processEvent()` (`FinalTends`), and carried over the whole dispatch by `TraceeProcessEventFits`: if the request for the former PID fails because of SIGKILL, the Tracee of that PID
stays, but then the process ends (`KilledInExec`). `ExecDoneExec` is the kernel's part.

`PidsKept` is needed on both counts. A consumer that detaches leaves DETACH_AT_NEXT_STOP behind, and at PTRACE_EVENT_EXEC that is acted on before
`handleExecEvent()` learns the former PID (section 4), whose Tracee then stays for good. And with clone() the model would hand the PID that is gone to a new thread at once, which the kernel's allocation of PIDs
makes unlikely but does not exclude; nothing in the code tells the two apart.

### The tool (`TermTracerProofs`)

`PendingInStep` and `LinesIntact` depend on each other, because a callback looks at `m_active_syscall` to find out whether the line
is another tracee's. `TInv` has the types, `Clean` (the unended line belongs to the active call, which is not among the unfinished ones),
`PendingIsDue` (what is kept of each tracee is the call it is in, if it is printed), `Idle`, `Leaders` and
`Known` (only the first tracee of all can be unknown to `attached()`). `Rest(s, r, P)` states that a callback about the tracees `P`
leaves the pending calls of all others alone; that is the lemma about each of the tool's operators.

The hypotheses are conditions on the constants, with `term.cfg` satisfying both. `ExecHeard`: execve() is among the printed calls, and threads that
execve() ends have been told to have exited. Without the first part `newExecutionContext()` drops the active call of another tracee, which is what `v_termfilter`
shows. `CountHeard`: furthermore the ends are told between attached() and exited(), and execve() is followed. Without it `m_num_tracees` wraps around or stays too
large (section 4). `CountInv` adds the count to `TInv`; that the count never leaves `size_t` is assumed as `Cardinality(Pids) < SizeRange`.

### The map of descriptors (`FDTrackingProofs`)

`MapInStep` leaves out the numbers that calls under way have to do with, so it says nothing of what happens when the exit of one of them
is handled. `FDInv` says that:

- `CallAgrees(t)`: for each call under way, the entry that its exit will make from the present map (`Entry`) agrees with the present table, unless the number is in `off`;
- `Overlap` and `SourcesKept`: two calls under way with a common number know of their `clash`, and their numbers are in `off`, as are those of a
  copy of a wrong entry;
- `ExecsAgree`: between execve() and its event the map agrees but for what the kernel has closed;
- `ForksAgree`, `ForksShaped`: between clone() and its event, the map that the child will get agrees with the table that it has, but for the numbers of calls that
  were under way at any time since, which the parent has gathered in `foot`;
- `Fresh`: the first thread's map is empty until its attach-stop;
- `Sharing`, `Processes`: tables, processes and `ProcessData` go together, also for threads that wait for their first stop.

`Begins(p, T, T2, lost)` is the lemma each system call satisfies when it changes the table from `T` to `T2`: it touches the numbers in its `foot` only,
and for a map that agreed with `T` on them, `Entry` agrees with `T2`. All calls that change a table then follow
from one step lemma (`EntersInv`), because `Entry` of another call depends on that call's numbers only (`EntryLocal`). There is a lemma for each of the other actions.
`UnusedExists` shows that a number for a new table, process or map is left (`Threads` is finite). No descriptor arithmetic is needed beyond `LowestFree`: the numbers that
`Lowest` returns are free and different.

### Only model-checked

- Liveness (`DetachCompletes`, `EndNoticed`, `StoredIsHandled`, `TraceEnds`): fairness and ENABLED are out of the prover's reach.
- `NoForgottenStop` and `SyscallInStep` of `Engine` in programs that call execve(): whose stop is whose while a PID
  changes hands (`SyscallInStep` does not hold for all of them, see `v_exec`). `OneTraceeAfterExec` with new threads or a consumer that detaches.
- The invariants of `SystemCall`: it is a large case distinction over the parameter lists of all calls. Its only parameter is `CallNames`, and calls do not
  interact, so the run `systemcall`, in which `CallNames` is `AllCalls`, is complete: there are no larger instances for a theorem to speak of. (A proof would
  furthermore need induction over `FillAll`, and the library's induction theorems are out of the prover's reach.)

## 6. Not modelled

- `attachThreads()`: a walk through /proc/<pid>/task; `Engine` and `TermTracer` start with the threads attached to.
- `Engine::stop()` from inside of a callback or with direct children, and `~Engine()`.
- The readers of a tracee's memory (`ContainerFiller`, `BlobFiller`, `fillData`): word-wise copies, of which the
  items see success or failure only.
- The text of items, calls and events (`str()`, `format`, logging), the layout of structures and of the
  register sets, and the tables of system call numbers: they keep no state and are compared with the kernel by the
  repository's own tests. `validNr()` and the names of unknown numbers are part of the tables.
- `verifyArch()`: a change of ABI in the middle of a program is in `SystemCall` as far as it concerns the objects, in `TermTracer` (a line about it) not at all.
- PTRACE_O_EXITKILL.
- Of `Engine`: the branch of `handleAutoAttach()` for PTRACE_EVENT_VFORK_DONE (`Engine.cxx:287-295`). It looks the child up and
  calls `vforkComplete()`; it changes no map, and although it sets `m_newly_attached_pid`, a stop stored for this PID has been handled at the VFORK event
  that came before. The event and its callback are part of `TraceeLifecycle` (`EV_VFORK_DONE`).
- Of `SystemCall`: `m_return->reset()` of a failed call (`SystemCall.cxx:97`), which sets a value that is not shown then; `m_return` is taken
  to be set, so `NoDangling` speaks of items that are gone, and would not notice that there is none.
- Of `FDTracking`: failed calls, which change neither side; the descriptor that clone3() makes with CLONE_PIDFD (`syscalls/process.cxx:92-101`), which is tracked
  like others that are created; paths, addresses and other details of `FDInfo`.
- Of `TermTracer`: the command line, the text that is printed, asking the user (a free choice), the exit status.
- The table generator, a script of the build.

## 7. Plan

1. Done: all modules of section 2; the safety properties of `TraceeLifecycle`, `TermTracer` and `FDTracking`; `TypeOK` and `AnnouncedFirst` of `Engine`, `StoredIsPending`, `NoForgottenStop`, `SyscallInStep` and `EachKeepsContract` without execve(), `OneTraceeAfterExec` for an engine that does not detach and whose threads create none; the refinement of `TraceeContract`.
2. The contract across execve(), where `Uttered` has to follow the view from the PID that is gone to the main thread's; `OneTraceeAfterExec` with PIDs that are not used again at once.
3. `stop()` from a callback and its promise that trace() returns soon; children whose parent is detached at the event that
   announces them; `attachThreads()` against threads that come and go.
