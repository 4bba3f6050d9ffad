------------------------------- MODULE Items -------------------------------
(***************************************************************************)
(* The items of a system call: its parameters and its return value, as the *)
(* classes of include/items and src/items define them.                     *)
(*                                                                         *)
(* What an item remembers is abstracted to where it comes from.  Every     *)
(* item has a main member (the struct, string or vector it reads) and may  *)
(* have a second one (what the kernel wrote, when it is kept beside what   *)
(* the caller passed).  A member is "none" (empty optional or vector),     *)
(* "entry" or "exit" (read at that stop of the current call), "old" (left  *)
(* over from an earlier call: SystemCall objects are cached and reused),   *)
(* "zero" (default values shown as if they had been read) or "freed".      *)
(*                                                                         *)
(* A Style says how processData() and updateData() treat a member at the   *)
(* entry, at the exit of a successful and of a failed call.                *)
(***************************************************************************)
EXTENDS Naturals, Sequences

Contents == {"none", "old", "entry", "exit", "zero", "freed"}

(* What stops the filling of the items: EIO is the ApiError of a read      *)
(* from unreadable memory, length the std::length_error or std::bad_alloc  *)
(* of a container, runtime a RuntimeError for an unsupported ABI or value, *)
(* ub undefined behaviour (an empty optional dereferenced, memory freed    *)
(* twice).                                                                 *)
Flaws == {"EIO", "length", "runtime", "ub"}

Style(e, s, f) == [entry |-> e, ok |-> s, err |-> f]

Untouched == Style("keep", "keep", "keep")

(* What a member holds afterwards, or the flaw.  cur is what it held, ph   *)
(* the stop, st what the item's pointer leads to, len the state of the     *)
(* sibling that tells the size, m the item's main member.                  *)
Filled(style, cur, ph, st, len, m) ==
    LET read == st = "good"
    IN  CASE style = "keep"     -> cur
          [] style = "clear"    -> "none"
          [] style = "value"    -> ph
          [] style = "optional" -> IF read THEN ph ELSE "none"
          [] style = "ifread"   -> IF read THEN ph ELSE cur
          [] style = "refresh"  -> IF read /\ cur # "none" THEN ph ELSE cur
          [] style = "zeroed"   -> IF read THEN ph ELSE "zero"
          [] style = "vector"   -> IF read THEN ph
                                   ELSE IF st = "null" THEN "none" ELSE "EIO"
          [] style = "blob"     -> IF read THEN ph ELSE "EIO"
          [] style = "nested"   -> IF read THEN ph
                                   ELSE IF st = "inner" THEN "EIO" ELSE "none"
          [] style = "deref"    -> IF read THEN ph ELSE "ub"
          [] style = "ifmain"   -> IF m # "none" /\ read THEN ph ELSE "none"
          [] style = "beside"   -> IF m # "none" /\ read THEN ph ELSE cur
          [] style = "ofmain"   -> IF m = "none" THEN "none" ELSE ph
          [] style = "index"    -> IF ~read THEN cur
                                   ELSE IF m = "none" THEN "ub" ELSE ph
          [] style = "counted"  -> IF len = "huge" THEN "length"
                                   ELSE IF read THEN ph ELSE "none"
          [] style = "sized"    -> IF len = "good" /\ read THEN ph ELSE "none"
          [] style = "sizedref" -> IF len # "good" THEN "none"
                                   ELSE IF read THEN ph ELSE "ub"
          [] style = "sizedzero" -> IF len = "short" THEN "zero"
                                    ELSE IF read THEN ph ELSE "none"
          [] style = "lenderef" -> IF len = "none" THEN "ub"
                                   ELSE IF len = "short" THEN cur
                                   ELSE IF read THEN ph ELSE "none"
          [] style = "address"  -> IF st = "null" THEN "none"
                                   ELSE IF len = "none" THEN "ub"
                                   ELSE IF read THEN ph ELSE "none"
          [] style = "lenused"  -> IF len = "none" THEN "ub" ELSE ph
          [] style = "mainused" -> IF cur = "none" THEN "ub" ELSE ph
          [] style = "free"     -> IF cur = "freed" THEN "ub"
                                   ELSE IF cur = "none" THEN "none" ELSE "freed"
          [] style = "alloc"    -> IF read THEN ph ELSE "freed"

----------------------------------------------------------------------------
(* src/include/SystemCallItem.hxx: name, class and direction of the item;  *)
(* eu and xu are the siblings it consults at the entry and at the exit     *)
(* ("" for none), odd the ways in which its register may be unusable, opt  *)
(* whether it lives in a std::optional of the SystemCall.                  *)

Item(n, k, d, main) ==
    [n |-> n, k |-> k, d |-> d, main |-> main, aux |-> Untouched,
     eu |-> "", xu |-> "", defer |-> FALSE, odd |-> {"null", "bad"}, opt |-> FALSE]

(* DEFER_FILL: the item comes before a sibling it needs.                   *)
Deferred(i) == [i EXCEPT !.defer = TRUE]

Beside(i, aux) == [i EXCEPT !.aux = aux]

Consults(i, e, x) == [i EXCEPT !.eu = e, !.xu = x]

NeedsUpdate(i) == i.d \in {"out", "inout"}

(* By direction: an output item is cleared at the entry.                   *)
Directed(d, in, s, f) == Style(IF d = "out" THEN "clear" ELSE in, s, f)

----------------------------------------------------------------------------
(* items.hxx, items.cxx                                                    *)

Register == Style("value", "value", "value")

ValueParameter(n) == [Item(n, "Value", "in", Register) EXCEPT !.odd = {}]

ReturnValue(n) == [ValueParameter(n) EXCEPT !.d = "ret"]

(* Numbers and flags; a count may be too large for any container.          *)
IntValue(n) == ValueParameter(n)

CountValue(n) == [ValueParameter(n) EXCEPT !.k = "Count", !.odd = {"huge"}]

BoolValue(n) == ValueParameter(n)

GenericPointerValue(n) == [ValueParameter(n) EXCEPT !.k = "Pointer"]

(* Placeholders whose text is fixed; `unused' only takes up a register.    *)
Placeholder(n) == ValueParameter(n)

Unused == [ValueParameter("unused") EXCEPT !.k = "Unused",
                                           !.main = Untouched]

PointerToScalar(n, d) ==
    Item(n, "PointerToScalar", d, Directed(d, "optional", "optional", "optional"))

PointerToScalarInOut(n) ==
    [Beside(PointerToScalar(n, "inout"), Style("optional", "keep", "keep"))
        EXCEPT !.odd = {"null", "bad", "short"}]

BufferPointerData(d) ==
    IF d = "in" THEN Style("optional", "keep", "keep")
    ELSE Directed(d, "optional", "optional", "keep")

BufferPointer(n, d, size) ==
    [Consults(Item(n, "BufferPointer", d, BufferPointerData(d)),
              IF d = "out" THEN "" ELSE size, IF d = "in" THEN "" ELSE size)
        EXCEPT !.defer = (d = "in")]

----------------------------------------------------------------------------
(* strings.hxx, strings.cxx, error.hxx                                     *)

StringDataData(d) == Directed(d, "optional", "optional", "keep")

StringData(n, d) == Item(n, "StringData", d, StringDataData(d))

StringBuffer(n, size) ==
    Consults(Item(n, "StringBuffer", "out", Style("clear", "optional", "keep")),
             "", size)

StringArrayDataData == Style("vector", "keep", "keep")

StringArrayData(n) == Item(n, "StringArrayData", "in", StringArrayDataData)

SuccessResult(n) == ReturnValue(n)

----------------------------------------------------------------------------
(* fs.hxx, fs.cxx                                                          *)

FileDescriptor(n) == ValueParameter(n)

FileNumResult(n) == ReturnValue(n)

OpenFlagsValue(n) == ValueParameter(n)

AtFlagsValue(n) == ValueParameter(n)

AccessModeParameter(n) == ValueParameter(n)

FileModeParameter(n) == ValueParameter(n)

AccessAdvice(n) == ValueParameter(n)

DupFlags(n) == ValueParameter(n)

StatParameterData == Style("clear", "optional", "optional")

StatParameter(n) == Item(n, "StatParameter", "out", StatParameterData)

DirEntriesData == Style("clear", "blob", "keep")

DirEntries(n) == Consults(Item(n, "DirEntries", "out", DirEntriesData), "", "res")

StatFSParameterData == Style("clear", "optional", "optional")

StatFSParameter(n) == Item(n, "StatFSParameter", "out", StatFSParameterData)

----------------------------------------------------------------------------
(* fcntl.hxx, fcntl.cxx: FLockParameter is filled at the exit for F_GETLK  *)
(* alone.                                                                  *)

FcntlOperation(n) == ValueParameter(n)

FileDescFlagsValue(n) == ValueParameter(n)

FLockParameterData(op) ==
    IF op = "GETLK" THEN Style("optional", "optional", "optional")
    ELSE Style("optional", "keep", "keep")

FLockParameter(n, op) ==
    Consults(Item(n, "FLockParameter", "inout", FLockParameterData(op)),
             "operation", "operation")

FileDescOwner(n) == ValueParameter(n)

ExtFileDescOwnerData == Style("optional", "optional", "optional")

ExtFileDescOwner(n, d) == Item(n, "ExtFileDescOwner", d, ExtFileDescOwnerData)

LeaseType(n) == ValueParameter(n)

DNotifySettings(n) == ValueParameter(n)

FileSealSettings(n) == ValueParameter(n)

ReadWriteHintData == Style("zeroed", "zeroed", "zeroed")

ReadWriteHint(n, d) == Item(n, "ReadWriteHint", d, ReadWriteHintData)

----------------------------------------------------------------------------
(* io.hxx, io.cxx                                                          *)

PipeEndsData == Style("clear", "optional", "optional")

PipeEnds(n) == Item(n, "PipeEnds", "out", PipeEndsData)

PipeFlags(n) == ValueParameter(n)

(* The specifications of the buffers, and beside them the buffers' data.   *)
IOVectorBaseData == Style("counted", "keep", "keep")

IOVectorBase(n, k, d, count) ==
    Deferred(Consults(Item(n, k, d, IOVectorBaseData), count, ""))

ReadVectorData == Style("clear", "ifmain", "keep")

ReadVector(n, count, got) ==
    [Beside(IOVectorBase(n, "ReadVector", "inout", count), ReadVectorData)
        EXCEPT !.xu = got]

WriteVectorData == Style("ifmain", "keep", "keep")

WriteVector(n, count) ==
    Beside(IOVectorBase(n, "WriteVector", "in", count), WriteVectorData)

(* An offset in two registers; the part seen last consults the other.      *)
CombinedOffsetValue(n, low, highFirst) ==
    [Consults(ValueParameter(n), low, "") EXCEPT !.defer = highFirst]

ReadWriteFlags(n) == ValueParameter(n)

Whence(n) == ValueParameter(n)

EventFDFlags(n) == ValueParameter(n)

EPollCreateFlags(n) == ValueParameter(n)

FDSetData == Style("optional", "keep", "keep")

FDSetResult == Style("clear", "ifmain", "keep")

FDSet(n) == Consults(Beside(Item(n, "FDSet", "inout", FDSetData), FDSetResult),
                     "", "nfds")

OldSelectArgsData == Style("ifread", "ifread", "ifread")

OldSelectArgs(n) == Item(n, "OldSelectArgs", "inout", OldSelectArgsData)

EPollOperation(n) == ValueParameter(n)

EPollEventSettings(n) ==
    Item(n, "EPollEventSettings", "in", Style("optional", "keep", "keep"))

(* Variant: the events of the last call are not cleared.                   *)
EPollEventReportDataKept == Style("keep", "optional", "keep")

EPollEventReportData == Style("clear", "optional", "keep")

EPollEventReport(n) ==
    Consults(Item(n, "EPollEventReport", "out", EPollEventReportData), "", "res")

(* Variant: revents are not fetched at the exit.                           *)
PollFDsDataOnce == Style("counted", "keep", "keep")

PollFDsData == Style("counted", "refresh", "refresh")

(* Variant: without DEFER_FILL the array comes before its length.          *)
PollFDsAtOnce(n, nfds) ==
    Consults(Item(n, "PollFDs", "inout", PollFDsData), nfds, nfds)

PollFDs(n, nfds) ==
    Deferred(Consults(Item(n, "PollFDs", "inout", PollFDsData), nfds, nfds))

----------------------------------------------------------------------------
(* mmap.hxx, mmap.cxx, time.hxx, time.cxx                                  *)

MemoryFlags(n) == ValueParameter(n)

OldMmapArgsData == Style("ifread", "keep", "keep")

OldMmapArgs(n) == Item(n, "OldMmapArgs", "in", OldMmapArgsData)

TimeSpecParameterData(d) == Directed(d, "optional", "optional", "keep")

TimeSpecParameter(n, d) == Item(n, "TimeSpecParameter", d, TimeSpecParameterData(d))

(* The requested time, and beside it what the kernel left of it.           *)
TimeSpecInOutResult == Style("clear", "optional", "optional")

TimeSpecInOutParameter(n) ==
    Beside(Item(n, "TimeSpecInOutParameter", "inout", Style("optional", "keep", "keep")),
           TimeSpecInOutResult)

(* Meant to be read when the call ends with EINTR; updateData() of the     *)
(* base class, which is called then, only reads after a successful call.   *)
RemainingTimeSpecData == Style("clear", "keep", TimeSpecParameterData("out").err)

RemainingTimeSpec(n) == Item(n, "RemainingTimeSpec", "out", RemainingTimeSpecData)

TimeValParameterData(d) == Directed(d, "optional", "optional", "keep")

TimeValParameter(n, d) == Item(n, "TimeValParameter", d, TimeValParameterData(d))

TimeValInOutResult == Style("clear", "optional", "optional")

TimeValInOutParameter(n) ==
    Beside(Item(n, "TimeValInOutParameter", "inout", Style("optional", "keep", "keep")),
           TimeValInOutResult)

ClockID(n) == ValueParameter(n)

ClockNanoSleepFlags(n) == ValueParameter(n)

----------------------------------------------------------------------------
(* signal.hxx, signal.cxx                                                  *)

SigSetOperation(n) == ValueParameter(n)

SignalNumber(n) == ValueParameter(n)

SigActionParameterData(d) == Directed(d, "optional", "optional", "optional")

SigActionParameter(n, d) == Item(n, "SigActionParameter", d, SigActionParameterData(d))

(* An output set is left alone at the entry.  sigprocmask() and pselect6() *)
(* (packed) keep what they had when the memory cannot be read.             *)
SigSetParameterData(d, packed) ==
    LET r == IF packed THEN "ifread" ELSE "optional"
    IN  Style(IF d = "out" THEN "keep" ELSE r, r, r)

SigSetParameter(n, d, packed) == Item(n, "SigSetParameter", d, SigSetParameterData(d, packed))

SigInfoData == Style("clear", "optional", "keep")

SigInfo(n) == Item(n, "SigInfo", "out", SigInfoData)

SignalFDFlags(n) == ValueParameter(n)

----------------------------------------------------------------------------
(* process.hxx, clone.hxx, limits.hxx, creds.hxx, caps.hxx, futex.hxx      *)

ProcessID(n) == ValueParameter(n)

ProcessGroupID(n) == ValueParameter(n)

SessionID(n) == ValueParameter(n)

ThreadID(n) == ValueParameter(n)

ExitStatus(n) == ValueParameter(n)

WaitOptions(n) == ValueParameter(n)

ResourceUsageData == Style("clear", "optional", "keep")

ResourceUsage(n) == Item(n, "ResourceUsage", "out", ResourceUsageData)

WaitStatusData == Style("clear", "optional", "keep")

WaitStatus(n) == Item(n, "WaitStatus", "out", WaitStatusData)

WaitID(n) == ValueParameter(n)

PIDFDFlags(n) == ValueParameter(n)

CloneFlagsValue(n) == ValueParameter(n)

(* cl_args as passed; beside it the pidfd and TID the kernel stored.       *)
CloneArgsData == Style("optional", "keep", "keep")

CloneArgsResult == Style("clear", "beside", "keep")

CloneArgs(n) == Beside(Item(n, "CloneArgs", "inout", CloneArgsData), CloneArgsResult)

ResourceType(n) == ValueParameter(n)

ResourceLimitData(d) == Directed(d, "optional", "optional", "keep")

ResourceLimit(n, d) == Item(n, "ResourceLimit", d, ResourceLimitData(d))

Capability(n) == ValueParameter(n)

SecureBits(n) == ValueParameter(n)

UserOrGroupID(n) == ReturnValue(n)

FutexOperation(n) == ValueParameter(n)

FutexWakeOperation(n) == ValueParameter(n)

----------------------------------------------------------------------------
(* other.hxx, seccomp.hxx                                                  *)

GetRandomFlagsValue(n) == ValueParameter(n)

(* clear() frees the buffer but does not forget it.                        *)
RSeqParameterData == Style("free", "alloc", "keep")

RSeqParameter(n, len) ==
    Consults(Item(n, "RSeqParameter", "out", RSeqParameterData), "", len)

RSeqFlagsValue(n) == ValueParameter(n)

UnameStructData == Style("clear", "optional", "keep")

UnameStruct(n) == Item(n, "UnameStruct", "out", UnameStructData)

SecCompMode(n) == ValueParameter(n)

(* fetchFilters() uses the program header even if it could not be read; a  *)
(* 32-bit header that cannot be read leaves the former one in place.       *)
FilterProgData(emulated) ==
    Style(IF emulated THEN "ifread" ELSE "deref", "keep", "keep")

FilterProg(n, emulated) == Item(n, "FilterProg", "in", FilterProgData(emulated))

----------------------------------------------------------------------------
(* prctl.hxx, prctl.cxx                                                    *)

ArchOpParameter(n) == ValueParameter(n)

ProcessOp(n) == ValueParameter(n)

(* AmbientCapOp, MachineCheckOp, MachineCheckPolicy, MemoryMapOp           *)
PrctlSubOp(n) == ValueParameter(n)

MemoryMapStruct(n, size) ==
    Deferred(Consults(Item(n, "MemoryMapStruct", "in", Style("optional", "keep", "keep")),
                      size, ""))

(* VirtualMemoryAttr, PTracerProcessID, SpeculationCtrlMisfeature          *)
PrctlAttr(n) == ValueParameter(n)

(* SpeculationCtrlSetting, SyscallUserDispatchMode                         *)
PrctlSetting(n) == ValueParameter(n)

(* TaggedAddressControl, THPDisableState, THPDisableFlags                  *)
PrctlControl(n) == ValueParameter(n)

(* TimingMode, TSCAccess                                                   *)
PrctlMode(n) == ValueParameter(n)

TSCAccessPtrData == Style("clear", "optional", "keep")

TSCAccessPtr(n) == Item(n, "TSCAccessPtr", "out", TSCAccessPtrData)

MemDenyWriteExecProtectionMask(n) == ValueParameter(n)

(* The bytes, and beside them the parsed auxiliary vector.                 *)
AuxVectorBufferData == Style("clear", "ofmain", "ofmain")

AuxVectorBuffer(n, size) ==
    [Beside(BufferPointer(n, "out", size), AuxVectorBufferData)
        EXCEPT !.k = "AuxVectorBuffer"]

=============================================================================
