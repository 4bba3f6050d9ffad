----------------------------- MODULE FileCalls -----------------------------
(***************************************************************************)
(* The file system and memory calls: syscalls/fs and syscalls/memory.      *)
(* A signature is the object as its constructor leaves it; where a call    *)
(* overrides prepareNewSystemCall() or check2ndPass(), an operator named   *)
(* after it transforms the object.  v is the set of options that the       *)
(* values of the arguments select, op the operation they name.             *)
(***************************************************************************)
EXTENDS CallObject

In(n) == StringData(n, "in")

AccessCalls ==
    [access     |-> NewObject(SuccessResult("res"), <<In("path"), AccessModeParameter("mode")>>),
     faccessat  |-> NewObject(SuccessResult("res"),
                        <<FileDescriptor("dirfd"), In("path"), AccessModeParameter("mode")>>),
     faccessat2 |-> NewObject(SuccessResult("res"),
                        <<FileDescriptor("dirfd"), In("path"), AccessModeParameter("mode"),
                          AtFlagsValue("flags")>>)]

StatCalls ==
    [fstat   |-> NewObject(SuccessResult("res"), <<FileDescriptor("fd"), StatParameter("statbuf")>>),
     fstatat |-> NewObject(SuccessResult("res"),
                     <<FileDescriptor("dirfd"), In("path"), StatParameter("statbuf"),
                       AtFlagsValue("flags")>>),
     stat    |-> NewObject(SuccessResult("res"), <<In("path"), StatParameter("statbuf")>>),
     lstat   |-> NewObject(SuccessResult("res"), <<In("path"), StatParameter("statbuf")>>),
     statfs  |-> NewObject(SuccessResult("res"), <<In("path"), StatFSParameter("buf")>>),
     fstatfs |-> NewObject(SuccessResult("res"), <<FileDescriptor("fd"), StatFSParameter("buf")>>),
     statfs64  |-> NewObject(SuccessResult("res"), <<In("path"), StatFSParameter("buf")>>),
     fstatfs64 |-> NewObject(SuccessResult("res"), <<FileDescriptor("fd"), StatFSParameter("buf")>>)]

OpenCalls ==
    [open   |-> NewObject(FileNumResult("new_fd"), <<In("filename"), OpenFlagsValue("flags")>>),
     openat |-> NewObject(FileNumResult("new_fd"),
                    <<FileDescriptor("fd"), In("filename"), OpenFlagsValue("flags")>>),
     close  |-> NewObject(SuccessResult("res"), <<FileDescriptor("fd")>>)]

FAdvisePars64 ==
    <<FileDescriptor("fd"), IntValue("offset"), IntValue("size"), AccessAdvice("advice")>>

DirectoryCalls ==
    [getdents   |-> NewObject(ReturnValue("res"),
                        <<FileDescriptor("fd"), DirEntries("dirent"), IntValue("size")>>),
     fadvise64    |-> NewObject(SuccessResult("res"), FAdvisePars64),
     fadvise64_64 |-> NewObject(SuccessResult("res"), FAdvisePars64),
     umask      |-> NewObject(ReturnValue("old"), <<FileModeParameter("mask")>>),
     readlink   |-> NewObject(ReturnValue("filled"),
                        <<In("path"), StringBuffer("buf", "filled"), IntValue("bufsiz")>>),
     readlinkat |-> NewObject(ReturnValue("filled"),
                        <<FileDescriptor("dirfd"), In("path"), StringBuffer("buf", "filled"),
                          IntValue("bufsiz")>>)]

DupCalls ==
    [dup    |-> NewObject(FileNumResult("new_fd"), <<FileDescriptor("oldfd")>>),
     dup2   |-> NewObject(FileNumResult("new_fd"), <<FileDescriptor("oldfd"), FileDescriptor("newfd")>>),
     dup3   |-> NewObject(FileNumResult("new_fd"),
                    <<FileDescriptor("oldfd"), FileDescriptor("newfd"), DupFlags("flags")>>),
     getcwd |-> NewObject(ReturnValue("filled"), <<StringData("cwd", "out"), IntValue("bufsiz")>>),
     chdir  |-> NewObject(SuccessResult("res"), <<In("path")>>),
     fchdir |-> NewObject(SuccessResult("res"), <<FileDescriptor("fd")>>)]

FcntlCall == [fcntl |-> NewObject(NoItem, <<FileDescriptor("fd"), FcntlOperation("operation")>>)]

MmapPars == <<GenericPointerValue("hint"), IntValue("length"), MemoryFlags("prot"),
              MemoryFlags("flags"), FileDescriptor("fd"), IntValue("offset")>>

MemoryCalls ==
    [brk      |-> NewObject(ReturnValue("ret_addr"), <<GenericPointerValue("req_addr")>>),
     mmap     |-> NewObject(ReturnValue("addr"), MmapPars),
     mmap2    |-> NewObject(ReturnValue("addr"), MmapPars),
     munmap   |-> NewObject(SuccessResult("res"), <<GenericPointerValue("addr"), IntValue("length")>>),
     mprotect |-> NewObject(SuccessResult("res"),
                      <<GenericPointerValue("addr"), IntValue("length"), MemoryFlags("prot")>>)]

----------------------------------------------------------------------------
(* fcntl(): the operation decides about a third parameter and the result.  *)

FcntlArgs(op) ==
    CASE op \in {"DUPFD", "DUPFD_CLOEXEC"} -> <<FileDescriptor("dup_lowest")>>
      [] op = "SETFD"         -> <<FileDescFlagsValue("fd_flags_arg")>>
      [] op = "SETFL"         -> <<OpenFlagsValue("status_flags_arg")>>
      [] op \in {"SETLK", "GETLK", "GETLK64", "OFD_GETLK"} -> <<FLockParameter("flock_arg", op)>>
      [] op = "SETOWN"        -> <<FileDescOwner("owner_arg")>>
      [] op = "GETOWN_EX"     -> <<ExtFileDescOwner("ext_owner_arg", "out")>>
      [] op = "SETOWN_EX"     -> <<ExtFileDescOwner("ext_owner_arg", "in")>>
      [] op = "SETSIG"        -> <<SignalNumber("io_signal_arg")>>
      [] op = "SETLEASE"      -> <<LeaseType("lease_arg")>>
      [] op = "NOTIFY"        -> <<DNotifySettings("dnotify_arg")>>
      [] op = "SETPIPE_SZ"    -> <<IntValue("pipe_size_arg")>>
      [] op = "ADD_SEALS"     -> <<FileSealSettings("file_seals_arg")>>
      [] op = "GET_RW_HINT"   -> <<ReadWriteHint("rw_hint_arg", "out")>>
      [] op = "SET_RW_HINT"   -> <<ReadWriteHint("rw_hint_arg", "in")>>
      [] OTHER                -> << >>

FcntlResults ==
    [DUPFD |-> "ret_dupfd", DUPFD_CLOEXEC |-> "ret_dupfd", GETFD |-> "ret_fd_flags",
     GETFL |-> "ret_status_flags", GETOWN |-> "ret_owner", GETSIG |-> "ret_io_signal",
     GETLEASE |-> "ret_lease", SETPIPE_SZ |-> "ret_pipe_size",
     GETPIPE_SZ |-> "ret_pipe_size", GET_SEALS |-> "ret_seals"]

(* Operations that share a case label with one listed are left out; the    *)
(* last is one that the switch does not know.                              *)
FcntlOps ==
    DOMAIN FcntlResults \cup
    {"SETFD", "SETFL", "SETLK", "GETLK", "GETLK64", "OFD_GETLK", "SETOWN", "GETOWN_EX",
     "SETOWN_EX", "SETSIG", "SETLEASE", "NOTIFY", "ADD_SEALS", "GET_RW_HINT",
     "SET_RW_HINT", "unknown"}

FcntlOptionals == UNION {Names(FcntlArgs(op)) : op \in FcntlOps}
                  \cup {FcntlResults[op] : op \in DOMAIN FcntlResults}

FcntlPrepare(o) ==
    Reset(ReturnNew(DropParameters(o, 2), SuccessResult("result")), FcntlOptionals)

(* Variant: the old return item goes, the new one is not set.              *)
FcntlCheck2ndPassKeepsReturn(o, op) ==
    LET p == AddNew(o, FcntlArgs(op))
    IN  IF op \in DOMAIN FcntlResults
        THEN Emplace(Reset(p, {"result"}), <<ReturnValue(FcntlResults[op])>>)
        ELSE p

FcntlCheck2ndPass(o, op) ==
    LET p == AddNew(o, FcntlArgs(op))
    IN  IF op \in DOMAIN FcntlResults
        THEN ReturnNew(Reset(p, {"result"}), ReturnValue(FcntlResults[op]))
        ELSE p

----------------------------------------------------------------------------
(* open(), openat(): the mode is passed if a file may be created.          *)

OpenPrepare(o) == Reset(DropParameters(o, 2), {"mode"})

OpenAtPrepare(o) == Reset(DropParameters(o, 3), {"mode"})

OpenCheck2ndPass(o, v) ==
    IF "create" \in v THEN AddNew(o, <<FileModeParameter("mode")>>) ELSE o

(* Variant: 64-bit values are taken to start in an even register.          *)
FAdvisePrepareAligned(o, call, abi) ==
    SetParameters(o, <<FileDescriptor("fd"), Unused, IntValue("offset.low"),
                       CombinedOffsetValue("offset", "offset.low", FALSE), IntValue("size.low"),
                       CombinedOffsetValue("size", "size.low", FALSE), AccessAdvice("advice")>>)

(* fadvise64(): the order of the registers depends on the ABI.             *)
FAdvisePrepare(o, call, abi) ==
    CASE abi = "AARCH64" -> o
      [] abi = "X86_64"  -> IF Len(o.pars) = 4 THEN o ELSE SetParameters(o, FAdvisePars64)
      [] abi = "I386"    ->
            SetParameters([o EXCEPT !.cell = Forget(o, {"offset", "size", "offset.low", "size.low"})],
                <<FileDescriptor("fd"), IntValue("offset.low"),
                  CombinedOffsetValue("offset", "offset.low", FALSE)>>
                \o (IF call = "fadvise64_64"
                    THEN <<IntValue("size.low"), CombinedOffsetValue("size", "size.low", FALSE)>>
                    ELSE <<IntValue("size")>>)
                \o <<AccessAdvice("advice")>>)
      [] OTHER -> [o EXCEPT !.flaw = "runtime"]

(* [f]statfs64(): a size comes before the buffer.                          *)
StatFSPrepare(o, call) ==
    IF call \in {"statfs64", "fstatfs64"}
    THEN IF "size" \in o.live THEN o
         ELSE SetParameters(Emplace(o, <<IntValue("size")>>),
                            <<o.pars[1]>> \o Optional(<<IntValue("size")>>) \o <<o.pars[2]>>)
    ELSE IF "size" \in o.live
         THEN SetParameters(Reset(o, {"size"}), <<o.pars[1], o.pars[3]>>)
         ELSE o

(* mmap(): on I386 the arguments are in a structure.                       *)
MmapPrepare(o, call, abi) ==
    IF call = "mmap2" \/ abi # "I386"
    THEN IF "old_args" \in o.live THEN SetParameters(Reset(o, {"old_args"}), MmapPars) ELSE o
    ELSE IF "old_args" \in o.live THEN o
         ELSE AddNew(SetParameters(o, << >>), <<OldMmapArgs("old_args")>>)

MmapCheck2ndPass(o, st) ==
    IF "old_args" \in o.live THEN FillFrom(o, "old_args", MmapPars, st) ELSE [o EXCEPT !.sub = << >>]

=============================================================================
