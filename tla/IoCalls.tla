------------------------------ MODULE IoCalls ------------------------------
(***************************************************************************)
(* The input and output calls: syscalls/io.                                *)
(***************************************************************************)
EXTENDS CallObject

Call(ret, pars) == NewObject(ReturnValue(ret), pars)

FD(n) == FileDescriptor(n)

OffsetPair == <<IntValue("offset.low"), CombinedOffsetValue("offset", "offset.low", FALSE)>>

ReadPars == <<FD("fd"), BufferPointer("buf", "out", "read"), IntValue("count")>>

WritePars == <<FD("fd"), BufferPointer("buf", "in", "count"), IntValue("count")>>

ReadVPars == <<FD("fd"), ReadVector("iov", "iov_count", "read"), CountValue("iov_count")>>

WriteVPars == <<FD("fd"), WriteVector("iov", "iov_count"), CountValue("iov_count")>>

ReadWriteCalls ==
    [write  |-> Call("written", WritePars),
     read   |-> Call("read", ReadPars),
     readv  |-> Call("read", ReadVPars),
     writev |-> Call("written", WriteVPars)]

PositionedCalls ==
    [pread64  |-> Call("read", ReadPars \o <<IntValue("offset")>>),
     pwrite64 |-> Call("written", WritePars \o <<IntValue("offset")>>),
     preadv   |-> Call("read", ReadVPars \o OffsetPair),
     pwritev  |-> Call("written", WriteVPars \o OffsetPair),
     preadv2  |-> Call("read", ReadVPars \o OffsetPair \o <<ReadWriteFlags("flags")>>),
     pwritev2 |-> Call("written", WriteVPars \o OffsetPair \o <<ReadWriteFlags("flags")>>)]

DescriptorCalls ==
    [ioctl    |-> NewObject(SuccessResult("res"), <<FD("fd"), IntValue("request")>>),
     pipe     |-> NewObject(SuccessResult("res"), <<PipeEnds("ends")>>),
     pipe2    |-> NewObject(SuccessResult("res"), <<PipeEnds("ends"), PipeFlags("flags")>>),
     lseek    |-> Call("new_offset", <<FD("fd"), IntValue("offset"), Whence("whence")>>),
     llseek   |-> NewObject(SuccessResult("res"),
                      <<FD("fd"), CombinedOffsetValue("offset", "offset.low", TRUE),
                        IntValue("offset.low"), PointerToScalar("new_offset", "out"),
                        Whence("whence")>>),
     eventfd  |-> NewObject(FileNumResult("new_fd"), <<IntValue("count")>>),
     eventfd2 |-> NewObject(FileNumResult("new_fd"), <<IntValue("count"), EventFDFlags("flags")>>)]

SelectPars == <<IntValue("nfds"), FDSet("readfds"), FDSet("writefds"), FDSet("exceptfds")>>

SelectNewPars == SelectPars \o <<TimeValInOutParameter("timeout")>>

SelectCalls ==
    [select    |-> Call("nready", SelectNewPars),
     newselect |-> Call("nready", SelectNewPars),
     pselect6  |-> Call("nready", SelectPars \o <<TimeSpecInOutParameter("timeout"),
                                                  SigSetParameter("sigmask", "in", TRUE)>>)]

EPollWaitPars ==
    <<FD("epfd"), EPollEventReport("events"), IntValue("max_events"), IntValue("timeout")>>

EPollCalls ==
    [epoll_create  |-> NewObject(FileNumResult("new_fd"), <<IntValue("size")>>),
     epoll_create1 |-> NewObject(FileNumResult("new_fd"), <<EPollCreateFlags("flags")>>),
     epoll_ctl     |-> NewObject(SuccessResult("res"),
                           <<FD("epfd"), EPollOperation("op"), FD("fd"), EPollEventSettings("event")>>),
     epoll_wait    |-> Call("res", EPollWaitPars),
     epoll_pwait   |-> Call("res", EPollWaitPars \o <<SigSetParameter("sigmask", "in", FALSE),
                                                      IntValue("sigset_size")>>),
     epoll_pwait2  |-> Call("res", [EPollWaitPars EXCEPT ![4] = TimeSpecParameter("timeout", "in")]
                                   \o <<SigSetParameter("sigmask", "in", FALSE),
                                        IntValue("sigset_size")>>)]

PollCalls ==
    [poll  |-> Call("res", <<PollFDs("fds", "nfds"), CountValue("nfds"), IntValue("timeout")>>),
     ppoll |-> Call("res", <<PollFDs("fds", "nfds"), CountValue("nfds"),
                             TimeSpecInOutParameter("timeout"),
                             SigSetParameter("sigmask", "in", FALSE), IntValue("sigset_size")>>)]

----------------------------------------------------------------------------
(* select() on I386 passes a structure; the items of the other ABIs are    *)
(* filled from it, and updated after the call.                             *)

SelectPrepare(o, call, abi) ==
    IF call = "select" /\ abi = "I386"
    THEN IF "old_args" \in o.live THEN o
         ELSE AddNew(SetParameters(o, << >>), <<OldSelectArgs("old_args")>>)
    ELSE IF "old_args" \in o.live
         THEN SetParameters(Reset(o, {"old_args"}), SelectNewPars)
         ELSE o

SelectCheck2ndPass(o, st) ==
    IF "old_args" \in o.live THEN FillFrom(o, "old_args", SelectNewPars, st)
    ELSE [o EXCEPT !.sub = << >>]

SelectPost(o, ok, st) ==
    IF "old_args" \in o.live THEN UpdateParameters(o, SelectNewPars, ok, st) ELSE o

=============================================================================
