------------------------------ MODULE NetCalls ------------------------------
(***************************************************************************)
(* The socket calls: syscalls/net, the multiplexer socketcall() of I386,   *)
(* and syscalls/sockopt.                                                   *)
(***************************************************************************)
EXTENDS CallObject

SockFD == SocketFD("sockfd")

NetStatus(pars) == NewObject(SuccessResult("res"), pars)

ProtocolPars == <<SocketDomain("domain"), SocketType("type"), SocketProtocol("prot", "domain")>>

AddressPars(d) ==
    <<SocketAddress("addr", d, "addrlen"),
      IF d = "in" THEN AddressLength("addrlen") ELSE AddressLengthPointer("addrlen")>>

ConnectionCalls ==
    [socket     |-> NewObject(FileNumResult("new_fd"), ProtocolPars),
     socketpair |-> NetStatus(ProtocolPars \o <<SocketPair("pair")>>),
     bind       |-> NetStatus(<<SockFD>> \o AddressPars("in")),
     connect    |-> NetStatus(<<SockFD>> \o AddressPars("in")),
     listen     |-> NetStatus(<<SockFD, IntValue("backlog")>>)]

AcceptPars == <<SockFD>> \o AddressPars("out")

AcceptCalls ==
    [accept      |-> NewObject(FileNumResult("new_fd"), AcceptPars),
     accept4     |-> NewObject(FileNumResult("new_fd"), AcceptPars \o <<AcceptFlags("flags")>>),
     shutdown    |-> NetStatus(<<SockFD, ShutdownType("how")>>),
     getsockname |-> NetStatus(AcceptPars)]

RecvPars == <<SockFD, BufferPointer("buf", "out", "read"), IntValue("count"), SendRecvFlags("flags")>>

RecvCalls ==
    [recv     |-> NewObject(ReturnValue("read"), RecvPars),
     recvfrom |-> NewObject(ReturnValue("read"), RecvPars \o AddressPars("out")),
     recvmsg  |-> NewObject(ReturnValue("read"),
                      <<SockFD, RecvMessageHeader("msg", "read"), SendRecvFlags("flags")>>),
     recvmmsg |-> NewObject(ReturnValue("num_received"),
                      <<SockFD, RecvMessageHeaderVector("msgvec", "num_msgs"), CountValue("num_msgs"),
                        SendRecvFlags("flags"), TimeSpecInOutParameter("timeout")>>)]

SendPars == <<SockFD, BufferPointer("buf", "in", "count"), IntValue("count"), SendRecvFlags("flags")>>

SendCalls ==
    [send     |-> NewObject(ReturnValue("written"), SendPars),
     sendto   |-> NewObject(ReturnValue("written"), SendPars \o AddressPars("in")),
     sendmsg  |-> NewObject(ReturnValue("written"),
                      <<SockFD, SendMessageHeader("msg"), SendRecvFlags("flags")>>),
     sendmmsg |-> NewObject(ReturnValue("num_updated"),
                      <<SockFD, SendMessageHeaderVector("msgvec", "num_msgs"), CountValue("num_msgs"),
                        SendRecvFlags("flags")>>)]

----------------------------------------------------------------------------
(* getsockopt() and setsockopt(): the option decides about the class of    *)
(* the object, which is created anew for every call.                       *)

GetSockOptPars(optval) ==
    <<SockFD, SockOptLevel("level"), SockOptName("name", "level"), optval,
      PointerToScalarInOut("optlen")>>

SetSockOptPars(optval) ==
    <<SockFD, SockOptLevel("level"), SockOptName("name", "level"), optval, SetSockOptLen("optlen")>>

OptvalGet(kind) ==
    CASE kind = "Val"          -> GetSockOptVal("optval")
      [] kind = "String"       -> StringSockOpt("optval")
      [] kind = "Filter"       -> GetFilterSocktOpt("optval")
      [] kind = "Protocol"     -> ProtocolSockOpt("optval")
      [] kind = "Linger"       -> GetLingerSockOpt("optval")
      [] kind = "PeerCred"     -> GetPeerCredSockOpt("optval")
      [] kind = "OldTimeVal"   -> GetOldTimeValSockOpt("optval")
      [] kind = "NewTimeVal"   -> NewTimeValSockOpt("optval", "out")
      [] kind = "BufLock"      -> GetBufLockSockOpt("optval")
      [] kind = "TxTime"       -> DevMemOrTxTimeSockOpt("optval", "out")
      [] kind = "MemInfo"      -> GetMemInfoSockOpt("optval")
      [] kind = "Timestamping" -> TimestampingSockOpt("optval", "out")
      [] OTHER                 -> GenericPointerValue("optval")

OptvalSet(kind) ==
    CASE kind = "Val"          -> SetSockOptVal("optval")
      [] kind = "String"       -> StringSockOpt("optval")
      [] kind = "ClassicBPF"   -> ClassicBPFSockOpt("optval")
      [] kind = "Linger"       -> SetLingerSockOpt("optval")
      [] kind = "OldTimeVal"   -> SetOldTimeValSockOpt("optval")
      [] kind = "NewTimeVal"   -> NewTimeValSockOpt("optval", "in")
      [] kind = "BufLock"      -> SetBufLockSockOpt("optval")
      [] kind \in {"DevMemDontNeed", "TxTime"} -> DevMemOrTxTimeSockOpt("optval", "in")
      [] kind = "Timestamping" -> TimestampingSockOpt("optval", "in")
      [] OTHER                 -> GenericPointerValue("optval")

(* create_socket_opt_syscall(), one option of every group                  *)
GetSockOptKinds ==
    [KEEPALIVE |-> "Val", RCVBUF |-> "Val", BINDTODEVICE |-> "String", PEERCRED |-> "PeerCred",
     BINDTOIFINDEX |-> "Val", ATTACH_FILTER |-> "Filter", PEERPIDFD |-> "Val", BUF_LOCK |-> "BufLock",
     LINGER |-> "Linger", RCVTIMEO_OLD |-> "OldTimeVal", RCVTIMEO_NEW |-> "NewTimeVal",
     TIMESTAMPING_NEW |-> "Timestamping", DOMAIN_ |-> "Val", PROTOCOL |-> "Protocol",
     TXTIME |-> "TxTime", MEMINFO |-> "MemInfo", ERROR |-> "Val"]

SetSockOptKinds ==
    [KEEPALIVE |-> "Val", RCVBUF |-> "Val", BINDTODEVICE |-> "String",
     DEVMEM_DONTNEED |-> "DevMemDontNeed", BINDTOIFINDEX |-> "Val", ATTACH_FILTER |-> "ClassicBPF",
     ATTACH_REUSEPORT_CBPF |-> "ClassicBPF", ATTACH_BPF |-> "Val", BUF_LOCK |-> "BufLock",
     LINGER |-> "Linger", RCVTIMEO_OLD |-> "OldTimeVal", RCVTIMEO_NEW |-> "NewTimeVal",
     TIMESTAMPING_NEW |-> "Timestamping", TXTIME |-> "TxTime"]

SockOptions == DOMAIN GetSockOptKinds \cup DOMAIN SetSockOptKinds \cup {"DETACH_BPF"}

KindOf(kinds, opt) == IF opt \in DOMAIN kinds THEN kinds[opt] ELSE "Unknown"

CreateGetSockOpt(opt) == NetStatus(GetSockOptPars(OptvalGet(KindOf(GetSockOptKinds, opt))))

CreateSetSockOpt(opt) == NetStatus(SetSockOptPars(OptvalSet(KindOf(SetSockOptKinds, opt))))

(* SO_PEERPIDFD: the new descriptor is taken from the option's value.      *)
GetSockOptTrackFD(o, opt) ==
    IF opt = "PEERPIDFD" /\ o.flaw = "" /\ CellOf(o, "optval").main = "none"
    THEN [o EXCEPT !.flaw = "ub"] ELSE o

----------------------------------------------------------------------------
(* socketcall(): two parameters, the items of the call proper are filled   *)
(* from the array behind the second.  The order differs from Turns() only  *)
(* between items that do not consult each other.                           *)

SocketCallPars == <<SocketCallType("call"), SocketCallArgs("args", "call")>>

SocketCallBase(base) == [base EXCEPT !.pars = SocketCallPars, !.sub = base.pars]

TransferValues(o, st) == FillFrom(o, "args", Turns(o.sub), st)

SocketCallCheck2ndPass(o, st) ==
    IF CellOf(o, "args").main # "none" THEN TransferValues(o, st) ELSE o

SocketCallPost(o, ok, st) == UpdateParameters(o, o.sub, ok, StatusIn(o, "args", st))

SocketSubCalls == ConnectionCalls @@ AcceptCalls @@ RecvCalls @@ SendCalls

(* create_socket_call_syscall(): the calls by number, the options, others  *)
CreateSocketCall(sub, opt) ==
    CASE sub \in DOMAIN SocketSubCalls -> SocketCallBase(SocketSubCalls[sub])
      [] sub = "getsockopt" -> SocketCallBase(CreateGetSockOpt(opt))
      [] sub = "setsockopt" -> SocketCallBase(CreateSetSockOpt(opt))
      [] OTHER -> [SocketCallBase(NetStatus(<< >>)) EXCEPT !.flaw = "runtime"]

=============================================================================
