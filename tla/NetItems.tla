------------------------------ MODULE NetItems ------------------------------
(***************************************************************************)
(* The items of the socket calls: net, msghdr and sockopt of include/items *)
(* and src/items.                                                          *)
(***************************************************************************)
EXTENDS Items

(* net.hxx, net.cxx                                                        *)

SocketFD(n) == FileDescriptor(n)

AddressLength(n) == IntValue(n)

(* The available size; beside it the size the kernel filled in.            *)
AddressLengthPointerResult == Style("clear", "optional", "keep")

AddressLengthPointer(n) ==
    Beside(PointerToScalar(n, "inout"), AddressLengthPointerResult)

SocketDomain(n) == ValueParameter(n)

SocketType(n) == ValueParameter(n)

SocketProtocol(n, domain) == Consults(ValueParameter(n), domain, "")

SocketCallType(n) == ValueParameter(n)

(* What cannot be read counts as zero.                                     *)
SocketCallArgsData == Style("zeroed", "keep", "keep")

SocketCallArgs(n, call) ==
    Consults(Item(n, "SocketCallArgs", "inout", SocketCallArgsData), call, "")

SocketPairData == Style("clear", "vector", "keep")

SocketPair(n) == Item(n, "SocketPair", "out", SocketPairData)

SocketAddressData(d) == Directed(d, "address", "address", "clear")

SocketAddress(n, d, len) ==
    Deferred(Consults(Item(n, "SocketAddress", d, SocketAddressData(d)),
                      IF d = "out" THEN "" ELSE len, IF d = "in" THEN "" ELSE len))

AcceptFlags(n) == ValueParameter(n)

ShutdownType(n) == ValueParameter(n)

SendRecvFlags(n) == ValueParameter(n)

----------------------------------------------------------------------------
(* msghdr.hxx, msghdr.cxx: the header as passed, beside it the header as   *)
(* the kernel left it.                                                     *)

MessageHeaderBaseData == Style("optional", "keep", "keep")

MessageHeaderBase(n, k, d) == Item(n, k, d, MessageHeaderBaseData)

(* The control data is fetched again, in full; here a failure is thrown.   *)
RecvMessageHeaderResult == Style("clear", "nested", "optional")

RecvMessageHeader(n, got) ==
    [Consults(Beside(MessageHeaderBase(n, "RecvMessageHeader", "inout"),
                     RecvMessageHeaderResult), "", got)
        EXCEPT !.odd = {"null", "bad", "inner"}]

SendMessageHeader(n) == MessageHeaderBase(n, "SendMessageHeader", "in")

(* Variant: the headers are not read at the entry.                         *)
MessageHeaderVectorBaseDataLate == Style("clear", "keep", "keep")

MessageHeaderVectorBaseData == Style("counted", "keep", "keep")

MessageHeaderVectorBase(n, k, count) ==
    Deferred(Consults(Item(n, k, "inout", MessageHeaderVectorBaseData), count, count))

(* m_headers is indexed with the number of headers read at the exit.       *)
MessageHeaderVectorResult == Style("clear", "index", "index")

RecvMessageHeaderVector(n, count) ==
    Beside(MessageHeaderVectorBase(n, "RecvMessageHeaderVector", count),
           MessageHeaderVectorResult)

SendMessageHeaderVector(n, count) ==
    Beside(MessageHeaderVectorBase(n, "SendMessageHeaderVector", count),
           MessageHeaderVectorResult)

----------------------------------------------------------------------------
(* sockopt.hxx, sockopt.cxx: get items consult the length behind optlen    *)
(* at the exit, set items the value of optlen at the entry.                *)

GetOpt(n, k, main) == Deferred(Consults(Item(n, k, "out", main), "", "optlen"))

SetOpt(n, k, main) == Deferred(Consults(Item(n, k, "in", main), "optlen", ""))

GetSockOptVal(n) == GetOpt(n, "GetSockOptVal", Style("clear", "sized", "clear"))

(* Declared without a direction, and therefore an output parameter, unless *)
(* the subclass gives one.                                                 *)
SetSockOptVal(n) ==
    Deferred([PointerToScalar(n, "out") EXCEPT !.k = "SetSockOptVal"])

SetSockOptStructData == Style("sized", "keep", "keep")

SetSockOptStruct(n) == SetOpt(n, "SetSockOptStruct", SetSockOptStructData)

GetSockOptStructData == Style("clear", "lenderef", "keep")

GetSockOptStruct(n) == GetOpt(n, "GetSockOptStruct", GetSockOptStructData)

(* A string; its limit is the value of the pointer optlen itself.          *)
StringSockOpt(n) == StringBuffer(n, "")

SockOptLevel(n) == ValueParameter(n)

SockOptName(n, level) == Consults(ValueParameter(n), level, "")

SetSockOptLen(n) == [IntValue(n) EXCEPT !.odd = {"short"}]

(* The program is forgotten first; a readable length leads to FilterProg.  *)
ClassicBPFSockOptData == Style("sizedref", "keep", "keep")

ClassicBPFSockOpt(n) == SetOpt(n, "ClassicBPFSockOpt", ClassicBPFSockOptData)

GetFilterSockOptData == Style("lenused", "mainused", "mainused")

GetFilterSockOptFilters == Style("clear", "sized", "keep")

GetFilterSocktOpt(n) ==
    [Beside(GetOpt(n, "GetFilterSocktOpt", GetFilterSockOptData),
            GetFilterSockOptFilters) EXCEPT !.eu = "optlen"]

LingerSockOptData == Style("clear", "lenderef", "keep")

GetLingerSockOpt(n) == GetOpt(n, "GetLingerSockOpt", LingerSockOptData)

SetLingerSockOpt(n) == SetSockOptStruct(n)

GetPeerCredSockOpt(n) == GetSockOptStruct(n)

(* The number, beside it the protocol of the socket's domain, which stays  *)
(* as it was if the domain is unknown.                                     *)
ProtocolSockOptData == Style("keep", "beside", "keep")

ProtocolSockOpt(n) == Beside(GetSockOptVal(n), ProtocolSockOptData)

SetOldTimeValSockOpt(n) == SetOpt(n, "SetOldTimeValSockOpt", Style("sized", "keep", "keep"))

GetOldTimeValSockOpt(n) ==
    GetOpt(n, "GetOldTimeValSockOpt", Style("clear", "lenderef", "keep"))

NewTimeValSockOpt(n, d) == IF d = "out" THEN GetSockOptStruct(n) ELSE SetSockOptStruct(n)

(* The number, beside it the bit mask.                                     *)
GetBufLockSockOpt(n) == Beside(GetSockOptVal(n), Style("keep", "ofmain", "ofmain"))

SetBufLockSockOpt(n) ==
    Beside(SetOpt(n, "SetBufLockSockOpt", Style("optional", "keep", "keep")),
           Style("ofmain", "keep", "keep"))

DevMemOrTxTimeSockOpt(n, d) ==
    IF d = "out" THEN GetSockOptStruct(n) ELSE SetSockOptStruct(n)

(* Zeros are shown unless the whole array was read.                        *)
GetMemInfoSockOptData == Style("clear", "lenderef", "keep")

GetMemInfoSockOpt(n) == GetOpt(n, "GetMemInfoSockOpt", GetMemInfoSockOptData)

(* A length of an int stands for the flags alone, read without a check.    *)
SetTimestampingSockOptData == Style("sizedzero", "keep", "keep")

TimestampingSockOpt(n, d) ==
    IF d = "out" THEN GetSockOptStruct(n)
    ELSE SetOpt(n, "SetTimestampingSockOpt", SetTimestampingSockOptData)

=============================================================================
