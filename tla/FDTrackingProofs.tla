-------------------------- MODULE FDTrackingProofs --------------------------
(***************************************************************************)
(* The theorems about FDTracking: for any number of threads and of file    *)
(* descriptors and for every program, tracees share a ProcessData exactly  *)
(* if they share a table, the map agrees with the table, and trackFD() and *)
(* dropFD() do not complain without reason.                                *)
(***************************************************************************)
EXTENDS FDTracking, FiniteSetTheorems, TLAPS

(* Types *)

Infos == [type : Types, cx : BOOLEAN] \cup {NoInfo}

Files == [type : Types, cx : BOOLEAN, exact : BOOLEAN] \cup {None}

Maps == [FDs -> Infos]

Tables == [FDs -> Files]

News == {<< >>} \cup [1 .. 1 -> FDs] \cup [1 .. 2 -> FDs]

Srcs == {<< >>} \cup {<<x>> : x \in FDs \cup Threads}

\* The calls that are not in Tracked
OtherCalls == {"none", "close", "dup", "dup2", "fcntl_dupfd", "fcntl_setfd", "recvmsg", "unseen", "fork", "execve"}

PCs == [at : {"none", "new", "known", "user", "done"}, call : DOMAIN Tracked \cup OtherCalls,
        src : Srcs, new : News, cx : BOOLEAN,
        foot : SUBSET FDs, clash : BOOLEAN]

(* The calls that create descriptors *)

IsTracking(f) ==
    \A c \in DOMAIN f :
        /\ f[c].type # "INVALID"
        /\ f[c].flags \in BOOLEAN /\ f[c].n \in {1, 2}
        /\ c \notin OtherCalls
        /\ c = "epoll_create1" => f[c].type = "EVENT_FD"

\* Each updateFDTracking() stores a type that is not INVALID, for one or two
\* descriptors.
LEMMA PartsTracked ==
    /\ IsTracking(OpenTracked) /\ IsTracking(PipeTracked) /\ IsTracking(EventFDTracked)
    /\ IsTracking(EPollTracked) /\ IsTracking(SocketTracked) /\ IsTracking(PIDFDTracked)
    /\ IsTracking(SignalFDTracked) /\ IsTracking(SockOptTracked)
<1>1. IsTracking(OpenTracked)
  BY DEF IsTracking, OpenTracked, Tracks, OtherCalls
<1>2. IsTracking(PipeTracked)
  BY DEF IsTracking, PipeTracked, Tracks, OtherCalls
<1>3. IsTracking(EventFDTracked)
  BY DEF IsTracking, EventFDTracked, Tracks, OtherCalls
<1>4. IsTracking(EPollTracked)
  BY DEF IsTracking, EPollTracked, Tracks, OtherCalls
<1>5. IsTracking(SocketTracked)
  BY DEF IsTracking, SocketTracked, Tracks, OtherCalls
<1>6. IsTracking(PIDFDTracked)
  BY DEF IsTracking, PIDFDTracked, Tracks, OtherCalls
<1>7. IsTracking(SignalFDTracked)
  BY DEF IsTracking, SignalFDTracked, Tracks, OtherCalls
<1>8. IsTracking(SockOptTracked)
  BY DEF IsTracking, SockOptTracked, Tracks, OtherCalls
<1> QED
  BY <1>1, <1>2, <1>3, <1>4, <1>5, <1>6, <1>7, <1>8

\* So does Tracked, which is all of them.
LEMMA AllTracked == IsTracking(Tracked)
<1> DEFINE all == {OpenTracked, PipeTracked, EventFDTracked, EPollTracked, SocketTracked,
                   PIDFDTracked, SignalFDTracked, SockOptTracked}
<1>1. \A f \in all : IsTracking(f)
  BY PartsTracked
<1> HIDE DEF all
<1>2. Tracked = [c \in UNION {DOMAIN f : f \in all} |-> (CHOOSE f \in all : c \in DOMAIN f)[c]]
  BY DEF Tracked, all
<1>3. ASSUME NEW c \in DOMAIN Tracked
      PROVE  \E f \in all : c \in DOMAIN f /\ Tracked[c] = f[c]
  <2>1. \E f \in all : c \in DOMAIN f
    BY <1>2, <1>3
  <2>2. (CHOOSE f \in all : c \in DOMAIN f) \in all /\ c \in DOMAIN (CHOOSE f \in all : c \in DOMAIN f)
    BY <2>1
  <2> QED
    BY <1>2, <2>2
<1> QED
  BY <1>1, <1>3 DEF IsTracking

\* What the kernel creates has a type of its own as well.
LEMMA RealTypes ==
    /\ "INVALID" \notin Types
    /\ \A c \in DOMAIN Tracked :
          /\ Tracked[c].type \in Types /\ RealType(c) \in Types
          /\ RealType(c) = Tracked[c].type \/ (RealType(c) = "EPOLL" /\ Tracked[c].type = "EVENT_FD")
<1>1. "INVALID" \notin Types
  BY AllTracked DEF IsTracking, Types
<1>2. ASSUME NEW c \in DOMAIN Tracked
      PROVE  /\ Tracked[c].type \in Types /\ RealType(c) \in Types
             /\ RealType(c) = Tracked[c].type \/ (RealType(c) = "EPOLL" /\ Tracked[c].type = "EVENT_FD")
  BY AllTracked DEF IsTracking, Types, RealType
<1> QED
  BY <1>1, <1>2

\* The descriptors of open() are of one of the types.
LEMMA PathType == "FS_PATH" \in Types /\ "EPOLL" \in Types
<1>1. OpenTracked["open"].type = "FS_PATH" /\ "open" \in DOMAIN OpenTracked
  BY DEF OpenTracked, Tracks
<1>2. "open" \in DOMAIN Tracked /\ Tracked["open"].type = "FS_PATH"
  <2> DEFINE all == {OpenTracked, PipeTracked, EventFDTracked, EPollTracked, SocketTracked,
                     PIDFDTracked, SignalFDTracked, SockOptTracked}
  <2>1. \A g \in all : "open" \in DOMAIN g => g = OpenTracked
    <3>1. /\ "open" \notin DOMAIN PipeTracked /\ "open" \notin DOMAIN EventFDTracked
          /\ "open" \notin DOMAIN EPollTracked /\ "open" \notin DOMAIN SocketTracked
          /\ "open" \notin DOMAIN PIDFDTracked /\ "open" \notin DOMAIN SignalFDTracked
          /\ "open" \notin DOMAIN SockOptTracked
      BY DEF PipeTracked, EventFDTracked, EPollTracked, SocketTracked, PIDFDTracked, SignalFDTracked,
             SockOptTracked
    <3> QED
      BY <3>1
  <2>2. OpenTracked \in all
    OBVIOUS
  <2> HIDE DEF all
  <2>3. Tracked = [c \in UNION {DOMAIN g : g \in all} |-> (CHOOSE g \in all : c \in DOMAIN g)[c]]
    BY DEF Tracked, all
  <2>4. "open" \in DOMAIN Tracked
    BY <1>1, <2>2, <2>3
  <2>5. (CHOOSE g \in all : "open" \in DOMAIN g) = OpenTracked
    BY <1>1, <2>1, <2>2
  <2> QED
    BY <1>1, <2>3, <2>4, <2>5
<1> QED
  BY <1>2 DEF Types

(* Maps and tables *)

\* An entry of a map is none exactly if its type is INVALID.
LEMMA InfoForms ==
  ASSUME NEW i \in Infos
  PROVE  /\ i = [type |-> i.type, cx |-> i.cx] /\ i.cx \in BOOLEAN
         /\ i = NoInfo <=> i.type = "INVALID"
         /\ i # NoInfo <=> i.type \in Types
<1>1. CASE i = NoInfo
  BY <1>1, RealTypes DEF NoInfo, Info
<1>2. CASE i \in [type : Types, cx : BOOLEAN]
  BY <1>2, RealTypes DEF NoInfo, Info
<1> QED
  BY <1>1, <1>2 DEF Infos

\* So is an entry of a table.
LEMMA FileForms ==
  ASSUME NEW f \in Files
  PROVE  /\ f = [type |-> f.type, cx |-> f.cx, exact |-> f.exact] /\ f.cx \in BOOLEAN /\ f.exact \in BOOLEAN
         /\ f = None <=> f.type = "INVALID"
         /\ f # None <=> f.type \in Types
<1>1. CASE f = None
  BY <1>1, RealTypes DEF None
<1>2. CASE f \in [type : Types, cx : BOOLEAN, exact : BOOLEAN]
  BY <1>2, RealTypes DEF None
<1> QED
  BY <1>1, <1>2 DEF Files

\* get_fd_infos() agrees with the table.
LEMMA GetFDInfosAgree ==
  ASSUME NEW T \in Tables
  PROVE  /\ GetFDInfos(T) \in Maps
         /\ \A fd \in FDs : Agrees(GetFDInfos(T)[fd], T[fd])
<1> SUFFICES ASSUME NEW fd \in FDs
             PROVE  GetFDInfos(T)[fd] \in Infos /\ Agrees(GetFDInfos(T)[fd], T[fd])
  BY DEF GetFDInfos, Maps
<1>1. T[fd] \in Files
  BY DEF Tables
<1>2. CASE T[fd] = None
  BY <1>2 DEF GetFDInfos, Agrees, Infos
<1>3. CASE T[fd] # None
  <2>1. T[fd].type \in Types /\ T[fd].cx \in BOOLEAN
    BY <1>1, <1>3, FileForms
  <2>2. GetFDInfos(T)[fd] = [type |-> T[fd].type, cx |-> T[fd].cx]
    BY <1>3 DEF GetFDInfos, Info
  <2> QED
    BY <1>3, <2>1, <2>2, RealTypes DEF Agrees, Infos, NoInfo, Info
<1> QED
  BY <1>2, <1>3

(* What the exit of a call does to the map *)

Copies == {"dup", "dup2", "fcntl_dupfd"}

\* The numbers that a call has to do with, as Done() remembers them.
Shaped(p) ==
    /\ p.call \in DOMAIN Tracked => \A fd \in FDs : fd \in p.foot <=> \E k \in DOMAIN p.new : p.new[k] = fd
    /\ p.call \in {"close", "fcntl_setfd", "unseen"} => p.src[1] \in FDs /\ p.foot = {p.src[1]}
    /\ p.call \in Copies => /\ p.src[1] \in FDs /\ p.new[1] \in FDs
                            /\ p.foot = {p.src[1], p.new[1]}
    /\ p.call = "recvmsg" => p.new[1] \in FDs /\ p.foot = {p.new[1]}

\* The entry for a number of the call p, made from the map m and the table T.
Entry(p, m, T, fd) ==
    CASE p.call \in DOMAIN Tracked ->
            IF m[fd] = NoInfo THEN Info(Tracked[p.call].type, p.cx /\ Tracked[p.call].flags) ELSE m[fd]
      [] p.call = "close" -> NoInfo
      [] p.call \in Copies ->
            IF fd = p.new[1] /\ m[fd] = NoInfo /\ m[p.src[1]] # NoInfo
            THEN Info(m[p.src[1]].type, IF p.call = "fcntl_dupfd" THEN p.cx ELSE m[p.src[1]].cx)
            ELSE m[fd]
      [] p.call = "fcntl_setfd" -> IF m[fd] = NoInfo THEN m[fd] ELSE Info(m[fd].type, p.cx)
      [] p.call = "recvmsg" -> IF m[fd] = NoInfo THEN GetFDInfos(T)[fd] ELSE m[fd]
      [] OTHER -> m[fd]

\* updateFDTracking() changes the map for the numbers of the call only.
LEMMA MapAfterEntry ==
  ASSUME NEW p \in PCs, Shaped(p), p.call \notin {"fork", "execve", "none"}, NEW m \in Maps, NEW T \in Tables
  PROVE  /\ MapAfter(p, m, T) \in Maps
         /\ \A fd \in FDs : MapAfter(p, m, T)[fd] = IF fd \in p.foot THEN Entry(p, m, T, fd) ELSE m[fd]
<1> DEFINE M == MapAfter(p, m, T)
<1>1. /\ p.call \in DOMAIN Tracked \cup OtherCalls /\ p.cx \in BOOLEAN
      /\ \A c \in DOMAIN Tracked : c \notin OtherCalls
  BY AllTracked DEF PCs, IsTracking
<1>2. \A fd \in FDs : m[fd] \in Infos /\ T[fd] \in Files
  BY DEF Maps, Tables
<1>3. DOMAIN m = FDs
  BY DEF Maps
<1>4. CASE p.call \in DOMAIN Tracked
  <2> DEFINE i == Info(Tracked[p.call].type, p.cx /\ Tracked[p.call].flags)
  <2>1. i \in Infos
    BY <1>1, <1>4, AllTracked, RealTypes DEF Info, Infos, IsTracking
  <2>2. M = TrackAll(m, p.new, i)
    BY <1>1, <1>4 DEF MapAfter, OtherCalls
  <2> HIDE DEF i, M
  <2>3. ASSUME NEW fd \in FDs
        PROVE  M[fd] = IF fd \in p.foot THEN IF m[fd] = NoInfo THEN i ELSE m[fd] ELSE m[fd]
    BY <1>3, <1>4, <2>2 DEF TrackAll, TrackFD, Shaped
  <2>4. M = [fd \in FDs |-> M[fd]]
    BY <2>2 DEF TrackAll
  <2>5. M \in Maps
    BY <1>2, <2>1, <2>3, <2>4 DEF Maps
  <2>6. ASSUME NEW fd \in FDs PROVE Entry(p, m, T, fd) = IF m[fd] = NoInfo THEN i ELSE m[fd]
    BY <1>1, <1>4 DEF Entry, i, OtherCalls, Copies
  <2> QED
    BY <2>3, <2>5, <2>6 DEF M
<1>5. CASE p.call = "close"
  <2>1. M = DropFD(m, p.src[1])
    BY <1>1, <1>5 DEF MapAfter, OtherCalls
  <2>2. p.src[1] \in FDs /\ p.foot = {p.src[1]}
    BY <1>5 DEF Shaped
  <2>3. \A fd \in FDs : Entry(p, m, T, fd) = NoInfo
    BY <1>1, <1>5 DEF Entry, OtherCalls, Copies
  <2>4. M \in Maps
    BY <2>1, <2>2 DEF DropFD, Maps, Infos
  <2> QED
    BY <1>3, <2>1, <2>2, <2>3, <2>4 DEF DropFD
<1>6. CASE p.call \in Copies
  <2> DEFINE s == p.src[1]
             n == p.new[1]
             i == Info(m[s].type, IF p.call = "fcntl_dupfd" THEN p.cx ELSE m[s].cx)
  <2>1. s \in FDs /\ n \in FDs /\ p.foot = {s, n}
    BY <1>6 DEF Shaped
  <2>2. m[s].cx \in BOOLEAN /\ m[s] = [type |-> m[s].type, cx |-> m[s].cx] /\ (m[s] # NoInfo => m[s].type \in Types)
    BY <1>2, <2>1, InfoForms
  <2>3. m[s] # NoInfo => i \in Infos
    BY <1>1, <2>2 DEF Info, Infos
  <2>4. M = IF m[s] = NoInfo THEN m ELSE TrackFD(m, n, i)
    <3>1. CASE p.call \in {"dup", "dup2"}
      <4>1. M = DupTracked(m, s, n)
        BY <1>1, <3>1 DEF MapAfter, OtherCalls
      <4>2. i = m[s]
        BY <3>1, <2>2 DEF Info
      <4> QED
        BY <4>1, <4>2 DEF DupTracked
    <3>2. CASE p.call = "fcntl_dupfd"
      <4>1. M = FcntlDupTracked(m, s, n, p.cx)
        BY <1>1, <3>2 DEF MapAfter, OtherCalls
      <4>2. i = [m[s] EXCEPT !.cx = p.cx]
        BY <3>2, <2>2 DEF Info
      <4> QED
        BY <4>1, <4>2 DEF FcntlDupTracked
    <3> QED
      BY <1>6, <3>1, <3>2 DEF Copies
  <2>5. ASSUME NEW fd \in FDs
        PROVE  Entry(p, m, T, fd) = IF fd = n /\ m[fd] = NoInfo /\ m[s] # NoInfo THEN i ELSE m[fd]
    BY <1>1, <1>6 DEF Entry, OtherCalls, Copies
  <2> HIDE DEF i, M, s, n
  <2>6. M \in Maps
    BY <2>1, <2>3, <2>4 DEF TrackFD, Maps
  <2>7. \A fd \in FDs : M[fd] = IF fd = n /\ m[fd] = NoInfo /\ m[s] # NoInfo THEN i ELSE m[fd]
    BY <1>3, <2>1, <2>4 DEF TrackFD
  <2>8. \A fd \in FDs : M[fd] = IF fd \in p.foot THEN Entry(p, m, T, fd) ELSE m[fd]
    BY <2>1, <2>5, <2>7
  <2> QED
    BY <2>6, <2>8 DEF M
<1>7. CASE p.call = "fcntl_setfd"
  <2> DEFINE s == p.src[1]
             i == Info(m[s].type, p.cx)
  <2>1. s \in FDs /\ p.foot = {s}
    BY <1>7 DEF Shaped
  <2>2. m[s] = [type |-> m[s].type, cx |-> m[s].cx] /\ (m[s] # NoInfo => m[s].type \in Types)
    BY <1>2, <2>1, InfoForms
  <2>3. m[s] # NoInfo => i \in Infos
    BY <1>1, <2>2 DEF Info, Infos
  <2>4. M = IF m[s] = NoInfo THEN m ELSE [m EXCEPT ![s] = i]
    <3>1. M = FcntlSetTracked(m, s, p.cx)
      BY <1>1, <1>7 DEF MapAfter, OtherCalls
    <3>2. i = [m[s] EXCEPT !.cx = p.cx]
      BY <2>2 DEF Info
    <3> QED
      BY <3>1, <3>2 DEF FcntlSetTracked, UpdateFD
  <2>5. ASSUME NEW fd \in FDs
        PROVE  Entry(p, m, T, fd) = IF m[fd] = NoInfo THEN m[fd] ELSE Info(m[fd].type, p.cx)
    BY <1>1, <1>7 DEF Entry, OtherCalls, Copies
  <2>6. M \in Maps
    <3> HIDE DEF i, M, s
    <3> QED BY <2>1, <2>3, <2>4 DEF Maps
  <2>7. \A fd \in FDs : M[fd] = IF fd \in p.foot THEN Entry(p, m, T, fd) ELSE m[fd]
    <3>1. Entry(p, m, T, s) = IF m[s] = NoInfo THEN m[s] ELSE i
      BY <2>1, <2>5
    <3> HIDE DEF i, M, s
    <3> QED BY <1>3, <2>1, <2>4, <3>1
  <2> QED
    BY <2>6, <2>7
<1>8. CASE p.call = "recvmsg"
  <2> DEFINE n == p.new[1]
             i == GetFDInfos(T)[n]
  <2>1. n \in FDs /\ p.foot = {n}
    BY <1>8 DEF Shaped
  <2>2. i \in Infos
    BY <2>1, GetFDInfosAgree DEF Maps
  <2>3. T[n] = None => i = NoInfo
    BY <2>1 DEF GetFDInfos
  <2>4. M = IF T[n] = None THEN m ELSE IF m[n] = NoInfo THEN [m EXCEPT ![n] = i] ELSE m
    <3>1. M = LookedUp(m, n, T)
      BY <1>1, <1>8 DEF MapAfter, OtherCalls
    <3> QED
      BY <3>1 DEF LookedUp, TrackFD
  <2>5. Entry(p, m, T, n) = IF m[n] = NoInfo THEN i ELSE m[n]
    BY <1>1, <1>8, <2>1 DEF Entry, OtherCalls, Copies
  <2> HIDE DEF i, M, n
  <2>6. M \in Maps
    BY <2>1, <2>2, <2>4 DEF Maps
  <2>7. \A fd \in FDs : M[fd] = IF fd \in p.foot THEN Entry(p, m, T, fd) ELSE m[fd]
    BY <1>3, <2>1, <2>3, <2>4, <2>5
  <2> QED
    BY <2>6, <2>7 DEF M
<1>9. CASE p.call = "unseen"
  <2>1. M = m
    BY <1>1, <1>9 DEF MapAfter, OtherCalls
  <2>2. \A fd \in FDs : Entry(p, m, T, fd) = m[fd]
    BY <1>1, <1>9 DEF Entry, OtherCalls, Copies
  <2> QED
    BY <2>1, <2>2
<1> QED
  BY <1>1, <1>4, <1>5, <1>6, <1>7, <1>8, <1>9 DEF OtherCalls, Copies

\* An entry depends on the numbers of the call only.
LEMMA EntryLocal ==
  ASSUME NEW p \in PCs, Shaped(p), NEW m \in Maps, NEW m2 \in Maps, NEW T \in Tables, NEW T2 \in Tables,
         \A fd \in p.foot : m2[fd] = m[fd] /\ T2[fd] = T[fd],
         NEW fd \in p.foot
  PROVE  Entry(p, m2, T2, fd) = Entry(p, m, T, fd)
<1>1. fd \in FDs /\ m2[fd] = m[fd] /\ T2[fd] = T[fd]
  BY DEF PCs
<1>2. GetFDInfos(T2)[fd] = GetFDInfos(T)[fd]
  BY <1>1 DEF GetFDInfos
<1>3. p.call \in Copies => m2[p.src[1]] = m[p.src[1]]
  BY DEF Shaped
<1> QED
  BY <1>1, <1>2, <1>3 DEF Entry

\* When an empty map is filled from /proc, the exits of the calls under way, whose
\* work is seen there already, do no harm.
LEMMA Refilled ==
  ASSUME NEW p \in PCs, Shaped(p), NEW m \in Maps, NEW T \in Tables, NEW fd \in p.foot,
         \A g \in FDs : m[g] = NoInfo,
         p.call \notin {"fork", "execve", "none"},
         Agrees(Entry(p, m, T, fd), T[fd]),
         p.call \in Copies => Agrees(Entry(p, m, T, p.src[1]), T[p.src[1]])
  PROVE  Agrees(Entry(p, GetFDInfos(T), T, fd), T[fd])
<1> DEFINE m2 == GetFDInfos(T)
<1>1. fd \in FDs /\ p.call \in DOMAIN Tracked \cup OtherCalls /\ p.cx \in BOOLEAN
      /\ \A c \in DOMAIN Tracked : c \notin OtherCalls
  BY AllTracked DEF PCs, IsTracking
<1>2. \A g \in FDs : Agrees(m2[g], T[g]) /\ (m2[g] = NoInfo <=> T[g] = None)
  BY GetFDInfosAgree DEF Agrees
<1>3. m[fd] = NoInfo /\ Agrees(m2[fd], T[fd]) /\ (m2[fd] = NoInfo <=> T[fd] = None)
  BY <1>1, <1>2
<1> HIDE DEF m2
<1>4. CASE p.call \in DOMAIN Tracked
  <2> DEFINE i == Info(Tracked[p.call].type, p.cx /\ Tracked[p.call].flags)
  <2>1. i # NoInfo
    BY <1>4, AllTracked DEF Info, NoInfo, IsTracking
  <2>2. Entry(p, m, T, fd) = i
    BY <1>1, <1>3, <1>4 DEF Entry, OtherCalls, Copies
  <2>3. T[fd] # None
    BY <2>1, <2>2 DEF Agrees
  <2>4. Entry(p, m2, T, fd) = m2[fd]
    BY <1>1, <1>3, <1>4, <2>3 DEF Entry, OtherCalls, Copies
  <2> QED
    BY <1>3, <2>4 DEF m2
<1>5. CASE p.call = "close"
  <2>1. Entry(p, m, T, fd) = NoInfo /\ Entry(p, m2, T, fd) = NoInfo
    BY <1>1, <1>5 DEF Entry, OtherCalls, Copies
  <2> QED
    BY <2>1 DEF m2
<1>6. CASE p.call \in Copies
  <2>1. p.src[1] \in FDs /\ p.src[1] \in p.foot
    BY <1>6 DEF Shaped
  <2>2. m[p.src[1]] = NoInfo
    BY <2>1
  <2>3. Entry(p, m, T, p.src[1]) = NoInfo
    BY <1>1, <1>6, <2>2 DEF Entry, OtherCalls, Copies
  <2>4. T[p.src[1]] = None
    BY <1>6, <2>3 DEF Agrees
  <2>5. m2[p.src[1]] = NoInfo
    BY <1>2, <2>1, <2>4
  <2>6. Entry(p, m2, T, fd) = m2[fd]
    BY <1>1, <1>6, <2>5 DEF Entry, OtherCalls, Copies
  <2> QED
    BY <1>3, <2>6 DEF m2
<1>7. CASE p.call = "fcntl_setfd"
  <2>1. Entry(p, m, T, fd) = NoInfo
    BY <1>1, <1>3, <1>7 DEF Entry, OtherCalls, Copies
  <2>2. T[fd] = None
    BY <2>1 DEF Agrees
  <2>3. Entry(p, m2, T, fd) = m2[fd]
    BY <1>1, <1>3, <1>7, <2>2 DEF Entry, OtherCalls, Copies
  <2> QED
    BY <1>3, <2>3 DEF m2
<1>8. CASE p.call = "recvmsg"
  <2>1. Entry(p, m2, T, fd) = m2[fd]
    BY <1>1, <1>8 DEF Entry, OtherCalls, Copies, m2
  <2> QED
    BY <1>3, <2>1 DEF m2
<1>9. CASE p.call = "unseen"
  <2>1. Entry(p, m2, T, fd) = m2[fd]
    BY <1>1, <1>9 DEF Entry, OtherCalls, Copies
  <2> QED
    BY <1>3, <2>1 DEF m2
<1> QED
  BY <1>1, <1>4, <1>5, <1>6, <1>7, <1>8, <1>9 DEF OtherCalls, Copies

(* The kernel's side *)

Below(S, fd) == {g \in S : g < fd}

\* Among the n lowest numbers of a set there is one with k - 1 lower ones, for each k.
LEMMA LowestExist ==
  ASSUME NEW free \in SUBSET FDs, NEW n \in {1, 2}, NEW low,
         low = {fd \in free : Cardinality(Below(free, fd)) < n}, ~(Cardinality(low) < n)
  PROVE  \A k \in 1 .. n : \E fd \in low : Cardinality(Below(low, fd)) = k - 1
<1>1. low \subseteq free /\ low \subseteq FDs
  OBVIOUS
<1>2. IsFiniteSet(low) /\ Cardinality(low) \in Nat
  BY <1>1, FS_Subset, FS_CardinalityType, FDAssumption
<1>3. ASSUME NEW fd \in FDs
      PROVE  IsFiniteSet(Below(free, fd)) /\ Cardinality(Below(free, fd)) \in Nat
  <2>1. Below(free, fd) \subseteq FDs
    BY DEF Below
  <2> QED
    BY <2>1, FS_Subset, FS_CardinalityType, FDAssumption
<1>4. \A fd \in low : fd \in FDs /\ Cardinality(Below(free, fd)) < n
  BY <1>1
<1>5. PICK a \in low : TRUE
  <2>1. low # {}
    BY <1>2, FS_EmptySet
  <2> QED
    BY <2>1
<1>6. CASE n = 1
  <2>1. Cardinality(Below(free, a)) = 0
    BY <1>3, <1>4, <1>5, <1>6
  <2>2. Below(free, a) = {}
    BY <1>3, <1>4, <1>5, <2>1, FS_EmptySet
  <2>3. Below(low, a) = {}
    BY <1>1, <2>2 DEF Below
  <2>4. Cardinality(Below(low, a)) = 0
    BY <2>3, FS_EmptySet
  <2> QED
    BY <1>5, <1>6, <2>4
<1>7. CASE n = 2
  <2>1. PICK b \in low : b # a
    <3>1. low # {a}
      BY <1>2, <1>7, FS_Singleton
    <3> QED
      BY <1>5, <3>1
  <2>2. PICK x \in low, y \in low : x < y
    <3>1. a \in Nat /\ b \in Nat
      BY <1>4, <1>5, <2>1, FDAssumption
    <3>2. a < b \/ b < a
      BY <2>1, <3>1
    <3> QED
      BY <1>5, <2>1, <3>2
  <2>3. x \in Below(free, y) /\ IsFiniteSet(Below(free, y))
    BY <1>1, <1>3, <1>4, <2>2 DEF Below
  <2>4. Cardinality(Below(free, y)) = 1
    <3>1. Cardinality(Below(free, y)) # 0
      BY <2>3, FS_EmptySet
    <3> QED
      BY <1>3, <1>4, <1>7, <2>2, <3>1
  <2>5. Below(free, y) = {x}
    <3>1. PICK z : Below(free, y) = {z}
      BY <2>3, <2>4, FS_Singleton
    <3> QED
      BY <2>3, <3>1
  <2>6. Below(low, y) = {x}
    <3>1. Below(low, y) \subseteq {x}
      BY <1>1, <2>5 DEF Below
    <3> QED
      BY <2>2, <3>1 DEF Below
  <2>7. Below(low, x) = {}
    <3>1. x \in Nat /\ y \in Nat
      BY <1>4, <2>2, FDAssumption
    <3>2. ASSUME NEW g \in Below(low, x) PROVE FALSE
      <4>1. g \in low /\ g < x /\ g \in Nat
        BY <1>4, FDAssumption DEF Below
      <4>2. g < y
        BY <2>2, <3>1, <4>1
      <4>3. g \in Below(low, y)
        BY <4>1, <4>2 DEF Below
      <4> QED
        BY <2>6, <3>1, <4>1, <4>3
    <3> QED
      BY <3>2
  <2>8. Cardinality(Below(low, x)) = 0 /\ Cardinality(Below(low, y)) = 1
    BY <2>6, <2>7, FS_EmptySet, FS_Singleton
  <2>9. ASSUME NEW k \in 1 .. n PROVE \E fd \in low : Cardinality(Below(low, fd)) = k - 1
    <3>1. k = 1 \/ k = 2
      BY <1>7
    <3> QED
      BY <2>2, <2>8, <3>1
  <2> QED
    BY <2>9
<1> QED
  BY <1>6, <1>7

\* The lowest free numbers are free numbers.
LEMMA LowestFree ==
  ASSUME NEW T \in Tables, NEW n \in {1, 2}, Lowest(T, n) # << >>
  PROVE  /\ Lowest(T, n) \in [1 .. n -> FDs]
         /\ \A k \in 1 .. n : T[Lowest(T, n)[k]] = None
<1> DEFINE free == {fd \in FDs : T[fd] = None}
           low == {fd \in free : Cardinality(Below(free, fd)) < n}
<1>1. Lowest(T, n) = IF Cardinality(low) < n THEN << >>
                     ELSE [k \in 1 .. n |-> CHOOSE fd \in low : Cardinality(Below(low, fd)) = k - 1]
  BY DEF Lowest, Below
<1>2. free \in SUBSET FDs /\ \A fd \in low : fd \in FDs /\ T[fd] = None
  OBVIOUS
<1>3. low = {fd \in free : Cardinality(Below(free, fd)) < n}
  OBVIOUS
<1> HIDE DEF low, free
<1>4. ~(Cardinality(low) < n)
  BY <1>1
<1>5. \A k \in 1 .. n : \E fd \in low : Cardinality(Below(low, fd)) = k - 1
  BY <1>2, <1>3, <1>4, LowestExist, ZenonT(40)
<1>6. \A k \in 1 .. n : (CHOOSE fd \in low : Cardinality(Below(low, fd)) = k - 1) \in low
  BY <1>5
<1> QED
  BY <1>1, <1>2, <1>4, <1>6

\* What is logged at the exit of the call p, but for dup2() of a number onto itself
Due(p, m, T) == IF Itself(p) THEN {} ELSE Warnings(p, m, T)

\* What the kernel does to the table T in the call p, as against what the library
\* does at its exit: T becomes T2, and but for the numbers in lost an entry that
\* agreed with T will agree with T2.
Begins(p, T, T2, lost) ==
    /\ p \in PCs /\ Shaped(p) /\ p.at = "done" /\ p.call \notin {"fork", "execve", "none"}
    /\ T2 \in Tables /\ lost \subseteq p.foot
    /\ \A fd \in FDs \ p.foot : T2[fd] = T[fd]
    /\ p.call = "close" => T2[p.src[1]] = None
    /\ p.call \in Copies => p.src # << >> /\ p.src[1] \notin lost
    /\ \A m \in Maps : \A fd \in p.foot \ lost :
          Agrees(m[fd], T[fd]) /\ (p.call \in Copies => Agrees(m[p.src[1]], T[p.src[1]]))
             => Agrees(Entry(p, m, T2, fd), T2[fd])
    /\ \A m \in Maps : \A fd \in Due(p, m, T2) : fd \in p.foot /\ (fd \in lost \/ ~Agrees(m[fd], T[fd]))

Starts(t) ==
    \E p \in PCs, T2 \in Tables, lost \in SUBSET FDs :
        Running(t, p.call) /\ Begins(p, Table(t), T2, lost) /\ Performs(t, p, T2, lost)

\* A record of a call, field by field
LEMMA PCRecord ==
  ASSUME NEW at \in {"none", "new", "known", "user", "done"}, NEW c \in DOMAIN Tracked \cup OtherCalls,
         NEW src \in Srcs, NEW new \in News, NEW cx \in BOOLEAN, NEW foot \in SUBSET FDs, NEW clash \in BOOLEAN
  PROVE  [at |-> at, call |-> c, src |-> src, new |-> new, cx |-> cx, foot |-> foot, clash |-> clash] \in PCs
BY DEF PCs

\* What Done() remembers of a call that creates descriptors
LEMMA DoneNew ==
  ASSUME NEW c \in DOMAIN Tracked \cup OtherCalls, NEW cx \in BOOLEAN, NEW new \in [1 .. 1 -> FDs] \cup [1 .. 2 -> FDs],
         NEW p, p = Done(c, << >>, new, cx)
  PROVE  /\ p \in PCs /\ p.at = "done" /\ p.call = c /\ p.new = new /\ p.cx = cx
         /\ \A fd \in FDs : fd \in p.foot <=> \E k \in DOMAIN new : new[k] = fd
<1> DEFINE F == {new[k] : k \in DOMAIN new}
<1>1. p = [at |-> "done", call |-> c, src |-> << >>, new |-> new, cx |-> cx, foot |-> F, clash |-> FALSE]
  BY DEF Done
<1>2. F \in SUBSET FDs /\ \A fd \in FDs : fd \in F <=> \E k \in DOMAIN new : new[k] = fd
  OBVIOUS
<1> HIDE DEF F
<1>3. << >> \in Srcs /\ new \in News
  BY DEF Srcs, News
<1>4. p \in PCs
  <2>1. "done" \in {"none", "new", "known", "user", "done"} /\ FALSE \in BOOLEAN /\ F \in SUBSET FDs
    BY <1>2
  <2>2. [at |-> "done", call |-> c, src |-> << >>, new |-> new, cx |-> cx, foot |-> F, clash |-> FALSE] \in PCs
    BY <1>3, <2>1, PCRecord, Zenon
  <2> QED
    BY <1>1, <2>2, Zenon
<1> QED
  BY <1>1, <1>2, <1>4

\* ... that names one ...
LEMMA DoneSource ==
  ASSUME NEW c \in DOMAIN Tracked \cup OtherCalls, NEW cx \in BOOLEAN, NEW s \in FDs,
         NEW p, p = Done(c, <<s>>, << >>, cx)
  PROVE  /\ p \in PCs /\ p.at = "done" /\ p.call = c /\ p.src = <<s>> /\ p.src[1] = s /\ p.cx = cx
         /\ p.foot = {s}
<1> DEFINE e == << >>
<1>0. {e[k] : k \in DOMAIN e} = {}
  OBVIOUS
<1>1. p = [at |-> "done", call |-> c, src |-> <<s>>, new |-> << >>, cx |-> cx,
           foot |-> {s}, clash |-> FALSE]
  <2>1. {e[k] : k \in DOMAIN e} \cup (IF <<s>> = << >> THEN {} ELSE {<<s>>[1]}) = {s}
    BY <1>0 DEF e
  <2> QED
    BY <2>1 DEF Done, e
<1>2. <<s>> \in Srcs /\ << >> \in News
  BY DEF Srcs, News
<1>3. p \in PCs
  BY <1>1, <1>2, PCRecord, ZenonT(40)
<1> QED
  BY <1>1, <1>3

\* ... and that copies one.
LEMMA DoneCopy ==
  ASSUME NEW c \in DOMAIN Tracked \cup OtherCalls, NEW cx \in BOOLEAN, NEW s \in FDs, NEW new \in [1 .. 1 -> FDs],
         NEW p, p = Done(c, <<s>>, new, cx)
  PROVE  /\ p \in PCs /\ p.at = "done" /\ p.call = c /\ p.src = <<s>> /\ p.src # << >> /\ p.src[1] = s
         /\ p.new[1] = new[1] /\ p.cx = cx /\ p.foot = {s, new[1]}
<1> DEFINE F == {new[k] : k \in DOMAIN new} \cup {s}
<1>1. p = [at |-> "done", call |-> c, src |-> <<s>>, new |-> new, cx |-> cx,
           foot |-> F, clash |-> FALSE]
  BY DEF Done
<1>2. F = {s, new[1]} /\ new[1] \in FDs
  OBVIOUS
<1> HIDE DEF F
<1>3. <<s>> \in Srcs /\ new \in News
  BY DEF Srcs, News
<1>4. p \in PCs
  <2>1. "done" \in {"none", "new", "known", "user", "done"} /\ FALSE \in BOOLEAN /\ F \in SUBSET FDs
    BY <1>2
  <2>2. [at |-> "done", call |-> c, src |-> <<s>>, new |-> new, cx |-> cx, foot |-> F, clash |-> FALSE] \in PCs
    BY <1>3, <2>1, PCRecord, Zenon
  <2> QED
    BY <1>1, <2>2, Zenon
<1> QED
  BY <1>1, <1>2, <1>4

\* The calls other than those of Tracked are not among them.
LEMMA CallsApart == \A c \in DOMAIN Tracked : c \notin OtherCalls
BY AllTracked DEF IsTracking

\* Creating descriptors
LEMMA CreateStarts ==
  ASSUME NEW t \in Threads, Table(t) \in Tables, Create(t)
  PROVE  Starts(t)
<1> DEFINE T == Table(t)
<1>1. PICK c \in DOMAIN Tracked, cx \in BOOLEAN :
        LET new == Lowest(T, Tracked[c].n)
        IN  /\ Running(t, c) /\ new # << >>
            /\ Performs(t, Done(c, << >>, new, cx),
                        With(T, new, File(RealType(c), cx, Tracked[c].flags)), {})
  BY DEF Create
<1> DEFINE new == Lowest(T, Tracked[c].n)
           f == File(RealType(c), cx, Tracked[c].flags)
           p == Done(c, << >>, new, cx)
           T2 == With(T, new, f)
           i == Info(Tracked[c].type, cx /\ Tracked[c].flags)
<1>2. Tracked[c].n \in {1, 2} /\ Tracked[c].flags \in BOOLEAN
  BY AllTracked DEF IsTracking
<1>3. /\ new \in [1 .. 1 -> FDs] \cup [1 .. 2 -> FDs]
      /\ \A k \in DOMAIN new : T[new[k]] = None
  BY <1>1, <1>2, LowestFree
<1>4. /\ p \in PCs /\ p.at = "done" /\ p.call = c /\ p.new = new /\ p.cx = cx
      /\ \A fd \in FDs : fd \in p.foot <=> \E k \in DOMAIN new : new[k] = fd
  <2> HIDE DEF new
  <2> QED BY <1>3, DoneNew
<1>5. c \notin OtherCalls
  BY CallsApart
<1>6. f \in Files /\ f # None /\ i \in Infos /\ i # NoInfo /\ Agrees(i, f)
  <2>1. /\ RealType(c) \in Types /\ Tracked[c].type \in Types /\ "INVALID" \notin Types
        /\ RealType(c) = Tracked[c].type \/ (RealType(c) = "EPOLL" /\ Tracked[c].type = "EVENT_FD")
    BY RealTypes
  <2>2. f = [type |-> RealType(c), cx |-> cx, exact |-> Tracked[c].flags]
    BY DEF File
  <2>3. i = [type |-> Tracked[c].type, cx |-> cx /\ Tracked[c].flags]
    BY DEF Info
  <2>4. f \in Files /\ f # None
    BY <1>2, <2>1, <2>2 DEF Files, None
  <2>5. i \in Infos /\ i # NoInfo
    BY <1>2, <2>1, <2>3 DEF Infos, NoInfo, Info
  <2> QED
    BY <1>2, <2>1, <2>2, <2>3, <2>4, <2>5 DEF Agrees
<1> HIDE DEF new, f, p, i
<1>7. T2 = [fd \in FDs |-> IF fd \in p.foot THEN f ELSE T[fd]]
  BY <1>4 DEF With
<1> HIDE DEF T2
<1>8. T2 \in Tables
  BY <1>6, <1>7 DEF Tables
<1>9. Shaped(p)
  BY <1>4, <1>5 DEF Shaped, OtherCalls, Copies
<1>10. ASSUME NEW m \in Maps, NEW fd \in p.foot, Agrees(m[fd], T[fd])
       PROVE  Agrees(Entry(p, m, T2, fd), T2[fd])
  <2>1. fd \in FDs /\ T[fd] = None
    BY <1>3, <1>4 DEF PCs
  <2>2. m[fd] = NoInfo
    BY <1>10, <2>1 DEF Agrees
  <2>3. Entry(p, m, T2, fd) = i
    BY <1>4, <1>5, <2>2 DEF Entry, OtherCalls, Copies, i
  <2> QED
    BY <1>6, <1>7, <2>1, <2>3
<1>11. ASSUME NEW m \in Maps, NEW fd \in Due(p, m, T2)
       PROVE  fd \in p.foot /\ ~Agrees(m[fd], T[fd])
  <2>3. Registered(p, m, T2) = {new[k] : k \in DOMAIN new} /\ Missed(p, m, T2) = {}
    BY <1>4, <1>5 DEF Registered, Missed, OtherCalls
  <2>1. fd \in FDs /\ m[fd] # NoInfo /\ fd \in p.foot
    BY <1>3, <1>4, <2>3 DEF Due, Warnings
  <2>2. T[fd] = None
    BY <1>3, <1>4, <2>1
  <2> QED
    BY <2>1, <2>2 DEF Agrees
<1>12. p.call \notin {"fork", "execve", "none", "close"} /\ p.call \notin Copies
  BY <1>4, <1>5 DEF OtherCalls, Copies
<1>13. Begins(p, T, T2, {})
  BY <1>4, <1>7, <1>8, <1>9, <1>10, <1>11, <1>12 DEF Begins
<1>14. Running(t, p.call) /\ Performs(t, p, T2, {})
  BY <1>1, <1>4 DEF p, T2, new, f
<1> QED
  BY <1>4, <1>8, <1>13, <1>14 DEF Starts

\* Closing one
LEMMA CloseStarts ==
  ASSUME NEW t \in Threads, Table(t) \in Tables, Close(t)
  PROVE  Starts(t)
<1> DEFINE T == Table(t)
<1>1. PICK s \in Opened(t) : Performs(t, Done("close", <<s>>, << >>, FALSE), [T EXCEPT ![s] = None], {})
  BY DEF Close
<1> DEFINE no == FALSE
           p == Done("close", <<s>>, << >>, no)
           T2 == [T EXCEPT ![s] = None]
<1>2. s \in FDs /\ T[s] # None /\ DOMAIN T = FDs
  BY DEF Opened, Tables
<1>3. p \in PCs /\ p.at = "done" /\ p.call = "close" /\ p.src[1] = s /\ p.foot = {s}
  <2>1. "close" \in DOMAIN Tracked \cup OtherCalls /\ no \in BOOLEAN
    BY DEF OtherCalls
  <2> HIDE DEF no
  <2> QED
    BY <1>2, <2>1, DoneSource
<1>4. T2 \in Tables
  BY <1>2 DEF Tables, Files
<1>5. "close" \notin DOMAIN Tracked
  BY CallsApart DEF OtherCalls
<1> HIDE DEF p
<1>6. Shaped(p)
  BY <1>2, <1>3, <1>5 DEF Shaped, Copies
<1>7. ASSUME NEW m \in Maps, NEW fd \in p.foot
      PROVE  Agrees(Entry(p, m, T2, fd), T2[fd])
  <2>1. Entry(p, m, T2, fd) = NoInfo
    BY <1>3, <1>5 DEF Entry, Copies
  <2> QED
    BY <1>2, <1>3, <2>1 DEF Agrees
<1>8. ASSUME NEW m \in Maps, NEW fd \in Due(p, m, T2)
      PROVE  fd \in p.foot /\ ~Agrees(m[fd], T[fd])
  <2>1. Registered(p, m, T2) = {} /\ Missed(p, m, T2) = IF m[s] = NoInfo THEN {s} ELSE {}
    BY <1>3, <1>5 DEF Registered, Missed
  <2>2. fd = s /\ m[s] = NoInfo
    BY <2>1 DEF Due, Warnings
  <2> QED
    BY <1>2, <1>3, <2>2 DEF Agrees
<1>9. Begins(p, T, T2, {})
  BY <1>2, <1>3, <1>4, <1>6, <1>7, <1>8 DEF Begins, Copies
<1>10. Running(t, p.call) /\ Performs(t, p, T2, {})
  BY <1>1, <1>3 DEF Close, p
<1> QED
  BY <1>3, <1>4, <1>9, <1>10 DEF Starts

\* Copying one, whatever becomes of CLOEXEC
LEMMA CopyStarts ==
  ASSUME NEW t \in Threads, Table(t) \in Tables,
         NEW c \in Copies, NEW s \in Opened(t), NEW new \in [1 .. 1 -> FDs], NEW cx \in BOOLEAN,
         new[1] # s, Running(t, c), NEW f, NEW lost \in SUBSET {new[1]}, NEW ex \in BOOLEAN,
         f = [Table(t)[s] EXCEPT !.cx = cx, !.exact = ex],
         ex => c = "fcntl_dupfd",
         Table(t)[new[1]] = None \/ lost = {new[1]},
         Performs(t, Done(c, <<s>>, new, cx), With(Table(t), new, f), lost)
  PROVE  Starts(t)
<1> DEFINE T == Table(t)
           p == Done(c, <<s>>, new, cx)
           T2 == With(T, new, f)
           n == new[1]
<1>1. s \in FDs /\ T[s] # None /\ T[s] \in Files /\ n \in FDs
  BY DEF Opened, Tables
<1>2. /\ p \in PCs /\ p.at = "done" /\ p.call = c /\ p.src # << >> /\ p.src[1] = s /\ p.new[1] = n
      /\ p.cx = cx /\ p.foot = {s, n}
  <2>1. c \in DOMAIN Tracked \cup OtherCalls
    BY DEF OtherCalls, Copies
  <2> QED
    BY <1>1, <2>1, DoneCopy
<1>3. T[s].type \in Types /\ T[s] = [type |-> T[s].type, cx |-> T[s].cx, exact |-> T[s].exact]
  BY <1>1, FileForms
<1>4. f = [type |-> T[s].type, cx |-> cx, exact |-> ex]
  BY <1>3
<1>5. f \in Files /\ f # None
  <2>1. f \in [type : Types, cx : BOOLEAN, exact : BOOLEAN] /\ f.type # "INVALID"
    BY <1>3, <1>4, RealTypes, ZenonT(40)
  <2> QED
    BY <2>1 DEF Files, None
<1>6. c \notin DOMAIN Tracked
  BY CallsApart DEF OtherCalls, Copies
<1> HIDE DEF p
<1>7. T2 = [fd \in FDs |-> IF fd = n THEN f ELSE T[fd]]
  BY DEF With
<1> HIDE DEF T2
<1>8. T2 \in Tables
  BY <1>5, <1>7 DEF Tables
<1>9. Shaped(p)
  BY <1>1, <1>2, <1>6 DEF Shaped, Copies
<1>10. ASSUME NEW m \in Maps, NEW fd \in p.foot \ lost, Agrees(m[fd], T[fd]), Agrees(m[s], T[s])
       PROVE  Agrees(Entry(p, m, T2, fd), T2[fd])
  <2> DEFINE i == Info(m[s].type, IF c = "fcntl_dupfd" THEN cx ELSE m[s].cx)
  <2>1. fd \in FDs /\ m[s] \in Infos /\ m[s] # NoInfo
    BY <1>1, <1>2, <1>10 DEF Maps, Agrees, PCs
  <2>2. Entry(p, m, T2, fd) = IF fd = n /\ m[fd] = NoInfo THEN i ELSE m[fd]
    BY <1>2, <1>6, <2>1 DEF Entry, Copies
  <2>3. CASE fd = s
    BY <1>7, <1>10, <2>1, <2>2, <2>3
  <2>4. CASE fd = n
    <3>1. T[n] = None
      BY <1>10, <2>4
    <3>2. m[fd] = NoInfo
      BY <1>10, <2>4, <3>1 DEF Agrees
    <3>3. m[s].type = T[s].type \/ (T[s].type = "EPOLL" /\ m[s].type = "EVENT_FD")
      BY <1>1, <1>10 DEF Agrees
    <3>4. i # NoInfo
      BY <2>1, InfoForms DEF Info, NoInfo
    <3>5. i.type = m[s].type /\ (c = "fcntl_dupfd" => i.cx = cx)
      BY DEF Info
    <3>6. f.type = T[s].type /\ f.cx = cx /\ f.exact = ex
      BY <1>4
    <3>7. Agrees(i, f)
      BY <1>5, <3>3, <3>4, <3>5, <3>6 DEF Agrees
    <3> QED
      BY <1>7, <2>1, <2>2, <2>4, <3>2, <3>7
  <2> QED
    BY <1>2, <2>3, <2>4
<1>11. ASSUME NEW m \in Maps, NEW fd \in Due(p, m, T2)
       PROVE  fd \in p.foot /\ (fd \in lost \/ ~Agrees(m[fd], T[fd]))
  <2>1. /\ Registered(p, m, T2) = IF m[s] = NoInfo THEN {} ELSE {n}
        /\ Missed(p, m, T2) = IF m[s] = NoInfo THEN {s} ELSE {}
    BY <1>2, <1>6 DEF Registered, Missed, Copies
  <2>2. (fd = s /\ m[s] = NoInfo) \/ (fd = n /\ m[n] # NoInfo)
    BY <2>1 DEF Due, Warnings
  <2> QED
    BY <1>1, <1>2, <2>2 DEF Agrees
<1>12. Begins(p, T, T2, lost)
  <2>1. \A fd \in FDs \ p.foot : T2[fd] = T[fd]
    BY <1>2, <1>7
  <2>2. lost \subseteq p.foot /\ p.call \notin {"fork", "execve", "none", "close"}
    BY <1>2 DEF Copies
  <2> QED
    BY <1>2, <1>8, <1>9, <1>10, <1>11, <2>1, <2>2 DEF Begins
<1>13. Running(t, p.call) /\ Performs(t, p, T2, lost) /\ lost \in SUBSET FDs
  BY <1>1, <1>2 DEF p, T2
<1> QED
  BY <1>2, <1>8, <1>12, <1>13 DEF Starts

\* dup2() of a number onto itself
LEMMA ItselfStarts ==
  ASSUME NEW t \in Threads, Table(t) \in Tables, NEW s \in Opened(t), Running(t, "dup2"),
         NEW no \in BOOLEAN, Performs(t, Done("dup2", <<s>>, <<s>>, no), Table(t), {})
  PROVE  Starts(t)
<1> DEFINE T == Table(t)
           new == <<s>>
           p == Done("dup2", <<s>>, new, no)
<1>1. s \in FDs /\ T[s] # None /\ new \in [1 .. 1 -> FDs] /\ new[1] = s
  BY DEF Opened
<1>2. /\ p \in PCs /\ p.at = "done" /\ p.call = "dup2" /\ p.src = <<s>> /\ p.src # << >> /\ p.src[1] = s
      /\ p.new[1] = s /\ p.foot = {s}
  <2>1. "dup2" \in DOMAIN Tracked \cup OtherCalls
    BY DEF OtherCalls
  <2> HIDE DEF new
  <2> QED
    BY <1>1, <2>1, DoneCopy
<1>3. p.new = <<s>>
  BY DEF Done
<1>4. "dup2" \notin DOMAIN Tracked
  BY CallsApart DEF OtherCalls
<1>5. Performs(t, p, T, {})
  OBVIOUS
<1> HIDE DEF p
<1>6. Shaped(p)
  BY <1>1, <1>2, <1>4 DEF Shaped, Copies
<1>7. ASSUME NEW m \in Maps, NEW fd \in p.foot, Agrees(m[fd], T[fd])
      PROVE  Agrees(Entry(p, m, T, fd), T[fd])
  <2>1. fd = s /\ m[s] # NoInfo
    BY <1>1, <1>2, <1>7 DEF Agrees
  <2>2. Entry(p, m, T, fd) = m[fd]
    BY <1>2, <1>4, <2>1 DEF Entry, Copies
  <2> QED
    BY <1>7, <2>2
<1>8. \A m \in Maps : Due(p, m, T) = {}
  BY <1>2, <1>3 DEF Due, Itself
<1>9. Begins(p, T, T, {})
  BY <1>2, <1>6, <1>7, <1>8 DEF Begins, Copies
<1>10. Running(t, p.call)
  BY <1>2
<1> QED
  BY <1>2, <1>5, <1>9, <1>10 DEF Starts

\* dup(), dup2() and F_DUPFD are such calls.
LEMMA DupStarts ==
  ASSUME NEW t \in Threads, Table(t) \in Tables, Dup(t) \/ Dup2(t) \/ FcntlDup(t)
  PROVE  Starts(t)
<1> DEFINE T == Table(t)
           low == Lowest(T, 1)
<1>1. low # << >> => low \in [1 .. 1 -> FDs] /\ T[low[1]] = None
  BY LowestFree
<1>2. \A s \in Opened(t) : T[s] # None
  BY DEF Opened
<1> HIDE DEF low
<1>3. CASE Dup(t)
  <2>1. PICK s \in Opened(t) :
          /\ Running(t, "dup") /\ low # << >>
          /\ Performs(t, Done("dup", <<s>>, low, FALSE),
                      With(T, low, [T[s] EXCEPT !.cx = FALSE, !.exact = FALSE]), {})
    BY <1>3 DEF Dup, low
  <2> QED
    BY <1>1, <1>2, <2>1, CopyStarts DEF Copies
<1>4. CASE Dup2(t)
  <2> DEFINE no == FALSE
  <2>1. PICK s \in Opened(t), n \in FDs :
          /\ Running(t, "dup2")
          /\ n = s => Performs(t, Done("dup2", <<s>>, <<s>>, no), T, {})
          /\ n # s => Performs(t, Done("dup2", <<s>>, <<n>>, no),
                               With(T, <<n>>, [T[s] EXCEPT !.cx = no, !.exact = no]),
                               IF T[n] = None THEN {} ELSE {n})
    BY <1>4 DEF Dup2
  <2> DEFINE new == <<n>>
             lost == IF T[n] = None THEN {} ELSE {n}
  <2>2. new \in [1 .. 1 -> FDs] /\ new[1] = n /\ lost \in SUBSET {n} /\ (T[n] = None \/ lost = {n})
    OBVIOUS
  <2>3. n # s => Performs(t, Done("dup2", <<s>>, new, no), With(T, new, [T[s] EXCEPT !.cx = no, !.exact = no]), lost)
    BY <2>1
  <2>4. no \in BOOLEAN /\ ~no
    OBVIOUS
  <2> HIDE DEF new, lost, no
  <2>5. CASE n = s
    BY <2>1, <2>4, <2>5, ItselfStarts
  <2>6. CASE n # s
    BY <2>1, <2>2, <2>3, <2>4, <2>6, CopyStarts DEF Copies
  <2> QED
    BY <2>5, <2>6
<1>5. CASE FcntlDup(t)
  <2>1. PICK s \in Opened(t), cx \in BOOLEAN :
          /\ Running(t, "fcntl_dupfd") /\ low # << >>
          /\ Performs(t, Done("fcntl_dupfd", <<s>>, low, cx),
                      With(T, low, [T[s] EXCEPT !.cx = cx, !.exact = TRUE]), {})
    BY <1>5 DEF FcntlDup, low
  <2> QED
    BY <1>1, <1>2, <2>1, CopyStarts DEF Copies
<1> QED
  BY <1>3, <1>4, <1>5

\* F_SETFD
LEMMA FcntlSetStarts ==
  ASSUME NEW t \in Threads, Table(t) \in Tables, FcntlSet(t)
  PROVE  Starts(t)
<1> DEFINE T == Table(t)
<1>1. PICK s \in Opened(t), cx \in BOOLEAN :
        Performs(t, Done("fcntl_setfd", <<s>>, << >>, cx), [T EXCEPT ![s] = File(@.type, cx, TRUE)], {})
  BY DEF FcntlSet
<1> DEFINE p == Done("fcntl_setfd", <<s>>, << >>, cx)
           T2 == [T EXCEPT ![s] = File(@.type, cx, TRUE)]
<1>2. s \in FDs /\ T[s] # None /\ T[s] \in Files /\ DOMAIN T = FDs
  BY DEF Opened, Tables
<1>3. p \in PCs /\ p.at = "done" /\ p.call = "fcntl_setfd" /\ p.src[1] = s /\ p.cx = cx /\ p.foot = {s}
  <2>1. "fcntl_setfd" \in DOMAIN Tracked \cup OtherCalls
    BY DEF OtherCalls
  <2> QED
    BY <1>2, <2>1, DoneSource
<1>4. T[s].type \in Types /\ T[s] = [type |-> T[s].type, cx |-> T[s].cx, exact |-> T[s].exact]
  BY <1>2, FileForms
<1> DEFINE f == [type |-> T[s].type, cx |-> cx, exact |-> TRUE]
<1>5. f \in Files /\ f # None /\ f.type = T[s].type /\ f.cx = cx
  <2>1. f \in [type : Types, cx : BOOLEAN, exact : BOOLEAN] /\ f.type # "INVALID"
    BY <1>4, RealTypes
  <2> QED
    BY <2>1 DEF Files, None
<1>6. T2 = [T EXCEPT ![s] = f]
  BY DEF File
<1>7. "fcntl_setfd" \notin DOMAIN Tracked
  BY CallsApart DEF OtherCalls
<1> HIDE DEF p, T2, f
<1>8. T2 \in Tables
  BY <1>2, <1>5, <1>6 DEF Tables
<1>9. Shaped(p)
  BY <1>2, <1>3, <1>7 DEF Shaped, Copies
<1>10. ASSUME NEW m \in Maps, NEW fd \in p.foot, Agrees(m[fd], T[fd])
       PROVE  Agrees(Entry(p, m, T2, fd), T2[fd])
  <2> DEFINE i == Info(m[s].type, cx)
  <2>1. fd = s /\ m[s] \in Infos /\ m[s] # NoInfo
    BY <1>2, <1>3, <1>10 DEF Maps, Agrees
  <2>2. Entry(p, m, T2, fd) = i
    BY <1>3, <1>7, <2>1 DEF Entry, Copies
  <2>3. i # NoInfo /\ i.type = m[s].type /\ i.cx = cx
    BY <2>1, InfoForms DEF Info, NoInfo
  <2>4. m[s].type = T[s].type \/ (T[s].type = "EPOLL" /\ m[s].type = "EVENT_FD")
    BY <1>2, <1>10, <2>1 DEF Agrees
  <2>5. Agrees(i, f)
    BY <1>5, <2>3, <2>4 DEF Agrees
  <2> QED
    BY <1>2, <1>6, <2>1, <2>2, <2>5
<1>11. ASSUME NEW m \in Maps, NEW fd \in Due(p, m, T2)
       PROVE  fd \in p.foot /\ ~Agrees(m[fd], T[fd])
  <2>1. Registered(p, m, T2) = {} /\ Missed(p, m, T2) = IF m[s] = NoInfo THEN {s} ELSE {}
    BY <1>3, <1>7 DEF Registered, Missed
  <2>2. fd = s /\ m[s] = NoInfo
    BY <2>1 DEF Due, Warnings
  <2> QED
    BY <1>2, <1>3, <2>2 DEF Agrees
<1>12. Begins(p, T, T2, {})
  BY <1>2, <1>3, <1>6, <1>8, <1>9, <1>10, <1>11 DEF Begins, Copies
<1>13. Running(t, p.call) /\ Performs(t, p, T2, {})
  BY <1>1, <1>3 DEF FcntlSet, p, T2
<1> QED
  BY <1>3, <1>8, <1>12, <1>13 DEF Starts

\* A descriptor received from another process
LEMMA ReceiveStarts ==
  ASSUME NEW t \in Threads, Table(t) \in Tables, Receive(t)
  PROVE  Starts(t)
<1> DEFINE T == Table(t)
           new == Lowest(T, 1)
           no == FALSE
<1>1. PICK type \in {"FS_PATH", "EPOLL"} :
        new # << >> /\ Performs(t, Done("recvmsg", << >>, new, no), With(T, new, File(type, FALSE, TRUE)), {})
  BY DEF Receive
<1> DEFINE f == File(type, FALSE, TRUE)
           p == Done("recvmsg", << >>, new, no)
           T2 == With(T, new, f)
           n == new[1]
<1>2. new \in [1 .. 1 -> FDs] /\ T[n] = None /\ n \in FDs
  BY <1>1, LowestFree
<1>3. p \in PCs /\ p.at = "done" /\ p.call = "recvmsg" /\ p.new = new /\ p.foot = {n}
  <2>1. "recvmsg" \in DOMAIN Tracked \cup OtherCalls /\ no \in BOOLEAN
    BY DEF OtherCalls
  <2>2. new \in [1 .. 1 -> FDs] \cup [1 .. 2 -> FDs]
    BY <1>2
  <2> HIDE DEF no, new
  <2>3. /\ p \in PCs /\ p.at = "done" /\ p.call = "recvmsg" /\ p.new = new
        /\ \A fd \in FDs : fd \in p.foot <=> \E k \in DOMAIN new : new[k] = fd
    BY <2>1, <2>2, DoneNew
  <2> HIDE DEF p
  <2>4. p.foot \subseteq FDs
    BY <2>3 DEF PCs
  <2>5. \A fd \in FDs : fd \in p.foot <=> fd = n
    BY <1>2, <2>3
  <2> QED
    BY <1>2, <2>3, <2>4, <2>5
<1>4. "FS_PATH" \in Types /\ "EPOLL" \in Types
  BY PathType
<1>5. f \in Files /\ f # None
  <2>1. f = [type |-> type, cx |-> FALSE, exact |-> TRUE]
    BY DEF File
  <2> HIDE DEF f
  <2>2. f \in [type : Types, cx : BOOLEAN, exact : BOOLEAN] /\ f.type # "INVALID"
    BY <1>4, <2>1
  <2> QED
    BY <2>2 DEF Files, None
<1>6. "recvmsg" \notin DOMAIN Tracked
  BY CallsApart DEF OtherCalls
<1>7. T2 = [fd \in FDs |-> IF fd = n THEN f ELSE T[fd]]
  <2> HIDE DEF new, f
  <2> QED BY <1>2 DEF With
<1> HIDE DEF p, T2, f, new
<1>8. T2 \in Tables
  BY <1>5, <1>7 DEF Tables
<1>9. Shaped(p)
  BY <1>2, <1>3, <1>6 DEF Shaped, Copies
<1>10. ASSUME NEW m \in Maps, NEW fd \in p.foot, Agrees(m[fd], T[fd])
       PROVE  Agrees(Entry(p, m, T2, fd), T2[fd])
  <2>1. fd = n /\ m[fd] = NoInfo
    BY <1>2, <1>3, <1>10 DEF Agrees
  <2>2. Entry(p, m, T2, fd) = GetFDInfos(T2)[fd]
    BY <1>3, <1>6, <2>1 DEF Entry, Copies
  <2> QED
    BY <1>2, <1>8, <2>1, <2>2, GetFDInfosAgree
<1>11. ASSUME NEW m \in Maps, NEW fd \in Due(p, m, T2)
       PROVE  fd \in p.foot /\ ~Agrees(m[fd], T[fd])
  <2>1. Registered(p, m, T2) = {n} /\ Missed(p, m, T2) = {}
    BY <1>2, <1>3, <1>5, <1>6, <1>7 DEF Registered, Missed
  <2>2. fd = n /\ m[n] # NoInfo
    BY <2>1 DEF Due, Warnings
  <2> QED
    BY <1>2, <1>3, <2>2 DEF Agrees
<1>12. Begins(p, T, T2, {})
  BY <1>2, <1>3, <1>7, <1>8, <1>9, <1>10, <1>11 DEF Begins, Copies
<1>13. Running(t, p.call) /\ Performs(t, p, T2, {})
  BY <1>1, <1>3 DEF Receive, p, T2, f, new
<1> QED
  BY <1>3, <1>8, <1>12, <1>13 DEF Starts

\* A call that the library does not know
LEMMA UnseenStarts ==
  ASSUME NEW t \in Threads, Table(t) \in Tables, Unseen(t)
  PROVE  Starts(t)
<1> DEFINE T == Table(t)
           no == FALSE
<1>1. PICK s \in FDs :
        Performs(t, Done("unseen", <<s>>, << >>, no),
                 [T EXCEPT ![s] = IF @ = None THEN File("UNKNOWN", FALSE, TRUE) ELSE None], {s})
  BY DEF Unseen
<1> DEFINE p == Done("unseen", <<s>>, << >>, no)
           f == IF T[s] = None THEN File("UNKNOWN", FALSE, TRUE) ELSE None
           T2 == [T EXCEPT ![s] = f]
<1>2. f \in Files
  BY DEF File, Files, Types
<1>3. p \in PCs /\ p.at = "done" /\ p.call = "unseen" /\ p.src[1] = s /\ p.foot = {s}
  <2>1. "unseen" \in DOMAIN Tracked \cup OtherCalls /\ no \in BOOLEAN
    BY DEF OtherCalls
  <2> HIDE DEF no
  <2> QED
    BY <2>1, DoneSource
<1>4. "unseen" \notin DOMAIN Tracked
  BY CallsApart DEF OtherCalls
<1>5. Performs(t, p, T2, {s})
  BY <1>1
<1> HIDE DEF p, f
<1>6. T2 \in Tables /\ \A fd \in FDs \ {s} : T2[fd] = T[fd]
  BY <1>2 DEF Tables
<1>7. Shaped(p)
  BY <1>3, <1>4 DEF Shaped, Copies
<1>8. \A m \in Maps : Due(p, m, T2) = {}
  <2>1. \A m \in Maps : Registered(p, m, T2) = {} /\ Missed(p, m, T2) = {}
    BY <1>3, <1>4 DEF Registered, Missed
  <2> QED
    BY <2>1 DEF Due, Warnings
<1>9. Begins(p, T, T2, {s})
  BY <1>3, <1>6, <1>7, <1>8 DEF Begins, Copies
<1>10. Running(t, p.call) /\ Performs(t, p, T2, {s})
  BY <1>3, <1>5 DEF Unseen
<1> QED
  BY <1>3, <1>6, <1>9, <1>10 DEF Starts

Enters(t) ==
    Create(t) \/ Close(t) \/ Dup(t) \/ Dup2(t) \/ FcntlDup(t) \/ FcntlSet(t) \/ Receive(t) \/ Unseen(t)

\* Every call that changes a table is like that.
LEMMA EntersStarts ==
  ASSUME NEW t \in Threads, Table(t) \in Tables, Enters(t)
  PROVE  Starts(t)
BY CreateStarts, CloseStarts, DupStarts, FcntlSetStarts, ReceiveStarts, UnseenStarts DEF Enters

(* The invariant *)

Seen(t) == pc[t].at \in {"known", "user", "done"}

Forking(t) == pc[t].at = "done" /\ pc[t].call = "fork"

Execing(t) == pc[t].at = "done" /\ pc[t].call = "execve"

Calling(t) == pc[t].at = "done" /\ pc[t].call \notin {"fork", "execve"}

Child(t) == pc[t].src[1]

TypeInv ==
    /\ pc \in [Threads -> PCs]
    /\ proc \in [Threads -> Threads] /\ tbl \in [Threads -> Threads] /\ ptr \in [Threads -> Threads]
    /\ file \in [Threads -> Tables] /\ map \in [Threads -> Maps] /\ off \in [Threads -> SUBSET FDs]

CallsShaped == \A t \in Threads :
    /\ Calling(t) => Shaped(pc[t]) /\ pc[t].call # "none"
    /\ ~Calling(t) /\ ~Forking(t) => pc[t].foot = {}

\* SharedAlike, for the tracees that have not yet run as well.
Sharing == \A t, u \in Threads : Seen(t) /\ Seen(u) =>
    /\ tbl[t] = tbl[u] => ptr[t] = ptr[u]
    /\ ptr[t] = ptr[u] /\ tbl[t] # tbl[u] => off[ptr[t]] = FDs

\* The threads of a process share their ProcessData, and so will a new thread.
Processes ==
    /\ \A t, u \in Threads : Seen(t) /\ Seen(u) /\ proc[t] = proc[u] => ptr[t] = ptr[u]
    /\ \A t \in Threads : Forking(t) => \A u \in Threads \ {Child(t)} :
          pc[u].at # "none" /\ proc[u] = proc[Child(t)] => pc[t].cx /\ proc[u] = proc[t]

\* Between clone() and its PTRACE_EVENT_CLONE the new thread waits, with the table
\* of its parent or one that nobody else has; the parent remembers the numbers of
\* all calls that were under way since.
ForksShaped == \A t \in Threads : Forking(t) =>
    /\ Child(t) \in Threads /\ pc[Child(t)].at = "new"
    /\ \A u \in Threads : Forking(u) /\ Child(u) = Child(t) => u = t
    /\ pc[t].cx => tbl[Child(t)] = tbl[t]
    /\ ~pc[t].cx => \A u \in Threads \ {Child(t)} : pc[u].at # "none" => tbl[u] # tbl[Child(t)]
    /\ \A u \in Threads : Calling(u) /\ tbl[u] = tbl[t] => pc[u].foot \subseteq pc[t].foot

\* Calls under way at the same time that have to do with the same number are known
\* to, and the map is not trusted for their numbers.
Overlap == \A t, u \in Threads :
    t # u /\ Calling(t) /\ Calling(u) /\ tbl[t] = tbl[u] /\ pc[t].foot \cap pc[u].foot # {}
        => pc[t].clash /\ pc[t].foot \subseteq off[ptr[t]]

\* The copy of a descriptor is trusted no more than its source.
SourcesKept == \A t \in Threads :
    Calling(t) /\ pc[t].call \in Copies /\ pc[t].src[1] \in off[ptr[t]] => pc[t].foot \subseteq off[ptr[t]]

Under(t, fd) == \E u \in Threads : Calling(u) /\ tbl[u] = tbl[t] /\ fd \in pc[u].foot

\* The first thread, before its attach-stop
Fresh(t) ==
    /\ pc[t].at = "known" /\ \A fd \in FDs : map[ptr[t]][fd] = NoInfo
    /\ \A u \in Threads \ {t} : Seen(u) => ptr[u] # ptr[t]

MapAgrees(t) == \A fd \in FDs \ off[ptr[t]] : Under(t, fd) \/ Agrees(map[ptr[t]][fd], Table(t)[fd])

MapsAgree == \A t \in Threads : Seen(t) /\ ~Execing(t) => MapAgrees(t) \/ Fresh(t)

\* A call under way: when its exit is handled, the map will agree with the table.
CallAgrees(t) ==
    /\ \A fd \in pc[t].foot \ off[ptr[t]] : Agrees(Entry(pc[t], map[ptr[t]], Table(t), fd), Table(t)[fd])
    /\ ~pc[t].clash => /\ pc[t].call = "close" => Table(t)[pc[t].src[1]] = None
                       /\ Due(pc[t], map[ptr[t]], Table(t)) \subseteq off[ptr[t]]

CallsAgree == \A t \in Threads : Calling(t) => CallAgrees(t)

\* Between execve() and PTRACE_EVENT_EXEC the map knows of what the kernel closed.
ExecsAgree == \A t \in Threads : Execing(t) =>
    /\ \A u \in Threads \ {t} : pc[u].at # "none" => tbl[u] # tbl[t]
    /\ \A fd \in FDs \ off[ptr[t]] :
          Agrees(map[ptr[t]][fd], Table(t)[fd]) \/ (map[ptr[t]][fd] # NoInfo /\ Table(t)[fd] = None)

\* The map that a child will get agrees with the table that it has got.
ForksAgree == \A t \in Threads : Forking(t) /\ ~pc[t].cx =>
    \A fd \in FDs \ (off[ptr[t]] \cup pc[t].foot) : Agrees(map[ptr[t]][fd], file[tbl[Child(t)]][fd])

FDInv ==
    /\ TypeInv /\ CallsShaped /\ Processes /\ Sharing /\ ForksShaped /\ Overlap /\ SourcesKept
    /\ MapsAgree /\ CallsAgree /\ ExecsAgree /\ ForksAgree

(* Calls begin *)

Hits(u, t, p) == pc[u].at = "done" /\ tbl[u] = tbl[t] /\ pc[u].foot \cap p.foot # {}

\* What Performs() changes
LEMMA PerformsFacts ==
  ASSUME TypeInv, NEW t \in Threads, NEW p \in PCs, NEW T2 \in Tables, NEW lost \in SUBSET FDs,
         pc[t].at = "user", Performs(t, p, T2, lost)
  PROVE  /\ UNCHANGED <<calls, proc, tbl, ptr, map>>
         /\ pc' \in [Threads -> PCs]
         /\ pc'[t] = [p EXCEPT !.clash = \E u \in Threads \ {t} : Hits(u, t, p)]
         /\ \A u \in Threads \ {t} :
               /\ pc'[u].at = pc[u].at /\ pc'[u].call = pc[u].call /\ pc'[u].src = pc[u].src
               /\ pc'[u].new = pc[u].new /\ pc'[u].cx = pc[u].cx
               /\ pc[u].foot \subseteq pc'[u].foot
               /\ ~Forking(u) => pc'[u].foot = pc[u].foot
               /\ Forking(u) /\ tbl[u] = tbl[t] => p.foot \subseteq pc'[u].foot
               /\ pc'[u].clash <=> pc[u].clash \/ Hits(u, t, p)
<1>1. /\ pc \in [Threads -> PCs] /\ tbl \in [Threads -> Threads]
  BY DEF TypeInv
<1>2. /\ UNCHANGED <<calls, proc, tbl, ptr, map>>
  BY DEF Performs
<1> DEFINE C == Clashes(t, p.foot)
           O == Others(t)
<1>3. \A u \in Threads : u \in O <=> u # t /\ pc[u].at = "done" /\ tbl[u] = tbl[t]
  BY DEF Others, Alive
<1>4. \A u \in Threads : u \in C <=> u # t /\ Hits(u, t, p)
  BY <1>3 DEF Clashes, Hits
<1>5. C \subseteq Threads
  BY DEF Clashes, Others, Alive
<1>6. pc' = [u \in Threads |->
                IF u = t THEN [p EXCEPT !.clash = (C # {})]
                ELSE IF u \in O
                     THEN [pc[u] EXCEPT !.clash = @ \/ u \in C,
                                        !.foot = IF pc[u].call = "fork" THEN @ \cup p.foot ELSE @]
                     ELSE pc[u]]
  BY DEF Performs
<1>7. (C # {}) <=> \E u \in Threads \ {t} : Hits(u, t, p)
  BY <1>4, <1>5
<1> HIDE DEF C, O
<1>8. pc'[t] = [p EXCEPT !.clash = \E u \in Threads \ {t} : Hits(u, t, p)]
  <2>1. pc'[t] = [p EXCEPT !.clash = (C # {})]
    BY <1>6
  <2> QED
    BY <1>7, <2>1
<1>9. pc'[t] \in PCs
  BY <1>8 DEF PCs
<1>10. ASSUME NEW u \in Threads \ {t}
       PROVE  /\ pc'[u] \in PCs
              /\ pc'[u].at = pc[u].at /\ pc'[u].call = pc[u].call /\ pc'[u].src = pc[u].src
              /\ pc'[u].new = pc[u].new /\ pc'[u].cx = pc[u].cx
              /\ pc[u].foot \subseteq pc'[u].foot
              /\ ~Forking(u) => pc'[u].foot = pc[u].foot
              /\ Forking(u) /\ tbl[u] = tbl[t] => p.foot \subseteq pc'[u].foot
              /\ pc'[u].clash <=> pc[u].clash \/ Hits(u, t, p)
  <2> DEFINE q == pc[u]
             F == IF q.call = "fork" THEN q.foot \cup p.foot ELSE q.foot
             K == q.clash \/ u \in C
  <2>1. q \in PCs
    BY <1>1
  <2>2. F \in SUBSET FDs /\ K \in BOOLEAN
    BY <2>1 DEF PCs
  <2>3. u \in O => pc'[u] = [q EXCEPT !.clash = K, !.foot = F]
    BY <1>6
  <2>4. u \notin O => pc'[u] = q /\ ~Hits(u, t, p)
    BY <1>3, <1>6 DEF Hits
  <2>5. Forking(u) <=> q.at = "done" /\ q.call = "fork"
    BY DEF Forking
  <2>6. K <=> q.clash \/ Hits(u, t, p)
    BY <1>4
  <2>7. CASE u \in O
    <3>1. q.at = "done" /\ tbl[u] = tbl[t]
      BY <1>3, <2>7
    <3>2. /\ q.foot \subseteq F /\ (~Forking(u) => F = q.foot) /\ (Forking(u) => p.foot \subseteq F)
      BY <2>5, <3>1
    <3> HIDE DEF q, F, K
    <3>3. /\ pc'[u] \in PCs /\ pc'[u].at = q.at /\ pc'[u].call = q.call /\ pc'[u].src = q.src
          /\ pc'[u].new = q.new /\ pc'[u].cx = q.cx /\ pc'[u].foot = F /\ pc'[u].clash = K
      BY <2>1, <2>2, <2>3, <2>7 DEF PCs
    <3> QED
      BY <2>6, <3>2, <3>3 DEF q
  <2>8. CASE u \notin O
    <3>1. ~(Forking(u) /\ tbl[u] = tbl[t])
      BY <1>3, <2>5, <2>8
    <3> QED
      BY <2>1, <2>4, <2>8, <3>1
  <2> QED
    BY <2>7, <2>8
<1>11. pc' \in [Threads -> PCs]
  <2>1. pc' = [u \in Threads |-> pc'[u]]
    BY <1>6
  <2> QED
    BY <1>9, <1>10, <2>1
<1> QED
  BY <1>2, <1>8, <1>10, <1>11

\* ... of the tables and of what is known to be wrong
LEMMA PerformsState ==
  ASSUME TypeInv, NEW t \in Threads, NEW p \in PCs, NEW T2 \in Tables, NEW lost \in SUBSET FDs,
         lost \subseteq p.foot, Performs(t, p, T2, lost)
  PROVE  /\ file' \in [Threads -> Tables] /\ file'[tbl[t]] = T2
         /\ \A i \in Threads \ {tbl[t]} : file'[i] = file[i]
         /\ off' \in [Threads -> SUBSET FDs] /\ \A i \in Threads : off[i] \subseteq off'[i]
         /\ \A i \in Threads \ {ptr[t]} : off'[i] = off[i]
         /\ lost \subseteq off'[ptr[t]]
         /\ \A u \in Threads \ {t} : Hits(u, t, p) => pc[u].foot \cup p.foot \subseteq off'[ptr[t]]
         /\ p.src # << >> /\ p.src[1] \in off[ptr[t]] => p.foot \subseteq off'[ptr[t]]
         /\ \A x \in off'[ptr[t]] :
               \/ x \in off[ptr[t]] \/ x \in lost
               \/ x \in p.foot /\ p.foot \subseteq off'[ptr[t]]
               \/ \E u \in Threads \ {t} : Hits(u, t, p) /\ x \in pc[u].foot
<1>1. /\ pc \in [Threads -> PCs] /\ tbl \in [Threads -> Threads] /\ ptr \in [Threads -> Threads]
      /\ file \in [Threads -> Tables] /\ off \in [Threads -> SUBSET FDs]
  BY DEF TypeInv
<1>2. tbl[t] \in Threads /\ ptr[t] \in Threads /\ p.foot \subseteq FDs /\ \A u \in Threads : pc[u].foot \subseteq FDs
  BY <1>1 DEF PCs
<1>3. file' = [file EXCEPT ![tbl[t]] = T2]
  BY DEF Performs
<1>4. file' \in [Threads -> Tables] /\ file'[tbl[t]] = T2 /\ \A i \in Threads \ {tbl[t]} : file'[i] = file[i]
  BY <1>1, <1>2, <1>3
<1> DEFINE C == Clashes(t, p.foot)
           W == WrongBy(t, p, lost)
<1>5. C \subseteq Threads /\ \A u \in Threads : u \in C <=> u # t /\ Hits(u, t, p)
  BY DEF Clashes, Others, Alive, Hits
<1>6. \A x : x \in W <=> (x \in lost \/ (\E u \in C : x \in pc[u].foot \/ x \in p.foot)
                             \/ (p.src # << >> /\ p.src[1] \in off[ptr[t]] /\ x \in p.foot))
  <2> DEFINE U == UNION {pc[u].foot \cup p.foot : u \in C}
             V == IF p.src # << >> /\ p.src[1] \in off[ptr[t]] THEN p.foot ELSE {}
  <2>1. W = lost \cup U \cup V
    BY DEF WrongBy
  <2>2. \A x : x \in U <=> \E u \in C : x \in pc[u].foot \/ x \in p.foot
    <3> HIDE DEF C
    <3> QED OBVIOUS
  <2>3. \A x : x \in V <=> p.src # << >> /\ p.src[1] \in off[ptr[t]] /\ x \in p.foot
    OBVIOUS
  <2> HIDE DEF U, V, W, C
  <2> QED
    BY <2>1, <2>2, <2>3
<1>7. off' = [off EXCEPT ![ptr[t]] = off[ptr[t]] \cup W]
  BY DEF Performs
<1> HIDE DEF C, W
<1>8. W \subseteq FDs
  BY <1>2, <1>5, <1>6
<1>9. off' \in [Threads -> SUBSET FDs] /\ off'[ptr[t]] = off[ptr[t]] \cup W
      /\ \A i \in Threads \ {ptr[t]} : off'[i] = off[i]
  BY <1>1, <1>2, <1>7, <1>8
<1>10. \A u \in Threads \ {t} : Hits(u, t, p) => pc[u].foot \cup p.foot \subseteq W
  BY <1>5, <1>6
<1>11. p.src # << >> /\ p.src[1] \in off[ptr[t]] => p.foot \subseteq W
  BY <1>6
<1>12. ASSUME NEW x \in W
       PROVE  \/ x \in lost
              \/ x \in p.foot /\ p.foot \subseteq W
              \/ \E u \in Threads \ {t} : Hits(u, t, p) /\ x \in pc[u].foot
  <2>1. CASE \E u \in C : x \in pc[u].foot \/ x \in p.foot
    BY <1>5, <1>10, <2>1
  <2>2. CASE p.src # << >> /\ p.src[1] \in off[ptr[t]] /\ x \in p.foot
    BY <1>11, <2>2
  <2> QED
    BY <1>6, <2>1, <2>2
<1>13. lost \subseteq W
  BY <1>6
<1> QED
  BY <1>2, <1>4, <1>9, <1>10, <1>11, <1>12, <1>13

\* A call that begins, as the lemmas below need it
Begun(t, p, T2, lost) ==
    /\ pc[t].at = "user" /\ Begins(p, Table(t), T2, lost)
    /\ tbl' = tbl /\ ptr' = ptr /\ proc' = proc /\ map' = map
    /\ pc' \in [Threads -> PCs]
    /\ pc'[t].at = "done" /\ pc'[t].call = p.call /\ pc'[t].src = p.src /\ pc'[t].new = p.new
    /\ pc'[t].cx = p.cx /\ pc'[t].foot = p.foot
    /\ pc'[t].clash <=> \E u \in Threads \ {t} : Hits(u, t, p)
    /\ \A u \in Threads \ {t} :
          /\ pc'[u].at = pc[u].at /\ pc'[u].call = pc[u].call /\ pc'[u].src = pc[u].src
          /\ pc'[u].new = pc[u].new /\ pc'[u].cx = pc[u].cx
          /\ pc[u].foot \subseteq pc'[u].foot
          /\ ~Forking(u) => pc'[u].foot = pc[u].foot
          /\ Forking(u) /\ tbl[u] = tbl[t] => p.foot \subseteq pc'[u].foot
          /\ pc'[u].clash <=> pc[u].clash \/ Hits(u, t, p)
    /\ file' \in [Threads -> Tables] /\ file'[tbl[t]] = T2
    /\ \A i \in Threads \ {tbl[t]} : file'[i] = file[i]
    /\ off' \in [Threads -> SUBSET FDs] /\ \A i \in Threads : off[i] \subseteq off'[i]
    /\ \A i \in Threads \ {ptr[t]} : off'[i] = off[i]
    /\ lost \subseteq off'[ptr[t]]
    /\ \A u \in Threads \ {t} : Hits(u, t, p) => pc[u].foot \cup p.foot \subseteq off'[ptr[t]]
    /\ p.src # << >> /\ p.src[1] \in off[ptr[t]] => p.foot \subseteq off'[ptr[t]]
    /\ \A x \in off'[ptr[t]] :
          \/ x \in off[ptr[t]] \/ x \in lost
          \/ x \in p.foot /\ p.foot \subseteq off'[ptr[t]]
          \/ \E u \in Threads \ {t} : Hits(u, t, p) /\ x \in pc[u].foot

\* The calls of Enters() begin like that.
LEMMA StartsBegun ==
  ASSUME TypeInv, NEW t \in Threads, Starts(t)
  PROVE  \E p \in PCs, T2 \in Tables, lost \in SUBSET FDs : Begun(t, p, T2, lost)
<1>1. PICK p \in PCs, T2 \in Tables, lost \in SUBSET FDs :
        Running(t, p.call) /\ Begins(p, Table(t), T2, lost) /\ Performs(t, p, T2, lost)
  BY DEF Starts
<1>2. pc[t].at = "user"
  BY <1>1 DEF Running
<1>3. lost \subseteq p.foot /\ p.at = "done"
  BY <1>1 DEF Begins
<1> DEFINE K == \E u \in Threads \ {t} : Hits(u, t, p)
<1>4. pc'[t] = [p EXCEPT !.clash = K]
  BY <1>1, <1>2, PerformsFacts
<1>5. K \in BOOLEAN
  OBVIOUS
<1>6. /\ pc'[t].at = "done" /\ pc'[t].call = p.call /\ pc'[t].src = p.src /\ pc'[t].new = p.new
      /\ pc'[t].cx = p.cx /\ pc'[t].foot = p.foot /\ pc'[t].clash = K
  <2> HIDE DEF K
  <2> QED BY <1>3, <1>4, <1>5 DEF PCs
<1>7. Begun(t, p, T2, lost)
  <2>1. /\ UNCHANGED <<calls, proc, tbl, ptr, map>>
        /\ pc' \in [Threads -> PCs]
        /\ \A u \in Threads \ {t} :
               /\ pc'[u].at = pc[u].at /\ pc'[u].call = pc[u].call /\ pc'[u].src = pc[u].src
               /\ pc'[u].new = pc[u].new /\ pc'[u].cx = pc[u].cx
               /\ pc[u].foot \subseteq pc'[u].foot
               /\ ~Forking(u) => pc'[u].foot = pc[u].foot
               /\ Forking(u) /\ tbl[u] = tbl[t] => p.foot \subseteq pc'[u].foot
               /\ pc'[u].clash <=> pc[u].clash \/ Hits(u, t, p)
    BY <1>1, <1>2, PerformsFacts
  <2>2. /\ file' \in [Threads -> Tables] /\ file'[tbl[t]] = T2
        /\ \A i \in Threads \ {tbl[t]} : file'[i] = file[i]
        /\ off' \in [Threads -> SUBSET FDs] /\ \A i \in Threads : off[i] \subseteq off'[i]
        /\ \A i \in Threads \ {ptr[t]} : off'[i] = off[i]
        /\ lost \subseteq off'[ptr[t]]
        /\ \A u \in Threads \ {t} : Hits(u, t, p) => pc[u].foot \cup p.foot \subseteq off'[ptr[t]]
        /\ p.src # << >> /\ p.src[1] \in off[ptr[t]] => p.foot \subseteq off'[ptr[t]]
        /\ \A x \in off'[ptr[t]] :
               \/ x \in off[ptr[t]] \/ x \in lost
               \/ x \in p.foot /\ p.foot \subseteq off'[ptr[t]]
               \/ \E u \in Threads \ {t} : Hits(u, t, p) /\ x \in pc[u].foot
    BY <1>1, <1>3, PerformsState
  <2>3. tbl' = tbl /\ ptr' = ptr /\ proc' = proc /\ map' = map
    BY <2>1
  <2> HIDE DEF K
  <2>4. pc'[t].clash <=> \E u \in Threads \ {t} : Hits(u, t, p)
    BY <1>6 DEF K
  <2> QED
    BY <1>1, <1>2, <1>6, <2>1, <2>2, <2>3, <2>4 DEF Begun
<1> QED
  BY <1>7

\* What is logged depends on the numbers of the call only, and is about them.
LEMMA WarningsLocal ==
  ASSUME NEW p \in PCs, Shaped(p), p.call \notin {"fork", "execve", "none"}
  PROVE  /\ \A m, T : Due(p, m, T) \subseteq FDs /\ Due(p, m, T) \subseteq p.foot
         /\ \A m, m2, T, T2 :
               (\A fd \in p.foot : m2[fd] = m[fd] /\ T2[fd] = T[fd]) => Due(p, m2, T2) = Due(p, m, T)
<1>1. /\ p.call \in DOMAIN Tracked \cup OtherCalls
      /\ \A c \in DOMAIN Tracked : c \notin OtherCalls
      /\ p.foot \subseteq FDs
  BY CallsApart DEF PCs
\* Its parts do.
<1> DEFINE Near ==
      \A x, y : Registered(p, x, y) \subseteq p.foot /\ Missed(p, x, y) \subseteq p.foot
    Fixed ==
      \A x, x2, y, y2 : (\A fd \in p.foot : x2[fd] = x[fd] /\ y2[fd] = y[fd]) =>
          Registered(p, x2, y2) = Registered(p, x, y) /\ Missed(p, x2, y2) = Missed(p, x, y)
<1>2. ASSUME p.call \in DOMAIN Tracked PROVE Near /\ Fixed
  <2> DEFINE N == {p.new[k] : k \in DOMAIN p.new}
  <2>1. \A x, y : Registered(p, x, y) = N /\ Missed(p, x, y) = {}
    BY <1>1, <1>2 DEF Registered, Missed, OtherCalls
  <2>2. \A k \in DOMAIN p.new : p.new[k] \in FDs
    BY DEF PCs, News
  <2>3. \A fd \in FDs : fd \in p.foot <=> \E k \in DOMAIN p.new : p.new[k] = fd
    BY <1>2 DEF Shaped
  <2>4. N \subseteq p.foot
    BY <2>2, <2>3
  <2> HIDE DEF N
  <2> QED
    BY <2>1, <2>4
<1>3. ASSUME p.call \in Copies PROVE Near /\ Fixed
  <2> DEFINE a == p.src[1]
             b == p.new[1]
  <2>1. a \in p.foot /\ b \in p.foot
    BY <1>3 DEF Shaped
  <2>2. \A x, y : /\ Registered(p, x, y) = IF x[a] # NoInfo THEN {b} ELSE {}
                  /\ Missed(p, x, y) = IF x[a] = NoInfo THEN {a} ELSE {}
    BY <1>1, <1>3 DEF Registered, Missed, OtherCalls, Copies
  <2> HIDE DEF a, b
  <2>3. Near
    BY <2>1, <2>2
  <2>4. Fixed
    <3> SUFFICES ASSUME NEW x, NEW x2, NEW y, NEW y2, \A fd \in p.foot : x2[fd] = x[fd] /\ y2[fd] = y[fd]
                 PROVE  Registered(p, x2, y2) = Registered(p, x, y) /\ Missed(p, x2, y2) = Missed(p, x, y)
      OBVIOUS
    <3>1. x2[a] = x[a]
      BY <2>1
    <3> QED
      BY <2>2, <3>1
  <2> QED
    BY <2>3, <2>4
<1>4. ASSUME p.call \in {"close", "fcntl_setfd"} PROVE Near /\ Fixed
  <2> DEFINE a == p.src[1]
  <2>1. a \in p.foot
    BY <1>4 DEF Shaped
  <2>2. \A x, y : Registered(p, x, y) = {} /\ Missed(p, x, y) = IF x[a] = NoInfo THEN {a} ELSE {}
    BY <1>1, <1>4 DEF Registered, Missed, OtherCalls
  <2> HIDE DEF a
  <2>3. Near
    BY <2>1, <2>2
  <2>4. Fixed
    <3> SUFFICES ASSUME NEW x, NEW x2, NEW y, NEW y2, \A fd \in p.foot : x2[fd] = x[fd] /\ y2[fd] = y[fd]
                 PROVE  Registered(p, x2, y2) = Registered(p, x, y) /\ Missed(p, x2, y2) = Missed(p, x, y)
      OBVIOUS
    <3>1. x2[a] = x[a]
      BY <2>1
    <3> QED
      BY <2>2, <3>1
  <2> QED
    BY <2>3, <2>4
<1>5. ASSUME p.call = "recvmsg" PROVE Near /\ Fixed
  <2> DEFINE b == p.new[1]
  <2>1. b \in p.foot
    BY <1>5 DEF Shaped
  <2>2. \A x, y : /\ Registered(p, x, y) = IF y[b] # None THEN {b} ELSE {}
                  /\ Missed(p, x, y) = IF y[b] = None THEN {b} ELSE {}
    BY <1>1, <1>5 DEF Registered, Missed, OtherCalls
  <2> HIDE DEF b
  <2>3. Near
    BY <2>1, <2>2
  <2>4. Fixed
    <3> SUFFICES ASSUME NEW x, NEW x2, NEW y, NEW y2, \A fd \in p.foot : x2[fd] = x[fd] /\ y2[fd] = y[fd]
                 PROVE  Registered(p, x2, y2) = Registered(p, x, y) /\ Missed(p, x2, y2) = Missed(p, x, y)
      OBVIOUS
    <3>1. y2[b] = y[b]
      BY <2>1
    <3> QED
      BY <2>2, <3>1
  <2> QED
    BY <2>3, <2>4
<1>6. ASSUME p.call = "unseen" PROVE Near /\ Fixed
  <2>1. \A x, y : Registered(p, x, y) = {} /\ Missed(p, x, y) = {}
    BY <1>1, <1>6 DEF Registered, Missed, OtherCalls
  <2> QED
    BY <2>1
<1>7. Near /\ Fixed
  BY <1>1, <1>2, <1>3, <1>4, <1>5, <1>6 DEF OtherCalls, Copies
<1>8. \A m, T : Warnings(p, m, T) \subseteq p.foot
  BY <1>7 DEF Warnings
<1>9. ASSUME NEW m, NEW m2, NEW T, NEW T2, \A fd \in p.foot : m2[fd] = m[fd] /\ T2[fd] = T[fd]
      PROVE  Warnings(p, m2, T2) = Warnings(p, m, T)
  <2>1. /\ Registered(p, m2, T2) = Registered(p, m, T) /\ Missed(p, m2, T2) = Missed(p, m, T)
        /\ Registered(p, m, T) \subseteq p.foot
    BY <1>7, <1>9
  <2> QED
    BY <1>9, <2>1 DEF Warnings
<1> QED
  BY <1>1, <1>8, <1>9 DEF Due

\* What a call does depends on some of the fields of its record.
LEMMA SameCall ==
  ASSUME NEW p, NEW q, q.call = p.call, q.src = p.src, q.new = p.new, q.cx = p.cx, q.foot = p.foot
  PROVE  /\ Shaped(q) <=> Shaped(p)
         /\ \A m, T, fd : Entry(q, m, T, fd) = Entry(p, m, T, fd)
         /\ \A m, T : Due(q, m, T) = Due(p, m, T)
<1>1. Shaped(q) <=> Shaped(p)
  BY DEF Shaped
<1>2. ASSUME NEW m, NEW T, NEW fd PROVE Entry(q, m, T, fd) = Entry(p, m, T, fd)
  BY DEF Entry
<1>3. ASSUME NEW m, NEW T PROVE Due(q, m, T) = Due(p, m, T)
  <2>1. Itself(q) <=> Itself(p)
    BY DEF Itself
  <2>2. Registered(q, m, T) = Registered(p, m, T) /\ Missed(q, m, T) = Missed(p, m, T)
    BY DEF Registered, Missed
  <2> QED
    BY <2>1, <2>2 DEF Due, Warnings
<1> QED
  BY <1>1, <1>2, <1>3

\* Who is in a call when another one begins
LEMMA BegunWho ==
  ASSUME NEW t \in Threads, NEW p \in PCs, NEW T2 \in Tables, NEW lost \in SUBSET FDs, Begun(t, p, T2, lost)
  PROVE  /\ Calling(t)' /\ ~Forking(t)' /\ ~Execing(t)' /\ Seen(t)'
         /\ ~Calling(t) /\ ~Forking(t) /\ ~Execing(t) /\ Seen(t)
         /\ \A u \in Threads \ {t} : /\ Calling(u)' <=> Calling(u)
                                     /\ Forking(u)' <=> Forking(u)
                                     /\ Execing(u)' <=> Execing(u)
                                     /\ Seen(u)' <=> Seen(u)
                                     /\ Calling(u) => pc'[u].foot = pc[u].foot
                                     /\ Child(u)' = Child(u)
<1>1. p.call \notin {"fork", "execve", "none"} /\ p.at = "done"
  BY DEF Begun, Begins
<1>2. Calling(t)' /\ ~Forking(t)' /\ ~Execing(t)' /\ Seen(t)'
  BY <1>1 DEF Begun, Calling, Forking, Execing, Seen
<1>3. ~Calling(t) /\ ~Forking(t) /\ ~Execing(t) /\ Seen(t)
  BY DEF Begun, Calling, Forking, Execing, Seen
<1>4. ASSUME NEW u \in Threads \ {t}
      PROVE  /\ Calling(u)' <=> Calling(u)
             /\ Forking(u)' <=> Forking(u)
             /\ Execing(u)' <=> Execing(u)
             /\ Seen(u)' <=> Seen(u)
             /\ Calling(u) => pc'[u].foot = pc[u].foot
             /\ Child(u)' = Child(u)
  <2>1. /\ pc'[u].at = pc[u].at /\ pc'[u].call = pc[u].call /\ pc'[u].src = pc[u].src
        /\ ~Forking(u) => pc'[u].foot = pc[u].foot
    BY DEF Begun
  <2> QED
    BY <2>1 DEF Calling, Forking, Execing, Seen, Child
<1> QED
  BY <1>2, <1>3, <1>4

\* The first half of the invariant when a call begins
LEMMA BegunShape ==
  ASSUME FDInv, NEW t \in Threads, NEW p \in PCs, NEW T2 \in Tables, NEW lost \in SUBSET FDs,
         Begun(t, p, T2, lost)
  PROVE  TypeInv' /\ CallsShaped' /\ Processes' /\ Sharing' /\ ForksShaped' /\ Overlap' /\ SourcesKept'
<1>1. /\ tbl' = tbl /\ ptr' = ptr /\ proc' = proc /\ map' = map
      /\ pc' \in [Threads -> PCs] /\ file' \in [Threads -> Tables] /\ off' \in [Threads -> SUBSET FDs]
      /\ tbl \in [Threads -> Threads] /\ ptr \in [Threads -> Threads] /\ off \in [Threads -> SUBSET FDs]
      /\ tbl[t] \in Threads /\ ptr[t] \in Threads
  BY DEF Begun, FDInv, TypeInv
<1>2. TypeInv'
  BY <1>1 DEF FDInv, TypeInv
<1> DEFINE Same(u) == /\ Calling(u)' <=> Calling(u)
                      /\ Forking(u)' <=> Forking(u)
                      /\ Execing(u)' <=> Execing(u)
                      /\ Seen(u)' <=> Seen(u)
                      /\ Calling(u) => pc'[u].foot = pc[u].foot
                      /\ Child(u)' = Child(u)
<1>3. /\ Calling(t)' /\ ~Forking(t)' /\ ~Execing(t)' /\ Seen(t)'
      /\ ~Calling(t) /\ ~Forking(t) /\ ~Execing(t) /\ Seen(t)
      /\ \A u \in Threads \ {t} : Same(u)
  BY BegunWho
<1> HIDE DEF Same
<1>4. CallsShaped'
  <2> SUFFICES ASSUME NEW u \in Threads
               PROVE  /\ Calling(u)' => Shaped(pc'[u]) /\ pc'[u].call # "none"
                      /\ ~Calling(u)' /\ ~Forking(u)' => pc'[u].foot = {}
    BY DEF CallsShaped
  <2>1. CASE u = t
    <3>1. Shaped(p) /\ p.call # "none"
      BY DEF Begun, Begins
    <3>2. Shaped(pc'[t]) /\ pc'[t].call # "none"
      BY <3>1, SameCall DEF Begun
    <3> QED
      BY <1>3, <2>1, <3>2
  <2>2. CASE u # t
    <3>1. /\ pc'[u].call = pc[u].call /\ pc'[u].src = pc[u].src /\ pc'[u].new = pc[u].new /\ pc'[u].cx = pc[u].cx
          /\ ~Forking(u) => pc'[u].foot = pc[u].foot
      BY <2>2 DEF Begun
    <3>2. /\ Calling(u) => Shaped(pc[u]) /\ pc[u].call # "none"
          /\ ~Calling(u) /\ ~Forking(u) => pc[u].foot = {}
      BY DEF FDInv, CallsShaped
    <3>3. Same(u)
      BY <1>3, <2>2
    <3>4. Calling(u) => ~Forking(u)
      BY DEF Calling, Forking
    <3>5. Calling(u) => Shaped(pc'[u])
      BY <3>1, <3>2, <3>4, SameCall
    <3> QED
      BY <3>1, <3>2, <3>3, <3>5 DEF Same
  <2> QED
    BY <2>1, <2>2
<1>5. \A i \in Threads : off[i] \subseteq off'[i] /\ off'[i] \subseteq FDs
  BY <1>1 DEF Begun
<1>6. Sharing'
  <2> SUFFICES ASSUME NEW u \in Threads, NEW v \in Threads, Seen(u)', Seen(v)'
               PROVE  /\ tbl[u] = tbl[v] => ptr[u] = ptr[v]
                      /\ ptr[u] = ptr[v] /\ tbl[u] # tbl[v] => off'[ptr[u]] = FDs
    BY <1>1 DEF Sharing
  <2>1. Seen(u) /\ Seen(v)
    BY <1>3 DEF Same
  <2>2. /\ tbl[u] = tbl[v] => ptr[u] = ptr[v]
        /\ ptr[u] = ptr[v] /\ tbl[u] # tbl[v] => off[ptr[u]] = FDs
    BY <2>1 DEF FDInv, Sharing
  <2>3. ptr[u] \in Threads
    BY <1>1
  <2> QED
    BY <1>5, <2>2, <2>3
<1>7. ForksShaped'
  <2> SUFFICES ASSUME NEW u \in Threads, Forking(u)'
               PROVE  /\ Child(u)' \in Threads /\ pc'[Child(u)'].at = "new"
                      /\ \A v \in Threads : Forking(v)' /\ Child(v)' = Child(u)' => v = u
                      /\ pc'[u].cx => tbl[Child(u)'] = tbl[u]
                      /\ ~pc'[u].cx => \A v \in Threads \ {Child(u)'} : pc'[v].at # "none" => tbl[v] # tbl[Child(u)']
                      /\ \A v \in Threads : Calling(v)' /\ tbl[v] = tbl[u] => pc'[v].foot \subseteq pc'[u].foot
    BY <1>1 DEF ForksShaped
  <2>1. u # t /\ Forking(u) /\ Child(u)' = Child(u)
    BY <1>3 DEF Same
  <2>2. /\ Child(u) \in Threads /\ pc[Child(u)].at = "new"
        /\ \A v \in Threads : Forking(v) /\ Child(v) = Child(u) => v = u
        /\ pc[u].cx => tbl[Child(u)] = tbl[u]
        /\ ~pc[u].cx => \A v \in Threads \ {Child(u)} : pc[v].at # "none" => tbl[v] # tbl[Child(u)]
        /\ \A v \in Threads : Calling(v) /\ tbl[v] = tbl[u] => pc[v].foot \subseteq pc[u].foot
    BY <2>1 DEF FDInv, ForksShaped
  <2>3. Child(u) # t /\ pc[t].at = "user" /\ pc'[Child(u)].at = "new" /\ pc'[u].cx = pc[u].cx
    BY <2>1, <2>2 DEF Begun
  <2>4. \A v \in Threads : pc'[v].at # "none" => pc[v].at # "none"
    BY <2>3 DEF Begun
  <2>5. \A v \in Threads : Forking(v)' /\ Child(v)' = Child(u) => v = u
    BY <1>3, <2>2 DEF Same
  <2>6. ASSUME NEW v \in Threads, Calling(v)', tbl[v] = tbl[u]
        PROVE  pc'[v].foot \subseteq pc'[u].foot
    <3>1. CASE v = t
      BY <2>1, <2>6, <3>1 DEF Begun
    <3>2. CASE v # t
      <4>1. Calling(v) /\ pc'[v].foot = pc[v].foot
        BY <1>3, <2>6, <3>2 DEF Same
      <4>2. pc[u].foot \subseteq pc'[u].foot
        BY <2>1 DEF Begun
      <4> QED
        BY <2>2, <2>6, <4>1, <4>2
    <3> QED
      BY <3>1, <3>2
  <2> QED
    BY <2>1, <2>2, <2>3, <2>4, <2>5, <2>6
<1>8. \A u \in Threads \ {t} : Hits(u, t, p) => pc[u].foot \cup p.foot \subseteq off'[ptr[t]]
  BY DEF Begun
<1>9. Overlap'
  <2> SUFFICES ASSUME NEW u \in Threads, NEW v \in Threads, u # v, Calling(u)', Calling(v)', tbl[u] = tbl[v],
                      pc'[u].foot \cap pc'[v].foot # {}
               PROVE  pc'[u].clash /\ pc'[u].foot \subseteq off'[ptr[u]]
    BY <1>1 DEF Overlap
  <2>1. CASE u = t
    <3>1. Calling(v) /\ pc'[v].foot = pc[v].foot /\ pc'[u].foot = p.foot
      BY <1>3, <2>1 DEF Same, Begun
    <3>2. Hits(v, t, p)
      BY <2>1, <3>1 DEF Hits, Calling
    <3> QED
      BY <1>8, <2>1, <3>1, <3>2 DEF Begun
  <2>2. CASE v = t
    <3>1. Calling(u) /\ pc'[u].foot = pc[u].foot /\ pc'[v].foot = p.foot
      BY <1>3, <2>2 DEF Same, Begun
    <3>2. Hits(u, t, p)
      BY <2>2, <3>1 DEF Hits, Calling
    <3>3. ptr[u] = ptr[t]
      BY <1>3, <2>2, <3>1 DEF FDInv, Sharing, Calling, Seen
    <3> QED
      BY <1>8, <2>2, <3>1, <3>2, <3>3 DEF Begun
  <2>3. CASE u # t /\ v # t
    <3>1. Calling(u) /\ pc'[u].foot = pc[u].foot /\ Calling(v) /\ pc'[v].foot = pc[v].foot
      BY <1>3, <2>3 DEF Same
    <3>2. pc[u].clash /\ pc[u].foot \subseteq off[ptr[u]]
      BY <3>1 DEF FDInv, Overlap
    <3>3. pc'[u].clash
      BY <2>3, <3>2 DEF Begun
    <3> QED
      BY <1>1, <1>5, <3>1, <3>2, <3>3
  <2> QED
    BY <2>1, <2>2, <2>3
<1>10. SourcesKept'
  <2> SUFFICES ASSUME NEW v \in Threads, Calling(v)', pc'[v].call \in Copies, pc'[v].src[1] \in off'[ptr[v]]
               PROVE  pc'[v].foot \subseteq off'[ptr[v]]
    BY <1>1 DEF SourcesKept
  <2> DEFINE s == pc'[v].src[1]
  <2>1. s \in pc'[v].foot
    BY <1>4 DEF CallsShaped, Shaped
  <2>2. \A x \in off'[ptr[t]] :
          \/ x \in off[ptr[t]] \/ x \in lost
          \/ x \in p.foot /\ p.foot \subseteq off'[ptr[t]]
          \/ \E u \in Threads \ {t} : Hits(u, t, p) /\ x \in pc[u].foot
    BY DEF Begun
  <2>3. CASE v = t
    <3>1. pc'[v].foot = p.foot /\ p.src[1] = s /\ p.src # << >> /\ s \notin lost
      BY <2>3 DEF Begun, Begins
    <3>2. s \in off[ptr[t]] => p.foot \subseteq off'[ptr[t]]
      BY <3>1 DEF Begun
    <3> HIDE DEF s
    <3> QED
      BY <1>8, <2>2, <2>3, <3>1, <3>2 DEF s
  <2>4. CASE v # t
    <3>1. Calling(v) /\ pc'[v].foot = pc[v].foot /\ pc[v].call \in Copies /\ pc[v].src[1] = s
      BY <1>3, <2>4 DEF Same, Begun
    <3>2. s \in off[ptr[v]] => pc[v].foot \subseteq off[ptr[v]]
      BY <3>1 DEF FDInv, SourcesKept
    <3>3. ptr[v] \in Threads /\ pc[v].foot \subseteq FDs
      BY <1>1 DEF FDInv, TypeInv, PCs
    <3>4. CASE s \in off[ptr[v]]
      BY <1>5, <3>1, <3>2, <3>3, <3>4
    <3>5. CASE ptr[v] # ptr[t]
      BY <3>1, <3>2, <3>3, <3>5 DEF Begun
    <3>6. CASE ptr[v] = ptr[t] /\ tbl[v] # tbl[t]
      <4>1. off[ptr[v]] = FDs
        BY <1>3, <3>1, <3>6 DEF FDInv, Sharing, Calling, Seen
      <4> QED
        BY <1>5, <3>1, <3>3, <4>1
    <3>7. CASE ptr[v] = ptr[t] /\ tbl[v] = tbl[t] /\ s \notin off[ptr[v]]
      <4>1. CASE s \in p.foot
        <5>1. Hits(v, t, p)
          BY <2>1, <3>1, <3>7, <4>1 DEF Hits, Calling
        <5> QED
          BY <1>8, <2>4, <3>1, <3>7, <5>1
      <4>2. CASE s \notin p.foot
        <5>1. lost \subseteq p.foot
          BY DEF Begun, Begins
        <5>2. PICK u \in Threads \ {t} : Hits(u, t, p) /\ s \in pc[u].foot
          BY <2>2, <3>7, <4>2, <5>1
        <5>3. pc[u].at = "done" /\ tbl[u] = tbl[t]
          BY <5>2 DEF Hits
        <5>4. CASE u = v
          BY <1>8, <3>1, <3>7, <5>2, <5>4
        <5>5. CASE u # v /\ Calling(u)
          <6>1. s \in pc[v].foot \cap pc[u].foot
            BY <2>1, <3>1, <5>2
          <6>2. pc[v].foot \subseteq off[ptr[v]]
            BY <3>1, <3>7, <5>3, <5>5, <6>1 DEF FDInv, Overlap
          <6> QED
            BY <1>5, <3>1, <3>3, <6>2
        <5>6. CASE Forking(u)
          <6>1. pc[v].foot \subseteq pc[u].foot
            BY <3>1, <3>7, <5>3, <5>6 DEF FDInv, ForksShaped
          <6> QED
            BY <1>8, <3>1, <3>7, <5>2, <6>1
        <5>7. CASE Execing(u)
          <6>1. tbl[v] # tbl[u]
            BY <3>1, <5>4, <5>7 DEF FDInv, ExecsAgree, Calling, Execing
          <6> QED
            BY <3>7, <5>3, <6>1
        <5> QED
          BY <5>3, <5>4, <5>5, <5>6, <5>7 DEF Calling, Forking, Execing
      <4> QED
        BY <4>1, <4>2
    <3> QED
      BY <3>4, <3>5, <3>6, <3>7
  <2> QED
    BY <2>3, <2>4
<1>11. Processes'
  <2>1. \A u \in Threads : pc'[u].at # "none" => pc[u].at # "none"
    BY DEF Begun
  <2>2. \A u \in Threads : /\ Seen(u)' => Seen(u)
                           /\ Forking(u)' => Forking(u) /\ Child(u)' = Child(u) /\ pc'[u].cx = pc[u].cx
    BY <1>3 DEF Same, Begun
  <2> QED
    BY <1>1, <2>1, <2>2 DEF FDInv, Processes
<1> QED
  BY <1>2, <1>4, <1>6, <1>7, <1>9, <1>10, <1>11

\* The second half
LEMMA BegunAgrees ==
  ASSUME FDInv, NEW t \in Threads, NEW p \in PCs, NEW T2 \in Tables, NEW lost \in SUBSET FDs,
         Begun(t, p, T2, lost)
  PROVE  MapsAgree' /\ CallsAgree' /\ ExecsAgree' /\ ForksAgree'
<1>1. /\ tbl' = tbl /\ ptr' = ptr /\ map' = map
      /\ file' \in [Threads -> Tables] /\ off' \in [Threads -> SUBSET FDs]
      /\ tbl \in [Threads -> Threads] /\ ptr \in [Threads -> Threads] /\ off \in [Threads -> SUBSET FDs]
      /\ map \in [Threads -> Maps] /\ file \in [Threads -> Tables] /\ pc \in [Threads -> PCs]
      /\ tbl[t] \in Threads /\ ptr[t] \in Threads
  BY DEF Begun, FDInv, TypeInv
<1> DEFINE Same(u) == /\ Calling(u)' <=> Calling(u)
                      /\ Forking(u)' <=> Forking(u)
                      /\ Execing(u)' <=> Execing(u)
                      /\ Seen(u)' <=> Seen(u)
                      /\ Calling(u) => pc'[u].foot = pc[u].foot
                      /\ Child(u)' = Child(u)
<1>2. /\ Calling(t)' /\ ~Forking(t)' /\ ~Execing(t)' /\ Seen(t)'
      /\ ~Calling(t) /\ ~Forking(t) /\ ~Execing(t) /\ Seen(t)
      /\ \A u \in Threads \ {t} : Same(u)
  BY BegunWho
<1> HIDE DEF Same
<1>3. \A i \in Threads : off[i] \subseteq off'[i] /\ off'[i] \subseteq FDs
  BY <1>1 DEF Begun
<1>4. /\ file'[tbl[t]] = T2 /\ \A i \in Threads \ {tbl[t]} : file'[i] = file[i]
      /\ \A fd \in FDs \ p.foot : T2[fd] = Table(t)[fd]
      /\ p.foot \subseteq FDs /\ Shaped(p) /\ lost \subseteq p.foot /\ pc'[t].foot = p.foot
  BY DEF Begun, Begins, PCs
<1>5. \A u \in Threads : ptr[u] \in Threads /\ tbl[u] \in Threads
  BY <1>1
<1>6. MapAgrees(t) /\ pc[t].at = "user"
  BY <1>2 DEF FDInv, MapsAgree, Fresh, Begun
<1>7. ASSUME NEW v \in Threads, NEW fd, Under(v, fd)
      PROVE  Under(v, fd)'
  <2>1. PICK u \in Threads : Calling(u) /\ tbl[u] = tbl[v] /\ fd \in pc[u].foot
    BY <1>7 DEF Under
  <2>2. u # t
    BY <1>2, <2>1
  <2>3. Calling(u)' /\ fd \in pc'[u].foot
    BY <1>2, <2>1, <2>2 DEF Same
  <2> QED
    BY <1>1, <2>1, <2>3 DEF Under
<1>8. MapsAgree'
  <2> SUFFICES ASSUME NEW v \in Threads, Seen(v)', ~Execing(v)'
               PROVE  MapAgrees(v)' \/ Fresh(v)'
    BY DEF MapsAgree
  <2>1. Seen(v) /\ ~Execing(v)
    BY <1>2 DEF Same
  <2>2. ASSUME MapAgrees(v), tbl[v] = tbl[t] => ptr[v] = ptr[t] PROVE MapAgrees(v)'
    <3> SUFFICES ASSUME NEW fd \in FDs \ off'[ptr[v]]
                 PROVE  Under(v, fd)' \/ Agrees(map[ptr[v]][fd], file'[tbl[v]][fd])
      BY <1>1 DEF MapAgrees, Table
    <3>1. fd \notin off[ptr[v]]
      BY <1>3, <1>5
    <3>2. Under(v, fd) \/ Agrees(map[ptr[v]][fd], file[tbl[v]][fd])
      BY <2>2, <3>1 DEF MapAgrees, Table
    <3>3. CASE tbl[v] = tbl[t] /\ fd \in p.foot
      BY <1>1, <1>2, <1>4, <3>3 DEF Under
    <3>4. CASE ~(tbl[v] = tbl[t] /\ fd \in p.foot)
      <4>1. file'[tbl[v]][fd] = file[tbl[v]][fd]
        BY <1>4, <1>5, <3>4 DEF Table
      <4> QED
        BY <1>7, <3>2, <4>1
    <3> QED
      BY <3>3, <3>4
  <2>3. tbl[v] = tbl[t] => ptr[v] = ptr[t]
    BY <1>2, <2>1 DEF FDInv, Sharing
  <2>4. CASE MapAgrees(v)
    BY <2>2, <2>3, <2>4
  <2>5. CASE Fresh(v)
    <3>1. v # t
      BY <1>6, <2>5 DEF Fresh
    <3>2. pc'[v].at = "known"
      BY <2>5, <3>1 DEF Fresh, Begun
    <3>3. \A u \in Threads : Seen(u)' => Seen(u)
      BY <1>2 DEF Same
    <3> QED
      BY <1>1, <2>5, <3>2, <3>3 DEF Fresh
  <2> QED
    BY <2>1, <2>4, <2>5 DEF FDInv, MapsAgree
<1>9. CallsAgree'
  <2> SUFFICES ASSUME NEW v \in Threads, Calling(v)'
               PROVE  /\ \A fd \in pc'[v].foot \ off'[ptr[v]] :
                            Agrees(Entry(pc'[v], map[ptr[v]], file'[tbl[v]], fd), file'[tbl[v]][fd])
                      /\ ~pc'[v].clash => /\ pc'[v].call = "close" => file'[tbl[v]][pc'[v].src[1]] = None
                                          /\ Due(pc'[v], map[ptr[v]], file'[tbl[v]]) \subseteq off'[ptr[v]]
    BY <1>1 DEF CallsAgree, CallAgrees, Table
  <2> DEFINE m == map[ptr[v]]
             T == file[tbl[v]]
             T3 == file'[tbl[v]]
  <2>1. m \in Maps /\ T \in Tables /\ T3 \in Tables
    BY <1>1, <1>5
  <2>2. CASE v = t
    <3>1. /\ pc'[v].call = p.call /\ pc'[v].src = p.src /\ pc'[v].foot = p.foot
          /\ \A fd : Entry(pc'[v], m, T3, fd) = Entry(p, m, T3, fd)
          /\ Due(pc'[v], m, T3) = Due(p, m, T3)
      <4>1. /\ pc'[v].call = p.call /\ pc'[v].src = p.src /\ pc'[v].new = p.new
            /\ pc'[v].cx = p.cx /\ pc'[v].foot = p.foot
        BY <2>2 DEF Begun
      <4> QED
        BY <4>1, SameCall
    <3>2. T3 = T2 /\ T = Table(t)
      BY <1>4, <2>2 DEF Table
    <3>3. ASSUME \A u \in Threads \ {t} : ~Hits(u, t, p), NEW fd \in p.foot \ off[ptr[t]]
          PROVE  Agrees(m[fd], T[fd])
      <4>1. ~Under(t, fd)
        BY <1>2, <3>3 DEF Under, Hits, Calling
      <4> QED
        BY <1>4, <1>6, <2>2, <3>3, <4>1 DEF MapAgrees, Table
    <3>4. ASSUME NEW fd \in p.foot \ off'[ptr[t]]
          PROVE  Agrees(Entry(p, m, T3, fd), T3[fd])
      <4>1. \A u \in Threads \ {t} : ~Hits(u, t, p)
        BY <3>4 DEF Begun
      <4>2. fd \notin off[ptr[t]] /\ fd \notin lost
        BY <1>1, <1>3, <3>4 DEF Begun
      <4>3. p.call \in Copies => p.src[1] \in p.foot \ off[ptr[t]]
        BY <1>4, <3>4 DEF Begun, Begins, Shaped
      <4>4. Agrees(m[fd], T[fd]) /\ (p.call \in Copies => Agrees(m[p.src[1]], T[p.src[1]]))
        BY <3>3, <4>1, <4>2, <4>3
      <4>5. Begins(p, T, T2, lost)
        BY <3>2 DEF Begun
      <4> HIDE DEF m, T, T3
      <4> QED
        BY <2>1, <3>2, <4>2, <4>4, <4>5 DEF Begins
    <3>5. ASSUME ~pc'[v].clash
          PROVE  /\ p.call = "close" => T3[p.src[1]] = None
                 /\ Due(p, m, T3) \subseteq off'[ptr[t]]
      <4>1. \A u \in Threads \ {t} : ~Hits(u, t, p)
        BY <2>2, <3>5 DEF Begun
      <4>2. Begins(p, T, T2, lost)
        BY <3>2 DEF Begun
      <4>3. \A fd \in Due(p, m, T2) : fd \in lost \/ fd \in off[ptr[t]]
        <5> HIDE DEF m, T, T3
        <5> QED BY <2>1, <3>3, <4>1, <4>2 DEF Begins
      <4>4. lost \subseteq off'[ptr[t]] /\ off[ptr[t]] \subseteq off'[ptr[t]]
        BY <1>1, <1>3 DEF Begun
      <4>5. p.call = "close" => T2[p.src[1]] = None
        BY <4>2 DEF Begins
      <4> HIDE DEF m, T, T3
      <4> QED
        BY <3>2, <4>3, <4>4, <4>5
    <3> HIDE DEF m, T, T3
    <3> QED
      BY <2>2, <3>1, <3>4, <3>5 DEF m, T3
  <2>3. CASE v # t
    <3>1. Calling(v) /\ pc'[v].foot = pc[v].foot
      BY <1>2, <2>3 DEF Same
    <3>2. /\ pc'[v].call = pc[v].call /\ pc'[v].src = pc[v].src
          /\ \A fd : Entry(pc'[v], m, T3, fd) = Entry(pc[v], m, T3, fd)
          /\ Due(pc'[v], m, T3) = Due(pc[v], m, T3)
      <4>1. /\ pc'[v].call = pc[v].call /\ pc'[v].src = pc[v].src /\ pc'[v].new = pc[v].new
            /\ pc'[v].cx = pc[v].cx
        BY <2>3 DEF Begun
      <4> QED
        BY <3>1, <4>1, SameCall
    <3>3. /\ \A fd \in pc[v].foot \ off[ptr[v]] : Agrees(Entry(pc[v], m, T, fd), T[fd])
          /\ ~pc[v].clash => /\ pc[v].call = "close" => T[pc[v].src[1]] = None
                             /\ Due(pc[v], m, T) \subseteq off[ptr[v]]
      BY <3>1 DEF FDInv, CallsAgree, CallAgrees, Table
    <3>4. off[ptr[v]] \subseteq off'[ptr[v]] /\ (~pc'[v].clash => ~pc[v].clash /\ ~Hits(v, t, p))
      BY <1>3, <1>5, <2>3 DEF Begun
    <3>5. Shaped(pc[v]) /\ pc[v] \in PCs /\ pc[v].foot \subseteq FDs
      BY <1>1, <3>1 DEF FDInv, CallsShaped, PCs
    <3>6. CASE Hits(v, t, p)
      <4>1. ptr[v] = ptr[t]
        BY <1>2, <3>1, <3>6 DEF FDInv, Sharing, Calling, Seen, Hits
      <4>2. pc[v].foot \subseteq off'[ptr[v]]
        BY <2>3, <3>6, <4>1 DEF Begun
      <4> QED
        BY <3>1, <3>4, <3>6, <4>2
    <3>7. CASE ~Hits(v, t, p)
      <4>1. \A fd \in pc[v].foot : T3[fd] = T[fd]
        <5>1. CASE tbl[v] = tbl[t]
          <6>1. pc[v].foot \cap p.foot = {}
            BY <3>1, <3>7, <5>1 DEF Hits, Calling
          <6> QED
            BY <1>4, <3>5, <5>1, <6>1 DEF Table
        <5>2. CASE tbl[v] # tbl[t]
          BY <1>4, <1>5, <5>2
        <5> QED
          BY <5>1, <5>2
      <4> HIDE DEF m, T, T3
      <4>2. \A fd \in pc[v].foot : Entry(pc[v], m, T3, fd) = Entry(pc[v], m, T, fd)
        BY <2>1, <3>5, <4>1, EntryLocal
      <4>3. pc[v].call = "close" => pc[v].src[1] \in pc[v].foot
        BY <3>5 DEF Shaped
      <4>4. Due(pc[v], m, T3) = Due(pc[v], m, T)
        <5>1. pc[v].call \notin {"fork", "execve", "none"}
          BY <3>1 DEF FDInv, CallsShaped, Calling
        <5>2. \A fd \in pc[v].foot : m[fd] = m[fd] /\ T3[fd] = T[fd]
          BY <4>1
        <5> QED
          BY <3>5, <5>1, <5>2, WarningsLocal
      <4> QED
        BY <3>1, <3>2, <3>3, <3>4, <4>1, <4>2, <4>3, <4>4 DEF m, T3
    <3> QED
      BY <3>6, <3>7
  <2> QED
    BY <2>2, <2>3
<1>10. ExecsAgree'
  <2> SUFFICES ASSUME NEW v \in Threads, Execing(v)'
               PROVE  /\ \A u \in Threads \ {v} : pc'[u].at # "none" => tbl[u] # tbl[v]
                      /\ \A fd \in FDs \ off'[ptr[v]] :
                            \/ Agrees(map[ptr[v]][fd], file'[tbl[v]][fd])
                            \/ map[ptr[v]][fd] # NoInfo /\ file'[tbl[v]][fd] = None
    BY <1>1 DEF ExecsAgree, Table
  <2>1. Execing(v) /\ v # t
    BY <1>2 DEF Same
  <2>2. \A u \in Threads : pc'[u].at # "none" => pc[u].at # "none"
    BY <1>6 DEF Begun
  <2>3. \A u \in Threads \ {v} : pc[u].at # "none" => tbl[u] # tbl[v]
    BY <2>1 DEF FDInv, ExecsAgree
  <2>4. tbl[t] # tbl[v]
    BY <1>6, <2>1, <2>3
  <2>5. file'[tbl[v]] = file[tbl[v]] /\ off[ptr[v]] \subseteq off'[ptr[v]]
    BY <1>3, <1>4, <1>5, <2>4
  <2>6. \A fd \in FDs \ off[ptr[v]] :
           \/ Agrees(map[ptr[v]][fd], file[tbl[v]][fd])
           \/ map[ptr[v]][fd] # NoInfo /\ file[tbl[v]][fd] = None
    BY <2>1 DEF FDInv, ExecsAgree, Table
  <2> QED
    BY <2>2, <2>3, <2>5, <2>6
<1>11. ForksAgree'
  <2> SUFFICES ASSUME NEW v \in Threads, Forking(v)', ~pc'[v].cx
               PROVE  \A fd \in FDs \ (off'[ptr[v]] \cup pc'[v].foot) :
                          Agrees(map[ptr[v]][fd], file'[tbl[Child(v)']][fd])
    BY <1>1 DEF ForksAgree
  <2>1. Forking(v) /\ v # t /\ Child(v)' = Child(v)
    BY <1>2 DEF Same
  <2>2. ~pc[v].cx /\ pc[v].foot \subseteq pc'[v].foot
    BY <2>1 DEF Begun
  <2>3. Child(v) \in Threads /\ pc[Child(v)].at = "new"
        /\ \A u \in Threads \ {Child(v)} : pc[u].at # "none" => tbl[u] # tbl[Child(v)]
    BY <2>1, <2>2 DEF FDInv, ForksShaped
  <2>4. tbl[t] # tbl[Child(v)]
    BY <1>6, <2>3
  <2>5. file'[tbl[Child(v)]] = file[tbl[Child(v)]] /\ off[ptr[v]] \subseteq off'[ptr[v]]
    BY <1>3, <1>4, <1>5, <2>3, <2>4
  <2>6. \A fd \in FDs \ (off[ptr[v]] \cup pc[v].foot) : Agrees(map[ptr[v]][fd], file[tbl[Child(v)]][fd])
    BY <2>1, <2>2 DEF FDInv, ForksAgree
  <2> QED
    BY <2>1, <2>2, <2>5, <2>6
<1> QED
  BY <1>8, <1>9, <1>10, <1>11

\* A call begins.
LEMMA EntersInv ==
  ASSUME FDInv, NEW t \in Threads, Enters(t)
  PROVE  FDInv'
<1>1. TypeInv /\ Table(t) \in Tables
  BY DEF FDInv, TypeInv, Table
<1>2. PICK p \in PCs, T2 \in Tables, lost \in SUBSET FDs : Begun(t, p, T2, lost)
  BY <1>1, EntersStarts, StartsBegun
<1> QED
  BY <1>2, BegunShape, BegunAgrees DEF FDInv

(* New threads *)

\* As long as one thread is not there, a number is left.
LEMMA UnusedExists ==
  ASSUME NEW S \in SUBSET Threads, NEW x \in Threads \ S, NEW f \in [Threads -> Threads]
  PROVE  Unused({f[u] : u \in S}) \in Threads /\ \A u \in S : f[u] # Unused({f[u2] : u2 \in S})
<1> DEFINE I == {f[u] : u \in S}
           g == [u \in S |-> f[u]]
<1>1. IsFiniteSet(Threads)
  BY ThreadsAssumption
<1>2. IsFiniteSet(S) /\ Cardinality(S) < Cardinality(Threads)
  <2>1. IsFiniteSet(S) /\ Cardinality(S) <= Cardinality(Threads) /\ Cardinality(S) # Cardinality(Threads)
    BY <1>1, FS_Subset
  <2>2. Cardinality(S) \in Nat /\ Cardinality(Threads) \in Nat
    BY <1>1, <2>1, FS_CardinalityType
  <2> QED
    BY <2>1, <2>2
<1>3. g \in Surjection(S, I)
  BY DEF Surjection
<1> HIDE DEF g, I
<1>4. IsFiniteSet(I) /\ Cardinality(I) <= Cardinality(S)
  BY <1>2, <1>3, FS_Surjection
<1>5. I # Threads
  BY <1>1, <1>2, <1>4, FS_CardinalityType
<1>6. \E i \in Threads : i \notin I
  BY <1>5 DEF I
<1>7. Unused(I) \in Threads /\ Unused(I) \notin I
  BY <1>6 DEF Unused
<1> QED
  BY <1>7 DEF I

\* The record of a thread that is in no call
LEMMA IdleNone ==
  ASSUME NEW at \in {"none", "new", "known", "user", "done"}
  PROVE  Idle(at) \in PCs /\ Idle(at).at = at /\ Idle(at).call = "none" /\ Idle(at).foot = {}
<1> DEFINE e == << >>
           no == FALSE
           name == "none"
           done == "done"
           r == Done(name, e, e, no)
           E == {e[k] : k \in DOMAIN e} \cup (IF e = << >> THEN {} ELSE {e[1]})
<1>1. E = {} /\ E \in SUBSET FDs
  OBVIOUS
<1>2. r = [at |-> done, call |-> name, src |-> e, new |-> e, cx |-> no, foot |-> E, clash |-> no]
  BY DEF Done
<1>3. Idle(at) = [r EXCEPT !.at = at]
  BY DEF Idle
<1>4. e \in Srcs /\ e \in News /\ no \in BOOLEAN /\ done \in {"none", "new", "known", "user", "done"}
      /\ name \in DOMAIN Tracked \cup OtherCalls
  BY DEF Srcs, News, OtherCalls
<1> HIDE DEF e, no, name, done, r, E
<1>5. [at |-> done, call |-> name, src |-> e, new |-> e, cx |-> no, foot |-> E, clash |-> no] \in PCs
  BY <1>1, <1>4, PCRecord, Zenon
<1>6. r \in PCs
  BY <1>2, <1>5, Zenon
<1>7. r.call = name /\ r.foot = E
  BY <1>2
<1>8. Idle(at) \in PCs /\ Idle(at).at = at /\ Idle(at).call = r.call /\ Idle(at).foot = r.foot
  BY <1>3, <1>6 DEF PCs
<1> QED
  BY <1>1, <1>7, <1>8 DEF name

\* ... and whose last call is remembered
LEMMA IdleForm ==
  ASSUME NEW at \in {"none", "new", "known", "user", "done"}, NEW c \in DOMAIN Tracked \cup OtherCalls,
         NEW p, p = [Idle(at) EXCEPT !.call = c]
  PROVE  p \in PCs /\ p.at = at /\ p.call = c /\ p.foot = {}
<1> DEFINE r == Idle(at)
<1>1. r \in PCs /\ r.at = at /\ r.foot = {}
  BY IdleNone
<1> HIDE DEF r
<1>2. p = [r EXCEPT !.call = c]
  BY DEF r
<1> QED
  BY <1>1, <1>2 DEF PCs

\* ... and of one that is in a call without descriptors
LEMMA DoneNone ==
  ASSUME NEW name \in OtherCalls, NEW cx \in BOOLEAN, NEW r, r = Done(name, << >>, << >>, cx)
  PROVE  r \in PCs /\ r.at = "done" /\ r.call = name /\ r.cx = cx /\ r.foot = {}
<1> DEFINE e == << >>
           no == FALSE
           done == "done"
           E == {e[k] : k \in DOMAIN e} \cup (IF e = << >> THEN {} ELSE {e[1]})
<1>1. E \in SUBSET FDs /\ E = {}
  OBVIOUS
<1>2. r = [at |-> done, call |-> name, src |-> e, new |-> e, cx |-> cx, foot |-> E, clash |-> no]
  BY DEF Done
<1>3. e \in Srcs /\ e \in News /\ no \in BOOLEAN /\ done \in {"none", "new", "known", "user", "done"}
      /\ name \in DOMAIN Tracked \cup OtherCalls
  BY DEF Srcs, News
<1> HIDE DEF e, no, done, E
<1>4. [at |-> done, call |-> name, src |-> e, new |-> e, cx |-> cx, foot |-> E, clash |-> no] \in PCs
  BY <1>1, <1>3, PCRecord, ZenonT(40)
<1>5. r \in PCs
  BY <1>2, <1>4, Zenon
<1>6. r.call = name /\ r.at = done /\ r.cx = cx /\ r.foot = E
  BY <1>2
<1> QED
  BY <1>1, <1>5, <1>6 DEF done

\* clone() and fork()
Forked(t, c, files) ==
    /\ pc[t].at = "user" /\ pc[c].at = "none" /\ c # t
    /\ pc' \in [Threads -> PCs] /\ tbl' \in [Threads -> Threads] /\ proc' \in [Threads -> Threads]
    /\ file' \in [Threads -> Tables]
    /\ pc'[t].at = "done" /\ pc'[t].call = "fork" /\ pc'[t].cx = files /\ pc'[t].src[1] = c
    /\ \A u \in Threads : u # t /\ Calling(u) /\ tbl[u] = tbl[t] => pc[u].foot \subseteq pc'[t].foot
    /\ pc'[c].at = "new" /\ pc'[c].foot = {}
    /\ \A u \in Threads \ {t, c} : pc'[u] = pc[u]
    /\ \A u \in Threads \ {c} : tbl'[u] = tbl[u]
    /\ files => tbl'[c] = tbl[t]
    /\ ~files => file'[tbl'[c]] = Table(t) /\ \A u \in Threads : pc[u].at # "none" => tbl[u] # tbl'[c]
    /\ \A u \in Threads : pc[u].at # "none" => file'[tbl[u]] = file[tbl[u]]
    /\ \A u \in Threads \ {c} : proc'[u] = proc[u]
    /\ \A u \in Threads : pc[u].at # "none" /\ proc[u] = proc'[c] => files /\ proc[u] = proc[t]
    /\ ptr' = ptr /\ map' = map /\ off' = off

\* What Fork() does
LEMMA ForkFacts ==
  ASSUME TypeInv, NEW t \in Threads, Fork(t)
  PROVE  \E c \in Threads, files \in BOOLEAN : Forked(t, c, files)
<1>1. /\ pc \in [Threads -> PCs] /\ tbl \in [Threads -> Threads] /\ proc \in [Threads -> Threads]
      /\ file \in [Threads -> Tables]
  BY DEF TypeInv
<1> DEFINE copy == Unused({tbl[u] : u \in Alive})
           F == UNION {pc[u].foot : u \in Others(t)}
<1>2. PICK c \in Threads \ Alive, files \in BOOLEAN, thread \in BOOLEAN :
          /\ pc[t].at = "user" /\ (thread => files)
          /\ pc' = [pc EXCEPT ![t] = [Done("fork", << >>, << >>, files) EXCEPT !.foot = F, !.src = <<c>>],
                              ![c] = Idle("new")]
          /\ proc' = [proc EXCEPT ![c] = IF thread THEN proc[t] ELSE Unused({proc[u] : u \in Alive})]
          /\ tbl' = [tbl EXCEPT ![c] = IF files THEN tbl[t] ELSE copy]
          /\ file' = IF files THEN file ELSE [file EXCEPT ![copy] = Table(t)]
  BY DEF Fork, Running
<1>3. Alive \in SUBSET Threads /\ \A u \in Threads : u \in Alive <=> pc[u].at # "none"
  BY DEF Alive
<1>4. copy \in Threads /\ \A u \in Alive : tbl[u] # copy
  BY <1>1, <1>2, <1>3, UnusedExists
<1>5. Unused({proc[u] : u \in Alive}) \in Threads /\ \A u \in Alive : proc[u] # Unused({proc[u2] : u2 \in Alive})
  BY <1>1, <1>2, <1>3, UnusedExists
<1>6. F \in SUBSET FDs /\ \A u \in Threads : u # t /\ Calling(u) /\ tbl[u] = tbl[t] => pc[u].foot \subseteq F
  <2>1. \A u \in Threads : u \in Others(t) <=> u # t /\ pc[u].at = "done" /\ tbl[u] = tbl[t]
    BY DEF Others, Alive
  <2>2. Others(t) \subseteq Threads /\ \A u \in Threads : pc[u].foot \subseteq FDs
    BY <1>1 DEF Others, Alive, PCs
  <2> QED
    BY <2>1, <2>2 DEF Calling
<1> DEFINE p == [Done("fork", << >>, << >>, files) EXCEPT !.foot = F, !.src = <<c>>]
<1> HIDE DEF F, copy
<1>7. p \in PCs /\ p.at = "done" /\ p.call = "fork" /\ p.foot = F /\ p.cx = files /\ p.src[1] = c
  <2> DEFINE r == Done("fork", << >>, << >>, files)
             d == <<c>>
  <2>1. r \in PCs /\ r.at = "done" /\ r.call = "fork" /\ r.cx = files
    <3>1. "fork" \in OtherCalls
      BY DEF OtherCalls
    <3> QED
      BY <3>1, DoneNone
  <2>2. d \in Srcs /\ d[1] = c
    BY <1>2 DEF Srcs
  <2>3. p = [r EXCEPT !.foot = F, !.src = d]
    OBVIOUS
  <2> HIDE DEF r, d, p
  <2>4. p \in PCs /\ p.at = r.at /\ p.call = r.call /\ p.foot = F /\ p.cx = r.cx /\ p.src = d
    BY <1>6, <2>1, <2>2, <2>3 DEF PCs
  <2> QED
    BY <2>1, <2>2, <2>4
<1>8. Idle("new") \in PCs /\ Idle("new").at = "new" /\ Idle("new").foot = {}
  BY IdleNone
<1>9. c # t /\ pc[c].at = "none" /\ c \in Threads
  BY <1>2, <1>3
<1>10. pc' = [pc EXCEPT ![t] = p, ![c] = Idle("new")]
  BY <1>2
<1> HIDE DEF p
<1>11. pc' \in [Threads -> PCs] /\ pc'[t] = p /\ pc'[c] = Idle("new") /\ \A u \in Threads \ {t, c} : pc'[u] = pc[u]
  BY <1>1, <1>7, <1>8, <1>9, <1>10
<1>12. /\ tbl' \in [Threads -> Threads] /\ proc' \in [Threads -> Threads] /\ file' \in [Threads -> Tables]
       /\ tbl'[c] = IF files THEN tbl[t] ELSE copy
       /\ \A u \in Threads \ {c} : tbl'[u] = tbl[u]
  <2>1. Table(t) \in Tables /\ tbl[t] \in Threads /\ proc[t] \in Threads
    BY <1>1 DEF Table
  <2> QED
    BY <1>1, <1>2, <1>4, <1>5, <1>9, <2>1
<1>13. ~files => file'[copy] = Table(t)
  BY <1>1, <1>2, <1>4
<1>14. \A u \in Threads : pc[u].at # "none" => file'[tbl[u]] = file[tbl[u]]
  BY <1>1, <1>2, <1>3, <1>4
<1>15. ptr' = ptr /\ map' = map /\ off' = off
  BY DEF Fork
<1>16. /\ \A u \in Threads \ {c} : proc'[u] = proc[u]
       /\ \A u \in Threads : pc[u].at # "none" /\ proc[u] = proc'[c] => files /\ proc[u] = proc[t]
  <2> DEFINE id == Unused({proc[u] : u \in Alive})
  <2>1. id \in Threads /\ \A u \in Alive : proc[u] # id
    BY <1>5
  <2>2. proc' = [proc EXCEPT ![c] = IF thread THEN proc[t] ELSE id]
    BY <1>2
  <2> HIDE DEF id
  <2>3. \A u \in Threads \ {c} : proc'[u] = proc[u]
    BY <1>1, <2>2
  <2>4. proc'[c] = IF thread THEN proc[t] ELSE id
    BY <1>1, <1>9, <2>2
  <2>5. pc[t].at # "none" /\ (thread => files)
    BY <1>2
  <2> QED
    BY <1>3, <2>1, <2>3, <2>4, <2>5
<1>17. Forked(t, c, files)
  BY <1>2, <1>3, <1>4, <1>6, <1>7, <1>8, <1>9, <1>11, <1>12, <1>13, <1>14, <1>15, <1>16, ZenonT(40) DEF Forked
<1> QED
  BY <1>9, <1>17

\* A thread is created.
LEMMA ForkInv ==
  ASSUME FDInv, NEW t \in Threads, Fork(t)
  PROVE  FDInv'
<1>1. PICK c \in Threads, files \in BOOLEAN : Forked(t, c, files)
  BY ForkFacts DEF FDInv
<1>2. /\ ptr' = ptr /\ map' = map /\ off' = off
      /\ tbl \in [Threads -> Threads] /\ ptr \in [Threads -> Threads] /\ off \in [Threads -> SUBSET FDs]
      /\ map \in [Threads -> Maps] /\ file \in [Threads -> Tables] /\ pc \in [Threads -> PCs]
  BY <1>1 DEF Forked, FDInv, TypeInv
<1>3. TypeInv'
  BY <1>1, <1>2 DEF Forked, TypeInv
<1>4. pc[t].at = "user" /\ pc[c].at = "none" /\ c # t
  BY <1>1 DEF Forked
<1>5. /\ ~Calling(t)' /\ Forking(t)' /\ ~Execing(t)' /\ Seen(t)' /\ Child(t)' = c
      /\ ~Calling(t) /\ ~Forking(t) /\ ~Execing(t) /\ Seen(t)
      /\ ~Calling(c)' /\ ~Forking(c)' /\ ~Execing(c)' /\ ~Seen(c)'
      /\ ~Calling(c) /\ ~Forking(c) /\ ~Execing(c) /\ ~Seen(c)
  BY <1>1 DEF Forked, Calling, Forking, Execing, Seen, Child
<1>6. ASSUME NEW u \in Threads \ {t, c}
      PROVE  /\ pc'[u] = pc[u]
             /\ Calling(u)' = Calling(u) /\ Forking(u)' = Forking(u) /\ Execing(u)' = Execing(u)
             /\ Seen(u)' = Seen(u) /\ Child(u)' = Child(u)
  BY <1>1 DEF Forked, Calling, Forking, Execing, Seen, Child
<1>7. \A u \in Threads : (Calling(u)' <=> Calling(u)) /\ (Execing(u)' <=> Execing(u)) /\ (Seen(u)' <=> Seen(u))
  BY <1>5, <1>6
<1>8. ASSUME NEW u \in Threads, pc[u].at # "none"
      PROVE  u # c /\ tbl'[u] = tbl[u] /\ file'[tbl[u]] = file[tbl[u]] /\ Table(u)' = Table(u)
  BY <1>1, <1>8 DEF Forked, Table
<1>9. \A u \in Threads : (Calling(u) \/ Execing(u) \/ Seen(u) \/ Forking(u)) => pc[u].at # "none"
  BY DEF Calling, Execing, Seen, Forking
<1>10. \A u \in Threads : Calling(u) => pc'[u] = pc[u]
  BY <1>5, <1>6
<1>11. \A u \in Threads, fd \in FDs : Seen(u) => (Under(u, fd)' <=> Under(u, fd))
  <2> SUFFICES ASSUME NEW u \in Threads, NEW fd \in FDs, Seen(u)
               PROVE  Under(u, fd)' <=> Under(u, fd)
    OBVIOUS
  <2>1. \A v \in Threads : Calling(v)' /\ tbl'[v] = tbl'[u] /\ fd \in pc'[v].foot
                             <=> Calling(v) /\ tbl[v] = tbl[u] /\ fd \in pc[v].foot
    BY <1>7, <1>8, <1>9, <1>10
  <2> QED
    BY <2>1 DEF Under
<1>12. MapAgrees(t)
  BY <1>4, <1>5 DEF FDInv, MapsAgree, Fresh
<1>13. CallsShaped'
  <2> SUFFICES ASSUME NEW u \in Threads
               PROVE  /\ Calling(u)' => Shaped(pc'[u]) /\ pc'[u].call # "none"
                      /\ ~Calling(u)' /\ ~Forking(u)' => pc'[u].foot = {}
    BY DEF CallsShaped
  <2>1. pc'[c].foot = {}
    BY <1>1 DEF Forked
  <2>2. /\ Calling(u) => Shaped(pc[u]) /\ pc[u].call # "none"
        /\ ~Calling(u) /\ ~Forking(u) => pc[u].foot = {}
    BY DEF FDInv, CallsShaped
  <2> QED
    BY <1>5, <1>6, <1>7, <1>10, <2>1, <2>2
<1>22. Processes'
  <2>1. \A w \in Threads \ {c} : (pc'[w].at # "none" => pc[w].at # "none") /\ proc'[w] = proc[w]
    BY <1>1, <1>4 DEF Forked
  <2>2. \A w \in Threads : pc[w].at # "none" /\ proc[w] = proc'[c] => files /\ proc[w] = proc[t]
    BY <1>1 DEF Forked
  <2>3. \A u, v \in Threads : Seen(u)' /\ Seen(v)' /\ proc'[u] = proc'[v] => ptr[u] = ptr[v]
    BY <1>5, <1>7, <2>1 DEF FDInv, Processes
  <2>4. ASSUME NEW u \in Threads, Forking(u)', NEW v \in Threads \ {Child(u)'},
               pc'[v].at # "none", proc'[v] = proc'[Child(u)']
        PROVE  pc'[u].cx /\ proc'[v] = proc'[u]
    <3>1. CASE u = t
      BY <1>1, <1>4, <1>5, <2>1, <2>2, <2>4, <3>1 DEF Forked
    <3>2. CASE u # t
      <4>1. Forking(u) /\ Child(u)' = Child(u) /\ pc'[u] = pc[u] /\ u # c
        BY <1>5, <1>6, <2>4, <3>2
      <4>2. Child(u) \in Threads \ {c, t} /\ pc[Child(u)].at = "new"
        BY <1>4, <4>1 DEF FDInv, ForksShaped
      <4>3. CASE v # c
        BY <2>1, <2>4, <4>1, <4>2, <4>3 DEF FDInv, Processes
      <4>4. CASE v = c
        <5>1. proc[Child(u)] = proc[t]
          BY <2>1, <2>2, <2>4, <4>1, <4>2, <4>4
        <5>2. pc[u].cx /\ proc[t] = proc[u]
          BY <1>4, <4>1, <4>2, <5>1 DEF FDInv, Processes
        <5> QED
          BY <2>1, <2>4, <4>1, <4>2, <4>4, <5>1, <5>2
      <4> QED
        BY <4>3, <4>4
    <3> QED
      BY <3>1, <3>2
  <2> QED
    BY <1>2, <2>3, <2>4 DEF Processes
<1>14. Sharing'
  BY <1>2, <1>7, <1>8, <1>9 DEF FDInv, Sharing
<1>15. ForksShaped'
  <2> SUFFICES ASSUME NEW u \in Threads, Forking(u)'
               PROVE  /\ Child(u)' \in Threads /\ pc'[Child(u)'].at = "new"
                      /\ \A v \in Threads : Forking(v)' /\ Child(v)' = Child(u)' => v = u
                      /\ pc'[u].cx => tbl'[Child(u)'] = tbl'[u]
                      /\ ~pc'[u].cx => \A v \in Threads \ {Child(u)'} : pc'[v].at # "none" => tbl'[v] # tbl'[Child(u)']
                      /\ \A v \in Threads : Calling(v)' /\ tbl'[v] = tbl'[u] => pc'[v].foot \subseteq pc'[u].foot
    BY DEF ForksShaped
  <2>1. ASSUME NEW v \in Threads, Forking(v)
        PROVE  /\ v # t /\ v # c
               /\ Child(v) \in Threads /\ pc[Child(v)].at = "new" /\ Child(v) # t /\ Child(v) # c
               /\ \A w \in Threads : Forking(w) /\ Child(w) = Child(v) => w = v
               /\ pc[v].cx => tbl[Child(v)] = tbl[v]
               /\ ~pc[v].cx => \A w \in Threads \ {Child(v)} : pc[w].at # "none" => tbl[w] # tbl[Child(v)]
               /\ \A w \in Threads : Calling(w) /\ tbl[w] = tbl[v] => pc[w].foot \subseteq pc[v].foot
    BY <1>4, <1>5, <2>1 DEF FDInv, ForksShaped
  <2>2. CASE u = t
    <3>1. /\ pc'[c].at = "new"
          /\ pc'[t].cx => tbl'[c] = tbl[t]
          /\ ~pc'[t].cx => \A v \in Threads : pc[v].at # "none" => tbl[v] # tbl'[c]
          /\ \A v \in Threads : v # t /\ Calling(v) /\ tbl[v] = tbl[t] => pc[v].foot \subseteq pc'[t].foot
          /\ \A v \in Threads \ {c, t} : pc'[v] = pc[v] /\ tbl'[v] = tbl[v]
          /\ tbl'[t] = tbl[t]
      BY <1>1 DEF Forked
    <3>2. \A v \in Threads : Forking(v)' /\ Child(v)' = c => v = t
      BY <1>5, <1>6, <2>1
    <3>3. \A v \in Threads \ {c} : pc'[v].at # "none" => pc[v].at # "none" /\ tbl'[v] = tbl[v]
      BY <1>4, <3>1
    <3>4. \A v \in Threads : Calling(v)' /\ tbl'[v] = tbl'[t] => pc'[v].foot \subseteq pc'[t].foot
      BY <1>5, <1>7, <1>8, <1>9, <1>10, <3>1
    <3> QED
      BY <1>5, <2>2, <3>1, <3>2, <3>3, <3>4
  <2>3. CASE u # t
    <3>1. Forking(u) /\ Child(u)' = Child(u) /\ pc'[u] = pc[u] /\ u # c
      BY <1>5, <1>6, <2>3
    <3>2. pc'[Child(u)] = pc[Child(u)] /\ tbl'[Child(u)] = tbl[Child(u)] /\ tbl'[u] = tbl[u]
      BY <1>6, <1>8, <1>9, <2>1, <3>1
    <3>3. \A v \in Threads : Forking(v)' /\ Child(v)' = Child(u) => v = u
      BY <1>5, <1>6, <2>1, <3>1
    <3>4. ASSUME ~pc[u].cx, NEW v \in Threads \ {Child(u)}, pc'[v].at # "none"
          PROVE  tbl'[v] # tbl[Child(u)]
      <4>1. CASE v = c
        <5>1. (files /\ tbl'[c] = tbl[t]) \/ \A w \in Threads : pc[w].at # "none" => tbl[w] # tbl'[c]
          BY <1>1 DEF Forked
        <5> QED
          BY <1>4, <2>1, <3>1, <3>4, <4>1, <5>1
      <4>2. CASE v # c
        <5>1. pc[v].at # "none"
          BY <1>4, <1>6, <3>4, <4>2
        <5> QED
          BY <1>8, <2>1, <3>1, <3>4, <5>1
      <4> QED
        BY <4>1, <4>2
    <3>5. \A v \in Threads : Calling(v)' /\ tbl'[v] = tbl'[u] => pc'[v].foot \subseteq pc'[u].foot
      BY <1>7, <1>8, <1>9, <1>10, <2>1, <3>1, <3>2
    <3> QED
      BY <2>1, <3>1, <3>2, <3>3, <3>4, <3>5
  <2> QED
    BY <2>2, <2>3
<1>16. Overlap'
  BY <1>2, <1>7, <1>8, <1>9, <1>10 DEF FDInv, Overlap
<1>17. SourcesKept'
  BY <1>2, <1>7, <1>10 DEF FDInv, SourcesKept
<1>18. MapsAgree'
  <2> SUFFICES ASSUME NEW u \in Threads, Seen(u)', ~Execing(u)'
               PROVE  MapAgrees(u)' \/ Fresh(u)'
    BY DEF MapsAgree
  <2>1. Seen(u) /\ ~Execing(u) /\ Table(u)' = Table(u)
    BY <1>7, <1>8, <1>9
  <2>2. CASE MapAgrees(u)
    BY <1>2, <1>11, <2>1, <2>2 DEF MapAgrees
  <2>3. CASE Fresh(u)
    <3>1. u # t /\ u # c
      BY <1>4, <2>3 DEF Fresh
    <3> QED
      BY <1>2, <1>6, <1>7, <2>3, <3>1 DEF Fresh
  <2> QED
    BY <2>1, <2>2, <2>3 DEF FDInv, MapsAgree
<1>19. CallsAgree'
  <2> SUFFICES ASSUME NEW u \in Threads, Calling(u)' PROVE CallAgrees(u)'
    BY DEF CallsAgree
  <2>1. Calling(u) /\ pc'[u] = pc[u] /\ Table(u)' = Table(u) /\ CallAgrees(u)
    BY <1>7, <1>8, <1>9, <1>10 DEF FDInv, CallsAgree
  <2> QED
    BY <1>2, <2>1 DEF CallAgrees
<1>20. ExecsAgree'
  <2> SUFFICES ASSUME NEW u \in Threads, Execing(u)'
               PROVE  /\ \A v \in Threads \ {u} : pc'[v].at # "none" => tbl'[v] # tbl'[u]
                      /\ \A fd \in FDs \ off[ptr[u]] :
                            \/ Agrees(map[ptr[u]][fd], Table(u)'[fd])
                            \/ map[ptr[u]][fd] # NoInfo /\ Table(u)'[fd] = None
    BY <1>2 DEF ExecsAgree
  <2>1. Execing(u) /\ Table(u)' = Table(u) /\ tbl'[u] = tbl[u] /\ u # t /\ pc[u].at # "none"
    BY <1>5, <1>7, <1>8, <1>9
  <2>2. /\ \A v \in Threads \ {u} : pc[v].at # "none" => tbl[v] # tbl[u]
        /\ \A fd \in FDs \ off[ptr[u]] :
              \/ Agrees(map[ptr[u]][fd], Table(u)[fd])
              \/ map[ptr[u]][fd] # NoInfo /\ Table(u)[fd] = None
    BY <2>1 DEF FDInv, ExecsAgree
  <2>3. ASSUME NEW v \in Threads \ {u}, pc'[v].at # "none" PROVE tbl'[v] # tbl[u]
    <3>1. CASE v = c
      <4>1. (files /\ tbl'[c] = tbl[t]) \/ \A w \in Threads : pc[w].at # "none" => tbl[w] # tbl'[c]
        BY <1>1 DEF Forked
      <4> QED
        BY <1>4, <2>1, <2>2, <3>1, <4>1
    <3>2. CASE v # c
      <4>1. pc[v].at # "none"
        BY <1>4, <1>6, <2>3, <3>2
      <4> QED
        BY <1>8, <2>2, <4>1
    <3> QED
      BY <3>1, <3>2
  <2> QED
    BY <2>1, <2>2, <2>3
<1>21. ForksAgree'
  <2> SUFFICES ASSUME NEW u \in Threads, Forking(u)', ~pc'[u].cx,
                      NEW fd \in FDs \ (off[ptr[u]] \cup pc'[u].foot)
               PROVE  Agrees(map[ptr[u]][fd], file'[tbl'[Child(u)']][fd])
    BY <1>2 DEF ForksAgree
  <2>1. CASE u = t
    <3>1. file'[tbl'[c]] = Table(t)
      BY <1>1, <2>1 DEF Forked
    <3>2. ~Under(t, fd)
      BY <1>1, <1>5, <2>1 DEF Under, Forked
    <3> QED
      BY <1>5, <1>12, <2>1, <3>1, <3>2 DEF MapAgrees
  <2>2. CASE u # t
    <3>1. Forking(u) /\ Child(u)' = Child(u) /\ pc'[u] = pc[u] /\ u # c
      BY <1>5, <1>6, <2>2
    <3>2. Child(u) \in Threads /\ pc[Child(u)].at = "new"
      BY <3>1 DEF FDInv, ForksShaped
    <3>3. tbl'[Child(u)] = tbl[Child(u)] /\ file'[tbl[Child(u)]] = file[tbl[Child(u)]]
      BY <1>8, <3>2
    <3> QED
      BY <3>1, <3>3 DEF FDInv, ForksAgree
  <2> QED
    BY <2>1, <2>2
<1> QED
  BY <1>2, <1>3, <1>13, <1>14, <1>15, <1>16, <1>17, <1>18, <1>19, <1>20, <1>21, <1>22 DEF FDInv

(* Threads end *)

\* A thread ends in the middle of a call or outside.
LEMMA EndInv ==
  ASSUME FDInv, NEW t \in Threads, End(t)
  PROVE  FDInv'
<1>1. /\ tbl' = tbl /\ ptr' = ptr /\ proc' = proc /\ map' = map /\ file' = file
      /\ tbl \in [Threads -> Threads] /\ ptr \in [Threads -> Threads] /\ off \in [Threads -> SUBSET FDs]
      /\ pc \in [Threads -> PCs]
      /\ pc[t].at \in {"user", "done"} /\ pc[t].call # "fork"
      /\ pc' = [pc EXCEPT ![t] = Idle("none")]
      /\ off' = [off EXCEPT ![ptr[t]] = off[ptr[t]] \cup pc[t].foot]
  BY DEF End, FDInv, TypeInv
<1>2. Idle("none") \in PCs /\ Idle("none").at = "none" /\ Idle("none").foot = {}
  BY IdleNone
<1>3. /\ pc' \in [Threads -> PCs] /\ pc'[t].at = "none" /\ pc'[t].foot = {}
      /\ \A u \in Threads \ {t} : pc'[u] = pc[u]
  BY <1>1, <1>2
<1>4. /\ off' \in [Threads -> SUBSET FDs] /\ off'[ptr[t]] = off[ptr[t]] \cup pc[t].foot
      /\ \A i \in Threads : off[i] \subseteq off'[i] /\ off'[i] \subseteq FDs
      /\ \A i \in Threads \ {ptr[t]} : off'[i] = off[i]
  <2>1. pc[t].foot \subseteq FDs /\ ptr[t] \in Threads
    BY <1>1 DEF PCs
  <2> QED
    BY <1>1, <2>1
<1>5. TypeInv'
  BY <1>1, <1>3, <1>4 DEF FDInv, TypeInv
<1>6. /\ ~Calling(t)' /\ ~Forking(t)' /\ ~Execing(t)' /\ ~Seen(t)' /\ ~Forking(t) /\ Seen(t)
  BY <1>1, <1>3 DEF Calling, Forking, Execing, Seen
<1>7. ASSUME NEW u \in Threads \ {t}
      PROVE  /\ pc'[u] = pc[u]
             /\ Calling(u)' = Calling(u) /\ Forking(u)' = Forking(u) /\ Execing(u)' = Execing(u)
             /\ Seen(u)' = Seen(u) /\ Child(u)' = Child(u)
  BY <1>3 DEF Calling, Forking, Execing, Seen, Child
<1>8. \A u \in Threads : /\ (Calling(u)' => Calling(u) /\ u # t) /\ (Forking(u)' => Forking(u) /\ u # t)
                         /\ (Execing(u)' => Execing(u) /\ u # t) /\ (Seen(u)' => Seen(u) /\ u # t)
                         /\ (pc'[u].at # "none" => pc[u].at # "none" /\ u # t)
                         /\ (Forking(u)' => pc'[u].cx = pc[u].cx /\ Child(u)' = Child(u))
                         /\ ptr[u] \in Threads /\ pc[u].foot \subseteq FDs
  BY <1>1, <1>3, <1>6, <1>7 DEF PCs
<1>9. CallsShaped'
  BY <1>3, <1>6, <1>7 DEF FDInv, CallsShaped
<1>10. Processes'
  <2>1. \A u, v \in Threads : Seen(u)' /\ Seen(v)' /\ proc[u] = proc[v] => ptr[u] = ptr[v]
    BY <1>8 DEF FDInv, Processes
  <2>2. ASSUME NEW u \in Threads, Forking(u)', NEW v \in Threads \ {Child(u)'},
               pc'[v].at # "none", proc[v] = proc[Child(u)']
        PROVE  pc'[u].cx /\ proc[v] = proc[u]
    <3>1. /\ Forking(u) /\ Child(u)' = Child(u) /\ pc'[u].cx = pc[u].cx
          /\ pc[v].at # "none"
      BY <1>8, <2>2
    <3>2. pc[u].cx /\ proc[v] = proc[u]
      BY <2>2, <3>1 DEF FDInv, Processes
    <3> QED BY <3>1, <3>2
  <2> QED BY <1>1, <2>1, <2>2 DEF Processes
<1>11. Sharing'
  <2> SUFFICES ASSUME NEW u \in Threads, NEW v \in Threads, Seen(u)', Seen(v)'
               PROVE  /\ tbl[u] = tbl[v] => ptr[u] = ptr[v]
                      /\ ptr[u] = ptr[v] /\ tbl[u] # tbl[v] => off'[ptr[u]] = FDs
    BY <1>1 DEF Sharing
  <2>1. /\ tbl[u] = tbl[v] => ptr[u] = ptr[v]
        /\ ptr[u] = ptr[v] /\ tbl[u] # tbl[v] => off[ptr[u]] = FDs
    BY <1>8 DEF FDInv, Sharing
  <2>2. ptr[u] \in Threads
    BY <1>8
  <2>3. off[ptr[u]] = FDs => off'[ptr[u]] = FDs
    BY <1>4, <2>2
  <2> QED BY <2>1, <2>3
<1>12. ForksShaped'
  <2> SUFFICES ASSUME NEW u \in Threads, Forking(u)'
               PROVE  /\ Child(u)' \in Threads /\ pc'[Child(u)'].at = "new"
                      /\ \A v \in Threads : Forking(v)' /\ Child(v)' = Child(u)' => v = u
                      /\ pc'[u].cx => tbl[Child(u)'] = tbl[u]
                      /\ ~pc'[u].cx => \A v \in Threads \ {Child(u)'} : pc'[v].at # "none" => tbl[v] # tbl[Child(u)']
                      /\ \A v \in Threads : Calling(v)' /\ tbl[v] = tbl[u] => pc'[v].foot \subseteq pc'[u].foot
    BY <1>1 DEF ForksShaped
  <2>1. u # t /\ Forking(u) /\ Child(u)' = Child(u) /\ pc'[u] = pc[u]
    BY <1>7, <1>8
  <2>2. /\ Child(u) \in Threads /\ pc[Child(u)].at = "new"
        /\ \A v \in Threads : Forking(v) /\ Child(v) = Child(u) => v = u
        /\ pc[u].cx => tbl[Child(u)] = tbl[u]
        /\ ~pc[u].cx => \A v \in Threads \ {Child(u)} : pc[v].at # "none" => tbl[v] # tbl[Child(u)]
        /\ \A v \in Threads : Calling(v) /\ tbl[v] = tbl[u] => pc[v].foot \subseteq pc[u].foot
    BY <2>1 DEF FDInv, ForksShaped
  <2>3. Child(u) # t
    BY <1>1, <2>2
  <2> QED
    BY <1>7, <1>8, <2>1, <2>2, <2>3
<1>13. Overlap'
  <2> SUFFICES ASSUME NEW u \in Threads, NEW v \in Threads, u # v, Calling(u)', Calling(v)', tbl[u] = tbl[v],
                      pc'[u].foot \cap pc'[v].foot # {}
               PROVE  pc'[u].clash /\ pc'[u].foot \subseteq off'[ptr[u]]
    BY <1>1 DEF Overlap
  <2>1. Calling(u) /\ Calling(v) /\ pc'[u] = pc[u] /\ pc'[v] = pc[v]
    BY <1>7, <1>8
  <2> QED
    BY <1>4, <1>8, <2>1 DEF FDInv, Overlap
<1>14. SourcesKept'
  <2> SUFFICES ASSUME NEW v \in Threads, Calling(v)', pc'[v].call \in Copies, pc'[v].src[1] \in off'[ptr[v]]
               PROVE  pc'[v].foot \subseteq off'[ptr[v]]
    BY <1>1 DEF SourcesKept
  <2> DEFINE s == pc[v].src[1]
  <2>1. Calling(v) /\ pc'[v] = pc[v] /\ v # t
    BY <1>7, <1>8
  <2>2. s \in pc[v].foot
    BY <2>1 DEF FDInv, CallsShaped, Shaped
  <2>3. CASE s \in off[ptr[v]]
    <3>1. pc[v].foot \subseteq off[ptr[v]]
      BY <2>1, <2>3 DEF FDInv, SourcesKept
    <3> QED
      BY <1>4, <1>8, <2>1, <3>1
  <2>4. CASE s \notin off[ptr[v]]
    <3>1. ptr[v] = ptr[t] /\ s \in pc[t].foot
      BY <1>4, <1>8, <2>1, <2>4
    <3>2. Calling(t)
      BY <1>6, <3>1 DEF FDInv, CallsShaped
    <3>3. CASE tbl[v] = tbl[t]
      <4>1. pc[v].foot \cap pc[t].foot # {}
        BY <2>2, <3>1
      <4>2. pc[v].foot \subseteq off[ptr[v]]
        BY <2>1, <3>2, <3>3, <4>1 DEF FDInv, Overlap
      <4> QED
        BY <2>2, <2>4, <4>2
    <3>4. CASE tbl[v] # tbl[t]
      <4>1. off[ptr[v]] = FDs
        BY <1>6, <2>1, <3>1, <3>4 DEF FDInv, Sharing, Calling, Seen
      <4> QED
        BY <1>4, <1>8, <2>1, <4>1
    <3> QED
      BY <3>3, <3>4
  <2> QED
    BY <2>3, <2>4
<1>15. MapsAgree'
  <2> SUFFICES ASSUME NEW v \in Threads, Seen(v)', ~Execing(v)'
               PROVE  MapAgrees(v)' \/ Fresh(v)'
    BY DEF MapsAgree
  <2>1. Seen(v) /\ ~Execing(v) /\ v # t /\ pc'[v] = pc[v]
    BY <1>7, <1>8
  <2>2. CASE MapAgrees(v)
    <3> SUFFICES ASSUME NEW fd \in FDs \ off'[ptr[v]]
                 PROVE  Under(v, fd)' \/ Agrees(map[ptr[v]][fd], Table(v)[fd])
      BY <1>1 DEF MapAgrees, Table
    <3>1. Under(v, fd) \/ Agrees(map[ptr[v]][fd], Table(v)[fd])
      BY <1>4, <1>8, <2>2 DEF MapAgrees
    <3>2. ASSUME Under(v, fd) PROVE Under(v, fd)'
      <4>1. PICK u \in Threads : Calling(u) /\ tbl[u] = tbl[v] /\ fd \in pc[u].foot
        BY <3>2 DEF Under
      <4>2. u # t
        <5>1. SUFFICES ASSUME u = t PROVE FALSE
          OBVIOUS
        <5>2. ptr[v] = ptr[t]
          BY <1>6, <2>1, <4>1, <5>1 DEF FDInv, Sharing
        <5> QED
          BY <1>4, <4>1, <5>1, <5>2
      <4> QED
        BY <1>1, <1>7, <4>1, <4>2 DEF Under
    <3> QED
      BY <3>1, <3>2
  <2>3. CASE Fresh(v)
    BY <1>1, <1>8, <2>1, <2>3 DEF Fresh
  <2> QED
    BY <2>1, <2>2, <2>3 DEF FDInv, MapsAgree
<1>16. CallsAgree'
  <2> SUFFICES ASSUME NEW v \in Threads, Calling(v)' PROVE CallAgrees(v)'
    BY DEF CallsAgree
  <2>1. Calling(v) /\ pc'[v] = pc[v] /\ CallAgrees(v) /\ off[ptr[v]] \subseteq off'[ptr[v]] /\ Table(v)' = Table(v)
    BY <1>1, <1>4, <1>7, <1>8 DEF FDInv, CallsAgree, Table
  <2> QED
    BY <1>1, <2>1 DEF CallAgrees
<1>17. ExecsAgree'
  <2> SUFFICES ASSUME NEW v \in Threads, Execing(v)'
               PROVE  /\ \A u \in Threads \ {v} : pc'[u].at # "none" => tbl[u] # tbl[v]
                      /\ \A fd \in FDs \ off'[ptr[v]] :
                            \/ Agrees(map[ptr[v]][fd], Table(v)[fd])
                            \/ map[ptr[v]][fd] # NoInfo /\ Table(v)[fd] = None
    BY <1>1 DEF ExecsAgree, Table
  <2>1. Execing(v) /\ off[ptr[v]] \subseteq off'[ptr[v]]
    BY <1>4, <1>8
  <2> QED
    BY <1>8, <2>1 DEF FDInv, ExecsAgree
<1>18. ForksAgree'
  <2> SUFFICES ASSUME NEW v \in Threads, Forking(v)', ~pc'[v].cx,
                      NEW fd \in FDs \ (off'[ptr[v]] \cup pc'[v].foot)
               PROVE  Agrees(map[ptr[v]][fd], file[tbl[Child(v)']][fd])
    BY <1>1 DEF ForksAgree
  <2>1. Forking(v) /\ pc'[v] = pc[v] /\ Child(v)' = Child(v) /\ off[ptr[v]] \subseteq off'[ptr[v]]
    BY <1>4, <1>7, <1>8
  <2> QED
    BY <2>1 DEF FDInv, ForksAgree
<1> QED
  BY <1>1, <1>5, <1>9, <1>10, <1>11, <1>12, <1>13, <1>14, <1>15, <1>16, <1>17, <1>18 DEF FDInv

(* Exits are handled *)

\* A thread's exit has been handled: the map has become M2, and Good are the numbers
\* known again.
Handled(t, M2, Good) ==
    /\ tbl' = tbl /\ ptr' = ptr /\ proc' = proc /\ file' = file
    /\ pc' \in [Threads -> PCs] /\ pc'[t].at = "user" /\ pc'[t].foot = {}
    /\ \A u \in Threads \ {t} : pc'[u] = pc[u]
    /\ map' \in [Threads -> Maps] /\ map'[ptr[t]] = M2 /\ \A i \in Threads \ {ptr[t]} : map'[i] = map[i]
    /\ off' \in [Threads -> SUBSET FDs] /\ off'[ptr[t]] = off[ptr[t]] \ Good
    /\ \A i \in Threads \ {ptr[t]} : off'[i] = off[i]
   

\* What HandleExit() does
LEMMA HandleExitFacts ==
  ASSUME FDInv, NEW t \in Threads, HandleExit(t)
  PROVE  /\ Calling(t)
         /\ Handled(t, MapAfter(pc[t], map[ptr[t]], Table(t)), Healed(t))
<1>1. /\ pc \in [Threads -> PCs] /\ tbl \in [Threads -> Threads] /\ ptr \in [Threads -> Threads]
      /\ file \in [Threads -> Tables] /\ map \in [Threads -> Maps] /\ off \in [Threads -> SUBSET FDs]
      /\ ptr[t] \in Threads /\ pc[t] \in PCs /\ map[ptr[t]] \in Maps /\ Table(t) \in Tables
  BY DEF FDInv, TypeInv, Table
<1>2. Calling(t)
  BY DEF HandleExit, Calling
<1>3. Shaped(pc[t]) /\ pc[t].call \notin {"fork", "execve", "none"} /\ CallAgrees(t)
  BY <1>2 DEF FDInv, CallsShaped, CallsAgree, Calling
<1> DEFINE M2 == MapAfter(pc[t], map[ptr[t]], Table(t))
           q == [Idle("user") EXCEPT !.call = pc[t].call]
<1>4. M2 \in Maps
  BY <1>1, <1>3, MapAfterEntry
<1>5. q \in PCs /\ q.at = "user" /\ q.foot = {}
  <2>1. pc[t].call \in DOMAIN Tracked \cup OtherCalls
    BY <1>1 DEF PCs
  <2> DEFINE r == Idle("user")
  <2>2. r \in PCs /\ r.at = "user" /\ r.foot = {}
    BY IdleNone
  <2> HIDE DEF r
  <2> QED
    BY <2>1, <2>2 DEF PCs, r
<1>6. /\ tbl' = tbl /\ ptr' = ptr /\ proc' = proc /\ file' = file
      /\ map' = [map EXCEPT ![ptr[t]] = M2]
      /\ off' = [off EXCEPT ![ptr[t]] = off[ptr[t]] \ Healed(t)]
      /\ pc' = [pc EXCEPT ![t] = q]
  BY DEF HandleExit
<1> HIDE DEF M2, q
<1>8. pc' \in [Threads -> PCs] /\ pc'[t] = q /\ \A u \in Threads \ {t} : pc'[u] = pc[u]
  BY <1>1, <1>5, <1>6
<1>9. map' \in [Threads -> Maps] /\ map'[ptr[t]] = M2 /\ \A i \in Threads \ {ptr[t]} : map'[i] = map[i]
  BY <1>1, <1>4, <1>6
<1>10. off' \in [Threads -> SUBSET FDs] /\ off'[ptr[t]] = off[ptr[t]] \ Healed(t)
       /\ \A i \in Threads \ {ptr[t]} : off'[i] = off[i]
  <2> DEFINE H == off[ptr[t]] \ Healed(t)
  <2>1. H \in SUBSET FDs
    BY <1>1
  <2> HIDE DEF H
  <2> QED
    BY <1>1, <1>6, <2>1 DEF H
<1> QED
  BY <1>2, <1>5, <1>6, <1>8, <1>9, <1>10 DEF Handled, M2

\* The exit of a call is handled.
LEMMA HandleExitInv ==
  ASSUME FDInv, NEW t \in Threads, HandleExit(t)
  PROVE  FDInv'
<1> DEFINE m == map[ptr[t]]
           T == Table(t)
           M2 == MapAfter(pc[t], m, T)
           G == Healed(t)
<1>1. Calling(t) /\ Handled(t, M2, G)
  BY HandleExitFacts
<1>2. /\ pc \in [Threads -> PCs] /\ tbl \in [Threads -> Threads] /\ ptr \in [Threads -> Threads]
      /\ file \in [Threads -> Tables] /\ map \in [Threads -> Maps] /\ off \in [Threads -> SUBSET FDs]
      /\ \A u \in Threads : /\ ptr[u] \in Threads /\ pc[u] \in PCs /\ map[ptr[u]] \in Maps /\ Table(u) \in Tables
                            /\ pc[u].foot \subseteq FDs
  BY DEF FDInv, TypeInv, Table, PCs
<1>3. Shaped(pc[t]) /\ pc[t].call \notin {"fork", "execve", "none"} /\ CallAgrees(t)
  BY <1>1 DEF FDInv, CallsShaped, CallsAgree, Calling
<1>4. \A fd \in FDs : M2[fd] = IF fd \in pc[t].foot THEN Entry(pc[t], m, T, fd) ELSE m[fd]
  <2>1. pc[t] \in PCs /\ m \in Maps /\ T \in Tables
    BY <1>2
  <2> HIDE DEF m, T
  <2> QED
    BY <1>3, <2>1, MapAfterEntry
<1>5. /\ tbl' = tbl /\ ptr' = ptr /\ proc' = proc /\ file' = file
      /\ pc' \in [Threads -> PCs] /\ map' \in [Threads -> Maps] /\ off' \in [Threads -> SUBSET FDs]
      /\ \A u \in Threads : Table(u)' = Table(u)
  BY <1>1 DEF Handled, Table
<1>6. /\ ~Calling(t)' /\ ~Forking(t)' /\ ~Execing(t)' /\ Seen(t)' /\ ~Forking(t) /\ ~Execing(t) /\ Seen(t)
      /\ pc[t].at = "done"
  BY <1>1 DEF Calling, Forking, Execing, Seen, Handled
<1>7. ASSUME NEW u \in Threads \ {t}
      PROVE  /\ pc'[u] = pc[u]
             /\ Calling(u)' = Calling(u) /\ Forking(u)' = Forking(u) /\ Execing(u)' = Execing(u)
             /\ Seen(u)' = Seen(u) /\ Child(u)' = Child(u)
  BY <1>1 DEF Handled, Calling, Forking, Execing, Seen, Child
<1>8. \A u \in Threads : /\ (Calling(u)' <=> Calling(u) /\ u # t) /\ (Forking(u)' <=> Forking(u))
                         /\ (Execing(u)' <=> Execing(u)) /\ (Seen(u)' <=> Seen(u))
                         /\ (pc'[u].at # "none" => pc[u].at # "none")
                         /\ (Forking(u)' => pc'[u].cx = pc[u].cx /\ Child(u)' = Child(u))
  BY <1>6, <1>7
<1>9. /\ G \subseteq pc[t].foot
      /\ G # {} => \A u \in Threads : Seen(u) /\ ptr[u] = ptr[t] => tbl[u] = tbl[t]
      /\ \A fd \in G : M2[fd] = NoInfo /\ T[fd] = None
      /\ \A u \in Threads \ {t} : Calling(u) /\ ptr[u] = ptr[t] => G \cap pc[u].foot = {}
  <2>1. CASE G = {}
    BY <2>1
  <2>2. CASE G # {}
    <3>1. /\ pc[t].call = "close" /\ ~pc[t].clash /\ G = {pc[t].src[1]}
          /\ \A u \in Alive : pc[u].at # "new" /\ ptr[u] = ptr[t] => tbl[u] = tbl[t]
      BY <2>2 DEF Healed
    <3>2. pc[t].src[1] \in FDs /\ pc[t].foot = {pc[t].src[1]}
      BY <1>3, <3>1 DEF Shaped
    <3>3. \A u \in Threads : Seen(u) /\ ptr[u] = ptr[t] => tbl[u] = tbl[t]
      BY <3>1 DEF Seen, Alive
    <3>4. T[pc[t].src[1]] = None
      BY <1>3, <3>1 DEF CallAgrees
    <3>5. Entry(pc[t], m, T, pc[t].src[1]) = NoInfo
      BY <3>1, CallsApart DEF Entry, OtherCalls, Copies
    <3>6. ASSUME NEW u \in Threads \ {t}, Calling(u), ptr[u] = ptr[t]
          PROVE  G \cap pc[u].foot = {}
      <4>1. tbl[u] = tbl[t]
        BY <3>3, <3>6 DEF Calling, Seen
      <4>2. pc[t].foot \cap pc[u].foot = {}
        BY <1>1, <3>1, <3>6, <4>1 DEF FDInv, Overlap
      <4> QED
        BY <3>1, <3>2, <4>2
    <3> HIDE DEF G, M2, m, T
    <3>7. \A fd \in G : M2[fd] = NoInfo /\ T[fd] = None
      BY <1>4, <3>1, <3>2, <3>4, <3>5
    <3> QED
      BY <3>1, <3>2, <3>3, <3>6, <3>7
  <2> QED
    BY <2>1, <2>2
<1>10. /\ map'[ptr[t]] = M2 /\ off'[ptr[t]] = off[ptr[t]] \ G
       /\ \A i \in Threads \ {ptr[t]} : map'[i] = map[i] /\ off'[i] = off[i]
  BY <1>1 DEF Handled
<1> HIDE DEF G, M2, m, T
<1>11. \A u \in Threads : Calling(u) /\ u # t =>
          \A fd \in pc[u].foot : fd \in off'[ptr[u]] <=> fd \in off[ptr[u]]
  BY <1>2, <1>9, <1>10
\* Another table with the same map
<1>12. ASSUME NEW u \in Threads, Seen(u), ptr[u] = ptr[t], tbl[u] # tbl[t]
       PROVE  off[ptr[u]] = FDs /\ off'[ptr[u]] = FDs
  <2>1. off[ptr[u]] = FDs
    BY <1>6, <1>12 DEF FDInv, Sharing
  <2>2. G = {}
    BY <1>9, <1>12
  <2> QED
    BY <1>10, <1>12, <2>1, <2>2
<1>13. TypeInv'
  BY <1>5 DEF FDInv, TypeInv
<1>14. CallsShaped'
  <2>1. pc'[t].foot = {}
    BY <1>1 DEF Handled
  <2> QED
    BY <1>6, <1>7, <2>1 DEF FDInv, CallsShaped
<1>15. Processes'
  BY <1>5, <1>8 DEF FDInv, Processes
<1>16. Sharing'
  <2> SUFFICES ASSUME NEW u \in Threads, NEW v \in Threads, Seen(u), Seen(v)
               PROVE  /\ tbl[u] = tbl[v] => ptr[u] = ptr[v]
                      /\ ptr[u] = ptr[v] /\ tbl[u] # tbl[v] => off'[ptr[u]] = FDs
    BY <1>5, <1>8 DEF Sharing
  <2>1. /\ tbl[u] = tbl[v] => ptr[u] = ptr[v]
        /\ ptr[u] = ptr[v] /\ tbl[u] # tbl[v] => off[ptr[u]] = FDs
    BY DEF FDInv, Sharing
  <2>2. CASE ptr[u] = ptr[t] /\ ptr[u] = ptr[v] /\ tbl[u] # tbl[v]
    BY <1>12, <2>2
  <2>3. CASE ptr[u] # ptr[t]
    BY <1>2, <1>10, <2>1, <2>3
  <2> QED
    BY <2>1, <2>2, <2>3
<1>17. ForksShaped'
  <2> SUFFICES ASSUME NEW u \in Threads, Forking(u)'
               PROVE  /\ Child(u)' \in Threads /\ pc'[Child(u)'].at = "new"
                      /\ \A v \in Threads : Forking(v)' /\ Child(v)' = Child(u)' => v = u
                      /\ pc'[u].cx => tbl[Child(u)'] = tbl[u]
                      /\ ~pc'[u].cx => \A v \in Threads \ {Child(u)'} : pc'[v].at # "none" => tbl[v] # tbl[Child(u)']
                      /\ \A v \in Threads : Calling(v)' /\ tbl[v] = tbl[u] => pc'[v].foot \subseteq pc'[u].foot
    BY <1>5 DEF ForksShaped
  <2>1. u # t /\ Forking(u) /\ Child(u)' = Child(u) /\ pc'[u] = pc[u]
    BY <1>6, <1>7, <1>8
  <2>2. /\ Child(u) \in Threads /\ pc[Child(u)].at = "new"
        /\ \A v \in Threads : Forking(v) /\ Child(v) = Child(u) => v = u
        /\ pc[u].cx => tbl[Child(u)] = tbl[u]
        /\ ~pc[u].cx => \A v \in Threads \ {Child(u)} : pc[v].at # "none" => tbl[v] # tbl[Child(u)]
        /\ \A v \in Threads : Calling(v) /\ tbl[v] = tbl[u] => pc[v].foot \subseteq pc[u].foot
    BY <2>1 DEF FDInv, ForksShaped
  <2>3. Child(u) # t
    BY <1>6, <2>2
  <2> QED
    BY <1>6, <1>7, <1>8, <2>1, <2>2, <2>3
<1>18. Overlap'
  <2> SUFFICES ASSUME NEW u \in Threads, NEW v \in Threads, u # v, Calling(u)', Calling(v)', tbl[u] = tbl[v],
                      pc'[u].foot \cap pc'[v].foot # {}
               PROVE  pc'[u].clash /\ pc'[u].foot \subseteq off'[ptr[u]]
    BY <1>5 DEF Overlap
  <2>1. Calling(u) /\ Calling(v) /\ pc'[u] = pc[u] /\ pc'[v] = pc[v] /\ u # t
    BY <1>7, <1>8
  <2>2. pc[u].clash /\ pc[u].foot \subseteq off[ptr[u]]
    BY <2>1 DEF FDInv, Overlap
  <2> QED
    BY <1>11, <2>1, <2>2
<1>19. SourcesKept'
  <2> SUFFICES ASSUME NEW v \in Threads, Calling(v)', pc'[v].call \in Copies, pc'[v].src[1] \in off'[ptr[v]]
               PROVE  pc'[v].foot \subseteq off'[ptr[v]]
    BY <1>5 DEF SourcesKept
  <2>1. Calling(v) /\ pc'[v] = pc[v] /\ v # t
    BY <1>7, <1>8
  <2>2. pc[v].src[1] \in pc[v].foot
    BY <2>1 DEF FDInv, CallsShaped, Shaped
  <2>3. pc[v].foot \subseteq off[ptr[v]]
    BY <1>11, <2>1, <2>2 DEF FDInv, SourcesKept
  <2> QED
    BY <1>11, <2>1, <2>3
<1>20. \A u \in Threads, v \in Threads, fd \in FDs \ pc[t].foot :
          Calling(u) /\ tbl[u] = tbl[v] /\ fd \in pc[u].foot => Under(v, fd)'
  BY <1>5, <1>7, <1>8 DEF Under
<1>21. MapsAgree'
  <2> SUFFICES ASSUME NEW v \in Threads, Seen(v)', ~Execing(v)'
               PROVE  MapAgrees(v)' \/ Fresh(v)'
    BY DEF MapsAgree
  <2>1. Seen(v) /\ ~Execing(v)
    BY <1>8
  <2>2. tbl[v] = tbl[t] => ptr[v] = ptr[t]
    BY <1>6, <2>1 DEF FDInv, Sharing
  <2>3. CASE MapAgrees(v)
    <3> SUFFICES ASSUME NEW fd \in FDs \ off'[ptr[v]]
                 PROVE  Under(v, fd)' \/ Agrees(map'[ptr[v]][fd], Table(v)[fd])
      BY <1>5 DEF MapAgrees
    <3>1. CASE ptr[v] # ptr[t]
      <4>1. off'[ptr[v]] = off[ptr[v]] /\ map'[ptr[v]] = map[ptr[v]]
        BY <1>2, <1>10, <3>1
      <4>2. Under(v, fd) \/ Agrees(map[ptr[v]][fd], Table(v)[fd])
        BY <2>3, <4>1 DEF MapAgrees
      <4>3. Under(v, fd) => Under(v, fd)'
        BY <1>5, <1>7, <1>8, <2>2, <3>1 DEF Under
      <4> QED
        BY <4>1, <4>2, <4>3
    <3>2. CASE ptr[v] = ptr[t] /\ tbl[v] = tbl[t]
      <4>1. Table(v) = T /\ map[ptr[v]] = m /\ map'[ptr[v]] = M2
        BY <1>10, <3>2 DEF Table, T, m
      <4>2. CASE fd \in pc[t].foot /\ fd \in off[ptr[t]]
        <5>1. fd \in G
          BY <1>10, <3>2, <4>2
        <5>2. Agrees(NoInfo, None)
          BY DEF Agrees
        <5> QED
          BY <1>9, <4>1, <5>1, <5>2
      <4>3. CASE fd \in pc[t].foot /\ fd \notin off[ptr[t]]
        <5>1. Agrees(Entry(pc[t], m, T, fd), T[fd])
          BY <1>3, <4>3 DEF CallAgrees, m, T
        <5> QED
          BY <1>4, <4>1, <4>3, <5>1
      <4>4. CASE fd \notin pc[t].foot
        <5>1. fd \notin off[ptr[v]]
          BY <1>9, <1>10, <3>2, <4>4
        <5>2. Under(v, fd) \/ Agrees(m[fd], T[fd])
          BY <2>3, <4>1, <5>1 DEF MapAgrees
        <5>3. Under(v, fd) => Under(v, fd)'
          BY <1>20, <4>4 DEF Under
        <5> QED
          BY <1>4, <4>1, <4>4, <5>2, <5>3
      <4> QED
        BY <4>2, <4>3, <4>4
    <3>3. CASE ptr[v] = ptr[t] /\ tbl[v] # tbl[t]
      BY <1>12, <2>1, <3>3
    <3> QED
      BY <3>1, <3>2, <3>3
  <2>4. CASE Fresh(v)
    <3>1. v # t /\ ptr[v] # ptr[t]
      BY <1>6, <2>4 DEF Fresh
    <3>2. map'[ptr[v]] = map[ptr[v]] /\ pc'[v] = pc[v]
      BY <1>2, <1>7, <1>10, <3>1
    <3> QED
      BY <1>5, <1>8, <2>4, <3>2 DEF Fresh
  <2> QED
    BY <2>1, <2>3, <2>4 DEF FDInv, MapsAgree
<1>22. CallsAgree'
  <2> SUFFICES ASSUME NEW v \in Threads, Calling(v)' PROVE CallAgrees(v)'
    BY DEF CallsAgree
  <2>1. /\ Calling(v) /\ v # t /\ pc'[v] = pc[v] /\ CallAgrees(v) /\ Shaped(pc[v])
        /\ pc[v].call \notin {"fork", "execve", "none"}
    BY <1>7, <1>8 DEF FDInv, CallsAgree, CallsShaped, Calling
  <2> DEFINE mv == map[ptr[v]]
             Mv == map'[ptr[v]]
             Tv == Table(v)
  <2>2. mv \in Maps /\ Mv \in Maps /\ Tv \in Tables /\ pc[v] \in PCs
    BY <1>2, <1>5
  <2> SUFFICES /\ \A fd \in pc[v].foot \ off'[ptr[v]] : Agrees(Entry(pc[v], Mv, Tv, fd), Tv[fd])
               /\ ~pc[v].clash => /\ pc[v].call = "close" => Tv[pc[v].src[1]] = None
                                  /\ Due(pc[v], Mv, Tv) \subseteq off'[ptr[v]]
    BY <1>5, <2>1 DEF CallAgrees
  <2>3. /\ \A fd \in pc[v].foot \ off[ptr[v]] : Agrees(Entry(pc[v], mv, Tv, fd), Tv[fd])
        /\ ~pc[v].clash => /\ pc[v].call = "close" => Tv[pc[v].src[1]] = None
                           /\ Due(pc[v], mv, Tv) \subseteq off[ptr[v]]
    BY <2>1 DEF CallAgrees
  <2>4. \A fd \in pc[v].foot : fd \in off'[ptr[v]] <=> fd \in off[ptr[v]]
    BY <1>11, <2>1
  <2> HIDE DEF mv, Mv, Tv
  <2>5. Due(pc[v], Mv, Tv) \subseteq FDs /\ Due(pc[v], mv, Tv) \subseteq pc[v].foot
    BY <2>1, <2>2, WarningsLocal
  <2>6. CASE \A fd \in pc[v].foot : Mv[fd] = mv[fd]
    <3>1. \A fd \in pc[v].foot : Entry(pc[v], Mv, Tv, fd) = Entry(pc[v], mv, Tv, fd)
      BY <2>1, <2>2, <2>6, EntryLocal
    <3>2. Due(pc[v], Mv, Tv) = Due(pc[v], mv, Tv)
      BY <2>1, <2>2, <2>6, WarningsLocal
    <3> QED
      BY <2>3, <2>4, <2>5, <3>1, <3>2
  <2>7. CASE pc[v].clash /\ pc[v].foot \subseteq off[ptr[v]]
    BY <2>4, <2>7
  <2>8. CASE ptr[v] = ptr[t] /\ tbl[v] # tbl[t]
    <3>1. off'[ptr[v]] = FDs
      BY <1>12, <2>1, <2>8 DEF Calling, Seen
    <3> QED
      BY <1>2, <2>3, <2>5, <3>1
  <2>9. CASE ptr[v] # ptr[t]
    <3>1. Mv = mv
      BY <1>2, <1>10, <2>9 DEF Mv, mv
    <3> QED
      BY <2>6, <3>1
  <2>10. CASE ptr[v] = ptr[t] /\ tbl[v] = tbl[t]
    <3>1. CASE pc[v].foot \cap pc[t].foot = {}
      <4>1. \A fd \in pc[v].foot : Mv[fd] = mv[fd]
        BY <1>2, <1>4, <1>10, <2>10, <3>1 DEF Mv, mv, m
      <4> QED
        BY <2>6, <4>1
    <3>2. CASE pc[v].foot \cap pc[t].foot # {}
      <4>1. pc[v].clash /\ pc[v].foot \subseteq off[ptr[v]]
        BY <1>1, <2>1, <2>10, <3>2 DEF FDInv, Overlap
      <4> QED
        BY <2>7, <4>1
    <3> QED
      BY <3>1, <3>2
  <2> QED
    BY <2>8, <2>9, <2>10
<1>23. ExecsAgree'
  <2> SUFFICES ASSUME NEW v \in Threads, Execing(v)
               PROVE  /\ \A u \in Threads \ {v} : pc'[u].at # "none" => tbl[u] # tbl[v]
                      /\ \A fd \in FDs \ off'[ptr[v]] :
                            \/ Agrees(map'[ptr[v]][fd], Table(v)[fd])
                            \/ map'[ptr[v]][fd] # NoInfo /\ Table(v)[fd] = None
    BY <1>5, <1>8 DEF ExecsAgree
  <2>1. /\ \A u \in Threads \ {v} : pc[u].at # "none" => tbl[u] # tbl[v]
        /\ \A fd \in FDs \ off[ptr[v]] :
              \/ Agrees(map[ptr[v]][fd], Table(v)[fd])
              \/ map[ptr[v]][fd] # NoInfo /\ Table(v)[fd] = None
    BY DEF FDInv, ExecsAgree
  <2>2. tbl[v] # tbl[t] /\ Seen(v)
    BY <1>6, <2>1 DEF Execing, Seen
  <2>3. CASE ptr[v] = ptr[t]
    BY <1>8, <1>12, <2>1, <2>2, <2>3
  <2>4. CASE ptr[v] # ptr[t]
    BY <1>2, <1>8, <1>10, <2>1, <2>4
  <2> QED
    BY <2>3, <2>4
<1>24. ForksAgree'
  <2> SUFFICES ASSUME NEW v \in Threads, Forking(v)', ~pc'[v].cx,
                      NEW fd \in FDs \ (off'[ptr[v]] \cup pc'[v].foot)
               PROVE  Agrees(map'[ptr[v]][fd], file[tbl[Child(v)']][fd])
    BY <1>5 DEF ForksAgree
  <2>1. Forking(v) /\ v # t /\ pc'[v] = pc[v] /\ Child(v)' = Child(v) /\ Seen(v)
    BY <1>6, <1>7, <1>8 DEF Forking, Seen
  <2>2. fd \notin off[ptr[v]] => Agrees(map[ptr[v]][fd], file[tbl[Child(v)]][fd])
    BY <2>1 DEF FDInv, ForksAgree
  <2>3. CASE ptr[v] # ptr[t]
    BY <1>2, <1>10, <2>1, <2>2, <2>3
  <2>4. CASE ptr[v] = ptr[t] /\ tbl[v] # tbl[t]
    BY <1>12, <2>1, <2>4
  <2>5. CASE ptr[v] = ptr[t] /\ tbl[v] = tbl[t]
    <3>1. pc[t].foot \subseteq pc[v].foot
      BY <1>1, <2>1, <2>5 DEF FDInv, ForksShaped
    <3>2. fd \notin pc[t].foot
      BY <2>1, <3>1
    <3>3. map'[ptr[v]][fd] = map[ptr[v]][fd] /\ fd \notin off[ptr[v]]
      BY <1>4, <1>9, <1>10, <2>5, <3>2 DEF m
    <3> QED
      BY <2>1, <2>2, <3>3
  <2> QED
    BY <2>3, <2>4, <2>5
<1> QED
  BY <1>5, <1>13, <1>14, <1>15, <1>16, <1>17, <1>18, <1>19, <1>21, <1>22, <1>23, <1>24 DEF FDInv

\* The PTRACE_EVENT_EXEC is handled.
LEMMA HandleExecInv ==
  ASSUME FDInv, NEW t \in Threads, HandleExec(t)
  PROVE  FDInv'
<1> DEFINE m == map[ptr[t]]
           T == Table(t)
           M2 == SyncFDsAfterExec(m, T)
           W == {fd \in FDs : M2[fd] # NoInfo /\ T[fd] = None}
           q == [Idle("user") EXCEPT !.call = "execve"]
<1>1. /\ pc \in [Threads -> PCs] /\ tbl \in [Threads -> Threads] /\ ptr \in [Threads -> Threads]
      /\ file \in [Threads -> Tables] /\ map \in [Threads -> Maps] /\ off \in [Threads -> SUBSET FDs]
      /\ \A u \in Threads : /\ ptr[u] \in Threads /\ pc[u] \in PCs /\ map[ptr[u]] \in Maps /\ Table(u) \in Tables
                            /\ pc[u].foot \subseteq FDs
  BY DEF FDInv, TypeInv, Table, PCs
<1>2. /\ tbl' = tbl /\ ptr' = ptr /\ proc' = proc /\ file' = file
      /\ \A u \in Threads : Table(u)' = Table(u)
      /\ map' = [map EXCEPT ![ptr[t]] = M2]
      /\ off' = [off EXCEPT ![ptr[t]] = off[ptr[t]] \cup W]
      /\ pc' = [pc EXCEPT ![t] = q]
      /\ Execing(t)
  BY DEF HandleExec, Table, Execing
<1>3. q \in PCs /\ q.at = "user" /\ q.foot = {}
  <2> DEFINE r == Idle("user")
             c == "execve"
  <2>1. r \in PCs /\ r.at = "user" /\ r.foot = {}
    BY IdleNone
  <2>2. c \in DOMAIN Tracked \cup OtherCalls
    BY DEF OtherCalls
  <2>3. q = [r EXCEPT !.call = c]
    OBVIOUS
  <2> HIDE DEF r, c, q
  <2> QED
    BY <2>1, <2>2, <2>3 DEF PCs
<1>4. /\ M2 \in Maps
      /\ \A fd \in FDs : M2[fd] = m[fd] \/ (M2[fd] = NoInfo /\ T[fd] = None)
  <2>1. \A fd \in FDs : m[fd] \in Infos /\ NoInfo \in Infos
    BY <1>1 DEF Maps, Infos
  <2>2. m \in Maps
    BY <1>1
  <2> HIDE DEF m, T
  <2>3. \A fd \in FDs : M2[fd] = m[fd] \/ (M2[fd] = NoInfo /\ T[fd] = None)
    BY DEF SyncFDsAfterExec
  <2>4. M2 = [fd \in FDs |-> M2[fd]]
    BY DEF SyncFDsAfterExec
  <2> HIDE DEF M2
  <2>5. M2 \in Maps
    BY <2>1, <2>3, <2>4 DEF Maps
  <2> QED
    BY <2>3, <2>5
<1>5. W \subseteq FDs /\ \A fd \in FDs \ W : M2[fd] = NoInfo \/ T[fd] # None
  OBVIOUS
<1> HIDE DEF M2, W, q
<1>6. /\ pc' \in [Threads -> PCs] /\ map' \in [Threads -> Maps] /\ off' \in [Threads -> SUBSET FDs]
      /\ pc'[t].at = "user" /\ pc'[t].foot = {} /\ \A u \in Threads \ {t} : pc'[u] = pc[u]
      /\ map'[ptr[t]] = M2 /\ off'[ptr[t]] = off[ptr[t]] \cup W
      /\ \A i \in Threads \ {ptr[t]} : map'[i] = map[i] /\ off'[i] = off[i]
      /\ \A i \in Threads : off[i] \subseteq off'[i] /\ off'[i] \subseteq FDs
  BY <1>1, <1>2, <1>3, <1>4, <1>5
<1>7. /\ ~Calling(t)' /\ ~Forking(t)' /\ ~Execing(t)' /\ Seen(t)' /\ ~Calling(t) /\ ~Forking(t) /\ Seen(t)
      /\ pc[t].at = "done"
  BY <1>2, <1>6 DEF Calling, Forking, Execing, Seen
<1>8. ASSUME NEW u \in Threads \ {t}
      PROVE  /\ pc'[u] = pc[u]
             /\ Calling(u)' = Calling(u) /\ Forking(u)' = Forking(u) /\ Execing(u)' = Execing(u)
             /\ Seen(u)' = Seen(u) /\ Child(u)' = Child(u)
  BY <1>6 DEF Calling, Forking, Execing, Seen, Child
<1>9. \A u \in Threads : /\ (Calling(u)' <=> Calling(u)) /\ (Forking(u)' <=> Forking(u))
                         /\ (Execing(u)' => Execing(u) /\ u # t) /\ (Seen(u)' <=> Seen(u))
                         /\ (pc'[u].at # "none" => pc[u].at # "none")
                         /\ (Calling(u) => pc'[u] = pc[u] /\ u # t /\ Seen(u))
                         /\ (Forking(u) => pc'[u] = pc[u] /\ u # t /\ Seen(u) /\ Child(u)' = Child(u))
  <2>1. \A u \in Threads : Calling(u) \/ Forking(u) => Seen(u)
    BY DEF Calling, Forking, Seen
  <2> QED
    BY <1>7, <1>8, <2>1
\* Nobody else has the table; others with the same map have lost it.
<1>10. ASSUME NEW u \in Threads \ {t}, Seen(u)
       PROVE  tbl[u] # tbl[t] /\ (ptr[u] = ptr[t] => off[ptr[u]] = FDs /\ off'[ptr[u]] = FDs)
  <2>1. tbl[u] # tbl[t]
    BY <1>2, <1>10 DEF FDInv, ExecsAgree, Seen
  <2>2. ptr[u] = ptr[t] => off[ptr[u]] = FDs
    BY <1>7, <1>10, <2>1 DEF FDInv, Sharing
  <2> QED
    BY <1>1, <1>6, <2>1, <2>2
<1>11. TypeInv'
  BY <1>2, <1>6 DEF FDInv, TypeInv
<1>12. CallsShaped'
  BY <1>6, <1>7, <1>8 DEF FDInv, CallsShaped
<1>13. Processes'
  BY <1>2, <1>9 DEF FDInv, Processes
<1>14. Sharing'
  BY <1>1, <1>2, <1>6, <1>9 DEF FDInv, Sharing
<1>15. ForksShaped'
  <2> SUFFICES ASSUME NEW u \in Threads, Forking(u)'
               PROVE  /\ Child(u)' \in Threads /\ pc'[Child(u)'].at = "new"
                      /\ \A v \in Threads : Forking(v)' /\ Child(v)' = Child(u)' => v = u
                      /\ pc'[u].cx => tbl[Child(u)'] = tbl[u]
                      /\ ~pc'[u].cx => \A v \in Threads \ {Child(u)'} : pc'[v].at # "none" => tbl[v] # tbl[Child(u)']
                      /\ \A v \in Threads : Calling(v)' /\ tbl[v] = tbl[u] => pc'[v].foot \subseteq pc'[u].foot
    BY <1>2 DEF ForksShaped
  <2>1. u # t /\ Forking(u) /\ Child(u)' = Child(u) /\ pc'[u] = pc[u]
    BY <1>9
  <2>2. /\ Child(u) \in Threads /\ pc[Child(u)].at = "new"
        /\ \A v \in Threads : Forking(v) /\ Child(v) = Child(u) => v = u
        /\ pc[u].cx => tbl[Child(u)] = tbl[u]
        /\ ~pc[u].cx => \A v \in Threads \ {Child(u)} : pc[v].at # "none" => tbl[v] # tbl[Child(u)]
        /\ \A v \in Threads : Calling(v) /\ tbl[v] = tbl[u] => pc[v].foot \subseteq pc[u].foot
    BY <2>1 DEF FDInv, ForksShaped
  <2>3. Child(u) # t
    BY <1>7, <2>2
  <2> QED
    BY <1>8, <1>9, <2>1, <2>2, <2>3
<1>16. Overlap'
  <2> SUFFICES ASSUME NEW u \in Threads, NEW v \in Threads, u # v, Calling(u), Calling(v), tbl[u] = tbl[v],
                      pc[u].foot \cap pc[v].foot # {}
               PROVE  pc[u].clash /\ pc[u].foot \subseteq off'[ptr[u]]
    BY <1>2, <1>9 DEF Overlap
  <2>1. pc[u].clash /\ pc[u].foot \subseteq off[ptr[u]]
    BY DEF FDInv, Overlap
  <2> QED
    BY <1>1, <1>6, <2>1
<1>17. SourcesKept'
  <2> SUFFICES ASSUME NEW v \in Threads, Calling(v), pc[v].call \in Copies, pc[v].src[1] \in off'[ptr[v]]
               PROVE  pc[v].foot \subseteq off'[ptr[v]]
    BY <1>2, <1>9 DEF SourcesKept
  <2>1. v # t /\ Seen(v)
    BY <1>9
  <2>2. CASE ptr[v] = ptr[t]
    BY <1>1, <1>10, <2>1, <2>2
  <2>3. CASE ptr[v] # ptr[t]
    BY <1>1, <1>6, <2>3 DEF FDInv, SourcesKept
  <2> QED
    BY <2>2, <2>3
<1>18. MapsAgree'
  <2> SUFFICES ASSUME NEW v \in Threads, Seen(v)', ~Execing(v)'
               PROVE  MapAgrees(v)' \/ Fresh(v)'
    BY DEF MapsAgree
  <2>1. CASE v = t
    <3> SUFFICES ASSUME NEW fd \in FDs \ off'[ptr[t]]
                 PROVE  Agrees(M2[fd], T[fd])
      BY <1>2, <1>6, <2>1 DEF MapAgrees, T
    <3>1. fd \notin off[ptr[t]] /\ fd \notin W
      BY <1>6
    <3>2. Agrees(m[fd], T[fd]) \/ (m[fd] # NoInfo /\ T[fd] = None)
      BY <1>2, <3>1 DEF FDInv, ExecsAgree, m, T
    <3>3. Agrees(NoInfo, None)
      BY DEF Agrees
    <3> QED
      BY <1>4, <1>5, <3>1, <3>2, <3>3
  <2>2. CASE v # t
    <3>1. Seen(v) /\ ~Execing(v) /\ pc'[v] = pc[v]
      BY <1>8, <2>2
    <3>2. CASE MapAgrees(v)
      <4> SUFFICES ASSUME NEW fd \in FDs \ off'[ptr[v]]
                   PROVE  Under(v, fd)' \/ Agrees(map'[ptr[v]][fd], Table(v)[fd])
        BY <1>2 DEF MapAgrees
      <4>1. ptr[v] # ptr[t]
        BY <1>10, <2>2, <3>1
      <4>2. off'[ptr[v]] = off[ptr[v]] /\ map'[ptr[v]] = map[ptr[v]]
        BY <1>1, <1>6, <4>1
      <4>3. Under(v, fd) \/ Agrees(map[ptr[v]][fd], Table(v)[fd])
        BY <3>2, <4>2 DEF MapAgrees
      <4>4. Under(v, fd) => Under(v, fd)'
        BY <1>2, <1>9 DEF Under
      <4> QED
        BY <4>2, <4>3, <4>4
    <3>3. CASE Fresh(v)
      <4>1. ptr[v] # ptr[t]
        BY <1>7, <2>2, <3>3 DEF Fresh
      <4>2. map'[ptr[v]] = map[ptr[v]]
        BY <1>1, <1>6, <4>1
      <4> QED
        BY <1>2, <1>9, <3>1, <3>3, <4>2 DEF Fresh
    <3> QED
      BY <3>1, <3>2, <3>3 DEF FDInv, MapsAgree
  <2> QED
    BY <2>1, <2>2
<1>19. CallsAgree'
  <2> SUFFICES ASSUME NEW v \in Threads, Calling(v)' PROVE CallAgrees(v)'
    BY DEF CallsAgree
  <2>1. /\ Calling(v) /\ v # t /\ pc'[v] = pc[v] /\ CallAgrees(v) /\ Shaped(pc[v]) /\ Seen(v)
        /\ pc[v].call \notin {"fork", "execve", "none"}
    BY <1>9 DEF FDInv, CallsAgree, CallsShaped, Calling
  <2>2. CASE ptr[v] = ptr[t]
    <3>1. off'[ptr[v]] = FDs
      BY <1>10, <2>1, <2>2
    <3>2. Due(pc[v], map'[ptr[v]], Table(v)) \subseteq FDs
      BY <1>1, <2>1, WarningsLocal
    <3>3. pc[v].foot \subseteq FDs
      BY <1>1
    <3> QED
      BY <1>2, <2>1, <3>1, <3>2, <3>3 DEF CallAgrees
  <2>3. CASE ptr[v] # ptr[t]
    <3>1. off'[ptr[v]] = off[ptr[v]] /\ map'[ptr[v]] = map[ptr[v]]
      BY <1>1, <1>6, <2>3
    <3> QED
      BY <1>2, <2>1, <3>1 DEF CallAgrees
  <2> QED
    BY <2>2, <2>3
<1>20. ExecsAgree'
  <2> SUFFICES ASSUME NEW v \in Threads, Execing(v)'
               PROVE  /\ \A u \in Threads \ {v} : pc'[u].at # "none" => tbl[u] # tbl[v]
                      /\ \A fd \in FDs \ off'[ptr[v]] :
                            \/ Agrees(map'[ptr[v]][fd], Table(v)[fd])
                            \/ map'[ptr[v]][fd] # NoInfo /\ Table(v)[fd] = None
    BY <1>2 DEF ExecsAgree
  <2>1. Execing(v) /\ v # t /\ Seen(v)
    BY <1>9 DEF Execing, Seen
  <2>2. /\ \A u \in Threads \ {v} : pc[u].at # "none" => tbl[u] # tbl[v]
        /\ \A fd \in FDs \ off[ptr[v]] :
              \/ Agrees(map[ptr[v]][fd], Table(v)[fd])
              \/ map[ptr[v]][fd] # NoInfo /\ Table(v)[fd] = None
    BY <2>1 DEF FDInv, ExecsAgree
  <2>3. CASE ptr[v] = ptr[t]
    BY <1>9, <1>10, <2>1, <2>2, <2>3
  <2>4. CASE ptr[v] # ptr[t]
    BY <1>1, <1>6, <1>9, <2>2, <2>4
  <2> QED
    BY <2>3, <2>4
<1>21. ForksAgree'
  <2> SUFFICES ASSUME NEW v \in Threads, Forking(v), ~pc[v].cx,
                      NEW fd \in FDs \ (off'[ptr[v]] \cup pc[v].foot)
               PROVE  Agrees(map'[ptr[v]][fd], file[tbl[Child(v)]][fd])
    BY <1>2, <1>9 DEF ForksAgree
  <2>1. ptr[v] # ptr[t]
    BY <1>9, <1>10
  <2>2. off'[ptr[v]] = off[ptr[v]] /\ map'[ptr[v]] = map[ptr[v]]
    BY <1>1, <1>6, <2>1
  <2> QED
    BY <2>2 DEF FDInv, ForksAgree
<1> QED
  BY <1>2, <1>11, <1>12, <1>13, <1>14, <1>15, <1>16, <1>17, <1>18, <1>19, <1>20, <1>21 DEF FDInv

\* execve() of a thread: gone are those of its process, id is its table, which is new
\* if shared.
Execed(t, gone, id, shared) ==
    /\ pc[t].at = "user"
    /\ gone \subseteq Threads /\ t \notin gone /\ id \in Threads /\ shared \in BOOLEAN
    /\ \A u \in gone : pc[u].at \notin {"none", "new"} /\ pc[u].call # "fork" /\ proc[u] = proc[t]
    /\ pc' \in [Threads -> PCs] /\ tbl' \in [Threads -> Threads] /\ file' \in [Threads -> Tables]
    /\ off' \in [Threads -> SUBSET FDs]
    /\ pc'[t].at = "done" /\ pc'[t].call = "execve" /\ pc'[t].foot = {}
    /\ \A u \in gone : pc'[u].at = "none" /\ pc'[u].foot = {}
    /\ \A u \in Threads \ (gone \cup {t}) : pc'[u] = pc[u]
    /\ tbl'[t] = id /\ \A u \in Threads \ {t} : tbl'[u] = tbl[u]
    /\ \A u \in Threads \ (gone \cup {t}) : pc[u].at # "none" => proc[u] # proc[t]
    /\ \A u \in Threads \ (gone \cup {t}) : pc[u].at # "none" => tbl[u] # id
    /\ ~shared => \A u \in Threads \ (gone \cup {t}) : pc[u].at # "none" => tbl[u] # tbl[t]
    /\ \A fd \in FDs : file'[id][fd] = IF Table(t)[fd].cx THEN None ELSE Table(t)[fd]
    /\ \A i \in Threads \ {id} : file'[i] = file[i]
    /\ shared => off'[ptr[t]] = FDs
    /\ \A u \in gone : pc[u].foot \subseteq off'[ptr[t]]
    /\ \A i \in Threads : off[i] \subseteq off'[i] /\ off'[i] \subseteq FDs
    /\ \A i \in Threads \ {ptr[t]} : off'[i] = off[i]
    /\ ptr' = ptr /\ map' = map /\ proc' = proc

\* What Exec() does
LEMMA ExecFacts ==
  ASSUME TypeInv, NEW t \in Threads, Exec(t)
  PROVE  \E gone \in SUBSET Threads, id \in Threads, shared \in BOOLEAN : Execed(t, gone, id, shared)
<1>1. /\ pc \in [Threads -> PCs] /\ tbl \in [Threads -> Threads] /\ ptr \in [Threads -> Threads]
      /\ file \in [Threads -> Tables] /\ off \in [Threads -> SUBSET FDs]
      /\ tbl[t] \in Threads /\ ptr[t] \in Threads /\ Table(t) \in Tables
      /\ \A u \in Threads : pc[u].foot \subseteq FDs
  BY DEF TypeInv, Table, PCs
<1> DEFINE gone   == {u \in Alive \ {t} : proc[u] = proc[t]}
           rest   == Alive \ gone
           shared == \E u \in rest \ {t} : tbl[u] = tbl[t]
           new    == Unused({tbl[u] : u \in rest})
           id     == IF shared THEN new ELSE tbl[t]
           left   == [fd \in FDs |-> IF Table(t)[fd].cx THEN None ELSE Table(t)[fd]]
           wrong  == IF shared THEN FDs ELSE off[ptr[t]] \cup UNION {pc[u].foot : u \in gone}
<1>2. /\ pc[t].at = "user"
      /\ \A u \in Alive : proc[u] = proc[t] => pc[u].call # "fork" /\ pc[u].at # "new"
      /\ pc' = [u \in Threads |-> IF u = t THEN Done("execve", << >>, << >>, FALSE)
                                  ELSE IF u \in gone THEN Idle("none") ELSE pc[u]]
      /\ tbl' = [tbl EXCEPT ![t] = id]
      /\ file' = [file EXCEPT ![id] = left]
      /\ off' = [off EXCEPT ![ptr[t]] = wrong]
      /\ ptr' = ptr /\ map' = map /\ proc' = proc
  BY DEF Exec, Running
<1>3. Alive \subseteq Threads /\ \A u \in Threads : u \in Alive <=> pc[u].at # "none"
  BY DEF Alive
<1>4. /\ gone \subseteq Threads /\ t \notin gone
      /\ \A u \in gone : pc[u].at \notin {"none", "new"} /\ pc[u].call # "fork" /\ proc[u] = proc[t]
      /\ \A u \in Threads \ (gone \cup {t}) : pc[u].at # "none" => u \in rest \ {t} /\ proc[u] # proc[t]
  BY <1>2, <1>3
<1>5. rest \in SUBSET Threads /\ t \in rest
  BY <1>2, <1>3
<1>6. id \in Threads /\ \A u \in rest \ {t} : tbl[u] # id
  <2> HIDE DEF rest
  <2>1. CASE shared
    <3> DEFINE S == rest \ {t}
    <3>1. {tbl[u] : u \in rest} = {tbl[u] : u \in S}
      BY <2>1
    <3>2. Unused({tbl[u] : u \in S}) \in Threads /\ \A u \in S : tbl[u] # Unused({tbl[u2] : u2 \in S})
      <4>1. S \in SUBSET Threads /\ t \in Threads \ S
        BY <1>5
      <4> HIDE DEF S
      <4> QED
        BY <1>1, <4>1, UnusedExists
    <3>3. id = Unused({tbl[u] : u \in S})
      BY <2>1, <3>1
    <3> HIDE DEF id
    <3> QED
      BY <3>2, <3>3
  <2>2. CASE ~shared
    BY <1>1, <2>2
  <2> QED
    BY <2>1, <2>2
<1>7. left \in Tables /\ \A fd \in FDs : left[fd] = IF Table(t)[fd].cx THEN None ELSE Table(t)[fd]
  <2> DEFINE T == Table(t)
  <2>1. T \in Tables
    BY <1>1
  <2> HIDE DEF T
  <2>2. \A fd \in FDs : T[fd] \in Files /\ None \in Files
    BY <2>1 DEF Tables, Files
  <2>3. [fd \in FDs |-> IF T[fd].cx THEN None ELSE T[fd]] \in [FDs -> Files]
    BY <2>2
  <2> QED
    BY <2>3 DEF T, Tables
<1>8. /\ wrong \subseteq FDs /\ off[ptr[t]] \subseteq wrong /\ (shared => wrong = FDs)
      /\ \A u \in gone : pc[u].foot \subseteq wrong
  <2>1. off[ptr[t]] \subseteq FDs
    BY <1>1
  <2> DEFINE U == UNION {pc[u].foot : u \in gone}
  <2>2. U \subseteq FDs /\ \A u \in gone : pc[u].foot \subseteq U
    <3> HIDE DEF gone
    <3> QED BY <1>1, <1>4
  <2>3. wrong = IF shared THEN FDs ELSE off[ptr[t]] \cup U
    OBVIOUS
  <2>4. \A u \in gone : pc[u].foot \subseteq FDs
    BY <1>1, <1>4
  <2> HIDE DEF U, wrong, shared, gone
  <2> QED
    BY <2>1, <2>2, <2>3, <2>4
<1>9. shared \in BOOLEAN /\ (~shared => \A u \in rest \ {t} : tbl[u] # tbl[t])
  OBVIOUS
<1> DEFINE p == Done("execve", << >>, << >>, FALSE)
<1>10. p \in PCs /\ p.at = "done" /\ p.call = "execve" /\ p.foot = {}
  <2> DEFINE no == FALSE
             name == "execve"
  <2>1. name \in OtherCalls /\ no \in BOOLEAN /\ p = Done(name, << >>, << >>, no)
    BY DEF OtherCalls
  <2> HIDE DEF no, name, p
  <2> QED
    BY <2>1, DoneNone DEF name
<1>11. Idle("none") \in PCs /\ Idle("none").at = "none" /\ Idle("none").foot = {}
  BY IdleNone
<1> DEFINE n == Idle("none")
<1>12. pc' = [u \in Threads |-> IF u = t THEN p ELSE IF u \in gone THEN n ELSE pc[u]]
  BY <1>2
<1> HIDE DEF gone, rest, shared, new, id, left, wrong, p, n
<1>13. /\ pc' \in [Threads -> PCs] /\ pc'[t] = p /\ \A u \in gone : pc'[u] = n
       /\ \A u \in Threads \ (gone \cup {t}) : pc'[u] = pc[u]
  BY <1>1, <1>4, <1>10, <1>11, <1>12 DEF n
<1>14. tbl' \in [Threads -> Threads] /\ tbl'[t] = id /\ \A u \in Threads \ {t} : tbl'[u] = tbl[u]
  BY <1>1, <1>2, <1>6
<1>15. file' \in [Threads -> Tables] /\ file'[id] = left /\ \A i \in Threads \ {id} : file'[i] = file[i]
  BY <1>1, <1>2, <1>6, <1>7
<1>16. off' \in [Threads -> SUBSET FDs] /\ off'[ptr[t]] = wrong /\ \A i \in Threads \ {ptr[t]} : off'[i] = off[i]
  BY <1>1, <1>2, <1>8
<1>17. \A i \in Threads : off[i] \subseteq off'[i] /\ off'[i] \subseteq FDs
  BY <1>1, <1>8, <1>16
<1>18. /\ pc[t].at = "user"
       /\ ptr' = ptr /\ map' = map /\ proc' = proc
  BY <1>2
<1>19. /\ pc'[t].at = "done" /\ pc'[t].call = "execve" /\ pc'[t].foot = {}
       /\ \A u \in gone : pc'[u].at = "none" /\ pc'[u].foot = {}
  BY <1>10, <1>11, <1>13 DEF n
<1>20. /\ \A u \in Threads \ (gone \cup {t}) : pc[u].at # "none" => proc[u] # proc[t]
       /\ \A u \in Threads \ (gone \cup {t}) : pc[u].at # "none" => tbl[u] # id
       /\ ~shared => \A u \in Threads \ (gone \cup {t}) : pc[u].at # "none" => tbl[u] # tbl[t]
  BY <1>4, <1>6, <1>9
<1>21. /\ \A fd \in FDs : file'[id][fd] = IF Table(t)[fd].cx THEN None ELSE Table(t)[fd]
       /\ shared => off'[ptr[t]] = FDs
       /\ \A u \in gone : pc[u].foot \subseteq off'[ptr[t]]
  BY <1>7, <1>8, <1>15, <1>16
<1>22. Execed(t, gone, id, shared)
  BY <1>4, <1>6, <1>9, <1>13, <1>14, <1>15, <1>16, <1>17, <1>18, <1>19, <1>20, <1>21 DEF Execed
<1> QED
  BY <1>4, <1>6, <1>9, <1>22

\* A new program is executed.
LEMMA ExecInv ==
  ASSUME FDInv, NEW t \in Threads, Exec(t)
  PROVE  FDInv'
<1>1. PICK gone \in SUBSET Threads, id \in Threads, shared \in BOOLEAN : Execed(t, gone, id, shared)
  BY ExecFacts DEF FDInv
<1>2. /\ pc \in [Threads -> PCs] /\ tbl \in [Threads -> Threads] /\ ptr \in [Threads -> Threads]
      /\ file \in [Threads -> Tables] /\ map \in [Threads -> Maps] /\ off \in [Threads -> SUBSET FDs]
      /\ \A u \in Threads : /\ ptr[u] \in Threads /\ tbl[u] \in Threads /\ pc[u] \in PCs /\ map[ptr[u]] \in Maps
                            /\ Table(u) \in Tables /\ pc[u].foot \subseteq FDs
  BY DEF FDInv, TypeInv, Table, PCs
<1>3. ptr' = ptr /\ map' = map /\ proc' = proc /\ pc[t].at = "user" /\ t \notin gone
  BY <1>1 DEF Execed
<1>4. /\ ~Calling(t)' /\ ~Forking(t)' /\ Execing(t)' /\ Seen(t)'
      /\ ~Calling(t) /\ ~Forking(t) /\ ~Execing(t) /\ Seen(t)
  BY <1>1 DEF Calling, Forking, Execing, Seen, Execed
<1>5. ASSUME NEW u \in gone
      PROVE  ~Calling(u)' /\ ~Forking(u)' /\ ~Execing(u)' /\ ~Seen(u)' /\ ~Forking(u) /\ Seen(u) /\ pc[u].at # "new"
             /\ u \in Threads
  <2>1. pc[u] \in PCs
    BY <1>2
  <2>2. pc[u].at \in {"known", "user", "done"}
    BY <1>1, <2>1 DEF PCs, Execed
  <2> QED
    BY <1>1, <2>2 DEF Calling, Forking, Execing, Seen, Execed
<1>6. ASSUME NEW u \in Threads \ (gone \cup {t})
      PROVE  /\ pc'[u] = pc[u]
             /\ Calling(u)' = Calling(u) /\ Forking(u)' = Forking(u) /\ Execing(u)' = Execing(u)
             /\ Seen(u)' = Seen(u) /\ Child(u)' = Child(u)
  BY <1>1 DEF Calling, Forking, Execing, Seen, Child, Execed
<1>7. \A u \in Threads : /\ Calling(u)' => Calling(u) /\ u \notin gone \cup {t} /\ pc'[u] = pc[u]
                         /\ Forking(u)' => Forking(u) /\ u \notin gone \cup {t} /\ pc'[u] = pc[u] /\ Child(u)' = Child(u)
                         /\ Seen(u)' => Seen(u) /\ u \notin gone
                         /\ Execing(u)' /\ u # t => Execing(u) /\ u \notin gone
                         /\ pc'[u].at # "none" => pc[u].at # "none" /\ u \notin gone
  <2>1. \A u \in gone : pc'[u].at = "none"
    BY <1>1 DEF Execed
  <2> QED
    BY <1>3, <1>4, <1>5, <1>6, <2>1
\* The other processes keep their tables.
<1>8. ASSUME NEW u \in Threads \ (gone \cup {t}), pc[u].at # "none"
      PROVE  /\ tbl'[u] = tbl[u] /\ tbl[u] # id /\ Table(u)' = Table(u) /\ file'[tbl[u]] = file[tbl[u]]
             /\ proc[u] # proc[t]
  BY <1>1, <1>2, <1>8 DEF Execed, Table
<1>9. tbl'[t] = id
  BY <1>1 DEF Execed
<1>10. \A i \in Threads : off[i] \subseteq off'[i] /\ off'[i] \subseteq FDs
  BY <1>1 DEF Execed
<1>25. \A u \in Threads : off[ptr[u]] = FDs => off'[ptr[u]] = FDs
  <2>1. \A u \in Threads : off[ptr[u]] \subseteq off'[ptr[u]] /\ off'[ptr[u]] \subseteq FDs
    BY <1>2, <1>10
  <2> QED
    BY <2>1
\* What shares the map but not the process has lost it.
<1>11. ASSUME NEW u \in Threads \ (gone \cup {t}), Seen(u), ptr[u] = ptr[t]
       PROVE  off'[ptr[u]] = FDs
  <2>1. CASE shared
    BY <1>1, <1>11, <2>1 DEF Execed
  <2>2. CASE ~shared
    <3>1. tbl[u] # tbl[t]
      BY <1>1, <1>11, <2>2 DEF Execed, Seen
    <3>2. off[ptr[u]] = FDs
      BY <1>4, <1>11, <3>1 DEF FDInv, Sharing
    <3> QED
      BY <1>25, <3>2
  <2> QED
    BY <2>1, <2>2
<1>12. \A u \in Threads : (Calling(u) \/ Execing(u) \/ Seen(u) \/ Forking(u)) => pc[u].at # "none" /\ Seen(u)
  BY DEF Calling, Execing, Seen, Forking
<1>13. TypeInv'
  BY <1>1, <1>2, <1>3 DEF Execed, FDInv, TypeInv
<1>14. CallsShaped'
  <2> SUFFICES ASSUME NEW u \in Threads
               PROVE  /\ Calling(u)' => Shaped(pc'[u]) /\ pc'[u].call # "none"
                      /\ ~Calling(u)' /\ ~Forking(u)' => pc'[u].foot = {}
    BY DEF CallsShaped
  <2>1. CASE u \in gone \cup {t}
    BY <1>1, <1>4, <1>5, <2>1 DEF Execed
  <2>2. CASE u \notin gone \cup {t}
    BY <1>6, <2>2 DEF FDInv, CallsShaped
  <2> QED
    BY <2>1, <2>2
<1>15. Processes'
  BY <1>3, <1>7 DEF FDInv, Processes
<1>16. Sharing'
  <2> SUFFICES ASSUME NEW u \in Threads, NEW v \in Threads, Seen(u)', Seen(v)', u # v
               PROVE  /\ tbl'[u] = tbl'[v] => ptr[u] = ptr[v]
                      /\ ptr[u] = ptr[v] /\ tbl'[u] # tbl'[v] => off'[ptr[u]] = FDs
    BY <1>3 DEF Sharing
  <2>1. Seen(u) /\ Seen(v) /\ u \notin gone /\ v \notin gone
    BY <1>7
  <2>2. CASE u = t
    BY <1>8, <1>9, <1>11, <1>12, <2>1, <2>2
  <2>3. CASE v = t
    BY <1>8, <1>9, <1>11, <1>12, <2>1, <2>3
  <2>4. CASE u # t /\ v # t
    <3>1. tbl'[u] = tbl[u] /\ tbl'[v] = tbl[v]
      BY <1>8, <1>12, <2>1, <2>4
    <3> QED
      BY <1>25, <2>1, <3>1 DEF FDInv, Sharing
  <2> QED
    BY <2>2, <2>3, <2>4
<1>17. ForksShaped'
  <2> SUFFICES ASSUME NEW u \in Threads, Forking(u)'
               PROVE  /\ Child(u)' \in Threads /\ pc'[Child(u)'].at = "new"
                      /\ \A v \in Threads : Forking(v)' /\ Child(v)' = Child(u)' => v = u
                      /\ pc'[u].cx => tbl'[Child(u)'] = tbl'[u]
                      /\ ~pc'[u].cx => \A v \in Threads \ {Child(u)'} : pc'[v].at # "none" => tbl'[v] # tbl'[Child(u)']
                      /\ \A v \in Threads : Calling(v)' /\ tbl'[v] = tbl'[u] => pc'[v].foot \subseteq pc'[u].foot
    BY DEF ForksShaped
  <2>1. Forking(u) /\ Child(u)' = Child(u) /\ pc'[u] = pc[u] /\ u \notin gone \cup {t}
    BY <1>7
  <2>2. /\ Child(u) \in Threads /\ pc[Child(u)].at = "new"
        /\ \A v \in Threads : Forking(v) /\ Child(v) = Child(u) => v = u
        /\ pc[u].cx => tbl[Child(u)] = tbl[u]
        /\ ~pc[u].cx => \A v \in Threads \ {Child(u)} : pc[v].at # "none" => tbl[v] # tbl[Child(u)]
        /\ \A v \in Threads : Calling(v) /\ tbl[v] = tbl[u] => pc[v].foot \subseteq pc[u].foot
    BY <2>1 DEF FDInv, ForksShaped
  <2>3. Child(u) \notin gone \cup {t}
    BY <1>3, <1>5, <2>2
  <2>4. /\ pc'[Child(u)] = pc[Child(u)] /\ tbl'[Child(u)] = tbl[Child(u)] /\ tbl[Child(u)] # id
        /\ tbl'[u] = tbl[u]
    BY <1>6, <1>8, <1>12, <2>1, <2>2, <2>3
  <2>5. ASSUME ~pc[u].cx, NEW v \in Threads \ {Child(u)}, pc'[v].at # "none"
        PROVE  tbl'[v] # tbl[Child(u)]
    <3>1. CASE v = t
      BY <1>9, <2>4, <3>1
    <3>2. CASE v # t
      BY <1>7, <1>8, <2>2, <2>5, <3>2
    <3> QED
      BY <3>1, <3>2
  <2>6. \A v \in Threads : Calling(v)' /\ tbl'[v] = tbl'[u] => pc'[v].foot \subseteq pc[u].foot
    BY <1>7, <1>8, <1>12, <2>2, <2>4
  <2> QED
    BY <1>7, <2>1, <2>2, <2>4, <2>5, <2>6
<1>18. \A u \in Threads : Calling(u)' => /\ Calling(u) /\ u \notin gone \cup {t} /\ pc'[u] = pc[u] /\ Seen(u)
                                         /\ tbl'[u] = tbl[u] /\ Table(u)' = Table(u)
  BY <1>7, <1>8, <1>12
<1>19. Overlap'
  <2> SUFFICES ASSUME NEW u \in Threads, NEW v \in Threads, u # v, Calling(u)', Calling(v)', tbl'[u] = tbl'[v],
                      pc'[u].foot \cap pc'[v].foot # {}
               PROVE  pc'[u].clash /\ pc'[u].foot \subseteq off'[ptr[u]]
    BY <1>3 DEF Overlap
  <2>1. Calling(u) /\ Calling(v) /\ pc'[u] = pc[u] /\ pc'[v] = pc[v] /\ tbl[u] = tbl[v]
    BY <1>18
  <2> QED
    BY <1>2, <1>10, <2>1 DEF FDInv, Overlap
<1>20. SourcesKept'
  <2> SUFFICES ASSUME NEW v \in Threads, Calling(v)', pc'[v].call \in Copies, pc'[v].src[1] \in off'[ptr[v]]
               PROVE  pc'[v].foot \subseteq off'[ptr[v]]
    BY <1>3 DEF SourcesKept
  <2>1. Calling(v) /\ pc'[v] = pc[v] /\ v \notin gone \cup {t} /\ Seen(v)
    BY <1>18
  <2>2. CASE ptr[v] = ptr[t]
    BY <1>2, <1>11, <2>1, <2>2
  <2>3. CASE ptr[v] # ptr[t]
    <3>1. off'[ptr[v]] = off[ptr[v]]
      BY <1>1, <1>2, <2>3 DEF Execed
    <3> QED
      BY <2>1, <3>1 DEF FDInv, SourcesKept
  <2> QED
    BY <2>2, <2>3
<1>21. MapsAgree'
  <2> SUFFICES ASSUME NEW v \in Threads, Seen(v)', ~Execing(v)'
               PROVE  MapAgrees(v)' \/ Fresh(v)'
    BY DEF MapsAgree
  <2>1. v \notin gone \cup {t} /\ Seen(v)
    BY <1>4, <1>7
  <2>2. ~Execing(v) /\ pc'[v] = pc[v] /\ Table(v)' = Table(v) /\ tbl'[v] = tbl[v]
    BY <1>6, <1>8, <1>12, <2>1
  <2>3. CASE MapAgrees(v)
    <3> SUFFICES ASSUME NEW fd \in FDs \ off'[ptr[v]]
                 PROVE  Under(v, fd)' \/ Agrees(map[ptr[v]][fd], Table(v)[fd])
      BY <1>3, <2>2 DEF MapAgrees
    <3>1. ptr[v] # ptr[t]
      BY <1>11, <2>1
    <3>2. Under(v, fd) \/ Agrees(map[ptr[v]][fd], Table(v)[fd])
      BY <1>2, <1>10, <2>3 DEF MapAgrees
    <3>3. ASSUME Under(v, fd) PROVE Under(v, fd)'
      <4>1. PICK u \in Threads : Calling(u) /\ tbl[u] = tbl[v] /\ fd \in pc[u].foot
        BY <3>3 DEF Under
      <4>2. u # t
        BY <1>4, <4>1
      <4>3. u \notin gone
        <5>1. SUFFICES ASSUME u \in gone PROVE FALSE
          OBVIOUS
        <5>2. proc[u] = proc[t]
          BY <1>1, <5>1 DEF Execed
        <5>3. ptr[u] = ptr[t]
          BY <1>4, <1>12, <4>1, <5>2 DEF FDInv, Processes
        <5>4. ptr[v] = ptr[u]
          BY <1>12, <2>1, <4>1 DEF FDInv, Sharing
        <5> QED
          BY <3>1, <5>3, <5>4
      <4> QED
        BY <1>6, <1>8, <1>12, <2>2, <4>1, <4>2, <4>3 DEF Under
    <3> QED
      BY <3>2, <3>3
  <2>4. CASE Fresh(v)
    BY <1>3, <1>7, <2>2, <2>4 DEF Fresh
  <2> QED
    BY <2>1, <2>2, <2>3, <2>4 DEF FDInv, MapsAgree
<1>22. CallsAgree'
  <2> SUFFICES ASSUME NEW v \in Threads, Calling(v)' PROVE CallAgrees(v)'
    BY DEF CallsAgree
  <2>1. Calling(v) /\ pc'[v] = pc[v] /\ Table(v)' = Table(v) /\ CallAgrees(v) /\ off[ptr[v]] \subseteq off'[ptr[v]]
    BY <1>2, <1>10, <1>18 DEF FDInv, CallsAgree
  <2> QED
    BY <1>3, <2>1 DEF CallAgrees
<1>23. ExecsAgree'
  <2> SUFFICES ASSUME NEW v \in Threads, Execing(v)'
               PROVE  /\ \A u \in Threads \ {v} : pc'[u].at # "none" => tbl'[u] # tbl'[v]
                      /\ \A fd \in FDs \ off'[ptr[v]] :
                            \/ Agrees(map[ptr[v]][fd], Table(v)'[fd])
                            \/ map[ptr[v]][fd] # NoInfo /\ Table(v)'[fd] = None
    BY <1>3 DEF ExecsAgree
  <2>1. CASE v = t
    <3>1. \A u \in Threads \ {t} : pc'[u].at # "none" => tbl'[u] # id
      BY <1>7, <1>8
    <3>2. ASSUME NEW fd \in FDs \ off'[ptr[t]]
          PROVE  \/ Agrees(map[ptr[t]][fd], Table(t)'[fd])
                 \/ map[ptr[t]][fd] # NoInfo /\ Table(t)'[fd] = None
      <4>1. ~shared
        BY <1>1, <3>2 DEF Execed
      <4>2. MapAgrees(t) /\ fd \notin off[ptr[t]]
        BY <1>2, <1>3, <1>4, <1>10 DEF FDInv, MapsAgree, Fresh
      <4>3. ~Under(t, fd)
        <5>1. SUFFICES ASSUME NEW u \in Threads, Calling(u), tbl[u] = tbl[t], fd \in pc[u].foot PROVE FALSE
          BY DEF Under
        <5>2. u \in gone
          BY <1>1, <1>4, <1>12, <4>1, <5>1 DEF Execed
        <5> QED
          BY <1>1, <5>1, <5>2 DEF Execed
      <4>4. Agrees(map[ptr[t]][fd], Table(t)[fd])
        BY <4>2, <4>3 DEF MapAgrees
      <4>5. Table(t)'[fd] = IF Table(t)[fd].cx THEN None ELSE Table(t)[fd]
        BY <1>1, <1>9 DEF Execed, Table
      <4>6. None.cx = FALSE
        BY DEF None
      <4> QED
        BY <4>4, <4>5, <4>6 DEF Agrees
    <3> QED
      BY <1>9, <2>1, <3>1, <3>2
  <2>2. CASE v # t
    <3>1. Execing(v) /\ v \notin gone /\ pc[v].at # "none"
      BY <1>7, <1>12, <2>2
    <3>2. Table(v)' = Table(v) /\ tbl'[v] = tbl[v] /\ tbl[v] # id
      BY <1>8, <2>2, <3>1
    <3>3. /\ \A u \in Threads \ {v} : pc[u].at # "none" => tbl[u] # tbl[v]
          /\ \A fd \in FDs \ off[ptr[v]] :
                \/ Agrees(map[ptr[v]][fd], Table(v)[fd])
                \/ map[ptr[v]][fd] # NoInfo /\ Table(v)[fd] = None
      BY <3>1 DEF FDInv, ExecsAgree
    <3>4. \A u \in Threads \ {v} : pc'[u].at # "none" => tbl'[u] # tbl[v]
      BY <1>7, <1>8, <1>9, <3>2, <3>3
    <3> QED
      BY <1>2, <1>10, <3>2, <3>3, <3>4
  <2> QED
    BY <2>1, <2>2
<1>24. ForksAgree'
  <2> SUFFICES ASSUME NEW v \in Threads, Forking(v)', ~pc'[v].cx,
                      NEW fd \in FDs \ (off'[ptr[v]] \cup pc'[v].foot)
               PROVE  Agrees(map[ptr[v]][fd], file'[tbl'[Child(v)']][fd])
    BY <1>3 DEF ForksAgree
  <2>1. Forking(v) /\ Child(v)' = Child(v) /\ pc'[v] = pc[v]
    BY <1>7
  <2>2. Child(v) \in Threads /\ pc[Child(v)].at = "new"
    BY <2>1 DEF FDInv, ForksShaped
  <2>3. Child(v) \notin gone \cup {t}
    BY <1>3, <1>5, <2>2
  <2>4. tbl'[Child(v)] = tbl[Child(v)] /\ file'[tbl[Child(v)]] = file[tbl[Child(v)]]
    BY <1>8, <2>2, <2>3
  <2>5. fd \notin off[ptr[v]]
    BY <1>2, <1>10
  <2> QED
    BY <2>1, <2>4, <2>5 DEF FDInv, ForksAgree
<1> QED
  BY <1>3, <1>13, <1>14, <1>15, <1>16, <1>17, <1>19, <1>20, <1>21, <1>22, <1>23, <1>24 DEF FDInv

\* unshare(CLONE_FILES): a thread has got a table of its own, id.
Unshared(t, id) ==
    /\ pc[t].at = "user" /\ (\E u \in Threads \ {t} : pc[u].at # "none" /\ tbl[u] = tbl[t])
    /\ UNCHANGED <<pc, proc, ptr, map>>
    /\ id \in Threads /\ \A u \in Threads : pc[u].at # "none" => tbl[u] # id
    /\ tbl' \in [Threads -> Threads] /\ tbl'[t] = id /\ \A u \in Threads \ {t} : tbl'[u] = tbl[u]
    /\ file' \in [Threads -> Tables] /\ file'[id] = Table(t) /\ \A i \in Threads \ {id} : file'[i] = file[i]
    /\ off' \in [Threads -> SUBSET FDs] /\ off'[ptr[t]] = FDs /\ \A i \in Threads \ {ptr[t]} : off'[i] = off[i]

\* What Unshare() does
LEMMA UnshareFacts ==
  ASSUME TypeInv, NEW t \in Threads, Unshare(t)
  PROVE  \E id \in Threads : Unshared(t, id)
<1>1. /\ tbl \in [Threads -> Threads] /\ file \in [Threads -> Tables] /\ off \in [Threads -> SUBSET FDs]
      /\ ptr[t] \in Threads /\ Table(t) \in Tables
  BY DEF TypeInv, Table
<1> DEFINE S  == Alive \ {t}
           id == Unused({tbl[u] : u \in Alive})
<1>2. /\ pc[t].at = "user" /\ (\E u \in S : tbl[u] = tbl[t])
      /\ tbl' = [tbl EXCEPT ![t] = id] /\ file' = [file EXCEPT ![id] = Table(t)]
      /\ off' = [off EXCEPT ![ptr[t]] = FDs]
      /\ UNCHANGED <<pc, proc, ptr, map>>
  BY DEF Unshare, Running
<1>3. S \in SUBSET Threads /\ t \in Threads \ S /\ \A u \in Threads : pc[u].at # "none" => u \in S \/ u = t
  BY DEF Alive
<1>4. {tbl[u] : u \in Alive} = {tbl[u] : u \in S}
  BY <1>2
<1>5. id \in Threads /\ \A u \in S : tbl[u] # id
  <2> HIDE DEF S
  <2>1. Unused({tbl[u] : u \in S}) \in Threads /\ \A u \in S : tbl[u] # Unused({tbl[u2] : u2 \in S})
    BY <1>1, <1>3, UnusedExists
  <2>2. id = Unused({tbl[u] : u \in S})
    BY <1>4
  <2> HIDE DEF id
  <2> QED
    BY <2>1, <2>2
<1>6. \E u \in Threads \ {t} : pc[u].at # "none" /\ tbl[u] = tbl[t]
  BY <1>2 DEF Alive
<1> HIDE DEF S, id
<1>7. \A u \in Threads : pc[u].at # "none" => tbl[u] # id
  BY <1>2, <1>3, <1>5
<1> QED
  BY <1>1, <1>2, <1>5, <1>6, <1>7 DEF Unshared

\* unshare() of the descriptor table: the map is in doubt.
LEMMA UnshareInv ==
  ASSUME FDInv, NEW t \in Threads, Unshare(t)
  PROVE  FDInv'
<1>1. PICK id \in Threads : Unshared(t, id)
  BY UnshareFacts DEF FDInv
<1>2. /\ pc \in [Threads -> PCs] /\ ptr \in [Threads -> Threads] /\ off \in [Threads -> SUBSET FDs]
      /\ \A u \in Threads : ptr[u] \in Threads /\ tbl[u] \in Threads /\ pc[u] \in PCs /\ pc[u].foot \subseteq FDs
  BY DEF FDInv, TypeInv, PCs
<1>3. ptr' = ptr /\ map' = map /\ proc' = proc /\ pc' = pc
  BY <1>1 DEF Unshared
<1>4. ~Calling(t) /\ ~Forking(t) /\ ~Execing(t) /\ Seen(t) /\ pc[t].at = "user" /\ pc[t].at # "new"
  BY <1>1 DEF Calling, Forking, Execing, Seen, Unshared
<1>5. \A u \in Threads : /\ Calling(u)' = Calling(u) /\ Forking(u)' = Forking(u) /\ Execing(u)' = Execing(u)
                         /\ Seen(u)' = Seen(u) /\ Child(u)' = Child(u)
  BY <1>3 DEF Calling, Forking, Execing, Seen, Child
<1>6. \A u \in Threads : (Calling(u) \/ Execing(u) \/ Seen(u) \/ Forking(u)) => pc[u].at # "none"
  BY DEF Calling, Execing, Seen, Forking
\* The other threads keep their tables.
<1>7. \A u \in Threads \ {t} : pc[u].at # "none" =>
          tbl'[u] = tbl[u] /\ tbl[u] # id /\ Table(u)' = Table(u) /\ file'[tbl[u]] = file[tbl[u]]
  BY <1>1, <1>2 DEF Unshared, Table
<1>8. tbl'[t] = id /\ off'[ptr[t]] = FDs
  BY <1>1 DEF Unshared
<1>9. \A i \in Threads : off[i] \subseteq off'[i] /\ off'[i] \subseteq FDs
  BY <1>1, <1>2 DEF Unshared
<1>10. \A u \in Threads : off[ptr[u]] = FDs => off'[ptr[u]] = FDs
  <2>1. \A u \in Threads : off[ptr[u]] \subseteq off'[ptr[u]] /\ off'[ptr[u]] \subseteq FDs
    BY <1>2, <1>9
  <2> QED
    BY <2>1
<1>11. TypeInv'
  BY <1>1, <1>2, <1>3 DEF Unshared, FDInv, TypeInv
<1>12. CallsShaped' /\ Processes'
  BY <1>3, <1>5 DEF FDInv, CallsShaped, Processes
<1>13. Sharing'
  <2> SUFFICES ASSUME NEW u \in Threads, NEW v \in Threads, Seen(u), Seen(v), u # v
               PROVE  /\ tbl'[u] = tbl'[v] => ptr[u] = ptr[v]
                      /\ ptr[u] = ptr[v] /\ tbl'[u] # tbl'[v] => off'[ptr[u]] = FDs
    BY <1>3, <1>5 DEF Sharing
  <2>1. CASE u = t \/ v = t
    BY <1>6, <1>7, <1>8, <2>1
  <2>2. CASE u # t /\ v # t
    BY <1>6, <1>7, <1>10, <2>2 DEF FDInv, Sharing
  <2> QED
    BY <2>1, <2>2
<1>14. ForksShaped'
  <2> SUFFICES ASSUME NEW u \in Threads, Forking(u)
               PROVE  /\ Child(u) \in Threads /\ pc[Child(u)].at = "new"
                      /\ \A v \in Threads : Forking(v) /\ Child(v) = Child(u) => v = u
                      /\ pc[u].cx => tbl'[Child(u)] = tbl'[u]
                      /\ ~pc[u].cx => \A v \in Threads \ {Child(u)} : pc[v].at # "none" => tbl'[v] # tbl'[Child(u)]
                      /\ \A v \in Threads : Calling(v) /\ tbl'[v] = tbl'[u] => pc[v].foot \subseteq pc[u].foot
    BY <1>3, <1>5 DEF ForksShaped
  <2>1. /\ Child(u) \in Threads /\ pc[Child(u)].at = "new"
        /\ \A v \in Threads : Forking(v) /\ Child(v) = Child(u) => v = u
        /\ pc[u].cx => tbl[Child(u)] = tbl[u]
        /\ ~pc[u].cx => \A v \in Threads \ {Child(u)} : pc[v].at # "none" => tbl[v] # tbl[Child(u)]
        /\ \A v \in Threads : Calling(v) /\ tbl[v] = tbl[u] => pc[v].foot \subseteq pc[u].foot
    BY DEF FDInv, ForksShaped
  <2>2. u # t /\ Child(u) # t /\ pc[u].at # "none"
    BY <1>4, <1>6, <2>1
  <2>3. tbl'[u] = tbl[u] /\ tbl'[Child(u)] = tbl[Child(u)] /\ tbl[Child(u)] # id
    BY <1>7, <2>1, <2>2
  <2>4. ASSUME ~pc[u].cx, NEW v \in Threads \ {Child(u)}, pc[v].at # "none"
        PROVE  tbl'[v] # tbl[Child(u)]
    <3>1. CASE v = t
      BY <1>8, <2>3, <3>1
    <3>2. CASE v # t
      BY <1>7, <2>1, <2>4, <3>2
    <3> QED
      BY <3>1, <3>2
  <2>5. \A v \in Threads : Calling(v) /\ tbl'[v] = tbl'[u] => pc[v].foot \subseteq pc[u].foot
    BY <1>4, <1>6, <1>7, <2>1, <2>3
  <2> QED
    BY <2>1, <2>3, <2>4, <2>5
<1>15. \A u \in Threads : Calling(u) => u # t /\ tbl'[u] = tbl[u] /\ Table(u)' = Table(u) /\ Seen(u)
  BY <1>4, <1>6, <1>7 DEF Calling, Seen
<1>16. Overlap'
  <2> SUFFICES ASSUME NEW u \in Threads, NEW v \in Threads, u # v, Calling(u), Calling(v), tbl'[u] = tbl'[v],
                      pc[u].foot \cap pc[v].foot # {}
               PROVE  pc[u].clash /\ pc[u].foot \subseteq off'[ptr[u]]
    BY <1>3, <1>5 DEF Overlap
  <2>1. tbl[u] = tbl[v]
    BY <1>15
  <2> QED
    BY <1>2, <1>9, <2>1 DEF FDInv, Overlap
<1>17. SourcesKept'
  <2> SUFFICES ASSUME NEW v \in Threads, Calling(v), pc[v].call \in Copies, pc[v].src[1] \in off'[ptr[v]]
               PROVE  pc[v].foot \subseteq off'[ptr[v]]
    BY <1>3, <1>5 DEF SourcesKept
  <2>1. CASE ptr[v] = ptr[t]
    BY <1>2, <1>8, <2>1
  <2>2. CASE ptr[v] # ptr[t]
    <3>1. off'[ptr[v]] = off[ptr[v]]
      BY <1>1, <1>2, <2>2 DEF Unshared
    <3> QED
      BY <3>1 DEF FDInv, SourcesKept
  <2> QED
    BY <2>1, <2>2
\* Whoever shares the map has lost it.
<1>18. MapsAgree'
  <2> SUFFICES ASSUME NEW v \in Threads, Seen(v), ~Execing(v)
               PROVE  MapAgrees(v)' \/ Fresh(v)'
    BY <1>5 DEF MapsAgree
  <2>1. CASE ptr[v] = ptr[t]
    BY <1>3, <1>8, <2>1 DEF MapAgrees
  <2>2. CASE ptr[v] # ptr[t] /\ MapAgrees(v)
    <3>1. v # t /\ pc[v].at # "none"
      BY <1>6, <2>2
    <3>2. Table(v)' = Table(v) /\ tbl'[v] = tbl[v] /\ tbl[v] # id
      BY <1>7, <3>1
    <3> SUFFICES ASSUME NEW fd \in FDs \ off'[ptr[v]]
                 PROVE  Under(v, fd)' \/ Agrees(map[ptr[v]][fd], Table(v)[fd])
      BY <1>3, <3>2 DEF MapAgrees
    <3>3. Under(v, fd) \/ Agrees(map[ptr[v]][fd], Table(v)[fd])
      BY <1>2, <1>9, <2>2 DEF MapAgrees
    <3>4. ASSUME Under(v, fd) PROVE Under(v, fd)'
      BY <1>3, <1>5, <1>15, <3>2, <3>4 DEF Under
    <3> QED
      BY <3>3, <3>4
  <2>3. CASE ptr[v] # ptr[t] /\ Fresh(v)
    BY <1>3, <1>5, <2>3 DEF Fresh
  <2> QED
    BY <2>1, <2>2, <2>3 DEF FDInv, MapsAgree
<1>19. CallsAgree'
  <2> SUFFICES ASSUME NEW v \in Threads, Calling(v) PROVE CallAgrees(v)'
    BY <1>5 DEF CallsAgree
  <2>1. Table(v)' = Table(v) /\ CallAgrees(v) /\ off[ptr[v]] \subseteq off'[ptr[v]]
    BY <1>2, <1>9, <1>15 DEF FDInv, CallsAgree
  <2> QED
    BY <1>3, <2>1 DEF CallAgrees
<1>20. ExecsAgree'
  <2> SUFFICES ASSUME NEW v \in Threads, Execing(v)
               PROVE  /\ \A u \in Threads \ {v} : pc[u].at # "none" => tbl'[u] # tbl'[v]
                      /\ \A fd \in FDs \ off'[ptr[v]] :
                            \/ Agrees(map[ptr[v]][fd], Table(v)'[fd])
                            \/ map[ptr[v]][fd] # NoInfo /\ Table(v)'[fd] = None
    BY <1>3, <1>5 DEF ExecsAgree
  <2>1. v # t /\ pc[v].at # "none"
    BY <1>4, <1>6
  <2>2. Table(v)' = Table(v) /\ tbl'[v] = tbl[v] /\ tbl[v] # id
    BY <1>7, <2>1
  <2>3. /\ \A u \in Threads \ {v} : pc[u].at # "none" => tbl[u] # tbl[v]
        /\ \A fd \in FDs \ off[ptr[v]] :
              \/ Agrees(map[ptr[v]][fd], Table(v)[fd])
              \/ map[ptr[v]][fd] # NoInfo /\ Table(v)[fd] = None
    BY DEF FDInv, ExecsAgree
  <2>4. \A u \in Threads \ {v} : pc[u].at # "none" => tbl'[u] # tbl[v]
    BY <1>7, <1>8, <2>2, <2>3
  <2> QED
    BY <1>2, <1>9, <2>2, <2>3, <2>4
<1>21. ForksAgree'
  <2> SUFFICES ASSUME NEW v \in Threads, Forking(v), ~pc[v].cx, NEW fd \in FDs \ (off'[ptr[v]] \cup pc[v].foot)
               PROVE  Agrees(map[ptr[v]][fd], file'[tbl'[Child(v)]][fd])
    BY <1>3, <1>5 DEF ForksAgree
  <2>1. Child(v) \in Threads /\ pc[Child(v)].at = "new" /\ Child(v) # t
    BY <1>4 DEF FDInv, ForksShaped
  <2>2. tbl'[Child(v)] = tbl[Child(v)] /\ file'[tbl[Child(v)]] = file[tbl[Child(v)]]
    BY <1>7, <2>1
  <2>3. fd \notin off[ptr[v]]
    BY <1>2, <1>9
  <2> QED
    BY <2>2, <2>3 DEF FDInv, ForksAgree
<1> QED
  BY <1>11, <1>12, <1>13, <1>14, <1>16, <1>17, <1>18, <1>19, <1>20, <1>21 DEF FDInv

(* New threads are attached *)

\* configure(): the child c has got the ProcessData id.
Attached(t, c, id) ==
    /\ tbl' = tbl /\ proc' = proc /\ file' = file
    /\ pc' \in [Threads -> PCs] /\ pc'[t].at = "user" /\ pc'[t].foot = {}
    /\ pc'[c].at = "known" /\ pc'[c].foot = {} /\ \A u \in Threads \ {t, c} : pc'[u] = pc[u]
    /\ ptr' \in [Threads -> Threads] /\ ptr'[c] = id /\ \A u \in Threads \ {c} : ptr'[u] = ptr[u]
    /\ map' \in [Threads -> Maps] /\ map'[id] = map[ptr[t]] /\ \A i \in Threads \ {id} : map'[i] = map[i]
    /\ off' \in [Threads -> SUBSET FDs] /\ \A i \in Threads \ {id} : off'[i] = off[i]
    /\ pc[t].cx => id = ptr[t] /\ off'[id] = off[ptr[t]]
    /\ ~pc[t].cx => /\ \A u \in Threads : Seen(u) => ptr[u] # id
                    /\ off'[id] = off[ptr[t]] \cup pc[t].foot

\* What AutoAttach() does
LEMMA AutoAttachFacts ==
  ASSUME FDInv, NEW t \in Threads, AutoAttach(t)
  PROVE  Forking(t) /\ \E id \in Threads : Attached(t, Child(t), id)
<1>1. /\ pc \in [Threads -> PCs] /\ tbl \in [Threads -> Threads] /\ ptr \in [Threads -> Threads]
      /\ map \in [Threads -> Maps] /\ off \in [Threads -> SUBSET FDs]
      /\ ptr[t] \in Threads /\ map[ptr[t]] \in Maps /\ off[ptr[t]] \subseteq FDs
      /\ pc[t].foot \subseteq FDs /\ pc[t].cx \in BOOLEAN
  BY DEF FDInv, TypeInv, PCs
<1>2. Forking(t)
  BY DEF AutoAttach, Forking
<1>3. Child(t) \in Threads /\ pc[Child(t)].at = "new" /\ pc[t].at = "done"
  BY <1>2 DEF FDInv, ForksShaped, Forking
<1> DEFINE c == Child(t)
           S == {v \in Alive : pc[v].at # "new"}
           new == Unused({ptr[u] : u \in S})
           id == IF pc[t].cx THEN ptr[t] ELSE new
           o == off[ptr[t]] \cup (IF id = ptr[t] THEN {} ELSE pc[t].foot)
           a == Idle("user")
           k == Idle("known")
<1>4. /\ ptr' = [ptr EXCEPT ![c] = id]
      /\ map' = [map EXCEPT ![id] = map[ptr[t]]]
      /\ off' = [off EXCEPT ![id] = o]
      /\ pc' = [pc EXCEPT ![t] = a, ![c] = k]
      /\ tbl' = tbl /\ proc' = proc /\ file' = file
  BY DEF AutoAttach, SharesFileDescriptors, Child
<1>5. S \in SUBSET Threads /\ c \in Threads \ S /\ \A u \in Threads : Seen(u) => u \in S
  BY <1>3 DEF Alive, Seen
<1>6. Seen(t)
  BY <1>3 DEF Seen
<1> HIDE DEF S, c
<1>7. new \in Threads /\ \A u \in S : ptr[u] # new
  BY <1>1, <1>5, UnusedExists
<1>8. /\ a \in PCs /\ a.at = "user" /\ a.foot = {} /\ k \in PCs /\ k.at = "known" /\ k.foot = {}
  BY IdleNone
<1> HIDE DEF new, a, k
<1>9. id \in Threads
  BY <1>1, <1>7
<1>10. /\ pc[t].cx => id = ptr[t] /\ o = off[ptr[t]]
       /\ ~pc[t].cx => (\A u \in Threads : Seen(u) => ptr[u] # id) /\ o = off[ptr[t]] \cup pc[t].foot
  BY <1>5, <1>6, <1>7
<1>11. o \in SUBSET FDs
  BY <1>1, <1>10
<1> HIDE DEF id, o
<1>12. c \in Threads /\ c # t
  BY <1>3 DEF c
<1>13. pc' \in [Threads -> PCs] /\ pc'[t] = a /\ pc'[c] = k /\ \A u \in Threads \ {t, c} : pc'[u] = pc[u]
  BY <1>1, <1>4, <1>8, <1>12
<1>14. ptr' \in [Threads -> Threads] /\ ptr'[c] = id /\ \A u \in Threads \ {c} : ptr'[u] = ptr[u]
  BY <1>1, <1>4, <1>9, <1>12
<1>15. map' \in [Threads -> Maps] /\ map'[id] = map[ptr[t]] /\ \A i \in Threads \ {id} : map'[i] = map[i]
  BY <1>1, <1>4, <1>9
<1>16. off' \in [Threads -> SUBSET FDs] /\ off'[id] = o /\ \A i \in Threads \ {id} : off'[i] = off[i]
  BY <1>1, <1>4, <1>9, <1>11
<1>17. Attached(t, c, id)
  BY <1>4, <1>8, <1>10, <1>13, <1>14, <1>15, <1>16 DEF Attached
<1> QED
  BY <1>2, <1>9, <1>17 DEF c

\* The child of a clone() is known.
LEMMA AutoAttachInv ==
  ASSUME FDInv, NEW t \in Threads, AutoAttach(t)
  PROVE  FDInv'
<1>0. Forking(t) /\ Child(t) \in Threads /\ \E id \in Threads : Attached(t, Child(t), id)
  BY AutoAttachFacts DEF FDInv, ForksShaped
<1>1. PICK c \in Threads, id \in Threads : c = Child(t) /\ Attached(t, c, id)
  BY <1>0
<1>2. Forking(t) /\ c = Child(t) /\ Attached(t, c, id)
  BY <1>0, <1>1
<1>3. /\ pc \in [Threads -> PCs] /\ tbl \in [Threads -> Threads] /\ ptr \in [Threads -> Threads]
      /\ file \in [Threads -> Tables] /\ map \in [Threads -> Maps] /\ off \in [Threads -> SUBSET FDs]
      /\ \A u \in Threads : ptr[u] \in Threads
  BY DEF FDInv, TypeInv
<1>4. /\ c \in Threads /\ pc[c].at = "new" /\ pc[t].at = "done" /\ c # t
      /\ \A u \in Threads : Forking(u) /\ Child(u) = c => u = t
      /\ pc[t].cx => tbl[c] = tbl[t]
      /\ ~pc[t].cx => \A u \in Threads \ {c} : pc[u].at # "none" => tbl[u] # tbl[c]
  BY <1>2 DEF FDInv, ForksShaped, Forking
<1>5. tbl' = tbl /\ proc' = proc /\ file' = file /\ \A u \in Threads : Table(u)' = Table(u)
  BY <1>2 DEF Attached, Table
<1>6. /\ ~Calling(t)' /\ ~Forking(t)' /\ ~Execing(t)' /\ Seen(t)' /\ ~Calling(t) /\ ~Execing(t) /\ Seen(t)
      /\ ~Calling(c)' /\ ~Forking(c)' /\ ~Execing(c)' /\ Seen(c)' /\ ~Calling(c) /\ ~Execing(c) /\ ~Seen(c)
  BY <1>2, <1>4 DEF Attached, Calling, Forking, Execing, Seen
<1>7. ASSUME NEW u \in Threads \ {t, c}
      PROVE  /\ pc'[u] = pc[u]
             /\ Calling(u)' = Calling(u) /\ Forking(u)' = Forking(u) /\ Execing(u)' = Execing(u)
             /\ Seen(u)' = Seen(u) /\ Child(u)' = Child(u)
  BY <1>2 DEF Attached, Calling, Forking, Execing, Seen, Child
<1>8. \A u \in Threads : /\ (Calling(u)' <=> Calling(u)) /\ (Execing(u)' <=> Execing(u))
                         /\ (Forking(u)' => Forking(u) /\ u # t /\ u # c /\ pc'[u] = pc[u] /\ Child(u)' = Child(u))
                         /\ (Seen(u)' => Seen(u) \/ u = c)
                         /\ (Calling(u) => pc'[u] = pc[u])
                         /\ (pc'[u].at # "none" => pc[u].at # "none")
                         /\ (Calling(u) \/ Forking(u) \/ Execing(u) => Seen(u))
  <2>1. \A u \in Threads : Calling(u) \/ Forking(u) \/ Execing(u) => Seen(u)
    BY DEF Calling, Forking, Execing, Seen
  <2> QED
    BY <1>4, <1>6, <1>7, <2>1
\* Nothing changes for those that are known already.
<1>9. ASSUME NEW u \in Threads, Seen(u)
      PROVE  u # c /\ ptr'[u] = ptr[u] /\ map'[ptr[u]] = map[ptr[u]] /\ off'[ptr[u]] = off[ptr[u]]
  <2>1. u # c /\ ptr'[u] = ptr[u]
    BY <1>2, <1>6, <1>9 DEF Attached
  <2>2. CASE pc[t].cx
    BY <1>2, <1>3, <2>1, <2>2 DEF Attached
  <2>3. CASE ~pc[t].cx
    <3>1. ptr[u] # id
      BY <1>2, <1>9, <2>3 DEF Attached
    <3> QED
      BY <1>2, <1>3, <2>1, <3>1 DEF Attached
  <2> QED
    BY <2>2, <2>3
<1>10. \A v \in Threads : \A fd : Under(v, fd)' <=> Under(v, fd)
  BY <1>5, <1>8 DEF Under
<1>11. TypeInv'
  BY <1>2, <1>3, <1>5 DEF Attached, FDInv, TypeInv
<1>12. CallsShaped'
  <2> SUFFICES ASSUME NEW u \in Threads
               PROVE  /\ Calling(u)' => Shaped(pc'[u]) /\ pc'[u].call # "none"
                      /\ ~Calling(u)' /\ ~Forking(u)' => pc'[u].foot = {}
    BY DEF CallsShaped
  <2>1. CASE u \in {t, c}
    BY <1>2, <1>6, <2>1 DEF Attached
  <2>2. CASE u \notin {t, c}
    BY <1>7, <2>2 DEF FDInv, CallsShaped
  <2> QED
    BY <2>1, <2>2
<1>13. Processes'
  <2>1. ptr'[c] = id /\ (pc[t].cx => id = ptr[t])
    BY <1>2 DEF Attached
  <2>2. ASSUME NEW u \in Threads, Seen(u), proc[u] = proc[c] PROVE ptr'[u] = ptr'[c]
    <3>1. pc[t].cx /\ proc[u] = proc[t]
      BY <1>2, <1>6, <2>2 DEF FDInv, Processes, Seen
    <3>2. ptr[u] = ptr[t]
      BY <1>6, <2>2, <3>1 DEF FDInv, Processes
    <3> QED
      BY <1>9, <2>1, <2>2, <3>1, <3>2
  <2>3. \A u, v \in Threads : Seen(u)' /\ Seen(v)' /\ proc[u] = proc[v] => ptr'[u] = ptr'[v]
    BY <1>8, <1>9, <2>2 DEF FDInv, Processes
  <2>4. \A u \in Threads : Forking(u)' => pc'[u].cx = pc[u].cx
    BY <1>8
  <2> QED
    BY <1>5, <1>8, <2>3, <2>4 DEF FDInv, Processes
<1>14. Sharing'
  <2> DEFINE Alike(u, v) == /\ tbl[u] = tbl[v] => ptr'[u] = ptr'[v]
                            /\ ptr'[u] = ptr'[v] /\ tbl[u] # tbl[v] => off'[ptr'[u]] = FDs
  <2> SUFFICES ASSUME NEW u \in Threads, NEW v \in Threads, Seen(u)', Seen(v)'
               PROVE  Alike(u, v)
    BY <1>5 DEF Sharing
  <2>1. ASSUME NEW x \in Threads, NEW y \in Threads, Seen(x), Seen(y)
        PROVE  Alike(x, y)
    BY <1>9, <2>1 DEF FDInv, Sharing
  <2>2. ptr'[c] = id
    BY <1>2 DEF Attached
  <2>3. ASSUME NEW x \in Threads, Seen(x) PROVE Alike(c, x) /\ Alike(x, c)
    <3>1. CASE pc[t].cx
      <4>1. tbl[c] = tbl[t] /\ ptr'[c] = ptr'[t]
        BY <1>2, <1>4, <1>6, <1>9, <2>2, <3>1 DEF Attached
      <4>2. Alike(t, x) /\ Alike(x, t)
        BY <1>6, <2>1, <2>3
      <4> QED
        BY <4>1, <4>2
    <3>2. CASE ~pc[t].cx
      <4>1. ptr'[x] # id
        BY <1>2, <1>9, <2>3, <3>2 DEF Attached
      <4>2. tbl[x] # tbl[c]
        BY <1>4, <1>9, <2>3, <3>2 DEF Seen
      <4> QED
        BY <2>2, <4>1, <4>2
    <3> QED
      BY <3>1, <3>2
  <2>4. Alike(c, c)
    OBVIOUS
  <2>5. (Seen(u) \/ u = c) /\ (Seen(v) \/ v = c)
    BY <1>8
  <2> HIDE DEF Alike
  <2> QED
    BY <2>1, <2>3, <2>4, <2>5
<1>15. ForksShaped'
  <2> SUFFICES ASSUME NEW u \in Threads, Forking(u)'
               PROVE  /\ Child(u)' \in Threads /\ pc'[Child(u)'].at = "new"
                      /\ \A v \in Threads : Forking(v)' /\ Child(v)' = Child(u)' => v = u
                      /\ pc'[u].cx => tbl[Child(u)'] = tbl[u]
                      /\ ~pc'[u].cx => \A v \in Threads \ {Child(u)'} : pc'[v].at # "none" => tbl[v] # tbl[Child(u)']
                      /\ \A v \in Threads : Calling(v)' /\ tbl[v] = tbl[u] => pc'[v].foot \subseteq pc'[u].foot
    BY <1>5 DEF ForksShaped
  <2>1. u # t /\ u # c /\ Forking(u) /\ Child(u)' = Child(u) /\ pc'[u] = pc[u]
    BY <1>8
  <2>2. /\ Child(u) \in Threads /\ pc[Child(u)].at = "new"
        /\ \A v \in Threads : Forking(v) /\ Child(v) = Child(u) => v = u
        /\ pc[u].cx => tbl[Child(u)] = tbl[u]
        /\ ~pc[u].cx => \A v \in Threads \ {Child(u)} : pc[v].at # "none" => tbl[v] # tbl[Child(u)]
        /\ \A v \in Threads : Calling(v) /\ tbl[v] = tbl[u] => pc[v].foot \subseteq pc[u].foot
    BY <2>1 DEF FDInv, ForksShaped
  <2>3. Child(u) # t /\ Child(u) # c
    BY <1>4, <2>1, <2>2
  <2>4. pc'[Child(u)].at = "new"
    BY <1>7, <2>2, <2>3
  <2> QED
    BY <1>8, <2>1, <2>2, <2>4
<1>16. Overlap'
  <2> SUFFICES ASSUME NEW u \in Threads, NEW v \in Threads, u # v, Calling(u), Calling(v), tbl[u] = tbl[v],
                      pc[u].foot \cap pc[v].foot # {}
               PROVE  pc[u].clash /\ pc[u].foot \subseteq off'[ptr'[u]]
    BY <1>5, <1>8 DEF Overlap
  <2>1. off'[ptr'[u]] = off[ptr[u]]
    BY <1>8, <1>9
  <2> QED
    BY <2>1 DEF FDInv, Overlap
<1>17. SourcesKept'
  <2> SUFFICES ASSUME NEW v \in Threads, Calling(v), pc[v].call \in Copies, pc[v].src[1] \in off'[ptr'[v]]
               PROVE  pc[v].foot \subseteq off'[ptr'[v]]
    BY <1>8 DEF SourcesKept
  <2>1. off'[ptr'[v]] = off[ptr[v]]
    BY <1>8, <1>9
  <2> QED
    BY <2>1 DEF FDInv, SourcesKept
<1>18. MapAgrees(t)
  BY <1>4, <1>6 DEF FDInv, MapsAgree, Fresh
<1>19. ASSUME NEW v \in Threads, Seen(v), MapAgrees(v) PROVE MapAgrees(v)'
  BY <1>5, <1>9, <1>10, <1>19 DEF MapAgrees
<1>20. MapsAgree'
  <2> SUFFICES ASSUME NEW v \in Threads, Seen(v)', ~Execing(v)'
               PROVE  MapAgrees(v)' \/ Fresh(v)'
    BY DEF MapsAgree
  <2>1. CASE v = c
    <3>1. ptr'[c] = id /\ map'[id] = map[ptr[t]]
      BY <1>2 DEF Attached
    <3>2. CASE pc[t].cx
      <4>1. tbl[c] = tbl[t] /\ ptr'[c] = ptr[t] /\ ptr'[t] = ptr[t] /\ Table(c)' = Table(t)'
        BY <1>2, <1>4, <1>5, <1>6, <1>9, <3>1, <3>2 DEF Attached, Table
      <4>2. MapAgrees(t)'
        BY <1>6, <1>18, <1>19
      <4>3. \A fd : Under(c, fd)' <=> Under(t, fd)'
        BY <1>5, <4>1 DEF Under
      <4>4. MapAgrees(c)'
        BY <4>1, <4>2, <4>3 DEF MapAgrees
      <4> QED
        BY <2>1, <4>4
    <3>3. CASE ~pc[t].cx
      <4>1. off'[id] = off[ptr[t]] \cup pc[t].foot
        BY <1>2, <3>3 DEF Attached
      <4>2. \A fd \in FDs \ (off[ptr[t]] \cup pc[t].foot) : Agrees(map[ptr[t]][fd], file[tbl[c]][fd])
        BY <1>2, <3>3 DEF FDInv, ForksAgree
      <4>3. MapAgrees(c)'
        BY <1>5, <3>1, <4>1, <4>2 DEF MapAgrees, Table
      <4> QED
        BY <2>1, <4>3
    <3> QED
      BY <3>2, <3>3
  <2>2. CASE v # c
    <3>1. Seen(v) /\ ~Execing(v)
      BY <1>8, <2>2
    <3>2. CASE MapAgrees(v)
      BY <1>19, <3>1, <3>2
    <3>3. CASE Fresh(v)
      <4>1. v # t /\ pc'[v] = pc[v]
        BY <1>4, <1>7, <2>2, <3>3 DEF Fresh
      <4>2. ptr[t] # ptr[v] /\ \A u \in Threads \ {v} : Seen(u) => ptr[u] # ptr[v]
        BY <1>6, <3>3, <4>1 DEF Fresh
      <4>3. ptr'[c] # ptr[v]
        BY <1>2, <3>1, <4>2 DEF Attached
      <4>4. \A u \in Threads \ {v} : Seen(u)' => ptr'[u] # ptr'[v]
        BY <1>8, <1>9, <3>1, <4>2, <4>3
      <4> QED
        BY <1>9, <3>1, <3>3, <4>1, <4>4 DEF Fresh
    <3> QED
      BY <3>1, <3>2, <3>3 DEF FDInv, MapsAgree
  <2> QED
    BY <2>1, <2>2
<1>21. CallsAgree'
  <2> SUFFICES ASSUME NEW v \in Threads, Calling(v)' PROVE CallAgrees(v)'
    BY DEF CallsAgree
  <2>1. Calling(v) /\ pc'[v] = pc[v] /\ CallAgrees(v) /\ Seen(v)
    BY <1>8 DEF FDInv, CallsAgree
  <2>2. ptr'[v] = ptr[v] /\ map'[ptr[v]] = map[ptr[v]] /\ off'[ptr[v]] = off[ptr[v]]
    BY <1>9, <2>1
  <2> QED
    BY <1>5, <2>1, <2>2 DEF CallAgrees
<1>22. ExecsAgree'
  <2> SUFFICES ASSUME NEW v \in Threads, Execing(v)
               PROVE  /\ \A u \in Threads \ {v} : pc'[u].at # "none" => tbl[u] # tbl[v]
                      /\ \A fd \in FDs \ off'[ptr'[v]] :
                            \/ Agrees(map'[ptr'[v]][fd], Table(v)[fd])
                            \/ map'[ptr'[v]][fd] # NoInfo /\ Table(v)[fd] = None
    BY <1>5, <1>8 DEF ExecsAgree
  <2>1. ptr'[v] = ptr[v] /\ map'[ptr[v]] = map[ptr[v]] /\ off'[ptr[v]] = off[ptr[v]]
    BY <1>8, <1>9
  <2> QED
    BY <1>8, <2>1 DEF FDInv, ExecsAgree
<1>23. ForksAgree'
  <2> SUFFICES ASSUME NEW v \in Threads, Forking(v)', ~pc'[v].cx,
                      NEW fd \in FDs \ (off'[ptr'[v]] \cup pc'[v].foot)
               PROVE  Agrees(map'[ptr'[v]][fd], file[tbl[Child(v)']][fd])
    BY <1>5 DEF ForksAgree
  <2>1. Forking(v) /\ pc'[v] = pc[v] /\ Child(v)' = Child(v) /\ Seen(v)
    BY <1>8
  <2>2. ptr'[v] = ptr[v] /\ map'[ptr[v]] = map[ptr[v]] /\ off'[ptr[v]] = off[ptr[v]]
    BY <1>9, <2>1
  <2> QED
    BY <2>1, <2>2 DEF FDInv, ForksAgree
<1> QED
  BY <1>5, <1>11, <1>12, <1>13, <1>14, <1>15, <1>16, <1>17, <1>20, <1>21, <1>22, <1>23 DEF FDInv

\* handleAttached(): an empty map has been filled.
Filled(t, empty) ==
    /\ tbl' = tbl /\ ptr' = ptr /\ proc' = proc /\ file' = file /\ off' = off
    /\ empty <=> \A fd \in FDs : map[ptr[t]][fd] = NoInfo
    /\ pc[t].at = "known"
    /\ pc' \in [Threads -> PCs] /\ pc'[t].at = "user" /\ pc'[t].foot = {}
    /\ \A u \in Threads \ {t} :
          /\ pc'[u].at = pc[u].at /\ pc'[u].call = pc[u].call /\ pc'[u].src = pc[u].src
          /\ pc'[u].new = pc[u].new /\ pc'[u].cx = pc[u].cx /\ pc'[u].foot = pc[u].foot
          /\ pc[u].clash => pc'[u].clash
          /\ empty /\ pc[u].at = "done" /\ tbl[u] = tbl[t] => pc'[u].clash
    /\ map' \in [Threads -> Maps] /\ \A i \in Threads \ {ptr[t]} : map'[i] = map[i]
    /\ ~empty => map' = map
    /\ empty => map'[ptr[t]] = GetFDInfos(Table(t))

\* What HandleAttached() does
LEMMA HandleAttachedFacts ==
  ASSUME FDInv, NEW t \in Threads, HandleAttached(t)
  PROVE  \E empty \in BOOLEAN : Filled(t, empty)
<1>1. /\ pc \in [Threads -> PCs] /\ tbl \in [Threads -> Threads] /\ ptr \in [Threads -> Threads]
      /\ map \in [Threads -> Maps] /\ ptr[t] \in Threads /\ Table(t) \in Tables
  BY DEF FDInv, TypeInv, Table
<1> DEFINE empty == \A fd \in FDs : map[ptr[t]][fd] = NoInfo
           M == IF empty THEN GetFDInfos(Table(t)) ELSE map[ptr[t]]
           O == Others(t)
           a == Idle("user")
<1>2. /\ pc[t].at = "known"
      /\ map' = [map EXCEPT ![ptr[t]] = M]
      /\ pc' = [u \in Threads |-> IF u = t THEN a
                                  ELSE IF empty /\ u \in O THEN [pc[u] EXCEPT !.clash = TRUE] ELSE pc[u]]
      /\ tbl' = tbl /\ ptr' = ptr /\ proc' = proc /\ file' = file /\ off' = off
  BY DEF HandleAttached
<1>3. \A u \in Threads : u \in O <=> u # t /\ pc[u].at = "done" /\ tbl[u] = tbl[t]
  BY DEF Others, Alive
<1>4. a \in PCs /\ a.at = "user" /\ a.foot = {}
  BY IdleNone
<1>5. GetFDInfos(Table(t)) \in Maps
  <2> DEFINE T == Table(t)
  <2>1. T \in Tables
    BY <1>1
  <2> HIDE DEF T
  <2> QED
    BY <2>1, GetFDInfosAgree DEF T
<1>6. M \in Maps /\ (~empty => M = map[ptr[t]]) /\ (empty => M = GetFDInfos(Table(t)))
  BY <1>1, <1>5
<1>7. empty \in BOOLEAN /\ (empty <=> \A fd \in FDs : map[ptr[t]][fd] = NoInfo)
  OBVIOUS
<1> HIDE DEF empty, M, O, a
<1>8. map' \in [Threads -> Maps] /\ map'[ptr[t]] = M /\ \A i \in Threads \ {ptr[t]} : map'[i] = map[i]
  BY <1>1, <1>2, <1>6
<1>9. ~empty => map' = map
  BY <1>1, <1>2, <1>6
<1>10. ASSUME NEW u \in Threads \ {t}
       PROVE  /\ pc'[u] \in PCs
              /\ pc'[u].at = pc[u].at /\ pc'[u].call = pc[u].call /\ pc'[u].src = pc[u].src
              /\ pc'[u].new = pc[u].new /\ pc'[u].cx = pc[u].cx /\ pc'[u].foot = pc[u].foot
              /\ pc[u].clash => pc'[u].clash
              /\ empty /\ u \in O => pc'[u].clash
  <2> DEFINE q == pc[u]
  <2>1. q \in PCs /\ TRUE \in BOOLEAN
    BY <1>1
  <2>2. pc'[u] = IF empty /\ u \in O THEN [q EXCEPT !.clash = TRUE] ELSE q
    BY <1>2
  <2> HIDE DEF q
  <2>3. CASE empty /\ u \in O
    <3>1. pc'[u] = [q EXCEPT !.clash = TRUE]
      BY <2>2, <2>3
    <3>2. /\ pc'[u] \in PCs
          /\ pc'[u].at = q.at /\ pc'[u].call = q.call /\ pc'[u].src = q.src
          /\ pc'[u].new = q.new /\ pc'[u].cx = q.cx /\ pc'[u].foot = q.foot /\ pc'[u].clash
      BY <2>1, <3>1 DEF PCs
    <3> QED
      BY <3>2 DEF q
  <2>4. CASE ~(empty /\ u \in O)
    <3>1. pc'[u] = q
      BY <2>2, <2>4
    <3> QED
      BY <2>1, <2>4, <3>1 DEF q
  <2> QED
    BY <2>3, <2>4
<1>11. pc' \in [Threads -> PCs] /\ pc'[t] = a
  <2>1. pc' = [u \in Threads |-> pc'[u]] /\ pc'[t] = a
    BY <1>2
  <2> QED
    BY <1>4, <1>10, <2>1
<1>12. Filled(t, empty)
  BY <1>2, <1>3, <1>4, <1>6, <1>7, <1>8, <1>9, <1>10, <1>11 DEF Filled
<1> QED
  BY <1>7, <1>12

\* A new tracee has stopped for the first time.
LEMMA HandleAttachedInv ==
  ASSUME FDInv, NEW t \in Threads, HandleAttached(t)
  PROVE  FDInv'
<1>1. PICK empty \in BOOLEAN : Filled(t, empty)
  BY HandleAttachedFacts
<1>2. /\ pc \in [Threads -> PCs] /\ tbl \in [Threads -> Threads] /\ ptr \in [Threads -> Threads]
      /\ file \in [Threads -> Tables] /\ map \in [Threads -> Maps] /\ off \in [Threads -> SUBSET FDs]
      /\ \A u \in Threads : /\ ptr[u] \in Threads /\ pc[u] \in PCs /\ map[ptr[u]] \in Maps /\ Table(u) \in Tables
                            /\ pc[u].foot \subseteq FDs
  BY DEF FDInv, TypeInv, Table, PCs
<1>3. /\ tbl' = tbl /\ ptr' = ptr /\ proc' = proc /\ file' = file /\ off' = off
      /\ \A u \in Threads : Table(u)' = Table(u)
      /\ pc[t].at = "known" /\ pc' \in [Threads -> PCs] /\ map' \in [Threads -> Maps]
  BY <1>1 DEF Filled, Table
<1>4. /\ ~Calling(t)' /\ ~Forking(t)' /\ ~Execing(t)' /\ Seen(t)'
      /\ ~Calling(t) /\ ~Forking(t) /\ ~Execing(t) /\ Seen(t)
  BY <1>1 DEF Filled, Calling, Forking, Execing, Seen
<1>5. ASSUME NEW u \in Threads \ {t}
      PROVE  /\ Calling(u)' = Calling(u) /\ Forking(u)' = Forking(u) /\ Execing(u)' = Execing(u)
             /\ Seen(u)' = Seen(u) /\ Child(u)' = Child(u)
             /\ pc'[u].at = pc[u].at /\ pc'[u].call = pc[u].call /\ pc'[u].src = pc[u].src
             /\ pc'[u].new = pc[u].new /\ pc'[u].cx = pc[u].cx /\ pc'[u].foot = pc[u].foot
             /\ pc[u].clash => pc'[u].clash
  BY <1>1 DEF Filled, Calling, Forking, Execing, Seen, Child
<1>6. \A u \in Threads : /\ (Calling(u)' <=> Calling(u)) /\ (Forking(u)' <=> Forking(u))
                         /\ (Execing(u)' <=> Execing(u)) /\ (Seen(u)' <=> Seen(u))
                         /\ (pc'[u].at # "none" => pc[u].at # "none")
                         /\ (Calling(u) \/ Forking(u) => u # t /\ Seen(u) /\ pc'[u].foot = pc[u].foot)
                         /\ (Forking(u) => Child(u)' = Child(u) /\ pc'[u].cx = pc[u].cx)
  <2>1. \A u \in Threads : Calling(u) \/ Forking(u) => Seen(u)
    BY DEF Calling, Forking, Seen
  <2>2. pc[t].at # "none"
    BY <1>3
  <2> QED
    BY <1>4, <1>5, <2>1, <2>2
<1>7. \A v \in Threads : \A fd : Under(v, fd)' <=> Under(v, fd)
  BY <1>3, <1>6 DEF Under
\* Another map is not changed, and another table with this map is out of step anyway.
<1>8. ASSUME NEW u \in Threads, Seen(u)
      PROVE  \/ map'[ptr[u]] = map[ptr[u]]
             \/ off[ptr[u]] = FDs
             \/ /\ empty /\ ptr[u] = ptr[t] /\ tbl[u] = tbl[t] /\ map'[ptr[u]] = GetFDInfos(Table(u))
                /\ \A fd \in FDs : map[ptr[u]][fd] = NoInfo
  <2>1. ptr[u] # ptr[t] => map'[ptr[u]] = map[ptr[u]]
    BY <1>1, <1>2 DEF Filled
  <2>2. ~empty => map'[ptr[u]] = map[ptr[u]]
    BY <1>1 DEF Filled
  <2>3. ptr[u] = ptr[t] /\ tbl[u] # tbl[t] => off[ptr[u]] = FDs
    BY <1>4, <1>8 DEF FDInv, Sharing
  <2>4. empty /\ ptr[u] = ptr[t] /\ tbl[u] = tbl[t] =>
           /\ map'[ptr[u]] = GetFDInfos(Table(u))
           /\ \A fd \in FDs : map[ptr[u]][fd] = NoInfo
    BY <1>1 DEF Filled, Table
  <2> QED
    BY <2>1, <2>2, <2>3, <2>4
<1>9. TypeInv'
  BY <1>3 DEF FDInv, TypeInv
<1>10. CallsShaped'
  <2> SUFFICES ASSUME NEW u \in Threads
               PROVE  /\ Calling(u)' => Shaped(pc'[u]) /\ pc'[u].call # "none"
                      /\ ~Calling(u)' /\ ~Forking(u)' => pc'[u].foot = {}
    BY DEF CallsShaped
  <2>1. CASE u = t
    BY <1>1, <1>4, <2>1 DEF Filled
  <2>2. CASE u # t
    <3>1. /\ pc'[u].call = pc[u].call /\ pc'[u].src = pc[u].src /\ pc'[u].new = pc[u].new
          /\ pc'[u].cx = pc[u].cx /\ pc'[u].foot = pc[u].foot
      BY <1>5, <2>2
    <3>2. Shaped(pc'[u]) <=> Shaped(pc[u])
      BY <3>1, SameCall
    <3> QED
      BY <1>6, <3>1, <3>2 DEF FDInv, CallsShaped
  <2> QED
    BY <2>1, <2>2
<1>11. Processes'
  BY <1>3, <1>6 DEF FDInv, Processes
<1>12. Sharing'
  BY <1>3, <1>6 DEF FDInv, Sharing
<1>13. ForksShaped'
  <2> SUFFICES ASSUME NEW u \in Threads, Forking(u)'
               PROVE  /\ Child(u)' \in Threads /\ pc'[Child(u)'].at = "new"
                      /\ \A v \in Threads : Forking(v)' /\ Child(v)' = Child(u)' => v = u
                      /\ pc'[u].cx => tbl[Child(u)'] = tbl[u]
                      /\ ~pc'[u].cx => \A v \in Threads \ {Child(u)'} : pc'[v].at # "none" => tbl[v] # tbl[Child(u)']
                      /\ \A v \in Threads : Calling(v)' /\ tbl[v] = tbl[u] => pc'[v].foot \subseteq pc'[u].foot
    BY <1>3 DEF ForksShaped
  <2>1. u # t /\ Forking(u) /\ Child(u)' = Child(u) /\ pc'[u].cx = pc[u].cx /\ pc'[u].foot = pc[u].foot
    BY <1>6
  <2>2. /\ Child(u) \in Threads /\ pc[Child(u)].at = "new"
        /\ \A v \in Threads : Forking(v) /\ Child(v) = Child(u) => v = u
        /\ pc[u].cx => tbl[Child(u)] = tbl[u]
        /\ ~pc[u].cx => \A v \in Threads \ {Child(u)} : pc[v].at # "none" => tbl[v] # tbl[Child(u)]
        /\ \A v \in Threads : Calling(v) /\ tbl[v] = tbl[u] => pc[v].foot \subseteq pc[u].foot
    BY <2>1 DEF FDInv, ForksShaped
  <2>3. pc'[Child(u)].at = "new"
    BY <1>3, <1>5, <2>2
  <2> QED
    BY <1>6, <2>1, <2>2, <2>3
<1>14. Overlap'
  <2> SUFFICES ASSUME NEW u \in Threads, NEW v \in Threads, u # v, Calling(u), Calling(v), tbl[u] = tbl[v],
                      pc[u].foot \cap pc[v].foot # {}
               PROVE  pc'[u].clash /\ pc[u].foot \subseteq off[ptr[u]]
    BY <1>3, <1>6 DEF Overlap
  <2>1. pc[u].clash /\ pc[u].foot \subseteq off[ptr[u]]
    BY DEF FDInv, Overlap
  <2> QED
    BY <1>5, <1>6, <2>1
<1>15. SourcesKept'
  <2> SUFFICES ASSUME NEW v \in Threads, Calling(v), pc'[v].call \in Copies, pc'[v].src[1] \in off[ptr[v]]
               PROVE  pc[v].foot \subseteq off[ptr[v]]
    BY <1>3, <1>6 DEF SourcesKept
  <2>1. pc'[v].call = pc[v].call /\ pc'[v].src = pc[v].src
    BY <1>5, <1>6
  <2> QED
    BY <2>1 DEF FDInv, SourcesKept
<1>16. MapsAgree'
  <2> SUFFICES ASSUME NEW v \in Threads, Seen(v)', ~Execing(v)'
               PROVE  MapAgrees(v)' \/ Fresh(v)'
    BY DEF MapsAgree
  <2>1. Seen(v) /\ ~Execing(v)
    BY <1>6
  <2>2. ASSUME empty, tbl[v] = tbl[t], ptr[v] = ptr[t] PROVE MapAgrees(v)'
    <3> DEFINE T == Table(v)
    <3>1. map'[ptr[v]] = GetFDInfos(T)
      BY <1>1, <2>2 DEF Filled, Table
    <3>2. T \in Tables
      BY <1>2
    <3> HIDE DEF T
    <3>3. \A fd \in FDs : Agrees(GetFDInfos(T)[fd], T[fd])
      BY <3>2, GetFDInfosAgree
    <3> QED
      BY <1>3, <3>1, <3>3 DEF MapAgrees, T
  <2>3. ASSUME MapAgrees(v) PROVE MapAgrees(v)'
    <3>1. CASE map'[ptr[v]] = map[ptr[v]]
      BY <1>3, <1>7, <2>3, <3>1 DEF MapAgrees
    <3>2. CASE off[ptr[v]] = FDs
      BY <1>3, <3>2 DEF MapAgrees
    <3>3. CASE empty /\ ptr[v] = ptr[t] /\ tbl[v] = tbl[t]
      BY <2>2, <3>3
    <3> QED
      BY <1>8, <2>1, <3>1, <3>2, <3>3
  <2>4. ASSUME Fresh(v), v # t PROVE Fresh(v)'
    <3>1. ptr[t] # ptr[v]
      BY <1>4, <2>4 DEF Fresh
    <3>2. map'[ptr[v]] = map[ptr[v]] /\ pc'[v].at = pc[v].at
      BY <1>1, <1>2, <2>4, <3>1 DEF Filled
    <3> QED
      BY <1>3, <1>6, <2>4, <3>2 DEF Fresh
  <2>5. ASSUME Fresh(v), v = t PROVE MapAgrees(v)'
    <3>1. empty
      BY <1>1, <2>5 DEF Fresh, Filled
    <3> QED
      BY <2>2, <2>5, <3>1
  <2> QED
    BY <2>1, <2>3, <2>4, <2>5 DEF FDInv, MapsAgree
<1>17. CallsAgree'
  <2> SUFFICES ASSUME NEW v \in Threads, Calling(v)' PROVE CallAgrees(v)'
    BY DEF CallsAgree
  <2>1. Calling(v) /\ v # t /\ Seen(v) /\ pc'[v].foot = pc[v].foot /\ Shaped(pc[v]) /\ CallAgrees(v)
        /\ pc[v].call \notin {"fork", "execve", "none"}
    BY <1>6 DEF FDInv, CallsShaped, CallsAgree, Calling
  <2> DEFINE p == pc[v]
             q == pc'[v]
             m == map[ptr[v]]
             M == map'[ptr[v]]
             T == Table(v)
  <2>2. q.call = p.call /\ q.src = p.src /\ q.new = p.new /\ q.cx = p.cx /\ q.foot = p.foot /\ (p.clash => q.clash)
    BY <1>5, <2>1
  <2>3. p \in PCs /\ m \in Maps /\ M \in Maps /\ T \in Tables /\ p.foot \subseteq FDs
    BY <1>2, <1>3
  <2>4. /\ \A fd \in p.foot \ off[ptr[v]] : Agrees(Entry(p, m, T, fd), T[fd])
        /\ ~p.clash => /\ p.call = "close" => T[p.src[1]] = None
                       /\ Due(p, m, T) \subseteq off[ptr[v]]
    BY <2>1 DEF CallAgrees
  <2> SUFFICES /\ \A fd \in p.foot \ off[ptr[v]] : Agrees(Entry(q, M, T, fd), T[fd])
               /\ ~q.clash => /\ p.call = "close" => T[p.src[1]] = None
                              /\ Due(q, M, T) \subseteq off[ptr[v]]
    BY <1>3, <2>2 DEF CallAgrees
  <2>5. Shaped(p) /\ p.call \notin {"fork", "execve", "none"}
    BY <2>1
  <2>6. \/ M = m
        \/ off[ptr[v]] = FDs
        \/ q.clash /\ M = GetFDInfos(T) /\ \A fd \in FDs : m[fd] = NoInfo
    <3>1. pc[v].at = "done"
      BY <2>1 DEF Calling
    <3>2. empty /\ tbl[v] = tbl[t] => q.clash
      BY <1>1, <2>1, <3>1 DEF Filled
    <3> QED
      BY <1>8, <2>1, <3>2
  <2>7. p.call \in Copies /\ p.src[1] \in off[ptr[v]] => p.foot \subseteq off[ptr[v]]
    BY <2>1 DEF FDInv, SourcesKept
  <2> HIDE DEF p, q, m, M, T
  <2>8. /\ \A fd : Entry(q, M, T, fd) = Entry(p, M, T, fd)
        /\ Due(q, M, T) = Due(p, M, T)
    BY <2>2, SameCall
  <2>9. Due(p, M, T) \subseteq FDs
    BY <2>3, <2>5, WarningsLocal
  <2>10. CASE M = m
    BY <2>2, <2>4, <2>8, <2>10
  <2>11. CASE off[ptr[v]] = FDs
    BY <2>2, <2>3, <2>4, <2>8, <2>9, <2>11
  <2>12. CASE q.clash /\ M = GetFDInfos(T) /\ \A fd \in FDs : m[fd] = NoInfo
    <3> SUFFICES ASSUME NEW fd \in p.foot \ off[ptr[v]]
                 PROVE  Agrees(Entry(p, GetFDInfos(T), T, fd), T[fd])
      BY <2>8, <2>12
    <3>1. p.call \in Copies => p.src[1] \in p.foot \ off[ptr[v]]
      BY <2>5, <2>7 DEF Shaped
    <3>2. p.call \in Copies => Agrees(Entry(p, m, T, p.src[1]), T[p.src[1]])
      BY <2>4, <3>1
    <3>3. Agrees(Entry(p, m, T, fd), T[fd]) /\ fd \in p.foot
      BY <2>4
    <3> QED
      BY <2>3, <2>5, <2>12, <3>2, <3>3, Refilled
  <2> QED
    BY <2>6, <2>10, <2>11, <2>12
<1>18. ExecsAgree'
  <2> SUFFICES ASSUME NEW v \in Threads, Execing(v)
               PROVE  /\ \A u \in Threads \ {v} : pc'[u].at # "none" => tbl[u] # tbl[v]
                      /\ \A fd \in FDs \ off[ptr[v]] :
                            \/ Agrees(map'[ptr[v]][fd], Table(v)[fd])
                            \/ map'[ptr[v]][fd] # NoInfo /\ Table(v)[fd] = None
    BY <1>3, <1>6 DEF ExecsAgree
  <2>1. /\ \A u \in Threads \ {v} : pc[u].at # "none" => tbl[u] # tbl[v]
        /\ \A fd \in FDs \ off[ptr[v]] :
              \/ Agrees(map[ptr[v]][fd], Table(v)[fd])
              \/ map[ptr[v]][fd] # NoInfo /\ Table(v)[fd] = None
    BY DEF FDInv, ExecsAgree
  <2>2. tbl[v] # tbl[t] /\ Seen(v)
    BY <1>3, <1>4, <2>1 DEF Execing, Seen
  <2>3. map'[ptr[v]] = map[ptr[v]] \/ off[ptr[v]] = FDs
    BY <1>8, <2>2
  <2> QED
    BY <1>6, <2>1, <2>3
<1>19. ForksAgree'
  <2> SUFFICES ASSUME NEW v \in Threads, Forking(v), ~pc[v].cx,
                      NEW fd \in FDs \ (off[ptr[v]] \cup pc[v].foot)
               PROVE  Agrees(map'[ptr[v]][fd], file[tbl[Child(v)]][fd])
    BY <1>3, <1>6 DEF ForksAgree
  <2>1. Agrees(map[ptr[v]][fd], file[tbl[Child(v)]][fd])
    BY DEF FDInv, ForksAgree
  <2>2. Seen(v)
    BY <1>6
  <2>3. CASE map'[ptr[v]] = map[ptr[v]]
    BY <2>1, <2>3
  <2>4. CASE off[ptr[v]] = FDs
    BY <2>4
  <2>5. CASE /\ map'[ptr[v]] = GetFDInfos(Table(v)) /\ tbl[v] = tbl[t]
             /\ \A g \in FDs : map[ptr[v]][g] = NoInfo
    <3>1. ~Under(v, fd)
      BY DEF FDInv, ForksShaped, Under
    <3>2. MapAgrees(v)
      BY <2>2 DEF FDInv, MapsAgree, Fresh, Forking, Execing
    <3>3. Agrees(NoInfo, Table(v)[fd])
      BY <2>5, <3>1, <3>2 DEF MapAgrees
    <3>4. GetFDInfos(Table(v))[fd] = NoInfo
      BY <3>3 DEF Agrees, GetFDInfos
    <3> QED
      BY <2>1, <2>5, <3>4
  <2> QED
    BY <1>8, <2>2, <2>3, <2>4, <2>5
<1> QED
  BY <1>3, <1>9, <1>10, <1>11, <1>12, <1>13, <1>14, <1>15, <1>16, <1>17, <1>18, <1>19 DEF FDInv

(* The theorems *)

\* At first there is one thread, and an empty map.
LEMMA InitInv ==
  ASSUME Init
  PROVE  FDInv
<1>1. Root \in Threads
  BY ThreadsAssumption
<1>2. PICK fds \in SUBSET FDs :
        file = [t \in Threads |-> [fd \in FDs |->
                  IF t = Root /\ fd \in fds THEN File("FS_PATH", FALSE, TRUE) ELSE None]]
  BY DEF Init
<1>3. \A t \in Threads : pc[t] = Idle(IF t = Root THEN "known" ELSE "none")
  BY DEF Init
<1>4. ASSUME NEW t \in Threads
      PROVE  /\ pc[t] \in PCs /\ pc[t].foot = {} /\ pc[t].at # "done"
             /\ pc[t].at = IF t = Root THEN "known" ELSE "none"
  BY <1>3, IdleNone
<1>5. \A t \in Threads : ~Calling(t) /\ ~Forking(t) /\ ~Execing(t) /\ (Seen(t) => t = Root)
  BY <1>4 DEF Calling, Forking, Execing, Seen
<1>6. file \in [Threads -> Tables]
  <2> DEFINE f == File("FS_PATH", FALSE, TRUE)
  <2>1. f \in Files
    BY PathType DEF File, Files
  <2>2. None \in Files
    BY DEF Files
  <2> HIDE DEF f
  <2>3. file = [t \in Threads |-> [fd \in FDs |-> IF t = Root /\ fd \in fds THEN f ELSE None]]
    BY <1>2 DEF f
  <2> QED
    BY <2>1, <2>2, <2>3 DEF Tables
<1>7. map \in [Threads -> Maps] /\ \A t \in Threads, fd \in FDs : map[t][fd] = NoInfo
  BY DEF Init, Maps, Infos
<1>8. TypeInv
  <2>1. pc \in [Threads -> PCs]
    BY <1>4 DEF Init
  <2> QED
    BY <1>1, <1>6, <1>7, <2>1 DEF Init, TypeInv
<1>9. CallsShaped
  BY <1>4, <1>5 DEF CallsShaped
<1>10. Processes /\ Sharing
  BY <1>1, <1>5 DEF Init, Processes, Sharing
<1>11. ForksShaped /\ Overlap /\ SourcesKept /\ CallsAgree /\ ExecsAgree /\ ForksAgree
  BY <1>5 DEF ForksShaped, Overlap, SourcesKept, CallsAgree, ExecsAgree, ForksAgree
<1>12. MapsAgree
  <2>1. ASSUME NEW t \in Threads, Seen(t) PROVE Fresh(t)
    BY <1>1, <1>4, <1>5, <1>7, <2>1 DEF Fresh, Init
  <2> QED
    BY <2>1 DEF MapsAgree
<1> QED
  BY <1>8, <1>9, <1>10, <1>11, <1>12 DEF FDInv, Init

\* Every step keeps the invariant.
LEMMA NextInv ==
  ASSUME FDInv, [Next]_vars
  PROVE  FDInv'
<1>1. ASSUME NEW t \in Threads, Enters(t) PROVE FDInv'
  BY <1>1, EntersInv
<1>2. ASSUME NEW t \in Threads, Fork(t) PROVE FDInv'
  BY <1>2, ForkInv
<1>3. ASSUME NEW t \in Threads, Exec(t) PROVE FDInv'
  BY <1>3, ExecInv
<1>4. ASSUME NEW t \in Threads, End(t) PROVE FDInv'
  BY <1>4, EndInv
<1>5. ASSUME NEW t \in Threads, HandleExit(t) PROVE FDInv'
  BY <1>5, HandleExitInv
<1>6. ASSUME NEW t \in Threads, HandleExec(t) PROVE FDInv'
  BY <1>6, HandleExecInv
<1>7. ASSUME NEW t \in Threads, AutoAttach(t) PROVE FDInv'
  BY <1>7, AutoAttachInv
<1>8. ASSUME NEW t \in Threads, HandleAttached(t) PROVE FDInv'
  BY <1>8, HandleAttachedInv
<1>9. ASSUME NEW t \in Threads, Unshare(t) PROVE FDInv'
  BY <1>9, UnshareInv
<1>10. CASE UNCHANGED vars
  BY <1>10 DEF vars, FDInv, TypeInv, CallsShaped, Processes, Sharing, ForksShaped, Overlap, SourcesKept,
              MapsAgree, MapAgrees, Fresh, CallsAgree, CallAgrees, ExecsAgree, ForksAgree,
              Seen, Forking, Execing, Calling, Child, Under, Table
<1> QED
  BY <1>1, <1>2, <1>3, <1>4, <1>5, <1>6, <1>7, <1>8, <1>9, <1>10 DEF Next, Enters

\* The invariant holds in every state.
THEOREM Invariance == Spec => []FDInv
BY InitInv, NextInv, PTL DEF Spec

\* Whatever the threads do and in whatever order the exits of their calls are
\* handled, the entries of fd_info_map have the types of FileDescriptorInfo (TypeOK).
THEOREM TypeCorrect == Spec => []TypeOK
<1>1. ASSUME FDInv PROVE TypeOK
  <2>1. TypeInv
    BY <1>1 DEF FDInv
  <2>2. \A t \in Threads : pc[t].at \in {"none", "new", "known", "user", "done"}
    BY <2>1 DEF TypeInv, PCs
  <2>3. \A i \in Threads, fd \in FDs : map[i][fd] \in Infos /\ file[i][fd] \in Files
    BY <2>1 DEF TypeInv, Maps, Tables
  <2> QED
    BY <2>1, <2>2, <2>3 DEF TypeOK, TypeInv, Infos, Files
<1> QED
  BY <1>1, Invariance, PTL

\* Tracees share their ProcessData exactly if their threads share one table of
\* descriptors, however threads and processes are made and end, and whichever of
\* them execute a program; but the map is in doubt as a whole after execve() of a
\* process that shared its table and after unshare() (SharedAlike).
THEOREM SharedRight == Spec => []SharedAlike
<1>1. ASSUME FDInv PROVE SharedAlike
  <2>1. \A t \in Tracees : t \in Threads /\ Seen(t)
    BY DEF Tracees, Alive, Seen
  <2> QED
    BY <1>1, <2>1 DEF FDInv, Sharing, SharedAlike
<1> QED
  BY <1>1, Invariance, PTL

\* fd_info_map agrees with the table of the kernel for every number that no call
\* under way has to do with and none of the known departures has happened for
\* (MapInStep).
THEOREM MapsKept == Spec => []MapInStep
<1>1. ASSUME FDInv PROVE MapInStep
  <2> SUFFICES ASSUME NEW t \in Tracees, NEW fd \in FDs \ (off[ptr[t]] \cup UnderWay(t))
               PROVE  Agrees(map[ptr[t]][fd], Table(t)[fd])
    BY DEF MapInStep
  <2>1. t \in Threads /\ Seen(t) /\ ~Execing(t) /\ ~Fresh(t)
    BY DEF Tracees, Alive, Seen, Execing, Fresh
  <2>2. MapAgrees(t)
    BY <1>1, <2>1 DEF FDInv, MapsAgree
  <2>3. ~Under(t, fd)
    BY DEF Under, UnderWay, Alive, Calling
  <2> QED
    BY <2>2, <2>3 DEF MapAgrees
<1> QED
  BY <1>1, Invariance, PTL

\* Whatever the threads do and in whatever order the exits of their calls are
\* handled, updateFDTracking() warns only of descriptors for which the map has gone
\* wrong by a known departure, or of those that two calls under way at the same time
\* have to do with, and of dup2() of a number onto itself (NoNeedlessWarning).
THEOREM WarningsDue == Spec => []NoNeedlessWarning
<1>1. ASSUME FDInv PROVE NoNeedlessWarning
  <2> SUFFICES ASSUME NEW t \in Tracees, pc[t].at = "done", pc[t].call # "fork", ~pc[t].clash, ~Itself(pc[t])
               PROVE  Warnings(pc[t], map[ptr[t]], Table(t)) \subseteq off[ptr[t]]
    BY DEF NoNeedlessWarning
  <2>1. t \in Threads /\ Calling(t)
    BY DEF Tracees, Alive, Calling
  <2>2. CallAgrees(t)
    BY <1>1, <2>1 DEF FDInv, CallsAgree
  <2> QED
    BY <2>2 DEF CallAgrees, Due
<1> QED
  BY <1>1, Invariance, PTL
=============================================================================
