----------------------------- MODULE FDTracking -----------------------------
(***************************************************************************)
(* The file descriptors of the tracees, and what the library knows of      *)
(* them: ProcessData::fd_info_map, shared by tracees that share their      *)
(* descriptor table, copied where a new process gets a copy.               *)
(*                                                                         *)
(* The kernel changes a table in the middle of a system call, the map      *)
(* follows when the exit of the call is handled (updateFDTracking()), in   *)
(* whatever order wait() reports the exits of several threads.  Failed     *)
(* calls change neither and are left out.                                  *)
(***************************************************************************)
EXTENDS Naturals, FiniteSets

CONSTANTS Threads,      \* the threads there may be, all traced
          Root,         \* the first one
          FDs,          \* the descriptor numbers
          Programs      \* sets of the calls that a program makes

ASSUME FDAssumption == FDs \subseteq Nat /\ FDs # {} /\ IsFiniteSet(FDs)

ASSUME ThreadsAssumption == Root \in Threads /\ IsFiniteSet(Threads)

VARIABLES calls,    \* the calls that are made
          pc,       \* where each thread is, and the call it is in
          proc,     \* the process it belongs to
          tbl,      \* kernel: its descriptor table
          file,     \* kernel: the tables
          ptr,      \* m_process_data of its Tracee
          map,      \* the fd_info_map of each ProcessData
          off       \* numbers for which a map is known to be wrong

vars == <<calls, pc, proc, tbl, file, ptr, map, off>>

None == [type |-> "INVALID", cx |-> FALSE, exact |-> TRUE]

(* In the kernel exact tells whether the call that made the descriptor is  *)
(* one whose CLOEXEC flag the map records.                                 *)
File(type, cx, exact) == [type |-> type, cx |-> cx, exact |-> exact]

Info(type, cx) == [type |-> type, cx |-> cx]

NoInfo == Info("INVALID", FALSE)

----------------------------------------------------------------------------
(* updateFDTracking() of the calls that create descriptors: the type that  *)
(* is stored, whether CLOEXEC is, and how many descriptors there are.      *)

Tracks(type, flags, n) == [type |-> type, flags |-> flags, n |-> n]

OpenTracked == [c \in {"open", "openat"} |-> Tracks("FS_PATH", TRUE, 1)]

PipeTracked == [c \in {"pipe2"} |-> Tracks("PIPE", FALSE, 2)]

EventFDTracked == [c \in {"eventfd2"} |-> Tracks("EVENT_FD", TRUE, 1)]

EPollTracked == [c \in {"epoll_create1"} |-> Tracks("EVENT_FD", FALSE, 1)]

SocketTracked ==
    [c \in {"socket", "socketpair", "accept4"} |->
        Tracks("SOCKET", TRUE, IF c = "socketpair" THEN 2 ELSE 1)]

PIDFDTracked == [c \in {"pidfd_open"} |-> Tracks("PID_FD", FALSE, 1)]

SignalFDTracked == [c \in {"signalfd4"} |-> Tracks("SIGNAL_FD", TRUE, 1)]

SockOptTracked == [c \in {"getsockopt"} |-> Tracks("PID_FD", TRUE, 1)]

Tracked ==
    LET all == {OpenTracked, PipeTracked, EventFDTracked, EPollTracked, SocketTracked,
                PIDFDTracked, SignalFDTracked, SockOptTracked}
    IN  [c \in UNION {DOMAIN f : f \in all} |-> (CHOOSE f \in all : c \in DOMAIN f)[c]]

(* What the kernel really creates, and as /proc/<pid>/fd tells it.         *)
RealType(c) == IF c = "epoll_create1" THEN "EPOLL" ELSE Tracked[c].type

----------------------------------------------------------------------------
(* Tracee::trackFD(), updateFD(), dropFD()                                 *)

TrackFD(m, fd, info) == IF m[fd] = NoInfo THEN [m EXCEPT ![fd] = info] ELSE m

UpdateFD(m, fd, info) == IF m[fd] = NoInfo THEN m ELSE [m EXCEPT ![fd] = info]

(* Variant: the entry stays.                                               *)
DropFDKept(m, fd) == m

DropFD(m, fd) == [m EXCEPT ![fd] = NoInfo]

TrackAll(m, fds, info) ==
    [fd \in FDs |-> IF \E k \in DOMAIN fds : fds[k] = fd THEN TrackFD(m, fd, info)[fd] ELSE m[fd]]

(* get_fd_infos()                                                          *)
GetFDInfos(table) ==
    [fd \in FDs |-> IF table[fd] = None THEN NoInfo ELSE Info(table[fd].type, table[fd].cx)]

(* DupSystemCall, FcntlSystemCall: the source is looked up in the map.     *)
DupTracked(m, src, new) == IF m[src] = NoInfo THEN m ELSE TrackFD(m, new, m[src])

FcntlDupTracked(m, src, new, cx) ==
    IF m[src] = NoInfo THEN m ELSE TrackFD(m, new, [m[src] EXCEPT !.cx = cx])

(* Variant: an entry is made where there is none.                          *)
FcntlSetTrackedMakes(m, fd, cx) == [m EXCEPT ![fd].cx = cx]

FcntlSetTracked(m, fd, cx) == UpdateFD(m, fd, [m[fd] EXCEPT !.cx = cx])

(* RecvMsgSystemCall, PIDFDGetFDSystemCall: what /proc tells at the exit   *)
LookedUp(m, new, table) ==
    IF table[new] = None THEN m ELSE TrackFD(m, new, GetFDInfos(table)[new])

(* Tracee::syncFDsAfterExec(): the loop increments its iterator once more  *)
(* after erase() has advanced it, so that the next element is not looked   *)
(* at: of neighbouring elements that are no longer open the first, the     *)
(* third and so on are erased.                                             *)
NeighboursBelow(m, table, fd) ==
    {g \in FDs : /\ g < fd /\ m[g] # NoInfo
                 /\ \A h \in FDs : g <= h /\ h < fd /\ m[h] # NoInfo => table[h] = None}

SyncFDsAfterExec(m, table) ==
    [fd \in FDs |-> IF table[fd] = None /\ Cardinality(NeighboursBelow(m, table, fd)) % 2 = 0
                    THEN NoInfo ELSE m[fd]]

----------------------------------------------------------------------------
(* The kernel's side.                                                      *)

Alive == {t \in Threads : pc[t].at # "none"}

Table(t) == file[tbl[t]]

(* A number for a new process, table or ProcessData                        *)
Unused(ids) == CHOOSE i \in Threads : i \notin ids

Lowest(table, n) ==
    LET free == {fd \in FDs : table[fd] = None}
        low  == {fd \in free : Cardinality({g \in free : g < fd}) < n}
    IN  IF Cardinality(low) < n THEN << >>
        ELSE [k \in 1 .. n |-> CHOOSE fd \in low : Cardinality({g \in low : g < fd}) = k - 1]

(* A call as it is remembered until its exit: new are the descriptors it   *)
(* made, src the one it named, foot all the numbers it has to do with.     *)
Done(c, src, new, cx) ==
    [at |-> "done", call |-> c, src |-> src, new |-> new, cx |-> cx,
     foot |-> {new[k] : k \in DOMAIN new} \cup (IF src = << >> THEN {} ELSE {src[1]}),
     clash |-> FALSE]

Idle(at) == [Done("none", << >>, << >>, FALSE) EXCEPT !.at = at]

(* Other threads with the same table whose calls are under way             *)
Others(t) == {u \in Alive \ {t} : tbl[u] = tbl[t] /\ pc[u].at = "done"}

Clashes(t, foot) == {u \in Others(t) : pc[u].foot \cap foot # {}}

(* The known departures: calls under way at the same time that have to do  *)
(* with the same number; a copy of a descriptor that is wrong already; and *)
(* what the kernel does but the code does not follow (lost).               *)
WrongBy(t, p, lost) ==
    lost
    \cup (UNION {pc[u].foot \cup p.foot : u \in Clashes(t, p.foot)})
    \cup (IF p.src # << >> /\ p.src[1] \in off[ptr[t]] THEN p.foot ELSE {})

Performs(t, p, table, lost) ==
    /\ pc' = [u \in Threads |->
                IF u = t THEN [p EXCEPT !.clash = (Clashes(t, p.foot) # {})]
                ELSE IF u \in Others(t)
                     THEN [pc[u] EXCEPT !.clash = @ \/ u \in Clashes(t, p.foot),
                                        !.foot = IF pc[u].call = "fork" THEN @ \cup p.foot ELSE @]
                     ELSE pc[u]]
    /\ file' = [file EXCEPT ![tbl[t]] = table]
    /\ off' = [off EXCEPT ![ptr[t]] = @ \cup WrongBy(t, p, lost)]
    /\ UNCHANGED <<calls, proc, tbl, ptr, map>>

Running(t, c) == pc[t].at = "user" /\ c \in calls

(* The table with the same file behind some more numbers                   *)
With(table, fds, f) ==
    [fd \in FDs |-> IF \E k \in DOMAIN fds : fds[k] = fd THEN f ELSE table[fd]]

Create(t) ==
    \E c \in DOMAIN Tracked, cx \in BOOLEAN :
        LET new == Lowest(Table(t), Tracked[c].n)
        IN  /\ Running(t, c)
            /\ new # << >>
            /\ Performs(t, Done(c, << >>, new, cx),
                        With(Table(t), new, File(RealType(c), cx, Tracked[c].flags)), {})

Opened(t) == {fd \in FDs : Table(t)[fd] # None}

Close(t) ==
    /\ Running(t, "close")
    /\ \E fd \in Opened(t) :
          Performs(t, Done("close", <<fd>>, << >>, FALSE), [Table(t) EXCEPT ![fd] = None], {})

Dup(t) ==
    /\ Running(t, "dup")
    /\ \E fd \in Opened(t) :
          LET new == Lowest(Table(t), 1)
          IN  /\ new # << >>
              /\ Performs(t, Done("dup", <<fd>>, new, FALSE),
                          With(Table(t), new, [Table(t)[fd] EXCEPT !.cx = FALSE, !.exact = FALSE]), {})

(* dup2() may close what was open under the new number: nothing in the     *)
(* library follows that.  Onto the same number it changes nothing.         *)
Dup2(t) ==
    /\ Running(t, "dup2")
    /\ \E fd \in Opened(t) : \E new \in FDs :
          IF new = fd
          THEN Performs(t, Done("dup2", <<fd>>, <<fd>>, FALSE), Table(t), {})
          ELSE Performs(t, Done("dup2", <<fd>>, <<new>>, FALSE),
                        With(Table(t), <<new>>, [Table(t)[fd] EXCEPT !.cx = FALSE, !.exact = FALSE]),
                        IF Table(t)[new] = None THEN {} ELSE {new})

FcntlDup(t) ==
    /\ Running(t, "fcntl_dupfd")
    /\ \E fd \in Opened(t), cx \in BOOLEAN :
          LET new == Lowest(Table(t), 1)
          IN  /\ new # << >>
              /\ Performs(t, Done("fcntl_dupfd", <<fd>>, new, cx),
                          With(Table(t), new, [Table(t)[fd] EXCEPT !.cx = cx, !.exact = TRUE]), {})

FcntlSet(t) ==
    /\ Running(t, "fcntl_setfd")
    /\ \E fd \in Opened(t), cx \in BOOLEAN :
          Performs(t, Done("fcntl_setfd", <<fd>>, << >>, cx),
                   [Table(t) EXCEPT ![fd] = File(@.type, cx, TRUE)], {})

Receive(t) ==
    /\ Running(t, "recvmsg")
    /\ \E type \in {"FS_PATH", "EPOLL"} :
          LET new == Lowest(Table(t), 1)
          IN  /\ new # << >>
              /\ Performs(t, Done("recvmsg", << >>, new, FALSE),
                          With(Table(t), new, File(type, FALSE, TRUE)), {})

(* close_range(), creat(), timerfd_create(), ...: not implemented          *)
Unseen(t) ==
    /\ Running(t, "unseen")
    /\ \E fd \in FDs :
          /\ Table(t)[fd] # None \/ <<fd>> = Lowest(Table(t), 1)
          /\ Performs(t, Done("unseen", <<fd>>, << >>, FALSE),
                      [Table(t) EXCEPT ![fd] = IF @ = None THEN File("UNKNOWN", FALSE, TRUE) ELSE None],
                      {fd})

(* A new thread or process, by clone() with CLONE_FILES or by fork(); it   *)
(* runs when its first stop has been handled.  The descriptor that clone3()*)
(* makes with CLONE_PIDFD, tracked at the exit, is left out.               *)
Fork(t) ==
    /\ \E c \in Threads \ Alive, files \in BOOLEAN, thread \in BOOLEAN :
          LET copy == Unused({tbl[u] : u \in Alive})
          IN  /\ Running(t, IF files THEN "clone" ELSE "fork")
              /\ thread => files
              /\ pc' = [pc EXCEPT ![t] = [Done("fork", << >>, << >>, files)
                                            EXCEPT !.foot = UNION {pc[u].foot : u \in Others(t)},
                                                   !.src = <<c>>],
                                  ![c] = Idle("new")]
              /\ proc' = [proc EXCEPT ![c] = IF thread THEN proc[t]
                                              ELSE Unused({proc[u] : u \in Alive})]
              /\ tbl' = [tbl EXCEPT ![c] = IF files THEN tbl[t] ELSE copy]
              /\ file' = IF files THEN file ELSE [file EXCEPT ![copy] = Table(t)]
    /\ UNCHANGED <<calls, ptr, map, off>>

(* execve(): the other threads of the process end, the table is no longer  *)
(* shared with anybody, and what has CLOEXEC is closed.                    *)
Exec(t) ==
    /\ Running(t, "execve")
    /\ \A u \in Alive : proc[u] = proc[t] => pc[u].call # "fork" /\ pc[u].at # "new"
    /\ LET gone   == {u \in Alive \ {t} : proc[u] = proc[t]}
           rest   == Alive \ gone
           shared == \E u \in rest \ {t} : tbl[u] = tbl[t]
           id     == IF shared THEN Unused({tbl[u] : u \in rest}) ELSE tbl[t]
           left   == [fd \in FDs |-> IF Table(t)[fd].cx THEN None ELSE Table(t)[fd]]
       IN  /\ pc' = [u \in Threads |-> IF u = t THEN Done("execve", << >>, << >>, FALSE)
                                       ELSE IF u \in gone THEN Idle("none") ELSE pc[u]]
           /\ tbl' = [tbl EXCEPT ![t] = id]
           /\ file' = [file EXCEPT ![id] = left]
           /\ off' = [off EXCEPT ![ptr[t]] =
                        IF shared THEN FDs ELSE @ \cup UNION {pc[u].foot : u \in gone}]
    /\ UNCHANGED <<calls, proc, ptr, map>>

(* unshare(CLONE_FILES): the table is no longer shared with anybody, which *)
(* nothing in the library follows.                                         *)
Unshare(t) ==
    /\ Running(t, "unshare")
    /\ \E u \in Alive \ {t} : tbl[u] = tbl[t]
    /\ LET id == Unused({tbl[u] : u \in Alive})
       IN  /\ tbl' = [tbl EXCEPT ![t] = id]
           /\ file' = [file EXCEPT ![id] = Table(t)]
    /\ off' = [off EXCEPT ![ptr[t]] = FDs]
    /\ UNCHANGED <<calls, pc, proc, ptr, map>>

(* A thread ends; the exit of its last call is never seen.                 *)
End(t) ==
    /\ "exit" \in calls
    /\ pc[t].at \in {"user", "done"} /\ pc[t].call # "fork"
    /\ pc' = [pc EXCEPT ![t] = Idle("none")]
    /\ off' = [off EXCEPT ![ptr[t]] = @ \cup pc[t].foot]
    /\ UNCHANGED <<calls, proc, tbl, file, ptr, map>>

----------------------------------------------------------------------------
(* The library's side.                                                     *)

(* The map m after the exit of the call p, with the table as it is then.   *)
MapAfter(p, m, table) ==
    CASE p.call \in DOMAIN Tracked ->
            TrackAll(m, p.new, Info(Tracked[p.call].type, p.cx /\ Tracked[p.call].flags))
      [] p.call = "close"              -> DropFD(m, p.src[1])
      [] p.call \in {"dup", "dup2"}    -> DupTracked(m, p.src[1], p.new[1])
      [] p.call = "fcntl_dupfd"        -> FcntlDupTracked(m, p.src[1], p.new[1], p.cx)
      [] p.call = "fcntl_setfd"        -> FcntlSetTracked(m, p.src[1], p.cx)
      [] p.call = "recvmsg"            -> LookedUp(m, p.new[1], table)
      [] OTHER                         -> m

(* A number is known again when its close() has been seen, unless another  *)
(* call interferes or the map stands for two tables.                       *)
Healed(t) ==
    IF /\ pc[t].call = "close" /\ ~pc[t].clash
       /\ \A u \in Alive : pc[u].at # "new" /\ ptr[u] = ptr[t] => tbl[u] = tbl[t]
    THEN {pc[t].src[1]} ELSE {}

(* The numbers with which trackFD() is called at the exit of the call p    *)
Registered(p, m, table) ==
    CASE p.call \in DOMAIN Tracked -> {p.new[k] : k \in DOMAIN p.new}
      [] p.call \in {"dup", "dup2", "fcntl_dupfd"} /\ m[p.src[1]] # NoInfo -> {p.new[1]}
      [] p.call = "recvmsg" /\ table[p.new[1]] # None -> {p.new[1]}
      [] OTHER -> {}

(* The numbers that are looked up, in the map or with recvmsg() in /proc,  *)
(* and are not there                                                       *)
Missed(p, m, table) ==
    IF p.call \in {"close", "dup", "dup2", "fcntl_dupfd", "fcntl_setfd"} /\ m[p.src[1]] = NoInfo
    THEN {p.src[1]}
    ELSE IF p.call = "recvmsg" /\ table[p.new[1]] = None THEN {p.new[1]} ELSE {}

(* Variant: the check of trackFD() is inverted.                            *)
WarningsInverted(p, m, table) ==
    {fd \in Registered(p, m, table) : m[fd] = NoInfo} \cup Missed(p, m, table)

(* What is logged at the exit of the call p: "was already open?!" by       *)
(* trackFD(), "wasn't open before?!" by dropFD(), and that the source of a *)
(* copy or a received descriptor is not found                              *)
Warnings(p, m, table) ==
    {fd \in Registered(p, m, table) : m[fd] # NoInfo} \cup Missed(p, m, table)

(* handleSystemCallExit(), SystemCall::setExitInfo()                       *)
HandleExit(t) ==
    /\ pc[t].at = "done" /\ pc[t].call \notin {"fork", "execve"}
    /\ map' = [map EXCEPT ![ptr[t]] = MapAfter(pc[t], @, Table(t))]
    /\ off' = [off EXCEPT ![ptr[t]] = @ \ Healed(t)]
    /\ pc' = [pc EXCEPT ![t] = [Idle("user") EXCEPT !.call = pc[t].call]]
    /\ UNCHANGED <<calls, proc, tbl, file, ptr>>

(* PTRACE_EVENT_EXEC: handleExecEvent().  What the loop misses is wrong.   *)
HandleExec(t) ==
    /\ pc[t].at = "done" /\ pc[t].call = "execve"
    /\ LET m == SyncFDsAfterExec(map[ptr[t]], Table(t))
       IN  /\ map' = [map EXCEPT ![ptr[t]] = m]
           /\ off' = [off EXCEPT ![ptr[t]] =
                        @ \cup {fd \in FDs : m[fd] # NoInfo /\ Table(t)[fd] = None}]
    /\ pc' = [pc EXCEPT ![t] = [Idle("user") EXCEPT !.call = "execve"]]
    /\ UNCHANGED <<calls, proc, tbl, file, ptr>>

(* Variant: every new task gets a copy.                                    *)
SharesFileDescriptorsNever(p) == FALSE

(* shares_file_descriptors_with_parent()                                   *)
SharesFileDescriptors(p) == p.cx

(* PTRACE_EVENT_CLONE and the like: AutoAttachedTracee::configure()        *)
AutoAttach(t) ==
    /\ pc[t].at = "done" /\ pc[t].call = "fork"
    /\ LET c  == pc[t].src[1]
           id == IF SharesFileDescriptors(pc[t]) THEN ptr[t]
                 ELSE Unused({ptr[u] : u \in {v \in Alive : pc[v].at # "new"}})
       IN  /\ ptr' = [ptr EXCEPT ![c] = id]
           /\ map' = [map EXCEPT ![id] = map[ptr[t]]]
           /\ off' = [off EXCEPT ![id] = off[ptr[t]] \cup (IF id = ptr[t] THEN {} ELSE pc[t].foot)]
           /\ pc' = [pc EXCEPT ![t] = Idle("user"), ![c] = Idle("known")]
    /\ UNCHANGED <<calls, proc, tbl, file>>

(* handleAttached(): an empty map is filled from /proc, which shows what   *)
(* calls under way have done already.                                      *)
HandleAttached(t) ==
    LET empty == \A fd \in FDs : map[ptr[t]][fd] = NoInfo
    IN  /\ pc[t].at = "known"
        /\ map' = [map EXCEPT ![ptr[t]] = IF empty THEN GetFDInfos(Table(t)) ELSE @]
        /\ pc' = [u \in Threads |->
                    IF u = t THEN Idle("user")
                    ELSE IF empty /\ u \in Others(t) THEN [pc[u] EXCEPT !.clash = TRUE] ELSE pc[u]]
            /\ UNCHANGED <<calls, proc, tbl, file, ptr, off>>

----------------------------------------------------------------------------
Init ==
    /\ calls \in Programs
    /\ pc = [t \in Threads |-> Idle(IF t = Root THEN "known" ELSE "none")]
    /\ proc = [t \in Threads |-> t]
    /\ tbl = [t \in Threads |-> Root]
    /\ ptr = [t \in Threads |-> Root]
    /\ \E fds \in SUBSET FDs :
          file = [t \in Threads |-> [fd \in FDs |->
                    IF t = Root /\ fd \in fds THEN File("FS_PATH", FALSE, TRUE) ELSE None]]
    /\ map = [t \in Threads |-> [fd \in FDs |-> NoInfo]]
    /\ off = [t \in Threads |-> {}]

Next ==
    \E t \in Threads :
        \/ Create(t) \/ Close(t) \/ Dup(t) \/ Dup2(t) \/ FcntlDup(t) \/ FcntlSet(t)
        \/ Receive(t) \/ Unseen(t) \/ Fork(t) \/ Exec(t) \/ Unshare(t) \/ End(t)
        \/ HandleExit(t) \/ HandleExec(t) \/ AutoAttach(t) \/ HandleAttached(t)

Spec == Init /\ [][Next]_vars

----------------------------------------------------------------------------
Types == {Tracked[c].type : c \in DOMAIN Tracked} \cup {"EPOLL", "UNKNOWN"}

(* Types: a map and a table have an entry or none for each number, and     *)
(* off, the numbers for which a map is not trusted, is a set for each map. *)
TypeOK ==
    /\ \A t \in Threads : pc[t].at \in {"none", "new", "known", "user", "done"}
    /\ tbl \in [Threads -> Threads] /\ ptr \in [Threads -> Threads] /\ proc \in [Threads -> Threads]
    /\ \A i \in Threads, fd \in FDs :
          /\ map[i][fd] \in [type : Types, cx : BOOLEAN] \cup {NoInfo}
          /\ file[i][fd] \in [type : Types, cx : BOOLEAN, exact : BOOLEAN] \cup {None}
    /\ off \in [Threads -> SUBSET FDs]

Agrees(info, f) ==
    /\ (info = NoInfo) = (f = None)
    /\ f # None => /\ info.type = f.type \/ (f.type = "EPOLL" /\ info.type = "EVENT_FD")
                   /\ f.exact => info.cx = f.cx

UnderWay(t) ==
    UNION {pc[u].foot : u \in {v \in Alive : pc[v].at = "done" /\ tbl[v] = tbl[t]}}

Tracees == {t \in Alive : pc[t].at = "user" \/ (pc[t].at = "done" /\ pc[t].call # "execve")}

(* The map agrees with the kernel's table for every number that no call    *)
(* under way has to do with: the same descriptors, of the same type, with  *)
(* CLOEXEC where it is recorded.  Excepted are numbers for which one of    *)
(* the known departures has happened since they were last closed.          *)
MapInStep ==
    \A t \in Tracees : \A fd \in FDs \ (off[ptr[t]] \cup UnderWay(t)) :
        Agrees(map[ptr[t]][fd], Table(t)[fd])

(* Tracees share one ProcessData exactly if their threads share one table  *)
(* of descriptors; only what ends the sharing of a table is not followed,  *)
(* execve() in a process that shares it with another one and               *)
(* unshare(CLONE_FILES), and then the whole map is in doubt.               *)
SharedAlike ==
    \A t, u \in Tracees :
        /\ tbl[t] = tbl[u] => ptr[t] = ptr[u]
        /\ ptr[t] = ptr[u] /\ tbl[t] # tbl[u] => off[ptr[t]] = FDs

(* The call p is dup2() of a descriptor onto itself.                       *)
Itself(p) == p.call = "dup2" /\ p.src = p.new

(* The tracking warns at the exit of a call only of numbers for which the  *)
(* map has gone wrong by one of the known departures, or when two calls    *)
(* under way at the same time have to do with the same number; so what a   *)
(* program does with its descriptors in turn is never called "already      *)
(* open?!" nor "not found".  But for one case, where the map is right and  *)
(* trackFD() complains all the same: dup2() of a number onto itself.       *)
NoNeedlessWarning ==
    \A t \in Tracees : pc[t].at = "done" /\ pc[t].call # "fork" /\ ~pc[t].clash /\ ~Itself(pc[t]) =>
        Warnings(pc[t], map[ptr[t]], Table(t)) \subseteq off[ptr[t]]

----------------------------------------------------------------------------
(* Tracee.cxx, syncFDsAfterExec(): after execve() the map is brought in    *)
(* line with what is found in /proc/<pid>/fd.                              *)
ExecSynced ==
    \A t \in Alive : pc[t].at = "user" /\ pc[t].call = "execve" =>
        \A fd \in FDs : map[ptr[t]][fd] # NoInfo => Table(t)[fd] # None

=============================================================================
