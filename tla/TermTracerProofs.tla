-------------------------- MODULE TermTracerProofs --------------------------
(***************************************************************************)
(* What TermTracer prints and keeps about its tracees, for any number of   *)
(* tracees, any system calls and any filter.                               *)
(***************************************************************************)
EXTENDS TermTracer, FiniteSetTheorems, TLAPS

(* Types *)

CallMaps == UNION {[D -> Calls] : D \in SUBSET Pids}

TermTracers ==
    [active : {<< >>} \cup (Pids \X Calls), unfinished : CallMaps, num : 0 .. SizeRange - 1,
     fresh : SUBSET Pids, dropped : BOOLEAN, seen : BOOLEAN, line : Pids \cup {NoPid},
     said : Pids \cup {NoPid}, mixed : BOOLEAN, failed : BOOLEAN]

\* The operations on m_unfinished_syscalls.
LEMMA MapParts ==
  ASSUME NEW f \in CallMaps, NEW p \in Pids, NEW c \in Calls
  PROVE  /\ DOMAIN f \subseteq Pids /\ \A q \in DOMAIN f : f[q] \in Calls
         /\ Put(f, p, c) \in CallMaps /\ DOMAIN Put(f, p, c) = DOMAIN f \cup {p}
         /\ \A q \in DOMAIN f \cup {p} : Put(f, p, c)[q] = IF q = p THEN c ELSE f[q]
         /\ Drop(f, p) \in CallMaps /\ DOMAIN Drop(f, p) = DOMAIN f \ {p}
         /\ \A q \in DOMAIN f \ {p} : Drop(f, p)[q] = f[q]
<1>1. PICK D \in SUBSET Pids : f \in [D -> Calls]
  BY DEF CallMaps
<1>2. D \cup {p} \in SUBSET Pids /\ D \ {p} \in SUBSET Pids
  OBVIOUS
<1>3. Put(f, p, c) \in [D \cup {p} -> Calls] /\ Drop(f, p) \in [D \ {p} -> Calls]
  BY <1>1 DEF Put, Drop
<1>4. Put(f, p, c) \in CallMaps /\ Drop(f, p) \in CallMaps
  BY <1>2, <1>3 DEF CallMaps
<1> QED
  BY <1>1, <1>4 DEF Put, Drop

\* Dropping needs no call.
LEMMA DropParts ==
  ASSUME NEW f \in CallMaps, NEW p \in Pids
  PROVE  /\ DOMAIN f \subseteq Pids /\ \A q \in DOMAIN f : f[q] \in Calls
         /\ Drop(f, p) \in CallMaps /\ DOMAIN Drop(f, p) = DOMAIN f \ {p}
         /\ \A q \in DOMAIN f \ {p} : Drop(f, p)[q] = f[q]
<1>1. PICK D \in SUBSET Pids : f \in [D -> Calls]
  BY DEF CallMaps
<1>2. Drop(f, p) \in [D \ {p} -> Calls] /\ D \ {p} \in SUBSET Pids
  BY <1>1 DEF Drop
<1>3. Drop(f, p) \in CallMaps
  BY <1>2 DEF CallMaps
<1> QED
  BY <1>1, <1>3 DEF Drop

\* What is known of a TermTracer's active call.
LEMMA ActiveParts ==
  ASSUME NEW s \in TermTracers, s.active # << >>
  PROVE  s.active[1] \in Pids /\ s.active[2] \in Calls
<1>1. s.active \in Pids \X Calls
  BY DEF TermTracers
<1> QED
  BY <1>1

\* Everything that storeUnfinishedSyscallCtx() does.
LEMMA StoreParts ==
  ASSUME NEW s \in TermTracers
  PROVE  LET r == StoreUnfinishedSyscallCtx(s)
         IN  /\ r \in TermTracers /\ r.active = << >> /\ r.num = s.num /\ r.fresh = s.fresh
             /\ r.dropped = s.dropped /\ r.seen = s.seen /\ r.said = s.said
             /\ r.mixed = s.mixed /\ r.failed = s.failed
             /\ IF s.active = << >> THEN r = s
                ELSE /\ r.unfinished = Put(s.unfinished, s.active[1], s.active[2])
                     /\ r.line = IF IsEnabled(s.active[2]) THEN NoPid ELSE s.line
<1> DEFINE r == StoreUnfinishedSyscallCtx(s)
           u == Put(s.unfinished, s.active[1], s.active[2])
           n == IF IsEnabled(s.active[2]) THEN NoPid ELSE s.line
<1>1. CASE s.active = << >>
  <2>1. r = s
    BY <1>1 DEF StoreUnfinishedSyscallCtx
  <2> HIDE DEF r
  <2> QED BY <1>1, <2>1 DEF r
<1>2. CASE s.active # << >>
  <2>1. u \in CallMaps
    <3>1. s.active[1] \in Pids /\ s.active[2] \in Calls
      BY <1>2, ActiveParts
    <3>2. s.unfinished \in CallMaps
      BY DEF TermTracers
    <3> QED BY <3>1, <3>2, MapParts, ZenonT(40)
  <2>2. n \in Pids \cup {NoPid}
    BY DEF TermTracers
  <2>3. r = [s EXCEPT !.unfinished = u, !.active = << >>, !.line = n]
    BY <1>2 DEF StoreUnfinishedSyscallCtx
  <2> HIDE DEF u, n, r
  <2>4. /\ r \in TermTracers /\ r.active = << >> /\ r.num = s.num /\ r.fresh = s.fresh
        /\ r.dropped = s.dropped /\ r.seen = s.seen /\ r.said = s.said
        /\ r.mixed = s.mixed /\ r.failed = s.failed /\ r.unfinished = u /\ r.line = n
    BY <2>1, <2>2, <2>3 DEF TermTracers
  <2> QED BY <1>2, <2>4 DEF u, n, r
<1> QED
  BY <1>1, <1>2

\* Everything that startNewLine() does.
LEMMA StartParts ==
  ASSUME NEW s \in TermTracers, NEW p \in Pids
  PROVE  LET u == StoreUnfinishedSyscallCtx(s)
             r == StartNewLine(s, p)
         IN  /\ r \in TermTracers /\ r.active = << >> /\ r.unfinished = u.unfinished /\ r.num = s.num
             /\ r.fresh = s.fresh /\ r.seen = s.seen /\ r.line = u.line /\ r.failed = s.failed
             /\ r.mixed <=> (s.mixed \/ u.line # NoPid)
             /\ r.said = IF s.num <= 1 /\ s.dropped THEN p ELSE s.said
<1> DEFINE u == StoreUnfinishedSyscallCtx(s)
           r == StartNewLine(s, p)
           m == s.mixed \/ u.line # NoPid
           a == IF s.num <= 1 /\ s.dropped THEN p ELSE s.said
           d == s.dropped /\ s.num > 1
<1>1. /\ u \in TermTracers /\ u.active = << >> /\ u.num = s.num /\ u.fresh = s.fresh
      /\ u.dropped = s.dropped /\ u.seen = s.seen /\ u.said = s.said /\ u.mixed = s.mixed /\ u.failed = s.failed
  BY StoreParts
<1> HIDE DEF u
<1>2. r = [u EXCEPT !.mixed = m, !.said = a, !.dropped = d]
  BY <1>1 DEF StartNewLine, u
<1>3. m \in BOOLEAN /\ a \in Pids \cup {NoPid} /\ d \in BOOLEAN
  BY DEF TermTracers
<1> HIDE DEF m, a, d, r
<1>4. /\ r \in TermTracers /\ r.active = << >> /\ r.unfinished = u.unfinished /\ r.num = s.num
      /\ r.fresh = s.fresh /\ r.seen = s.seen /\ r.line = u.line /\ r.failed = s.failed
      /\ r.mixed = m /\ r.said = a
  BY <1>1, <1>2, <1>3 DEF TermTracers
<1> QED
  BY <1>4 DEF u, r, m, a

\* Everything that is done to end a line.
LEMMA EndLineParts ==
  ASSUME NEW s \in TermTracers, NEW p \in Pids
  PROVE  LET r == EndLine(s, p)
         IN  /\ r \in TermTracers /\ r.active = s.active /\ r.unfinished = s.unfinished /\ r.num = s.num
             /\ r.fresh = s.fresh /\ r.seen = s.seen /\ r.line = NoPid /\ r.failed = s.failed
             /\ r.said = s.said /\ r.dropped = s.dropped
             /\ r.mixed <=> (s.mixed \/ s.line # p)
<1> DEFINE m == s.mixed \/ s.line # p
           r == EndLine(s, p)
<1>1. r = [s EXCEPT !.mixed = m, !.line = NoPid] /\ m \in BOOLEAN
  BY DEF EndLine
<1> HIDE DEF m, r
<1>2. /\ r \in TermTracers /\ r.active = s.active /\ r.unfinished = s.unfinished /\ r.num = s.num
      /\ r.fresh = s.fresh /\ r.seen = s.seen /\ r.line = NoPid /\ r.failed = s.failed
      /\ r.said = s.said /\ r.dropped = s.dropped /\ r.mixed = m
  BY <1>1 DEF TermTracers
<1> QED
  BY <1>2 DEF r, m

\* What checkResumedSyscall() makes of s when there is something to resume.
Resumed(s, p) == StartNewLine([s EXCEPT !.unfinished = Drop(s.unfinished, p)], p)

\* The fields of a TermTracer of which one has been changed.
LEMMA TracerParts ==
  ASSUME NEW s \in TermTracers
  PROVE  /\ \A x \in {<< >>} \cup (Pids \X Calls) :
              LET r == [s EXCEPT !.active = x]
              IN  /\ r \in TermTracers /\ r.active = x /\ r.unfinished = s.unfinished /\ r.num = s.num
                  /\ r.fresh = s.fresh /\ r.dropped = s.dropped /\ r.seen = s.seen /\ r.line = s.line
                  /\ r.said = s.said /\ r.mixed = s.mixed /\ r.failed = s.failed
         /\ \A x \in CallMaps :
              LET r == [s EXCEPT !.unfinished = x]
              IN  /\ r \in TermTracers /\ r.active = s.active /\ r.unfinished = x /\ r.num = s.num
                  /\ r.fresh = s.fresh /\ r.dropped = s.dropped /\ r.seen = s.seen /\ r.line = s.line
                  /\ r.said = s.said /\ r.mixed = s.mixed /\ r.failed = s.failed
         /\ \A x \in Pids \cup {NoPid} :
              LET r == [s EXCEPT !.line = x]
              IN  /\ r \in TermTracers /\ r.active = s.active /\ r.unfinished = s.unfinished /\ r.num = s.num
                  /\ r.fresh = s.fresh /\ r.dropped = s.dropped /\ r.seen = s.seen /\ r.line = x
                  /\ r.said = s.said /\ r.mixed = s.mixed /\ r.failed = s.failed
         /\ [s EXCEPT !.failed = TRUE] \in TermTracers /\ [s EXCEPT !.failed = TRUE].failed
BY DEF TermTracers

\* checkResumedSyscall() keeps to the types.
LEMMA ResumedParts ==
  ASSUME NEW s \in TermTracers, NEW p \in Pids
  PROVE  LET r == CheckResumedSyscall(s, p)
         IN  /\ r \in TermTracers
             /\ HasActive(s, p) => r = s
             /\ ~HasActive(s, p) /\ p \in DOMAIN s.unfinished => r = [Resumed(s, p) EXCEPT !.line = p]
             /\ [s EXCEPT !.unfinished = Drop(s.unfinished, p)] \in TermTracers
             /\ Resumed(s, p) \in TermTracers
<1> DEFINE d == [s EXCEPT !.unfinished = Drop(s.unfinished, p)]
<1>1. d \in TermTracers
  BY DropParts, TracerParts, ZenonT(40) DEF TermTracers
<1>2. Resumed(s, p) \in TermTracers
  BY <1>1, StartParts DEF Resumed
<1> HIDE DEF d
<1>3. CheckResumedSyscall(s, p) = IF HasActive(s, p) THEN s
                                  ELSE IF p \notin DOMAIN s.unfinished THEN [s EXCEPT !.failed = TRUE]
                                  ELSE [Resumed(s, p) EXCEPT !.line = p]
  BY DEF CheckResumedSyscall, Resumed
<1>4. [Resumed(s, p) EXCEPT !.line = p] \in TermTracers /\ [s EXCEPT !.failed = TRUE] \in TermTracers
  BY <1>2, TracerParts
<1> QED
  BY <1>1, <1>2, <1>3, <1>4 DEF d

\* abortSyscall() does.
LEMMA AbortType ==
  ASSUME NEW s \in TermTracers, NEW p \in Pids PROVE AbortSyscall(s, p) \in TermTracers
<1> DEFINE a == IF HasActive(s, p) THEN [s EXCEPT !.active = << >>]
                ELSE IF CurrentEnabled(s, p) THEN CheckResumedSyscall(s, p) ELSE s
<1>1. a \in TermTracers
  BY TracerParts, ResumedParts
<1>2. AbortSyscall(s, p) = IF CurrentEnabled(s, p) THEN EndLine(a, p) ELSE a
  BY DEF AbortSyscall
<1> HIDE DEF a
<1> QED
  BY <1>1, <1>2, EndLineParts

\* Everything that cleanupTracee() does.
LEMMA CleanupParts ==
  ASSUME NEW s \in TermTracers, NEW p \in Pids
  PROVE  LET r == CleanupTracee(s, p)
         IN  /\ r \in TermTracers /\ r.active = (IF HasActive(s, p) THEN << >> ELSE s.active)
             /\ r.unfinished = IF HasActive(s, p) THEN s.unfinished ELSE Drop(s.unfinished, p)
             /\ r.num = Decrement(s.num) /\ r.fresh = s.fresh \ {p} /\ r.seen = s.seen
             /\ r.line = s.line /\ r.said = s.said /\ r.mixed = s.mixed /\ r.failed = s.failed
<1> DEFINE r == CleanupTracee(s, p)
           n == Decrement(s.num)
           a == IF HasActive(s, p) THEN << >> ELSE s.active
           u == IF HasActive(s, p) THEN s.unfinished ELSE Drop(s.unfinished, p)
           h == s.fresh \ {p}
           d == s.dropped \/ n = 1
<1>1. n \in 0 .. SizeRange - 1 /\ d \in BOOLEAN
  BY SizeAssumption DEF TermTracers, Decrement
<1>2. a \in {<< >>} \cup (Pids \X Calls) /\ u \in CallMaps /\ h \in SUBSET Pids
  BY DropParts DEF TermTracers
<1>3. r = [s EXCEPT !.active = a, !.unfinished = u, !.fresh = h, !.num = n, !.dropped = d]
  BY DEF CleanupTracee
<1> HIDE DEF n, a, u, h, d, r
<1>4. /\ r \in TermTracers /\ r.active = a /\ r.unfinished = u /\ r.num = n /\ r.fresh = h /\ r.seen = s.seen
      /\ r.line = s.line /\ r.said = s.said /\ r.mixed = s.mixed /\ r.failed = s.failed
  BY <1>1, <1>2, <1>3 DEF TermTracers
<1> QED
  BY <1>4 DEF n, a, u, h, r

\* Everything that updateTracee() does.
LEMMA UpdateParts ==
  ASSUME NEW s \in TermTracers, NEW p \in Pids, NEW old \in Pids
  PROVE  LET r == UpdateTracee(s, p, old)
         IN  /\ r \in TermTracers /\ r.active = (IF HasActive(s, old) THEN <<p, s.active[2]>> ELSE s.active)
             /\ r.unfinished = IF ~HasActive(s, old) /\ old \in DOMAIN s.unfinished
                               THEN Drop(Put(s.unfinished, p, s.unfinished[old]), old) ELSE s.unfinished
             /\ r.num = s.num /\ r.seen = s.seen /\ r.fresh \ {p, old} = s.fresh \ {p, old}
             /\ r.line = (IF s.line = old THEN p ELSE s.line)
             /\ r.said = s.said /\ r.mixed = s.mixed /\ r.failed = s.failed /\ r.dropped = s.dropped
<1> DEFINE r == UpdateTracee(s, p, old)
           a == IF HasActive(s, old) THEN <<p, s.active[2]>> ELSE s.active
           u == IF ~HasActive(s, old) /\ old \in DOMAIN s.unfinished
                THEN Drop(Put(s.unfinished, p, s.unfinished[old]), old) ELSE s.unfinished
           h == IF old \in s.fresh THEN (s.fresh \ {old}) \cup {p} ELSE s.fresh \ {p}
           n == IF s.line = old THEN p ELSE s.line
<1>1. a \in {<< >>} \cup (Pids \X Calls)
  BY ActiveParts DEF TermTracers, HasActive
<1>2. u \in CallMaps
  <2>1. s.unfinished \in CallMaps
    BY DEF TermTracers
  <2>2. CASE old \in DOMAIN s.unfinished
    <3>1. s.unfinished[old] \in Calls
      BY <2>1, <2>2, DropParts
    <3>2. Put(s.unfinished, p, s.unfinished[old]) \in CallMaps
      BY <2>1, <3>1, MapParts
    <3> QED BY <2>1, <3>2, DropParts
  <2> QED BY <2>1, <2>2
<1>3. h \in SUBSET Pids /\ h \ {p, old} = s.fresh \ {p, old} /\ n \in Pids \cup {NoPid}
  BY DEF TermTracers
<1>4. r = [s EXCEPT !.active = a, !.unfinished = u, !.fresh = h, !.line = n]
  BY DEF UpdateTracee
<1> HIDE DEF a, u, h, n, r
<1>5. /\ r \in TermTracers /\ r.active = a /\ r.unfinished = u /\ r.fresh = h /\ r.line = n
      /\ r.num = s.num /\ r.seen = s.seen /\ r.said = s.said /\ r.mixed = s.mixed /\ r.failed = s.failed
      /\ r.dropped = s.dropped
  BY <1>1, <1>2, <1>3, <1>4 DEF TermTracers
<1> QED
  BY <1>3, <1>5 DEF a, u, n, r

\* The callbacks keep to the types.
LEMMA EntryType ==
  ASSUME NEW s \in TermTracers, NEW p \in Pids, NEW c \in Calls PROVE SyscallEntry(s, p, c) \in TermTracers
<1> DEFINE n == StartNewLine(s, p)
           a == <<p, c>>
<1>1. n \in TermTracers
  BY StartParts
<1>2. a \in {<< >>} \cup (Pids \X Calls)
  OBVIOUS
<1>3. SyscallEntry(s, p, c) = IF ~IsEnabled(c) THEN s ELSE [n EXCEPT !.line = p, !.active = a]
  BY DEF SyscallEntry
<1> HIDE DEF n, a
<1>4. [n EXCEPT !.line = p, !.active = a] \in TermTracers
  BY <1>1, <1>2 DEF TermTracers
<1> QED
  BY <1>3, <1>4

\* So does the exit of a call.
LEMMA ExitType ==
  ASSUME NEW s \in TermTracers, NEW p \in Pids, NEW c, NEW ok PROVE SyscallExit(s, p, c, ok) \in TermTracers
<1> DEFINE r == CheckResumedSyscall(s, p)
           n == IF r.active # << >> /\ ~HasActive(r, p) THEN StartNewLine(r, p) ELSE r
           e == EndLine(n, p)
<1>1. r \in TermTracers
  BY ResumedParts
<1> HIDE DEF r
<1>2. n \in TermTracers
  BY <1>1, StartParts
<1> HIDE DEF n
<1>3. e \in TermTracers
  BY <1>2, EndLineParts
<1> HIDE DEF e
<1>4. [e EXCEPT !.active = << >>] \in TermTracers
  BY <1>3, TracerParts
<1>5. SyscallExit(s, p, c, ok) \in {s, r, [e EXCEPT !.active = << >>]}
  BY DEF SyscallExit, r, n, e
<1> QED
  BY <1>1, <1>4, <1>5

\* Everything that attached() does.
LEMMA AttachedParts ==
  ASSUME NEW s \in TermTracers, NEW p \in Pids
  PROVE  LET r == Attached(s, p)
             a == [s EXCEPT !.num = Increment(s.num)]
             n == StartNewLine(a, p)
         IN  /\ a \in TermTracers /\ a.num = Increment(s.num) /\ a.active = s.active
             /\ a.unfinished = s.unfinished /\ a.line = s.line /\ a.mixed = s.mixed /\ a.failed = s.failed
             /\ a.said = s.said /\ a.fresh = s.fresh
             /\ r \in TermTracers
             /\ IF s.num = 0 THEN r = a
                ELSE /\ r.active = n.active /\ r.unfinished = n.unfinished /\ r.num = a.num
                     /\ r.line = (IF p \in Initial \cup s.fresh THEN NoPid ELSE p)
                     /\ r.fresh = (IF p \in Initial THEN s.fresh ELSE s.fresh \ {p})
                     /\ r.said = n.said /\ r.mixed = n.mixed /\ r.failed = n.failed
<1> DEFINE k == Increment(s.num)
           a == [s EXCEPT !.num = k]
           n == StartNewLine(a, p)
           l == IF p \in Initial \cup s.fresh THEN NoPid ELSE p
           h == IF p \in Initial THEN s.fresh ELSE s.fresh \ {p}
           r == Attached(s, p)
<1>1. k \in 0 .. SizeRange - 1
  BY SizeAssumption DEF TermTracers, Increment
<1>2. /\ a \in TermTracers /\ a.num = k /\ a.active = s.active /\ a.unfinished = s.unfinished /\ a.line = s.line
      /\ a.mixed = s.mixed /\ a.failed = s.failed /\ a.said = s.said /\ a.fresh = s.fresh
  <2> HIDE DEF k
  <2> QED BY <1>1 DEF TermTracers
<1>3. r = IF s.num = 0 THEN a ELSE [n EXCEPT !.line = l, !.fresh = IF p \in Initial THEN n.fresh ELSE n.fresh \ {p}]
  BY DEF Attached
<1> HIDE DEF a, r, k
<1>4. n \in TermTracers /\ n.fresh = s.fresh /\ n.num = k
  BY <1>2, StartParts
<1>5. h \in SUBSET Pids /\ l \in Pids \cup {NoPid}
  BY DEF TermTracers
<1> HIDE DEF n, l, h
<1>6. r = IF s.num = 0 THEN a ELSE [n EXCEPT !.line = l, !.fresh = h]
  BY <1>3, <1>4 DEF h
<1>7. CASE s.num = 0
  <2>1. r = a
    BY <1>6, <1>7
  <2> QED BY <1>2, <1>7, <2>1 DEF r, a, k
<1>8. CASE s.num # 0
  <2>1. /\ r \in TermTracers /\ r.active = n.active /\ r.unfinished = n.unfinished /\ r.num = n.num
        /\ r.line = l /\ r.fresh = h /\ r.said = n.said /\ r.mixed = n.mixed /\ r.failed = n.failed
    BY <1>4, <1>5, <1>6, <1>8 DEF TermTracers
  <2> QED BY <1>2, <1>4, <1>8, <2>1 DEF r, a, k, n, l, h
<1> QED
  BY <1>7, <1>8

\* The end of a tracee keeps to the types.
LEMMA ExitedType ==
  ASSUME NEW s \in TermTracers, NEW p \in Pids, NEW e PROVE Exited(s, p, e) \in TermTracers
<1> DEFINE a == IF e THEN AbortSyscall(s, p) ELSE s
<1>1. a \in TermTracers
  BY AbortType
<1>2. Exited(s, p, e) = IF a.failed THEN a ELSE CleanupTracee(StartNewLine(a, p), p)
  BY DEF Exited
<1> HIDE DEF a
<1> QED
  BY <1>1, <1>2, StartParts, CleanupParts

\* newExecutionContext() in steps.
LEMMA ExecParts ==
  ASSUME NEW s \in TermTracers, NEW p \in Pids, NEW old \in Pids
  PROVE  LET u == IF old # p THEN UpdateTracee(s, p, old) ELSE s
             r == IF CurrentEnabled(u, p) THEN EndLine(CheckResumedSyscall(u, p), p) ELSE u
             a == [r EXCEPT !.active = << >>]
             n == StartNewLine(a, p)
             x == NewExecutionContext(s, p, old)
         IN  /\ u \in TermTracers /\ r \in TermTracers /\ a \in TermTracers /\ n \in TermTracers
             /\ x \in TermTracers /\ x.active = n.active /\ x.unfinished = n.unfinished /\ x.num = n.num
             /\ x.fresh = n.fresh /\ x.line = n.line /\ x.said = n.said /\ x.mixed = n.mixed
             /\ x.failed = n.failed
<1> DEFINE u == IF old # p THEN UpdateTracee(s, p, old) ELSE s
           c == CheckResumedSyscall(u, p)
           r == IF CurrentEnabled(u, p) THEN EndLine(c, p) ELSE u
           a == [r EXCEPT !.active = << >>]
           n == StartNewLine(a, p)
           x == NewExecutionContext(s, p, old)
<1>1. u \in TermTracers
  BY UpdateParts
<1> HIDE DEF u
<1>2. c \in TermTracers
  BY <1>1, ResumedParts
<1> HIDE DEF c
<1>3. r \in TermTracers
  BY <1>1, <1>2, EndLineParts
<1> HIDE DEF r
<1>4. a \in TermTracers
  BY <1>3, TracerParts
<1> HIDE DEF a
<1>5. n \in TermTracers
  BY <1>4, StartParts
<1>6. x = [n EXCEPT !.seen = TRUE]
  BY DEF NewExecutionContext, n, a, r, c, u
<1> HIDE DEF n, x
<1>7. /\ x \in TermTracers /\ x.active = n.active /\ x.unfinished = n.unfinished /\ x.num = n.num
      /\ x.fresh = n.fresh /\ x.line = n.line /\ x.said = n.said /\ x.mixed = n.mixed /\ x.failed = n.failed
  BY <1>5, <1>6 DEF TermTracers
<1> QED
  BY <1>1, <1>3, <1>4, <1>5, <1>7 DEF u, c, r, a, n, x

\* What newChildProcess() prints before it remembers the child.
Asked(s, p) == IF FollowChildren = "ASK" THEN StartNewLine(s, p) ELSE s

\* Everything that newChildProcess() does.
LEMMA ChildParts ==
  ASSUME NEW s \in TermTracers, NEW p \in Pids, NEW c \in Pids, NEW follow \in BOOLEAN
  PROVE  LET a == Asked(s, p)
             r == NewChildProcess(s, p, c, follow)
         IN  /\ a \in TermTracers /\ r \in TermTracers /\ r.active = a.active /\ r.unfinished = a.unfinished
             /\ r.num = a.num /\ r.fresh = (IF follow THEN a.fresh \cup {c} ELSE a.fresh) /\ r.line = a.line
             /\ r.said = a.said /\ r.mixed = a.mixed /\ r.failed = a.failed
<1> DEFINE a == Asked(s, p)
           r == NewChildProcess(s, p, c, follow)
           h == a.fresh \cup {c}
<1>1. a \in TermTracers
  BY StartParts DEF Asked
<1>2. r = IF follow THEN [a EXCEPT !.fresh = h] ELSE a
  BY DEF NewChildProcess, Asked
<1> HIDE DEF a, r
<1>3. h \in SUBSET Pids
  BY <1>1 DEF TermTracers
<1>4. CASE follow
  <2> HIDE DEF h
  <2>1. /\ r \in TermTracers /\ r.active = a.active /\ r.unfinished = a.unfinished
        /\ r.num = a.num /\ r.fresh = h /\ r.line = a.line /\ r.said = a.said /\ r.mixed = a.mixed
        /\ r.failed = a.failed
    BY <1>1, <1>2, <1>3, <1>4 DEF TermTracers
  <2> QED BY <1>1, <1>4, <2>1 DEF a, r, h
<1>5. CASE ~follow
  <2>1. r = a
    BY <1>2, <1>5
  <2> QED BY <1>1, <1>5, <2>1 DEF a, r
<1> QED
  BY <1>4, <1>5

(* The specification: types *)

States == {"none", "untraced", "new", "declined", "attached", "working", "exiting", "left"}

TypeInv ==
    /\ tt \in TermTracers
    /\ st \in [Pids -> States] /\ call \in [Pids -> Calls \cup {"none", "execve_done"}]
    /\ entered \subseteq Pids /\ leader \in [Pids -> Pids]

\* The TermTracer a callback starts with.
LEMMA NowParts ==
  ASSUME TypeInv
  PROVE  /\ Now \in TermTracers /\ Now.active = tt.active /\ Now.unfinished = tt.unfinished /\ Now.num = tt.num
         /\ Now.fresh = tt.fresh /\ Now.line = tt.line /\ Now.mixed = tt.mixed /\ Now.failed = tt.failed
         /\ Now.said = NoPid /\ Now.dropped = tt.dropped
BY DEF TypeInv, Now, TermTracers

\* A callback about one tracee.
LEMMA CallbackType ==
  ASSUME TypeInv, NEW p \in Pids, NEW s \in TermTracers, NEW state \in States,
         NEW c \in Calls \cup {"none", "execve_done"}, NEW e \in BOOLEAN, Callback(p, s, state, c, e), UNCHANGED leader
  PROVE  TypeInv'
BY DEF TypeInv, Callback

\* Each callback keeps to the types.
LEMMA NextTypeInv == TypeInv /\ [Next]_vars => TypeInv'
<1> SUFFICES ASSUME TypeInv, [Next]_vars PROVE TypeInv'
  OBVIOUS
<1>1. CASE UNCHANGED vars
  BY <1>1 DEF vars, TypeInv
<1> SUFFICES ASSUME NEW p \in Pids,
                    \/ TraceeAttached(p) \/ TraceeEntry(p) \/ TraceeExit(p) \/ TraceeSignaled(p)
                    \/ TraceeStopped(p) \/ TraceeExited(p) \/ TraceeCollected(p) \/ TraceeDisappeared(p)
                    \/ TraceeExec(p) \/ \E c \in Pids : NewTracee(p, c)
             PROVE  TypeInv'
  BY <1>1 DEF Next
<1>2. Now \in TermTracers
  BY NowParts
<1>3. st[p] \in States /\ call[p] \in Calls \cup {"none", "execve_done"} /\ leader[p] \in Pids
  BY DEF TypeInv
<1>4. CASE TraceeAttached(p)
  <2>1. Attached(Now, p) \in TermTracers
    BY <1>2, AttachedParts
  <2> QED BY <1>4, <2>1 DEF TraceeAttached, TypeInv, States
<1>5. CASE TraceeEntry(p)
  <2>1. PICK c \in Calls : Callback(p, SyscallEntry(Now, p, c), "working", c, TRUE)
    BY <1>5 DEF TraceeEntry
  <2>2. SyscallEntry(Now, p, c) \in TermTracers
    BY <1>2, EntryType
  <2>3. "working" \in States /\ UNCHANGED leader
    BY <1>5 DEF TraceeEntry, States
  <2> QED BY <2>1, <2>2, <2>3, CallbackType
<1>6. CASE TraceeExit(p)
  <2> DEFINE s == IF call[p] = "execve_done" THEN SyscallExit(Now, p, "execve", TRUE)
                  ELSE SyscallExit(Now, p, call[p], FALSE)
  <2>1. s \in TermTracers
    BY <1>2, ExitType
  <2>2. Callback(p, s, "working", "none", FALSE) /\ UNCHANGED leader
    BY <1>6 DEF TraceeExit
  <2>3. "working" \in States
    BY DEF States
  <2> HIDE DEF s
  <2> QED BY <2>1, <2>2, <2>3, CallbackType
<1>7. CASE TraceeSignaled(p)
  <2>1. Signaled(Now, p) \in TermTracers
    BY <1>2, StartParts DEF Signaled
  <2> QED BY <1>3, <1>7, <2>1, CallbackType DEF TraceeSignaled
<1>8. CASE TraceeStopped(p)
  <2> DEFINE s == Stopped(Now, p, IF st[p] = "attached" THEN 0 ELSE 1)
  <2>1. s \in TermTracers
    BY <1>2, StartParts DEF Stopped
  <2>2. Callback(p, s, st[p], call[p], FALSE) /\ UNCHANGED leader
    BY <1>8 DEF TraceeStopped
  <2> HIDE DEF s
  <2> QED BY <1>3, <2>1, <2>2, CallbackType
<1>9. CASE TraceeExited(p)
  <2>1. Exited(Now, p, p \in entered) \in TermTracers /\ "exiting" \in States
    BY <1>2, ExitedType DEF States
  <2>2. Callback(p, Exited(Now, p, p \in entered), "exiting", "none", FALSE) /\ UNCHANGED leader
    BY <1>9 DEF TraceeExited
  <2> QED BY <2>1, <2>2, CallbackType
<1>10. CASE TraceeCollected(p)
  <2>1. Callback(p, Now, "none", "none", FALSE) /\ UNCHANGED leader /\ "none" \in States
    BY <1>10 DEF TraceeCollected, States
  <2> QED BY <1>2, <2>1, CallbackType
<1>11. CASE TraceeDisappeared(p)
  <2>1. Disappeared(Now, p) \in TermTracers /\ "none" \in States
    BY <1>2, ExitedType DEF Disappeared, States
  <2>2. Callback(p, Disappeared(Now, p), "none", "none", FALSE) /\ UNCHANGED leader
    BY <1>11 DEF TraceeDisappeared
  <2> QED BY <2>1, <2>2, CallbackType
<1>12. CASE TraceeExec(p)
  <2> DEFINE m == leader[p]
  <2>1. NewExecutionContext(Now, m, p) \in TermTracers
    BY <1>2, <1>3, ExecParts
  <2>2. PICK x \in {"working", "left", "none"} : st' = [[st EXCEPT ![p] = "none"] EXCEPT ![m] = x]
    BY <1>12 DEF TraceeExec
  <2>3. st' \in [Pids -> States]
    BY <1>3, <2>2 DEF TypeInv, States
  <2>4. PICK y \in {"execve_done", "none"} : call' = [[call EXCEPT ![p] = "none"] EXCEPT ![m] = y]
    BY <1>12 DEF TraceeExec
  <2>5. call' \in [Pids -> Calls \cup {"none", "execve_done"}]
    BY <1>3, <2>4 DEF TypeInv
  <2>6. entered' \subseteq Pids /\ leader' \in [Pids -> Pids] /\ tt' = NewExecutionContext(Now, m, p)
    BY <1>12 DEF TraceeExec, TypeInv
  <2> QED BY <2>1, <2>3, <2>5, <2>6 DEF TypeInv
<1>13. ASSUME NEW c \in Pids, NewTracee(p, c) PROVE TypeInv'
  <2>1. PICK thread \in BOOLEAN : \E follow \in FollowNewChild(thread) :
            /\ tt' = NewChildProcess(Now, p, c, follow)
            /\ st' = [st EXCEPT ![c] = IF follow THEN "new" ELSE "declined"]
            /\ leader' = [leader EXCEPT ![c] = IF thread THEN leader[p] ELSE c]
    BY <1>13 DEF NewTracee
  <2> PICK follow \in FollowNewChild(thread) :
            /\ tt' = NewChildProcess(Now, p, c, follow)
            /\ st' = [st EXCEPT ![c] = IF follow THEN "new" ELSE "declined"]
    BY <2>1
  <2>5. follow \in BOOLEAN
    BY ModeAssumption DEF FollowNewChild
  <2>2. NewChildProcess(Now, p, c, follow) \in TermTracers
    BY <1>2, <2>5, ChildParts
  <2>3. st' \in [Pids -> States] /\ leader' \in [Pids -> Pids]
    BY <1>3, <2>1 DEF TypeInv, States
  <2>4. entered' \subseteq Pids /\ call' = call
    BY <1>13 DEF NewTracee, TypeInv
  <2> QED BY <2>1, <2>2, <2>3, <2>4 DEF TypeInv
<1> QED
  BY <1>4, <1>5, <1>6, <1>7, <1>8, <1>9, <1>10, <1>11, <1>12, <1>13

\* The initial state is well-formed.
LEMMA InitTypeInv == Init => TypeInv
<1> SUFFICES ASSUME Init PROVE TypeInv
  OBVIOUS
<1>1. NoCalls \in [{} -> Calls] /\ {} \in SUBSET Pids
  BY DEF NoCalls
<1>2. NoCalls \in CallMaps
  BY <1>1 DEF CallMaps
<1> HIDE DEF NoCalls
<1>9. 0 \in 0 .. SizeRange - 1
  BY SizeAssumption, FS_CardinalityType
<1>3. NewTermTracer \in TermTracers
  BY <1>2, <1>9 DEF NewTermTracer, TermTracers
<1>4. st \in [Pids -> States] /\ call \in [Pids -> Calls \cup {"none", "execve_done"}] /\ leader \in [Pids -> Pids]
      /\ entered = {}
  BY PidAssumption DEF Init, States
<1> QED
  BY <1>3, <1>4 DEF Init, TypeInv

\* What TermTracer keeps is well-formed, whatever callbacks come in whatever order:
\* m_num_tracees stays a size_t, and the maps hold system calls of tracees.
THEOREM TypeCorrect == Spec => []TypeOK
<1>1. TypeInv => TypeOK
  <2> SUFFICES ASSUME TypeInv PROVE TypeOK
    OBVIOUS
  <2>1. DOMAIN tt.unfinished \subseteq Pids /\ \A p \in DOMAIN tt.unfinished : tt.unfinished[p] \in Calls
    BY DEF TypeInv, TermTracers, CallMaps
  <2> QED BY <2>1 DEF TypeInv, TypeOK, TermTracers, States
<1> QED
  BY <1>1, InitTypeInv, NextTypeInv, PTL DEF Spec

(* Lines and pending calls *)

\* Nothing has been mixed up, and an unended line is that of the active call.
Clean(s) ==
    /\ ~s.mixed /\ ~s.failed
    /\ s.line = IF s.active = << >> THEN NoPid ELSE s.active[1]
    /\ s.active # << >> => IsEnabled(s.active[2]) /\ s.active[1] \notin DOMAIN s.unfinished
    /\ \A q \in DOMAIN s.unfinished : IsEnabled(s.unfinished[q])

\* For all tracees but those of the set P the same calls are pending.
Rest(s, r, P) == \A q \in Pids \ P : CurrentSyscall(r, q) = CurrentSyscall(s, q)

\* Only p may have been called the last one, and only if there is no more than one.
SaidOf(s, r, p) == r.said = s.said \/ (r.said = p /\ s.num <= 1)

\* A new line makes the active call, if there is one, an unfinished one.
LEMMA CleanStart ==
  ASSUME NEW s \in TermTracers, Clean(s), NEW p \in Pids
  PROVE  LET r == StartNewLine(s, p)
         IN  /\ r \in TermTracers /\ Clean(r) /\ r.active = << >> /\ Rest(s, r, {}) /\ r.num = s.num
             /\ r.fresh = s.fresh /\ SaidOf(s, r, p)
<1> DEFINE u == StoreUnfinishedSyscallCtx(s)
           r == StartNewLine(s, p)
<1>1. /\ u \in TermTracers /\ u.active = << >>
      /\ IF s.active = << >> THEN u = s
         ELSE /\ u.unfinished = Put(s.unfinished, s.active[1], s.active[2])
              /\ u.line = IF IsEnabled(s.active[2]) THEN NoPid ELSE s.line
  BY StoreParts
<1>2. /\ r \in TermTracers /\ r.active = << >> /\ r.unfinished = u.unfinished /\ r.num = s.num
      /\ r.fresh = s.fresh /\ r.seen = s.seen /\ r.line = u.line /\ r.failed = s.failed
      /\ r.mixed <=> (s.mixed \/ u.line # NoPid)
      /\ r.said = IF s.num <= 1 /\ s.dropped THEN p ELSE s.said
  BY StartParts
<1> HIDE DEF u, r
<1>3. u.line = NoPid
  BY <1>1 DEF Clean
<1>4. CASE s.active = << >>
  <2>1. r.unfinished = s.unfinished
    BY <1>1, <1>2, <1>4
  <2>2. Clean(r)
    BY <1>2, <1>3, <2>1 DEF Clean
  <2>3. Rest(s, r, {})
    BY <1>2, <1>4, <2>1 DEF Rest, CurrentSyscall, HasActive
  <2> QED BY <1>2, <2>2, <2>3 DEF SaidOf, r
<1>5. CASE s.active # << >>
  <2>1. s.active[1] \in Pids /\ s.active[2] \in Calls /\ s.unfinished \in CallMaps
    BY <1>5, ActiveParts DEF TermTracers
  <2>2. /\ DOMAIN r.unfinished = DOMAIN s.unfinished \cup {s.active[1]}
        /\ \A q \in DOMAIN r.unfinished : r.unfinished[q] = IF q = s.active[1] THEN s.active[2] ELSE s.unfinished[q]
    <3>1. r.unfinished = Put(s.unfinished, s.active[1], s.active[2])
      BY <1>1, <1>2, <1>5
    <3> QED BY <3>1 DEF Put
  <2>3. Clean(r)
    BY <1>2, <1>3, <1>5, <2>2 DEF Clean
  <2>4. ASSUME NEW q \in Pids PROVE CurrentSyscall(r, q) = CurrentSyscall(s, q)
    <3>1. ~HasActive(r, q) /\ (HasActive(s, q) <=> q = s.active[1])
      BY <1>2, <1>5 DEF HasActive
    <3> QED BY <2>2, <3>1 DEF CurrentSyscall
  <2> QED BY <1>2, <2>3, <2>4 DEF SaidOf, Rest, r
<1> QED
  BY <1>4, <1>5

\* The line of p's call is taken up again and ended, and the call forgotten.
Completed(s, p) == [EndLine(CheckResumedSyscall(s, p), p) EXCEPT !.active = << >>]

\* checkResumedSyscall(), and the end of the line that it continues.
LEMMA CleanResume ==
  ASSUME NEW s \in TermTracers, Clean(s), NEW p \in Pids, CurrentSyscall(s, p) # {}
  PROVE  /\ CheckResumedSyscall(s, p) \in TermTracers /\ ~CheckResumedSyscall(s, p).failed
         /\ CheckResumedSyscall(s, p).active = << >> \/ HasActive(CheckResumedSyscall(s, p), p)
         /\ ~HasActive(s, p) => CheckResumedSyscall(s, p).active = << >>
         /\ Completed(s, p) \in TermTracers /\ Clean(Completed(s, p)) /\ Completed(s, p).active = << >>
         /\ CurrentSyscall(Completed(s, p), p) = {} /\ Rest(s, Completed(s, p), {p})
         /\ Completed(s, p).num = s.num /\ Completed(s, p).fresh = s.fresh /\ SaidOf(s, Completed(s, p), p)
<1> DEFINE c == CheckResumedSyscall(s, p)
           e == EndLine(c, p)
           r == [e EXCEPT !.active = << >>]
<1>0. Completed(s, p) = r
  BY DEF Completed
<1>1. c \in TermTracers
  BY ResumedParts
<1>2. /\ e \in TermTracers /\ e.active = c.active /\ e.unfinished = c.unfinished /\ e.num = c.num
      /\ e.fresh = c.fresh /\ e.line = NoPid /\ e.failed = c.failed /\ e.said = c.said
      /\ e.mixed <=> (c.mixed \/ c.line # p)
  <2> HIDE DEF c
  <2> QED BY <1>1, EndLineParts
<1>3. /\ r \in TermTracers /\ r.active = << >> /\ r.unfinished = c.unfinished /\ r.num = c.num
      /\ r.fresh = c.fresh /\ r.line = NoPid /\ r.failed = c.failed /\ r.said = c.said
      /\ r.mixed <=> (c.mixed \/ c.line # p)
  <2> HIDE DEF e
  <2> QED BY <1>2 DEF TermTracers
<1>4. \A q \in Pids : CurrentSyscall(r, q) = IF q \in DOMAIN c.unfinished THEN {c.unfinished[q]} ELSE {}
  <2> HIDE DEF r, c
  <2> QED BY <1>3 DEF CurrentSyscall, HasActive
<1>5. CASE HasActive(s, p)
  <2>1. c = s
    BY <1>5, ResumedParts
  <2> HIDE DEF c, r, e
  <2>2. s.active # << >> /\ s.active[1] = p /\ s.line = p /\ p \notin DOMAIN s.unfinished
    BY <1>5 DEF Clean, HasActive
  <2>3. Clean(r)
    BY <1>3, <2>1, <2>2 DEF Clean
  <2>4. ASSUME NEW q \in Pids \ {p} PROVE ~HasActive(s, q)
    BY <2>2 DEF HasActive
  <2>5. CurrentSyscall(r, p) = {} /\ Rest(s, r, {p})
    BY <1>4, <2>1, <2>2, <2>4 DEF Rest, CurrentSyscall
  <2>6. ~c.failed /\ HasActive(c, p) /\ SaidOf(s, r, p)
    BY <1>3, <1>5, <2>1 DEF Clean, SaidOf
  <2> QED BY <1>0, <1>1, <1>3, <1>5, <2>1, <2>3, <2>5, <2>6 DEF c
<1>6. CASE ~HasActive(s, p)
  <2> DEFINE d == [s EXCEPT !.unfinished = Drop(s.unfinished, p)]
             n == Resumed(s, p)
  <2>1. p \in DOMAIN s.unfinished
    BY <1>6 DEF CurrentSyscall
  <2>2. c = [n EXCEPT !.line = p] /\ n = StartNewLine(d, p)
    BY <1>6, <2>1, ResumedParts DEF Resumed
  <2>3. /\ d \in TermTracers /\ d.active = s.active /\ d.unfinished = Drop(s.unfinished, p) /\ d.num = s.num
        /\ d.fresh = s.fresh /\ d.line = s.line /\ d.said = s.said /\ d.mixed = s.mixed /\ d.failed = s.failed
    <3>1. Drop(s.unfinished, p) \in CallMaps
      BY DropParts DEF TermTracers
    <3> QED BY <3>1 DEF TermTracers
  <2> HIDE DEF d, n, c, e, r
  <2>4. DOMAIN d.unfinished = DOMAIN s.unfinished \ {p} /\ \A q \in DOMAIN d.unfinished : d.unfinished[q] = s.unfinished[q]
    BY <2>3 DEF Drop
  <2>6. Clean(d) /\ CurrentSyscall(d, p) = {} /\ Rest(s, d, {p})
    BY <1>6, <2>3, <2>4 DEF Clean, CurrentSyscall, HasActive, Rest
  <2>7. /\ n \in TermTracers /\ Clean(n) /\ n.active = << >> /\ Rest(d, n, {}) /\ n.num = d.num
        /\ n.fresh = d.fresh /\ SaidOf(d, n, p)
    BY <2>2, <2>3, <2>6, CleanStart
  <2>8. /\ c \in TermTracers /\ c.active = << >> /\ c.unfinished = n.unfinished /\ c.num = n.num
        /\ c.fresh = n.fresh /\ c.line = p /\ c.said = n.said /\ c.mixed = n.mixed /\ c.failed = n.failed
    BY <2>2, <2>7 DEF TermTracers
  <2>9. Clean(r) /\ ~c.failed
    BY <1>3, <2>7, <2>8 DEF Clean
  <2>10. \A q \in Pids : CurrentSyscall(r, q) = CurrentSyscall(n, q)
    BY <1>4, <2>7, <2>8 DEF CurrentSyscall, HasActive
  <2>11. CurrentSyscall(r, p) = {} /\ Rest(s, r, {p})
    BY <2>6, <2>7, <2>10 DEF Rest
  <2>12. SaidOf(s, r, p) /\ r.num = s.num /\ r.fresh = s.fresh
    BY <1>3, <2>3, <2>7, <2>8 DEF SaidOf
  <2> QED BY <1>0, <1>1, <1>3, <1>6, <2>8, <2>9, <2>11, <2>12 DEF c
<1> QED
  BY <1>5, <1>6

\* A call that is pending is one that is printed.
LEMMA CleanEnabled ==
  ASSUME NEW s \in TermTracers, Clean(s), NEW p \in Pids PROVE CurrentEnabled(s, p) <=> CurrentSyscall(s, p) # {}
<1>1. \A c \in CurrentSyscall(s, p) : IsEnabled(c)
  BY DEF CurrentSyscall, Clean, HasActive
<1> QED
  BY <1>1 DEF CurrentEnabled

\* abortSyscall() ends the line of the call.
LEMMA CleanAbort ==
  ASSUME NEW s \in TermTracers, Clean(s), NEW p \in Pids
  PROVE  LET r == AbortSyscall(s, p)
         IN  /\ r \in TermTracers /\ Clean(r) /\ CurrentSyscall(r, p) = {} /\ Rest(s, r, {p})
             /\ r.num = s.num /\ r.fresh = s.fresh /\ SaidOf(s, r, p)
<1> DEFINE r == AbortSyscall(s, p)
           c == CheckResumedSyscall(s, p)
           b == [s EXCEPT !.active = << >>]
<1>1. r = LET a == IF HasActive(s, p) THEN b ELSE IF CurrentSyscall(s, p) # {} THEN c ELSE s
          IN  IF CurrentSyscall(s, p) # {} THEN EndLine(a, p) ELSE a
  BY CleanEnabled DEF AbortSyscall
<1>2. CASE HasActive(s, p)
  <2>1. CurrentSyscall(s, p) # {}
    BY <1>2 DEF CurrentSyscall
  <2>2. r = EndLine(b, p)
    BY <1>1, <1>2, <2>1
  <2>3. /\ b \in TermTracers /\ b.active = << >> /\ b.unfinished = s.unfinished /\ b.num = s.num
        /\ b.fresh = s.fresh /\ b.line = s.line /\ b.said = s.said /\ b.mixed = s.mixed /\ b.failed = s.failed
    BY DEF TermTracers
  <2> HIDE DEF r, b
  <2>4. /\ r \in TermTracers /\ r.active = << >> /\ r.unfinished = s.unfinished /\ r.num = s.num
        /\ r.fresh = s.fresh /\ r.line = NoPid /\ r.failed = s.failed /\ r.said = s.said
        /\ r.mixed <=> (s.mixed \/ s.line # p)
    BY <2>2, <2>3, EndLineParts
  <2>5. s.active # << >> /\ s.active[1] = p /\ s.line = p /\ p \notin DOMAIN s.unfinished
    BY <1>2 DEF Clean, HasActive
  <2>6. Clean(r)
    BY <2>4, <2>5 DEF Clean
  <2>7. CurrentSyscall(r, p) = {} /\ Rest(s, r, {p})
    BY <2>4, <2>5 DEF CurrentSyscall, HasActive, Rest
  <2> QED BY <2>4, <2>6, <2>7 DEF SaidOf, r
<1>3. CASE ~HasActive(s, p) /\ CurrentSyscall(s, p) # {}
  <2> DEFINE e == EndLine(c, p)
             x == Completed(s, p)
  <2>1. /\ c \in TermTracers /\ c.active = << >>
        /\ x \in TermTracers /\ Clean(x) /\ CurrentSyscall(x, p) = {} /\ Rest(s, x, {p})
        /\ x.num = s.num /\ x.fresh = s.fresh /\ SaidOf(s, x, p)
    BY <1>3, CleanResume
  <2>5. x = [e EXCEPT !.active = << >>]
    BY DEF Completed
  <2>2. r = e
    BY <1>1, <1>3
  <2> HIDE DEF c, r
  <2>3. e \in TermTracers /\ e.active = << >>
    BY <2>1, EndLineParts
  <2> HIDE DEF e, x
  <2>4. x = e
    BY <2>3, <2>5 DEF TermTracers
  <2> QED BY <2>1, <2>2, <2>4 DEF r
<1>4. CASE CurrentSyscall(s, p) = {}
  <2>1. ~HasActive(s, p)
    BY <1>4 DEF CurrentSyscall
  <2>2. r = s
    BY <1>1, <1>4, <2>1
  <2> HIDE DEF r
  <2> QED BY <1>4, <2>2 DEF Rest, SaidOf, r
<1> QED
  BY <1>2, <1>3, <1>4

\* cleanupTracee() when no call is on the last line.
LEMMA CleanCleanup ==
  ASSUME NEW s \in TermTracers, Clean(s), s.active = << >>, NEW p \in Pids
  PROVE  LET r == CleanupTracee(s, p)
         IN  /\ r \in TermTracers /\ Clean(r) /\ CurrentSyscall(r, p) = {} /\ Rest(s, r, {p})
             /\ r.num = Decrement(s.num) /\ r.fresh = s.fresh \ {p} /\ r.said = s.said
<1> DEFINE r == CleanupTracee(s, p)
<1>1. ~HasActive(s, p)
  BY DEF HasActive
<1>2. /\ r \in TermTracers /\ r.active = << >> /\ r.unfinished = Drop(s.unfinished, p)
      /\ r.num = Decrement(s.num) /\ r.fresh = s.fresh \ {p}
      /\ r.line = s.line /\ r.said = s.said /\ r.mixed = s.mixed /\ r.failed = s.failed
  BY <1>1, CleanupParts
<1> HIDE DEF r
<1>3. DOMAIN r.unfinished = DOMAIN s.unfinished \ {p} /\ \A q \in DOMAIN r.unfinished : r.unfinished[q] = s.unfinished[q]
  BY <1>2 DEF Drop
<1>4. Clean(r)
  BY <1>2, <1>3 DEF Clean
<1>5. CurrentSyscall(r, p) = {} /\ Rest(s, r, {p})
  BY <1>2, <1>3 DEF CurrentSyscall, HasActive, Rest
<1> QED
  BY <1>2, <1>4, <1>5 DEF r

\* The end of a tracee: its call is aborted, or forgotten.
LEMMA CleanExited ==
  ASSUME NEW s \in TermTracers, Clean(s), NEW p \in Pids, NEW e \in BOOLEAN
  PROVE  LET r == Exited(s, p, e)
         IN  /\ r \in TermTracers /\ Clean(r) /\ CurrentSyscall(r, p) = {} /\ Rest(s, r, {p})
             /\ r.num = Decrement(s.num) /\ r.fresh = s.fresh \ {p} /\ SaidOf(s, r, p)
<1> DEFINE a == IF e THEN AbortSyscall(s, p) ELSE s
           n == StartNewLine(a, p)
           r == Exited(s, p, e)
<1>1. a \in TermTracers /\ Clean(a) /\ Rest(s, a, {p}) /\ a.num = s.num /\ a.fresh = s.fresh /\ SaidOf(s, a, p)
  BY CleanAbort DEF Rest, SaidOf
<1>2. ~a.failed
  BY <1>1 DEF Clean
<1>3. r = CleanupTracee(n, p)
  BY <1>2 DEF Exited
<1> HIDE DEF a
<1>4. /\ n \in TermTracers /\ Clean(n) /\ n.active = << >> /\ Rest(a, n, {}) /\ n.num = a.num
      /\ n.fresh = a.fresh /\ SaidOf(a, n, p)
  BY <1>1, CleanStart
<1> HIDE DEF n, r
<1>5. /\ r \in TermTracers /\ Clean(r) /\ CurrentSyscall(r, p) = {} /\ Rest(n, r, {p})
      /\ r.num = Decrement(n.num) /\ r.fresh = n.fresh \ {p} /\ r.said = n.said
  BY <1>3, <1>4, CleanCleanup
<1>6. Rest(s, r, {p}) /\ SaidOf(s, r, p)
  BY <1>1, <1>4, <1>5 DEF Rest, SaidOf
<1> QED
  BY <1>1, <1>4, <1>5, <1>6 DEF r

\* The entry of a call that is to be printed makes it the active one.
LEMMA CleanEntry ==
  ASSUME NEW s \in TermTracers, Clean(s), NEW p \in Pids, CurrentSyscall(s, p) = {}, NEW c \in Calls
  PROVE  LET r == SyscallEntry(s, p, c)
         IN  /\ r \in TermTracers /\ Clean(r) /\ CurrentSyscall(r, p) = (IF IsEnabled(c) THEN {c} ELSE {})
             /\ Rest(s, r, {p}) /\ r.num = s.num /\ r.fresh = s.fresh /\ SaidOf(s, r, p)
<1> DEFINE n == StartNewLine(s, p)
           a == <<p, c>>
           r == SyscallEntry(s, p, c)
<1>1. CASE ~IsEnabled(c)
  <2>1. r = s
    BY <1>1 DEF SyscallEntry
  <2> HIDE DEF r
  <2> QED BY <1>1, <2>1 DEF Rest, SaidOf, r
<1>2. CASE IsEnabled(c)
  <2>1. r = [n EXCEPT !.line = p, !.active = a]
    BY <1>2 DEF SyscallEntry
  <2>2. /\ n \in TermTracers /\ Clean(n) /\ n.active = << >> /\ Rest(s, n, {}) /\ n.num = s.num
        /\ n.fresh = s.fresh /\ SaidOf(s, n, p)
    BY CleanStart
  <2>3. a \in Pids \X Calls /\ a # << >> /\ a[1] = p /\ a[2] = c
    OBVIOUS
  <2> HIDE DEF r, n, a
  <2>4. /\ r \in TermTracers /\ r.active = a /\ r.unfinished = n.unfinished /\ r.num = n.num
        /\ r.fresh = n.fresh /\ r.line = p /\ r.said = n.said /\ r.mixed = n.mixed /\ r.failed = n.failed
    BY <2>1, <2>2, <2>3 DEF TermTracers
  <2>5. CurrentSyscall(n, p) = {}
    BY <2>2 DEF Rest
  <2>6. p \notin DOMAIN n.unfinished
    BY <2>2, <2>5 DEF CurrentSyscall, HasActive
  <2>7. Clean(r)
    BY <1>2, <2>2, <2>3, <2>4, <2>6 DEF Clean
  <2>8. CurrentSyscall(r, p) = {c} /\ Rest(n, r, {p})
    BY <2>2, <2>3, <2>4 DEF CurrentSyscall, HasActive, Rest
  <2>9. Rest(s, r, {p}) /\ SaidOf(s, r, p)
    BY <2>2, <2>4, <2>8 DEF Rest, SaidOf
  <2> QED BY <1>2, <2>2, <2>4, <2>7, <2>8, <2>9 DEF r
<1> QED
  BY <1>1, <1>2

\* The exit of a call that is printed completes its line.
LEMMA CleanExit ==
  ASSUME NEW s \in TermTracers, Clean(s), NEW p \in Pids, NEW c \in Calls, IsEnabled(c) => CurrentSyscall(s, p) # {}
  PROVE  LET r == SyscallExit(s, p, c, FALSE)
         IN  /\ r \in TermTracers /\ Clean(r) /\ (IsEnabled(c) => CurrentSyscall(r, p) = {})
             /\ (~IsEnabled(c) => r = s)
             /\ Rest(s, r, {p}) /\ r.num = s.num /\ r.fresh = s.fresh /\ SaidOf(s, r, p)
<1> DEFINE r == SyscallExit(s, p, c, FALSE)
           x == Completed(s, p)
<1>1. CASE ~IsEnabled(c)
  <2>1. r = s
    BY <1>1 DEF SyscallExit
  <2> HIDE DEF r
  <2> QED BY <1>1, <2>1 DEF Rest, SaidOf, r
<1>2. CASE IsEnabled(c)
  <2> DEFINE k == CheckResumedSyscall(s, p)
  <2>1. /\ k \in TermTracers /\ ~k.failed /\ (k.active = << >> \/ HasActive(k, p))
        /\ x \in TermTracers /\ Clean(x) /\ CurrentSyscall(x, p) = {} /\ Rest(s, x, {p})
        /\ x.num = s.num /\ x.fresh = s.fresh /\ SaidOf(s, x, p)
    BY <1>2, CleanResume
  <2>2. x = [EndLine(k, p) EXCEPT !.active = << >>]
    BY DEF Completed
  <2>3. r = LET n == IF k.active # << >> /\ ~HasActive(k, p) THEN StartNewLine(k, p) ELSE k
            IN  IF k.failed THEN k ELSE [EndLine(n, p) EXCEPT !.active = << >>]
    BY <1>2 DEF SyscallExit
  <2> HIDE DEF k, x
  <2>4. r = x
    BY <2>1, <2>2, <2>3
  <2> HIDE DEF r
  <2> QED BY <1>2, <2>1, <2>4 DEF r
<1> QED
  BY <1>1, <1>2

\* attached() about a tracee that is known already, or is the first one.
LEMMA CleanAttached ==
  ASSUME NEW s \in TermTracers, Clean(s), NEW p \in Pids, p \in Initial \cup s.fresh \/ s.num = 0
  PROVE  LET r == Attached(s, p)
         IN  /\ r \in TermTracers /\ Clean(r) /\ Rest(s, r, {}) /\ r.num = Increment(s.num)
             /\ r.fresh \ {p} = s.fresh \ {p}
             /\ r.said = s.said \/ (r.said = p /\ r.num <= 1 /\ s.num # 0)
<1> DEFINE a == [s EXCEPT !.num = Increment(s.num)]
           n == StartNewLine(a, p)
           r == Attached(s, p)
<1>1. /\ a \in TermTracers /\ a.num = Increment(s.num) /\ a.active = s.active
      /\ a.unfinished = s.unfinished /\ a.line = s.line /\ a.mixed = s.mixed /\ a.failed = s.failed
      /\ a.said = s.said /\ a.fresh = s.fresh
      /\ r \in TermTracers
      /\ IF s.num = 0 THEN r = a
         ELSE /\ r.active = n.active /\ r.unfinished = n.unfinished /\ r.num = a.num
              /\ r.line = (IF p \in Initial \cup s.fresh THEN NoPid ELSE p)
              /\ r.fresh = (IF p \in Initial THEN s.fresh ELSE s.fresh \ {p})
              /\ r.said = n.said /\ r.mixed = n.mixed /\ r.failed = n.failed
  BY AttachedParts
<1> HIDE DEF a, r
<1>2. Clean(a) /\ Rest(s, a, {})
  BY <1>1 DEF Clean, Rest, CurrentSyscall, HasActive
<1>3. /\ n \in TermTracers /\ Clean(n) /\ n.active = << >> /\ Rest(a, n, {}) /\ SaidOf(a, n, p)
  BY <1>1, <1>2, CleanStart
<1> HIDE DEF n
<1>4. CASE s.num = 0
  <2>1. r = a
    BY <1>1, <1>4
  <2> QED BY <1>1, <1>2, <2>1 DEF r
<1>5. CASE s.num # 0
  <2>1. Clean(r)
    BY <1>1, <1>3, <1>5 DEF Clean
  <2>2. Rest(n, r, {})
    BY <1>1, <1>3, <1>5 DEF Rest, CurrentSyscall, HasActive
  <2>3. Rest(s, r, {})
    BY <1>2, <1>3, <2>2 DEF Rest
  <2>4. r.said = s.said \/ (r.said = p /\ r.num <= 1 /\ s.num # 0)
    BY <1>1, <1>3, <1>5 DEF SaidOf
  <2>5. r.num = Increment(s.num) /\ r.fresh \ {p} = s.fresh \ {p}
    BY <1>1, <1>5
  <2> QED BY <1>1, <2>1, <2>3, <2>4, <2>5 DEF r
<1> QED
  BY <1>4, <1>5

\* updateTracee(): the call of old is now that of p.
LEMMA CleanUpdate ==
  ASSUME NEW s \in TermTracers, Clean(s), NEW p \in Pids, NEW old \in Pids, p # old, CurrentSyscall(s, p) = {}
  PROVE  LET r == UpdateTracee(s, p, old)
         IN  /\ r \in TermTracers /\ Clean(r) /\ CurrentSyscall(r, p) = CurrentSyscall(s, old)
             /\ CurrentSyscall(r, old) = {} /\ Rest(s, r, {p, old})
             /\ r.num = s.num /\ r.fresh \ {p, old} = s.fresh \ {p, old} /\ r.said = s.said
<1> DEFINE r == UpdateTracee(s, p, old)
<1>1. /\ r \in TermTracers /\ r.active = (IF HasActive(s, old) THEN <<p, s.active[2]>> ELSE s.active)
      /\ r.unfinished = IF ~HasActive(s, old) /\ old \in DOMAIN s.unfinished
                        THEN Drop(Put(s.unfinished, p, s.unfinished[old]), old) ELSE s.unfinished
      /\ r.num = s.num /\ r.fresh \ {p, old} = s.fresh \ {p, old}
      /\ r.line = (IF s.line = old THEN p ELSE s.line)
      /\ r.said = s.said /\ r.mixed = s.mixed /\ r.failed = s.failed
  BY UpdateParts
<1> HIDE DEF r
<1>2. ~HasActive(s, p) /\ p \notin DOMAIN s.unfinished
  BY DEF CurrentSyscall
<1>3. CASE HasActive(s, old)
  <2> DEFINE a == <<p, s.active[2]>>
  <2>1. s.active # << >> /\ s.active[1] = old /\ old \notin DOMAIN s.unfinished /\ s.line = old
    BY <1>3 DEF Clean, HasActive
  <2>2. a # << >> /\ a[1] = p /\ a[2] = s.active[2]
    OBVIOUS
  <2>3. r.active = a /\ r.unfinished = s.unfinished /\ r.line = p
    BY <1>1, <1>3, <2>1
  <2> HIDE DEF a
  <2>4. Clean(r)
    BY <1>1, <1>2, <2>1, <2>2, <2>3 DEF Clean
  <2>5. CurrentSyscall(r, p) = CurrentSyscall(s, old) /\ CurrentSyscall(r, old) = {} /\ Rest(s, r, {p, old})
    BY <2>1, <2>2, <2>3 DEF CurrentSyscall, HasActive, Rest
  <2> QED BY <1>1, <2>4, <2>5 DEF r
<1>4. CASE ~HasActive(s, old) /\ old \in DOMAIN s.unfinished
  <2>1. r.active = s.active /\ r.unfinished = Drop(Put(s.unfinished, p, s.unfinished[old]), old)
    BY <1>1, <1>4
  <2>2. r.line = s.line
    BY <1>1, <1>4, PidAssumption DEF Clean, HasActive
  <2>3. /\ DOMAIN r.unfinished = (DOMAIN s.unfinished \cup {p}) \ {old}
        /\ \A q \in DOMAIN r.unfinished : r.unfinished[q] = IF q = p THEN s.unfinished[old] ELSE s.unfinished[q]
    BY <2>1 DEF Put, Drop
  <2>4. Clean(r)
    <3>1. ~s.mixed /\ ~s.failed /\ s.line = (IF s.active = << >> THEN NoPid ELSE s.active[1])
      BY DEF Clean
    <3>2. r.active # << >> => IsEnabled(r.active[2]) /\ r.active[1] \notin DOMAIN r.unfinished
      BY <1>2, <2>1, <2>3 DEF Clean, HasActive
    <3>3. ASSUME NEW q \in DOMAIN r.unfinished PROVE IsEnabled(r.unfinished[q])
      BY <1>4, <2>3 DEF Clean
    <3> QED BY <1>1, <2>1, <2>2, <3>1, <3>2, <3>3 DEF Clean
  <2>5. CurrentSyscall(r, p) = CurrentSyscall(s, old) /\ CurrentSyscall(r, old) = {} /\ Rest(s, r, {p, old})
    BY <1>2, <1>4, <2>1, <2>3 DEF CurrentSyscall, HasActive, Rest
  <2> QED BY <1>1, <2>4, <2>5 DEF r
<1>5. CASE ~HasActive(s, old) /\ old \notin DOMAIN s.unfinished
  <2>1. r.active = s.active /\ r.unfinished = s.unfinished
    BY <1>1, <1>5
  <2>2. r.line = s.line
    BY <1>1, <1>5, PidAssumption DEF Clean, HasActive
  <2>3. Clean(r)
    BY <1>1, <2>1, <2>2 DEF Clean
  <2>4. CurrentSyscall(r, p) = CurrentSyscall(s, old) /\ CurrentSyscall(r, old) = {} /\ Rest(s, r, {p, old})
    BY <1>2, <1>5, <2>1 DEF CurrentSyscall, HasActive, Rest
  <2> QED BY <1>1, <2>3, <2>4 DEF r
<1> QED
  BY <1>3, <1>4, <1>5

\* newExecutionContext() completes the line of the execve() that has succeeded.
LEMMA CleanExec ==
  ASSUME NEW s \in TermTracers, Clean(s), NEW p \in Pids, NEW old \in Pids,
         CurrentSyscall(s, old) # {}, p # old => CurrentSyscall(s, p) = {}
  PROVE  LET x == NewExecutionContext(s, p, old)
         IN  /\ x \in TermTracers /\ Clean(x) /\ CurrentSyscall(x, p) = {} /\ CurrentSyscall(x, old) = {}
             /\ Rest(s, x, {p, old}) /\ x.num = s.num /\ x.fresh \ {p, old} = s.fresh \ {p, old}
             /\ SaidOf(s, x, p)
<1> DEFINE u == IF old # p THEN UpdateTracee(s, p, old) ELSE s
           r == IF CurrentEnabled(u, p) THEN EndLine(CheckResumedSyscall(u, p), p) ELSE u
           a == [r EXCEPT !.active = << >>]
           n == StartNewLine(a, p)
           x == NewExecutionContext(s, p, old)
<1>1. /\ x \in TermTracers /\ x.active = n.active /\ x.unfinished = n.unfinished /\ x.num = n.num
      /\ x.fresh = n.fresh /\ x.line = n.line /\ x.said = n.said /\ x.mixed = n.mixed /\ x.failed = n.failed
  BY ExecParts
<1>2. /\ u \in TermTracers /\ Clean(u) /\ CurrentSyscall(u, p) # {} /\ (old # p => CurrentSyscall(u, old) = {})
      /\ Rest(s, u, {p, old}) /\ u.num = s.num /\ u.fresh \ {p, old} = s.fresh \ {p, old} /\ u.said = s.said
  <2>1. CASE old = p
    BY <2>1 DEF Rest
  <2>2. CASE old # p
    BY <2>2, CleanUpdate
  <2> QED BY <2>1, <2>2
<1>3. CurrentEnabled(u, p)
  <2> HIDE DEF u
  <2> QED BY <1>2, CleanEnabled
<1>4. a = Completed(u, p)
  <2> HIDE DEF u
  <2> QED BY <1>3 DEF Completed
<1> HIDE DEF u, a, r, x
<1>5. /\ a \in TermTracers /\ Clean(a) /\ CurrentSyscall(a, p) = {} /\ Rest(u, a, {p})
      /\ a.num = u.num /\ a.fresh = u.fresh /\ SaidOf(u, a, p)
  BY <1>2, <1>4, CleanResume
<1>6. /\ n \in TermTracers /\ Clean(n) /\ n.active = << >> /\ Rest(a, n, {}) /\ n.num = a.num
      /\ n.fresh = a.fresh /\ SaidOf(a, n, p)
  BY <1>5, CleanStart
<1> HIDE DEF n
<1>7. Clean(x) /\ Rest(n, x, {})
  BY <1>1, <1>6 DEF Clean, Rest, CurrentSyscall, HasActive
<1>8. /\ CurrentSyscall(x, p) = {} /\ CurrentSyscall(x, old) = {} /\ Rest(s, x, {p, old})
  BY <1>2, <1>5, <1>6, <1>7 DEF Rest
<1>9. SaidOf(s, x, p)
  BY <1>1, <1>2, <1>5, <1>6 DEF SaidOf
<1> QED
  BY <1>1, <1>2, <1>5, <1>6, <1>7, <1>8, <1>9 DEF x

\* newChildProcess() may print a question about the child.
LEMMA CleanChild ==
  ASSUME NEW s \in TermTracers, Clean(s), NEW p \in Pids, NEW c \in Pids, NEW follow \in BOOLEAN
  PROVE  LET r == NewChildProcess(s, p, c, follow)
         IN  /\ r \in TermTracers /\ Clean(r) /\ Rest(s, r, {}) /\ r.num = s.num
             /\ r.fresh = (IF follow THEN s.fresh \cup {c} ELSE s.fresh) /\ SaidOf(s, r, p)
<1> DEFINE a == Asked(s, p)
           r == NewChildProcess(s, p, c, follow)
<1>1. /\ a \in TermTracers /\ r \in TermTracers /\ r.active = a.active /\ r.unfinished = a.unfinished
      /\ r.num = a.num /\ r.fresh = (IF follow THEN a.fresh \cup {c} ELSE a.fresh) /\ r.line = a.line
      /\ r.said = a.said /\ r.mixed = a.mixed /\ r.failed = a.failed
  BY ZenonT(40), ChildParts
<1>2. a \in TermTracers /\ Clean(a) /\ Rest(s, a, {}) /\ a.num = s.num /\ a.fresh = s.fresh /\ SaidOf(s, a, p)
  <2>1. CASE FollowChildren = "ASK"
    BY <2>1, CleanStart DEF Asked
  <2>2. CASE FollowChildren # "ASK"
    BY <2>2 DEF Rest, SaidOf, Asked
  <2> QED BY <2>1, <2>2
<1> HIDE DEF a, r
<1>3. Clean(r) /\ Rest(a, r, {})
  BY <1>1, <1>2 DEF Clean, Rest, CurrentSyscall, HasActive
<1>4. Rest(s, r, {}) /\ SaidOf(s, r, p)
  BY <1>1, <1>2, <1>3 DEF Rest, SaidOf
<1> QED
  BY <1>1, <1>2, <1>3, <1>4 DEF r

(* The specification: pending calls *)

\* The calls of p that are to be printed and have not been printed completely.
Due(p) == IF Traced(p) THEN {call[p]} \cap {c \in Calls : IsEnabled(c)} ELSE {}

PendingIsDue == \A p \in Pids : CurrentSyscall(tt, p) = Due(p)

\* A main thread is its own main thread.
Leaders == \A q \in Pids : st[q] # "none" => leader[leader[q]] = leader[q]

\* A tracee that attached() would not know is the first one.
Known == \A p \in Pids :
    /\ st[p] = "untraced" => p \in Initial
    /\ st[p] = "new" /\ p \notin Initial \cup tt.fresh =>
          tt.num = 0 /\ \A q \in Pids \ {p} : st[q] \in {"none", "untraced"}

Idle == \A p \in Pids : ~Traced(p) => call[p] = "none"

TInv == TypeInv /\ Clean(tt) /\ PendingIsDue /\ Idle /\ Leaders /\ Known

\* execve() is printed, and the threads that it ends are told to have exited before it.
ExecHeard == IsEnabled("execve") /\ "exec" \notin Hurried

\* A callback about p that leaves the pending calls of the others alone, and that
\* forgets of the new tracees only p.
LEMMA CallbackTInv ==
  ASSUME TInv, TypeInv', NEW p \in Pids, NEW s, NEW state, NEW c, NEW e,
         Callback(p, s, state, c, e), UNCHANGED leader,
         Clean(s), Rest(tt, s, {p}), s.fresh = tt.fresh \/ s.fresh = tt.fresh \ {p},
         st[p] \notin {"none", "untraced"}, state \notin {"new", "untraced"},
         state \notin {"attached", "working"} => c = "none",
         CurrentSyscall(s, p) = IF state \in {"attached", "working"} THEN {c} \cap {x \in Calls : IsEnabled(x)} ELSE {}
  PROVE  TInv'
<1>1. tt' = s /\ st' = [st EXCEPT ![p] = state] /\ call' = [call EXCEPT ![p] = c] /\ leader' = leader
  BY DEF Callback
<1>2. /\ st'[p] = state /\ call'[p] = c
      /\ \A q \in Pids \ {p} : st'[q] = st[q] /\ call'[q] = call[q]
  BY <1>1 DEF TInv, TypeInv
<1>3. ASSUME NEW q \in Pids PROVE CurrentSyscall(tt', q) = Due(q)'
  <2>1. CASE q = p
    BY <1>1, <1>2, <2>1 DEF Due, Traced
  <2>2. CASE q # p
    <3>1. CurrentSyscall(s, q) = CurrentSyscall(tt, q) /\ CurrentSyscall(tt, q) = Due(q)
      BY <2>2 DEF Rest, TInv, PendingIsDue
    <3>2. Due(q)' = Due(q)
      BY <1>2, <2>2 DEF Due, Traced
    <3> QED BY <1>1, <3>1, <3>2
  <2> QED BY <2>1, <2>2
<1>4. PendingIsDue'
  BY <1>3 DEF PendingIsDue
<1>5. Leaders' /\ Idle'
  BY <1>1, <1>2 DEF Leaders, Idle, Traced, TInv
<1>6. Known'
  <2> SUFFICES ASSUME NEW q \in Pids
               PROVE  /\ st'[q] = "untraced" => q \in Initial
                      /\ st'[q] = "new" /\ q \notin Initial \cup tt'.fresh =>
                            tt'.num = 0 /\ \A x \in Pids \ {q} : st'[x] \in {"none", "untraced"}
    BY DEF Known
  <2>1. CASE q = p
    BY <1>2, <2>1
  <2>2. CASE q # p
    <3>1. st'[q] = st[q] /\ (q \in tt'.fresh <=> q \in tt.fresh)
      BY <1>1, <1>2, <2>2
    <3>2. ~(st[q] = "new" /\ q \notin Initial \cup tt.fresh)
      BY <2>2 DEF TInv, Known
    <3> QED BY <3>1, <3>2 DEF TInv, Known
  <2> QED BY <2>1, <2>2
<1> QED
  BY <1>1, <1>4, <1>5, <1>6 DEF TInv

\* What the invariant says when a callback starts.
LEMMA NowClean ==
  ASSUME TInv
  PROVE  /\ Now \in TermTracers /\ Clean(Now) /\ \A P : Rest(tt, Now, P)
         /\ Now.num = tt.num /\ Now.fresh = tt.fresh /\ Now.said = NoPid
         /\ \A q \in Pids : CurrentSyscall(Now, q) = CurrentSyscall(tt, q)
         /\ \A s, P : Rest(Now, s, P) => Rest(tt, s, P)
<1>1. /\ Now \in TermTracers /\ Now.active = tt.active /\ Now.unfinished = tt.unfinished /\ Now.num = tt.num
      /\ Now.fresh = tt.fresh /\ Now.line = tt.line /\ Now.mixed = tt.mixed /\ Now.failed = tt.failed
      /\ Now.said = NoPid
  BY NowParts DEF TInv
<1>2. Clean(Now)
  BY <1>1 DEF TInv, Clean
<1>3. \A q \in Pids : CurrentSyscall(Now, q) = CurrentSyscall(tt, q)
  BY <1>1 DEF CurrentSyscall, HasActive
<1> QED
  BY <1>1, <1>2, <1>3 DEF Rest

\* attached(), and with the first tracee the other threads become tracees.
LEMMA AttachedTInv ==
  ASSUME TInv, TypeInv', NEW p \in Pids, TraceeAttached(p)
  PROVE  /\ TInv'
         /\ tt'.num = Increment(tt.num)
         /\ tt'.said = NoPid \/ (tt'.num <= 1 /\ tt.num # 0)
<1> DEFINE r == Attached(Now, p)
<1>1. st[p] = "new" /\ tt' = r /\ UNCHANGED <<call, entered, leader>>
  BY DEF TraceeAttached
<1>2. \A q \in Pids : st'[q] = IF q = p THEN "attached" ELSE IF st[q] = "untraced" THEN "new" ELSE st[q]
  BY DEF TraceeAttached
<1>3. p \in Initial \cup tt.fresh \/ tt.num = 0
  BY <1>1 DEF TInv, Known
<1>4. /\ r \in TermTracers /\ Clean(r) /\ Rest(Now, r, {}) /\ r.num = Increment(Now.num)
      /\ r.fresh \ {p} = Now.fresh \ {p}
      /\ r.said = Now.said \/ (r.said = p /\ r.num <= 1 /\ Now.num # 0)
  BY <1>3, NowClean, CleanAttached
<1> HIDE DEF r
<1>5. ASSUME NEW q \in Pids PROVE CurrentSyscall(tt', q) = Due(q)'
  <2>1. CurrentSyscall(tt', q) = Due(q)
    BY <1>1, <1>4, NowClean DEF Rest, TInv, PendingIsDue
  <2>2. CASE q = p
    <3>1. call[q] = "none" /\ Due(q) = {}
      BY <1>1, <2>2 DEF Due, Traced, TInv, Idle
    <3>2. Due(q)' = {}
      BY <1>1, <3>1, CallAssumption DEF Due
    <3> QED BY <2>1, <3>1, <3>2
  <2>3. CASE q # p
    BY <1>1, <1>2, <2>1, <2>3 DEF Due, Traced
  <2> QED BY <2>2, <2>3
<1>6. PendingIsDue'
  BY <1>5 DEF PendingIsDue
<1>7. Leaders' /\ Idle'
  BY <1>1, <1>2 DEF Leaders, Idle, Traced, TInv
<1>8. Known'
  <2> SUFFICES ASSUME NEW q \in Pids
               PROVE  /\ st'[q] # "untraced"
                      /\ st'[q] = "new" => q \in Initial \cup tt'.fresh
    BY DEF Known
  <2>1. CASE q = p
    BY <1>2, <2>1
  <2>2. CASE q # p
    <3>1. q \in tt'.fresh <=> q \in tt.fresh
      BY <1>1, <1>4, <2>2, NowClean
    <3>2. st[q] = "new" => q \in Initial \cup tt.fresh
      BY <1>1, <2>2 DEF TInv, Known
    <3> QED BY <1>2, <2>2, <3>1, <3>2 DEF TInv, Known
  <2> QED BY <2>1, <2>2
<1> QED
  BY <1>1, <1>4, <1>6, <1>7, <1>8, NowClean DEF TInv

\* newChildProcess() for a new thread or process.
LEMMA ChildTInv ==
  ASSUME TInv, TypeInv', NEW p \in Pids, NEW c \in Pids, NewTracee(p, c)
  PROVE  /\ TInv' /\ tt'.num = tt.num /\ (tt'.said = NoPid \/ (tt'.said = p /\ tt.num <= 1))
         /\ \A q \in Pids \ {c} : st'[q] = st[q]
         /\ st'[c] \in {"new", "declined"} /\ st[c] = "none" /\ Traced(p)
<1>1. PICK thread \in BOOLEAN : \E follow \in FollowNewChild(thread) :
          /\ tt' = NewChildProcess(Now, p, c, follow)
          /\ st' = [st EXCEPT ![c] = IF follow THEN "new" ELSE "declined"]
          /\ leader' = [leader EXCEPT ![c] = IF thread THEN leader[p] ELSE c]
  BY DEF NewTracee
<1> PICK follow \in FollowNewChild(thread) :
          /\ tt' = NewChildProcess(Now, p, c, follow)
          /\ st' = [st EXCEPT ![c] = IF follow THEN "new" ELSE "declined"]
          /\ leader' = [leader EXCEPT ![c] = IF thread THEN leader[p] ELSE c]
  BY <1>1
<1>2. follow \in BOOLEAN
  BY <1>1, ModeAssumption DEF FollowNewChild
<1>3. /\ Traced(p) /\ st[c] = "none" /\ \A q \in Pids : st[q] # "none" => leader[q] # c
      /\ UNCHANGED call
  BY DEF NewTracee
<1>4. p # c
  BY <1>3 DEF Traced
<1> DEFINE r == NewChildProcess(Now, p, c, follow)
<1>5. /\ r \in TermTracers /\ Clean(r) /\ Rest(Now, r, {}) /\ r.num = Now.num
      /\ r.fresh = (IF follow THEN Now.fresh \cup {c} ELSE Now.fresh) /\ SaidOf(Now, r, p)
  <2>1. Now \in TermTracers /\ Clean(Now)
    BY NowClean
  <2> QED BY <1>2, <2>1, CleanChild, ZenonT(90)
<1>6. tt' = r
  OBVIOUS
<1> HIDE DEF r
<1>7. /\ \A q \in Pids \ {c} : st'[q] = st[q] /\ leader'[q] = leader[q]
      /\ st'[c] = (IF follow THEN "new" ELSE "declined") /\ leader'[c] = (IF thread THEN leader[p] ELSE c)
  BY DEF TInv, TypeInv
<1>8. ASSUME NEW q \in Pids PROVE CurrentSyscall(tt', q) = Due(q)'
  <2>1. CurrentSyscall(tt', q) = Due(q)
    BY <1>5, <1>6, NowClean DEF Rest, TInv, PendingIsDue
  <2>2. Traced(q)' <=> Traced(q)
    BY <1>3, <1>7 DEF Traced
  <2> QED BY <1>3, <2>1, <2>2 DEF Due
<1>9. PendingIsDue'
  BY <1>8 DEF PendingIsDue
<1>10. Idle'
  BY <1>3, <1>7 DEF Idle, Traced, TInv
<1>11. Leaders'
  <2> SUFFICES ASSUME NEW q \in Pids, st'[q] # "none" PROVE leader'[leader'[q]] = leader'[q]
    BY DEF Leaders
  <2>1. CASE q # c
    <3>1. leader[q] # c /\ leader[q] \in Pids /\ leader[leader[q]] = leader[q]
      BY <1>3, <1>7, <2>1 DEF TInv, TypeInv, Leaders
    <3> QED BY <1>7, <2>1, <3>1
  <2>2. CASE q = c
    <3>1. leader[p] # c /\ leader[p] \in Pids /\ leader[leader[p]] = leader[p]
      BY <1>3 DEF TInv, TypeInv, Leaders, Traced
    <3> QED BY <1>7, <2>2, <3>1
  <2> QED BY <2>1, <2>2
<1>12. Known'
  <2> SUFFICES ASSUME NEW q \in Pids
               PROVE  /\ st'[q] = "untraced" => q \in Initial
                      /\ st'[q] = "new" => q \in Initial \cup tt'.fresh
    BY DEF Known
  <2>1. CASE q = c
    BY <1>2, <1>5, <1>6, <1>7, <2>1
  <2>2. CASE q # c
    <3>1. ~(st[q] = "new" /\ q \notin Initial \cup tt.fresh)
      <4>1. CASE q = p
        BY <1>3, <4>1 DEF Traced
      <4>2. CASE q # p
        BY <1>3, <4>2 DEF Traced, TInv, Known
      <4> QED BY <4>1, <4>2
    <3>2. tt.fresh \subseteq tt'.fresh
      BY <1>5, <1>6, NowClean
    <3> QED BY <1>7, <2>2, <3>1, <3>2 DEF TInv, Known
  <2> QED BY <2>1, <2>2
<1> QED
  BY <1>2, <1>3, <1>5, <1>6, <1>7, <1>9, <1>10, <1>11, <1>12, NowClean DEF TInv, SaidOf

\* execve(): the caller goes on under the PID of the main thread, which is free.
LEMMA ExecTInv ==
  ASSUME TInv, TypeInv', ExecHeard, NEW p \in Pids, TraceeExec(p)
  PROVE  LET m == leader[p]
         IN  /\ TInv' /\ tt'.num = tt.num /\ (tt'.said = NoPid \/ (tt'.said = m /\ tt.num <= 1))
             /\ m \in Pids /\ Traced(p) /\ (m = p \/ ~Traced(m))
             /\ \A q \in Pids \ {p, m} : st'[q] = st[q]
             /\ p # m => st'[p] = "none"
             /\ st'[m] \in {"working", "left", "none"}
             /\ FollowExec = "YES" => st'[m] = "working"
<1> DEFINE m == leader[p]
           r == NewExecutionContext(Now, m, p)
<1>1. /\ Traced(p) /\ call[p] = "execve" /\ m \in Pids /\ tt' = r /\ leader' = leader
      /\ \A q \in Group(p) \ {p} : q = m /\ st[q] \in {"none", "exiting"}
  BY DEF TraceeExec, ExecHeard, TInv, TypeInv
<1>2. PICK x \in {"working", "left", "none"} :
          /\ st' = [[st EXCEPT ![p] = "none"] EXCEPT ![m] = x]
          /\ FollowExec = "YES" => x = "working"
  BY DEF TraceeExec, FollowExecutionContext
<1>3. call' = [[call EXCEPT ![p] = "none"] EXCEPT ![m] = IF st'[m] = "working" THEN "execve_done" ELSE "none"]
  BY DEF TraceeExec
<1> HIDE DEF m, r
<1>4. /\ st'[m] = x /\ (p # m => st'[p] = "none") /\ \A q \in Pids \ {p, m} : st'[q] = st[q] /\ call'[q] = call[q]
  BY <1>1, <1>2, <1>3 DEF TInv, TypeInv
<1>5. call'[m] = (IF x = "working" THEN "execve_done" ELSE "none") /\ (p # m => call'[p] = "none")
  BY <1>1, <1>3, <1>4 DEF TInv, TypeInv
<1>6. leader[m] = m
  BY <1>1 DEF TInv, Leaders, Traced, m
<1>7. m # p => st[m] \in {"none", "exiting"}
  BY <1>1, <1>6 DEF Group, m
<1>8. CurrentSyscall(Now, p) # {} /\ (m # p => CurrentSyscall(Now, m) = {})
  <2>1. "execve" \in Calls /\ IsEnabled("execve")
    BY <1>1, CallAssumption DEF TInv, TypeInv, ExecHeard
  <2>2. CurrentSyscall(Now, p) = {"execve"}
    BY <1>1, <2>1, NowClean DEF TInv, PendingIsDue, Due
  <2>3. m # p => CurrentSyscall(Now, m) = {}
    BY <1>1, <1>7, NowClean DEF TInv, PendingIsDue, Due, Traced
  <2> QED BY <2>2, <2>3
<1>9. /\ r \in TermTracers /\ Clean(r) /\ CurrentSyscall(r, m) = {} /\ CurrentSyscall(r, p) = {}
      /\ Rest(Now, r, {m, p}) /\ r.num = Now.num /\ r.fresh \ {m, p} = Now.fresh \ {m, p}
      /\ SaidOf(Now, r, m)
  BY <1>1, <1>8, NowClean, CleanExec DEF r
<1>10. ASSUME NEW q \in Pids PROVE CurrentSyscall(tt', q) = Due(q)'
  <2>1. CASE q \in {p, m}
    <3>1. Due(q)' = {}
      BY <1>4, <1>5, <2>1, CallAssumption DEF Due, Traced
    <3> QED BY <1>1, <1>9, <2>1, <3>1
  <2>2. CASE q \notin {p, m}
    <3>1. CurrentSyscall(tt', q) = Due(q)
      BY <1>1, <1>9, <2>2, NowClean DEF Rest, TInv, PendingIsDue
    <3>2. Due(q)' = Due(q)
      BY <1>4, <2>2 DEF Due, Traced
    <3> QED BY <3>1, <3>2
  <2> QED BY <2>1, <2>2
<1>11. PendingIsDue'
  BY <1>10 DEF PendingIsDue
<1>12. Idle'
  BY <1>4, <1>5 DEF Idle, Traced, TInv
<1>13. Leaders'
  BY <1>1, <1>4, <1>6 DEF Leaders, TInv
<1>14. Known'
  <2> SUFFICES ASSUME NEW q \in Pids
               PROVE  /\ st'[q] = "untraced" => q \in Initial
                      /\ st'[q] = "new" => q \in Initial \cup tt'.fresh
    BY DEF Known
  <2>1. CASE q \in {p, m}
    BY <1>4, <2>1
  <2>2. CASE q \notin {p, m}
    <3>1. ~(st[q] = "new" /\ q \notin Initial \cup tt.fresh)
      BY <1>1, <2>2 DEF Traced, TInv, Known
    <3>2. q \in tt'.fresh <=> q \in tt.fresh
      BY <1>1, <1>9, <2>2, NowClean
    <3> QED BY <1>4, <2>2, <3>1, <3>2 DEF TInv, Known
  <2> QED BY <2>1, <2>2
<1>15. TInv'
  BY <1>1, <1>9, <1>11, <1>12, <1>13, <1>14 DEF TInv
<1>16. m = p \/ ~Traced(m)
  BY <1>7 DEF Traced
<1>17. tt'.num = tt.num /\ (tt'.said = NoPid \/ (tt'.said = m /\ tt.num <= 1))
  BY <1>1, <1>9, NowClean DEF SaidOf
<1> QED
  BY <1>1, <1>2, <1>4, <1>15, <1>16, <1>17 DEF m

\* The entry and the exit of a call, a signal and a stop.
LEMMA CallTInv ==
  ASSUME TInv, TypeInv', NEW p \in Pids,
         TraceeEntry(p) \/ TraceeExit(p) \/ TraceeSignaled(p) \/ TraceeStopped(p)
  PROVE  /\ TInv' /\ tt'.num = tt.num /\ (tt'.said = NoPid \/ (tt'.said = p /\ tt.num <= 1))
         /\ Traced(p) /\ Traced(p)' /\ \A q \in Pids \ {p} : st'[q] = st[q]
<1>0. UNCHANGED leader /\ Traced(p) /\ st[p] \notin {"none", "untraced"}
  BY DEF TraceeEntry, TraceeExit, TraceeSignaled, TraceeStopped, Traced
<1>1. CurrentSyscall(Now, p) = {call[p]} \cap {x \in Calls : IsEnabled(x)}
  BY <1>0, NowClean DEF TInv, PendingIsDue, Due
<1> SUFFICES ASSUME NEW s, NEW state, NEW c, NEW e, Callback(p, s, state, c, e), Clean(s),
                    Rest(Now, s, {p}), s.fresh = Now.fresh, s.num = Now.num, SaidOf(Now, s, p),
                    state \in {"attached", "working"},
                    CurrentSyscall(s, p) = {c} \cap {x \in Calls : IsEnabled(x)}
             PROVE  /\ TInv' /\ tt'.num = tt.num /\ (tt'.said = NoPid \/ (tt'.said = p /\ tt.num <= 1))
                    /\ Traced(p)' /\ \A q \in Pids \ {p} : st'[q] = st[q]
  <2>1. CASE TraceeEntry(p)
    <3>1. PICK c \in Calls : Callback(p, SyscallEntry(Now, p, c), "working", c, TRUE)
      BY <2>1 DEF TraceeEntry
    <3>2. CurrentSyscall(Now, p) = {}
      BY <1>1, <2>1, CallAssumption DEF TraceeEntry
    <3> DEFINE s == SyscallEntry(Now, p, c)
    <3>3. /\ Clean(s) /\ CurrentSyscall(s, p) = (IF IsEnabled(c) THEN {c} ELSE {})
          /\ Rest(Now, s, {p}) /\ s.num = Now.num /\ s.fresh = Now.fresh /\ SaidOf(Now, s, p)
      BY <3>2, NowClean, CleanEntry
    <3> HIDE DEF s
    <3>4. CurrentSyscall(s, p) = {c} \cap {x \in Calls : IsEnabled(x)}
      BY <3>3
    <3> QED BY <1>0, <3>1, <3>3, <3>4 DEF s
  <2>2. CASE TraceeExit(p)
    <3> DEFINE s == IF call[p] = "execve_done" THEN SyscallExit(Now, p, "execve", TRUE)
                    ELSE SyscallExit(Now, p, call[p], FALSE)
    <3>1. Callback(p, s, "working", "none", FALSE)
      BY <2>2 DEF TraceeExit
    <3>2. {"none"} \cap {x \in Calls : IsEnabled(x)} = {}
      BY CallAssumption
    <3>3. CASE call[p] = "execve_done"
      <4>1. s = Now
        BY <3>3 DEF SyscallExit
      <4>2. CurrentSyscall(Now, p) = {}
        BY <1>1, <3>3, CallAssumption
      <4> HIDE DEF s
      <4>3. Clean(s) /\ Rest(Now, s, {p}) /\ SaidOf(Now, s, p) /\ s.fresh = Now.fresh /\ s.num = Now.num
        BY <4>1, NowClean DEF Rest, SaidOf
      <4> QED BY <1>0, <3>1, <3>2, <4>1, <4>2, <4>3
    <3>4. CASE call[p] # "execve_done"
      <4>1. s = SyscallExit(Now, p, call[p], FALSE)
        BY <3>4
      <4> HIDE DEF s
      <4>2. call[p] \in Calls
        BY <2>2, <3>4 DEF TraceeExit, TInv, TypeInv
      <4>3. CurrentSyscall(Now, p) = IF IsEnabled(call[p]) THEN {call[p]} ELSE {}
        BY <1>1, <4>2
      <4>4. /\ Clean(s) /\ (IsEnabled(call[p]) => CurrentSyscall(s, p) = {})
            /\ (~IsEnabled(call[p]) => s = Now)
            /\ Rest(Now, s, {p}) /\ s.num = Now.num /\ s.fresh = Now.fresh /\ SaidOf(Now, s, p)
        BY <4>1, <4>2, <4>3, NowClean, CleanExit, ZenonT(40)
      <4>5. CurrentSyscall(s, p) = {}
        BY <4>3, <4>4
      <4> QED BY <1>0, <3>1, <3>2, <4>4, <4>5
    <3> QED BY <3>3, <3>4
  <2>3. CASE TraceeSignaled(p)
    <3> DEFINE s == StartNewLine(Now, p)
    <3>1. Callback(p, s, st[p], call[p], FALSE) /\ st[p] \in {"attached", "working"}
      BY <2>3 DEF TraceeSignaled, Signaled, Traced
    <3>2. Clean(s) /\ Rest(Now, s, {}) /\ s.num = Now.num /\ s.fresh = Now.fresh /\ SaidOf(Now, s, p)
      BY NowClean, CleanStart
    <3> HIDE DEF s
    <3>3. Rest(Now, s, {p}) /\ CurrentSyscall(s, p) = CurrentSyscall(Now, p)
      BY <3>2 DEF Rest
    <3> QED BY <1>0, <1>1, <3>1, <3>2, <3>3
  <2>4. CASE TraceeStopped(p)
    <3> DEFINE s == Stopped(Now, p, IF st[p] = "attached" THEN 0 ELSE 1)
    <3>1. Callback(p, s, st[p], call[p], FALSE) /\ st[p] \in {"attached", "working"}
      BY <2>4 DEF TraceeStopped, Traced
    <3>2. s = Now \/ s = StartNewLine(Now, p)
      BY DEF Stopped
    <3> HIDE DEF s
    <3>3. Clean(s) /\ Rest(Now, s, {}) /\ s.num = Now.num /\ s.fresh = Now.fresh /\ SaidOf(Now, s, p)
      <4>1. CASE s = Now
        BY <4>1, NowClean DEF Rest, SaidOf
      <4>2. CASE s = StartNewLine(Now, p)
        BY <4>2, NowClean, CleanStart
      <4> QED BY <3>2, <4>1, <4>2
    <3>4. Rest(Now, s, {p}) /\ CurrentSyscall(s, p) = CurrentSyscall(Now, p)
      BY <3>3 DEF Rest
    <3> QED BY <1>0, <1>1, <3>1, <3>3, <3>4
  <2> QED BY <2>1, <2>2, <2>3, <2>4
<1>2. TInv'
  <2>1. Rest(tt, s, {p}) /\ s.fresh = tt.fresh /\ state \notin {"new", "untraced"}
    BY NowClean
  <2> QED BY <1>0, <2>1, CallbackTInv
<1>3. tt' = s /\ st' = [st EXCEPT ![p] = state]
  BY DEF Callback
<1> QED
  BY <1>2, <1>3, NowClean DEF SaidOf, TInv, TypeInv, Traced

\* The end of a tracee.
LEMMA EndTInv ==
  ASSUME TInv, TypeInv', NEW p \in Pids, TraceeExited(p) \/ TraceeDisappeared(p)
  PROVE  /\ TInv' /\ tt'.num = Decrement(tt.num) /\ (tt'.said = NoPid \/ (tt'.said = p /\ tt.num <= 1))
         /\ ~Traced(p)' /\ st'[p] # "left" /\ \A q \in Pids \ {p} : st'[q] = st[q]
         /\ Traced(p) \/ st[p] = "left" \/ "attach" \in Hurried
<1>1. PICK e \in BOOLEAN, state \in {"exiting", "none"} : Callback(p, Exited(Now, p, e), state, "none", FALSE)
  <2>1. CASE TraceeExited(p)
    <3>1. Callback(p, Exited(Now, p, p \in entered), "exiting", "none", FALSE)
      BY Zenon, <2>1 DEF TraceeExited
    <3>2. (p \in entered) \in BOOLEAN
      OBVIOUS
    <3> QED BY Zenon, <3>1, <3>2
  <2>2. CASE TraceeDisappeared(p)
    <3>1. Callback(p, Exited(Now, p, TRUE), "none", "none", FALSE)
      BY <2>2 DEF TraceeDisappeared, Disappeared
    <3> QED BY Zenon, <3>1
  <2> QED BY <2>1, <2>2
<1>2. UNCHANGED leader /\ st[p] \notin {"none", "untraced"}
  BY DEF TraceeExited, TraceeDisappeared, Traced
<1>3. Traced(p) \/ st[p] = "left" \/ "attach" \in Hurried
  BY DEF TraceeExited, TraceeDisappeared
<1> DEFINE s == Exited(Now, p, e)
<1>4. /\ Clean(s) /\ CurrentSyscall(s, p) = {} /\ Rest(Now, s, {p})
      /\ s.num = Decrement(Now.num) /\ s.fresh = Now.fresh \ {p} /\ SaidOf(Now, s, p)
  <2>1. Now \in TermTracers /\ Clean(Now)
    BY NowClean
  <2> QED BY Zenon, <2>1, CleanExited
<1> HIDE DEF s
<1>5. Callback(p, s, state, "none", FALSE)
  BY <1>1 DEF s
<1>6. TInv'
  <2>1. Rest(tt, s, {p}) /\ s.fresh = tt.fresh \ {p} /\ state \notin {"new", "untraced", "attached", "working"}
    BY <1>4, NowClean
  <2> QED BY <1>2, <1>4, <1>5, <2>1, CallbackTInv
<1>7. tt' = s /\ st' = [st EXCEPT ![p] = state]
  BY <1>5 DEF Callback
<1> QED
  BY <1>3, <1>4, <1>6, <1>7, NowClean DEF SaidOf, TInv, TypeInv, Traced

\* A tracee of which nothing more is told.
LEMMA CollectedTInv ==
  ASSUME TInv, TypeInv', NEW p \in Pids, TraceeCollected(p)
  PROVE  /\ TInv' /\ tt'.num = tt.num /\ tt'.said = NoPid
         /\ ~Traced(p) /\ st'[p] = "none" /\ \A q \in Pids \ {p} : st'[q] = st[q]
<1>1. Callback(p, Now, "none", "none", FALSE) /\ UNCHANGED leader /\ st[p] \in {"exiting", "declined"}
  BY DEF TraceeCollected
<1>2. ~Traced(p)
  BY <1>1 DEF Traced
<1>3. CurrentSyscall(Now, p) = {}
  BY <1>2, NowClean DEF TInv, PendingIsDue, Due
<1>4. TInv'
  <2>1. Clean(Now) /\ Rest(tt, Now, {p}) /\ Now.fresh = tt.fresh
    BY NowClean
  <2>2. st[p] \notin {"none", "untraced"} /\ "none" \notin {"new", "untraced", "attached", "working"}
    BY <1>1
  <2> QED BY Zenon, <1>1, <1>3, <2>1, <2>2, CallbackTInv
<1> QED
  BY <1>1, <1>2, <1>4, NowClean DEF Callback, TInv, TypeInv

\* The first tracee has not been attached to, and nothing is pending.
LEMMA InitTInv == Init => TInv
<1> SUFFICES ASSUME Init PROVE TInv
  OBVIOUS
<1>1. TypeInv
  BY InitTypeInv
<1>2. /\ tt.active = << >> /\ tt.unfinished = NoCalls /\ tt.line = NoPid /\ ~tt.mixed /\ ~tt.failed /\ tt.num = 0
  BY DEF Init, NewTermTracer
<1>3. DOMAIN tt.unfinished = {}
  BY <1>2 DEF NoCalls
<1>4. \A q \in Pids : /\ st[q] = (IF q = Main THEN "new" ELSE IF q \in Initial THEN "untraced" ELSE "none")
                      /\ call[q] = "none" /\ leader[q] = Main
  BY DEF Init
<1>5. Clean(tt)
  BY <1>2, <1>3 DEF Clean
<1>6. PendingIsDue /\ Idle
  BY <1>2, <1>3, <1>4 DEF PendingIsDue, Due, Traced, Idle, CurrentSyscall, HasActive
<1>7. Leaders /\ Known
  BY <1>2, <1>4, PidAssumption DEF Leaders, Known
<1> QED
  BY <1>1, <1>5, <1>6, <1>7 DEF TInv

\* Each callback keeps lines and pending calls in order.
LEMMA NextTInv == ExecHeard /\ TInv /\ [Next]_vars => TInv'
<1> SUFFICES ASSUME ExecHeard, TInv, [Next]_vars PROVE TInv'
  OBVIOUS
<1>1. TypeInv'
  BY NextTypeInv DEF TInv
<1>2. CASE UNCHANGED vars
  <2>1. tt' = tt /\ st' = st /\ call' = call /\ leader' = leader
    BY <1>2 DEF vars
  <2> QED BY <1>1, <2>1 DEF TInv, PendingIsDue, Due, Traced, Idle, Leaders, Known
<1>3. ASSUME NEW p \in Pids,
             \/ TraceeAttached(p) \/ TraceeEntry(p) \/ TraceeExit(p) \/ TraceeSignaled(p)
             \/ TraceeStopped(p) \/ TraceeExited(p) \/ TraceeCollected(p) \/ TraceeDisappeared(p)
             \/ TraceeExec(p) \/ \E c \in Pids : NewTracee(p, c)
      PROVE  TInv'
  BY <1>1, <1>3, AttachedTInv, CallTInv, EndTInv, CollectedTInv, ExecTInv, ChildTInv
<1> QED
  BY <1>2, <1>3 DEF Next

\* When execve() is among the calls that are printed and no thread ends unheard
\* before the execve() of another one, m_active_syscall and m_unfinished_syscalls
\* hold exactly the calls that are begun and not completed, in any interleaving of
\* any number of tracees.  Without the first condition newExecutionContext() drops
\* the active call of whatever tracee has one.
THEOREM PendingCallsKept == ExecHeard => (Spec => []PendingInStep)
<1> SUFFICES ASSUME ExecHeard PROVE Spec => []PendingInStep
  OBVIOUS
<1>1. TInv => PendingInStep
  BY DEF TInv, PendingInStep, PendingIsDue, Due, Clean, HasActive
<1>2. TInv /\ [Next]_vars => TInv'
  BY NextTInv
<1> QED
  BY <1>1, <1>2, InitTInv, PTL DEF Spec

\* Under the same conditions no line is mixed up with that of another tracee, and
\* the assertion in checkResumedSyscall() holds.
THEOREM LinesKept == ExecHeard => (Spec => [](LinesIntact /\ AssertionHolds))
<1> SUFFICES ASSUME ExecHeard PROVE Spec => [](LinesIntact /\ AssertionHolds)
  OBVIOUS
<1>1. TInv => LinesIntact /\ AssertionHolds
  BY DEF TInv, LinesIntact, AssertionHolds, Clean, HasActive
<1>2. TInv /\ [Next]_vars => TInv'
  BY NextTInv
<1> QED
  BY <1>1, <1>2, InitTInv, PTL DEF Spec

(* The specification: counting *)

Tracees == {p \in Pids : Traced(p)}

\* No tracee is announced that then ends unheard, and none is left at an execve().
CountHeard == ExecHeard /\ "attach" \notin Hurried /\ FollowExec = "YES"

NoneLeft == \A p \in Pids : st[p] # "left"

CountInv == TInv /\ NoneLeft /\ CountInStep /\ RemainingTrue

\* Sizes of the set of tracees.
LEMMA TraceeSets ==
  ASSUME NEW S \in SUBSET Pids
  PROVE  /\ IsFiniteSet(S) /\ Cardinality(S) \in 0 .. SizeRange - 1
         /\ \A x \in Pids : /\ x \notin S => Cardinality(S \cup {x}) = Cardinality(S) + 1
                            /\ x \in S => Cardinality(S \ {x}) = Cardinality(S) - 1
         /\ \A x \in S : Cardinality(S) <= 1 => S = {x}
<1>1. IsFiniteSet(S) /\ Cardinality(S) \in Nat /\ Cardinality(S) <= Cardinality(Pids) /\ Cardinality(Pids) \in Nat
  BY SizeAssumption, FS_Subset, FS_CardinalityType
<1>2. Cardinality(S) \in 0 .. SizeRange - 1
  BY <1>1, SizeAssumption
<1>3. ASSUME NEW x \in Pids
      PROVE  /\ x \notin S => Cardinality(S \cup {x}) = Cardinality(S) + 1
             /\ x \in S => Cardinality(S \ {x}) = Cardinality(S) - 1
  BY <1>1, FS_AddElement, FS_RemoveElement
<1>4. ASSUME NEW x \in S, Cardinality(S) <= 1 PROVE S = {x}
  <2>1. IsFiniteSet(S \ {x}) /\ Cardinality(S \ {x}) = Cardinality(S) - 1
    BY <1>1, <1>4, FS_RemoveElement
  <2>2. Cardinality(S \ {x}) = 0
    BY <1>1, <1>4, <2>1, FS_CardinalityType
  <2>3. S \ {x} = {}
    BY <2>1, <2>2, FS_EmptySet
  <2> QED BY <1>4, <2>3
<1> QED
  BY <1>1, <1>2, <1>3, <1>4

\* Each callback keeps the count.
LEMMA NextCountInv == CountHeard /\ CountInv /\ [Next]_vars => CountInv'
<1> SUFFICES ASSUME CountHeard, CountInv, [Next]_vars PROVE CountInv'
  OBVIOUS
<1>1. TInv /\ ExecHeard /\ TypeInv' /\ TInv'
  BY NextTypeInv, NextTInv DEF CountInv, CountHeard, TInv
<1>2. /\ Tracees \in SUBSET Pids /\ Tracees' \in SUBSET Pids /\ tt.num = Cardinality(Tracees)
  BY DEF CountInv, CountInStep, Tracees
<1>3. Cardinality(Tracees) \in 0 .. SizeRange - 1 /\ Cardinality(Tracees') \in 0 .. SizeRange - 1
  BY <1>2, TraceeSets
<1>4. ASSUME NoneLeft', tt'.num = Cardinality(Tracees'), tt'.said # NoPid => Tracees' \subseteq {tt'.said}
      PROVE  CountInv'
  BY <1>1, <1>4 DEF CountInv, CountInStep, RemainingTrue, Tracees
<1>5. CASE UNCHANGED vars
  <2>1. tt' = tt /\ st' = st
    BY <1>5 DEF vars
  <2>2. NoneLeft' /\ Tracees' = Tracees
    BY <2>1 DEF CountInv, NoneLeft, Tracees, Traced
  <2>3. tt.said # NoPid => Tracees \subseteq {tt.said}
    BY DEF CountInv, RemainingTrue, Tracees
  <2> QED BY <1>2, <1>4, <2>1, <2>2, <2>3
<1> SUFFICES ASSUME NEW p \in Pids,
                    \/ TraceeAttached(p) \/ TraceeEntry(p) \/ TraceeExit(p) \/ TraceeSignaled(p)
                    \/ TraceeStopped(p) \/ TraceeExited(p) \/ TraceeCollected(p) \/ TraceeDisappeared(p)
                    \/ TraceeExec(p) \/ \E c \in Pids : NewTracee(p, c)
             PROVE  CountInv'
  BY <1>5 DEF Next
<1>6. ASSUME Traced(p), tt.num <= 1 PROVE Tracees = {p}
  BY <1>2, <1>6, TraceeSets DEF Tracees
<1>7. CASE TraceeAttached(p)
  <2>1. tt'.num = Increment(tt.num) /\ (tt'.said = NoPid \/ (tt'.num <= 1 /\ tt.num # 0))
    BY <1>1, <1>7, AttachedTInv
  <2>2. \A q \in Pids : st'[q] = IF q = p THEN "attached" ELSE IF st[q] = "untraced" THEN "new" ELSE st[q]
    BY <1>7 DEF TraceeAttached
  <2>3. st[p] = "new"
    BY <1>7 DEF TraceeAttached
  <2>4. Tracees' = Tracees \cup {p} /\ p \notin Tracees /\ NoneLeft'
    BY <2>2, <2>3 DEF Tracees, Traced, CountInv, NoneLeft
  <2>5. Cardinality(Tracees') = tt.num + 1
    BY <1>2, <2>4, TraceeSets
  <2>6. tt'.num = tt.num + 1
    BY <1>2, <1>3, <2>1, <2>5, SizeAssumption DEF Increment
  <2>7. tt'.said = NoPid
    BY <1>2, <1>3, <2>1, <2>6
  <2> QED BY <1>4, <2>4, <2>5, <2>6, <2>7
<1>8. CASE TraceeEntry(p) \/ TraceeExit(p) \/ TraceeSignaled(p) \/ TraceeStopped(p)
  <2>1. /\ tt'.num = tt.num /\ (tt'.said = NoPid \/ (tt'.said = p /\ tt.num <= 1))
        /\ Traced(p) /\ Traced(p)' /\ \A q \in Pids \ {p} : st'[q] = st[q]
    BY <1>1, <1>8, CallTInv
  <2>2. Tracees' = Tracees /\ NoneLeft'
    BY <2>1 DEF Tracees, Traced, CountInv, NoneLeft
  <2> QED BY <1>2, <1>4, <1>6, <2>1, <2>2
<1>9. CASE TraceeExited(p) \/ TraceeDisappeared(p)
  <2>1. /\ tt'.num = Decrement(tt.num) /\ (tt'.said = NoPid \/ (tt'.said = p /\ tt.num <= 1))
        /\ ~Traced(p)' /\ st'[p] # "left" /\ \A q \in Pids \ {p} : st'[q] = st[q]
        /\ Traced(p) \/ st[p] = "left" \/ "attach" \in Hurried
    BY <1>1, <1>9, EndTInv
  <2>2. Traced(p)
    BY <2>1 DEF CountHeard, CountInv, NoneLeft
  <2>3. Tracees' = Tracees \ {p} /\ p \in Tracees /\ NoneLeft'
    BY <2>1, <2>2 DEF Tracees, Traced, CountInv, NoneLeft
  <2>4. Cardinality(Tracees') = tt.num - 1
    BY <1>2, <2>3, TraceeSets
  <2>5. tt'.num = Cardinality(Tracees')
    BY <1>2, <1>3, <2>1, <2>4, SizeAssumption DEF Decrement
  <2> QED BY <1>4, <1>6, <2>1, <2>2, <2>3, <2>5
<1>10. CASE TraceeCollected(p)
  <2>1. /\ tt'.num = tt.num /\ tt'.said = NoPid
        /\ ~Traced(p) /\ st'[p] = "none" /\ \A q \in Pids \ {p} : st'[q] = st[q]
    BY <1>1, <1>10, CollectedTInv
  <2>2. Tracees' = Tracees /\ NoneLeft'
    BY <2>1 DEF Tracees, Traced, CountInv, NoneLeft
  <2> QED BY <1>2, <1>4, <2>1, <2>2
<1>11. CASE TraceeExec(p)
  <2> DEFINE m == leader[p]
  <2>1. /\ tt'.num = tt.num /\ (tt'.said = NoPid \/ (tt'.said = m /\ tt.num <= 1))
        /\ m \in Pids /\ Traced(p) /\ (m = p \/ ~Traced(m))
        /\ \A q \in Pids \ {p, m} : st'[q] = st[q]
        /\ p # m => st'[p] = "none"
        /\ FollowExec = "YES" => st'[m] = "working"
    BY <1>1, <1>11, ExecTInv
  <2> HIDE DEF m
  <2>2. st'[m] = "working"
    BY <2>1 DEF CountHeard
  <2>3. Tracees' = (Tracees \ {p}) \cup {m} /\ p \in Tracees /\ m \notin Tracees \ {p} /\ NoneLeft'
    BY <2>1, <2>2 DEF Tracees, Traced, CountInv, NoneLeft
  <2>4. Tracees \ {p} \in SUBSET Pids /\ Cardinality(Tracees \ {p}) = tt.num - 1
    BY <1>2, <2>3, TraceeSets
  <2>5. Cardinality(Tracees') = tt.num - 1 + 1
    BY <2>1, <2>3, <2>4, TraceeSets
  <2>6. tt'.num = Cardinality(Tracees')
    BY <1>2, <1>3, <2>1, <2>5
  <2>7. tt.num <= 1 => Tracees' = {m}
    BY <1>6, <2>1, <2>3
  <2> QED BY <1>4, <2>1, <2>3, <2>6, <2>7
<1>12. ASSUME NEW c \in Pids, NewTracee(p, c) PROVE CountInv'
  <2>1. /\ tt'.num = tt.num /\ (tt'.said = NoPid \/ (tt'.said = p /\ tt.num <= 1))
        /\ \A q \in Pids \ {c} : st'[q] = st[q]
        /\ st'[c] \in {"new", "declined"} /\ st[c] = "none" /\ Traced(p)
    BY <1>1, <1>12, ChildTInv
  <2>2. Tracees' = Tracees /\ NoneLeft'
    BY <2>1 DEF Tracees, Traced, CountInv, NoneLeft
  <2> QED BY <1>2, <1>4, <1>6, <2>1, <2>2
<1> QED
  BY <1>7, <1>8, <1>9, <1>10, <1>11, <1>12

\* Before the first attached() there is nothing to count.
LEMMA InitCountInv == CountHeard /\ Init => CountInv
<1> SUFFICES ASSUME CountHeard, Init PROVE CountInv
  OBVIOUS
<1>1. TInv /\ tt.num = 0 /\ tt.said = NoPid
  BY InitTInv DEF Init, NewTermTracer
<1>2. {p \in Pids : Traced(p)} = {} /\ NoneLeft
  BY DEF Init, Traced, NoneLeft
<1> QED
  BY <1>1, <1>2, FS_EmptySet DEF CountInv, CountInStep, RemainingTrue

\* m_num_tracees is the number of tracees, however many there are: if execve() is
\* followed and printed and every end of a tracee is told between attached() and
\* exited().
THEOREM TraceesCounted == CountHeard => (Spec => []CountInStep)
<1> SUFFICES ASSUME CountHeard PROVE Spec => []CountInStep
  OBVIOUS
<1>1. Init => CountInv
  BY InitCountInv
<1>2. CountInv /\ [Next]_vars => CountInv'
  BY NextCountInv
<1>3. CountInv => CountInStep
  BY DEF CountInv
<1> QED
  BY <1>1, <1>2, <1>3, PTL DEF Spec

\* Under the same conditions "only PID ... is remaining" names the one tracee that is
\* left, be it the one that was there first or one that came by clone() or execve().
THEOREM RemainingNamed == CountHeard => (Spec => []RemainingTrue)
<1> SUFFICES ASSUME CountHeard PROVE Spec => []RemainingTrue
  OBVIOUS
<1>1. Init => CountInv
  BY InitCountInv
<1>2. CountInv /\ [Next]_vars => CountInv'
  BY NextCountInv
<1>3. CountInv => RemainingTrue
  BY DEF CountInv
<1> QED
  BY <1>1, <1>2, <1>3, PTL DEF Spec
=============================================================================
