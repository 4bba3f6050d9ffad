----------------------------- MODULE CallObject -----------------------------
(***************************************************************************)
(* The SystemCall object (SystemCall.hxx, SystemCall.cxx): its parameters, *)
(* its return item, the optional items that exist at the moment, and what  *)
(* each item remembers.  Objects are created once per system call number   *)
(* and reused for every further call of that number, so that whatever an   *)
(* item does not forget is still there at the next call.                   *)
(***************************************************************************)
EXTENDS NetItems, FiniteSets, TLC

ABIs == {"X86_64", "I386", "X32", "AARCH64"}

(* The tracer is a 64-bit program: I386 code runs in emulation.            *)
Emulated(abi) == abi = "I386"

(* The number of registers that carry arguments (SystemCallInfo::MAX_ARGS).*)
MaxPars == 6

NoCell == [main |-> "none", aux |-> "none", done |-> "none"]

NoItem == ReturnValue("")

(* pars: m_pars; ret: m_return; sub: items outside of m_pars that are      *)
(* filled from an argument structure; live: the std::optional items that   *)
(* exist; cell: what items remember, done: the stop at which they were     *)
(* filled last; flaw: what went wrong; early: items that consulted a       *)
(* sibling which was not up to date.                                       *)
NewObject(ret, pars) ==
    [pars |-> pars, ret |-> ret, sub |-> << >>, live |-> {},
     cell |-> << >>, flaw |-> "", early |-> {}]

(* The static `unused' item belongs to no object.                          *)
Names(seq) == {seq[i].n : i \in DOMAIN seq} \ {"unused"}

CellOf(o, n) == IF n \in DOMAIN o.cell THEN o.cell[n] ELSE NoCell

Forget(o, names) == [n \in DOMAIN o.cell \ names |-> o.cell[n]]

(* std::optional<>::reset() and emplace() of items                         *)
Reset(o, names) == [o EXCEPT !.live = @ \ names, !.cell = Forget(o, names)]

Emplace(o, items) ==
    [o EXCEPT !.live = @ \cup Names(items), !.cell = Forget(o, Names(items))]

Optional(items) ==
    [k \in DOMAIN items |-> [items[k] EXCEPT !.opt = (items[k].k # "Unused")]]

SetReturnItem(o, i) == [o EXCEPT !.ret = i]

AddParameters(o, items) == [o EXCEPT !.pars = @ \o items]

SetParameters(o, items) == [o EXCEPT !.pars = items]

DropParameters(o, keep) == [o EXCEPT !.pars = SubSeq(@, 1, keep)]

(* emplace() followed by addParameters(), and by setReturnItem()           *)
AddNew(o, items) == AddParameters(Emplace(o, items), Optional(items))

ReturnNew(o, i) == SetReturnItem(Emplace(o, <<i>>), Optional(<<i>>)[1])

----------------------------------------------------------------------------
(* Filling.  st tells which item's register is unusable, if any, and how.  *)

AllNull == [n |-> "*", s |-> "null"]

StatusOf(st, n) == IF st.n \in {n, "*"} THEN st.s ELSE "good"

LenState(o, st, n) ==
    IF n # "" /\ StatusOf(st, n) \in {"short", "huge"} THEN StatusOf(st, n)
    ELSE IF n # "" /\ CellOf(o, n).main = "none" THEN "none"
    ELSE "good"

(* A sibling is up to date if it has been filled for this call and, at the *)
(* exit, the kernel's part of it has been fetched as well.                 *)
UpToDate(o, n, stop) ==
    \/ n = ""
    \/ CellOf(o, n).done = stop
    \/ /\ stop = "exit" /\ CellOf(o, n).done = "entry"
       /\ \A q \in {o.pars, o.sub} : \A j \in DOMAIN q :
              q[j].n = n => ~NeedsUpdate(q[j])

Phase(stop, ok) == IF stop = "entry" THEN "entry" ELSE IF ok THEN "ok" ELSE "err"

(* Does the item look at its sibling at this stop?                         *)
Sibling(i, phase) ==
    IF phase = "entry" THEN i.eu ELSE IF phase = "ok" THEN i.xu ELSE ""

(* SystemCallItem::fill() at the entry, updateData() at the exit; src is   *)
(* where the register's value comes from.                                  *)
FillItem(o, i, stop, phase, src, st) ==
    IF o.flaw # "" \/ i.k = "Unused" THEN o
    ELSE LET c    == CellOf(o, i.n)
             len  == LenState(o, st, Sibling(i, phase))
             own  == StatusOf(st, i.n)
             main == Filled(i.main[phase], c.main, src, own, len, c.main)
             aux  == Filled(i.aux[phase], c.aux, src, own, len, main)
             bad  == {main, aux} \cap Flaws
         IN  IF bad # {} THEN [o EXCEPT !.flaw = CHOOSE f \in bad : TRUE]
             ELSE [o EXCEPT
                     !.cell = (i.n :> [main |-> main, aux |-> aux, done |-> stop]) @@ @,
                     !.early = IF UpToDate(o, Sibling(i, phase), stop) THEN @
                               ELSE @ \cup {i.n}]

(* The items in turn, those with DEFER_FILL after the others.              *)
Turns(seq) ==
    SelectSeq(seq, LAMBDA i : ~i.defer) \o SelectSeq(seq, LAMBDA i : i.defer)

FillAll(o, seq, stop, phase, src, st) ==
    LET f[k \in 0 .. Len(seq)] ==
            IF k = 0 THEN o ELSE FillItem(f[k - 1], seq[k], stop, phase, src, st)
    IN  f[Len(seq)]

(* SystemCall::fillParameters()                                            *)
FillParameters(o, st) ==
    FillAll(o, Turns(o.pars), "entry", "entry", "entry", st)

(* Items that are filled from the structure read by the item named args;   *)
(* all pointers are null in one that could not be read.                    *)
StatusIn(o, args, st) == IF CellOf(o, args).main = "zero" THEN AllNull ELSE st

FillFrom(o, args, items, st) ==
    LET r == [o EXCEPT !.sub = items]
    IN  FillAll(r, items, "entry", "entry", CellOf(r, args).main, StatusIn(r, args, st))

Updated(seq) == SelectSeq(Turns(seq), NeedsUpdate)

UpdateParameters(o, seq, ok, st) ==
    FillAll(o, Updated(seq), "exit", Phase("exit", ok), "exit", st)

=============================================================================
