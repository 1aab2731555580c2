---------------------------- MODULE OutboxProofs ----------------------------
(* Sending, for any number of messages and rows, and any bound on retries. *)
EXTENDS Outbox, WellFoundedInduction, TLAPS, FiniteSetTheorems

LEMMA ConstantTypes == MaxDoubt \in Nat /\ MaxCopies \in Nat
  BY OutboxAssumption

----------------------------------------------------------------------------
(* Numbers *)

\* The least of some numbers is one of them, and none is lower.
LEMMA MinOfNaturals ==
    ASSUME NEW S \in SUBSET Nat, S # {}
    PROVE  Min(S) \in S /\ \A x \in S : Min(S) <= x
<1> DEFINE R == OpToRel(<, Nat)
<1>1. \E m \in S : \A x \in S : ~ (<<x, m>> \in R)
  BY NatLessThanWellFounded, WFMin
<1>2. \A x, m \in Nat : x < m => <<x, m>> \in R
  BY DEF OpToRel
<1> HIDE DEF R
<1>3. \E m \in S : \A x \in S : m <= x
  <2>1. PICK m \in S : \A x \in S : ~ (<<x, m>> \in R) BY <1>1
  <2>2. \A x \in S : ~ (x < m) BY <1>2, <2>1
  <2>3. QED BY <2>2
<1>4. QED BY <1>3 DEF Min

\* The highest of some numbers with a bound is one of them, and none is higher.
LEMMA MaxOfNaturals ==
    ASSUME NEW S \in SUBSET Nat, S # {}, NEW n \in Nat, \A x \in S : x <= n
    PROVE  Max(S) \in S /\ \A x \in S : x <= Max(S)
<1> DEFINE bounds == {b \in Nat : \A x \in S : x <= b}
<1>1. Min(bounds) \in bounds /\ \A b \in bounds : Min(bounds) <= b
  BY MinOfNaturals
<1>2. Min(bounds) \in S
  <2>1. SUFFICES ASSUME Min(bounds) \notin S PROVE FALSE OBVIOUS
  <2>2. Min(bounds) # 0
    <3>1. PICK x \in S : TRUE OBVIOUS
    <3>2. x <= Min(bounds) /\ x # Min(bounds) BY <1>1, <2>1, <3>1
    <3>3. QED BY <1>1, <3>2
  <2>3. Min(bounds) - 1 \in bounds BY <1>1, <2>1, <2>2
  <2>4. QED BY <1>1, <2>3
<1>3. \E m \in S : \A x \in S : m >= x
  BY <1>1, <1>2
<1>4. QED BY <1>3 DEF Max

----------------------------------------------------------------------------
(* Types *)

\* The row a flush works on is one of those it has listed.
LEMMA ItemOfLeft ==
    ASSUME NEW p \in Process, FlushOK(flush[p]), flush[p].pc \notin {"idle", "list"}
    PROVE  Item(p) \in DOMAIN flush[p].left /\ Item(p) \in Nat /\ Mail(p) \in Message
  <1>1. DOMAIN flush[p].left # {} /\ DOMAIN flush[p].left \in SUBSET Nat
    BY DEF FlushOK, TableOK
  <1>2. Item(p) \in DOMAIN flush[p].left
    BY <1>1, MinOfNaturals DEF Item
  <1> QED BY <1>1, <1>2 DEF Mail, FlushOK, TableOK

\* The message of an open window.
LEMMA DraftOfWindow ==
    ASSUME NEW p \in Process, WindowOK(compose[p]), compose[p] # Closed
    PROVE  Draft(p) \in Message /\ compose[p].msg = {Draft(p)}
  <1>1. \E m \in Message : compose[p].msg = {m}
    BY DEF WindowOK, Window
  <1> QED BY <1>1 DEF Draft

\* The ids given are above those in use, as long as these are bounded.
Bounded(S) == \E n \in Nat : \A i \in S : i <= n

LEMMA NextIdIsNew ==
    ASSUME NEW t, TableOK(t), Bounded(DOMAIN t)
    PROVE  /\ NextId(t) \in Nat /\ NextId(t) \notin DOMAIN t
           /\ Bounded(DOMAIN t \cup {NextId(t)})
  <1>1. CASE DOMAIN t = {}
    <2>1. NextId(t) = 1 BY <1>1 DEF NextId
    <2> QED BY <1>1, <2>1 DEF Bounded
  <1>2. CASE DOMAIN t # {}
    <2> DEFINE top == Max(DOMAIN t)
    <2>1. PICK n \in Nat : \A i \in DOMAIN t : i <= n BY DEF Bounded
    <2>2. DOMAIN t \in SUBSET Nat /\ DOMAIN t # {} BY <1>2 DEF TableOK
    <2>3. top \in DOMAIN t /\ \A i \in DOMAIN t : i <= top
      BY <2>1, <2>2, MaxOfNaturals
    <2>4. NextId(t) = top + 1 BY <1>2 DEF NextId
    <2>5. top \in Nat BY <2>2, <2>3
    <2> HIDE DEF top
    <2>6. top + 1 \in Nat /\ top + 1 \notin DOMAIN t BY <2>3, <2>5
    <2>7. \A i \in DOMAIN t \cup {top + 1} : i <= top + 1
      BY <2>2, <2>3, <2>5
    <2>8. Bounded(DOMAIN t \cup {top + 1}) BY <2>6, <2>7 DEF Bounded
    <2> QED BY <2>4, <2>6, <2>8
  <1> QED BY <1>1, <1>2

\* The two ways a send goes on, and those of a flush.
LEMMA WindowGoes ==
    ASSUME NEW w, WindowOK(w), w.pc \notin {"closed", "done"}
    PROVE  /\ w # Closed /\ w.res = "none"
           /\ \A pc \in ComposePC \ {"closed", "done"} : WindowOK([w EXCEPT !.pc = pc])
           /\ \A res \in {"sent", "queued", "failed"} :
                WindowOK([w EXCEPT !.pc = "done", !.res = res])
  <1>1. w # Closed BY DEF Closed
  <1>2. w.res = "none" BY DEF WindowOK, Window
  <1>3. ASSUME NEW pc \in ComposePC \ {"closed", "done"}
        PROVE  WindowOK([w EXCEPT !.pc = pc])
    BY <1>1, <1>2, <1>3 DEF WindowOK, Window, Closed
  <1>4. ASSUME NEW res \in {"sent", "queued", "failed"}
        PROVE  WindowOK([w EXCEPT !.pc = "done", !.res = res])
    <2>1. [w EXCEPT !.pc = "done", !.res = res] \in Window
      BY DEF WindowOK, Window, ComposePC
    <2> QED BY <1>1, <2>1 DEF WindowOK, Window, Closed
  <1> QED BY <1>1, <1>2, <1>3, <1>4

LEMMA ClosedOK == WindowOK(Closed)
  BY DEF WindowOK, Window, Closed, ComposePC

LEMMA IdleOK == FlushOK(Idle)
  BY DEF FlushOK, TableOK, Idle, NoItems, FlushPC

LEMMA FlushGoes ==
    ASSUME NEW f, FlushOK(f), f.pc \notin {"idle", "list"},
           NEW pc \in FlushPC \ {"idle", "list"}
    PROVE  FlushOK([f EXCEPT !.pc = pc])
  <1> DEFINE g == [f EXCEPT !.pc = pc]
  <1>1. g.pc = pc /\ g.left = f.left BY DEF FlushOK
  <1>2. g \in [pc : FlushPC, left : {g.left}] BY <1>1 DEF FlushOK
  <1> HIDE DEF g
  <1>3. FlushOK(g) BY <1>1, <1>2 DEF FlushOK
  <1> QED BY <1>3 DEF g

\* On to the next row of the list.
LEMMA FlushContinues ==
    ASSUME TypeOK, NEW p \in Process, NEW left, TableOK(left), Continue(p, left)
    PROVE  /\ FlushOK(flush'[p])
           /\ flush' = [q \in Process |-> flush'[q]]
           /\ \A q \in Process : q # p => flush'[q] = flush[q]
           /\ flush'[p].pc \in {"idle", "read"}
           /\ flush'[p].left = left \/ DOMAIN flush'[p].left = {}
  <1> DEFINE g == IF DOMAIN left = {} THEN Idle ELSE [pc |-> "read", left |-> left]
  <1>1. FlushOK(g) /\ g.pc \in {"idle", "read"} /\ (g.left = left \/ DOMAIN g.left = {})
    BY IdleOK DEF FlushOK, FlushPC, Idle, NoItems
  <1>2. flush' = [flush EXCEPT ![p] = g] BY DEF Continue
  <1> HIDE DEF g
  <1>3. flush = [q \in Process |-> flush[q]] BY DEF TypeOK
  <1>4. /\ flush'[p] = g /\ flush' = [q \in Process |-> flush'[q]]
        /\ \A q \in Process : q # p => flush'[q] = flush[q]
    BY <1>2, <1>3
  <1> QED BY <1>1, <1>4

LEMMA RestOfTable ==
    ASSUME NEW t, TableOK(t), NEW S \in SUBSET DOMAIN t
    PROVE  TableOK([i \in S |-> t[i]])
  BY DEF TableOK

\* The halves of TypeOK: the tasks, and what outlives them.
Tasks ==
    /\ up \in [Process -> BOOLEAN]
    /\ compose \in [Process -> Window]
    /\ flush = [p \in Process |-> flush[p]]
    /\ \A p \in Process :
          /\ WindowOK(compose[p]) /\ FlushOK(flush[p])
          /\ ~up[p] => compose[p] = Closed /\ flush[p] = Idle
Stored ==
    /\ TableOK(outbox)
    /\ files \subseteq Message
    /\ given \subseteq Message
    /\ told \in [Message -> {"nothing", "sent", "queued"}]
    /\ copies \in [Message -> 0..MaxCopies]
    /\ doubt \in [Message -> 0..MaxDoubt]

LEMMA TypeParts == TypeOK <=> Tasks /\ Stored
  BY DEF TypeOK, Tasks, Stored
LEMMA TypePartsNext == TypeOK' <=> Tasks' /\ Stored'
  BY DEF TypeOK, Tasks, Stored

LEMMA WindowStep ==
    ASSUME TypeOK, NEW p \in Process, NEW w, WindowOK(w), up[p] \/ w = Closed,
           compose' = [compose EXCEPT ![p] = w], UNCHANGED <<up, flush>>
    PROVE  /\ Tasks' /\ compose'[p] = w
           /\ \A q \in Process : q # p => compose'[q] = compose[q]
  <1>1. w \in Window BY DEF WindowOK
  <1>2. compose' \in [Process -> Window] BY <1>1 DEF TypeOK
  <1>3. compose'[p] = w /\ \A q \in Process : q # p => compose'[q] = compose[q]
    BY DEF TypeOK
  <1>4. ASSUME NEW q \in Process
        PROVE  WindowOK(compose'[q]) /\ (~up[q] => compose'[q] = Closed)
    BY <1>3 DEF TypeOK
  <1> QED BY <1>2, <1>3, <1>4 DEF TypeOK, Tasks

LEMMA FlushStepOK ==
    ASSUME TypeOK, NEW p \in Process, NEW f, FlushOK(f), up'[p],
           flush' = [flush EXCEPT ![p] = f], UNCHANGED compose,
           up' = [up EXCEPT ![p] = up'[p]], up'[p] \in BOOLEAN
    PROVE  /\ Tasks' /\ flush'[p] = f
           /\ \A q \in Process : q # p => flush'[q] = flush[q]
  <1>1. up' \in [Process -> BOOLEAN] /\ \A q \in Process : q # p => up'[q] = up[q]
    BY DEF TypeOK
  <1>2. flush' = [q \in Process |-> flush'[q]]
    BY DEF TypeOK
  <1>3. flush'[p] = f /\ \A q \in Process : q # p => flush'[q] = flush[q]
    BY DEF TypeOK
  <1>4. ASSUME NEW q \in Process
        PROVE  FlushOK(flush'[q]) /\ (~up'[q] => flush'[q] = Idle /\ compose[q] = Closed)
    BY <1>1, <1>3 DEF TypeOK
  <1> QED BY <1>1, <1>2, <1>3, <1>4 DEF TypeOK, Tasks

\* A send that has not returned, and a flush that works on a row.
LEMMA OpenWindow ==
    ASSUME TypeOK, NEW p \in Process, compose[p].pc \notin {"closed", "done"}
    PROVE  /\ up[p] /\ compose[p].res = "none" /\ WindowOK(compose[p])
           /\ Draft(p) \in Message /\ compose[p].msg = {Draft(p)}
           /\ \A pc \in ComposePC \ {"closed", "done"} :
                WindowOK([compose[p] EXCEPT !.pc = pc])
           /\ \A res \in {"sent", "queued", "failed"} :
                WindowOK([compose[p] EXCEPT !.pc = "done", !.res = res])
  <1>1. WindowOK(compose[p]) BY DEF TypeOK
  <1>2. compose[p] # Closed BY DEF Closed
  <1> QED BY <1>1, <1>2, WindowGoes, DraftOfWindow DEF TypeOK

LEMMA SendGotoStep ==
    ASSUME TypeOK, NEW p \in Process, NEW pc \in ComposePC \ {"closed", "done"},
           compose[p].pc \notin {"closed", "done"},
           SendGoto(p, pc), UNCHANGED <<up, flush>>
    PROVE  /\ Tasks' /\ compose'[p] = [compose[p] EXCEPT !.pc = pc]
           /\ \A q \in Process : q # p => compose'[q] = compose[q]
  <1> DEFINE w == [compose[p] EXCEPT !.pc = pc]
  <1>1. WindowOK(w) /\ up[p] BY OpenWindow
  <1>2. compose' = [compose EXCEPT ![p] = w] BY DEF SendGoto
  <1> HIDE DEF w
  <1>3. /\ Tasks' /\ compose'[p] = w
        /\ \A q \in Process : q # p => compose'[q] = compose[q]
    BY <1>1, <1>2, WindowStep
  <1> QED BY <1>3 DEF w

LEMMA SendReturnStep ==
    ASSUME TypeOK, NEW p \in Process, NEW res \in {"sent", "queued", "failed"},
           compose[p].pc \notin {"closed", "done"},
           SendReturn(p, res), UNCHANGED <<up, flush>>
    PROVE  /\ Tasks' /\ compose'[p] = [compose[p] EXCEPT !.pc = "done", !.res = res]
           /\ \A q \in Process : q # p => compose'[q] = compose[q]
  <1> DEFINE w == [compose[p] EXCEPT !.pc = "done", !.res = res]
  <1>1. WindowOK(w) /\ up[p] BY OpenWindow
  <1>2. compose' = [compose EXCEPT ![p] = w] BY DEF SendReturn
  <1> HIDE DEF w
  <1>3. /\ Tasks' /\ compose'[p] = w
        /\ \A q \in Process : q # p => compose'[q] = compose[q]
    BY <1>1, <1>2, WindowStep
  <1> QED BY <1>3 DEF w

LEMMA Working ==
    ASSUME TypeOK, NEW p \in Process, flush[p].pc \notin {"idle", "list"}
    PROVE  /\ up[p] /\ Item(p) \in DOMAIN flush[p].left /\ Item(p) \in Nat
           /\ Mail(p) \in Message
  <1>1. FlushOK(flush[p]) BY DEF TypeOK
  <1>2. flush[p] # Idle BY DEF Idle
  <1> QED BY <1>1, <1>2, ItemOfLeft DEF TypeOK

LEMMA FlushGotoStep ==
    ASSUME TypeOK, NEW p \in Process, NEW pc \in FlushPC \ {"idle", "list"},
           flush[p].pc \notin {"idle", "list"},
           FlushGoto(p, pc), UNCHANGED <<up, compose>>
    PROVE  /\ Tasks' /\ flush'[p].pc = pc /\ flush'[p].left = flush[p].left
           /\ \A q \in Process : q # p => flush'[q] = flush[q]
  <1> DEFINE f == [flush[p] EXCEPT !.pc = pc]
  <1>1. FlushOK(f) /\ up[p] BY FlushGoes, Working DEF TypeOK
  <1>2. f.pc = pc /\ f.left = flush[p].left BY DEF TypeOK, FlushOK
  <1>3. flush' = [flush EXCEPT ![p] = f] BY DEF FlushGoto
  <1>4. up' = [up EXCEPT ![p] = up'[p]] /\ up'[p] /\ up'[p] \in BOOLEAN
    BY <1>1 DEF TypeOK
  <1> HIDE DEF f
  <1>5. /\ Tasks' /\ flush'[p] = f
        /\ \A q \in Process : q # p => flush'[q] = flush[q]
    BY <1>1, <1>3, <1>4, FlushStepOK
  <1> QED BY <1>2, <1>5

LEMMA ContinueStep ==
    ASSUME TypeOK, NEW p \in Process, up[p], NEW left, TableOK(left),
           Continue(p, left), UNCHANGED <<up, compose>>
    PROVE  /\ Tasks' /\ flush'[p].pc \in {"idle", "read"}
           /\ flush'[p].left = left \/ DOMAIN flush'[p].left = {}
           /\ \A q \in Process : q # p => flush'[q] = flush[q]
  <1>1. /\ FlushOK(flush'[p]) /\ flush' = [q \in Process |-> flush'[q]]
        /\ \A q \in Process : q # p => flush'[q] = flush[q]
        /\ flush'[p].pc \in {"idle", "read"}
        /\ flush'[p].left = left \/ DOMAIN flush'[p].left = {}
    BY FlushContinues
  <1>2. \A q \in Process : FlushOK(flush'[q]) /\ (~up[q] => flush'[q] = Idle)
    BY <1>1 DEF TypeOK
  <1> QED BY <1>1, <1>2 DEF TypeOK, Tasks

LEMMA NextItemStep ==
    ASSUME TypeOK, NEW p \in Process, flush[p].pc \notin {"idle", "list"},
           NextItem(p), UNCHANGED <<up, compose>>
    PROVE  /\ Tasks' /\ flush'[p].pc \in {"idle", "read"}
           /\ DOMAIN flush'[p].left \subseteq DOMAIN flush[p].left \ {Item(p)}
           /\ \A i \in DOMAIN flush'[p].left : flush'[p].left[i] = flush[p].left[i]
           /\ \A q \in Process : q # p => flush'[q] = flush[q]
  <1> DEFINE left == [i \in DOMAIN flush[p].left \ {Item(p)} |-> flush[p].left[i]]
  <1>1. TableOK(left)
    BY RestOfTable DEF TypeOK, FlushOK
  <1>2. Continue(p, left) BY DEF NextItem
  <1>3. /\ DOMAIN left = DOMAIN flush[p].left \ {Item(p)}
        /\ \A i \in DOMAIN left : left[i] = flush[p].left[i]
    OBVIOUS
  <1> HIDE DEF left
  <1>4. /\ Tasks' /\ flush'[p].pc \in {"idle", "read"}
        /\ flush'[p].left = left \/ DOMAIN flush'[p].left = {}
        /\ \A q \in Process : q # p => flush'[q] = flush[q]
    BY <1>1, <1>2, Working, ContinueStep
  <1> QED BY <1>3, <1>4

Typed == TypeOK /\ Bounded(DOMAIN outbox)

LEMMA AcceptedType ==
    ASSUME TypeOK, NEW m \in Message, Accepted(m)
    PROVE  /\ copies' \in [Message -> 0..MaxCopies] /\ copies'[m] = copies[m] + 1
           /\ \A n \in Message : n # m => copies'[n] = copies[n]
  <1>1. copies[m] + 1 \in 0..MaxCopies
    BY ConstantTypes DEF TypeOK, Accepted
  <1> QED BY <1>1 DEF TypeOK, Accepted

LEMMA DoubtType ==
    ASSUME TypeOK, NEW m \in Message, doubt[m] < MaxDoubt,
           doubt' = [doubt EXCEPT ![m] = @ + 1]
    PROVE  /\ doubt' \in [Message -> 0..MaxDoubt] /\ doubt'[m] = doubt[m] + 1
           /\ \A n \in Message : n # m => doubt'[n] = doubt[n]
  <1>1. doubt[m] + 1 \in 0..MaxDoubt
    BY ConstantTypes DEF TypeOK
  <1> QED BY <1>1 DEF TypeOK

LEMMA UnreportedType ==
    ASSUME NEW p, NEW m PROVE Unreported(p, m) \in Nat
  BY DEF Unreported

LEMMA EndType ==
    ASSUME TypeOK, NEW p \in Process, End(p)
    PROVE  /\ Tasks' /\ Stored'
           /\ compose'[p] = Closed /\ flush'[p] = Idle
           /\ \A q \in Process : q # p => compose'[q] = compose[q] /\ flush'[q] = flush[q]
           /\ \A m \in Message : doubt'[m] = doubt[m] + Unreported(p, m)
  <1>1. \A m \in Message : doubt[m] + Unreported(p, m) \in 0..MaxDoubt
    BY UnreportedType, ConstantTypes DEF End, TypeOK
  <1>2. doubt' \in [Message -> 0..MaxDoubt]
    BY <1>1 DEF End
  <1>3. /\ up' \in [Process -> BOOLEAN]
        /\ \A q \in Process : q # p => up'[q] = up[q]
    BY DEF End, TypeOK
  <1>4. /\ compose'[p] = Closed /\ flush'[p] = Idle
        /\ \A q \in Process : q # p => compose'[q] = compose[q] /\ flush'[q] = flush[q]
        /\ flush' = [q \in Process |-> flush'[q]]
    BY DEF End, TypeOK
  <1>5. Closed \in Window BY ClosedOK DEF WindowOK
  <1>6. compose' \in [Process -> Window] BY <1>5 DEF End, TypeOK
  <1>7. \A q \in Process :
           /\ WindowOK(compose'[q]) /\ FlushOK(flush'[q])
           /\ ~up'[q] => compose'[q] = Closed /\ flush'[q] = Idle
    BY <1>3, <1>4, ClosedOK, IdleOK DEF TypeOK
  <1>8. Tasks' BY <1>3, <1>4, <1>6, <1>7 DEF Tasks
  <1>9. Stored' BY <1>2 DEF End, Stored, TypeOK
  <1> QED BY <1>4, <1>8, <1>9 DEF End

LEMMA SendDoneType ==
    ASSUME TypeOK, NEW p \in Process, SendDone(p)
    PROVE  /\ Tasks' /\ Stored' /\ Draft(p) \in Message /\ compose[p].msg = {Draft(p)}
           /\ \A q \in Process : q # p => compose'[q] = compose[q]
           /\ compose'[p].res = "none" /\ compose'[p].pc \in {"edit", "closed"}
           /\ compose[p].res = "failed" => UNCHANGED told /\ compose'[p].msg = compose[p].msg
           /\ compose[p].res # "failed" =>
                /\ compose'[p] = Closed /\ compose[p].res \in {"sent", "queued"}
                /\ told' = [told EXCEPT ![Draft(p)] = compose[p].res]
  <1>1. WindowOK(compose[p]) /\ compose[p] # Closed BY DEF SendDone, TypeOK, Closed
  <1>2. Draft(p) \in Message /\ compose[p].msg = {Draft(p)} BY <1>1, DraftOfWindow
  <1>3. up[p] BY <1>1 DEF TypeOK
  <1>4. compose[p].res \in {"sent", "queued", "failed"}
    BY <1>1 DEF SendDone, WindowOK, Window
  <1>5. CASE compose[p].res = "failed"
    <2> DEFINE w == [compose[p] EXCEPT !.pc = "edit", !.res = "none"]
    <2>1. w \in Window BY <1>1 DEF WindowOK, Window, ComposePC
    <2>2. WindowOK(w) BY <1>2, <2>1 DEF WindowOK, Window, Closed
    <2>3. w.res = "none" /\ w.pc = "edit" /\ w.msg = compose[p].msg
      BY <1>1 DEF WindowOK, Window
    <2>4. compose' = [compose EXCEPT ![p] = w] BY <1>5 DEF SendDone
    <2> HIDE DEF w
    <2>5. /\ Tasks' /\ compose'[p] = w
          /\ \A q \in Process : q # p => compose'[q] = compose[q]
      BY <1>3, <2>2, <2>4, WindowStep DEF SendDone
    <2>6. Stored' BY <1>5 DEF SendDone, Stored, TypeOK, server
    <2> QED BY <1>2, <1>5, <2>3, <2>5, <2>6 DEF SendDone
  <1>6. CASE compose[p].res # "failed"
    <2>1. compose' = [compose EXCEPT ![p] = Closed] BY <1>6 DEF SendDone
    <2>2. /\ Tasks' /\ compose'[p] = Closed
          /\ \A q \in Process : q # p => compose'[q] = compose[q]
      BY <2>1, ClosedOK, WindowStep DEF SendDone
    <2>3. told' \in [Message -> {"nothing", "sent", "queued"}]
      BY <1>2, <1>4, <1>6 DEF SendDone, TypeOK
    <2>4. Stored' BY <2>3 DEF SendDone, Stored, TypeOK, server
    <2> QED BY <1>2, <1>4, <1>6, <2>2, <2>4 DEF SendDone, Closed
  <1> QED BY <1>5, <1>6

LEMMA InsertRowType ==
    ASSUME Typed, NEW p \in Process, InsertRow(p)
    PROVE  /\ Tasks' /\ Stored' /\ Bounded(DOMAIN outbox)'
           /\ compose'[p].msg = compose[p].msg
           /\ compose'[p].pc = "done" /\ compose'[p].res = "queued"
           /\ \A q \in Process : q # p => compose'[q] = compose[q]
           /\ DOMAIN outbox' = DOMAIN outbox \cup {NextId(outbox)}
           /\ NextId(outbox) \notin DOMAIN outbox
           /\ outbox'[NextId(outbox)] = Draft(p)
           /\ \A i \in DOMAIN outbox : outbox'[i] = outbox[i]
  <1>1. compose[p].pc = "row" BY DEF InsertRow
  <1>2. /\ Tasks' /\ compose'[p] = [compose[p] EXCEPT !.pc = "done", !.res = "queued"]
        /\ \A q \in Process : q # p => compose'[q] = compose[q]
    BY <1>1, SendReturnStep DEF InsertRow, Typed
  <1>3. compose'[p].msg = compose[p].msg /\ compose'[p].pc = "done" /\ compose'[p].res = "queued"
    BY <1>2 DEF Typed, TypeOK, WindowOK, Window
  <1>4. TableOK(outbox) /\ Bounded(DOMAIN outbox) BY DEF Typed, TypeOK
  <1> DEFINE id == NextId(outbox)
  <1>5. id \in Nat /\ id \notin DOMAIN outbox /\ Bounded(DOMAIN outbox \cup {id})
    BY <1>4, NextIdIsNew
  <1>6. outbox' = [i \in DOMAIN outbox \cup {id} |-> IF i = id THEN Draft(p) ELSE outbox[i]]
    BY DEF InsertRow
  <1> HIDE DEF id
  <1>7. /\ DOMAIN outbox' = DOMAIN outbox \cup {id} /\ outbox'[id] = Draft(p)
        /\ \A i \in DOMAIN outbox : outbox'[i] = outbox[i]
    BY <1>5, <1>6
  <1>8. Draft(p) \in Message BY <1>1, OpenWindow DEF Typed
  <1>9. TableOK(outbox') BY <1>4, <1>5, <1>7, <1>8 DEF TableOK
  <1>10. Stored' BY <1>9 DEF InsertRow, Stored, Typed, TypeOK, server
  <1> QED BY <1>2, <1>3, <1>5, <1>7, <1>10 DEF id

LEMMA DeleteRowType ==
    ASSUME Typed, NEW p \in Process, DeleteRow(p)
    PROVE  /\ Tasks' /\ Stored' /\ Bounded(DOMAIN outbox)'
           /\ DOMAIN outbox' = DOMAIN outbox \ {Item(p)}
           /\ \A i \in DOMAIN outbox' : outbox'[i] = outbox[i]
           /\ Mail(p) \in Message /\ Item(p) \in DOMAIN flush[p].left
           /\ flush'[p].pc \in {"idle", "read"}
           /\ DOMAIN flush'[p].left \subseteq DOMAIN flush[p].left \ {Item(p)}
           /\ \A i \in DOMAIN flush'[p].left : flush'[p].left[i] = flush[p].left[i]
           /\ \A q \in Process : q # p => flush'[q] = flush[q]
  <1>1. flush[p].pc \in {"drop", "delete"} BY DEF DeleteRow
  <1>2. /\ Tasks' /\ flush'[p].pc \in {"idle", "read"}
        /\ DOMAIN flush'[p].left \subseteq DOMAIN flush[p].left \ {Item(p)}
        /\ \A i \in DOMAIN flush'[p].left : flush'[p].left[i] = flush[p].left[i]
        /\ \A q \in Process : q # p => flush'[q] = flush[q]
    BY <1>1, NextItemStep DEF DeleteRow, Typed
  <1>3. Mail(p) \in Message /\ Item(p) \in DOMAIN flush[p].left
    BY <1>1, Working DEF Typed
  <1>4. /\ DOMAIN outbox' = DOMAIN outbox \ {Item(p)}
        /\ \A i \in DOMAIN outbox' : outbox'[i] = outbox[i]
    BY DEF DeleteRow
  <1>5. TableOK(outbox') /\ Bounded(DOMAIN outbox')
    BY <1>4 DEF Typed, TypeOK, TableOK, Bounded
  <1>6. given' \subseteq Message BY <1>3 DEF DeleteRow, Typed, TypeOK
  <1>7. Stored' BY <1>5, <1>6 DEF DeleteRow, Stored, Typed, TypeOK, server
  <1> QED BY <1>2, <1>3, <1>4, <1>5, <1>7

LEMMA ComposeType ==
    ASSUME Typed, NEW p \in Process, Compose(p) PROVE Typed'
  <1>1. CASE \E m \in Message : StartCompose(p, m)
    <2>1. PICK m \in Message : StartCompose(p, m) BY <1>1
    <2> DEFINE w == [Closed EXCEPT !.pc = "edit", !.msg = {m}]
    <2>2. WindowOK(w) BY DEF WindowOK, Window, Closed, ComposePC
    <2>3. compose' = [compose EXCEPT ![p] = w] BY <2>1 DEF StartCompose
    <2> HIDE DEF w
    <2>4. Tasks' BY <2>1, <2>2, <2>3, WindowStep DEF StartCompose, Typed
    <2> QED BY <2>1, <2>4, TypePartsNext
            DEF StartCompose, Typed, TypeOK, Stored, server
  <1>2. CASE Discard(p)
    <2>1. Tasks' BY <1>2, ClosedOK, WindowStep DEF Discard, Typed
    <2> QED BY <1>2, <2>1, TypePartsNext DEF Discard, Typed, TypeOK, Stored, server
  <1>3. CASE Send(p) \/ SmtpFails(p)
    <2>1. Tasks' BY <1>3, SendGotoStep DEF Send, SmtpFails, Typed, ComposePC
    <2> QED BY <1>3, <2>1, TypePartsNext
            DEF Send, SmtpFails, Typed, TypeOK, Stored, server
  <1>4. CASE Rejected(p) \/ AppendToSent(p) \/ WriteFails(p) \/ InsertFails(p)
    <2>1. Tasks'
      BY <1>4, SendReturnStep DEF Rejected, AppendToSent, WriteFails, InsertFails, Typed
    <2> QED BY <1>4, <2>1, TypePartsNext
            DEF Rejected, AppendToSent, WriteFails, InsertFails, Typed, TypeOK, Stored, server
  <1>5. CASE SmtpOk(p)
    <2>1. Tasks' BY <1>5, SendGotoStep DEF SmtpOk, Typed, ComposePC
    <2>2. Draft(p) \in Message BY <1>5, OpenWindow DEF SmtpOk, Typed
    <2>3. copies' \in [Message -> 0..MaxCopies]
      BY <1>5, <2>2, AcceptedType DEF SmtpOk, Typed
    <2> QED BY <1>5, <2>1, <2>3, TypePartsNext DEF SmtpOk, Typed, TypeOK, Stored
  <1>6. CASE SmtpReplyLost(p)
    <2>1. Tasks' BY <1>6, SendGotoStep DEF SmtpReplyLost, Typed, ComposePC
    <2>2. Draft(p) \in Message BY <1>6, OpenWindow DEF SmtpReplyLost, Typed
    <2>3. copies' \in [Message -> 0..MaxCopies] /\ doubt' \in [Message -> 0..MaxDoubt]
      BY <1>6, <2>2, AcceptedType, DoubtType DEF SmtpReplyLost, ReplyLost, Typed
    <2> QED BY <1>6, <2>1, <2>3, TypePartsNext DEF SmtpReplyLost, Typed, TypeOK, Stored
  <1>7. CASE WriteFile(p)
    <2>1. Tasks' BY <1>7, SendGotoStep DEF WriteFile, Typed, ComposePC
    <2>2. compose[p].msg \subseteq Message BY <1>7, OpenWindow DEF WriteFile, Typed
    <2> QED BY <1>7, <2>1, <2>2, TypePartsNext
            DEF WriteFile, Typed, TypeOK, Stored, server
  <1>8. CASE InsertRow(p)
    BY <1>8, InsertRowType, TypePartsNext DEF Typed
  <1>9. CASE SendDone(p)
    BY <1>9, SendDoneType, TypePartsNext DEF SendDone, Typed
  <1> QED BY <1>1, <1>2, <1>3, <1>4, <1>5, <1>6, <1>7, <1>8, <1>9 DEF Compose

LEMMA FlushType ==
    ASSUME Typed, NEW p \in Process, Flush(p) PROVE Typed'
  <1>1. CASE List(p)
    <2>1. flush[p] # Idle /\ up[p] BY <1>1 DEF List, Idle, Typed, TypeOK
    <2>2. Tasks' BY <1>1, <2>1, ContinueStep DEF List, Typed, TypeOK
    <2> QED BY <1>1, <2>2, TypePartsNext DEF List, Typed, TypeOK, Stored, server
  <1>2. CASE Read(p) \/ Unreadable(p) \/ FlushSmtpFails(p) \/ FlushAppendToSent(p)
    <2>1. Tasks'
      BY <1>2, FlushGotoStep
      DEF Read, Unreadable, FlushSmtpFails, FlushAppendToSent, Typed, FlushPC
    <2> QED BY <1>2, <2>1, TypePartsNext
            DEF Read, Unreadable, FlushSmtpFails, FlushAppendToSent, Typed, TypeOK,
                Stored, server
  <1>3. CASE FlushSmtpOk(p)
    <2>1. Tasks' BY <1>3, FlushGotoStep DEF FlushSmtpOk, Typed, FlushPC
    <2>2. copies' \in [Message -> 0..MaxCopies]
      BY <1>3, Working, AcceptedType DEF FlushSmtpOk, Typed
    <2> QED BY <1>3, <2>1, <2>2, TypePartsNext DEF FlushSmtpOk, Typed, TypeOK, Stored
  <1>4. CASE FlushReplyLost(p)
    <2>1. Tasks' BY <1>4, FlushGotoStep DEF FlushReplyLost, Typed, FlushPC
    <2>2. Mail(p) \in Message BY <1>4, Working DEF FlushReplyLost, Typed
    <2>3. copies' \in [Message -> 0..MaxCopies] /\ doubt' \in [Message -> 0..MaxDoubt]
      BY <1>4, <2>2, AcceptedType, DoubtType DEF FlushReplyLost, ReplyLost, Typed
    <2> QED BY <1>4, <2>1, <2>3, TypePartsNext DEF FlushReplyLost, Typed, TypeOK, Stored
  <1>5. CASE DeleteRow(p)
    BY <1>5, DeleteRowType, TypePartsNext DEF Typed
  <1>6. CASE RecordFailure(p)
    <2>1. Tasks' BY <1>6, NextItemStep DEF RecordFailure, Typed
    <2> QED BY <1>6, <2>1, TypePartsNext DEF RecordFailure, Typed, TypeOK, Stored, server
  <1>7. CASE FlushDbFails(p)
    <2>1. flush[p] # Idle /\ up[p] BY <1>7 DEF FlushDbFails, Idle, Typed, TypeOK
    <2>2. up' = [up EXCEPT ![p] = up'[p]] /\ up'[p] /\ up'[p] \in BOOLEAN
      BY <1>7, <2>1 DEF FlushDbFails, Typed, TypeOK
    <2>3. Tasks' BY <1>7, <2>2, IdleOK, FlushStepOK DEF FlushDbFails, Typed
    <2>4. doubt' \in [Message -> 0..MaxDoubt]
      <3>1. CASE flush[p].pc = "delete"
        BY <1>7, <3>1, Working, DoubtType DEF FlushDbFails, Typed
      <3>2. CASE flush[p].pc # "delete"
        BY <1>7, <3>2 DEF FlushDbFails, Typed, TypeOK
      <3> QED BY <3>1, <3>2
    <2> QED BY <1>7, <2>3, <2>4, TypePartsNext DEF FlushDbFails, Typed, TypeOK, Stored
  <1> QED BY <1>1, <1>2, <1>3, <1>4, <1>5, <1>6, <1>7 DEF Flush

LEMMA TypeNext ==
    ASSUME Typed, [Next]_vars PROVE Typed'
  <1>1. CASE UNCHANGED vars
    BY <1>1 DEF vars, server, Typed, TypeOK
  <1>2. ASSUME NEW p \in Process, Launch(p) PROVE Typed'
    <2> DEFINE f == [flush[p] EXCEPT !.pc = "list"]
    <2>1. flush[p] = Idle BY <1>2 DEF Launch, Typed, TypeOK
    <2>2. FlushOK(f) BY <2>1 DEF FlushOK, TableOK, Idle, NoItems, FlushPC
    <2>3. flush' = [flush EXCEPT ![p] = f] BY <1>2 DEF Launch, FlushGoto
    <2>4. up'[p] /\ up'[p] \in BOOLEAN /\ up' = [up EXCEPT ![p] = up'[p]]
      BY <1>2 DEF Launch, Typed, TypeOK
    <2> HIDE DEF f
    <2>5. Tasks' BY <1>2, <2>2, <2>3, <2>4, FlushStepOK DEF Launch, Typed
    <2> QED BY <1>2, <2>5, TypePartsNext DEF Launch, Typed, TypeOK, Stored, server
  <1>3. ASSUME NEW p \in Process, End(p) PROVE Typed'
    BY <1>3, EndType, TypePartsNext DEF End, Typed
  <1> QED BY <1>1, <1>2, <1>3, ComposeType, FlushType DEF Next, Quit, Crash

LEMMA TypeInit ==
    ASSUME Init PROVE Typed
  <1>1. \A p \in Process : WindowOK(compose[p]) /\ FlushOK(flush[p])
    BY ClosedOK, IdleOK DEF Init
  <1>2. compose \in [Process -> Window]
    BY ClosedOK DEF Init, WindowOK
  <1>3. Tasks BY <1>1, <1>2 DEF Init, Tasks
  <1>4. TableOK(outbox) /\ Bounded(DOMAIN outbox)
    BY DEF Init, NoItems, TableOK, Bounded
  <1>5. Stored BY <1>4, ConstantTypes DEF Init, Stored
  <1> QED BY <1>3, <1>4, <1>5, TypeParts DEF Typed

THEOREM SpecTyped == Spec => []Typed
  BY TypeInit, TypeNext, PTL DEF Spec

\* Every variable keeps its type, however many sessions run at a time.
THEOREM SpecTypeOK == Spec => []TypeOK
  BY SpecTyped, PTL DEF Typed

----------------------------------------------------------------------------
(* One session at a time.  With two, a flush may delete by an id that has  *)
(* been given to another message since it listed its rows.                 *)

SingleSession == \A p, q \in Process : p = q

\* Sent, or safe, or given up on: what a user who was told "queued" may rely on.
Placed(m) == copies[m] > 0 \/ Queued(m) \/ m \in given

\* The flush has delivered its item, whose row is still there.
Delivered(p) == flush[p].pc \in {"append", "delete"}

\* What the send of p is about to tell is so; the rows its flush has listed
\* and not done with are in the table as they were.
SendTrue(p) ==
    \A m \in Message : compose[p].msg = {m} =>
        /\ told[m] = "nothing"
        /\ compose[p].pc = "append" \/ compose[p].res = "sent" => copies[m] > 0
        /\ compose[p].res = "queued" => Placed(m)
FlushTrue(p) ==
    /\ \A i \in DOMAIN flush[p].left : i \in DOMAIN outbox /\ outbox[i] = flush[p].left[i]
    /\ Delivered(p) => copies[Mail(p)] > 0
ToldTrue ==
    \A m \in Message : /\ told[m] = "sent" => copies[m] > 0
                       /\ told[m] = "queued" => Placed(m)
Truth == ToldTrue /\ \A p \in Process : SendTrue(p) /\ FlushTrue(p)

\* What a step may do to what Placed speaks of.
LEMMA StepKinds ==
    ASSUME Typed, Next
    PROVE  \/ UNCHANGED <<copies, outbox, given>>
           \/ \E m \in Message : Accepted(m) /\ UNCHANGED <<outbox, given>>
           \/ \E p \in Process : InsertRow(p) \/ DeleteRow(p)
  <1>1. PICK p \in Process : Launch(p) \/ End(p) \/ Compose(p) \/ Flush(p)
    BY DEF Next, Quit, Crash
  <1>2. CASE Launch(p) BY <1>2 DEF Launch, server
  <1>3. CASE End(p) BY <1>3 DEF End
  <1>4. CASE SmtpOk(p) \/ SmtpReplyLost(p)
    <2>1. Draft(p) \in Message
      BY <1>4, OpenWindow DEF SmtpOk, SmtpReplyLost, Typed
    <2> QED BY <1>4, <2>1 DEF SmtpOk, SmtpReplyLost, ReplyLost
  <1>5. CASE FlushSmtpOk(p) \/ FlushReplyLost(p)
    <2>1. Mail(p) \in Message
      BY <1>5, Working DEF FlushSmtpOk, FlushReplyLost, Typed
    <2> QED BY <1>5, <2>1 DEF FlushSmtpOk, FlushReplyLost, ReplyLost
  <1>6. CASE \/ \E m \in Message : StartCompose(p, m)
             \/ Discard(p) \/ Send(p) \/ Rejected(p) \/ SmtpFails(p)
             \/ AppendToSent(p) \/ WriteFile(p) \/ WriteFails(p) \/ InsertFails(p)
             \/ SendDone(p)
    BY <1>6 DEF StartCompose, Discard, Send, Rejected, SmtpFails, AppendToSent,
                WriteFile, WriteFails, InsertFails, SendDone, server
  <1>7. CASE \/ List(p) \/ Read(p) \/ Unreadable(p) \/ FlushSmtpFails(p)
             \/ FlushAppendToSent(p) \/ RecordFailure(p) \/ FlushDbFails(p)
    BY <1>7 DEF List, Read, Unreadable, FlushSmtpFails, FlushAppendToSent,
                RecordFailure, FlushDbFails, server
  <1> QED BY <1>1, <1>2, <1>3, <1>4, <1>5, <1>6, <1>7 DEF Compose, Flush

\* A row only goes when its message has been delivered, or is given up on.
LEMMA PlacedKept ==
    ASSUME Typed, Truth, Next, NEW m \in Message
    PROVE  /\ copies[m] > 0 => copies'[m] > 0
           /\ Placed(m) => Placed(m)'
  <1>1. CASE UNCHANGED <<copies, outbox, given>>
    BY <1>1 DEF Placed, Queued
  <1>2. CASE \E n \in Message : Accepted(n) /\ UNCHANGED <<outbox, given>>
    <2>1. PICK n \in Message : Accepted(n) /\ UNCHANGED <<outbox, given>> BY <1>2
    <2>2. copies[m] \in Nat /\ copies[n] \in Nat BY ConstantTypes DEF Typed, TypeOK
    <2>3. copies'[m] >= copies[m] BY <2>1, <2>2, AcceptedType DEF Typed
    <2>4. copies[m] > 0 => copies'[m] > 0
      BY <2>1, <2>2, <2>3, AcceptedType DEF Typed
    <2> QED BY <2>1, <2>4 DEF Placed, Queued
  <1>3. ASSUME NEW p \in Process, InsertRow(p)
        PROVE  copies' = copies /\ (Placed(m) => Placed(m)')
    BY <1>3, InsertRowType DEF InsertRow, server, Placed, Queued
  <1>4. ASSUME NEW p \in Process, DeleteRow(p)
        PROVE  copies' = copies /\ (Placed(m) => Placed(m)')
    <2>1. copies' = copies /\ given \subseteq given' BY <1>4 DEF DeleteRow, server
    <2>2. /\ DOMAIN outbox' = DOMAIN outbox \ {Item(p)}
          /\ \A i \in DOMAIN outbox' : outbox'[i] = outbox[i]
          /\ Item(p) \in DOMAIN flush[p].left
      BY <1>4, DeleteRowType
    <2>3. SUFFICES ASSUME NEW i \in DOMAIN outbox, outbox[i] = m PROVE Placed(m)'
      BY <2>1 DEF Placed, Queued
    <2>4. CASE i # Item(p)
      BY <2>2, <2>3, <2>4 DEF Placed, Queued
    <2>5. CASE i = Item(p)
      <3>1. m = Mail(p)
        BY <2>2, <2>3, <2>5 DEF Truth, FlushTrue, Mail
      <3>2. CASE flush[p].pc = "drop"
        BY <1>4, <3>1, <3>2 DEF DeleteRow, Placed
      <3>3. CASE flush[p].pc = "delete"
        BY <2>1, <3>1, <3>3 DEF Truth, FlushTrue, Delivered, Placed
      <3> QED BY <1>4, <3>2, <3>3 DEF DeleteRow
    <2> QED BY <2>4, <2>5
  <1> QED BY <1>1, <1>2, <1>3, <1>4, StepKinds

LEMMA ToldKept ==
    ASSUME Typed, Truth, Next, UNCHANGED told PROVE ToldTrue'
  BY PlacedKept DEF Truth, ToldTrue

LEMMA SendKept ==
    ASSUME Typed, Truth, Next, UNCHANGED told,
           NEW p \in Process, compose'[p] = compose[p]
    PROVE  SendTrue(p)'
  BY PlacedKept DEF Truth, SendTrue

LEMMA FlushKept ==
    ASSUME Typed, Truth, Next, NEW p \in Process, UNCHANGED flush,
           \A i \in DOMAIN outbox : i \in DOMAIN outbox' /\ outbox'[i] = outbox[i]
    PROVE  FlushTrue(p)'
  <1>1. Delivered(p) => Mail(p) \in Message
    BY Working DEF Delivered, Typed
  <1> QED BY <1>1, PlacedKept DEF Truth, FlushTrue, Delivered, Mail, Item

LEMMA SendTruth ==
    ASSUME Typed, Truth, Next, NEW p \in Process, Compose(p)
    PROVE  SendTrue(p)' /\ ToldTrue'
  <1> USE DEF Typed
  <1>1. CASE \E m \in Message : StartCompose(p, m)
    <2>1. PICK m \in Message : StartCompose(p, m) BY <1>1
    <2>2. UNCHANGED told /\ told[m] = "nothing" BY <2>1 DEF StartCompose
    <2>3. compose'[p].msg = {m} /\ compose'[p].pc = "edit" /\ compose'[p].res = "none"
      BY <2>1 DEF StartCompose, Closed, TypeOK
    <2> QED BY <2>2, <2>3, ToldKept DEF SendTrue
  <1>2. CASE Discard(p)
    <2>1. UNCHANGED told /\ compose'[p].msg = {}
      BY <1>2 DEF Discard, Closed, TypeOK
    <2> QED BY <2>1, ToldKept DEF SendTrue
  <1>3. CASE Send(p) \/ SmtpFails(p) \/ SmtpReplyLost(p) \/ WriteFile(p)
    <2>1. UNCHANGED told /\ compose[p].pc \in {"edit", "smtp", "write"}
      BY <1>3 DEF Send, SmtpFails, SmtpReplyLost, WriteFile
    <2>2. \E pc \in {"smtp", "write", "row"} : SendGoto(p, pc)
      BY <1>3 DEF Send, SmtpFails, SmtpReplyLost, WriteFile
    <2>3. compose[p].res = "none" BY <2>1, OpenWindow
    <2>4. /\ compose'[p].msg = compose[p].msg /\ compose'[p].res = "none"
          /\ compose'[p].pc # "append"
      BY <2>2, <2>3 DEF SendGoto, TypeOK, WindowOK, Window
    <2> QED BY <2>1, <2>4, ToldKept DEF Truth, SendTrue
  <1>4. CASE Rejected(p) \/ WriteFails(p) \/ InsertFails(p)
    <2>1. UNCHANGED told /\ SendReturn(p, "failed")
      BY <1>4 DEF Rejected, WriteFails, InsertFails
    <2>2. /\ compose'[p].msg = compose[p].msg /\ compose'[p].res = "failed"
          /\ compose'[p].pc = "done"
      BY <2>1 DEF SendReturn, TypeOK, WindowOK, Window
    <2> QED BY <2>1, <2>2, ToldKept DEF Truth, SendTrue
  <1>5. CASE SmtpOk(p)
    <2>1. Draft(p) \in Message /\ compose[p].msg = {Draft(p)} /\ compose[p].res = "none"
      BY <1>5, OpenWindow DEF SmtpOk
    <2>2. /\ compose'[p].msg = compose[p].msg /\ compose'[p].res = "none"
      BY <1>5, <2>1 DEF SmtpOk, SendGoto, TypeOK, WindowOK, Window
    <2>3. copies'[Draft(p)] = copies[Draft(p)] + 1 /\ copies[Draft(p)] \in Nat
      BY <1>5, <2>1, AcceptedType, ConstantTypes DEF SmtpOk, TypeOK
    <2>4. copies'[Draft(p)] > 0 BY <2>3
    <2>5. UNCHANGED told BY <1>5 DEF SmtpOk
    <2> QED BY <2>1, <2>2, <2>4, <2>5, ToldKept DEF Truth, SendTrue
  <1>6. CASE AppendToSent(p)
    <2>1. UNCHANGED told /\ compose[p].pc = "append" /\ copies' = copies
      BY <1>6 DEF AppendToSent, server
    <2>2. compose'[p].msg = compose[p].msg /\ compose'[p].res = "sent"
      BY <1>6 DEF AppendToSent, SendReturn, TypeOK, WindowOK, Window
    <2> QED BY <2>1, <2>2, ToldKept DEF Truth, SendTrue
  <1>7. CASE InsertRow(p)
    <2>1. PICK m \in Message : m = Draft(p) /\ compose[p].msg = {m}
      BY <1>7, OpenWindow DEF InsertRow
    <2>2. /\ compose'[p].msg = compose[p].msg /\ compose'[p].res = "queued"
          /\ compose'[p].pc = "done"
          /\ NextId(outbox) \in DOMAIN outbox' /\ outbox'[NextId(outbox)] = m
      BY <1>7, <2>1, InsertRowType
    <2>3. Placed(m)' BY <2>2 DEF Placed, Queued
    <2>4. UNCHANGED told BY <1>7 DEF InsertRow
    <2> QED BY <2>1, <2>2, <2>3, <2>4, ToldKept DEF Truth, SendTrue
  <1>8. CASE SendDone(p)
    <2>1. /\ Draft(p) \in Message /\ compose[p].msg = {Draft(p)}
          /\ compose'[p].res = "none" /\ compose'[p].pc \in {"edit", "closed"}
          /\ compose[p].res = "failed" => UNCHANGED told /\ compose'[p].msg = compose[p].msg
          /\ compose[p].res # "failed" =>
                /\ compose'[p] = Closed /\ compose[p].res \in {"sent", "queued"}
                /\ told' = [told EXCEPT ![Draft(p)] = compose[p].res]
      BY <1>8, SendDoneType
    <2>2. CASE compose[p].res = "failed"
      BY <2>1, <2>2, ToldKept DEF Truth, SendTrue
    <2>3. CASE compose[p].res # "failed"
      <3>1. SendTrue(p)' BY <2>1, <2>3 DEF SendTrue, Closed
      <3>2. ASSUME NEW m \in Message
            PROVE  /\ told'[m] = "sent" => copies'[m] > 0
                   /\ told'[m] = "queued" => Placed(m)'
        <4>1. CASE m = Draft(p)
          <5>1. told'[m] = compose[p].res BY <2>1, <2>3, <4>1 DEF TypeOK
          <5> QED BY <2>1, <4>1, <5>1, PlacedKept DEF Truth, SendTrue
        <4>2. CASE m # Draft(p)
          <5>1. told'[m] = told[m] BY <2>1, <2>3, <4>2 DEF TypeOK
          <5> QED BY <5>1, PlacedKept DEF Truth, ToldTrue
        <4> QED BY <4>1, <4>2
      <3> QED BY <3>1, <3>2 DEF ToldTrue
    <2> QED BY <2>2, <2>3
  <1> QED BY <1>1, <1>2, <1>3, <1>4, <1>5, <1>6, <1>7, <1>8 DEF Compose

\* The rest of the table stays as it was while a row is added.
LEMMA TableGrows ==
    ASSUME Typed, NEW p \in Process, Compose(p)
    PROVE  \A i \in DOMAIN outbox : i \in DOMAIN outbox' /\ outbox'[i] = outbox[i]
  <1>1. CASE InsertRow(p) BY <1>1, InsertRowType
  <1>2. CASE ~InsertRow(p)
    BY <1>2 DEF Compose, StartCompose, Discard, Send, Rejected, SmtpOk, SmtpReplyLost,
                SmtpFails, AppendToSent, WriteFile, WriteFails, InsertFails, SendDone
  <1> QED BY <1>1, <1>2

LEMMA FlushTruth ==
    ASSUME Typed, Truth, Next, NEW p \in Process, Flush(p)
    PROVE  FlushTrue(p)'
  <1> USE DEF Typed
  <1>1. CASE List(p)
    <2>1. up[p] BY <1>1 DEF List, TypeOK, Idle
    <2>2. /\ flush'[p].pc \in {"idle", "read"}
          /\ flush'[p].left = outbox \/ DOMAIN flush'[p].left = {}
      BY <1>1, <2>1, ContinueStep DEF List, TypeOK
    <2> QED BY <1>1, <2>2 DEF List, FlushTrue, Delivered
  <1>2. CASE Read(p) \/ Unreadable(p) \/ FlushSmtpFails(p) \/ FlushReplyLost(p)
    <2>1. /\ flush[p].pc \in {"read", "smtp"} /\ UNCHANGED outbox
          /\ \E pc \in {"smtp", "drop", "failure"} : FlushGoto(p, pc)
      BY <1>2 DEF Read, Unreadable, FlushSmtpFails, FlushReplyLost
    <2>2. flush'[p].pc \in {"smtp", "drop", "failure"} /\ flush'[p].left = flush[p].left
      BY <2>1 DEF FlushGoto, TypeOK, FlushOK
    <2> QED BY <2>1, <2>2 DEF Truth, FlushTrue, Delivered
  <1>3. CASE FlushSmtpOk(p)
    <2>1. PICK m \in Message : m = Mail(p) BY <1>3, Working DEF FlushSmtpOk
    <2>2. copies'[m] = copies[m] + 1 /\ copies[m] \in Nat
      BY <1>3, <2>1, AcceptedType, ConstantTypes DEF FlushSmtpOk, TypeOK
    <2>3. flush'[p].left = flush[p].left
      BY <1>3 DEF FlushSmtpOk, FlushGoto, TypeOK, FlushOK
    <2>4. Mail(p)' = m BY <2>1, <2>3 DEF Mail, Item
    <2>5. copies'[m] > 0 BY <2>2
    <2> QED BY <1>3, <2>3, <2>4, <2>5 DEF FlushSmtpOk, Truth, FlushTrue
  <1>4. CASE FlushAppendToSent(p)
    <2>1. flush'[p].left = flush[p].left
      BY <1>4 DEF FlushAppendToSent, FlushGoto, TypeOK, FlushOK
    <2>2. Mail(p)' = Mail(p) BY <2>1 DEF Mail, Item
    <2> QED BY <1>4, <2>1, <2>2
            DEF FlushAppendToSent, Truth, FlushTrue, Delivered, server
  <1>5. CASE DeleteRow(p)
    BY <1>5, DeleteRowType DEF Truth, FlushTrue, Delivered
  <1>6. CASE RecordFailure(p)
    <2>1. /\ flush'[p].pc \in {"idle", "read"} /\ UNCHANGED outbox
          /\ DOMAIN flush'[p].left \subseteq DOMAIN flush[p].left
          /\ \A i \in DOMAIN flush'[p].left : flush'[p].left[i] = flush[p].left[i]
      BY <1>6, NextItemStep DEF RecordFailure
    <2> QED BY <2>1 DEF Truth, FlushTrue, Delivered
  <1>7. CASE FlushDbFails(p)
    <2>1. flush'[p].pc = "idle" /\ DOMAIN flush'[p].left = {}
      BY <1>7 DEF FlushDbFails, TypeOK, Idle, NoItems
    <2> QED BY <2>1 DEF FlushTrue, Delivered
  <1> QED BY <1>1, <1>2, <1>3, <1>4, <1>5, <1>6, <1>7 DEF Flush

LEMMA TruthNext ==
    ASSUME SingleSession, Typed, Truth, [Next]_vars PROVE Truth'
  <1>1. CASE UNCHANGED vars
    BY <1>1 DEF vars, server, Truth, ToldTrue, SendTrue, FlushTrue, Placed, Queued,
                Delivered, Mail, Item
  <1>2. ASSUME NEW p \in Process, Compose(p), Next PROVE Truth'
    <2>1. UNCHANGED flush
      BY <1>2 DEF Compose, StartCompose, Discard, Send, Rejected, SmtpOk, SmtpReplyLost,
                  SmtpFails, AppendToSent, WriteFile, WriteFails, InsertRow, InsertFails,
                  SendDone
    <2>2. FlushTrue(p)' BY <1>2, <2>1, TableGrows, FlushKept
    <2>3. SendTrue(p)' /\ ToldTrue' BY <1>2, SendTruth
    <2> QED BY <2>2, <2>3 DEF Truth, SingleSession
  <1>3. ASSUME NEW p \in Process, Flush(p), Next PROVE Truth'
    <2>1. UNCHANGED <<told, compose>>
      BY <1>3 DEF Flush, List, Read, Unreadable, FlushSmtpOk, FlushReplyLost,
                  FlushSmtpFails, FlushAppendToSent, DeleteRow, RecordFailure, FlushDbFails
    <2>2. SendTrue(p)' /\ ToldTrue' BY <1>3, <2>1, SendKept, ToldKept
    <2>3. FlushTrue(p)' BY <1>3, FlushTruth
    <2> QED BY <2>2, <2>3 DEF Truth, SingleSession
  <1>4. ASSUME NEW p \in Process, Launch(p), Next PROVE Truth'
    <2>1. UNCHANGED <<told, compose, outbox>> BY <1>4 DEF Launch
    <2>2. SendTrue(p)' /\ ToldTrue' BY <1>4, <2>1, SendKept, ToldKept
    <2>3. flush'[p].pc = "list" /\ flush'[p].left = flush[p].left
      BY <1>4 DEF Launch, FlushGoto, Typed, TypeOK, FlushOK
    <2>4. FlushTrue(p)' BY <2>1, <2>3 DEF Truth, FlushTrue, Delivered
    <2> QED BY <2>2, <2>4 DEF Truth, SingleSession
  <1>5. ASSUME NEW p \in Process, End(p), Next PROVE Truth'
    <2>1. compose'[p] = Closed /\ flush'[p] = Idle BY <1>5, EndType DEF Typed
    <2>2. SendTrue(p)' BY <2>1 DEF SendTrue, Closed
    <2>3. FlushTrue(p)' BY <2>1 DEF FlushTrue, Delivered, Idle, NoItems
    <2>4. ToldTrue' BY <1>5, ToldKept DEF End
    <2> QED BY <2>2, <2>3, <2>4 DEF Truth, SingleSession
  <1> QED BY <1>1, <1>2, <1>3, <1>4, <1>5 DEF Next, Quit, Crash

LEMMA TruthInit == ASSUME Init PROVE Truth
  BY DEF Init, Closed, Idle, NoItems, Truth, ToldTrue, SendTrue, FlushTrue, Delivered

THEOREM SpecTruth == ASSUME SingleSession PROVE Spec => [](Typed /\ Truth)
  <1>1. Init => Typed /\ Truth BY TypeInit, TruthInit
  <1>2. Typed /\ Truth /\ [Next]_vars => (Typed /\ Truth)'
    BY TypeNext, TruthNext
  <1> QED BY <1>1, <1>2, PTL DEF Spec

\* While one session runs at a time: what the user was told is queued is in
\* the outbox until it is delivered or its file turns out not to be readable
\* (send.rs:1-3).
THEOREM SpecKeptUntilDelivered ==
    ASSUME SingleSession PROVE Spec => []KeptUntilDelivered
  <1>1. Truth => KeptUntilDelivered
    BY DEF Truth, ToldTrue, Placed, KeptUntilDelivered
  <1> QED BY <1>1, SpecTruth, PTL

----------------------------------------------------------------------------
(* Sending implements the postbox.  A session at a time: each step is one  *)
(* of the postbox's, or nothing to it.                                     *)

Place(m) == IF copies[m] > 0 THEN "delivered"
            ELSE IF Queued(m) THEN "kept"
            ELSE IF m \in given THEN "given" ELSE "draft"

LEMMA PlaceOfMessage == PlaceOf = [m \in Message |-> Place(m)]
  BY DEF PlaceOf, Place
LEMMA PlaceOfMessageNext == PlaceOf' = [m \in Message |-> Place(m)']
  BY DEF PlaceOf, Place

\* A message that goes to another place, alone.
LEMMA PlaceMoves ==
    ASSUME NEW m \in Message, \A n \in Message : n # m => Place(n)' = Place(n)
    PROVE  PlaceOf' = [PlaceOf EXCEPT ![m] = Place(m)']
  BY PlaceOfMessage, PlaceOfMessageNext

LEMMA PlacesStay ==
    ASSUME UNCHANGED <<copies, outbox, given>> PROVE PlaceOf' = PlaceOf
  BY PlaceOfMessage, PlaceOfMessageNext DEF Place, Queued

LEMMA AcceptedStep ==
    ASSUME Typed, NEW m \in Message, Accepted(m), UNCHANGED <<outbox, given, told>>
    PROVE  Promised!Next \/ UNCHANGED <<PlaceOf, told>>
  <1>1. copies[m] \in Nat BY ConstantTypes DEF Typed, TypeOK
  <1>2. copies'[m] > 0 /\ \A n \in Message : n # m => copies'[n] = copies[n]
    BY <1>1, AcceptedType DEF Typed
  <1>3. Place(m)' = "delivered" BY <1>2 DEF Place
  <1>4. \A n \in Message : n # m => Place(n)' = Place(n)
    BY <1>2 DEF Place, Queued
  <1>5. PlaceOf' = [PlaceOf EXCEPT ![m] = "delivered"]
    BY <1>3, <1>4, PlaceMoves
  <1>6. CASE Place(m) = "delivered"
    <2>1. PlaceOf' = PlaceOf BY <1>5, <1>6, PlaceOfMessage
    <2> QED BY <2>1
  <1>7. CASE Place(m) # "delivered"
    <2>1. PlaceOf[m] # "delivered" BY <1>7, PlaceOfMessage
    <2>2. Promised!Deliver(m) BY <1>5, <2>1 DEF Promised!Deliver, Accepted
    <2> QED BY <2>2 DEF Promised!Next
  <1> QED BY <1>6, <1>7

LEMMA InsertStep ==
    ASSUME Typed, NEW p \in Process, InsertRow(p)
    PROVE  Promised!Next \/ UNCHANGED <<PlaceOf, told>>
  <1>1. PICK m \in Message : m = Draft(p) BY OpenWindow DEF InsertRow, Typed
  <1>2. /\ DOMAIN outbox' = DOMAIN outbox \cup {NextId(outbox)}
        /\ NextId(outbox) \notin DOMAIN outbox
        /\ outbox'[NextId(outbox)] = m
        /\ \A i \in DOMAIN outbox : outbox'[i] = outbox[i]
    BY <1>1, InsertRowType
  <1>3. UNCHANGED <<copies, given, told>> BY DEF InsertRow, server
  <1>4. Queued(m)' BY <1>2 DEF Queued
  <1>5. \A n \in Message : n # m => (Queued(n)' <=> Queued(n)) BY <1>2 DEF Queued
  <1>6. \A n \in Message : n # m => Place(n)' = Place(n) BY <1>3, <1>5 DEF Place
  <1>7. PlaceOf' = [PlaceOf EXCEPT ![m] = Place(m)'] BY <1>6, PlaceMoves
  <1>8. Place(m)' = IF copies[m] > 0 THEN "delivered" ELSE "kept"
    BY <1>3, <1>4 DEF Place
  <1>9. PlaceOf[m] = Place(m) BY PlaceOfMessage
  <1>10. CASE Place(m) \in {"delivered", "kept"}
    <2>1. Place(m)' = Place(m) BY <1>8, <1>10 DEF Place
    <2>2. PlaceOf' = PlaceOf BY <1>7, <2>1, PlaceOfMessage
    <2> QED BY <1>3, <2>2
  <1>11. CASE Place(m) \in {"draft", "given"}
    <2>1. Place(m)' = "kept" BY <1>8, <1>11 DEF Place
    <2>2. Promised!Keep(m) BY <1>3, <1>7, <1>9, <1>11, <2>1 DEF Promised!Keep
    <2> QED BY <2>2 DEF Promised!Next
  <1> QED BY <1>10, <1>11 DEF Place

LEMMA DeleteStep ==
    ASSUME Typed, Truth, NEW p \in Process, DeleteRow(p)
    PROVE  Promised!Next \/ UNCHANGED <<PlaceOf, told>>
  <1>1. PICK m \in Message : m = Mail(p) BY DeleteRowType
  <1>2. /\ DOMAIN outbox' = DOMAIN outbox \ {Item(p)}
        /\ \A i \in DOMAIN outbox' : outbox'[i] = outbox[i]
        /\ Item(p) \in DOMAIN flush[p].left
    BY DeleteRowType
  <1>3. Item(p) \in DOMAIN outbox /\ outbox[Item(p)] = m
    BY <1>1, <1>2 DEF Truth, FlushTrue, Mail
  <1>4. UNCHANGED <<copies, told>> /\ flush[p].pc \in {"drop", "delete"}
    BY DEF DeleteRow, server
  <1>5. given' = given \/ (flush[p].pc = "drop" /\ given' = given \cup {m})
    BY <1>1 DEF DeleteRow
  <1>6. \A n \in Message : n # m => (Queued(n)' <=> Queued(n))
    BY <1>2, <1>3 DEF Queued
  <1>7. \A n \in Message : n # m => Place(n)' = Place(n)
    BY <1>4, <1>5, <1>6 DEF Place
  <1>8. PlaceOf' = [PlaceOf EXCEPT ![m] = Place(m)'] BY <1>7, PlaceMoves
  <1>9. PlaceOf[m] = Place(m) BY PlaceOfMessage
  <1>10. CASE copies[m] > 0
    <2>1. Place(m)' = Place(m) BY <1>4, <1>10 DEF Place
    <2>2. PlaceOf' = PlaceOf BY <1>8, <2>1, PlaceOfMessage
    <2> QED BY <1>4, <2>2
  <1>11. CASE ~(copies[m] > 0)
    <2>1. flush[p].pc = "drop"
      BY <1>1, <1>4, <1>11 DEF Truth, FlushTrue, Delivered
    <2>2. m \in given' BY <1>1, <2>1 DEF DeleteRow
    <2>3. Place(m) = "kept" BY <1>3, <1>11 DEF Place, Queued
    <2>4. CASE Queued(m)'
      <3>1. Place(m)' = Place(m) BY <1>4, <1>11, <2>3, <2>4 DEF Place
      <3>2. PlaceOf' = PlaceOf BY <1>8, <3>1, PlaceOfMessage
      <3> QED BY <1>4, <3>2
    <2>5. CASE ~Queued(m)'
      <3>1. Place(m)' = "given" BY <1>4, <1>11, <2>2, <2>5 DEF Place
      <3>2. Promised!GiveUp(m) BY <1>4, <1>8, <1>9, <2>3, <3>1 DEF Promised!GiveUp
      <3> QED BY <3>2 DEF Promised!Next
    <2> QED BY <2>4, <2>5
  <1> QED BY <1>10, <1>11

LEMMA TellStep ==
    ASSUME Typed, Truth, NEW p \in Process, SendDone(p)
    PROVE  Promised!Next \/ UNCHANGED <<PlaceOf, told>>
  <1>1. PlaceOf' = PlaceOf
    BY PlacesStay DEF SendDone, server
  <1>2. PICK m \in Message :
          /\ m = Draft(p) /\ compose[p].msg = {m}
          /\ compose[p].res = "failed" => UNCHANGED told
          /\ compose[p].res # "failed" =>
                /\ compose[p].res \in {"sent", "queued"}
                /\ told' = [told EXCEPT ![m] = compose[p].res]
    BY SendDoneType DEF Typed
  <1>3. told[m] = "nothing" BY <1>2 DEF Truth, SendTrue
  <1>4. PlaceOf[m] = Place(m) BY PlaceOfMessage
  <1>5. CASE compose[p].res = "failed" BY <1>1, <1>2, <1>5
  <1>6. CASE compose[p].res = "sent"
    <2>1. Place(m) = "delivered" BY <1>2, <1>6 DEF Truth, SendTrue, Place
    <2>2. Promised!TellSent(m)
      BY <1>1, <1>2, <1>3, <1>4, <1>6, <2>1 DEF Promised!TellSent
    <2> QED BY <2>2 DEF Promised!Next
  <1>7. CASE compose[p].res = "queued"
    <2>1. Place(m) # "draft" BY <1>2, <1>7 DEF Truth, SendTrue, Placed, Place
    <2>2. Promised!TellQueued(m)
      BY <1>1, <1>2, <1>3, <1>4, <1>7, <2>1 DEF Promised!TellQueued
    <2> QED BY <2>2 DEF Promised!Next
  <1> QED BY <1>2, <1>5, <1>6, <1>7

LEMMA OutboxStep ==
    ASSUME Typed, Truth, [Next]_vars
    PROVE  Promised!Next \/ UNCHANGED <<PlaceOf, told>>
  <1>1. CASE UNCHANGED vars
    <2>1. PlaceOf' = PlaceOf BY <1>1, PlacesStay DEF vars, server
    <2> QED BY <1>1, <2>1 DEF vars
  <1>2. ASSUME NEW p \in Process, SendDone(p)
        PROVE  Promised!Next \/ UNCHANGED <<PlaceOf, told>>
    BY <1>2, TellStep
  <1>3. CASE Next /\ \A p \in Process : ~SendDone(p)
    <2>1. UNCHANGED told
      BY <1>3 DEF Next, Launch, Quit, Crash, End, Compose, StartCompose, Discard, Send,
             Rejected, SmtpOk, SmtpReplyLost, SmtpFails, AppendToSent, WriteFile,
             WriteFails, InsertRow, InsertFails, Flush, List, Read, Unreadable,
             FlushSmtpOk, FlushReplyLost, FlushSmtpFails, FlushAppendToSent, DeleteRow,
             RecordFailure, FlushDbFails
    <2>2. CASE UNCHANGED <<copies, outbox, given>>
      BY <2>1, <2>2, PlacesStay
    <2> QED BY <1>3, <2>1, <2>2, StepKinds, AcceptedStep, InsertStep, DeleteStep
  <1> QED BY <1>1, <1>2, <1>3

\* While one session runs at a time, sending does what the postbox promises:
\* a message leaves the outbox by being delivered or given up on only, and
\* the user is told what is so (send.rs:18-97, main.rs:378-391).
THEOREM SpecImplementsPostbox ==
    ASSUME SingleSession PROVE Spec => ImplementsPostbox
  <1>1. Init => Promised!Init
    <2>1. SUFFICES ASSUME Init PROVE Promised!Init OBVIOUS
    <2>2. \A m \in Message : Place(m) = "draft"
      BY <2>1 DEF Init, NoItems, Place, Queued
    <2> QED BY <2>1, <2>2, PlaceOfMessage DEF Init, Promised!Init
  <1>2. Typed /\ Truth /\ [Next]_vars => [Promised!Next]_<<PlaceOf, told>>
    BY OutboxStep
  <1> QED BY <1>1, <1>2, SpecTruth, PTL DEF Spec, ImplementsPostbox, Promised!Spec

----------------------------------------------------------------------------
(* No needless copy.  Each message has one delivery to its name, and one   *)
(* more for each doubt: what was delivered, what a row still stands for,   *)
(* and a draft that may still be sent, together never come to more.        *)

\* The rows that are still to be delivered.
Waiting(m) == {i \in DOMAIN outbox :
                 outbox[i] = m /\ \A p \in Process : Delivered(p) => i # Item(p)}

\* The send has delivered or queued m, and not yet told.
Settled(p, m) ==
    compose[p].msg = {m} /\ (compose[p].pc = "append" \/ compose[p].res \in {"sent", "queued"})

\* The message may be sent from a compose window.
Unsent(m) == told[m] = "nothing" /\ \A p \in Process : ~Settled(p, m)
Drafts(m) == IF Unsent(m) THEN 1 ELSE 0

Counted(m) == copies[m] + Cardinality(Waiting(m)) + Drafts(m) <= 1 + doubt[m]
Balance == \A m \in Message : Counted(m)

LEMMA SetLess ==
    ASSUME NEW S, IsFiniteSet(S), NEW T, T \subseteq S
    PROVE  Cardinality(T) \in Nat /\ Cardinality(T) <= Cardinality(S)
  BY FS_Subset, FS_CardinalityType

LEMMA SetMore ==
    ASSUME NEW S, IsFiniteSet(S), NEW T, NEW x, T \subseteq S \cup {x}
    PROVE  Cardinality(T) \in Nat /\ Cardinality(T) <= Cardinality(S) + 1
  <1>1. IsFiniteSet(S \cup {x}) /\ Cardinality(S \cup {x}) <= Cardinality(S) + 1
    <2>1. Cardinality(S) \in Nat BY FS_CardinalityType
    <2> QED BY <2>1, FS_AddElement
  <1>2. /\ Cardinality(T) \in Nat /\ Cardinality(T) <= Cardinality(S \cup {x})
        /\ Cardinality(S \cup {x}) \in Nat /\ Cardinality(S) \in Nat
    BY <1>1, SetLess, FS_CardinalityType
  <1> QED BY <1>1, <1>2

LEMMA SetWithout ==
    ASSUME NEW S, IsFiniteSet(S), NEW x \in S, NEW T, T \subseteq S \ {x}
    PROVE  Cardinality(T) \in Nat /\ Cardinality(T) + 1 <= Cardinality(S)
  <1>1. IsFiniteSet(S \ {x}) /\ Cardinality(S \ {x}) = Cardinality(S) - 1
    BY FS_RemoveElement
  <1>2. /\ Cardinality(T) \in Nat /\ Cardinality(T) <= Cardinality(S \ {x})
        /\ Cardinality(S) \in Nat
    BY <1>1, SetLess, FS_CardinalityType
  <1> QED BY <1>1, <1>2

LEMMA WaitingFinite ==
    ASSUME Typed, NEW m PROVE IsFiniteSet(Waiting(m)) /\ Cardinality(Waiting(m)) \in Nat
  <1>1. PICK n \in Nat : \A i \in DOMAIN outbox : i <= n BY DEF Typed, Bounded
  <1>2. DOMAIN outbox \in SUBSET Nat BY DEF Typed, TypeOK, TableOK
  <1>3. IsFiniteSet(DOMAIN outbox) BY <1>1, <1>2, FS_BoundedSetOfNaturals
  <1>4. Waiting(m) \subseteq DOMAIN outbox BY DEF Waiting
  <1> QED BY <1>3, <1>4, FS_Subset, FS_CardinalityType

\* The step of the books: what is delivered, waits or may be sent grows by no
\* more than the doubt.
LEMMA Booked ==
    ASSUME Typed, Balance, NEW m \in Message, NEW w \in Nat, w = Cardinality(Waiting(m)'),
           copies'[m] \in Nat, doubt'[m] \in Nat,
           copies'[m] + w + Drafts(m)' - doubt'[m]
             <= copies[m] + Cardinality(Waiting(m)) + Drafts(m) - doubt[m]
    PROVE  Counted(m)'
  <1> DEFINE v == Cardinality(Waiting(m))
             d == Drafts(m)
             e == Drafts(m)'
             c == copies[m]
             f == doubt[m]
  <1>1. v \in Nat BY WaitingFinite
  <1>2. d \in {0, 1} /\ e \in {0, 1} BY DEF Drafts
  <1>3. c + v + d <= 1 + f BY DEF Balance, Counted
  <1>4. c \in Nat /\ f \in Nat BY ConstantTypes DEF Typed, TypeOK
  <1>5. copies'[m] + w + e - doubt'[m] <= c + v + d - f OBVIOUS
  <1>6. Counted(m)' <=> copies'[m] + w + e <= 1 + doubt'[m] BY DEF Counted
  <1> HIDE DEF v, d, e, c, f
  <1> QED BY <1>1, <1>2, <1>3, <1>4, <1>5, <1>6

LEMMA QuietBooks ==
    ASSUME Typed, Balance, NEW m \in Message,
           copies'[m] = copies[m], doubt'[m] = doubt[m],
           Waiting(m)' \subseteq Waiting(m), Unsent(m)' => Unsent(m)
    PROVE  Counted(m)'
  <1>1. IsFiniteSet(Waiting(m)) /\ Cardinality(Waiting(m)) \in Nat BY WaitingFinite
  <1>2. PICK w \in Nat : w = Cardinality(Waiting(m)') /\ w <= Cardinality(Waiting(m))
    BY <1>1, SetLess
  <1>3. Drafts(m)' <= Drafts(m) /\ Drafts(m) \in {0, 1} /\ Drafts(m)' \in {0, 1}
    BY DEF Drafts
  <1>4. copies[m] \in Nat /\ doubt[m] \in Nat BY ConstantTypes DEF Typed, TypeOK
  <1>5. copies'[m] + w + Drafts(m)' - doubt'[m]
          <= copies[m] + Cardinality(Waiting(m)) + Drafts(m) - doubt[m]
    BY <1>1, <1>2, <1>3, <1>4
  <1> QED BY <1>2, <1>4, <1>5, Booked

\* A delivery that is in doubt.
LEMMA DoubtBooks ==
    ASSUME Typed, Balance, NEW m \in Message,
           copies'[m] = copies[m] + 1, doubt'[m] = doubt[m] + 1,
           Waiting(m)' \subseteq Waiting(m), Unsent(m)' => Unsent(m)
    PROVE  Counted(m)'
  <1>1. IsFiniteSet(Waiting(m)) /\ Cardinality(Waiting(m)) \in Nat BY WaitingFinite
  <1>2. PICK w \in Nat : w = Cardinality(Waiting(m)') /\ w <= Cardinality(Waiting(m))
    BY <1>1, SetLess
  <1>3. Drafts(m)' <= Drafts(m) /\ Drafts(m) \in {0, 1} /\ Drafts(m)' \in {0, 1}
    BY DEF Drafts
  <1>4. copies[m] \in Nat /\ doubt[m] \in Nat BY ConstantTypes DEF Typed, TypeOK
  <1>5. copies'[m] + w + Drafts(m)' - doubt'[m]
          <= copies[m] + Cardinality(Waiting(m)) + Drafts(m) - doubt[m]
    BY <1>1, <1>2, <1>3, <1>4
  <1>6. copies'[m] \in Nat /\ doubt'[m] \in Nat BY <1>4
  <1> QED BY <1>2, <1>5, <1>6, Booked

LEMMA SameWaiting ==
    ASSUME UNCHANGED <<outbox, flush>>, NEW m PROVE Waiting(m)' = Waiting(m)
  BY DEF Waiting, Delivered, Item

LEMMA ComposeBooks ==
    ASSUME SingleSession, Typed, Truth, Balance, NEW p \in Process, Compose(p),
           NEW m \in Message
    PROVE  Counted(m)'
  <1> USE DEF Typed
  <1>0. copies[m] \in Nat /\ doubt[m] \in Nat BY ConstantTypes DEF TypeOK
  <1>1. CASE \E n \in Message : StartCompose(p, n)
    <2>1. PICK n \in Message : StartCompose(p, n) BY <1>1
    <2>2. compose[p].msg = {} BY <2>1 DEF StartCompose, Closed
    <2>3. Unsent(m)' => Unsent(m)
      BY <2>1, <2>2 DEF StartCompose, Unsent, Settled, SingleSession
    <2> QED BY <2>1, <2>3, SameWaiting, QuietBooks DEF StartCompose, server
  <1>2. CASE Discard(p) \/ Send(p) \/ Rejected(p) \/ SmtpFails(p) \/ WriteFile(p)
             \/ WriteFails(p) \/ InsertFails(p)
    <2>1. compose[p].res = "none" /\ compose[p].pc # "append"
      BY <1>2, OpenWindow
         DEF Discard, Send, Rejected, SmtpFails, WriteFile, WriteFails, InsertFails
    <2>2. UNCHANGED told
      BY <1>2 DEF Discard, Send, Rejected, SmtpFails, WriteFile, WriteFails, InsertFails
    <2>3. Unsent(m)' => Unsent(m)
      BY <2>1, <2>2 DEF Unsent, Settled, SingleSession
    <2> QED BY <1>2, <2>3, SameWaiting, QuietBooks
            DEF Discard, Send, Rejected, SmtpFails, WriteFile, WriteFails, InsertFails, server
  <1>3. CASE AppendToSent(p)
    <2>1. compose[p].pc = "append" /\ UNCHANGED told BY <1>3 DEF AppendToSent
    <2>2. compose'[p].msg = compose[p].msg /\ compose'[p].res = "sent"
      BY <1>3 DEF AppendToSent, SendReturn, TypeOK, WindowOK, Window
    <2>3. Unsent(m)' => Unsent(m)
      BY <2>1, <2>2 DEF Unsent, Settled, SingleSession
    <2> QED BY <1>3, <2>3, SameWaiting, QuietBooks DEF AppendToSent, server
  <1>4. CASE SendDone(p)
    <2>1. UNCHANGED <<copies, doubt, outbox, flush>> BY <1>4 DEF SendDone, server
    <2>2. PICK n \in Message :
            /\ n = Draft(p) /\ compose[p].msg = {n}
            /\ compose[p].res = "failed" => UNCHANGED told /\ compose'[p].msg = compose[p].msg
            /\ compose[p].res # "failed" =>
                 /\ compose[p].res \in {"sent", "queued"}
                 /\ told' = [told EXCEPT ![n] = compose[p].res]
      BY <1>4, SendDoneType
    <2>3. compose[p].pc = "done" BY <1>4 DEF SendDone
    <2>4. Unsent(m)' => Unsent(m)
      <3>1. CASE compose[p].res = "failed"
        BY <2>2, <2>3, <3>1 DEF Unsent, Settled, SingleSession
      <3>2. CASE compose[p].res # "failed" /\ m = n
        <4>1. told'[m] = compose[p].res BY <2>2, <3>2 DEF TypeOK
        <4> QED BY <2>2, <3>2, <4>1 DEF Unsent
      <3>3. CASE compose[p].res # "failed" /\ m # n
        <4>1. told'[m] = told[m] BY <2>2, <3>3 DEF TypeOK
        <4>2. ~Settled(p, m) BY <2>2, <3>3 DEF Settled
        <4> QED BY <4>1, <4>2 DEF Unsent, SingleSession
      <3> QED BY <3>1, <3>2, <3>3
    <2> QED BY <2>1, <2>4, SameWaiting, QuietBooks
  <1>5. CASE SmtpReplyLost(p)
    <2>1. PICK n \in Message : n = Draft(p) /\ compose[p].msg = {n}
      BY <1>5, OpenWindow DEF SmtpReplyLost
    <2>2. compose[p].res = "none" /\ compose[p].pc = "smtp" /\ UNCHANGED told
      BY <1>5, OpenWindow DEF SmtpReplyLost
    <2>3. Unsent(m)' => Unsent(m)
      BY <2>2 DEF Unsent, Settled, SingleSession
    <2>4. Waiting(m)' = Waiting(m) BY <1>5, SameWaiting DEF SmtpReplyLost
    <2>5. /\ copies'[n] = copies[n] + 1 /\ doubt'[n] = doubt[n] + 1
          /\ m # n => copies'[m] = copies[m] /\ doubt'[m] = doubt[m]
      BY <1>5, <2>1, AcceptedType, DoubtType DEF SmtpReplyLost, ReplyLost
    <2> QED BY <2>3, <2>4, <2>5, QuietBooks, DoubtBooks
  <1>6. CASE SmtpOk(p)
    <2>1. PICK n \in Message : n = Draft(p) /\ compose[p].msg = {n}
      BY <1>6, OpenWindow DEF SmtpOk
    <2>2. compose[p].res = "none" /\ compose[p].pc = "smtp" /\ UNCHANGED <<told, doubt>>
      BY <1>6, OpenWindow DEF SmtpOk
    <2>3. Waiting(m)' = Waiting(m) BY <1>6, SameWaiting DEF SmtpOk
    <2>4. copies'[n] = copies[n] + 1 /\ (m # n => copies'[m] = copies[m])
      BY <1>6, <2>1, AcceptedType DEF SmtpOk
    <2>5. compose'[p].msg = {n} /\ compose'[p].pc = "append"
      BY <1>6, <2>1 DEF SmtpOk, SendGoto, TypeOK, WindowOK, Window
    <2>6. CASE m # n
      <3>1. Unsent(m)' => Unsent(m) BY <2>2 DEF Unsent, Settled, SingleSession
      <3> QED BY <2>2, <2>3, <2>4, <2>6, <3>1, QuietBooks
    <2>7. CASE m = n
      <3>1. Unsent(m) BY <2>1, <2>2, <2>7 DEF Truth, SendTrue, Unsent, Settled, SingleSession
      <3>2. ~Unsent(m)' BY <2>5, <2>7 DEF Unsent, Settled
      <3>3. Drafts(m) = 1 /\ Drafts(m)' = 0 BY <3>1, <3>2 DEF Drafts
      <3>4. PICK w \in Nat : w = Cardinality(Waiting(m)) BY WaitingFinite
      <3>5. copies'[m] + w + Drafts(m)' - doubt'[m]
              <= copies[m] + Cardinality(Waiting(m)) + Drafts(m) - doubt[m]
        BY <1>0, <2>2, <2>4, <2>7, <3>3, <3>4
      <3>6. copies'[m] \in Nat /\ doubt'[m] \in Nat BY <1>0, <2>2, <2>4, <2>7
      <3> QED BY <2>3, <3>4, <3>5, <3>6, Booked
    <2> QED BY <2>6, <2>7
  <1>7. CASE InsertRow(p)
    <2>1. PICK n \in Message : n = Draft(p) /\ compose[p].msg = {n}
      BY <1>7, OpenWindow DEF InsertRow
    <2>2. /\ compose[p].res = "none" /\ compose[p].pc = "row"
          /\ UNCHANGED <<told, copies, doubt, flush>>
      BY <1>7, OpenWindow DEF InsertRow, server
    <2>3. /\ compose'[p].msg = {n} /\ compose'[p].res = "queued"
          /\ DOMAIN outbox' = DOMAIN outbox \cup {NextId(outbox)}
          /\ outbox'[NextId(outbox)] = n
          /\ \A i \in DOMAIN outbox : outbox'[i] = outbox[i]
      BY <1>7, <2>1, InsertRowType
    <2>4. CASE m # n
      <3>1. Unsent(m)' => Unsent(m) BY <2>2 DEF Unsent, Settled, SingleSession
      <3>2. Waiting(m)' \subseteq Waiting(m)
        BY <2>2, <2>3, <2>4 DEF Waiting, Delivered, Item
      <3> QED BY <2>2, <3>1, <3>2, QuietBooks
    <2>5. CASE m = n
      <3>1. Unsent(m) BY <2>1, <2>2, <2>5 DEF Truth, SendTrue, Unsent, Settled, SingleSession
      <3>2. ~Unsent(m)' BY <2>3, <2>5 DEF Unsent, Settled
      <3>3. Drafts(m) = 1 /\ Drafts(m)' = 0 BY <3>1, <3>2 DEF Drafts
      <3>4. Waiting(m)' \subseteq Waiting(m) \cup {NextId(outbox)}
        BY <2>2, <2>3 DEF Waiting, Delivered, Item
      <3>5. IsFiniteSet(Waiting(m)) /\ Cardinality(Waiting(m)) \in Nat BY WaitingFinite
      <3>6. PICK w \in Nat : w = Cardinality(Waiting(m)') /\ w <= Cardinality(Waiting(m)) + 1
        BY <3>4, <3>5, SetMore
      <3>7. copies'[m] + w + Drafts(m)' - doubt'[m]
              <= copies[m] + Cardinality(Waiting(m)) + Drafts(m) - doubt[m]
        BY <1>0, <2>2, <3>3, <3>5, <3>6
      <3>8. copies'[m] \in Nat /\ doubt'[m] \in Nat BY <1>0, <2>2
      <3> QED BY <3>6, <3>7, <3>8, Booked
    <2> QED BY <2>4, <2>5
  <1> QED BY <1>1, <1>2, <1>3, <1>4, <1>5, <1>6, <1>7 DEF Compose

LEMMA FlushBooks ==
    ASSUME SingleSession, Typed, Truth, Balance, NEW p \in Process, Flush(p),
           NEW m \in Message
    PROVE  Counted(m)'
  <1> USE DEF Typed
  <1>0. copies[m] \in Nat /\ doubt[m] \in Nat BY ConstantTypes DEF TypeOK
  <1>1. Unsent(m)' <=> Unsent(m)
    BY DEF Flush, List, Read, Unreadable, FlushSmtpOk, FlushReplyLost, FlushSmtpFails,
           FlushAppendToSent, DeleteRow, RecordFailure, FlushDbFails, Unsent, Settled
  <1>2. CASE ~Delivered(p) /\ UNCHANGED <<outbox, copies, doubt>>
    <2>1. Waiting(m)' \subseteq Waiting(m)
      BY <1>2 DEF Waiting, SingleSession
    <2> QED BY <1>1, <1>2, <2>1, QuietBooks
  <1>3. CASE List(p) \/ Read(p) \/ Unreadable(p) \/ FlushSmtpFails(p) \/ RecordFailure(p)
             \/ (FlushDbFails(p) /\ flush[p].pc # "delete")
    BY <1>2, <1>3 DEF List, Read, Unreadable, FlushSmtpFails, RecordFailure,
                      FlushDbFails, Delivered, server
  <1>4. CASE FlushAppendToSent(p)
    <2>1. flush'[p].left = flush[p].left /\ flush'[p].pc = "delete"
      BY <1>4 DEF FlushAppendToSent, FlushGoto, TypeOK, FlushOK
    <2>2. Delivered(p)' /\ Item(p)' = Item(p)
      BY <2>1 DEF Delivered, Item
    <2>3. Waiting(m)' \subseteq Waiting(m)
      BY <1>4, <2>2 DEF FlushAppendToSent, Waiting, SingleSession
    <2> QED BY <1>1, <1>4, <2>3, QuietBooks DEF FlushAppendToSent, server
  <1>5. CASE DeleteRow(p)
    <2>1. /\ DOMAIN outbox' = DOMAIN outbox \ {Item(p)}
          /\ \A i \in DOMAIN outbox' : outbox'[i] = outbox[i]
      BY <1>5, DeleteRowType
    <2>2. Waiting(m)' \subseteq Waiting(m)
      BY <2>1 DEF Waiting, SingleSession
    <2> QED BY <1>1, <1>5, <2>2, QuietBooks DEF DeleteRow, server
  <1>6. CASE FlushReplyLost(p)
    <2>1. PICK n \in Message : n = Mail(p) BY <1>6, Working DEF FlushReplyLost
    <2>2. ~Delivered(p) /\ UNCHANGED outbox BY <1>6 DEF FlushReplyLost, Delivered
    <2>3. Waiting(m)' \subseteq Waiting(m)
      BY <2>2 DEF Waiting, SingleSession
    <2>4. /\ copies'[n] = copies[n] + 1 /\ doubt'[n] = doubt[n] + 1
          /\ m # n => copies'[m] = copies[m] /\ doubt'[m] = doubt[m]
      BY <1>6, <2>1, AcceptedType, DoubtType DEF FlushReplyLost, ReplyLost
    <2> QED BY <1>1, <2>3, <2>4, QuietBooks, DoubtBooks
  <1>7. CASE FlushSmtpOk(p)
    <2>1. PICK n \in Message : n = Mail(p) BY <1>7, Working DEF FlushSmtpOk
    <2>2. ~Delivered(p) /\ UNCHANGED <<outbox, doubt>> BY <1>7 DEF FlushSmtpOk, Delivered
    <2>3. copies'[n] = copies[n] + 1 /\ (m # n => copies'[m] = copies[m])
      BY <1>7, <2>1, AcceptedType DEF FlushSmtpOk
    <2>4. flush'[p].left = flush[p].left /\ flush'[p].pc = "append"
      BY <1>7 DEF FlushSmtpOk, FlushGoto, TypeOK, FlushOK
    <2>5. Delivered(p)' /\ Item(p)' = Item(p) BY <2>4 DEF Delivered, Item
    <2>6. Waiting(m)' \subseteq Waiting(m) \ {Item(p)}
      BY <2>2, <2>5 DEF Waiting, SingleSession
    <2>7. CASE m # n
      BY <1>1, <2>2, <2>3, <2>6, <2>7, QuietBooks
    <2>8. CASE m = n
      <3>1. Item(p) \in DOMAIN flush[p].left BY <1>7, Working DEF FlushSmtpOk
      <3>2. Item(p) \in DOMAIN outbox /\ outbox[Item(p)] = m
        BY <2>1, <2>8, <3>1 DEF Truth, FlushTrue, Mail
      <3>3. Item(p) \in Waiting(m) BY <2>2, <3>2 DEF Waiting, SingleSession
      <3>4. IsFiniteSet(Waiting(m)) /\ Cardinality(Waiting(m)) \in Nat BY WaitingFinite
      <3>5. PICK w \in Nat : w = Cardinality(Waiting(m)') /\ w + 1 <= Cardinality(Waiting(m))
        BY <2>6, <3>3, <3>4, SetWithout
      <3>6. Drafts(m)' = Drafts(m) /\ Drafts(m) \in {0, 1} BY <1>1 DEF Drafts
      <3>7. copies'[m] + w + Drafts(m)' - doubt'[m]
              <= copies[m] + Cardinality(Waiting(m)) + Drafts(m) - doubt[m]
        BY <1>0, <2>2, <2>3, <2>8, <3>4, <3>5, <3>6
      <3>8. copies'[m] \in Nat /\ doubt'[m] \in Nat BY <1>0, <2>2, <2>3, <2>8
      <3> QED BY <3>5, <3>7, <3>8, Booked
    <2> QED BY <2>7, <2>8
  <1>8. CASE FlushDbFails(p) /\ flush[p].pc = "delete"
    <2>1. PICK n \in Message : n = Mail(p) BY <1>8, Working
    <2>2. UNCHANGED <<outbox, copies>> BY <1>8 DEF FlushDbFails
    <2>3. doubt'[n] = doubt[n] + 1 /\ (m # n => doubt'[m] = doubt[m])
      BY <1>8, <2>1, DoubtType DEF FlushDbFails
    <2>4. Item(p) \in DOMAIN outbox /\ outbox[Item(p)] = n
      BY <1>8, <2>1, Working DEF Truth, FlushTrue, Mail
    <2>5. Waiting(m)' \subseteq Waiting(m) \cup {Item(p)} /\ (m # n => Waiting(m)' \subseteq Waiting(m))
      BY <2>2, <2>4 DEF Waiting, SingleSession
    <2>6. CASE m # n
      BY <1>1, <2>2, <2>3, <2>5, <2>6, QuietBooks
    <2>7. CASE m = n
      <3>1. IsFiniteSet(Waiting(m)) /\ Cardinality(Waiting(m)) \in Nat BY WaitingFinite
      <3>2. PICK w \in Nat : w = Cardinality(Waiting(m)') /\ w <= Cardinality(Waiting(m)) + 1
        BY <2>5, <3>1, SetMore
      <3>3. Drafts(m)' = Drafts(m) /\ Drafts(m) \in {0, 1} BY <1>1 DEF Drafts
      <3>4. copies'[m] + w + Drafts(m)' - doubt'[m]
              <= copies[m] + Cardinality(Waiting(m)) + Drafts(m) - doubt[m]
        BY <1>0, <2>2, <2>3, <2>7, <3>1, <3>2, <3>3
      <3>5. copies'[m] \in Nat /\ doubt'[m] \in Nat BY <1>0, <2>2, <2>3, <2>7
      <3> QED BY <3>2, <3>4, <3>5, Booked
    <2> QED BY <2>6, <2>7
  <1> QED BY <1>3, <1>4, <1>5, <1>6, <1>7, <1>8 DEF Flush

\* A session that ends leaves a draft or a row where it has delivered or
\* queued and told nobody: as many as it has put in doubt.
LEMMA EndBooks ==
    ASSUME SingleSession, Typed, Truth, Balance, NEW p \in Process, End(p),
           NEW m \in Message
    PROVE  Counted(m)'
  <1> USE DEF Typed
  <1> DEFINE settled == IF Settled(p, m) THEN 1 ELSE 0
             row     == IF Delivered(p) /\ Mail(p) = m THEN 1 ELSE 0
  <1>0. copies[m] \in Nat /\ doubt[m] \in Nat BY ConstantTypes DEF TypeOK
  <1>1. UNCHANGED <<outbox, told, copies>> BY DEF End
  <1>2. doubt'[m] = doubt[m] + (settled + row)
    BY EndType DEF Unreported, Settled, Delivered
  <1>3. Drafts(m)' <= Drafts(m) + settled
    BY <1>1 DEF Drafts, Unsent, SingleSession
  <1>4. Drafts(m) \in {0, 1} /\ Drafts(m)' \in {0, 1} /\ settled \in {0, 1} /\ row \in {0, 1}
    BY DEF Drafts
  <1>5. IsFiniteSet(Waiting(m)) /\ Cardinality(Waiting(m)) \in Nat BY WaitingFinite
  <1>6. PICK w \in Nat : w = Cardinality(Waiting(m)') /\ w <= Cardinality(Waiting(m)) + row
    <2>1. CASE Delivered(p) /\ Mail(p) = m
      <3>1. Waiting(m)' \subseteq Waiting(m) \cup {Item(p)}
        BY <1>1 DEF Waiting, SingleSession
      <3> QED BY <1>5, <2>1, <3>1, SetMore
    <2>2. CASE Delivered(p) /\ Mail(p) # m
      <3>1. outbox[Item(p)] # m
        BY <2>2, Working DEF Truth, FlushTrue, Mail, Delivered
      <3>2. Waiting(m)' \subseteq Waiting(m)
        BY <1>1, <3>1 DEF Waiting, SingleSession
      <3> QED BY <1>5, <2>2, <3>2, SetLess
    <2>3. CASE ~Delivered(p)
      <3>1. Waiting(m)' \subseteq Waiting(m)
        BY <1>1, <2>3 DEF Waiting, SingleSession
      <3> QED BY <1>5, <2>3, <3>1, SetLess
    <2> QED BY <2>1, <2>2, <2>3
  <1> HIDE DEF settled, row
  <1>7. copies'[m] + w + Drafts(m)' - doubt'[m]
          <= copies[m] + Cardinality(Waiting(m)) + Drafts(m) - doubt[m]
    BY <1>0, <1>1, <1>2, <1>3, <1>4, <1>5, <1>6
  <1>8. copies'[m] \in Nat /\ doubt'[m] \in Nat BY <1>0, <1>1, <1>2, <1>4
  <1> QED BY <1>6, <1>7, <1>8, Booked

LEMMA BalanceNext ==
    ASSUME SingleSession, Typed, Truth, Balance, [Next]_vars PROVE Balance'
  <1>1. SUFFICES ASSUME NEW m \in Message PROVE Counted(m)' BY DEF Balance
  <1>2. CASE UNCHANGED vars
    <2>1. Unsent(m)' <=> Unsent(m) BY <1>2 DEF vars, Unsent, Settled
    <2> QED BY <1>2, <2>1, SameWaiting, QuietBooks DEF vars, server
  <1>3. ASSUME NEW p \in Process, Launch(p) PROVE Counted(m)'
    <2>1. flush[p] = Idle BY <1>3 DEF Launch, Typed, TypeOK
    <2>2. Waiting(m)' \subseteq Waiting(m)
      BY <1>3, <2>1 DEF Launch, Waiting, Delivered, Idle, SingleSession
    <2>3. Unsent(m)' <=> Unsent(m) BY <1>3 DEF Launch, Unsent, Settled
    <2> QED BY <1>3, <2>2, <2>3, QuietBooks DEF Launch, server
  <1> QED BY <1>1, <1>2, <1>3, ComposeBooks, FlushBooks, EndBooks DEF Next, Quit, Crash

LEMMA BalanceInit == ASSUME Init PROVE Balance
  <1>1. SUFFICES ASSUME NEW m \in Message PROVE Counted(m) BY DEF Balance
  <1>2. Waiting(m) = {} BY DEF Init, NoItems, Waiting
  <1>3. Cardinality(Waiting(m)) = 0 BY <1>2, FS_EmptySet
  <1>4. Drafts(m) \in {0, 1} BY DEF Drafts
  <1> QED BY <1>3, <1>4 DEF Init, Counted

\* While one session runs at a time: a recipient gets a message once, and once
\* more for each time the program could not know, or ended before it had noted,
\* that it was delivered or queued (send.rs:29-41, 84-90).
THEOREM SpecNoNeedlessCopy ==
    ASSUME SingleSession PROVE Spec => []NoNeedlessCopy
  <1>1. Init => Typed /\ Truth /\ Balance BY TypeInit, TruthInit, BalanceInit
  <1>2. Typed /\ Truth /\ Balance /\ [Next]_vars => (Typed /\ Truth /\ Balance)'
    BY TypeNext, TruthNext, BalanceNext
  <1>3. Typed /\ Balance => NoNeedlessCopy
    <2>1. SUFFICES ASSUME Typed, Balance, NEW m \in Message
                   PROVE  copies[m] <= 1 + doubt[m]
      BY DEF NoNeedlessCopy
    <2> DEFINE w == Cardinality(Waiting(m))
               d == Drafts(m)
    <2>2. w \in Nat /\ d \in {0, 1} BY <2>1, WaitingFinite DEF Drafts
    <2>3. copies[m] \in Nat /\ doubt[m] \in Nat
      BY <2>1, ConstantTypes DEF Typed, TypeOK
    <2>4. copies[m] + w + d <= 1 + doubt[m] BY <2>1 DEF Balance, Counted
    <2> HIDE DEF w, d
    <2> QED BY <2>2, <2>3, <2>4
  <1> QED BY <1>1, <1>2, <1>3, PTL DEF Spec
=============================================================================
