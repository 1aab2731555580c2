--------------------------- MODULE IdleLoopProofs ---------------------------
(* What IdleLoop guarantees for any number of messages, calls beside the   *)
(* loop, events, keys and errors: a message is notified once, and what an  *)
(* event announces is in the cache, deletions that EXPUNGE has left undone *)
(* counted.                                                                *)
EXTENDS IdleLoop, FiniteSetTheorems, TLAPS

LEMMA ConstantTypes ==
    /\ MaxUid \in Nat /\ FetchLimit \in Nat /\ MaxEvents \in Nat
    /\ MaxKeys \in Nat /\ MaxErrors \in Nat
    /\ Slot # {} /\ LoopId \notin Slot
  BY IdleAssumption

----------------------------------------------------------------------------
(* Types *)

LEMMA FreshCallType ==
    ASSUME NEW kind \in {"none", "idle", "sync", "list", "delete"},
           NEW pc \in {"free", "open", "init", "idle", "look", "select", "first", "max",
                       "again", "fetch", "store", "record", "send", "read", "expunge",
                       "drop", "answer"}
    PROVE  Call(kind, pc) \in CallRecord /\ Free \in CallRecord
  <1>1. 0 \in 0..MaxUid + 1
    BY ConstantTypes
  <1>2. Free \in CallRecord
    BY <1>1 DEF Free, CallRecord
  <1>3. [Free EXCEPT !.kind = kind, !.pc = pc] \in CallRecord
    BY <1>2 DEF CallRecord
  <1> QED BY <1>2, <1>3 DEF Call

LEMMA NewestSubset == ASSUME NEW n, NEW S PROVE Newest(n, S) \subseteq S
  BY DEF Newest

\* A step of one task changes that task's locals, to some of the same type.
LEMMA BecomeType ==
    ASSUME TypeOK, NEW t \in Task, NEW c \in CallRecord, Become(t, c)
    PROVE  loop' \in CallRecord /\ calls' \in [Slot -> CallRecord]
  BY DEF Become, Task, TypeOK

LEMMA LocalsType ==
    ASSUME TypeOK, NEW t \in Task PROVE Locals(t) \in CallRecord
  BY DEF Locals, Task, TypeOK

\* Spawning puts the calls given into slots that were free.
LEMMA SpawnKeeps ==
    ASSUME NEW C, Spawn(C), NEW s \in Slot
    PROVE  /\ calls' = [r \in Slot |-> calls'[r]]
           /\ calls'[s] \in C \/ calls'[s] = calls[s]
  <1> DEFINE places == Injection(C, {r \in Slot : calls[r] = Free})
             place  == CHOOSE f \in places : TRUE
  <1>1. calls' = [r \in Slot |-> IF \E c \in C : place[c] = r
                                   THEN CHOOSE c \in C : place[c] = r ELSE calls[r]]
    BY DEF Spawn
  <1>2. CASE \E c \in C : place[c] = s
    <2>1. calls'[s] = CHOOSE c \in C : place[c] = s
      BY <1>1, <1>2
    <2> QED BY <1>1, <1>2, <2>1
  <1>3. CASE ~ \E c \in C : place[c] = s
    BY <1>1, <1>3
  <1> QED BY <1>2, <1>3

LEMMA SpawnType ==
    ASSUME TypeOK, NEW C \in SUBSET CallRecord, Spawn(C)
    PROVE  calls' \in [Slot -> CallRecord]
  <1>1. Slot # {} BY ConstantTypes
  <1>2. \A s \in Slot : calls'[s] \in CallRecord
    BY SpawnKeeps DEF TypeOK
  <1>3. calls' = [r \in Slot |-> calls'[r]]
    BY <1>1, SpawnKeeps
  <1> QED BY <1>2, <1>3

\* What SELECT, and the newest cached UID, leave in a task's locals.
LEMMA SelectLocals ==
    ASSUME TypeOK, NEW t \in Task, Select(t)
    PROVE  \E c \in CallRecord :
             /\ Become(t, c) /\ c.pc \in {"max", "fetch"} /\ c.batch = Locals(t).batch
             /\ IF At(t, "select") THEN c.want = Locals(t).want /\ c.pc = "max"
                ELSE c.want \subseteq inbox /\ (At(t, "first") \/ At(t, "again"))
  <1>0. Locals(t) \in CallRecord /\ \A pc : At(t, pc) <=> Locals(t).pc = pc
    BY LocalsType DEF At, Locals
  <1>1. CASE At(t, "select")
    <2> DEFINE c == [Locals(t) EXCEPT !.pc = "max", !.next = given + 1]
    <2>1. given + 1 \in 0..MaxUid + 1
      BY ConstantTypes DEF TypeOK
    <2>2. c \in CallRecord /\ c.pc = "max" /\ c.batch = Locals(t).batch /\ c.want = Locals(t).want
      BY <1>0, <2>1 DEF CallRecord
    <2>3. Become(t, c)
      BY <1>0, <1>1 DEF Select
    <2> QED BY <1>1, <2>2, <2>3
  <1>2. CASE ~At(t, "select")
    <2>1. PICK S \in SUBSET inbox :
             /\ Become(t, [Locals(t) EXCEPT !.pc = "fetch", !.want = S])
             /\ At(t, "first") \/ At(t, "again")
      BY <1>2, NewestSubset DEF Select
    <2> DEFINE c == [Locals(t) EXCEPT !.pc = "fetch", !.want = S]
    <2>2. c \in CallRecord /\ c.pc = "fetch" /\ c.batch = Locals(t).batch /\ c.want = S
      BY <1>0 DEF CallRecord, TypeOK
    <2> QED BY <1>2, <2>1, <2>2
  <1> QED BY <1>1, <1>2

LEMMA ReadMaxLocals ==
    ASSUME TypeOK, NEW t \in Task, ReadMax(t)
    PROVE  \E c \in CallRecord :
             /\ Become(t, c) /\ c.pc \in {"again", "fetch"} /\ c.batch = Locals(t).batch
             /\ c.pc = "again" => cache = {} /\ c.want = Locals(t).want
             /\ c.pc = "fetch" => c.want \cap cache = {}
  <1>0. Locals(t) \in CallRecord /\ 0 \in 0..MaxUid + 1
    BY LocalsType, ConstantTypes
  <1>1. CASE cache = {}
    <2> DEFINE c == [Locals(t) EXCEPT !.pc = "again", !.next = 0]
    <2>1. c \in CallRecord /\ c.pc = "again" /\ c.batch = Locals(t).batch /\ c.want = Locals(t).want
      BY <1>0 DEF CallRecord
    <2> QED BY <1>1, <2>1 DEF ReadMax
  <1>2. CASE cache # {}
    <2> DEFINE W == Wanted(cache, Locals(t).next)
               c == [Locals(t) EXCEPT !.pc = "fetch", !.next = 0, !.want = W]
    <2>1. W \subseteq Uid /\ W \cap cache = {}
      BY ConstantTypes DEF Wanted, Uid
    <2>2. Become(t, c)
      BY <1>2 DEF ReadMax
    <2> HIDE DEF W
    <2>3. c \in CallRecord /\ c.pc = "fetch" /\ c.batch = Locals(t).batch /\ c.want = W
      BY <1>0, <2>1 DEF CallRecord
    <2> QED BY <2>1, <2>2, <2>3
  <1> QED BY <1>1, <1>2

LEMMA SyncStepType ==
    ASSUME TypeOK, NEW t \in Task, SyncStep(t)
    PROVE  TypeOK'
  <1>0. Locals(t) \in CallRecord BY LocalsType
  <1>1. CASE Look(t)
    <2>1. [Locals(t) EXCEPT !.pc = IF recorded THEN "select" ELSE "first"] \in CallRecord
      BY <1>0 DEF CallRecord
    <2>2. loop' \in CallRecord /\ calls' \in [Slot -> CallRecord]
      BY <1>1, <2>1, BecomeType DEF Look
    <2> QED BY <1>1, <2>2 DEF Look, TypeOK, server, store, bounds, past
  <1>6. CASE Select(t)
    <2>1. PICK c \in CallRecord : Become(t, c)
      BY <1>6, SelectLocals
    <2>2. loop' \in CallRecord /\ calls' \in [Slot -> CallRecord]
      BY <2>1, BecomeType
    <2> QED BY <1>6, <2>2 DEF Select, TypeOK, server, store, bounds, past
  <1>2. CASE ReadMax(t)
    <2>1. PICK c \in CallRecord : Become(t, c)
      BY <1>2, ReadMaxLocals
    <2>2. loop' \in CallRecord /\ calls' \in [Slot -> CallRecord]
      BY <2>1, BecomeType
    <2> QED BY <1>2, <2>2 DEF ReadMax, TypeOK, server, store, bounds, past
  <1>3. CASE Fetch(t)
    <2> DEFINE c == [Locals(t) EXCEPT !.pc = "store", !.want = {},
                                      !.batch = Locals(t).want \cap inbox]
    <2>1. Locals(t).want \cap inbox \subseteq Uid
      BY DEF TypeOK
    <2>2. c \in CallRecord
      BY <1>0, <2>1 DEF CallRecord
    <2>3. Become(t, c)
      BY <1>3 DEF Fetch
    <2>4. loop' \in CallRecord /\ calls' \in [Slot -> CallRecord]
      BY <2>2, <2>3, BecomeType
    <2> QED BY <1>3, <2>4 DEF Fetch, TypeOK, server, store, bounds, past
  <1>4. CASE Store(t)
    <2>1. cache' \subseteq Uid
      BY <1>0, <1>4 DEF Store, TypeOK, CallRecord
    <2>2. [Locals(t) EXCEPT !.pc = "record"] \in CallRecord
      BY <1>0 DEF CallRecord
    <2>3. loop' \in CallRecord /\ calls' \in [Slot -> CallRecord]
      BY <1>4, <2>2, BecomeType DEF Store
    <2> QED BY <1>4, <2>1, <2>3 DEF Store, TypeOK, server, bounds, past
  <1>5. CASE Record(t)
    <2>1. [loop EXCEPT !.pc = "send"] \in CallRecord
      BY DEF TypeOK, CallRecord
    <2>3. Call("sync", "read") \in CallRecord
      BY FreshCallType
    <2>2. loop' \in CallRecord /\ calls' \in [Slot -> CallRecord]
      BY <1>5, <2>1, <2>3, BecomeType DEF Record
    <2> QED BY <1>5, <2>2 DEF Record, TypeOK, server, bounds, past
  <1> QED BY <1>1, <1>2, <1>3, <1>4, <1>5, <1>6 DEF SyncStep

LEMMA LoopType ==
    ASSUME TypeOK, LoopStep \/ Dropped PROVE TypeOK'
  <1>1. CASE SyncStep(LoopId)
    BY <1>1, SyncStepType DEF Task
  <1>2. CASE Open \/ EnterIdle
    <2>1. loop' = Call("idle", "init") \/ loop' = Call("idle", "idle")
      BY <1>2 DEF Open, EnterIdle, LoopGoes
    <2>2. loop' \in CallRecord
      BY <2>1, FreshCallType
    <2> QED BY <1>2, <2>2 DEF Open, EnterIdle, TypeOK, server, store, bounds, past
  <1>3. CASE Wake
    <2>1. loop' \in CallRecord
      BY <1>3, FreshCallType DEF Wake, LoopGoes
    <2> QED BY <1>3, <2>1 DEF Wake, TypeOK, store, bounds, past
  <1>4. CASE SendNewMail
    <2>1. loop' \in CallRecord
      BY <1>4, FreshCallType DEF SendNewMail, LoopGoes
    <2>2. loop.batch \subseteq Uid
      BY DEF TypeOK, CallRecord
    <2>3. events' \in Seq(SUBSET Uid) /\ Len(events') <= MaxEvents
      BY <1>4, <2>2, ConstantTypes DEF SendNewMail, TypeOK
    <2> QED BY <1>4, <2>1, <2>3 DEF SendNewMail, TypeOK, server, store, bounds, past
  <1>5. CASE Dropped
    <2>1. loop' \in CallRecord
      BY <1>5, FreshCallType DEF Dropped
    <2>2. errors' \in 0..MaxErrors
      BY <1>5, ConstantTypes DEF Dropped, TypeOK
    <2> QED BY <1>5, <2>1, <2>2 DEF Dropped, TypeOK, store, past
  <1> QED BY <1>1, <1>2, <1>3, <1>4, <1>5 DEF LoopStep

LEMMA FailsType ==
    ASSUME TypeOK, NEW s \in Slot, Fails(s)
    PROVE  calls' \in [Slot -> CallRecord] /\ errors' \in 0..MaxErrors
  <1>0. calls[s].kind \in {"none", "idle", "sync", "list", "delete"}
    BY DEF TypeOK, CallRecord
  <1>1. Call(calls[s].kind, "answer") \in CallRecord
    BY <1>0, FreshCallType
  <1>2. [Call(calls[s].kind, "answer") EXCEPT !.ok = FALSE] \in CallRecord
    BY <1>1 DEF CallRecord
  <1>3. calls' \in [Slot -> CallRecord]
    BY <1>2 DEF Fails, TypeOK
  <1>4. errors' \in 0..MaxErrors
    BY ConstantTypes DEF Fails, TypeOK
  <1> QED BY <1>3, <1>4

LEMMA CallType ==
    ASSUME TypeOK, NEW s \in Slot, CallStep(s) \/ CallFails(s) \/ DeleteReplyLost(s) PROVE TypeOK'
  <1>0. calls[s] \in CallRecord /\ s \in Task /\ s # LoopId
    BY ConstantTypes DEF TypeOK, Task
  <1>1. CASE SyncStep(s)
    BY <1>0, <1>1, SyncStepType
  <1>2. CASE ReadList(s)
    <2>1. Call(calls[s].kind, "answer") \in CallRecord
      BY <1>0, FreshCallType DEF CallRecord
    <2>2. CachedList \subseteq Uid
      BY NewestSubset DEF CachedList, TypeOK
    <2>3. [Call(calls[s].kind, "answer") EXCEPT !.batch = CachedList] \in CallRecord
      BY <2>1, <2>2 DEF CallRecord
    <2>4. calls' \in [Slot -> CallRecord]
      BY <1>2, <2>3 DEF ReadList, TypeOK
    <2> QED BY <1>2, <2>4 DEF ReadList, TypeOK, server, store, bounds, past
  <1>3. CASE DeleteAtServer(s)
    <2>1. [calls[s] EXCEPT !.pc = "drop"] \in CallRecord
      BY <1>0 DEF CallRecord
    <2>2. calls' \in [Slot -> CallRecord]
      BY <1>3, <2>1 DEF DeleteAtServer, TypeOK
    <2>3. inbox' \subseteq Uid /\ marked' \subseteq inbox'
      BY <1>3 DEF DeleteAtServer, TypeOK
    <2> QED BY <1>3, <2>2, <2>3 DEF DeleteAtServer, TypeOK, store, bounds, past
  <1>7. CASE DeleteOnlyMarks(s)
    <2>1. [calls[s] EXCEPT !.pc = "drop", !.left = calls[s].want \cap inbox] \in CallRecord
      BY <1>0 DEF CallRecord
    <2>2. calls' = [calls EXCEPT ![s] = [calls[s] EXCEPT !.pc = "drop",
                                                         !.left = calls[s].want \cap inbox]]
      BY <1>7 DEF DeleteOnlyMarks, TypeOK
    <2>3. calls' \in [Slot -> CallRecord]
      BY <2>1, <2>2 DEF TypeOK
    <2>4. marked' \subseteq inbox
      BY <1>7 DEF DeleteOnlyMarks, TypeOK
    <2> QED BY <1>7, <2>3, <2>4 DEF DeleteOnlyMarks, TypeOK, store, bounds, past
  <1>8. CASE DeleteReplyLost(s)
    <2>1. calls' \in [Slot -> CallRecord] /\ errors' \in 0..MaxErrors
      BY <1>8, FailsType DEF DeleteReplyLost
    <2>2. inbox' \subseteq Uid /\ marked' \subseteq inbox'
      BY <1>8 DEF DeleteReplyLost, TypeOK
    <2> QED BY <1>8, <2>1, <2>2 DEF DeleteReplyLost, TypeOK, store, past
  <1>4. CASE DeleteRow(s)
    <2>1. [calls[s] EXCEPT !.pc = "answer", !.left = {}] \in CallRecord
      BY <1>0 DEF CallRecord
    <2>2. calls' = [calls EXCEPT ![s] = [calls[s] EXCEPT !.pc = "answer", !.left = {}]]
      BY <1>4 DEF DeleteRow, TypeOK
    <2>3. calls' \in [Slot -> CallRecord]
      BY <2>1, <2>2 DEF TypeOK
    <2>4. survived' \in [Uid -> Nat]
      BY <1>4 DEF DeleteRow, TypeOK
    <2> QED BY <1>4, <2>3, <2>4 DEF DeleteRow, TypeOK, server, bounds
  <1>5. CASE Answered(s)
    <2>1. Answer(calls[s]) \in Screen
      <3>1. /\ calls[s].want \subseteq Uid /\ calls[s].batch \subseteq Uid
            /\ screen \in Screen
        BY <1>0 DEF CallRecord, TypeOK
      <3>2. [screen EXCEPT !.shown = @ \ calls[s].want] \in Screen
        BY <3>1 DEF Screen
      <3>3. [screen EXCEPT !.state = "error"] \in Screen
        BY <3>1 DEF Screen
      <3>4. \A st \in {"loading", "loaded"} :
              [screen EXCEPT !.shown = calls[s].batch, !.state = st] \in Screen
        BY <3>1 DEF Screen
      <3> QED BY <3>1, <3>2, <3>3, <3>4 DEF Answer
    <2>2. calls' \in [Slot -> CallRecord]
      BY <1>5, FreshCallType DEF Answered, TypeOK
    <2> QED BY <1>5, <2>1, <2>2 DEF Answered, TypeOK, server, store, bounds, past
  <1>6. CASE CallFails(s)
    <2>1. calls' \in [Slot -> CallRecord] /\ errors' \in 0..MaxErrors
      BY <1>6, FailsType DEF CallFails
    <2> QED BY <1>6, <2>1 DEF CallFails, TypeOK, server, store, past
  <1> QED BY <1>1, <1>2, <1>3, <1>4, <1>5, <1>6, <1>7, <1>8 DEF CallStep

LEMMA ScreenCallTypes ==
    /\ {ListCall} \subseteq CallRecord /\ {SyncCall} \subseteq CallRecord
    /\ {ListCall, SyncCall} \subseteq CallRecord
    /\ \A u \in Uid : {[Call("delete", "expunge") EXCEPT !.want = {u}]} \subseteq CallRecord
  <1>1. ListCall \in CallRecord /\ SyncCall \in CallRecord
    BY FreshCallType DEF ListCall, SyncCall
  <1>2. Call("delete", "expunge") \in CallRecord
    BY FreshCallType
  <1>3. \A u \in Uid : [Call("delete", "expunge") EXCEPT !.want = {u}] \in CallRecord
    BY <1>2 DEF CallRecord
  <1> QED BY <1>1, <1>3

LEMMA KeyType ==
    ASSUME TypeOK, Refresh \/ Delete \/ SwitchAway \/ SwitchTo PROVE TypeOK'
  <1>0. /\ keys' \in 0..MaxKeys
        /\ UNCHANGED <<server, store, loop, events, errors, first, past>>
    BY ConstantTypes DEF Refresh, Delete, SwitchAway, SwitchTo, Key, TypeOK
  <1>1. screen' \in Screen
    <2>1. [screen EXCEPT !.state = "loading"] \in Screen
      BY DEF Screen, TypeOK
    <2>2. \A b \in BOOLEAN : [here |-> b, shown |-> {}, state |-> "loading"] \in Screen
      BY DEF Screen
    <2> QED BY <2>1, <2>2 DEF Refresh, Delete, SwitchAway, SwitchTo, TypeOK
  <1>2. calls' \in [Slot -> CallRecord]
    <2>1. CASE Refresh
      BY <2>1, SpawnType, ScreenCallTypes DEF Refresh
    <2>2. CASE Delete
      <3>1. PICK u \in screen.shown :
               Spawn({[Call("delete", "expunge") EXCEPT !.want = {u}]})
        BY <2>2 DEF Delete
      <3>2. u \in Uid
        BY DEF TypeOK, Screen
      <3> QED BY <3>1, <3>2, SpawnType, ScreenCallTypes
    <2>3. CASE SwitchAway
      BY <2>3 DEF SwitchAway, TypeOK
    <2>4. CASE SwitchTo
      BY <2>4, SpawnType, ScreenCallTypes DEF SwitchTo
    <2> QED BY <2>1, <2>2, <2>3, <2>4
  <1> QED BY <1>0, <1>1, <1>2 DEF TypeOK, server, store, past

LEMMA NewMailType == ASSUME TypeOK, NewMail PROVE TypeOK'
  <1>1. events' \in Seq(SUBSET Uid) /\ Len(events') <= MaxEvents
    BY ConstantTypes DEF NewMail, TypeOK
  <1>2. calls' \in [Slot -> CallRecord]
    BY SpawnType, ScreenCallTypes DEF NewMail, TypeOK
  <1>3. notified' \in [Uid -> Nat]
    BY DEF NewMail, TypeOK
  <1> QED BY <1>1, <1>2, <1>3 DEF NewMail, TypeOK, server, store, bounds, past

LEMMA ArriveType == ASSUME TypeOK, Arrive PROVE TypeOK'
  <1>1. /\ given' \in 0..MaxUid /\ first' \in 0..given'
        /\ inbox' \subseteq Uid /\ marked' \subseteq inbox'
    BY ConstantTypes DEF Arrive, TypeOK, Uid, bounds, past
  <1>2. told' \in BOOLEAN
    BY DEF Arrive, TypeOK
  <1> QED BY <1>1, <1>2 DEF Arrive, TypeOK, store, bounds, past

LEMMA InitType == ASSUME Init PROVE TypeOK
  <1>1. /\ inbox \subseteq Uid /\ marked \subseteq inbox /\ cache \subseteq Uid
        /\ given \in 0..MaxUid /\ first \in 0..given
    BY ConstantTypes DEF Init, Uid
  <1>2. loop \in CallRecord /\ calls \in [Slot -> CallRecord]
    BY FreshCallType DEF Init, SyncCall
  <1>3. screen \in Screen
    <2>1. CachedList \subseteq Uid
      BY <1>1, NewestSubset DEF CachedList
    <2> QED BY <2>1 DEF Init, Screen
  <1>4. events \in Seq(SUBSET Uid) /\ Len(events) <= MaxEvents
    BY ConstantTypes DEF Init
  <1>5. /\ keys \in 0..MaxKeys /\ errors \in 0..MaxErrors
        /\ notified \in [Uid -> Nat] /\ survived \in [Uid -> Nat]
    BY ConstantTypes DEF Init
  <1>6. told \in BOOLEAN /\ recorded \in BOOLEAN
    BY DEF Init
  <1> QED BY <1>1, <1>2, <1>3, <1>4, <1>5, <1>6 DEF TypeOK

LEMMA TypeStep == TypeOK /\ [Next]_vars => TypeOK'
  <1> SUFFICES ASSUME TypeOK, [Next]_vars PROVE TypeOK'
    OBVIOUS
  <1>1. CASE UNCHANGED vars
    BY <1>1 DEF vars, server, store, bounds, past, TypeOK
  <1>2. CASE Arrive
    BY <1>2, ArriveType
  <1>3. CASE LoopStep \/ Dropped
    BY <1>3, LoopType
  <1>4. CASE \E s \in Slot : CallStep(s) \/ CallFails(s) \/ DeleteReplyLost(s)
    BY <1>4, CallType
  <1>5. CASE NewMail
    BY <1>5, NewMailType
  <1>6. CASE Refresh \/ Delete \/ SwitchAway \/ SwitchTo
    BY <1>6, KeyType
  <1> QED BY <1>1, <1>2, <1>3, <1>4, <1>5, <1>6 DEF Next

\* Types, for every instance.
THEOREM SpecTypeOK == Spec => []TypeOK
  BY InitType, TypeStep, PTL DEF Spec

----------------------------------------------------------------------------
(* What is announced *)

\* The events that wait and hold u.
Holding(E, u) == {i \in DOMAIN E : u \in E[i]}

LEMMA HoldingFinite ==
    ASSUME NEW S, NEW E \in Seq(S), NEW u
    PROVE  IsFiniteSet(Holding(E, u)) /\ Cardinality(Holding(E, u)) \in Nat
  <1>1. IsFiniteSet(1..Len(E)) /\ DOMAIN E = 1..Len(E)
    BY FS_Interval
  <1>2. Holding(E, u) \in SUBSET (1..Len(E))
    BY <1>1 DEF Holding
  <1>3. IsFiniteSet(Holding(E, u))
    BY <1>1, <1>2, FS_Subset
  <1> QED BY <1>3, FS_CardinalityType

\* An event sent counts for what it holds, and for nothing else.
LEMMA HoldingAppend ==
    ASSUME NEW S, NEW E \in Seq(S), NEW B \in S, NEW u
    PROVE  Cardinality(Holding(Append(E, B), u)) =
             Cardinality(Holding(E, u)) + (IF u \in B THEN 1 ELSE 0)
  <1> DEFINE F == Append(E, B)
             n == Len(E) + 1
  <1>1. /\ Len(E) \in Nat /\ DOMAIN E = 1..Len(E) /\ DOMAIN F = 1..n
        /\ F[n] = B /\ \A i \in DOMAIN E : F[i] = E[i]
    OBVIOUS
  <1>2. IsFiniteSet(Holding(E, u)) /\ Cardinality(Holding(E, u)) \in Nat
    BY HoldingFinite
  <1>3. n \notin Holding(E, u)
    BY <1>1 DEF Holding
  <1>4. \A i : i \in DOMAIN F <=> i \in DOMAIN E \/ i = n
    BY <1>1
  <1> HIDE DEF F, n
  <1>5. CASE u \in B
    <2>1. Holding(F, u) = Holding(E, u) \cup {n}
      BY <1>1, <1>4, <1>5 DEF Holding
    <2>2. Cardinality(Holding(E, u) \cup {n}) = Cardinality(Holding(E, u)) + 1
      BY <1>2, <1>3, FS_AddElement
    <2>3. Cardinality(Holding(F, u)) = Cardinality(Holding(E, u)) + 1
      BY <2>1, <2>2
    <2> QED BY <1>5, <2>3 DEF F
  <1>6. CASE u \notin B
    <2>1. Holding(F, u) = Holding(E, u)
      BY <1>1, <1>4, <1>6 DEF Holding
    <2> QED BY <1>2, <1>6, <2>1 DEF F
  <1> QED BY <1>5, <1>6

\* One taken no longer does.
LEMMA HoldingTail ==
    ASSUME NEW S, NEW E \in Seq(S), E # <<>>, NEW u
    PROVE  Cardinality(Holding(E, u)) =
             Cardinality(Holding(Tail(E), u)) + (IF u \in Head(E) THEN 1 ELSE 0)
  <1> DEFINE F == Tail(E)
             A == Holding(E, u)
             T == Holding(F, u)
  <1>1. /\ Len(E) \in Nat /\ DOMAIN E = 1..Len(E) /\ DOMAIN F = 1..Len(E) - 1
        /\ Len(E) >= 1 /\ Head(E) = E[1] /\ \A i \in DOMAIN F : F[i] = E[i + 1]
        /\ F \in Seq(S)
    OBVIOUS
  <1>2. IsFiniteSet(A) /\ Cardinality(A) \in Nat /\ IsFiniteSet(T) /\ Cardinality(T) \in Nat
    BY <1>1, HoldingFinite
  <1>3. IsFiniteSet(A \ {1}) /\ Cardinality(A \ {1}) = IF 1 \in A THEN Cardinality(A) - 1
                                                       ELSE Cardinality(A)
    BY <1>2, FS_RemoveElement
  <1>4. 1 \in A <=> u \in Head(E)
    BY <1>1 DEF Holding
  <1>5. Cardinality(A \ {1}) = Cardinality(T)
    <2> DEFINE f == [i \in T |-> i + 1]
    <2>1. \A i \in T : i + 1 \in A \ {1} /\ i \in Nat
      BY <1>1 DEF Holding
    <2>2. \A j \in A \ {1} : j - 1 \in T /\ f[j - 1] = j
      <3> SUFFICES ASSUME NEW j \in A \ {1} PROVE j - 1 \in T /\ f[j - 1] = j
        OBVIOUS
      <3>1. j \in 1..Len(E) /\ j # 1 /\ u \in E[j]
        BY <1>1 DEF Holding
      <3>2. j - 1 \in 1..Len(E) - 1 /\ (j - 1) + 1 = j
        BY <1>1, <3>1
      <3>3. j - 1 \in T
        BY <1>1, <3>1, <3>2 DEF Holding
      <3> QED BY <3>2, <3>3
    <2>3. f \in Bijection(T, A \ {1})
      <3>1. f \in [T -> A \ {1}]
        BY <2>1
      <3>2. \A a, b \in T : f[a] = f[b] => a = b
        BY <2>1
      <3>3. \A j \in A \ {1} : \E i \in T : f[i] = j
        BY <2>2
      <3> HIDE DEF f, A, T
      <3> QED BY <3>1, <3>2, <3>3 DEF Bijection, Injection, Surjection, IsInjective
    <2>4. ExistsBijection(T, A \ {1})
      BY <2>3 DEF ExistsBijection
    <2> HIDE DEF A, T
    <2> QED BY <1>2, <2>4, FS_Bijection
  <1> HIDE DEF A, T, F
  <1>6. Cardinality(A) = Cardinality(T) + (IF u \in Head(E) THEN 1 ELSE 0)
    BY <1>2, <1>3, <1>4, <1>5
  <1> QED BY <1>6 DEF A, T, F

LEMMA AnnouncedIs ==
    ASSUME TypeOK, NEW u \in Uid
    PROVE  /\ Announced(u) = notified[u] + Cardinality(Holding(events, u))
           /\ Announced(u) \in Nat /\ survived[u] \in Nat /\ notified[u] \in Nat
           /\ Cardinality(Holding(events, u)) \in Nat
           /\ notified[u] <= Announced(u)
  <1>1. /\ notified[u] \in Nat /\ survived[u] \in Nat
        /\ Cardinality(Holding(events, u)) \in Nat
    BY HoldingFinite DEF TypeOK
  <1>2. Announced(u) = notified[u] + Cardinality(Holding(events, u))
    BY DEF Announced, Holding
  <1> QED BY <1>1, <1>2

\* All that has to do with a message comes after the server gave its UID.
Given == 1..given
GivenInv ==
    /\ inbox \subseteq Given /\ cache \subseteq Given /\ screen.shown \subseteq Given
    /\ loop.batch \subseteq Given
    /\ \A s \in Slot :
        /\ calls[s].batch \subseteq Given
        /\ calls[s].pc \in {"expunge", "drop"} => calls[s].want \subseteq Given

\* What the loop is about to fetch; at the two SELECTs before a whole fetch,
\* all there is.
Aim == IF loop.pc \in {"first", "again"} THEN inbox ELSE loop.want

InCache(u) == IF u \in cache THEN 1 ELSE 0

\* A message in the inbox has been announced as often as it has lost its row,
\* and once more if it has a row now; so the loop, which looks above the rows,
\* fetches none that would be announced too often; nor is the batch that it is
\* about to send, whose rows it has stored, unless a deletion has taken them.
AnnounceInv ==
    /\ \A u \in Uid : Announced(u) <= 1 + survived[u]
    /\ \A u \in Uid : Announced(u) > 0 => recorded /\ u \in Given
    /\ \A u \in inbox : Announced(u) <= survived[u] + InCache(u)
    /\ \A u \in Aim \cap inbox : Announced(u) <= survived[u]
    /\ \A u \in loop.batch : Announced(u) <= survived[u]
    /\ loop.pc \in {"record", "send"} =>
        \A u \in loop.batch \cap inbox : Announced(u) + 1 <= survived[u] + InCache(u)
    /\ loop.pc = "send" => recorded
    /\ \A s \in Slot : calls[s].pc = "drop" => calls[s].want \cap inbox \subseteq calls[s].left

Inv == TypeOK /\ GivenInv /\ AnnounceInv

\* How the locals of a call look when it has just been started.
LEMMA CallFields ==
    /\ \A kind, pc : /\ Call(kind, pc).pc = pc
                     /\ Call(kind, pc).want = {} /\ Call(kind, pc).batch = {}
    /\ Free.pc = "free" /\ Free.want = {} /\ Free.batch = {}
    /\ \A u : /\ [Call("delete", "expunge") EXCEPT !.want = {u}].pc = "expunge"
              /\ [Call("delete", "expunge") EXCEPT !.want = {u}].want = {u}
              /\ [Call("delete", "expunge") EXCEPT !.want = {u}].batch = {}
    /\ \A kind : /\ [Call(kind, "answer") EXCEPT !.ok = FALSE].pc = "answer"
                 /\ [Call(kind, "answer") EXCEPT !.ok = FALSE].batch = {}
  BY DEF Call, Free

LEMMA GivenNatural == ASSUME TypeOK PROVE given \in Nat /\ Given \subseteq Uid
  BY ConstantTypes DEF TypeOK, Given, Uid

SyncPcs == {"select", "first", "max", "again", "fetch", "store", "record", "send", "read"}

\* What a step of a synchronisation leaves in its task's locals.
LEMMA SyncStepLocals ==
    ASSUME TypeOK, NEW t \in Task, SyncStep(t)
    PROVE  /\ UNCHANGED <<server, events, screen, bounds, past>>
           /\ recorded => recorded'
           /\ cache \subseteq cache' /\ cache' \subseteq cache \cup Locals(t).batch
           /\ \E c \in CallRecord :
                /\ Become(t, c)
                /\ c.pc \in SyncPcs
                /\ c.batch \subseteq Locals(t).batch \cup inbox
  <1>0. Locals(t) \in CallRecord BY LocalsType
  <1>1. CASE Look(t)
    <2> DEFINE c == [Locals(t) EXCEPT !.pc = IF recorded THEN "select" ELSE "first"]
    <2>1. c \in CallRecord /\ c.pc \in {"select", "first"} /\ c.batch = Locals(t).batch
      BY <1>0 DEF CallRecord
    <2> QED BY <1>1, <2>1 DEF Look, store, SyncPcs
  <1>6. CASE Select(t)
    <2>1. PICK c \in CallRecord :
             Become(t, c) /\ c.pc \in {"max", "fetch"} /\ c.batch = Locals(t).batch
      BY <1>6, SelectLocals
    <2> QED BY <1>6, <2>1 DEF Select, store, SyncPcs
  <1>2. CASE ReadMax(t)
    <2>1. PICK c \in CallRecord :
             Become(t, c) /\ c.pc \in {"again", "fetch"} /\ c.batch = Locals(t).batch
      BY <1>2, ReadMaxLocals
    <2> QED BY <1>2, <2>1 DEF ReadMax, store, SyncPcs
  <1>3. CASE Fetch(t)
    <2> DEFINE c == [Locals(t) EXCEPT !.pc = "store", !.want = {},
                                      !.batch = Locals(t).want \cap inbox]
    <2>1. Locals(t).want \cap inbox \subseteq Uid
      BY DEF TypeOK
    <2>2. c \in CallRecord /\ c.pc = "store" /\ c.batch \subseteq inbox
      BY <1>0, <2>1 DEF CallRecord
    <2> QED BY <1>3, <2>2 DEF Fetch, store, SyncPcs
  <1>4. CASE Store(t)
    <2> DEFINE c == [Locals(t) EXCEPT !.pc = "record"]
    <2>1. c \in CallRecord /\ c.pc = "record" /\ c.batch = Locals(t).batch
      BY <1>0 DEF CallRecord
    <2> QED BY <1>4, <2>1 DEF Store, SyncPcs
  <1>5. CASE Record(t)
    <2> DEFINE c == IF t = LoopId THEN [loop EXCEPT !.pc = "send"] ELSE Call("sync", "read")
    <2>1. t = LoopId => Locals(t) = loop
      BY DEF Locals
    <2>2. [loop EXCEPT !.pc = "send"] \in CallRecord
      BY DEF TypeOK, CallRecord
    <2>3. Call("sync", "read") \in CallRecord
      BY FreshCallType
    <2>4. c \in CallRecord /\ c.pc \in {"send", "read"} /\ c.batch \subseteq Locals(t).batch
      BY <2>1, <2>2, <2>3, CallFields DEF TypeOK, CallRecord
    <2> QED BY <1>5, <2>4 DEF Record, SyncPcs
  <1> QED BY <1>1, <1>2, <1>3, <1>4, <1>5, <1>6 DEF SyncStep

LEMMA SyncStepGiven ==
    ASSUME TypeOK, GivenInv, NEW t \in Task, SyncStep(t)
    PROVE  GivenInv'
  <1>1. PICK c \in CallRecord :
           /\ Become(t, c)
           /\ c.pc \in SyncPcs
           /\ c.batch \subseteq Locals(t).batch \cup inbox
    BY SyncStepLocals
  <1>2. Locals(t).batch \subseteq Given
    BY DEF Locals, Task, GivenInv
  <1>3. UNCHANGED <<inbox, given, screen>> /\ cache' \subseteq Given'
    BY <1>2, SyncStepLocals DEF server, GivenInv, Given
  <1>4. c.batch \subseteq Given
    BY <1>1, <1>2 DEF GivenInv
  <1>5. \/ loop' = c /\ UNCHANGED calls
        \/ UNCHANGED loop /\ calls' = [calls EXCEPT ![t] = c]
    BY <1>1 DEF Become
  <1> QED BY <1>1, <1>3, <1>4, <1>5 DEF GivenInv, Given, TypeOK, SyncPcs

\* What the steps of a deletion do to it.
LEMMA DeleteSteps ==
    ASSUME TypeOK, NEW s \in Slot,
           DeleteAtServer(s) \/ DeleteOnlyMarks(s) \/ DeleteRow(s)
    PROVE  /\ \A r \in Slot : r # s => calls'[r] = calls[r]
           /\ calls'[s].want = calls[s].want /\ calls'[s].batch = calls[s].batch
           /\ DeleteAtServer(s) \/ DeleteOnlyMarks(s) =>
                calls[s].pc = "expunge" /\ calls'[s].pc = "drop"
           /\ DeleteOnlyMarks(s) => calls'[s].left = calls[s].want \cap inbox
           /\ DeleteRow(s) => calls[s].pc = "drop" /\ calls'[s].pc = "answer"
  <1>0. calls \in [Slot -> CallRecord] /\ calls[s] \in CallRecord /\ s # LoopId
    BY ConstantTypes DEF TypeOK
  <1>2. ASSUME DeleteOnlyMarks(s)
        PROVE  /\ \A r \in Slot : r # s => calls'[r] = calls[r]
               /\ calls'[s].want = calls[s].want /\ calls'[s].batch = calls[s].batch
               /\ calls[s].pc = "expunge" /\ calls'[s].pc = "drop"
               /\ calls'[s].left = calls[s].want \cap inbox
    <2> DEFINE c == [calls[s] EXCEPT !.pc = "drop", !.left = calls[s].want \cap inbox]
    <2>1. calls' = [calls EXCEPT ![s] = c] /\ calls[s].pc = "expunge"
      BY <1>0, <1>2 DEF DeleteOnlyMarks, At
    <2>2. /\ c.pc = "drop" /\ c.want = calls[s].want /\ c.batch = calls[s].batch
          /\ c.left = calls[s].want \cap inbox
      BY <1>0 DEF CallRecord
    <2> HIDE DEF c
    <2> QED BY <1>0, <1>2, <2>1, <2>2
  <1>1. CASE DeleteAtServer(s)
    <2>1. calls' = [calls EXCEPT ![s] = [calls[s] EXCEPT !.pc = "drop"]] /\ calls[s].pc = "expunge"
      BY <1>0, <1>1 DEF DeleteAtServer, At
    <2>2. /\ [calls[s] EXCEPT !.pc = "drop"].pc = "drop"
          /\ [calls[s] EXCEPT !.pc = "drop"].want = calls[s].want
          /\ [calls[s] EXCEPT !.pc = "drop"].batch = calls[s].batch
      BY <1>0 DEF CallRecord
    <2>3. ~DeleteRow(s)
      BY <1>0, <2>1 DEF DeleteRow, At
    <2> QED BY <1>0, <1>1, <1>2, <2>1, <2>2, <2>3
  <1>3. CASE DeleteRow(s)
    <2> DEFINE c == [calls[s] EXCEPT !.pc = "answer", !.left = {}]
    <2>1. calls' = [calls EXCEPT ![s] = c] /\ calls[s].pc = "drop"
      BY <1>0, <1>3 DEF DeleteRow, At
    <2>2. c.pc = "answer" /\ c.want = calls[s].want /\ c.batch = calls[s].batch
      BY <1>0 DEF CallRecord
    <2> HIDE DEF c
    <2>3. ~DeleteAtServer(s) /\ ~DeleteOnlyMarks(s)
      BY <1>0, <2>1 DEF DeleteAtServer, DeleteOnlyMarks, At
    <2> QED BY <1>0, <1>3, <2>1, <2>2, <2>3
  <1>4. CASE DeleteOnlyMarks(s)
    <2>1. ~DeleteRow(s)
      BY <1>0, <1>2, <1>4 DEF DeleteRow, At
    <2> QED BY <1>2, <1>4, <2>1
  <1> QED BY <1>1, <1>3, <1>4

LEMMA GivenStep == TypeOK /\ GivenInv /\ [Next]_vars => GivenInv'
  <1> SUFFICES ASSUME TypeOK, GivenInv, [Next]_vars PROVE GivenInv'
    OBVIOUS
  <1>0. given \in Nat /\ calls \in [Slot -> CallRecord]
    BY GivenNatural DEF TypeOK
  <1>1. CASE UNCHANGED vars
    BY <1>1 DEF vars, server, store, bounds, GivenInv, Given
  <1>2. CASE Arrive
    <2>1. Given \subseteq Given' /\ given + 1 \in Given'
      BY <1>0, <1>2 DEF Arrive, Given
    <2> QED BY <1>2, <2>1 DEF Arrive, GivenInv, store
  <1>3. CASE LoopStep \/ Dropped
    <2>1. CASE SyncStep(LoopId)
      BY <2>1, SyncStepGiven DEF Task
    <2>2. CASE Open \/ EnterIdle \/ Wake \/ SendNewMail \/ Dropped
      <3>1. loop'.batch = {}
        BY <2>2, CallFields DEF Open, EnterIdle, Wake, SendNewMail, Dropped, LoopGoes
      <3> QED BY <2>2, <3>1 DEF Open, EnterIdle, Wake, SendNewMail, Dropped, GivenInv, Given,
                                server, store
    <2> QED BY <1>3, <2>1, <2>2 DEF LoopStep
  <1>4. ASSUME NEW s \in Slot, CallStep(s) \/ CallFails(s) \/ DeleteReplyLost(s) PROVE GivenInv'
    <2>1. CASE SyncStep(s)
      BY <2>1, SyncStepGiven DEF Task
    <2>2. CASE ReadList(s)
      <3>1. CachedList \subseteq Given
        BY NewestSubset DEF CachedList, GivenInv
      <3>2. [Call(calls[s].kind, "answer") EXCEPT !.batch = CachedList].pc = "answer"
            /\ [Call(calls[s].kind, "answer") EXCEPT !.batch = CachedList].batch = CachedList
        BY DEF Call, Free
      <3> QED BY <1>0, <2>2, <3>1, <3>2 DEF ReadList, GivenInv, Given, server, store
    <2>3. CASE DeleteAtServer(s) \/ DeleteOnlyMarks(s) \/ DeleteRow(s)
      <3>1. /\ UNCHANGED <<given, loop, screen>> /\ inbox' \subseteq inbox
            /\ cache' \subseteq cache
        BY <2>3 DEF DeleteAtServer, DeleteOnlyMarks, DeleteRow, server, store
      <3> QED BY <2>3, <3>1, DeleteSteps DEF GivenInv, Given
    <2>4. CASE CallFails(s) \/ DeleteReplyLost(s)
      <3>1. /\ UNCHANGED <<given, cache, loop, screen>> /\ inbox' \subseteq inbox
            /\ calls' = [calls EXCEPT ![s] = [Call(calls[s].kind, "answer") EXCEPT !.ok = FALSE]]
        BY <2>4 DEF CallFails, DeleteReplyLost, Fails, server, store
      <3> QED BY <1>0, <3>1, CallFields DEF GivenInv, Given
    <2>5. CASE Answered(s)
      <3>1. calls[s].batch \subseteq Given
        BY DEF GivenInv
      <3>2. Answer(calls[s]).shown \subseteq Given
        BY <3>1 DEF Answer, GivenInv, TypeOK, Screen
      <3> QED BY <1>0, <2>5, <3>2, CallFields DEF Answered, GivenInv, Given, server, store
    <2> QED BY <1>4, <2>1, <2>2, <2>3, <2>4, <2>5 DEF CallStep
  <1>5. CASE NewMail
    <2>1. UNCHANGED <<server, store, loop, screen>>
      BY <1>5 DEF NewMail
    <2>2. ASSUME NEW s \in Slot
          PROVE  \/ calls'[s] = calls[s]
                 \/ calls'[s].pc = "read" /\ calls'[s].batch = {}
      BY <1>5, SpawnKeeps, CallFields DEF NewMail, ListCall
    <2> QED BY <2>1, <2>2 DEF GivenInv, Given, server, store
  <1>6. CASE Refresh \/ Delete \/ SwitchAway \/ SwitchTo
    <2>1. UNCHANGED <<server, store, loop>> /\ screen'.shown \subseteq Given
      <3>1. \A st : [screen EXCEPT !.state = st].shown = screen.shown
        BY DEF TypeOK, Screen
      <3>2. screen.shown \subseteq Given
        BY DEF GivenInv
      <3>3. UNCHANGED <<server, store, loop>>
        BY <1>6 DEF Refresh, Delete, SwitchAway, SwitchTo
      <3>4. screen' = screen \/ screen' = [screen EXCEPT !.state = "loading"] \/ screen'.shown = {}
        BY <1>6 DEF Refresh, Delete, SwitchAway, SwitchTo
      <3> QED BY <3>1, <3>2, <3>3, <3>4
    <2>2. ASSUME NEW s \in Slot
          PROVE  \/ calls'[s] = calls[s]
                 \/ calls'[s].pc \in {"look", "read"} /\ calls'[s].batch = {}
                 \/ /\ calls'[s].pc = "expunge" /\ calls'[s].batch = {}
                    /\ calls'[s].want \subseteq Given
      <3>1. CASE Refresh
        BY <3>1, SpawnKeeps, CallFields DEF Refresh, SyncCall
      <3>2. CASE Delete
        <4>1. PICK u \in screen.shown :
                 Spawn({[Call("delete", "expunge") EXCEPT !.want = {u}]})
          BY <3>2 DEF Delete
        <4> DEFINE d == [Call("delete", "expunge") EXCEPT !.want = {u}]
        <4>2. {u} \subseteq Given
          BY DEF GivenInv
        <4>3. d.pc = "expunge" /\ d.want = {u} /\ d.batch = {}
          BY CallFields
        <4>4. Spawn({d})
          BY <4>1
        <4> HIDE DEF d
        <4>5. calls'[s] = d \/ calls'[s] = calls[s]
          BY <4>4, SpawnKeeps
        <4> QED BY <4>2, <4>3, <4>5
      <3>3. CASE SwitchAway
        BY <3>3 DEF SwitchAway
      <3>4. CASE SwitchTo
        BY <3>4, SpawnKeeps, CallFields DEF SwitchTo, ListCall, SyncCall
      <3> QED BY <1>6, <3>1, <3>2, <3>3, <3>4
    <2> QED BY <2>1, <2>2 DEF GivenInv, Given, server, store
  <1> QED BY <1>1, <1>2, <1>3, <1>4, <1>5, <1>6 DEF Next

\* A step that leaves loop, events and notifications alone, may let messages
\* go from the server, and from the cache those that are gone or are counted.
LEMMA AnnounceKept ==
    ASSUME TypeOK, AnnounceInv, UNCHANGED <<loop, events, notified, given>>,
           inbox' \subseteq inbox, recorded => recorded',
           \A u \in Uid : survived'[u] \in Nat /\ survived[u] <= survived'[u],
           \A u \in inbox' : survived[u] + InCache(u) <= survived'[u] + InCache(u)',
           \A s \in Slot : calls'[s].pc = "drop" =>
                             calls'[s].want \cap inbox' \subseteq calls'[s].left
    PROVE  AnnounceInv'
  <1>1. \A u \in Uid : Announced(u)' = Announced(u) /\ Announced(u) \in Nat /\ survived[u] \in Nat
    BY AnnouncedIs DEF Announced
  <1>2. /\ inbox \subseteq Uid /\ loop.batch \subseteq Uid /\ loop.want \subseteq Uid
        /\ Aim' \cap inbox' \subseteq Aim \cap inbox
    BY DEF TypeOK, CallRecord, Aim
  <1>3. \A u \in Uid : InCache(u) \in {0, 1} /\ InCache(u)' \in {0, 1}
    BY DEF InCache
  <1>4. \A u \in Uid : Announced(u)' <= 1 + survived'[u]
    BY <1>1 DEF AnnounceInv
  <1>5. \A u \in Uid : Announced(u)' > 0 => recorded' /\ u \in Given'
    BY <1>1 DEF AnnounceInv, Given
  <1>6. \A u \in inbox' : Announced(u)' <= survived'[u] + InCache(u)'
    BY <1>1, <1>2, <1>3 DEF AnnounceInv
  <1>7. \A u \in Aim' \cap inbox' : Announced(u)' <= survived'[u]
    BY <1>1, <1>2 DEF AnnounceInv
  <1>8. \A u \in loop'.batch : Announced(u)' <= survived'[u]
    BY <1>1, <1>2 DEF AnnounceInv
  <1>9. loop'.pc \in {"record", "send"} =>
          \A u \in loop'.batch \cap inbox' : Announced(u)' + 1 <= survived'[u] + InCache(u)'
    BY <1>1, <1>2, <1>3 DEF AnnounceInv
  <1> QED BY <1>4, <1>5, <1>6, <1>7, <1>8, <1>9 DEF AnnounceInv

\* A step of the loop that announces nothing, and leaves the cache with no
\* less.
NothingNew ==
    /\ \A u \in loop'.batch : Announced(u) <= survived[u]
    /\ \A u \in Aim' \cap inbox : Announced(u) <= survived[u]
    /\ loop'.pc \in {"record", "send"} =>
        \A u \in loop'.batch \cap inbox : Announced(u) + 1 <= survived[u] + InCache(u)'
    /\ loop'.pc = "send" => recorded'

LEMMA AnnounceLoop ==
    ASSUME TypeOK, AnnounceInv, UNCHANGED <<inbox, given, calls, events, past>>,
           recorded => recorded', cache \subseteq cache', NothingNew
    PROVE  AnnounceInv'
  <1>1. \A u : Announced(u)' = Announced(u) /\ survived'[u] = survived[u]
    BY DEF Announced, past
  <1>2. \A u \in Uid : Announced(u) \in Nat /\ survived[u] \in Nat
    BY AnnouncedIs
  <1>3. \A u \in inbox : Announced(u) <= survived[u] + InCache(u)'
    BY <1>2 DEF AnnounceInv, InCache, TypeOK
  <1> QED BY <1>1, <1>3 DEF AnnounceInv, Given, NothingNew

LEMMA LoopSyncAnnounce ==
    ASSUME TypeOK, GivenInv, AnnounceInv, SyncStep(LoopId)
    PROVE  AnnounceInv'
  <1>0. /\ LoopId \in Task /\ Locals(LoopId) = loop /\ loop \in CallRecord
        /\ \A c : Become(LoopId, c) => loop' = c /\ UNCHANGED calls
        /\ \A pc : At(LoopId, pc) <=> loop.pc = pc
    BY DEF Task, Locals, TypeOK, Become, At
  <1>1. /\ UNCHANGED <<inbox, given, calls, events, past>>
        /\ recorded => recorded'
        /\ cache \subseteq cache'
    BY <1>0, SyncStepLocals DEF server, bounds
  <1>batch. /\ \A u \in loop.batch : Announced(u) <= survived[u]
            /\ \A u \in Aim \cap inbox : Announced(u) <= survived[u]
            /\ loop.pc = "record" =>
                \A u \in loop.batch \cap inbox : Announced(u) + 1 <= survived[u] + InCache(u)
    BY DEF AnnounceInv
  <1>num. \A u \in Uid : Announced(u) \in Nat /\ survived[u] \in Nat
    BY AnnouncedIs
  <1>sub. inbox \subseteq Uid /\ loop.batch \subseteq Uid
    BY DEF TypeOK, CallRecord
  <1>2. CASE Look(LoopId)
    <2>1. loop' = [loop EXCEPT !.pc = IF recorded THEN "select" ELSE "first"] /\ loop.pc = "look"
      BY <1>0, <1>2 DEF Look
    <2>2. /\ loop'.pc = (IF recorded THEN "select" ELSE "first")
          /\ loop'.batch = loop.batch /\ loop'.want = loop.want
      BY <1>0, <2>1 DEF CallRecord
    <2>3. ~recorded => \A u \in inbox : Announced(u) <= survived[u]
      BY <1>num, <1>sub DEF AnnounceInv
    <2>new. NothingNew
      BY <1>batch, <1>1, <2>1, <2>2, <2>3 DEF NothingNew, Aim
    <2> QED BY <1>1, <2>new, AnnounceLoop
  <1>3. CASE Select(LoopId)
    <2>1. PICK c : /\ Become(LoopId, c) /\ c.pc \in {"max", "fetch"} /\ c.batch = loop.batch
                   /\ IF At(LoopId, "select") THEN c.want = loop.want /\ c.pc = "max"
                      ELSE c.want \subseteq inbox /\ (At(LoopId, "first") \/ At(LoopId, "again"))
      BY <1>0, <1>3, SelectLocals
    <2>2. loop' = c
      BY <1>0, <2>1
    <2>3. Aim' \cap inbox \subseteq Aim \cap inbox
      BY <1>0, <2>1, <2>2 DEF Aim
    <2>new. NothingNew
      BY <1>batch, <1>1, <2>1, <2>2, <2>3 DEF NothingNew
    <2> QED BY <1>1, <2>new, AnnounceLoop
  <1>4. CASE ReadMax(LoopId)
    <2>1. PICK c : /\ Become(LoopId, c) /\ c.pc \in {"again", "fetch"} /\ c.batch = loop.batch
                   /\ c.pc = "again" => cache = {}
                   /\ c.pc = "fetch" => c.want \cap cache = {}
      BY <1>0, <1>4, ReadMaxLocals
    <2>2. loop' = c
      BY <1>0, <2>1
    <2>3. Aim' \cap inbox \cap cache = {}
      BY <1>1, <2>1, <2>2 DEF Aim
    <2>4. \A u \in Aim' \cap inbox : Announced(u) <= survived[u]
      BY <1>num, <1>sub, <2>3 DEF AnnounceInv, InCache
    <2>new. NothingNew
      BY <1>batch, <1>1, <2>1, <2>2, <2>4 DEF NothingNew
    <2> QED BY <1>1, <2>new, AnnounceLoop
  <1>5. CASE Fetch(LoopId)
    <2>1. /\ loop' = [loop EXCEPT !.pc = "store", !.want = {}, !.batch = loop.want \cap inbox]
          /\ loop.pc = "fetch"
      BY <1>0, <1>5 DEF Fetch
    <2>2. loop'.pc = "store" /\ loop'.want = {} /\ loop'.batch = loop.want \cap inbox
      BY <1>0, <2>1 DEF CallRecord
    <2>3. Aim = loop.want /\ Aim' = {}
      BY <2>1, <2>2 DEF Aim
    <2>new. NothingNew
      BY <1>batch, <1>1, <2>2, <2>3 DEF NothingNew
    <2> QED BY <1>1, <2>new, AnnounceLoop
  <1>6. CASE Store(LoopId)
    <2>1. /\ loop' = [loop EXCEPT !.pc = "record"] /\ cache' = cache \cup loop.batch
          /\ loop.pc = "store"
      BY <1>0, <1>6 DEF Store
    <2>2. loop'.pc = "record" /\ loop'.want = loop.want /\ loop'.batch = loop.batch
      BY <1>0, <2>1 DEF CallRecord
    <2>3. Aim' = Aim
      BY <2>1, <2>2 DEF Aim
    <2>4. \A u \in loop.batch \cap inbox : Announced(u) + 1 <= survived[u] + InCache(u)'
      BY <1>batch, <1>num, <1>sub, <2>1 DEF InCache
    <2>new. NothingNew
      BY <1>batch, <1>1, <2>2, <2>3, <2>4 DEF NothingNew
    <2> QED BY <1>1, <2>new, AnnounceLoop
  <1>7. CASE Record(LoopId)
    <2>1. /\ loop' = [loop EXCEPT !.pc = "send"] /\ recorded' /\ loop.pc = "record"
          /\ cache' = cache
      BY <1>0, <1>7 DEF Record
    <2>2. loop'.pc = "send" /\ loop'.want = loop.want /\ loop'.batch = loop.batch
      BY <1>0, <2>1 DEF CallRecord
    <2>3. Aim' = Aim /\ \A u : InCache(u)' = InCache(u)
      BY <2>1, <2>2 DEF Aim, InCache
    <2>new. NothingNew
      BY <1>batch, <1>1, <2>1, <2>2, <2>3 DEF NothingNew
    <2> QED BY <1>1, <2>new, AnnounceLoop
  <1> QED BY <1>2, <1>3, <1>4, <1>5, <1>6, <1>7 DEF SyncStep

\* The batch goes into an event: each of it may be announced once more.
LEMMA SendAnnounce ==
    ASSUME TypeOK, GivenInv, AnnounceInv, SendNewMail
    PROVE  AnnounceInv'
  <1>1. /\ events' = Append(events, loop.batch) /\ loop.pc = "send"
        /\ loop'.pc = "init" /\ loop'.want = {} /\ loop'.batch = {}
        /\ UNCHANGED <<inbox, given, cache, recorded, calls, notified, survived>>
    BY CallFields DEF SendNewMail, LoopGoes, server, store, past
  <1>2. \A u \in Uid : Announced(u)' = Announced(u) + (IF u \in loop.batch THEN 1 ELSE 0)
    <2> SUFFICES ASSUME NEW u \in Uid
                 PROVE  Announced(u)' = Announced(u) + (IF u \in loop.batch THEN 1 ELSE 0)
      OBVIOUS
    <2>1. Announced(u)' = notified[u] + Cardinality(Holding(events', u))
      BY <1>1 DEF Announced, Holding
    <2>2. /\ Announced(u) = notified[u] + Cardinality(Holding(events, u))
          /\ notified[u] \in Nat /\ Cardinality(Holding(events, u)) \in Nat
      BY AnnouncedIs
    <2>3. events \in Seq(SUBSET Uid) /\ loop.batch \in SUBSET Uid
      BY DEF TypeOK, CallRecord
    <2>4. Cardinality(Holding(events', u)) =
            Cardinality(Holding(events, u)) + (IF u \in loop.batch THEN 1 ELSE 0)
      BY <1>1, <2>3, HoldingAppend
    <2> QED BY <2>1, <2>2, <2>4
  <1>3. \A u \in Uid : Announced(u) \in Nat /\ survived[u] \in Nat
    BY AnnouncedIs
  <1>4. /\ \A u \in loop.batch : Announced(u) <= survived[u] /\ u \in Given
        /\ \A u \in loop.batch \cap inbox : Announced(u) + 1 <= survived[u] + InCache(u)
        /\ recorded /\ inbox \subseteq Uid
    BY <1>1 DEF AnnounceInv, GivenInv, TypeOK
  <1>5. \A u \in Uid : Announced(u)' <= 1 + survived'[u]
    BY <1>1, <1>2, <1>3, <1>4 DEF AnnounceInv
  <1>6. \A u \in Uid : Announced(u)' > 0 => recorded' /\ u \in Given'
    BY <1>1, <1>2, <1>3, <1>4 DEF AnnounceInv, Given
  <1>7. \A u \in inbox' : Announced(u)' <= survived'[u] + InCache(u)'
    <2>1. \A u : InCache(u)' = InCache(u)
      BY <1>1 DEF InCache
    <2>2. \A u \in inbox : Announced(u) <= survived[u] + InCache(u)
      BY DEF AnnounceInv
    <2>3. \A u \in inbox : u \in Uid /\ InCache(u) \in {0, 1}
      BY <1>4 DEF InCache
    <2> QED BY <1>1, <1>2, <1>3, <1>4, <2>1, <2>2, <2>3
  <1>8. Aim' = {}
    BY <1>1 DEF Aim
  <1> QED BY <1>1, <1>5, <1>6, <1>7, <1>8 DEF AnnounceInv

\* An event is taken: what it holds is notified, and no longer waits.
LEMMA NewMailAnnounce ==
    ASSUME TypeOK, GivenInv, AnnounceInv, NewMail
    PROVE  AnnounceInv'
  <1>1. /\ events # <<>> /\ events' = Tail(events)
        /\ notified' = [u \in Uid |-> notified[u] + (IF u \in Head(events) THEN 1 ELSE 0)]
        /\ UNCHANGED <<inbox, given, cache, recorded, loop, survived>>
    BY DEF NewMail, server, store
  <1>2. \A u \in Uid : Announced(u)' = Announced(u)
    <2> SUFFICES ASSUME NEW u \in Uid PROVE Announced(u)' = Announced(u)
      OBVIOUS
    <2>1. Announced(u)' = notified'[u] + Cardinality(Holding(events', u))
      BY DEF Announced, Holding
    <2>2. /\ Announced(u) = notified[u] + Cardinality(Holding(events, u))
          /\ notified[u] \in Nat
      BY AnnouncedIs
    <2>3. events \in Seq(SUBSET Uid) /\ Tail(events) \in Seq(SUBSET Uid)
      BY <1>1 DEF TypeOK
    <2>4. Cardinality(Holding(events, u)) =
            Cardinality(Holding(events', u)) + (IF u \in Head(events) THEN 1 ELSE 0)
      BY <1>1, <2>3, HoldingTail
    <2>5. Cardinality(Holding(events', u)) \in Nat
      BY <1>1, <2>3, HoldingFinite
    <2> QED BY <1>1, <2>1, <2>2, <2>4, <2>5
  <1>3. ASSUME NEW s \in Slot, calls'[s].pc = "drop"
        PROVE  calls'[s].want \cap inbox' \subseteq calls'[s].left
    BY <1>1, <1>3, SpawnKeeps, CallFields DEF NewMail, ListCall, AnnounceInv
  <1>4. Aim' = Aim /\ (\A u : InCache(u)' = InCache(u)) /\ Given' = Given
    BY <1>1 DEF Aim, InCache, Given
  <1>5. inbox \subseteq Uid /\ loop.batch \subseteq Uid
    BY DEF TypeOK, CallRecord
  <1> QED BY <1>1, <1>2, <1>3, <1>4, <1>5 DEF AnnounceInv

LEMMA LoopAnnounce ==
    ASSUME TypeOK, GivenInv, AnnounceInv, LoopStep \/ Dropped
    PROVE  AnnounceInv'
  <1>1. CASE SyncStep(LoopId)
    BY <1>1, LoopSyncAnnounce
  <1>2. CASE SendNewMail
    BY <1>2, SendAnnounce
  <1>3. CASE Open \/ EnterIdle \/ Wake \/ Dropped
    <2>1. /\ UNCHANGED <<inbox, given, calls, events, past, cache, recorded>>
          /\ loop'.want = {} /\ loop'.batch = {} /\ loop'.pc \in {"init", "idle", "look", "open"}
      BY <1>3, CallFields DEF Open, EnterIdle, Wake, Dropped, LoopGoes, server, store
    <2>2. NothingNew
      BY <2>1 DEF NothingNew, Aim
    <2> QED BY <2>1, <2>2, AnnounceLoop
  <1> QED BY <1>1, <1>2, <1>3 DEF LoopStep

\* A deletion drops a row only when the server has removed the message, or
\* counts what it has left there.
LEMMA CallAnnounce ==
    ASSUME TypeOK, AnnounceInv, NEW s \in Slot,
           CallStep(s) \/ CallFails(s) \/ DeleteReplyLost(s)
    PROVE  AnnounceInv'
  <1>0. /\ calls \in [Slot -> CallRecord] /\ s \in Task /\ s # LoopId
        /\ \A r \in Slot : calls[r].pc = "drop" => calls[r].want \cap inbox \subseteq calls[r].left
        /\ \A u \in Uid : survived[u] \in Nat
        /\ inbox \subseteq Uid /\ \A u : InCache(u) \in {0, 1}
    BY ConstantTypes DEF TypeOK, Task, AnnounceInv, InCache
  <1>1. CASE SyncStep(s)
    <2>1. PICK c \in CallRecord : Become(s, c) /\ c.pc \in SyncPcs
      BY <1>0, <1>1, SyncStepLocals
    <2>2. UNCHANGED loop /\ calls' = [calls EXCEPT ![s] = c]
      BY <1>0, <2>1 DEF Become
    <2>3. /\ UNCHANGED <<inbox, given, events, notified, survived>> /\ cache \subseteq cache'
          /\ recorded => recorded'
      BY <1>0, <1>1, SyncStepLocals DEF server, bounds, past
    <2>4. \A r \in Slot : calls'[r].pc = "drop" => calls'[r].want \cap inbox' \subseteq calls'[r].left
      BY <1>0, <2>1, <2>2, <2>3 DEF SyncPcs
    <2>5. \A u \in inbox' : survived[u] + InCache(u) <= survived'[u] + InCache(u)'
      BY <1>0, <2>3 DEF InCache
    <2> QED BY <1>0, <2>2, <2>3, <2>4, <2>5, AnnounceKept
  <1>2. CASE ReadList(s) \/ CallFails(s) \/ DeleteReplyLost(s) \/ Answered(s)
    <2>1. /\ UNCHANGED <<given, events, notified, survived, loop, cache, recorded>>
          /\ inbox' \subseteq inbox
      BY <1>2 DEF ReadList, CallFails, DeleteReplyLost, Answered, server, store, bounds, past
    <2>2. PICK c : calls' = [calls EXCEPT ![s] = c] /\ c.pc \in {"answer", "free"}
      <3>1. [Call(calls[s].kind, "answer") EXCEPT !.batch = CachedList].pc = "answer"
        BY DEF Call, Free
      <3>2. CASE ReadList(s)
        BY <3>1, <3>2 DEF ReadList
      <3>3. CASE CallFails(s) \/ DeleteReplyLost(s)
        <4>1. calls' = [calls EXCEPT ![s] = [Call(calls[s].kind, "answer") EXCEPT !.ok = FALSE]]
          BY <3>3 DEF CallFails, DeleteReplyLost, Fails
        <4> QED BY <4>1, CallFields
      <3>4. CASE Answered(s)
        BY <3>4, CallFields DEF Answered
      <3> QED BY <1>2, <3>2, <3>3, <3>4
    <2>3. \A r \in Slot : calls'[r].pc = "drop" => calls'[r].want \cap inbox' \subseteq calls'[r].left
      BY <1>0, <2>1, <2>2
    <2>4. \A u \in inbox' : survived[u] + InCache(u) <= survived'[u] + InCache(u)'
      BY <1>0, <2>1 DEF InCache
    <2> QED BY <1>0, <2>1, <2>3, <2>4, AnnounceKept
  <1>3. CASE DeleteAtServer(s) \/ DeleteOnlyMarks(s)
    <2>1. /\ UNCHANGED <<given, events, notified, survived, loop, cache, recorded>>
          /\ inbox' \subseteq inbox
      BY <1>3 DEF DeleteAtServer, DeleteOnlyMarks, store, past
    <2>2. DeleteAtServer(s) => inbox' \cap calls[s].want = {}
      BY DEF DeleteAtServer
    <2>3. \A r \in Slot : calls'[r].pc = "drop" => calls'[r].want \cap inbox' \subseteq calls'[r].left
      BY <1>0, <1>3, <2>1, <2>2, DeleteSteps
    <2>4. \A u \in inbox' : survived[u] + InCache(u) <= survived'[u] + InCache(u)'
      BY <1>0, <2>1 DEF InCache
    <2> QED BY <1>0, <2>1, <2>3, <2>4, AnnounceKept
  <1>4. CASE DeleteRow(s)
    <2>1. /\ UNCHANGED <<inbox, given, events, notified, loop, recorded>>
          /\ cache' = cache \ calls[s].want
          /\ \A u \in Uid : survived'[u] =
                             survived[u] + (IF u \in calls[s].left \cap cache THEN 1 ELSE 0)
      BY <1>4 DEF DeleteRow, server
    <2>2. calls[s].want \cap inbox \subseteq calls[s].left
      BY <1>0, <1>4, DeleteSteps
    <2>3. \A r \in Slot : calls'[r].pc = "drop" => calls'[r].want \cap inbox' \subseteq calls'[r].left
      BY <1>0, <1>4, <2>1, DeleteSteps
    <2>4. \A u \in inbox' : survived[u] + InCache(u) <= survived'[u] + InCache(u)'
      BY <1>0, <2>1, <2>2 DEF InCache
    <2>5. \A u \in Uid : survived'[u] \in Nat /\ survived[u] <= survived'[u]
      BY <1>0, <2>1
    <2> QED BY <2>1, <2>3, <2>4, <2>5, AnnounceKept
  <1> QED BY <1>1, <1>2, <1>3, <1>4 DEF CallStep

LEMMA KeyAnnounce ==
    ASSUME TypeOK, AnnounceInv, Refresh \/ Delete \/ SwitchAway \/ SwitchTo
    PROVE  AnnounceInv'
  <1>1. UNCHANGED <<inbox, given, events, notified, survived, loop, cache, recorded>>
    BY DEF Refresh, Delete, SwitchAway, SwitchTo, server, store, past
  <1>2. ASSUME NEW s \in Slot, calls'[s].pc = "drop" PROVE calls'[s] = calls[s]
    <2>1. CASE Refresh
      BY <1>2, <2>1, SpawnKeeps, CallFields DEF Refresh, SyncCall
    <2>2. CASE Delete
      <3>1. PICK u \in screen.shown :
               Spawn({[Call("delete", "expunge") EXCEPT !.want = {u}]})
        BY <2>2 DEF Delete
      <3> DEFINE d == [Call("delete", "expunge") EXCEPT !.want = {u}]
      <3>2. d.pc = "expunge" /\ Spawn({d})
        BY <3>1, CallFields
      <3> HIDE DEF d
      <3> QED BY <1>2, <3>2, SpawnKeeps
    <2>3. CASE SwitchAway
      BY <2>3 DEF SwitchAway
    <2>4. CASE SwitchTo
      BY <1>2, <2>4, SpawnKeeps, CallFields DEF SwitchTo, ListCall, SyncCall
    <2> QED BY <2>1, <2>2, <2>3, <2>4
  <1>3. \A s \in Slot : calls'[s].pc = "drop" => calls'[s].want \cap inbox' \subseteq calls'[s].left
    BY <1>1, <1>2 DEF AnnounceInv
  <1>4. \A u \in Uid : survived'[u] \in Nat /\ survived[u] <= survived'[u]
    BY <1>1 DEF TypeOK
  <1>5. \A u \in inbox' : survived[u] + InCache(u) <= survived'[u] + InCache(u)'
    BY <1>1, <1>4 DEF InCache, TypeOK
  <1> QED BY <1>1, <1>3, <1>4, <1>5, AnnounceKept

\* A message that arrives has a UID that none had before.
LEMMA ArriveAnnounce ==
    ASSUME TypeOK, GivenInv, AnnounceInv, Arrive
    PROVE  AnnounceInv'
  <1>1. /\ UNCHANGED <<loop, calls, events, notified, survived, cache, recorded>>
        /\ inbox' = inbox \cup {given + 1} /\ given' = given + 1 /\ given + 1 \in Uid
    BY ConstantTypes DEF Arrive, store, past, TypeOK, Uid
  <1>2. given \in Nat /\ Given \subseteq Given' /\ given + 1 \notin Given
    BY <1>1, GivenNatural DEF Given
  <1>3. \A u : Announced(u)' = Announced(u) /\ InCache(u)' = InCache(u)
    BY <1>1 DEF Announced, InCache
  <1>4. \A u \in Uid : Announced(u) \in Nat /\ survived[u] \in Nat
    BY AnnouncedIs
  <1>5. Announced(given + 1) = 0
    BY <1>1, <1>2, <1>4 DEF AnnounceInv
  <1>6. ASSUME NEW s \in Slot, calls'[s].pc = "drop"
        PROVE  calls'[s].want \cap inbox' \subseteq calls'[s].left
    <2>1. calls'[s] = calls[s] /\ calls[s].want \subseteq Given
      BY <1>1, <1>6 DEF GivenInv
    <2> QED BY <1>1, <1>2, <1>6, <2>1 DEF AnnounceInv
  <1>7. \A u \in inbox' : Announced(u) <= survived[u] + InCache(u)
    BY <1>1, <1>4, <1>5 DEF AnnounceInv, InCache
  <1>8. \A u \in Aim' \cap inbox' : Announced(u) <= survived[u]
    <2>1. Aim' \cap inbox' \subseteq (Aim \cap inbox) \cup {given + 1}
      BY <1>1 DEF Aim
    <2> QED BY <1>1, <1>4, <1>5, <2>1 DEF AnnounceInv
  <1>9. \A u \in Uid : Announced(u) > 0 => recorded /\ u \in Given'
    BY <1>2 DEF AnnounceInv
  <1>10. loop.batch \cap inbox' \subseteq loop.batch \cap inbox
    BY <1>1, <1>2 DEF GivenInv
  <1> QED BY <1>1, <1>3, <1>6, <1>7, <1>8, <1>9, <1>10 DEF AnnounceInv

LEMMA AnnounceStep == TypeOK /\ GivenInv /\ AnnounceInv /\ [Next]_vars => AnnounceInv'
  <1> SUFFICES ASSUME TypeOK, GivenInv, AnnounceInv, [Next]_vars PROVE AnnounceInv'
    OBVIOUS
  <1>1. CASE UNCHANGED vars
    BY <1>1 DEF vars, server, store, past, AnnounceInv, Announced, Given, Aim, InCache
  <1>2. CASE Arrive
    BY <1>2, ArriveAnnounce
  <1>3. CASE LoopStep \/ Dropped
    BY <1>3, LoopAnnounce
  <1>4. CASE \E s \in Slot : CallStep(s) \/ CallFails(s) \/ DeleteReplyLost(s)
    BY <1>4, CallAnnounce
  <1>5. CASE NewMail
    BY <1>5, NewMailAnnounce
  <1>6. CASE Refresh \/ Delete \/ SwitchAway \/ SwitchTo
    BY <1>6, KeyAnnounce
  <1> QED BY <1>1, <1>2, <1>3, <1>4, <1>5, <1>6 DEF Next

LEMMA InvInit == ASSUME Init PROVE Inv
  <1>1. TypeOK
    BY InitType
  <1>2. /\ inbox = 1..given /\ cache \subseteq Given
        /\ loop.batch = {} /\ loop.want = {} /\ loop.pc = "open"
        /\ \A s \in Slot : calls[s].batch = {} /\ calls[s].pc \in {"look", "free"}
        /\ events = <<>> /\ notified = [u \in Uid |-> 0]
    BY CallFields, ConstantTypes DEF Init, Given, SyncCall
  <1>3. screen.shown \subseteq Given
    BY <1>2, NewestSubset DEF Init, CachedList
  <1>4. GivenInv
    BY <1>2, <1>3 DEF GivenInv, Given
  <1>5. \A u \in Uid : Announced(u) = 0 /\ survived[u] \in Nat
    <2>1. \A u : {i \in DOMAIN events : u \in events[i]} = {}
      BY <1>2
    <2> QED BY <1>1, <1>2, <2>1, FS_EmptySet DEF Announced, TypeOK
  <1>6. \A u \in inbox : u \in Uid /\ InCache(u) \in {0, 1}
    BY <1>1 DEF TypeOK, InCache
  <1>7. AnnounceInv
    BY <1>2, <1>5, <1>6 DEF AnnounceInv, Aim
  <1> QED BY <1>1, <1>4, <1>7 DEF Inv

LEMMA InvStep == Inv /\ [Next]_vars => Inv'
  BY TypeStep, GivenStep, AnnounceStep DEF Inv

THEOREM SpecInv == Spec => []Inv
  BY InvInit, InvStep, PTL DEF Spec

\* A message is notified once, whatever calls the user has started, and
\* whatever of them and of the loop has failed; and once more for each time
\* delete_message has dropped its row though EXPUNGE had left the message.
THEOREM SpecNotifiedOnce == Spec => []NotifiedOnce
  <1>1. Inv => NotifiedOnce
    <2> SUFFICES ASSUME Inv, NEW u \in Uid PROVE notified[u] <= 1 + survived[u]
      BY DEF NotifiedOnce
    <2>1. /\ Announced(u) \in Nat /\ survived[u] \in Nat /\ notified[u] \in Nat
          /\ notified[u] <= Announced(u) /\ Announced(u) <= 1 + survived[u]
      BY AnnouncedIs DEF Inv, AnnounceInv
    <2> QED BY <2>1
  <1> QED BY <1>1, SpecInv, PTL

\* What an event announces can be read from the cache, or is gone from the
\* server, or has lost its row to a deletion that EXPUNGE left undone.
THEOREM SpecAnnouncedIsCached == Spec => []AnnouncedIsCached
  <1>1. Inv => AnnouncedIsCached
    <2> SUFFICES ASSUME Inv, NEW u \in inbox \ cache PROVE Announced(u) <= survived[u]
      BY DEF AnnouncedIsCached
    <2>1. u \in Uid /\ InCache(u) = 0 /\ Announced(u) <= survived[u] + InCache(u)
      BY DEF Inv, TypeOK, AnnounceInv, InCache
    <2>2. Announced(u) \in Nat /\ survived[u] \in Nat
      BY <2>1, AnnouncedIs DEF Inv
    <2> QED BY <2>1, <2>2
  <1> QED BY <1>1, SpecInv, PTL

=============================================================================
