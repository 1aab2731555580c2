--------------------------- MODULE InboxSyncProofs ---------------------------
(* What InboxSync guarantees for any number of calls, UIDs and UIDVALIDITYs. *)
EXTENDS InboxSync, WellFoundedInduction, TLAPS, FiniteSetTheorems

\* ORDER BY uid DESC LIMIT n takes some of the rows, and with each row it
\* takes every higher one.
LEMMA NewestIsUpwardClosed ==
    ASSUME NEW S \in SUBSET Nat, IsFiniteSet(S), NEW n \in Nat
    PROVE  /\ Newest(S, n) \subseteq S
           /\ \A u \in Newest(S, n), v \in S : v > u => v \in Newest(S, n)
<1>1. SUFFICES ASSUME NEW u \in Newest(S, n), NEW v \in S, v > u
               PROVE  v \in Newest(S, n)
  BY DEF Newest
<1> DEFINE above(w) == {x \in S : x > w}
<1>2. above(v) \subseteq above(u)
  <2>1. u \in Nat /\ v \in Nat /\ v > u BY <1>1 DEF Newest
  <2>2. \A x \in Nat : x > v => x > u BY <2>1
  <2>3. QED BY <2>2
<1>3. IsFiniteSet(above(u)) BY FS_Subset
<1>4. Cardinality(above(v)) <= Cardinality(above(u)) BY <1>2, <1>3, FS_Subset
<1>5. Cardinality(above(v)) \in Nat /\ Cardinality(above(u)) \in Nat
  BY FS_Subset, FS_CardinalityType
<1>6. Cardinality(above(v)) < n BY <1>4, <1>5 DEF Newest
<1>7. QED BY <1>6 DEF Newest

LEMMA ConstantTypes ==
    /\ Kinds \subseteq AllKinds
    /\ MaxUid \in Nat /\ MaxValidity \in Nat \ {0} /\ FetchLimit \in Nat
    /\ OlderBatch \in Nat /\ SearchLimit \in Nat /\ FlagWindow \in Nat
BY ConstantAssumption

\* A table is a function from some UIDs.
LEMMA TableIntro ==
    ASSUME NEW V, NEW S \in SUBSET Uid, NEW f \in [S -> V]
    PROVE  f \in Table(V)
BY DEF Table

LEMMA TableElim ==
    ASSUME NEW V, NEW f \in Table(V)
    PROVE  /\ DOMAIN f \in SUBSET Uid
           /\ f \in [DOMAIN f -> V]
BY DEF Table

LEMMA NoRowsType == ASSUME NEW V PROVE NoRows \in Table(V) /\ DOMAIN NoRows = {}
<1>1. NoRows \in [{} -> V] BY DEF NoRows
<1>2. QED BY <1>1, TableIntro

LEMMA IdleType == Idle \in Call
BY NoRowsType, ConstantTypes DEF Idle, Call, PC

\* The tables the steps build are tables, over the UIDs one expects.
LEMMA UpsertType ==
    ASSUME NEW r \in Table(Row), NEW b \in Table(Envelope)
    PROVE  /\ UpsertEnvelopes(r, b) \in Table(Row)
           /\ DOMAIN UpsertEnvelopes(r, b) = DOMAIN r \cup DOMAIN b
<1> DEFINE S == DOMAIN r \cup DOMAIN b
<1>1. S \in SUBSET Uid BY TableElim
<1>2. \A u \in DOMAIN r : r[u] \in Row BY TableElim
<1>3. \A u \in DOMAIN b : b[u] \in Envelope BY TableElim
<1>4. UpsertEnvelopes(r, b) \in [S -> Row]
  BY <1>2, <1>3 DEF UpsertEnvelopes, Row, Envelope
<1>5. QED BY <1>1, <1>4, TableIntro DEF UpsertEnvelopes

LEMMA UpdateFlagsType ==
    ASSUME NEW r \in Table(Row), NEW b \in Table(Envelope)
    PROVE  /\ UpdateFlags(r, b) \in Table(Row)
           /\ DOMAIN UpdateFlags(r, b) = DOMAIN r
<1>1. \A u \in DOMAIN r : r[u] \in Row BY TableElim
<1>2. \A u \in DOMAIN b : b[u] \in Envelope BY TableElim
<1>3. UpdateFlags(r, b) \in [DOMAIN r -> Row]
  BY <1>1, <1>2 DEF UpdateFlags, Row, Envelope
<1>4. QED BY <1>3, TableElim, TableIntro DEF UpdateFlags

LEMMA SetRawPathType ==
    ASSUME NEW r \in Table(Row), NEW uid
    PROVE  /\ SetRawPath(r, uid) \in Table(Row)
           /\ DOMAIN SetRawPath(r, uid) = DOMAIN r
<1>1. \A u \in DOMAIN r : r[u] \in Row BY TableElim
<1>2. SetRawPath(r, uid) \in [DOMAIN r -> Row]
  BY <1>1 DEF SetRawPath, Row
<1>3. QED BY <1>2, TableElim, TableIntro DEF SetRawPath

LEMMA DeleteRowType ==
    ASSUME NEW r \in Table(Row), NEW uid
    PROVE  /\ DeleteRow(r, uid) \in Table(Row)
           /\ DOMAIN DeleteRow(r, uid) = DOMAIN r \ {uid}
<1>1. DeleteRow(r, uid) \in [DOMAIN r \ {uid} -> Row]
  BY TableElim DEF DeleteRow
<1>2. DOMAIN r \ {uid} \in SUBSET Uid BY TableElim
<1>3. QED BY <1>1, <1>2, TableIntro DEF DeleteRow

LEMMA EnvelopesType ==
    ASSUME TypeOK, NEW S
    PROVE  /\ Envelopes(S) \in Table(Envelope)
           /\ DOMAIN Envelopes(S) = S \cap DOMAIN inbox
<1>1. inbox \in Table(Flag) /\ validity \in 1..MaxValidity BY DEF TypeOK
<1>2. Envelopes(S) \in [S \cap DOMAIN inbox -> Envelope]
  BY <1>1, TableElim DEF Envelopes, Envelope
<1>3. S \cap DOMAIN inbox \in SUBSET Uid BY <1>1, TableElim
<1>4. QED BY <1>2, <1>3, TableIntro DEF Envelopes

----------------------------------------------------------------------------
(* Numbers *)

\* SELECT MIN(uid) over some rows is one of them, and none is lower.
LEMMA MinOfNaturals ==
    ASSUME NEW S \in SUBSET Nat, S # {}
    PROVE  Min(S) \in S /\ \A x \in S : Min(S) <= x
<1> DEFINE R == OpToRel(<, Nat)
<1>1. \E m \in S : \A x \in S : ~ (<<x, m>> \in R)
  BY NatLessThanWellFounded, WFMin
<1>2. \A x, m \in Nat : x < m => <<x, m>> \in R
  BY DEF OpToRel
<1> HIDE DEF R
<1>3. \E m \in S : \A x \in S : m <= x
  <2>1. PICK m \in S : \A x \in S : ~ (<<x, m>> \in R) BY <1>1
  <2>2. \A x \in S : ~ (x < m) BY <1>2, <2>1
  <2>3. QED BY <2>2
<1>4. QED BY <1>3 DEF Min

\* SELECT MAX(uid) over some rows is one of them, and none is higher.
LEMMA MaxOfNaturals ==
    ASSUME NEW S \in SUBSET Nat, S # {}, NEW n \in Nat, \A x \in S : x <= n
    PROVE  Max(S) \in S /\ \A x \in S : x <= Max(S)
<1> DEFINE bounds == {b \in Nat : \A x \in S : x <= b}
<1>1. Min(bounds) \in bounds /\ \A b \in bounds : Min(bounds) <= b
  BY MinOfNaturals
<1>2. Min(bounds) \in S
  <2>1. SUFFICES ASSUME Min(bounds) \notin S PROVE FALSE OBVIOUS
  <2>2. Min(bounds) # 0
    <3>1. PICK x \in S : TRUE OBVIOUS
    <3>2. x <= Min(bounds) /\ x # Min(bounds) BY <1>1, <2>1, <3>1
    <3>3. QED BY <1>1, <3>2
  <2>3. Min(bounds) - 1 \in bounds BY <1>1, <2>1, <2>2
  <2>4. QED BY <1>1, <2>3
<1>3. \E m \in S : \A x \in S : m >= x
  BY <1>1, <1>2
<1>4. QED BY <1>3 DEF Max

----------------------------------------------------------------------------
(* Type correctness *)

\* The UIDs the server, the store and the user's picks can name.
LEMMA PickedUids ==
    ASSUME TypeOK
    PROVE  /\ \A S, n : Newest(S, n) \subseteq S
           /\ DOMAIN inbox \in SUBSET Uid
           /\ DOMAIN rows \in SUBSET Uid
           /\ \A u \in DOMAIN rows : rows[u].gen \in 1..MaxValidity
           /\ MinUidOf(rows) \in 0..MaxUid
           /\ DOMAIN rows # {} => MinUidOf(rows) \in DOMAIN rows
           /\ MaxUidOf(rows) \in 0..MaxUid
           /\ DOMAIN rows # {} => MaxUidOf(rows) \in DOMAIN rows
           /\ validity \in 0..MaxValidity
<1>1. inbox \in Table(Flag) /\ rows \in Table(Row) BY DEF TypeOK
<1>2. DOMAIN inbox \in SUBSET Uid /\ DOMAIN rows \in SUBSET Uid
  BY <1>1, TableElim
<1>3. \A u \in DOMAIN rows : rows[u] \in Row BY <1>1, TableElim
<1>4. \A S, n : Newest(S, n) \subseteq S BY DEF Newest
<1>5. DOMAIN rows # {} =>
         /\ Min(DOMAIN rows) \in DOMAIN rows
         /\ Max(DOMAIN rows) \in DOMAIN rows
  <2>1. SUFFICES ASSUME DOMAIN rows # {}
                 PROVE  /\ Min(DOMAIN rows) \in DOMAIN rows
                        /\ Max(DOMAIN rows) \in DOMAIN rows
    OBVIOUS
  <2>2. DOMAIN rows \in SUBSET Nat /\ \A u \in DOMAIN rows : u <= MaxUid
    BY <1>2, ConstantTypes DEF Uid
  <2>3. QED BY <2>1, <2>2, MinOfNaturals, MaxOfNaturals, ConstantTypes
<1>6. \A u \in DOMAIN rows : rows[u].gen \in 1..MaxValidity
  BY <1>3 DEF Row
<1>7. DOMAIN rows \subseteq 0..MaxUid BY <1>2, ConstantTypes DEF Uid
<1>8. MinUidOf(rows) \in 0..MaxUid /\ MaxUidOf(rows) \in 0..MaxUid
  BY <1>5, <1>7, ConstantTypes DEF MinUidOf, MaxUidOf, NoUid
<1>9. validity \in 0..MaxValidity BY ConstantTypes DEF TypeOK
<1>10. QED
  BY <1>2, <1>4, <1>5, <1>6, <1>8, <1>9 DEF MinUidOf, MaxUidOf

LEMMA TypeInit == InitSynced \/ Init => TypeOK
<1>1. SUFFICES ASSUME InitSynced \/ Init PROVE TypeOK OBVIOUS
<1>2. PICK n \in 0..MaxUid : /\ inbox = [u \in 1..n |-> "unseen"]
                             /\ uidNext = n + 1
                             /\ validity = 1
  BY <1>1 DEF Init, InitSynced, ServerInit
<1>3. inbox \in [1..n -> Flag] /\ 1..n \in SUBSET Uid
  BY <1>2, ConstantTypes DEF Flag, Uid
<1>4. inbox \in Table(Flag) BY <1>3, TableIntro
<1>5. rows \in Table(Row)
  <2>1. CASE Init BY <2>1, NoRowsType DEF Init
  <2>2. CASE InitSynced
    <3>1. PICK w \in 1..uidNext :
             rows = [u \in w..(uidNext - 1) |->
                       [gen |-> validity, flag |-> "unseen", raw |-> FALSE]]
      BY <2>2 DEF InitSynced
    <3>2. rows \in [w..(uidNext - 1) -> Row]
      BY <1>2, <3>1, ConstantTypes DEF Row, Flag
    <3>3. w..(uidNext - 1) \in SUBSET Uid BY <1>2, ConstantTypes DEF Uid
    <3>4. QED BY <3>2, <3>3, TableIntro
  <2>3. QED BY <1>1, <2>1, <2>2
<1>6. disk \in [Uid -> 0..MaxValidity] /\ task \in [Task -> Call]
  BY <1>1, IdleType, ConstantTypes DEF Init, InitSynced, NoFile
<1>7. QED
  BY <1>1, <1>2, <1>4, <1>5, <1>6, ConstantTypes
  DEF TypeOK, Init, InitSynced, NoValidity, NoUid

LEMMA CallTypes ==
    ASSUME TypeOK, NEW t \in Task
    PROVE  /\ task[t] \in Call
           /\ task[t].uids \in SUBSET Uid
           /\ task[t].batch \in Table(Envelope)
           /\ DOMAIN task[t].batch \in SUBSET Uid
           /\ task[t].out \in SUBSET Uid
           /\ task[t].uid \in 0..MaxUid
           /\ task[t].val \in 0..MaxValidity
           /\ task[t].nxt \in 0..(MaxUid + 1)
<1>1. task[t] \in Call BY DEF TypeOK
<1>2. task[t].batch \in Table(Envelope) BY <1>1 DEF Call
<1>3. QED BY <1>1, <1>2, TableElim DEF Call

LEMMA ReturningType ==
    ASSUME NEW c \in Call, NEW out \in SUBSET Uid
    PROVE  /\ Returning(c, out) \in Call
           /\ [Returning(c, out) EXCEPT !.ok = FALSE] \in Call
           /\ \A v \in 0..MaxValidity : [Returning(c, out) EXCEPT !.val = v] \in Call
BY NoRowsType DEF Returning, Call, PC

\* The steps that only move a call: its next record is a record of a call.
LEMMA TypeMove ==
    ASSUME TypeOK, UNCHANGED <<server, cache>>, NEW t \in Task, NEW c \in Call,
           task' = [task EXCEPT ![t] = c]
    PROVE  TypeOK'
BY DEF TypeOK, server, cache, folder

LEMMA TypeServer == TypeOK /\ Server => TypeOK'
<1>1. SUFFICES ASSUME TypeOK, Server PROVE TypeOK' OBVIOUS
<1>2. inbox \in Table(Flag) /\ uidNext \in 1..(MaxUid + 1)
  BY <1>1 DEF TypeOK
<1>3. DOMAIN inbox \in SUBSET Uid /\ inbox \in [DOMAIN inbox -> Flag]
  BY <1>2, TableElim
<1>4. CASE Arrive
  <2>1. DOMAIN inbox \cup {uidNext} \in SUBSET Uid
    BY <1>2, <1>3, <1>4, ConstantTypes DEF Arrive, Uid
  <2>2. inbox' \in [DOMAIN inbox \cup {uidNext} -> Flag]
    BY <1>3, <1>4 DEF Arrive, Flag
  <2>3. inbox' \in Table(Flag) BY <2>1, <2>2, TableIntro
  <2>4. QED
    BY <1>1, <1>4, <2>3, ConstantTypes DEF Arrive, TypeOK, cache, folder
<1>5. CASE Expunge
  <2>1. PICK u \in DOMAIN inbox : inbox' = [v \in DOMAIN inbox \ {u} |-> inbox[v]]
    BY <1>5 DEF Expunge
  <2>2. inbox' \in [DOMAIN inbox \ {u} -> Flag] BY <1>3, <2>1
  <2>3. DOMAIN inbox \ {u} \in SUBSET Uid BY <1>3
  <2>4. inbox' \in Table(Flag) BY <2>2, <2>3, TableIntro
  <2>5. QED BY <1>1, <1>5, <2>4 DEF Expunge, TypeOK, cache, folder
<1>6. CASE ChangeFlag
  <2>1. PICK u \in DOMAIN inbox, f \in Flag : inbox' = [inbox EXCEPT ![u] = f]
    BY <1>6 DEF ChangeFlag
  <2>2. inbox' \in [DOMAIN inbox -> Flag] BY <1>3, <2>1
  <2>3. inbox' \in Table(Flag) BY <1>3, <2>2, TableIntro
  <2>4. QED BY <1>1, <1>6, <2>3 DEF ChangeFlag, TypeOK, cache, folder
<1>7. CASE Renumber
  <2>1. PICK n \in 0..MaxUid : /\ inbox' = [u \in 1..n |-> "unseen"]
                               /\ uidNext' = n + 1
    BY <1>7 DEF Renumber
  <2>2. inbox' \in [1..n -> Flag] /\ 1..n \in SUBSET Uid
    BY <2>1, ConstantTypes DEF Flag, Uid
  <2>3. inbox' \in Table(Flag) BY <2>2, TableIntro
  <2>4. QED
    BY <1>1, <1>7, <2>1, <2>3, ConstantTypes DEF Renumber, TypeOK, cache, folder
<1>8. QED BY <1>1, <1>4, <1>5, <1>6, <1>7 DEF Server

LEMMA TypeShared ==
    ASSUME TypeOK, NEW t \in Task, Shared(t)
    PROVE  TypeOK'
<1>1. task[t] \in Call BY CallTypes
<1>2. CASE CallFails(t) \/ SessionLost(t)
  <2>1. [Returning(task[t], {}) EXCEPT !.ok = FALSE] \in Call
    BY <1>1, ReturningType
  <2>2. QED BY <1>2, <2>1, TypeMove DEF CallFails, SessionLost
<1>3. CASE Fetch(t)
  <2>1. Envelopes(task[t].uids) \in Table(Envelope) BY EnvelopesType
  <2>2. [task[t] EXCEPT !.pc = "store", !.uids = {},
                        !.batch = Envelopes(task[t].uids)] \in Call
    BY <1>1, <2>1 DEF Call, PC
  <2>3. QED BY <1>3, <2>2, TypeMove DEF Fetch
<1>4. CASE StoreBatch(t)
  <2>1. AfterStore(task[t]) \in Call
    <3>1. Returning(task[t], DOMAIN task[t].batch) \in Call
      BY <1>1, CallTypes, ReturningType
    <3>2. \A pc \in {"recent", "record"} :
             [task[t] EXCEPT !.pc = pc, !.out = DOMAIN task[t].batch,
                             !.batch = NoRows] \in Call
      BY <1>1, CallTypes, NoRowsType DEF Call, PC
    <3>3. QED BY <3>1, <3>2 DEF AfterStore
  <2>2. rows' \in Table(Row)
    BY <1>4, CallTypes, UpsertType DEF StoreBatch, TypeOK
  <2>3. QED BY <1>4, <2>1, <2>2 DEF StoreBatch, TypeOK, server, folder
<1>5. CASE Finish(t)
  BY <1>5, IdleType, TypeMove DEF Finish
<1>6. QED BY <1>2, <1>3, <1>4, <1>5 DEF Shared

LEMMA TypeSync ==
    ASSUME TypeOK, NEW t \in Task, Sync(t)
    PROVE  TypeOK'
<1>1. task[t] \in Call BY CallTypes
<1>2. CASE StartSync(t)
  <2>1. cachedValidity \in 0..MaxValidity /\ cachedUidNext \in 0..(MaxUid + 1)
    BY DEF TypeOK
  <2>2. [Idle EXCEPT !.kind = "sync", !.pc = "select", !.known = cachedValidity,
                     !.from = cachedUidNext] \in Call
    BY <1>2, <2>1, IdleType DEF StartSync, Call, PC
  <2>3. QED BY <1>2, <2>2, TypeMove DEF StartSync
<1>3. CASE Select(t)
  <2> DEFINE uids == IF task[t].known = validity THEN {}
                     ELSE LastMessages(FetchLimit)
             c == [task[t] EXCEPT !.pc = AfterSelect(task[t], uids), !.uids = uids,
                                  !.val = validity, !.ses = validity,
                                  !.nxt = uidNext]
  <2>1. uids \in SUBSET Uid BY PickedUids DEF LastMessages
  <2>2. AfterSelect(task[t], uids) \in PC BY DEF AfterSelect, PC
  <2>3. validity \in 0..MaxValidity /\ uidNext \in 0..(MaxUid + 1)
    BY ConstantTypes DEF TypeOK
  <2>4. task' = [task EXCEPT ![t] = c] BY <1>3 DEF Select
  <2> HIDE DEF uids
  <2>5. c \in Call BY <1>1, <2>1, <2>2, <2>3 DEF Call
  <2>6. QED BY <1>3, <2>4, <2>5, TypeMove DEF Select
<1>4. CASE Clear(t)
  <2>1. \A pc \in PC : [task[t] EXCEPT !.pc = pc] \in Call BY <1>1 DEF Call
  <2>2. rows' \in Table(Row) BY <1>4, NoRowsType DEF Clear
  <2>3. \E pc \in PC : task' = [task EXCEPT ![t].pc = pc]
    BY <1>4 DEF Clear, Goto, PC
  <2>4. QED
    BY <1>4, <2>1, <2>2, <2>3 DEF Clear, TypeOK, server, folder
<1>5. CASE ReadMax(t)
  <2> DEFINE max  == MaxUidOf(rows)
             uids == NewUids(max, task[t].nxt)
  <2>1. max \in 0..MaxUid BY PickedUids
  <2> HIDE DEF max
  <2>2. uids \in SUBSET Uid BY <2>1, CallTypes, ConstantTypes DEF NewUids, Uid
  <2> HIDE DEF uids
  <2>3. [task[t] EXCEPT !.pc = "reselect"] \in Call BY <1>1 DEF Call, PC
  <2>4. [task[t] EXCEPT !.pc = IF uids = {} THEN "recent" ELSE "fetch",
                        !.uids = uids] \in Call
    BY <1>1, <2>2 DEF Call, PC
  <2>5. \E c \in Call : task' = [task EXCEPT ![t] = c]
    BY <1>5, <2>3, <2>4 DEF ReadMax, Goto, max, uids
  <2>6. QED BY <1>5, <2>5, TypeMove DEF ReadMax
<1>6. CASE Reselect(t)
  <2>1. [task[t] EXCEPT !.pc = IF DOMAIN inbox = {} THEN "recent" ELSE "fetch",
                        !.ses = validity, !.uids = DOMAIN inbox] \in Call
    BY <1>1, PickedUids DEF Call, PC
  <2>2. QED BY <1>6, <2>1, TypeMove DEF Reselect
<1>7. CASE ReadRecent(t)
  <2>1. Newest(DOMAIN rows, FlagWindow) \in SUBSET Uid BY PickedUids
  <2>2. \A uids \in SUBSET Uid, pc \in PC :
           [task[t] EXCEPT !.pc = pc, !.uids = uids] \in Call
    BY <1>1 DEF Call
  <2>3. \E c \in Call : task' = [task EXCEPT ![t] = c]
    BY <1>7, <2>1, <2>2 DEF ReadRecent, PC
  <2>4. QED BY <1>7, <2>3, TypeMove DEF ReadRecent
<1>8. CASE FetchFlags(t)
  <2>1. Envelopes(task[t].uids) \in Table(Envelope) BY EnvelopesType
  <2>2. [task[t] EXCEPT !.pc = "apply", !.uids = {},
                        !.batch = Envelopes(task[t].uids)] \in Call
    BY <1>1, <2>1 DEF Call, PC
  <2>3. QED BY <1>8, <2>2, TypeMove DEF FetchFlags
<1>9. CASE ApplyFlags(t)
  <2>1. [task[t] EXCEPT !.pc = "record", !.batch = NoRows] \in Call
    BY <1>1, NoRowsType DEF Call, PC
  <2>2. rows' \in Table(Row)
    BY <1>9, CallTypes, UpdateFlagsType DEF ApplyFlags, TypeOK
  <2>3. QED BY <1>9, <2>1, <2>2 DEF ApplyFlags, TypeOK, server, folder
<1>10. CASE Record(t)
  <2>1. Returning(task[t], task[t].out) \in Call
    BY <1>1, CallTypes, ReturningType
  <2>2. cachedValidity' \in 0..MaxValidity /\ cachedUidNext' \in 0..(MaxUid + 1)
    BY <1>10, CallTypes DEF Record
  <2>3. QED BY <1>10, <2>1, <2>2 DEF Record, Return, TypeOK, server
<1>11. QED
  BY <1>2, <1>3, <1>4, <1>5, <1>6, <1>7, <1>8, <1>9, <1>10 DEF Sync

LEMMA TypeOlderAndSearch ==
    ASSUME TypeOK, NEW t \in Task,
           StartOlder(t) \/ SearchOlder(t) \/ StartSearch(t) \/ SearchText(t)
    PROVE  TypeOK'
<1>1. task[t] \in Call BY CallTypes
<1>2. \A uids \in SUBSET Uid : FetchFound(t, uids) =>
         \E c \in Call : task' = [task EXCEPT ![t] = c]
  <2>1. SUFFICES ASSUME NEW uids \in SUBSET Uid, FetchFound(t, uids)
                 PROVE  \E c \in Call : task' = [task EXCEPT ![t] = c]
    OBVIOUS
  <2>2. Returning(task[t], {}) \in Call BY <1>1, ReturningType
  <2>3. [task[t] EXCEPT !.pc = "fetch", !.ses = validity, !.uids = uids] \in Call
    BY <1>1, PickedUids DEF Call, PC
  <2>4. QED BY <2>1, <2>2, <2>3 DEF FetchFound
<1>3. CASE StartOlder(t)
  <2>1. MinUidOf(rows) \in 0..MaxUid BY PickedUids
  <2>2. [Idle EXCEPT !.kind = "older", !.uid = MinUidOf(rows),
           !.pc = IF MinUidOf(rows) <= 1 THEN "done" ELSE "search"] \in Call
    BY <1>3, <2>1, IdleType DEF StartOlder, Call, PC
  <2>3. QED BY <1>3, <2>2, TypeMove DEF StartOlder
<1>4. CASE SearchOlder(t)
  <2>1. OlderCandidates(task[t].uid) \in SUBSET Uid
    BY PickedUids DEF OlderCandidates
  <2>2. QED BY <1>2, <1>4, <2>1, TypeMove DEF SearchOlder
<1>5. CASE StartSearch(t)
  <2>1. [Idle EXCEPT !.kind = "search", !.pc = "search"] \in Call
    BY <1>5, IdleType DEF StartSearch, Call, PC
  <2>2. QED BY <1>5, <2>1, TypeMove DEF StartSearch
<1>6. CASE SearchText(t)
  <2>1. PICK m \in SUBSET DOMAIN inbox : FetchFound(t, Newest(m, SearchLimit))
    BY <1>6 DEF SearchText
  <2>2. Newest(m, SearchLimit) \in SUBSET Uid BY PickedUids
  <2>3. QED BY <1>2, <1>6, <2>1, <2>2, TypeMove DEF SearchText
<1>7. QED BY <1>3, <1>4, <1>5, <1>6

LEMMA TypeBody ==
    ASSUME TypeOK, NEW t \in Task, Body(t)
    PROVE  TypeOK'
<1>1. task[t] \in Call BY CallTypes
<1>2. \A pc \in PC : [task[t] EXCEPT !.pc = pc] \in Call BY <1>1 DEF Call
<1>3. CASE StartBody(t)
  <2>1. PICK u \in OnScreen :
           task' = [task EXCEPT ![t] = [Idle EXCEPT !.kind = "body", !.pc = "path",
                                              !.uid = u, !.known = RowGen(u)]]
    BY <1>3 DEF StartBody
  <2>2. u \in 0..MaxUid /\ RowGen(u) \in 0..MaxValidity
    BY PickedUids, ConstantTypes DEF OnScreen, RowGen, NoValidity, Uid
  <2>3. [Idle EXCEPT !.kind = "body", !.pc = "path",
                     !.uid = u, !.known = RowGen(u)] \in Call
    BY <1>3, <2>2, IdleType DEF StartBody, Call, PC
  <2>4. QED BY <1>3, <2>1, <2>3, TypeMove DEF StartBody
<1>4. CASE ReadPath(t)
  <2>1. CASE HasRawPath(rows, task[t].uid) /\ disk[task[t].uid] # NoFile
    <3>1. task[t].uid \in Uid BY <2>1, PickedUids DEF HasRawPath
    <3>2. disk[task[t].uid] \in 0..MaxValidity BY <3>1 DEF TypeOK
    <3>3. [Returning(task[t], {}) EXCEPT !.val = disk[task[t].uid]] \in Call
      BY <1>1, <3>2, ReturningType
    <3>4. task' = [task EXCEPT ![t] = [Returning(task[t], {})
                                         EXCEPT !.val = disk[task[t].uid]]]
      BY <1>4, <2>1 DEF ReadPath
    <3>5. QED BY <1>4, <3>3, <3>4, TypeMove DEF ReadPath
  <2>2. CASE ~ (HasRawPath(rows, task[t].uid) /\ disk[task[t].uid] # NoFile)
    <3>1. task' = [task EXCEPT ![t] = [task[t] EXCEPT !.pc = "get"]]
      BY <1>4, <2>2 DEF ReadPath, Goto
    <3>2. QED BY <1>2, <1>4, <3>1, TypeMove DEF ReadPath, PC
  <2>3. QED BY <2>1, <2>2
<1>5. CASE GetRaw(t)
  <2>1. [task[t] EXCEPT !.pc = "write", !.val = validity] \in Call
    BY <1>1, PickedUids DEF Call, PC
  <2>2. [Returning(task[t], {}) EXCEPT !.ok = FALSE] \in Call
    BY <1>1, ReturningType
  <2>3. \E c \in Call : task' = [task EXCEPT ![t] = c]
    BY <1>5, <2>1, <2>2 DEF GetRaw
  <2>4. QED BY <1>5, <2>3, TypeMove DEF GetRaw
<1>6. CASE WriteFile(t)
  <2>1. disk' \in [Uid -> 0..MaxValidity]
    BY <1>6, CallTypes DEF WriteFile, TypeOK
  <2>2. task' = [task EXCEPT ![t] = [task[t] EXCEPT !.pc = "link"]]
    BY <1>6 DEF WriteFile, Goto
  <2>3. task' \in [Task -> Call] BY <1>2, <2>2 DEF TypeOK, PC
  <2>4. QED BY <1>6, <2>1, <2>3 DEF WriteFile, TypeOK, server, folder
<1>7. CASE CacheFails(t) \/ Link(t)
  <2>1. Returning(task[t], task[t].out) \in Call
    BY <1>1, CallTypes, ReturningType
  <2>2. rows' \in Table(Row) /\ UNCHANGED <<server, folder, disk>>
    BY <1>7, SetRawPathType DEF CacheFails, Link, TypeOK, cache
  <2>3. QED
    BY <1>7, <2>1, <2>2 DEF CacheFails, Link, Return, TypeOK, server, folder
<1>8. QED BY <1>3, <1>4, <1>5, <1>6, <1>7 DEF Body

LEMMA TypeDelete ==
    ASSUME TypeOK, NEW t \in Task, Delete(t)
    PROVE  TypeOK'
<1>1. task[t] \in Call BY CallTypes
<1>2. \A pc \in PC : [task[t] EXCEPT !.pc = pc] \in Call BY <1>1 DEF Call
<1>3. Returning(task[t], task[t].out) \in Call
  BY <1>1, CallTypes, ReturningType
<1>4. inbox \in Table(Flag) BY DEF TypeOK
<1>5. DOMAIN inbox \in SUBSET Uid /\ inbox \in [DOMAIN inbox -> Flag]
  BY <1>4, TableElim
<1>6. \A uid : Marked(uid) \in Table(Flag)
  <2>1. SUFFICES ASSUME NEW uid PROVE Marked(uid) \in Table(Flag) OBVIOUS
  <2>2. Marked(uid) \in [DOMAIN inbox -> Flag] BY <1>5 DEF Marked, Flag
  <2>3. QED BY <1>5, <2>2, TableIntro
<1>7. \A uid, blind : Removed(uid, blind) \in Table(Flag)
  <2>1. SUFFICES ASSUME NEW uid, NEW blind
                 PROVE  Removed(uid, blind) \in Table(Flag)
    OBVIOUS
  <2> DEFINE S == {v \in DOMAIN inbox : v # uid /\ ~(blind /\ inbox[v] = "deleted")}
  <2>2. S \subseteq DOMAIN inbox OBVIOUS
  <2>3. Removed(uid, blind) = [u \in S |-> inbox[u]] BY DEF Removed
  <2> HIDE DEF S
  <2>4. Removed(uid, blind) \in [S -> Flag] BY <1>5, <2>2, <2>3
  <2>5. QED BY <1>5, <2>2, <2>4, TableIntro
<1>8. CASE StartDelete(t)
  <2>1. PICK u \in OnScreen :
           task' = [task EXCEPT ![t] = [Idle EXCEPT !.kind = "delete",
                                !.pc = "remove", !.uid = u, !.known = RowGen(u)]]
    BY <1>8 DEF StartDelete
  <2>2. u \in 0..MaxUid /\ RowGen(u) \in 0..MaxValidity
    BY PickedUids, ConstantTypes DEF OnScreen, RowGen, NoValidity, Uid
  <2>3. [Idle EXCEPT !.kind = "delete", !.pc = "remove",
                     !.uid = u, !.known = RowGen(u)] \in Call
    BY <1>8, <2>2, IdleType DEF StartDelete, Call, PC
  <2>4. QED BY <1>8, <2>1, <2>3, TypeMove DEF StartDelete
<1>9. CASE Remove(t) \/ RemoveMarksOnly(t)
  <2>1. inbox' \in Table(Flag) BY <1>6, <1>7, <1>9 DEF Remove, RemoveMarksOnly
  <2>2. task' = [task EXCEPT ![t] = [task[t] EXCEPT !.pc = "drop"]]
    BY <1>9 DEF Remove, RemoveMarksOnly, Goto
  <2>3. task' \in [Task -> Call] BY <1>2, <2>2 DEF TypeOK, PC
  <2>4. QED
    BY <1>9, <2>1, <2>3 DEF Remove, RemoveMarksOnly, TypeOK, cache, folder
<1>10. CASE RemoveReplyLost(t)
  <2>1. inbox' \in Table(Flag) BY <1>6, <1>7, <1>10 DEF RemoveReplyLost
  <2>2. [Returning(task[t], {}) EXCEPT !.ok = FALSE] \in Call
    BY <1>1, ReturningType
  <2>3. task' \in [Task -> Call] BY <1>10, <2>2 DEF RemoveReplyLost, TypeOK
  <2>4. QED
    BY <1>10, <2>1, <2>3 DEF RemoveReplyLost, TypeOK, cache, folder
<1>11. CASE Drop(t)
  <2>1. task' \in [Task -> Call]
    <3>1. \E c \in Call : task' = [task EXCEPT ![t] = c]
      BY <1>2, <1>3, <1>11 DEF Drop, Goto, Return, PC
    <3>2. QED BY <3>1 DEF TypeOK
  <2>2. rows' \in Table(Row) BY <1>11, DeleteRowType DEF Drop, TypeOK
  <2>3. QED BY <1>11, <2>1, <2>2 DEF Drop, TypeOK, server, folder
<1>12. CASE Unlink(t)
  <2>1. disk' \in [Uid -> 0..MaxValidity]
    <3>1. NoFile \in 0..MaxValidity BY ConstantTypes DEF NoFile
    <3>2. QED BY <1>12, <3>1 DEF Unlink, TypeOK
  <2>2. task' \in [Task -> Call] BY <1>3, <1>12 DEF Unlink, Return, TypeOK
  <2>3. QED BY <1>12, <2>1, <2>2 DEF Unlink, TypeOK, server, folder
<1>13. QED BY <1>8, <1>9, <1>10, <1>11, <1>12 DEF Delete

LEMMA TypeNext == TypeOK /\ [Next]_vars => TypeOK'
<1>1. CASE UNCHANGED vars
  BY <1>1 DEF vars, server, cache, folder, TypeOK
<1>2. CASE TypeOK /\ Crash
  BY <1>2, IdleType DEF Crash, server, cache, folder, TypeOK
<1>3. QED
  BY <1>1, <1>2, TypeServer, TypeShared, TypeSync, TypeOlderAndSearch, TypeBody,
     TypeDelete DEF Next

\* Whatever the calls, however they interleave with each other, the server and
\* crashes, every variable keeps its type: no command names a UID, and no row
\* or file holds a UIDVALIDITY, that the server never gave (sync.rs:28-276).
THEOREM SpecTypeOK == Spec => []TypeOK
<1>1. Init => TypeOK BY TypeInit
<1>2. QED BY <1>1, TypeNext, PTL DEF Spec

\* The same from a cache whose first sync has completed.
THEOREM SyncedSpecTypeOK == SyncedSpec => []TypeOK
<1>1. InitSynced => TypeOK BY TypeInit
<1>2. QED BY <1>1, TypeNext, PTL DEF SyncedSpec

----------------------------------------------------------------------------
(***************************************************************************)
(* The cache of a mailbox whose UIDVALIDITY lasts and in which nothing is  *)
(* searched on the server: it stays one contiguous window, a sync that     *)
(* returns Ok has brought in all new mail, and only what has left the      *)
(* server leaves the cache.  For any number of calls at a time, however    *)
(* they interleave, fail and crash.                                        *)
(***************************************************************************)

SteadyCase ==
    /\ "renumber" \notin Events   \* UIDVALIDITY lasts
    /\ "search" \notin Kinds      \* search_remote caches scattered messages
    /\ "expunge" \notin Faults    \* delete_message ignores a failed EXPUNGE

\* The messages of the server that are not cached.
Gap == DOMAIN inbox \ DOMAIN rows

\* A mark w tells what is missing above the window from what is missing below:
\* a missing message lies above every UID of S if it is at the mark or above,
\* and below every UID of S otherwise.
Outside(S, h, w) == IF h >= w THEN \A x \in S : x < h ELSE \A x \in S : h < x

\* What the call is about to add to the window.
Aim(c) == CASE c.pc = "fetch" -> c.uids
            [] c.pc = "store" -> DOMAIN c.batch
            [] OTHER          -> {}
\* A missing message that the call may leave aside: it is outside of what the
\* call adds, and not among the mail a sync must bring in.
Spared(c, h, w) ==
    /\ Outside(Aim(c), h, w)
    /\ c.kind = "sync" => ~ (w <= h /\ h < c.nxt)

\* What holds of a call's locals, given the UIDs on the server (box), the ones
\* missing from the cache (gap) and UIDNEXT (next).
SteadyCall(c, w, box, gap, next) ==
    /\ \A u \in c.uids \cup DOMAIN c.batch \cup {c.uid} : u < next
    /\ c.nxt <= next
    /\ c.pc = "clear" => FALSE
    /\ c.kind = "sync" => /\ c.known = 1 /\ w <= c.from
                          /\ c.pc \notin {"select", "done"} => c.val = 1 /\ w <= c.nxt
    /\ \/ c.pc \in {"fetch", "store", "recent", "flags", "apply", "record"}
       \/ c.pc = "done" /\ c.ok
       => \A h \in gap \ Aim(c) : Spared(c, h, w)
    /\ c.pc = "search" => c.kind = "older" /\ \A h \in gap : Outside({c.uid}, h, w)
    /\ c.pc = "drop" => c.uid \notin box

SteadyWindow(w) ==
    /\ w <= uidNext /\ w <= cachedUidNext
    /\ \A u \in DOMAIN inbox \cup DOMAIN rows : u < uidNext
    /\ \A h \in Gap : Outside(DOMAIN rows, h, w)

\* The inductive invariant.
SteadyAt(w) ==
    /\ validity = 1 /\ cachedValidity = 1
    /\ SteadyWindow(w)
    /\ \A t \in Task : SteadyCall(task[t], w, DOMAIN inbox, Gap, uidNext)
Steady == \E w \in 1..(MaxUid + 1) : SteadyAt(w)

----------------------------------------------------------------------------
(* Calls and the window *)

\* A call minds neither that messages leave the server nor that they are cached.
LEMMA CallMonotone ==
    ASSUME NEW c, NEW w, NEW box, NEW gap, NEW next, NEW box2, NEW gap2,
           box2 \subseteq box, gap2 \subseteq gap,
           SteadyCall(c, w, box, gap, next)
    PROVE  SteadyCall(c, w, box2, gap2, next)
BY DEF SteadyCall

\* What the types say of the numbers involved.
LEMMA Numbers ==
    ASSUME TypeOK, NEW t \in Task
    PROVE  /\ DOMAIN inbox \subseteq Nat /\ DOMAIN rows \subseteq Nat
           /\ Gap \subseteq Nat
           /\ uidNext \in Nat /\ cachedUidNext \in Nat
           /\ task[t].uids \subseteq Nat /\ DOMAIN task[t].batch \subseteq Nat
           /\ task[t].uid \in Nat /\ task[t].nxt \in Nat /\ task[t].from \in Nat
<1>1. Uid \subseteq Nat BY ConstantTypes DEF Uid
<1>2. DOMAIN inbox \subseteq Nat /\ DOMAIN rows \subseteq Nat
  BY <1>1, PickedUids
<1>3. uidNext \in Nat /\ cachedUidNext \in Nat BY ConstantTypes DEF TypeOK
<1>4. task[t].from \in Nat BY CallTypes, ConstantTypes DEF Call
<1>5. task[t].uids \subseteq Nat /\ DOMAIN task[t].batch \subseteq Nat
  BY <1>1, CallTypes
<1>6. task[t].uid \in Nat /\ task[t].nxt \in Nat BY CallTypes, ConstantTypes
<1>7. QED BY <1>2, <1>3, <1>4, <1>5, <1>6 DEF Gap

\* A call that is given up, and one that returns Ok.
LEMMA ErrSteady ==
    ASSUME NEW c \in Call, NEW w, NEW box, NEW gap, NEW next,
           SteadyCall(c, w, box, gap, next)
    PROVE  SteadyCall([Returning(c, {}) EXCEPT !.ok = FALSE], w, box, gap, next)
<1> DEFINE d == [Returning(c, {}) EXCEPT !.ok = FALSE]
<1>1. /\ d.kind = c.kind /\ d.pc = "done" /\ d.known = c.known /\ d.from = c.from
      /\ d.nxt = c.nxt /\ d.uid = c.uid /\ d.uids = {} /\ d.batch = NoRows
      /\ d.ok = FALSE
  BY DEF Returning, Call
<1>2. DOMAIN NoRows = {} BY NoRowsType
<1> HIDE DEF d
<1>3. SteadyCall(d, w, box, gap, next) BY <1>1, <1>2 DEF SteadyCall
<1>4. QED BY <1>3 DEF d

LEMMA OkSteady ==
    ASSUME NEW c \in Call, NEW w, NEW box, NEW gap, NEW next, NEW out,
           SteadyCall(c, w, box, gap, next),
           c.kind = "sync" => \A h \in gap : ~ (w <= h /\ h < c.nxt)
    PROVE  SteadyCall(Returning(c, out), w, box, gap, next)
<1> DEFINE d == Returning(c, out)
<1>1. /\ d.kind = c.kind /\ d.pc = "done" /\ d.known = c.known /\ d.from = c.from
      /\ d.nxt = c.nxt /\ d.uid = c.uid /\ d.uids = {} /\ d.batch = NoRows
  BY DEF Returning, Call
<1>2. DOMAIN NoRows = {} BY NoRowsType
<1> HIDE DEF d
<1>3. \A h \in gap : Spared(d, h, w) BY <1>1 DEF Spared, Aim, Outside
<1>4. SteadyCall(d, w, box, gap, next) BY <1>1, <1>2, <1>3 DEF SteadyCall
<1>5. QED BY <1>4 DEF d

\* A call takes a step in which nothing becomes missing that was not: the other
\* calls stay as they are.
LEMMA SteadyStep ==
    ASSUME TypeOK, NEW w, SteadyAt(w), NEW t \in Task, NEW c,
           task' = [task EXCEPT ![t] = c],
           UNCHANGED <<validity, uidNext>>, cachedValidity' = 1,
           DOMAIN inbox' \subseteq DOMAIN inbox, Gap' \subseteq Gap,
           SteadyWindow(w)',
           SteadyCall(c, w, DOMAIN inbox', Gap', uidNext)
    PROVE  SteadyAt(w)'
<1>1. task \in [Task -> Call] BY DEF TypeOK
<1>2. \A s \in Task : SteadyCall(task'[s], w, DOMAIN inbox', Gap', uidNext)
  <2>1. SUFFICES ASSUME NEW s \in Task
                 PROVE  SteadyCall(task'[s], w, DOMAIN inbox', Gap', uidNext)
    OBVIOUS
  <2>2. CASE s = t BY <1>1, <2>2
  <2>3. CASE s # t
    <3>1. task'[s] = task[s] BY <1>1, <2>3
    <3>2. SteadyCall(task[s], w, DOMAIN inbox, Gap, uidNext) BY DEF SteadyAt
    <3>3. SteadyCall(task[s], w, DOMAIN inbox', Gap', uidNext)
      BY <3>2, CallMonotone
    <3>4. QED BY <3>1, <3>3
  <2>4. QED BY <2>2, <2>3
<1>3. QED BY <1>2 DEF SteadyAt

\* The step of a call that only moves it.
LEMMA SteadyMove ==
    ASSUME TypeOK, NEW w, SteadyAt(w), NEW t \in Task, NEW c,
           task' = [task EXCEPT ![t] = c], UNCHANGED <<server, cache>>,
           SteadyCall(c, w, DOMAIN inbox, Gap, uidNext)
    PROVE  SteadyAt(w)'
<1>1. UNCHANGED <<validity, uidNext, inbox, cachedValidity, cachedUidNext, rows>>
  BY DEF server, cache, folder
<1>2. Gap' = Gap /\ SteadyWindow(w)' /\ cachedValidity' = 1
  BY <1>1 DEF Gap, SteadyWindow, SteadyAt
<1>3. QED BY <1>1, <1>2, SteadyStep

LEMMA IdleSteady ==
    ASSUME NEW w, NEW box, NEW gap, NEW next \in Nat \ {0}
    PROVE  SteadyCall(Idle, w, box, gap, next)
<1>1. DOMAIN NoRows = {} BY NoRowsType
<1>2. QED BY <1>1 DEF SteadyCall, Idle

----------------------------------------------------------------------------
(* The steps *)

LEMMA SteadyInitially == InitSynced => Steady
<1>1. SUFFICES ASSUME InitSynced PROVE Steady OBVIOUS
<1>2. PICK n \in 0..MaxUid : /\ inbox = [u \in 1..n |-> "unseen"]
                             /\ uidNext = n + 1 /\ validity = 1
  BY <1>1 DEF InitSynced, ServerInit
<1>3. PICK v \in 1..uidNext :
         rows = [u \in v..(uidNext - 1) |->
                   [gen |-> validity, flag |-> "unseen", raw |-> FALSE]]
  BY <1>1 DEF InitSynced
<1>4. DOMAIN inbox = 1..n /\ DOMAIN rows = v..n BY <1>2, <1>3, ConstantTypes
<1>5. SteadyWindow(uidNext)
  BY <1>1, <1>2, <1>3, <1>4, ConstantTypes DEF SteadyWindow, Gap, Outside, InitSynced
<1>6. \A t \in Task : SteadyCall(task[t], uidNext, DOMAIN inbox, Gap, uidNext)
  BY <1>1, <1>2, IdleSteady, ConstantTypes DEF InitSynced
<1>7. SteadyAt(uidNext) BY <1>1, <1>2, <1>5, <1>6 DEF SteadyAt, InitSynced
<1>8. QED BY <1>2, <1>7, ConstantTypes DEF Steady

\* New mail is above everything that is cached or asked for.
LEMMA SteadyArrive ==
    ASSUME TypeOK, NEW w \in 1..(MaxUid + 1), SteadyAt(w), Arrive
    PROVE  SteadyAt(w)'
<1>1. DOMAIN inbox' = DOMAIN inbox \cup {uidNext} /\ uidNext' = uidNext + 1
  BY DEF Arrive
<1>2. UNCHANGED <<validity, cachedValidity, cachedUidNext, rows, task>>
  BY DEF Arrive, cache, folder
<1>3. Gap' \subseteq Gap \cup {uidNext} BY <1>1, <1>2 DEF Gap
<1>4. w \in Nat /\ uidNext \in Nat /\ w <= uidNext
  BY ConstantTypes DEF SteadyAt, SteadyWindow, TypeOK
<1>5. DOMAIN inbox \subseteq Nat /\ DOMAIN rows \subseteq Nat
  BY PickedUids, ConstantTypes DEF Uid
<1>6. SteadyWindow(w)'
  <2>1. SteadyWindow(w) BY DEF SteadyAt
  <2>2. \A u \in DOMAIN inbox' \cup DOMAIN rows' : u < uidNext'
    BY <1>1, <1>2, <1>4, <1>5, <2>1 DEF SteadyWindow
  <2>3. Outside(DOMAIN rows, uidNext, w)
    BY <1>4, <2>1 DEF SteadyWindow, Outside
  <2>4. \A h \in Gap' : Outside(DOMAIN rows, h, w)
    BY <1>3, <2>1, <2>3 DEF SteadyWindow
  <2>5. w <= uidNext' BY <1>1, <1>4
  <2>6. QED BY <1>2, <2>1, <2>2, <2>4, <2>5 DEF SteadyWindow
<1>7. ASSUME NEW t \in Task
      PROVE  SteadyCall(task[t], w, DOMAIN inbox', Gap', uidNext')
  <2> DEFINE c == task[t]
  <2>1. SteadyCall(c, w, DOMAIN inbox, Gap, uidNext) BY DEF SteadyAt
  <2>2. /\ c.uids \subseteq Nat /\ DOMAIN c.batch \subseteq Nat
        /\ c.uid \in Nat /\ c.nxt \in Nat
    BY Numbers
  <2> HIDE DEF c
  <2>3. \A u \in c.uids \cup DOMAIN c.batch \cup {c.uid} : u < uidNext
    BY <2>1 DEF SteadyCall
  <2>4. c.nxt <= uidNext BY <2>1 DEF SteadyCall
  <2>5. \A u \in c.uids \cup DOMAIN c.batch \cup {c.uid} : u < uidNext'
    BY <1>1, <1>4, <2>2, <2>3
  <2>6. Spared(c, uidNext, w) /\ Outside({c.uid}, uidNext, w)
    BY <1>4, <2>2, <2>3, <2>4 DEF Spared, Aim, Outside
  <2>7. c.pc = "drop" => c.uid \notin DOMAIN inbox'
    <3>1. c.uid # uidNext BY <1>4, <2>2, <2>3
    <3>2. QED BY <1>1, <2>1, <3>1 DEF SteadyCall
  <2>8. c.nxt <= uidNext' BY <1>1, <1>4, <2>2, <2>4
  <2>9. SteadyCall(c, w, DOMAIN inbox', Gap', uidNext')
    BY <1>3, <2>1, <2>5, <2>6, <2>7, <2>8 DEF SteadyCall
  <2>10. QED BY <2>9 DEF c
<1>8. QED BY <1>2, <1>6, <1>7 DEF SteadyAt

\* Messages leave the mailbox, or change their flags.
LEMMA SteadyShrink ==
    ASSUME TypeOK, NEW w, SteadyAt(w), DOMAIN inbox' \subseteq DOMAIN inbox,
           UNCHANGED <<validity, uidNext, cache, task>>
    PROVE  SteadyAt(w)'
<1>1. UNCHANGED <<cachedValidity, cachedUidNext, rows>> BY DEF cache, folder
<1>2. Gap' \subseteq Gap BY <1>1 DEF Gap
<1>3. SteadyWindow(w)' BY <1>1, <1>2 DEF SteadyAt, SteadyWindow
<1>4. \A t \in Task : SteadyCall(task[t], w, DOMAIN inbox', Gap', uidNext)
  BY <1>2, CallMonotone DEF SteadyAt
<1>5. QED BY <1>1, <1>3, <1>4 DEF SteadyAt

LEMMA SteadyShared ==
    ASSUME TypeOK, NEW w \in 1..(MaxUid + 1), SteadyAt(w), NEW t \in Task, Shared(t)
    PROVE  SteadyAt(w)'
<1> DEFINE c == task[t]
<1>1. c \in Call BY CallTypes
<1>2. SteadyCall(c, w, DOMAIN inbox, Gap, uidNext) BY DEF SteadyAt
<1>3. Gap \subseteq DOMAIN inbox /\ Gap \cap DOMAIN rows = {} BY DEF Gap
<1>4. CASE CallFails(t) \/ SessionLost(t)
  BY <1>1, <1>2, <1>4, ErrSteady, SteadyMove DEF CallFails, SessionLost
<1>5. CASE Fetch(t)
  <2> DEFINE d == [c EXCEPT !.pc = "store", !.uids = {},
                            !.batch = Envelopes(c.uids)]
  <2>1. DOMAIN Envelopes(c.uids) = c.uids \cap DOMAIN inbox BY EnvelopesType
  <2>2. /\ d.kind = c.kind /\ d.pc = "store" /\ d.known = c.known
        /\ d.from = c.from /\ d.val = c.val /\ d.nxt = c.nxt /\ d.uid = c.uid
        /\ d.uids = {} /\ d.batch = Envelopes(c.uids)
    BY <1>1 DEF Call
  <2>3. c.pc = "fetch" /\ UNCHANGED <<server, cache>> /\ task' = [task EXCEPT ![t] = d]
    BY <1>5 DEF Fetch
  <2> HIDE DEF c, d
  <2>4. Aim(c) = c.uids /\ Aim(d) = c.uids \cap DOMAIN inbox
    BY <2>1, <2>2, <2>3 DEF Aim
  <2>5. ASSUME NEW h \in Gap \ Aim(d) PROVE Spared(d, h, w)
    <3>1. h \in Gap \ Aim(c) BY <1>3, <2>4
    <3>2. Spared(c, h, w) BY <1>2, <2>3, <3>1 DEF SteadyCall
    <3>3. Outside(Aim(d), h, w) BY <2>4, <3>2 DEF Spared, Outside
    <3>4. QED BY <2>2, <3>2, <3>3 DEF Spared
  <2>6. SteadyCall(d, w, DOMAIN inbox, Gap, uidNext)
    BY <1>2, <2>1, <2>2, <2>3, <2>5 DEF SteadyCall
  <2>7. QED BY <2>3, <2>6, SteadyMove
<1>6. CASE StoreBatch(t)
  <2> DEFINE B == DOMAIN c.batch
             d == AfterStore(c)
  <2>1. c.pc = "store" /\ Aim(c) = B BY <1>6 DEF StoreBatch, Aim
  <2>2. DOMAIN rows' = DOMAIN rows \cup B
    BY <1>6, CallTypes, UpsertType DEF StoreBatch, TypeOK
  <2>3. /\ UNCHANGED <<validity, uidNext, inbox, cachedValidity, cachedUidNext>>
        /\ task' = [task EXCEPT ![t] = d]
    BY <1>6 DEF StoreBatch, server, folder
  <2>4. Gap' = Gap \ B BY <2>2, <2>3 DEF Gap
  <2> HIDE DEF B, d
  <2>5. \A h \in Gap' : Spared(c, h, w) BY <1>2, <2>1, <2>4 DEF SteadyCall
  <2>6. SteadyWindow(w)'
    <3>1. SteadyWindow(w) BY DEF SteadyAt
    <3>2. \A h \in Gap' : Outside(DOMAIN rows, h, w) /\ Outside(B, h, w)
      BY <2>1, <2>4, <2>5, <3>1 DEF SteadyWindow, Spared
    <3>3. \A h \in Gap' : Outside(DOMAIN rows', h, w)
      BY <2>2, <3>2 DEF Outside
    <3>4. \A u \in B : u < uidNext BY <1>2 DEF SteadyCall, B
    <3>5. QED BY <2>2, <2>3, <3>1, <3>3, <3>4 DEF SteadyWindow
  <2>7. SteadyCall(c, w, DOMAIN inbox, Gap', uidNext)
    BY <1>2, <2>4, CallMonotone
  <2>8. SteadyCall(d, w, DOMAIN inbox, Gap', uidNext)
    <3>1. CASE c.kind # "sync" BY <1>1, <2>7, <3>1, OkSteady DEF AfterStore, d
    <3>2. CASE c.kind = "sync"
      <4>1. /\ d.kind = c.kind /\ d.pc \in {"recent", "record"}
            /\ d.known = c.known /\ d.from = c.from /\ d.val = c.val
            /\ d.nxt = c.nxt /\ d.uid = c.uid /\ d.uids = c.uids
            /\ d.batch = NoRows
        BY <1>1, <3>2 DEF AfterStore, Call, d
      <4>2. DOMAIN NoRows = {} BY NoRowsType
      <4> HIDE DEF c
      <4>3. \A h \in Gap' : Spared(d, h, w)
        BY <2>5, <4>1 DEF Spared, Aim, Outside
      <4>4. QED BY <2>1, <2>7, <4>1, <4>2, <4>3 DEF SteadyCall
    <3>3. QED BY <3>1, <3>2
  <2>9. cachedValidity' = 1 BY <2>3 DEF SteadyAt
  <2>10. QED BY <2>3, <2>4, <2>6, <2>8, <2>9, SteadyStep
<1>7. CASE Finish(t)
  <2>1. uidNext \in Nat \ {0} BY ConstantTypes DEF TypeOK
  <2>2. QED BY <1>7, <2>1, IdleSteady, SteadyMove DEF Finish
<1>8. QED BY <1>4, <1>5, <1>6, <1>7 DEF Shared

\* A sync that has stored its batch goes on without changing the window.
LEMMA SyncGoesOn ==
    ASSUME NEW c, NEW d, NEW w, NEW box, NEW gap, NEW next,
           SteadyCall(c, w, box, gap, next), c.kind = "sync",
           c.pc \in {"recent", "flags", "apply"}, d.pc \in {"flags", "apply", "record"},
           d.kind = "sync", d.known = c.known, d.from = c.from, d.val = c.val,
           d.nxt = c.nxt, d.uid = c.uid,
           \A u \in d.uids \cup DOMAIN d.batch : u < next
    PROVE  SteadyCall(d, w, box, gap, next)
<1>1. Aim(c) = {} /\ Aim(d) = {} BY DEF Aim
<1>2. \A h \in gap : Spared(c, h, w) BY <1>1 DEF SteadyCall
<1>3. \A h \in gap : Spared(d, h, w) BY <1>1, <1>2 DEF Spared
<1>4. QED BY <1>3 DEF SteadyCall

\* The UIDs an incremental sync asks for are all that are missing above the
\* window, up to its UIDNEXT.
LEMMA SteadyReadMax ==
    ASSUME TypeOK, NEW w \in 1..(MaxUid + 1), SteadyAt(w), NEW t \in Task, ReadMax(t)
    PROVE  SteadyAt(w)'
<1> DEFINE c == task[t]
           max == MaxUidOf(rows)
           uids == NewUids(max, c.nxt)
<1>1. c \in Call BY CallTypes
<1>2. SteadyCall(c, w, DOMAIN inbox, Gap, uidNext) BY DEF SteadyAt
<1>3. c.kind = "sync" /\ c.pc = "max" /\ UNCHANGED <<server, cache>>
  BY DEF ReadMax, At
<1>4. c.nxt \in Nat /\ c.nxt <= uidNext /\ uidNext \in Nat /\ w \in Nat /\ w <= c.nxt
  BY <1>2, <1>3, Numbers, ConstantTypes DEF SteadyCall
<1>5. CASE max = NoUid
  <2> DEFINE d == [c EXCEPT !.pc = "reselect"]
  <2>1. task' = [task EXCEPT ![t] = d] BY <1>5 DEF ReadMax, Goto
  <2>2. /\ d.kind = c.kind /\ d.pc = "reselect" /\ d.known = c.known
        /\ d.from = c.from /\ d.val = c.val /\ d.nxt = c.nxt /\ d.uid = c.uid
        /\ d.uids = c.uids /\ d.batch = c.batch
    BY <1>1 DEF Call
  <2> HIDE DEF c, d
  <2>3. SteadyCall(d, w, DOMAIN inbox, Gap, uidNext)
    BY <1>2, <1>3, <2>2 DEF SteadyCall
  <2>4. QED BY <1>3, <2>1, <2>3, SteadyMove
<1>6. CASE max # NoUid
  <2> DEFINE d == [c EXCEPT !.pc = IF uids = {} THEN "recent" ELSE "fetch",
                            !.uids = uids]
  <2>1. task' = [task EXCEPT ![t] = d] BY <1>6 DEF ReadMax
  <2>2. /\ d.kind = c.kind /\ d.pc = (IF uids = {} THEN "recent" ELSE "fetch")
        /\ d.known = c.known
        /\ d.from = c.from /\ d.val = c.val /\ d.nxt = c.nxt /\ d.uid = c.uid
        /\ d.uids = uids /\ d.batch = c.batch
    BY <1>1 DEF Call
  <2>4. DOMAIN rows \subseteq Nat /\ Gap \subseteq Nat BY Numbers
  <2>3. max \in DOMAIN rows /\ max \in Nat
    <3>1. DOMAIN rows # {} BY <1>6 DEF MaxUidOf
    <3>2. max \in DOMAIN rows BY <3>1, PickedUids
    <3>3. QED BY <2>4, <3>2
  <2> HIDE DEF c, d, max
  <2>5. \A u : u \in uids <=> u \in Nat /\ max < u /\ u < c.nxt
    BY <1>4, <2>3 DEF NewUids
  <2> HIDE DEF uids
  <2>6. Aim(d) = uids BY <2>2 DEF Aim
  <2>7. ASSUME NEW h \in Gap \ uids PROVE Spared(d, h, w)
    <3>1. Outside(DOMAIN rows, h, w) BY DEF SteadyAt, SteadyWindow
    <3>2. h \in Nat /\ h \notin uids BY <2>4, <2>7
    <3>3. CASE h >= w
      <4>1. max < h BY <2>3, <3>1, <3>3 DEF Outside
      <4>2. ~ (h < c.nxt) BY <2>5, <3>2, <4>1
      <4>3. \A u \in uids : u < h BY <1>4, <2>5, <3>2, <4>2
      <4>4. QED BY <2>2, <2>6, <3>3, <4>2, <4>3 DEF Spared, Outside
    <3>4. CASE ~ (h >= w)
      <4>1. h < max BY <2>3, <3>1, <3>4 DEF Outside
      <4>2. \A u \in uids : h < u BY <2>3, <2>5, <3>2, <4>1
      <4>3. ~ (w <= h) BY <1>4, <3>2, <3>4
      <4>4. QED BY <2>2, <2>6, <3>4, <4>2, <4>3 DEF Spared, Outside
    <3>5. QED BY <3>3, <3>4
  <2>8. \A u \in uids : u < uidNext BY <1>4, <2>5
  <2>9. SteadyCall(d, w, DOMAIN inbox, Gap, uidNext)
    BY <1>2, <1>3, <2>2, <2>6, <2>7, <2>8 DEF SteadyCall
  <2>10. QED BY <1>3, <2>1, <2>9, SteadyMove
<1>7. QED BY <1>5, <1>6

LEMMA SteadySync ==
    ASSUME TypeOK, NEW w \in 1..(MaxUid + 1), SteadyAt(w), NEW t \in Task, Sync(t)
    PROVE  SteadyAt(w)'
<1> DEFINE c == task[t]
<1>1. c \in Call BY CallTypes
<1>2. SteadyCall(c, w, DOMAIN inbox, Gap, uidNext) BY DEF SteadyAt
<1>3. validity = 1 /\ cachedValidity = 1 /\ SteadyWindow(w) BY DEF SteadyAt
<1>4. DOMAIN NoRows = {} BY NoRowsType
<1>5. uidNext \in Nat \ {0} /\ w \in Nat BY ConstantTypes DEF TypeOK
<1>6. CASE StartSync(t)
  <2> DEFINE d == [Idle EXCEPT !.kind = "sync", !.pc = "select",
                               !.known = cachedValidity, !.from = cachedUidNext]
  <2>1. /\ d.kind = "sync" /\ d.pc = "select" /\ d.known = cachedValidity
        /\ d.from = cachedUidNext /\ d.nxt = 0 /\ d.uid = 0 /\ d.uids = {}
        /\ d.batch = NoRows
    BY DEF Idle
  <2>2. task' = [task EXCEPT ![t] = d] /\ UNCHANGED <<server, cache>>
    BY <1>6 DEF StartSync
  <2> HIDE DEF d
  <2>3. SteadyCall(d, w, DOMAIN inbox, Gap, uidNext)
    BY <1>3, <1>4, <1>5, <2>1 DEF SteadyCall, SteadyWindow
  <2>4. QED BY <2>2, <2>3, SteadyMove
<1>7. CASE Select(t)
  <2> DEFINE d == [c EXCEPT !.pc = "max", !.uids = {}, !.val = validity,
                            !.ses = validity, !.nxt = uidNext]
  <2>1. c.kind = "sync" /\ c.pc = "select" /\ UNCHANGED <<server, cache>>
    BY <1>7 DEF Select, At
  <2>2. c.known = validity BY <1>2, <1>3, <2>1 DEF SteadyCall
  <2>3. task' = [task EXCEPT ![t] = d]
    <3>1. AfterSelect(c, {}) = "max"
      BY <1>3, <2>2 DEF AfterSelect, NoValidity
    <3>2. QED BY <1>7, <2>2, <3>1 DEF Select
  <2>4. /\ d.kind = c.kind /\ d.pc = "max" /\ d.known = c.known
        /\ d.from = c.from /\ d.val = validity /\ d.nxt = uidNext
        /\ d.uid = c.uid /\ d.uids = {} /\ d.batch = c.batch
    BY <1>1 DEF Call
  <2> HIDE DEF c, d
  <2>5. SteadyCall(d, w, DOMAIN inbox, Gap, uidNext)
    BY <1>2, <1>3, <1>5, <2>1, <2>4 DEF SteadyCall, SteadyWindow
  <2>6. QED BY <2>1, <2>3, <2>5, SteadyMove
<1>8. CASE Clear(t)
  BY <1>2, <1>8 DEF Clear, At, SteadyCall
<1>9. CASE Reselect(t)
  <2> DEFINE d == [c EXCEPT !.pc = IF DOMAIN inbox = {} THEN "recent" ELSE "fetch",
                            !.ses = validity, !.uids = DOMAIN inbox]
  <2>1. /\ c.kind = "sync" /\ c.pc = "reselect" /\ UNCHANGED <<server, cache>>
        /\ task' = [task EXCEPT ![t] = d]
    BY <1>9 DEF Reselect, At
  <2>2. /\ d.kind = c.kind /\ d.known = c.known
        /\ d.pc = (IF DOMAIN inbox = {} THEN "recent" ELSE "fetch")
        /\ d.from = c.from /\ d.val = c.val /\ d.nxt = c.nxt
        /\ d.uid = c.uid /\ d.uids = DOMAIN inbox /\ d.batch = c.batch
    BY <1>1 DEF Call
  <2> HIDE DEF c, d
  <2>3. Gap \ Aim(d) = {} BY <2>2 DEF Aim, Gap
  <2>4. SteadyCall(d, w, DOMAIN inbox, Gap, uidNext)
    BY <1>2, <1>3, <2>1, <2>2, <2>3 DEF SteadyCall, SteadyWindow
  <2>5. QED BY <2>1, <2>4, SteadyMove
<1>10. CASE ReadRecent(t)
  <2> DEFINE uids == Newest(DOMAIN rows, FlagWindow)
             d == [c EXCEPT !.pc = IF uids = {} THEN "record" ELSE "flags",
                            !.uids = uids]
  <2>1. /\ c.kind = "sync" /\ c.pc = "recent" /\ UNCHANGED <<server, cache>>
        /\ task' = [task EXCEPT ![t] = d]
    BY <1>10 DEF ReadRecent, At
  <2>2. /\ d.kind = c.kind /\ d.known = c.known /\ d.pc \in {"record", "flags"}
        /\ d.from = c.from /\ d.val = c.val /\ d.nxt = c.nxt
        /\ d.uid = c.uid /\ d.uids = uids /\ d.batch = c.batch
    BY <1>1 DEF Call
  <2>3. uids \subseteq DOMAIN rows BY PickedUids
  <2> HIDE DEF c, d, uids
  <2>4. \A u \in d.uids \cup DOMAIN d.batch : u < uidNext
    BY <1>2, <1>3, <2>2, <2>3 DEF SteadyCall, SteadyWindow
  <2>5. SteadyCall(d, w, DOMAIN inbox, Gap, uidNext)
    BY <1>2, <2>1, <2>2, <2>4, SyncGoesOn
  <2>6. QED BY <2>1, <2>5, SteadyMove
<1>11. CASE FetchFlags(t)
  <2> DEFINE d == [c EXCEPT !.pc = "apply", !.uids = {},
                            !.batch = Envelopes(c.uids)]
  <2>1. /\ c.kind = "sync" /\ c.pc = "flags" /\ UNCHANGED <<server, cache>>
        /\ task' = [task EXCEPT ![t] = d]
    BY <1>11 DEF FetchFlags, At
  <2>2. /\ d.kind = c.kind /\ d.known = c.known /\ d.pc = "apply"
        /\ d.from = c.from /\ d.val = c.val /\ d.nxt = c.nxt
        /\ d.uid = c.uid /\ d.uids = {} /\ d.batch = Envelopes(c.uids)
    BY <1>1 DEF Call
  <2>3. DOMAIN Envelopes(c.uids) = c.uids \cap DOMAIN inbox BY EnvelopesType
  <2> HIDE DEF c, d
  <2>4. \A u \in d.uids \cup DOMAIN d.batch : u < uidNext
    BY <1>3, <2>2, <2>3 DEF SteadyWindow
  <2>5. SteadyCall(d, w, DOMAIN inbox, Gap, uidNext)
    BY <1>2, <2>1, <2>2, <2>4, SyncGoesOn
  <2>6. QED BY <2>1, <2>5, SteadyMove
<1>12. CASE ApplyFlags(t)
  <2> DEFINE d == [c EXCEPT !.pc = "record", !.batch = NoRows]
  <2>1. /\ c.kind = "sync" /\ c.pc = "apply" /\ task' = [task EXCEPT ![t] = d]
        /\ UNCHANGED <<validity, uidNext, inbox, cachedValidity, cachedUidNext>>
    BY <1>12 DEF ApplyFlags, At, server, folder
  <2>2. DOMAIN rows' = DOMAIN rows
    BY <1>12, CallTypes, UpdateFlagsType DEF ApplyFlags, TypeOK
  <2>3. /\ d.kind = c.kind /\ d.known = c.known /\ d.pc = "record"
        /\ d.from = c.from /\ d.val = c.val /\ d.nxt = c.nxt
        /\ d.uid = c.uid /\ d.uids = c.uids /\ d.batch = NoRows
    BY <1>1 DEF Call
  <2> HIDE DEF c, d
  <2>4. Gap' = Gap /\ SteadyWindow(w)'
    BY <1>3, <2>1, <2>2 DEF Gap, SteadyWindow
  <2>5. \A u \in d.uids \cup DOMAIN d.batch : u < uidNext
    BY <1>2, <1>4, <2>3 DEF SteadyCall
  <2>6. SteadyCall(d, w, DOMAIN inbox, Gap, uidNext)
    BY <1>2, <2>1, <2>3, <2>5, SyncGoesOn
  <2>7. QED BY <1>3, <2>1, <2>4, <2>6, SteadyStep
<1>13. CASE Record(t)
  <2> DEFINE d == Returning(c, c.out)
  <2>1. /\ c.kind = "sync" /\ c.pc = "record" /\ task' = [task EXCEPT ![t] = d]
        /\ UNCHANGED <<validity, uidNext, inbox, rows>>
        /\ cachedValidity' = c.val /\ cachedUidNext' = c.nxt
    BY <1>13 DEF Record, Return, At, server
  <2> HIDE DEF c, d
  <2>2. c.val = 1 /\ w <= c.nxt BY <1>2, <2>1 DEF SteadyCall
  <2>3. Gap' = Gap /\ SteadyWindow(w)'
    BY <1>3, <2>1, <2>2 DEF Gap, SteadyWindow
  <2>4. \A h \in Gap : ~ (w <= h /\ h < c.nxt)
    BY <1>2, <2>1 DEF SteadyCall, Spared, Aim
  <2>5. SteadyCall(d, w, DOMAIN inbox, Gap, uidNext)
    BY <1>1, <1>2, <2>4, OkSteady DEF d
  <2>6. QED BY <2>1, <2>2, <2>3, <2>5, SteadyStep
<1>14. QED
  BY <1>6, <1>7, <1>8, <1>9, <1>10, <1>11, <1>12, <1>13, SteadyReadMax DEF Sync

\* load-more takes the newest messages below the window; what it leaves is
\* below those.
LEMMA SteadyOlder ==
    ASSUME TypeOK, NEW w \in 1..(MaxUid + 1), SteadyAt(w), NEW t \in Task,
           StartOlder(t) \/ SearchOlder(t)
    PROVE  SteadyAt(w)'
<1> DEFINE c == task[t]
<1>1. c \in Call BY CallTypes
<1>2. SteadyCall(c, w, DOMAIN inbox, Gap, uidNext) BY DEF SteadyAt
<1>3. SteadyWindow(w) BY DEF SteadyAt
<1>4. DOMAIN NoRows = {} BY NoRowsType
<1>5. uidNext \in Nat \ {0} /\ w \in Nat BY ConstantTypes DEF TypeOK
<1>6. CASE StartOlder(t)
  <2> DEFINE min == MinUidOf(rows)
             d == [Idle EXCEPT !.kind = "older", !.uid = min,
                               !.pc = IF min <= 1 THEN "done" ELSE "search"]
  <2>1. task' = [task EXCEPT ![t] = d] /\ UNCHANGED <<server, cache>>
    BY <1>6 DEF StartOlder
  <2>2. /\ d.kind = "older" /\ d.pc = (IF min <= 1 THEN "done" ELSE "search")
        /\ d.nxt = 0 /\ d.uid = min /\ d.uids = {} /\ d.batch = NoRows
    BY DEF Idle
  <2>3. min = 0 \/ min \in DOMAIN rows
    <3>1. DOMAIN rows # {} => min \in DOMAIN rows BY PickedUids
    <3>2. QED BY <3>1 DEF MinUidOf, NoUid
  <2> HIDE DEF d, min
  <2>4. min < uidNext BY <1>3, <1>5, <2>3 DEF SteadyWindow
  <2>5. d.pc \in {"done", "search"} /\ (d.pc = "search" => min \in DOMAIN rows)
    BY <2>2, <2>3
  <2>6. \A h \in Gap : d.pc = "search" => Outside({d.uid}, h, w)
    BY <1>3, <2>2, <2>5 DEF SteadyWindow, Outside
  <2>7. \A h \in Gap : d.pc = "done" => Spared(d, h, w)
    BY <2>2 DEF Spared, Aim, Outside
  <2>8. SteadyCall(d, w, DOMAIN inbox, Gap, uidNext)
    <3> HIDE DEF c
    <3>1. /\ d.kind = "older" /\ d.nxt = 0 /\ d.uid = min
          /\ d.uids = {} /\ d.batch = NoRows
      BY <2>2
    <3>2. \A u \in d.uids \cup DOMAIN d.batch \cup {d.uid} : u < uidNext
      BY <1>4, <2>4, <3>1
    <3>3. d.nxt <= uidNext BY <1>5, <3>1
    <3>4. d.pc = "search" => \A h \in Gap : Outside({d.uid}, h, w) BY <2>6
    <3>5. d.pc = "done" => \A h \in Gap : Spared(d, h, w) BY <2>7
    <3>6. QED BY <2>5, <3>1, <3>2, <3>3, <3>4, <3>5 DEF SteadyCall
  <2>9. QED BY <2>1, <2>8, SteadyMove
<1>7. CASE SearchOlder(t)
  <2> DEFINE below == {u \in DOMAIN inbox : u < c.uid}
             uids == OlderCandidates(c.uid)
  <2>1. /\ c.kind = "older" /\ c.pc = "search" /\ UNCHANGED <<server, cache>>
        /\ FetchFound(t, uids)
    BY <1>7 DEF SearchOlder, At
  <2>2. DOMAIN inbox \subseteq Nat /\ Gap \subseteq DOMAIN inbox
        /\ Gap \subseteq Nat /\ c.uid \in Nat
    BY Numbers DEF Gap
  <2>3. /\ uids \subseteq below
        /\ \A u \in uids, v \in below : v > u => v \in uids
    <3>1. IsFiniteSet(below)
      <4>1. below \subseteq 1..MaxUid BY PickedUids DEF Uid
      <4>2. IsFiniteSet(1..MaxUid) BY FS_Interval, ConstantTypes
      <4>3. QED BY <4>1, <4>2, FS_Subset
    <3>2. below \in SUBSET Nat BY <2>2
    <3>3. uids = Newest(below, OlderBatch) BY DEF OlderCandidates
    <3> HIDE DEF below, uids
    <3>4. QED BY <3>1, <3>2, <3>3, NewestIsUpwardClosed, ConstantTypes
  <2>4. CASE uids = {}
    <3>1. task' = [task EXCEPT ![t] = Returning(c, {})]
      BY <2>1, <2>4 DEF FetchFound
    <3>2. SteadyCall(Returning(c, {}), w, DOMAIN inbox, Gap, uidNext)
      BY <1>1, <1>2, <2>1, OkSteady
    <3>3. QED BY <2>1, <3>1, <3>2, SteadyMove
  <2>5. CASE uids # {}
    <3> DEFINE d == [c EXCEPT !.pc = "fetch", !.ses = validity, !.uids = uids]
    <3>1. task' = [task EXCEPT ![t] = d] BY <2>1, <2>5 DEF FetchFound
    <3>2. /\ d.kind = "older" /\ d.pc = "fetch" /\ d.nxt = c.nxt /\ d.uid = c.uid
          /\ d.uids = uids /\ d.batch = c.batch
      BY <1>1, <2>1 DEF Call
    <3> HIDE DEF c, d, uids, below
    <3>3. ASSUME NEW h \in Gap \ uids PROVE Spared(d, h, w)
      <4>1. Outside({c.uid}, h, w) BY <1>2, <2>1 DEF SteadyCall
      <4>2. h \in Nat /\ h \in DOMAIN inbox /\ h \notin uids BY <2>2, <3>3
      <4>3. \A u \in uids : u \in Nat /\ u < c.uid BY <2>2, <2>3 DEF below
      <4>4. CASE h >= w
        <5>1. \A u \in uids : u < h BY <2>2, <4>1, <4>2, <4>3, <4>4 DEF Outside
        <5>2. QED BY <3>2, <4>4, <5>1 DEF Spared, Aim, Outside
      <4>5. CASE ~ (h >= w)
        <5>1. h \in below BY <4>1, <4>2, <4>5 DEF Outside, below
        <5>2. \A u \in uids : ~ (h > u) /\ h # u BY <2>3, <4>2, <5>1
        <5>3. \A u \in uids : h < u BY <4>2, <4>3, <5>2
        <5>4. QED BY <3>2, <4>5, <5>3 DEF Spared, Aim, Outside
      <4>6. QED BY <4>4, <4>5
    <3>4. \A u \in uids : u < uidNext BY <1>3, <2>3 DEF SteadyWindow, below
    <3>5. Aim(d) = uids BY <3>2 DEF Aim
    <3>6. SteadyCall(d, w, DOMAIN inbox, Gap, uidNext)
      BY <1>2, <3>2, <3>3, <3>4, <3>5 DEF SteadyCall
    <3>7. QED BY <2>1, <3>1, <3>6, SteadyMove
  <2>6. QED BY <2>4, <2>5
<1>8. QED BY <1>6, <1>7

\* Reading a body leaves the set of cached messages alone, and fetch_body's
\* locals say nothing of the window.
LEMMA SteadyBody ==
    ASSUME TypeOK, NEW w \in 1..(MaxUid + 1), SteadyAt(w), NEW t \in Task, Body(t)
    PROVE  SteadyAt(w)'
<1> DEFINE c == task[t]
<1>1. c \in Call BY CallTypes
<1>2. SteadyCall(c, w, DOMAIN inbox, Gap, uidNext) BY DEF SteadyAt
<1>3. SteadyWindow(w) /\ cachedValidity = 1 BY DEF SteadyAt
<1>4. ASSUME NEW d, c.kind = "body", d.kind = "body", d.nxt = c.nxt, d.uid = c.uid,
             d.pc \in {"get", "write", "link", "done"},
             d.uids \subseteq c.uids, DOMAIN d.batch \subseteq DOMAIN c.batch
      PROVE  SteadyCall(d, w, DOMAIN inbox, Gap, uidNext)
  <2> HIDE DEF c
  <2>1. \A h : d.pc = "done" => Spared(d, h, w) BY <1>4 DEF Spared, Aim, Outside
  <2>2. QED BY <1>2, <1>4, <2>1 DEF SteadyCall
<1>5. DOMAIN NoRows = {} BY NoRowsType
<1>6. \A out : LET d == Returning(c, out) IN
         /\ d.kind = c.kind /\ d.pc = "done" /\ d.nxt = c.nxt /\ d.uid = c.uid
         /\ d.uids = {} /\ d.batch = NoRows
  BY <1>1 DEF Returning, Call
<1>7. CASE StartBody(t)
  <2>1. PICK u \in OnScreen :
           task' = [task EXCEPT ![t] = [Idle EXCEPT !.kind = "body", !.pc = "path",
                                              !.uid = u, !.known = RowGen(u)]]
    BY <1>7 DEF StartBody
  <2> DEFINE d == [Idle EXCEPT !.kind = "body", !.pc = "path",
                               !.uid = u, !.known = RowGen(u)]
  <2>2. /\ d.kind = "body" /\ d.pc = "path" /\ d.nxt = 0 /\ d.uid = u
        /\ d.uids = {} /\ d.batch = NoRows
    BY DEF Idle
  <2>3. uidNext \in Nat /\ u < uidNext BY Numbers DEF OnScreen, SteadyAt
  <2>4. task' = [task EXCEPT ![t] = d] BY <2>1
  <2> HIDE DEF d
  <2>5. SteadyCall(d, w, DOMAIN inbox, Gap, uidNext)
    BY <1>5, <2>2, <2>3 DEF SteadyCall
  <2>6. QED BY <1>7, <2>4, <2>5, SteadyMove DEF StartBody
<1>8. CASE ReadPath(t)
  <2>1. c.kind = "body" /\ UNCHANGED <<server, cache>> BY <1>8 DEF ReadPath, At
  <2> DEFINE d1 == [Returning(c, {}) EXCEPT !.val = disk[c.uid]]
             d2 == [c EXCEPT !.pc = "get"]
  <2>2. task' = [task EXCEPT ![t] = d1] \/ task' = [task EXCEPT ![t] = d2]
    BY <1>8 DEF ReadPath, Goto
  <2>3. /\ d1.kind = c.kind /\ d1.pc = "done" /\ d1.nxt = c.nxt /\ d1.uid = c.uid
        /\ d1.uids = {} /\ d1.batch = NoRows
    BY <1>1 DEF Returning, Call
  <2>4. /\ d2.kind = c.kind /\ d2.pc = "get" /\ d2.nxt = c.nxt /\ d2.uid = c.uid
        /\ d2.uids = c.uids /\ d2.batch = c.batch
    BY <1>1 DEF Call
  <2> HIDE DEF c, d1, d2
  <2>5. SteadyCall(d1, w, DOMAIN inbox, Gap, uidNext) BY <1>4, <1>5, <2>1, <2>3
  <2>6. SteadyCall(d2, w, DOMAIN inbox, Gap, uidNext) BY <1>4, <2>1, <2>4
  <2>7. QED BY <2>1, <2>2, <2>5, <2>6, SteadyMove
<1>9. CASE GetRaw(t)
  <2>1. c.kind = "body" /\ UNCHANGED <<server, cache>> BY <1>9 DEF GetRaw, At
  <2> DEFINE d1 == [Returning(c, {}) EXCEPT !.ok = FALSE]
             d2 == [c EXCEPT !.pc = "write", !.val = validity]
  <2>2. task' = [task EXCEPT ![t] = d1] \/ task' = [task EXCEPT ![t] = d2]
    BY <1>9 DEF GetRaw
  <2>3. SteadyCall(d1, w, DOMAIN inbox, Gap, uidNext) BY <1>1, <1>2, ErrSteady
  <2>4. /\ d2.kind = c.kind /\ d2.pc = "write" /\ d2.nxt = c.nxt /\ d2.uid = c.uid
        /\ d2.uids = c.uids /\ d2.batch = c.batch
    BY <1>1 DEF Call
  <2> HIDE DEF c, d1, d2
  <2>5. SteadyCall(d2, w, DOMAIN inbox, Gap, uidNext) BY <1>4, <2>1, <2>4
  <2>6. QED BY <2>1, <2>2, <2>3, <2>5, SteadyMove
<1>10. CASE WriteFile(t) \/ CacheFails(t) \/ Link(t)
  <2> DEFINE d1 == Returning(c, c.out)
             d2 == [c EXCEPT !.pc = "link"]
  <2>1. c.kind = "body"
    BY <1>10 DEF WriteFile, CacheFails, Link, At
  <2>2. task' = [task EXCEPT ![t] = d1] \/ task' = [task EXCEPT ![t] = d2]
    BY <1>10 DEF WriteFile, CacheFails, Link, Return, Goto
  <2>3. UNCHANGED <<validity, uidNext, inbox, cachedValidity, cachedUidNext>>
    BY <1>10 DEF WriteFile, CacheFails, Link, server, cache, folder
  <2>4. DOMAIN rows' = DOMAIN rows
    BY <1>10, SetRawPathType DEF WriteFile, CacheFails, Link, cache, TypeOK
  <2>5. Gap' = Gap /\ SteadyWindow(w)'
    BY <1>3, <2>3, <2>4 DEF Gap, SteadyWindow
  <2>6. /\ d2.kind = c.kind /\ d2.pc = "link" /\ d2.nxt = c.nxt /\ d2.uid = c.uid
        /\ d2.uids = c.uids /\ d2.batch = c.batch
    BY <1>1 DEF Call
  <2>7. /\ d1.kind = c.kind /\ d1.pc = "done" /\ d1.nxt = c.nxt /\ d1.uid = c.uid
        /\ d1.uids = {} /\ d1.batch = NoRows
    BY <1>6
  <2> HIDE DEF c, d1, d2
  <2>8. SteadyCall(d1, w, DOMAIN inbox, Gap, uidNext) BY <1>4, <1>5, <2>1, <2>7
  <2>9. SteadyCall(d2, w, DOMAIN inbox, Gap, uidNext) BY <1>4, <2>1, <2>6
  <2>10. QED BY <1>3, <2>2, <2>3, <2>5, <2>8, <2>9, SteadyStep
<1>11. QED BY <1>7, <1>8, <1>9, <1>10 DEF Body

\* A deletion only drops a row whose message has left the server.
LEMMA SteadyDelete ==
    ASSUME SteadyCase, TypeOK, NEW w \in 1..(MaxUid + 1), SteadyAt(w),
           NEW t \in Task, Delete(t)
    PROVE  SteadyAt(w)'
<1> DEFINE c == task[t]
<1>1. c \in Call BY CallTypes
<1>2. SteadyCall(c, w, DOMAIN inbox, Gap, uidNext) BY DEF SteadyAt
<1>3. SteadyWindow(w) /\ cachedValidity = 1 BY DEF SteadyAt
<1>4. DOMAIN NoRows = {} BY NoRowsType
<1>5. CASE StartDelete(t)
  <2>1. PICK u \in OnScreen :
           task' = [task EXCEPT ![t] = [Idle EXCEPT !.kind = "delete",
                                !.pc = "remove", !.uid = u, !.known = RowGen(u)]]
    BY <1>5 DEF StartDelete
  <2> DEFINE d == [Idle EXCEPT !.kind = "delete", !.pc = "remove",
                               !.uid = u, !.known = RowGen(u)]
  <2>2. /\ d.kind = "delete" /\ d.pc = "remove" /\ d.nxt = 0 /\ d.uid = u
        /\ d.uids = {} /\ d.batch = NoRows
    BY DEF Idle
  <2>3. uidNext \in Nat /\ u < uidNext BY Numbers DEF OnScreen, SteadyAt
  <2>4. task' = [task EXCEPT ![t] = d] BY <2>1
  <2> HIDE DEF d
  <2>5. SteadyCall(d, w, DOMAIN inbox, Gap, uidNext)
    BY <1>4, <2>2, <2>3 DEF SteadyCall
  <2>6. QED BY <1>5, <2>4, <2>5, SteadyMove DEF StartDelete
<1>6. CASE Remove(t)
  <2> DEFINE d == [c EXCEPT !.pc = "drop"]
  <2>1. /\ c.kind = "delete" /\ task' = [task EXCEPT ![t] = d]
        /\ UNCHANGED <<validity, uidNext, cachedValidity, cachedUidNext, rows>>
    BY <1>6 DEF Remove, At, Goto, cache, folder
  <2>2. DOMAIN inbox' \subseteq DOMAIN inbox \ {c.uid}
    BY <1>6 DEF Remove, Removed
  <2>3. /\ d.kind = "delete" /\ d.pc = "drop" /\ d.nxt = c.nxt /\ d.uid = c.uid
        /\ d.uids = c.uids /\ d.batch = c.batch
    BY <1>1, <2>1 DEF Call
  <2> HIDE DEF c, d
  <2>4. Gap' \subseteq Gap BY <2>1, <2>2 DEF Gap
  <2>5. SteadyWindow(w)' BY <1>3, <2>1, <2>2, <2>4 DEF SteadyWindow
  <2>6. SteadyCall(d, w, DOMAIN inbox', Gap', uidNext)
    BY <1>2, <2>2, <2>3 DEF SteadyCall
  <2>7. QED BY <1>3, <2>1, <2>2, <2>4, <2>5, <2>6, SteadyStep
<1>7. CASE RemoveReplyLost(t)
  <2> DEFINE d == [Returning(c, {}) EXCEPT !.ok = FALSE]
  <2>1. /\ task' = [task EXCEPT ![t] = d]
        /\ UNCHANGED <<validity, uidNext, cachedValidity, cachedUidNext, rows>>
    BY <1>7 DEF RemoveReplyLost, cache, folder
  <2>2. DOMAIN inbox' \subseteq DOMAIN inbox
    BY <1>7 DEF RemoveReplyLost, Removed, Marked
  <2>3. Gap' \subseteq Gap BY <2>1, <2>2 DEF Gap
  <2>4. SteadyWindow(w)' BY <1>3, <2>1, <2>2, <2>3 DEF SteadyWindow
  <2>5. SteadyCall(c, w, DOMAIN inbox', Gap', uidNext)
    BY <1>2, <2>2, <2>3, CallMonotone
  <2>6. SteadyCall(d, w, DOMAIN inbox', Gap', uidNext) BY <1>1, <2>5, ErrSteady
  <2>7. QED BY <1>3, <2>1, <2>2, <2>3, <2>4, <2>6, SteadyStep
<1>8. CASE Drop(t)
  <2> DEFINE d1 == Returning(c, c.out)
             d2 == [c EXCEPT !.pc = "unlink"]
  <2>1. /\ c.kind = "delete" /\ c.pc = "drop"
        /\ UNCHANGED <<validity, uidNext, inbox, cachedValidity, cachedUidNext>>
        /\ task' = [task EXCEPT ![t] = d1] \/ task' = [task EXCEPT ![t] = d2]
    BY <1>8 DEF Drop, At, Goto, Return, server, folder
  <2>2. DOMAIN rows' = DOMAIN rows \ {c.uid}
    BY <1>8, DeleteRowType DEF Drop, TypeOK
  <2>3. c.uid \notin DOMAIN inbox BY <1>2, <2>1 DEF SteadyCall
  <2>4. Gap' = Gap BY <2>1, <2>2, <2>3 DEF Gap
  <2>5. SteadyWindow(w)' BY <1>3, <2>1, <2>2, <2>4 DEF SteadyWindow, Outside
  <2>6. SteadyCall(d1, w, DOMAIN inbox, Gap, uidNext)
    BY <1>1, <1>2, <2>1, OkSteady
  <2>7. /\ d2.kind = "delete" /\ d2.pc = "unlink" /\ d2.nxt = c.nxt
        /\ d2.uid = c.uid /\ d2.uids = c.uids /\ d2.batch = c.batch
    BY <1>1, <2>1 DEF Call
  <2> HIDE DEF c, d1, d2
  <2>8. SteadyCall(d2, w, DOMAIN inbox, Gap, uidNext)
    BY <1>2, <2>7 DEF SteadyCall
  <2>9. QED BY <1>3, <2>1, <2>4, <2>5, <2>6, <2>8, SteadyStep
<1>9. CASE Unlink(t)
  <2> DEFINE d == Returning(c, c.out)
  <2>1. /\ c.kind = "delete" /\ task' = [task EXCEPT ![t] = d]
        /\ UNCHANGED <<validity, uidNext, inbox, cachedValidity, cachedUidNext, rows>>
    BY <1>9 DEF Unlink, At, Return, server, folder
  <2>2. Gap' = Gap /\ SteadyWindow(w)' BY <1>3, <2>1 DEF Gap, SteadyWindow
  <2>3. SteadyCall(d, w, DOMAIN inbox, Gap, uidNext)
    BY <1>1, <1>2, <2>1, OkSteady
  <2>4. QED BY <1>3, <2>1, <2>2, <2>3, SteadyStep
<1>10. ~ RemoveMarksOnly(t) BY DEF SteadyCase, RemoveMarksOnly
<1>11. QED BY <1>5, <1>6, <1>7, <1>8, <1>9, <1>10 DEF Delete

LEMMA SteadyNext ==
    ASSUME SteadyCase, TypeOK, Steady, [Next]_vars
    PROVE  Steady'
<1>1. PICK w \in 1..(MaxUid + 1) : SteadyAt(w) BY DEF Steady
<1>2. SteadyAt(w)'
  <2>1. CASE UNCHANGED vars
    BY <1>1, <2>1 DEF vars, server, cache, folder, SteadyAt, SteadyWindow, Gap
  <2>2. CASE Arrive BY <1>1, <2>2, SteadyArrive
  <2>3. CASE Expunge \/ ChangeFlag
    <3>1. DOMAIN inbox' \subseteq DOMAIN inbox
      BY <2>3 DEF Expunge, ChangeFlag
    <3>2. UNCHANGED <<validity, uidNext, cache, task>>
      BY <2>3 DEF Expunge, ChangeFlag
    <3>3. QED BY <1>1, <3>1, <3>2, SteadyShrink
  <2>4. CASE Crash
    <3>1. UNCHANGED <<validity, uidNext, inbox, cachedValidity, cachedUidNext, rows>>
      BY <2>4 DEF Crash, server, cache, folder
    <3>2. uidNext \in Nat \ {0} BY ConstantTypes DEF TypeOK
    <3>3. \A t \in Task : SteadyCall(task'[t], w, DOMAIN inbox, Gap, uidNext)
      BY <2>4, <3>2, IdleSteady DEF Crash
    <3>4. QED BY <1>1, <3>1, <3>3 DEF SteadyAt, SteadyWindow, Gap
  <2>5. ~ Renumber BY DEF SteadyCase, Renumber
  <2>6. \A t \in Task : ~ StartSearch(t) /\ ~ SearchText(t)
    <3>1. \A t \in Task : ~ StartSearch(t) BY DEF SteadyCase, StartSearch
    <3>2. ASSUME NEW t \in Task PROVE ~ SearchText(t)
      <4>1. task[t].kind # "search" BY CallTypes DEF SteadyCase, Call
      <4>2. QED BY <4>1 DEF SearchText, At
    <3>3. QED BY <3>1, <3>2
  <2>7. QED
    BY <1>1, <2>1, <2>2, <2>3, <2>4, <2>5, <2>6, SteadyShared, SteadySync,
       SteadyOlder, SteadyBody, SteadyDelete DEF Next, Server
<1>3. QED BY <1>2 DEF Steady

----------------------------------------------------------------------------
(* Theorems *)

\* Whatever calls run at a time and whichever of them fail, the cache and all
\* that the calls of sync.rs hold between two awaits fit one window of the
\* mailbox, as long as its UIDVALIDITY lasts.
THEOREM SteadyInvariant ==
    ASSUME SteadyCase PROVE SyncedSpec => [](TypeOK /\ Steady)
<1>1. InitSynced => TypeOK /\ Steady BY TypeInit, SteadyInitially
<1>2. TypeOK /\ Steady /\ [Next]_vars => (TypeOK /\ Steady)'
  BY TypeNext, SteadyNext
<1>3. QED BY <1>1, <1>2, PTL DEF SyncedSpec

\* However many syncs, load-mores, body fetches and deletions run at a time,
\* the cache has no hole (sync.rs:100-109, 148-173).
THEOREM SteadyContiguous ==
    ASSUME SteadyCase PROVE SyncedSpec => []Contiguous
<1>1. TypeOK /\ Steady => Contiguous
  <2>1. SUFFICES ASSUME TypeOK, Steady,
                        NEW u \in DOMAIN inbox, NEW lo \in DOMAIN rows,
                        NEW hi \in DOMAIN rows, lo < u, u < hi, u \notin DOMAIN rows
                 PROVE  FALSE
    BY DEF Contiguous
  <2>2. PICK w \in 1..(MaxUid + 1) : SteadyAt(w) BY <2>1 DEF Steady
  <2>3. Outside(DOMAIN rows, u, w)
    BY <2>1, <2>2 DEF SteadyAt, SteadyWindow, Gap
  <2>4. u \in Nat /\ lo \in Nat /\ hi \in Nat
    BY <2>1, PickedUids, ConstantTypes DEF Uid
  <2>5. QED BY <2>1, <2>3, <2>4 DEF Outside
<1>2. QED BY <1>1, SteadyInvariant, PTL

\* A sync that returns Ok has brought in all mail that came since the sync
\* before it, whatever runs beside it (sync.rs:94-127).
THEOREM SteadyFetchesNewMail ==
    ASSUME SteadyCase PROVE SyncedSpec => []FetchesNewMail
<1>1. TypeOK /\ Steady => FetchesNewMail
  <2>1. SUFFICES ASSUME TypeOK, Steady, NEW t \in Task,
                        At(t, {"sync"}, "done"), task[t].ok, NEW u \in DOMAIN inbox,
                        task[t].from <= u, u < task[t].nxt, u \notin DOMAIN rows
                 PROVE  FALSE
    BY DEF FetchesNewMail
  <2> DEFINE c == task[t]
  <2>2. PICK w \in 1..(MaxUid + 1) : SteadyAt(w) BY <2>1 DEF Steady
  <2>3. SteadyCall(c, w, DOMAIN inbox, Gap, uidNext) /\ u \in Gap
    BY <2>1, <2>2 DEF SteadyAt, Gap
  <2>4. c.kind = "sync" /\ c.pc = "done" /\ c.ok /\ c.from <= u /\ u < c.nxt
    BY <2>1 DEF At
  <2>5. w \in Nat /\ u \in Nat /\ c.from \in Nat
    BY <2>1, <2>2, <2>3, Numbers, ConstantTypes
  <2> HIDE DEF c
  <2>6. w <= c.from BY <2>3, <2>4 DEF SteadyCall
  <2>7. Spared(c, u, w) BY <2>3, <2>4 DEF SteadyCall, Aim
  <2>8. QED BY <2>4, <2>5, <2>6, <2>7 DEF Spared
<1>2. QED BY <1>1, SteadyInvariant, PTL

\* No row leaves the cache while its message is on the server (sync.rs:244-257).
THEOREM SteadyDropsOnlyGone ==
    ASSUME SteadyCase PROVE SyncedSpec => DropsOnlyGone
<1>1. TypeOK /\ Steady /\ [Next]_vars =>
        [cachedValidity = validity =>
            \A u \in DOMAIN rows \ DOMAIN rows' : u \notin DOMAIN inbox]_vars
  <2>1. SUFFICES ASSUME TypeOK, Steady, [Next]_vars,
                        NEW u \in DOMAIN rows \ DOMAIN rows'
                 PROVE  u \notin DOMAIN inbox
    OBVIOUS
  <2>2. PICK w \in 1..(MaxUid + 1) : SteadyAt(w) BY <2>1 DEF Steady
  <2>3. rows' # rows BY <2>1
  <2>4. PICK t \in Task : StoreBatch(t) \/ Clear(t) \/ ApplyFlags(t) \/ Link(t) \/ Drop(t)
    BY <2>1, <2>3
    DEF Next, vars, cache, folder, Server, Arrive, Expunge, ChangeFlag, Renumber, Crash,
        Shared, CallFails, SessionLost, Fetch, Finish, Sync, StartSync, Select, ReadMax,
        Reselect, ReadRecent, FetchFlags, Record, StartOlder, SearchOlder, StartSearch,
        SearchText, Body, StartBody, ReadPath, GetRaw, WriteFile, CacheFails, Delete,
        StartDelete, Remove, RemoveMarksOnly, RemoveReplyLost, Unlink
  <2>5. SteadyCall(task[t], w, DOMAIN inbox, Gap, uidNext) BY <2>2 DEF SteadyAt
  <2>6. CASE StoreBatch(t)
    BY <2>1, <2>6, CallTypes, UpsertType DEF StoreBatch, TypeOK
  <2>7. CASE Clear(t) BY <2>5, <2>7 DEF Clear, At, SteadyCall
  <2>8. CASE ApplyFlags(t)
    BY <2>1, <2>8, CallTypes, UpdateFlagsType DEF ApplyFlags, TypeOK
  <2>9. CASE Link(t) BY <2>1, <2>9, SetRawPathType DEF Link, TypeOK
  <2>10. CASE Drop(t)
    <3>1. DOMAIN rows' = DOMAIN rows \ {task[t].uid}
      BY <2>1, <2>10, DeleteRowType DEF Drop, TypeOK
    <3>2. task[t].uid \notin DOMAIN inbox BY <2>5, <2>10 DEF Drop, At, SteadyCall
    <3>3. QED BY <2>1, <3>1, <3>2
  <2>11. QED BY <2>4, <2>6, <2>7, <2>8, <2>9, <2>10
<1>2. QED BY <1>1, SteadyInvariant, PTL DEF DropsOnlyGone, SyncedSpec

----------------------------------------------------------------------------
(***************************************************************************)
(* The cache of a mailbox whose UIDVALIDITY changes, as long as no two     *)
(* calls run at a time: no row of an earlier UIDVALIDITY is left under a   *)
(* UID of this one, and a body is the body of the row it was opened from.  *)
(* For any server, failures and crashes.  With two calls at a time it is   *)
(* not so: the run StaleRows shows it.                                     *)
(***************************************************************************)

Sequential == \A s, t \in Task : s = t

\* Rows of UIDVALIDITY g, and files that hold what their rows name.
RowsOf(r, d, g) == \A u \in DOMAIN r : /\ r[u].gen = g
                                       /\ r[u].raw => d[u] \in {NoFile, g}

\* A sync that has found another UIDVALIDITY has the cache to itself, cleared,
\* until it records it.
FreshSync(c, v, cv, r) ==
    /\ c.pc # "done" => c.known = cv
    /\ c.pc \notin {"done", "select"} => c.val \in 1..v
    /\ c.pc \in {"max", "reselect", "recent", "flags", "apply"} => c.known = c.val
    /\ c.known # c.val =>
          /\ c.pc \in {"fetch", "store"} => DOMAIN r = {}
          /\ c.pc \in {"clear", "fetch"} => c.ses = c.val
          /\ c.pc = "store" => \A u \in DOMAIN c.batch : c.batch[u].gen = c.val
          /\ c.pc = "record" => \A u \in DOMAIN r : r[u].gen = c.val /\ ~r[u].raw

\* What fetch_body holds is of the row there was when the message was picked.
FreshBody(c, v, d) ==
    /\ c.known \in {v, NoValidity}
    /\ c.pc \in {"write", "link", "done"} => c.val = v
    /\ c.pc = "link" => d[c.uid] = v

Fresh(c, v, cv, r, d) ==
    /\ c.kind = "sync" => FreshSync(c, v, cv, r)
    /\ c.kind = "body" => /\ c.pc \in {"path", "get", "write", "link", "done"}
                          /\ c.uid \in Uid
                          /\ c.pc = "done" \/ c.ok
                          /\ cv = v /\ c.ok => FreshBody(c, v, d)
    /\ cv = v /\ c.pc = "store" => \A u \in DOMAIN c.batch : c.batch[u].gen = v

\* The inductive invariant.  The folder's UIDVALIDITY is at most the server's,
\* so that once they differ they do until a sync records the new one.
Epochs ==
    /\ validity \in Nat /\ cachedValidity \in 1..validity
    /\ cachedValidity = validity => RowsOf(rows, disk, validity)
    /\ \A t \in Task : Fresh(task[t], validity, cachedValidity, rows, disk)

LEMMA EpochStep ==
    ASSUME TypeOK, Sequential, NEW t \in Task, NEW c,
           task' = [task EXCEPT ![t] = c],
           validity' \in Nat, cachedValidity' \in 1..validity',
           cachedValidity' = validity' => RowsOf(rows', disk', validity'),
           Fresh(c, validity', cachedValidity', rows', disk')
    PROVE  Epochs'
<1>1. task' \in [Task -> {c}]
  <2>1. task \in [Task -> Call] BY DEF TypeOK
  <2>2. \A s \in Task : s = t BY DEF Sequential
  <2>3. QED BY <2>1, <2>2
<1>2. \A s \in Task : Fresh(task'[s], validity', cachedValidity', rows', disk')
  BY <1>1
<1>3. QED BY <1>2 DEF Epochs

LEMMA EpochMove ==
    ASSUME TypeOK, Sequential, Epochs, NEW t \in Task, NEW c,
           task' = [task EXCEPT ![t] = c], UNCHANGED <<server, cache>>,
           Fresh(c, validity, cachedValidity, rows, disk)
    PROVE  Epochs'
<1>1. UNCHANGED <<validity, cachedValidity, rows, disk>> BY DEF server, cache, folder
<1>2. /\ validity \in Nat /\ cachedValidity \in 1..validity
      /\ cachedValidity = validity => RowsOf(rows, disk, validity)
  BY DEF Epochs
<1>3. QED BY <1>1, <1>2, EpochStep

\* A call that is given up, and one that returns Ok.
LEMMA ErrFresh ==
    ASSUME NEW c \in Call, NEW v, NEW cv, NEW r, NEW d,
           c.kind = "body" => c.uid \in Uid
    PROVE  Fresh([Returning(c, {}) EXCEPT !.ok = FALSE], v, cv, r, d)
<1> DEFINE e == [Returning(c, {}) EXCEPT !.ok = FALSE]
<1>1. e.pc = "done" /\ e.ok = FALSE /\ e.kind = c.kind /\ e.uid = c.uid
  BY DEF Returning, Call
<1> HIDE DEF e
<1>2. Fresh(e, v, cv, r, d) BY <1>1 DEF Fresh, FreshSync
<1>3. QED BY <1>2 DEF e

LEMMA OkFresh ==
    ASSUME NEW c \in Call, NEW out, NEW v, NEW cv, NEW r, NEW d,
           c.kind = "body" => /\ c.uid \in Uid
                              /\ cv = v /\ c.ok => c.known \in {v, NoValidity} /\ c.val = v
    PROVE  Fresh(Returning(c, out), v, cv, r, d)
<1> DEFINE e == Returning(c, out)
<1>1. /\ e.pc = "done" /\ e.ok = c.ok /\ e.kind = c.kind /\ e.known = c.known /\ e.val = c.val
      /\ e.uid = c.uid
  BY DEF Returning, Call
<1> HIDE DEF e
<1>2. Fresh(e, v, cv, r, d) BY <1>1 DEF Fresh, FreshSync, FreshBody
<1>3. QED BY <1>2 DEF e

LEMMA IdleFresh ==
    ASSUME NEW v, NEW cv, NEW r, NEW d
    PROVE  Fresh(Idle, v, cv, r, d)
<1>1. Idle.kind = "none" /\ Idle.pc = "idle" BY DEF Idle
<1>2. QED BY <1>1 DEF Fresh

LEMMA EpochInitially == InitSynced => Epochs
<1>1. SUFFICES ASSUME InitSynced PROVE Epochs OBVIOUS
<1>2. validity = 1 /\ cachedValidity = 1 BY <1>1 DEF InitSynced, ServerInit
<1>3. RowsOf(rows, disk, 1)
  <2>1. PICK w \in 1..uidNext :
          rows = [u \in w..(uidNext - 1) |->
                    [gen |-> validity, flag |-> "unseen", raw |-> FALSE]]
    BY <1>1 DEF InitSynced
  <2>2. QED BY <1>2, <2>1 DEF RowsOf
<1>4. \A t \in Task : Fresh(task[t], validity, cachedValidity, rows, disk)
  <2>1. \A t \in Task : task[t] = Idle BY <1>1 DEF InitSynced
  <2>2. QED BY <2>1, IdleFresh
<1>5. QED BY <1>2, <1>3, <1>4 DEF Epochs

\* When UIDVALIDITY changes, the folder's is an earlier one.
LEMMA EpochServer ==
    ASSUME TypeOK, Epochs, Server
    PROVE  Epochs'
<1>1. UNCHANGED <<cachedValidity, rows, disk, task>>
  BY DEF Server, Arrive, Expunge, ChangeFlag, Renumber, cache, folder
<1>2. CASE validity' = validity BY <1>1, <1>2 DEF Epochs
<1>3. CASE validity' = validity + 1
  <2>1. validity \in Nat /\ cachedValidity \in 1..validity BY DEF Epochs
  <2>2. cachedValidity' # validity' /\ cachedValidity' \in 1..validity' /\ validity' \in Nat
    BY <1>1, <1>3, <2>1
  <2>3. ASSUME NEW t \in Task
        PROVE  Fresh(task[t], validity', cachedValidity, rows, disk)
    <3> DEFINE c == task[t]
    <3>1. Fresh(c, validity, cachedValidity, rows, disk) BY DEF Epochs
    <3>2. c.val \in 1..validity => c.val \in 1..validity' BY <1>3, <2>1
    <3> HIDE DEF c
    <3>3. c.kind = "sync" => FreshSync(c, validity', cachedValidity, rows)
      BY <3>1, <3>2 DEF Fresh, FreshSync
    <3>4. Fresh(c, validity', cachedValidity, rows, disk) BY <1>1, <2>2, <3>1, <3>3 DEF Fresh
    <3>5. QED BY <3>4 DEF c
  <2>4. QED BY <1>1, <2>2, <2>3 DEF Epochs
<1>4. validity' = validity \/ validity' = validity + 1
  BY DEF Server, Arrive, Expunge, ChangeFlag, Renumber
<1>5. QED BY <1>2, <1>3, <1>4

LEMMA EpochShared ==
    ASSUME TypeOK, Sequential, Epochs, NEW t \in Task, Shared(t)
    PROVE  Epochs'
<1> DEFINE c == task[t]
<1>1. c \in Call BY CallTypes
<1>2. /\ validity \in Nat /\ cachedValidity \in 1..validity
      /\ cachedValidity = validity => RowsOf(rows, disk, validity)
      /\ Fresh(c, validity, cachedValidity, rows, disk)
  BY DEF Epochs
<1>3. CASE CallFails(t) \/ SessionLost(t)
  <2>1. /\ task' = [task EXCEPT ![t] = [Returning(c, {}) EXCEPT !.ok = FALSE]]
        /\ UNCHANGED <<server, cache>>
    BY <1>3 DEF CallFails, SessionLost
  <2> HIDE DEF c
  <2>2. c.kind = "body" => c.uid \in Uid BY <1>2 DEF Fresh
  <2>3. QED BY <1>1, <2>1, <2>2, ErrFresh, EpochMove
<1>4. CASE Fetch(t)
  <2> DEFINE b == Envelopes(c.uids)
             e == [c EXCEPT !.pc = "store", !.uids = {}, !.batch = b]
  <2>1. /\ c.pc = "fetch" /\ c.ses = validity /\ task' = [task EXCEPT ![t] = e]
        /\ UNCHANGED <<server, cache>>
    BY <1>4 DEF Fetch
  <2>2. \A u \in DOMAIN b : b[u].gen = validity BY DEF Envelopes
  <2> HIDE DEF c, b
  <2>3. /\ e.kind = c.kind /\ e.pc = "store" /\ e.known = c.known /\ e.val = c.val
        /\ e.batch = b
    BY <1>1 DEF Call
  <2> HIDE DEF e
  <2>4. c.kind # "body" BY <1>2, <2>1 DEF Fresh
  <2>5. c.kind = "sync" => FreshSync(e, validity, cachedValidity, rows)
    BY <1>2, <2>1, <2>2, <2>3 DEF Fresh, FreshSync
  <2>6. Fresh(e, validity, cachedValidity, rows, disk)
    BY <2>2, <2>3, <2>4, <2>5 DEF Fresh
  <2>7. QED BY <2>1, <2>6, EpochMove
<1>5. CASE StoreBatch(t)
  <2> DEFINE b == c.batch
             r == UpsertEnvelopes(rows, b)
  <2>1. /\ c.pc = "store" /\ rows' = r /\ task' = [task EXCEPT ![t] = AfterStore(c)]
        /\ UNCHANGED <<server, folder, disk>>
    BY <1>5 DEF StoreBatch
  <2>2. UNCHANGED <<validity, cachedValidity, disk>> BY <2>1 DEF server, folder
  <2>3. c.kind # "body" BY <1>2, <2>1 DEF Fresh
  <2>4. /\ DOMAIN r = DOMAIN rows \cup DOMAIN b
        /\ \A u \in DOMAIN b : r[u].gen = b[u].gen /\ (r[u].raw => u \in DOMAIN rows /\ rows[u].raw)
        /\ \A u \in DOMAIN rows \ DOMAIN b : r[u] = rows[u]
    BY DEF UpsertEnvelopes
  <2> HIDE DEF c, b, r
  <2>5. cachedValidity = validity => RowsOf(r, disk, validity)
    <3>1. SUFFICES ASSUME cachedValidity = validity, NEW u \in DOMAIN r
                   PROVE  r[u].gen = validity /\ (r[u].raw => disk[u] \in {NoFile, validity})
      BY DEF RowsOf
    <3>2. \A x \in DOMAIN b : b[x].gen = validity BY <1>2, <2>1, <3>1 DEF Fresh, b
    <3>3. \A x \in DOMAIN rows : rows[x].gen = validity
                               /\ (rows[x].raw => disk[x] \in {NoFile, validity})
      BY <1>2, <3>1 DEF RowsOf
    <3>4. CASE u \in DOMAIN b BY <2>4, <3>2, <3>3, <3>4
    <3>5. CASE u \notin DOMAIN b
      <4>1. u \in DOMAIN rows \ DOMAIN b BY <2>4, <3>5
      <4>2. r[u] = rows[u] BY <2>4, <4>1
      <4>3. QED BY <3>3, <4>1, <4>2
    <3>6. QED BY <3>4, <3>5
  <2>6. Fresh(AfterStore(c), validity, cachedValidity, r, disk)
    <3>1. CASE c.kind # "sync"
      <4>1. AfterStore(c) = Returning(c, DOMAIN c.batch) BY <3>1 DEF AfterStore
      <4>2. QED BY <1>1, <2>3, <4>1, OkFresh
    <3>2. CASE c.kind = "sync"
      <4> DEFINE e == AfterStore(c)
      <4>1. /\ e.kind = "sync" /\ e.known = c.known /\ e.val = c.val
            /\ e.pc = IF c.known = c.val THEN "recent" ELSE "record"
        BY <1>1, <3>2 DEF AfterStore, Call
      <4> HIDE DEF e
      <4>2. FreshSync(c, validity, cachedValidity, rows) BY <1>2, <3>2 DEF Fresh
      <4>3. c.known # c.val => \A u \in DOMAIN r : r[u].gen = c.val /\ ~r[u].raw
        BY <2>1, <2>4, <4>2 DEF FreshSync, b
      <4>4. FreshSync(e, validity, cachedValidity, r)
        BY <2>1, <4>1, <4>2, <4>3 DEF FreshSync
      <4>5. QED BY <4>1, <4>4 DEF Fresh, e
    <3>3. QED BY <3>1, <3>2
  <2>7. QED BY <1>2, <2>1, <2>2, <2>5, <2>6, EpochStep
<1>6. CASE Finish(t)
  BY <1>6, IdleFresh, EpochMove DEF Finish
<1>7. QED BY <1>3, <1>4, <1>5, <1>6 DEF Shared

LEMMA EpochSync ==
    ASSUME TypeOK, Sequential, Epochs, NEW t \in Task, Sync(t)
    PROVE  Epochs'
<1> DEFINE c  == task[t]
           v  == validity
           cv == cachedValidity
<1>1. c \in Call BY CallTypes
<1>2. /\ v \in Nat /\ cv \in 1..v
      /\ cv = v => RowsOf(rows, disk, v)
      /\ Fresh(c, v, cv, rows, disk)
  BY DEF Epochs
\* Steps that only move the call.
<1>3. ASSUME NEW e, task' = [task EXCEPT ![t] = e], UNCHANGED <<server, cache>>,
             e.kind = "sync", e.pc # "store", FreshSync(e, v, cv, rows)
      PROVE  Epochs'
  <2>1. Fresh(e, v, cv, rows, disk) BY <1>3 DEF Fresh
  <2>2. QED BY <1>3, <2>1, EpochMove
<1>4. CASE StartSync(t)
  <2> DEFINE e == [Idle EXCEPT !.kind = "sync", !.pc = "select", !.known = cv,
                               !.from = cachedUidNext]
  <2>1. task' = [task EXCEPT ![t] = e] /\ UNCHANGED <<server, cache>> BY <1>4 DEF StartSync
  <2>2. e.kind = "sync" /\ e.pc = "select" /\ e.known = cv BY DEF Idle
  <2> HIDE DEF e
  <2>3. FreshSync(e, v, cv, rows) BY <2>2 DEF FreshSync
  <2>4. QED BY <1>3, <2>1, <2>2, <2>3
<1>5. CASE Select(t)
  <2> DEFINE uids == IF c.known = v THEN {} ELSE LastMessages(FetchLimit)
             e == [c EXCEPT !.pc = AfterSelect(c, uids), !.uids = uids,
                            !.val = v, !.ses = v, !.nxt = uidNext]
  <2>1. /\ task' = [task EXCEPT ![t] = e] /\ UNCHANGED <<server, cache>>
        /\ c.kind = "sync" /\ c.pc = "select"
    BY <1>5 DEF Select, At
  <2>2. c.known = cv BY <1>2, <2>1 DEF Fresh, FreshSync
  <2> HIDE DEF uids, c, v, cv
  <2>3. /\ e.kind = c.kind /\ e.known = c.known /\ e.val = v /\ e.ses = v
        /\ e.pc = AfterSelect(c, uids)
    BY <1>1 DEF Call
  <2>4. AfterSelect(c, uids) = IF c.known = v THEN "max" ELSE "clear"
    BY <1>2, <2>2 DEF AfterSelect, NoValidity, v
  <2> HIDE DEF e
  <2>5. v \in 1..v BY <1>2
  <2>6. FreshSync(e, v, cv, rows) BY <2>1, <2>2, <2>3, <2>4, <2>5 DEF FreshSync
  <2>7. QED BY <1>3, <2>1, <2>3, <2>4, <2>6
<1>6. CASE Clear(t)
  <2> DEFINE e == [c EXCEPT !.pc = IF c.uids = {} THEN "record" ELSE "fetch"]
  <2>1. /\ rows' = NoRows /\ UNCHANGED <<server, folder, disk>>
        /\ task' = [task EXCEPT ![t] = e] /\ c.kind = "sync" /\ c.pc = "clear"
    BY <1>6 DEF Clear, At, Goto
  <2>2. UNCHANGED <<validity, cachedValidity, disk>> BY <2>1 DEF server, folder
  <2>3. DOMAIN NoRows = {} BY NoRowsType
  <2> HIDE DEF c, v, cv
  <2>4. /\ e.kind = c.kind /\ e.known = c.known /\ e.val = c.val /\ e.ses = c.ses
        /\ e.pc \in {"record", "fetch"}
    BY <1>1 DEF Call
  <2> HIDE DEF e
  <2>5. FreshSync(c, v, cv, rows) BY <1>2, <2>1 DEF Fresh
  <2>6. FreshSync(e, v, cv, NoRows)
    BY <2>1, <2>3, <2>4, <2>5 DEF FreshSync
  <2>7. Fresh(e, v, cv, NoRows, disk) BY <2>1, <2>4, <2>6 DEF Fresh
  <2>8. RowsOf(NoRows, disk, v) BY <2>3 DEF RowsOf
  <2>9. QED BY <1>2, <2>1, <2>2, <2>7, <2>8, EpochStep DEF v, cv
<1>7. CASE ReadMax(t) \/ ReadRecent(t) \/ Reselect(t) \/ FetchFlags(t)
  <2>1. /\ UNCHANGED <<server, cache>> /\ c.kind = "sync"
        /\ c.pc \in {"max", "recent", "reselect", "flags"}
    BY <1>7 DEF ReadMax, ReadRecent, Reselect, FetchFlags, At
  <2>2. FreshSync(c, v, cv, rows) BY <1>2, <2>1 DEF Fresh
  <2> DEFINE moved(e) ==
               /\ e.kind = "sync" /\ e.known = c.known /\ e.val = c.val
               /\ e.pc \in {"reselect", "recent", "fetch", "record", "flags", "apply"}
  <2>3. \A pc \in {"reselect", "recent", "fetch", "record", "flags", "apply"} : \A uids, ses, batch :
           /\ moved([c EXCEPT !.pc = pc])
           /\ moved([c EXCEPT !.pc = pc, !.uids = uids])
           /\ moved([c EXCEPT !.pc = pc, !.ses = ses, !.uids = uids])
           /\ moved([c EXCEPT !.pc = pc, !.uids = uids, !.batch = batch])
    <3> HIDE DEF c
    <3>1. QED BY <1>1, <2>1 DEF Call
  <2>4. PICK e : task' = [task EXCEPT ![t] = e] /\ moved(e)
    <3> DEFINE found == NewUids(MaxUidOf(rows), task[t].nxt)
               recent == Newest(DOMAIN rows, FlagWindow)
               d1 == [c EXCEPT !.pc = "reselect"]
               d2 == [c EXCEPT !.pc = IF found = {} THEN "recent" ELSE "fetch", !.uids = found]
               d3 == [c EXCEPT !.pc = IF recent = {} THEN "record" ELSE "flags", !.uids = recent]
               d4 == [c EXCEPT !.pc = IF DOMAIN inbox = {} THEN "recent" ELSE "fetch",
                               !.ses = validity, !.uids = DOMAIN inbox]
               d5 == [c EXCEPT !.pc = "apply", !.uids = {}, !.batch = Envelopes(c.uids)]
    <3>1. moved(d1) /\ moved(d2) /\ moved(d3) /\ moved(d4) /\ moved(d5)
      <4> HIDE DEF c, moved, found, recent
      <4>1. QED BY <2>3
    <3>2. \/ task' = [task EXCEPT ![t] = d1]
          \/ task' = [task EXCEPT ![t] = d2]
          \/ task' = [task EXCEPT ![t] = d3]
          \/ task' = [task EXCEPT ![t] = d4]
          \/ task' = [task EXCEPT ![t] = d5]
      BY <1>7 DEF ReadMax, ReadRecent, Reselect, FetchFlags, Goto
    <3> HIDE DEF d1, d2, d3, d4, d5, moved
    <3>3. QED BY <3>1, <3>2
  <2> HIDE DEF c, v, cv
  <2>5. FreshSync(e, v, cv, rows) BY <2>1, <2>2, <2>4 DEF FreshSync
  <2>6. QED BY <1>3, <2>1, <2>4, <2>5
<1>8. CASE ApplyFlags(t)
  <2> DEFINE e == [c EXCEPT !.pc = "record", !.batch = NoRows]
             r == UpdateFlags(rows, c.batch)
  <2>1. /\ rows' = r /\ UNCHANGED <<server, folder, disk>>
        /\ task' = [task EXCEPT ![t] = e] /\ c.kind = "sync" /\ c.pc = "apply"
    BY <1>8 DEF ApplyFlags, At
  <2>2. UNCHANGED <<validity, cachedValidity, disk>> BY <2>1 DEF server, folder
  <2>3. DOMAIN r = DOMAIN rows /\ \A u \in DOMAIN r : r[u].gen = rows[u].gen /\ r[u].raw = rows[u].raw
    <3>1. rows \in Table(Row) BY DEF TypeOK
    <3>2. \A u \in DOMAIN rows : rows[u] \in Row BY <3>1, TableElim
    <3> HIDE DEF c
    <3>3. QED BY <3>2 DEF UpdateFlags, Row
  <2> HIDE DEF c, v, cv, r
  <2>4. e.kind = c.kind /\ e.known = c.known /\ e.val = c.val /\ e.pc = "record"
    BY <1>1 DEF Call
  <2> HIDE DEF e
  <2>5. FreshSync(c, v, cv, rows) BY <1>2, <2>1 DEF Fresh
  <2>6. FreshSync(e, v, cv, r) BY <2>1, <2>4, <2>5 DEF FreshSync
  <2>7. Fresh(e, v, cv, r, disk) BY <2>1, <2>4, <2>6 DEF Fresh
  <2>8. cv = v => RowsOf(r, disk, v) BY <1>2, <2>3 DEF RowsOf
  <2>9. QED BY <1>2, <2>1, <2>2, <2>7, <2>8, EpochStep DEF v, cv
<1>9. CASE Record(t)
  <2>1. /\ cachedValidity' = c.val /\ UNCHANGED <<server, rows, disk>>
        /\ task' = [task EXCEPT ![t] = Returning(c, c.out)] /\ c.kind = "sync" /\ c.pc = "record"
    BY <1>9 DEF Record, At, Return
  <2>2. UNCHANGED <<validity, rows, disk>> BY <2>1 DEF server
  <2> HIDE DEF c
  <2>3. FreshSync(c, v, cv, rows) BY <1>2, <2>1 DEF Fresh
  <2>4. c.val \in 1..v /\ c.known = cv BY <2>1, <2>3 DEF FreshSync
  <2>5. c.val = v => RowsOf(rows, disk, v)
    BY <1>2, <2>1, <2>3, <2>4 DEF FreshSync, RowsOf
  <2>6. Fresh(Returning(c, c.out), v, c.val, rows, disk) BY <1>1, <2>1, OkFresh
  <2>7. QED BY <1>2, <2>1, <2>2, <2>4, <2>5, <2>6, EpochStep
<1>10. QED BY <1>4, <1>5, <1>6, <1>7, <1>8, <1>9 DEF Sync

\* fetch_older and search_remote, up to what they fetch.
LEMMA EpochSearches ==
    ASSUME TypeOK, Sequential, Epochs, NEW t \in Task,
           StartOlder(t) \/ SearchOlder(t) \/ StartSearch(t) \/ SearchText(t)
    PROVE  Epochs'
<1> DEFINE c == task[t]
<1>1. c \in Call BY CallTypes
<1>2. UNCHANGED <<server, cache>>
  BY DEF StartOlder, SearchOlder, StartSearch, SearchText
<1>3. ASSUME NEW uids, FetchFound(t, uids), c.kind \in {"older", "search"}
      PROVE  Epochs'
  <2> DEFINE d == [c EXCEPT !.pc = "fetch", !.ses = validity, !.uids = uids]
  <2>1. \A e \in {Returning(c, {}), d} :
           e.kind \in {"older", "search"} /\ e.pc \in {"done", "fetch"}
    <3> HIDE DEF c
    <3>1. QED BY <1>1, <1>3 DEF Returning, Call
  <2>2. PICK e : /\ task' = [task EXCEPT ![t] = e]
                 /\ e.kind \in {"older", "search"} /\ e.pc \in {"done", "fetch"}
    <3>1. task' = [task EXCEPT ![t] = IF uids = {} THEN Returning(c, {}) ELSE d]
      BY <1>3 DEF FetchFound
    <3> HIDE DEF d, c
    <3>2. QED BY <2>1, <3>1
  <2>3. Fresh(e, validity, cachedValidity, rows, disk) BY <2>2 DEF Fresh
  <2>4. QED BY <1>2, <2>2, <2>3, EpochMove
<1>4. CASE SearchOlder(t)
  BY <1>3, <1>4 DEF SearchOlder, At
<1>5. CASE SearchText(t)
  BY <1>3, <1>5 DEF SearchText, At
<1>6. CASE StartOlder(t) \/ StartSearch(t)
  <2>1. PICK e : /\ task' = [task EXCEPT ![t] = e]
                 /\ e.kind \in {"older", "search"} /\ e.pc \in {"done", "search"}
    <3>1. CASE StartOlder(t)
      <4> DEFINE e == [Idle EXCEPT !.kind = "older", !.uid = MinUidOf(rows),
                                   !.pc = IF MinUidOf(rows) <= 1 THEN "done" ELSE "search"]
      <4>1. task' = [task EXCEPT ![t] = e] BY <3>1 DEF StartOlder
      <4>2. e.kind = "older" /\ e.pc \in {"done", "search"} BY DEF Idle
      <4> HIDE DEF e
      <4>3. QED BY <4>1, <4>2
    <3>2. CASE StartSearch(t)
      <4> DEFINE e == [Idle EXCEPT !.kind = "search", !.pc = "search"]
      <4>1. task' = [task EXCEPT ![t] = e] BY <3>2 DEF StartSearch
      <4>2. e.kind = "search" /\ e.pc = "search" BY DEF Idle
      <4> HIDE DEF e
      <4>3. QED BY <4>1, <4>2
    <3>3. QED BY <1>6, <3>1, <3>2
  <2>2. Fresh(e, validity, cachedValidity, rows, disk) BY <2>1 DEF Fresh
  <2>3. QED BY <1>2, <2>1, <2>2, EpochMove
<1>7. QED BY <1>4, <1>5, <1>6

LEMMA EpochBody ==
    ASSUME TypeOK, Sequential, Epochs, NEW t \in Task, Body(t)
    PROVE  Epochs'
<1> DEFINE c  == task[t]
           v  == validity
           cv == cachedValidity
<1>1. c \in Call BY CallTypes
<1>2. /\ v \in Nat /\ cv \in 1..v
      /\ cv = v => RowsOf(rows, disk, v)
      /\ Fresh(c, v, cv, rows, disk)
  BY DEF Epochs
<1>3. ASSUME c.kind = "body"
      PROVE  c.uid \in Uid /\ (c.pc = "done" \/ c.ok) /\ (cv = v /\ c.ok => FreshBody(c, v, disk))
  BY <1>2, <1>3 DEF Fresh
\* Steps that only move the call.
<1>4. ASSUME NEW e, task' = [task EXCEPT ![t] = e], UNCHANGED <<server, cache>>,
             e.kind = "body", e.pc \in {"path", "get", "write", "link", "done"},
             e.uid \in Uid, e.pc = "done" \/ e.ok,
             cv = v /\ e.ok => FreshBody(e, v, disk)
      PROVE  Epochs'
  <2>1. Fresh(e, v, cv, rows, disk) BY <1>4 DEF Fresh
  <2>2. QED BY <1>4, <2>1, EpochMove
<1>5. CASE StartBody(t)
  <2>1. PICK u \in OnScreen :
           task' = [task EXCEPT ![t] = [Idle EXCEPT !.kind = "body", !.pc = "path",
                                                    !.uid = u, !.known = RowGen(u)]]
    BY <1>5 DEF StartBody
  <2> DEFINE e == [Idle EXCEPT !.kind = "body", !.pc = "path", !.uid = u,
                               !.known = RowGen(u)]
  <2>2. UNCHANGED <<server, cache>> BY <1>5 DEF StartBody
  <2>3. /\ e.kind = "body" /\ e.pc = "path" /\ e.known = RowGen(u)
        /\ e.uid = u /\ e.ok = TRUE
    BY DEF Idle
  <2>4. cv = v => RowGen(u) \in {v, NoValidity} BY <1>2 DEF RowsOf, RowGen
  <2>5. task' = [task EXCEPT ![t] = e] BY <2>1
  <2>6. u \in Uid BY DEF OnScreen
  <2> HIDE DEF e
  <2>7. cv = v => FreshBody(e, v, disk) BY <2>3, <2>4 DEF FreshBody
  <2>8. QED BY <1>4, <2>2, <2>3, <2>5, <2>6, <2>7
<1>6. CASE ReadPath(t)
  <2>1. UNCHANGED <<server, cache>> /\ c.kind = "body" /\ c.pc = "path"
    BY <1>6 DEF ReadPath, At
  <2>2. CASE HasRawPath(rows, c.uid) /\ disk[c.uid] # NoFile
    <3> DEFINE e == [Returning(c, {}) EXCEPT !.val = disk[c.uid]]
    <3>1. task' = [task EXCEPT ![t] = e] BY <1>6, <2>2 DEF ReadPath
    <3>2. cv = v => disk[c.uid] = v BY <1>2, <2>2 DEF RowsOf, HasRawPath
    <3> HIDE DEF c, v, cv
    <3>3. /\ e.kind = c.kind /\ e.pc = "done" /\ e.known = c.known /\ e.ok = c.ok
          /\ e.val = disk[c.uid] /\ e.uid = c.uid
      BY <1>1 DEF Returning, Call
    <3> HIDE DEF e
    <3>4. cv = v /\ e.ok => FreshBody(e, v, disk)
      BY <1>3, <2>1, <3>2, <3>3 DEF FreshBody
    <3>5. QED BY <1>3, <1>4, <2>1, <3>1, <3>3, <3>4
  <2>3. CASE ~(HasRawPath(rows, c.uid) /\ disk[c.uid] # NoFile)
    <3> DEFINE e == [c EXCEPT !.pc = "get"]
    <3>1. task' = [task EXCEPT ![t] = e] BY <1>6, <2>3 DEF ReadPath, Goto
    <3> HIDE DEF c, v, cv
    <3>2. /\ e.kind = c.kind /\ e.pc = "get" /\ e.known = c.known /\ e.ok = c.ok
          /\ e.uid = c.uid
      BY <1>1 DEF Call
    <3> HIDE DEF e
    <3>3. cv = v /\ e.ok => FreshBody(e, v, disk)
      BY <1>3, <2>1, <3>2 DEF FreshBody
    <3>4. QED BY <1>3, <1>4, <2>1, <3>1, <3>2, <3>3
  <2>4. QED BY <2>2, <2>3
<1>7. CASE GetRaw(t)
  <2>1. UNCHANGED <<server, cache>> /\ c.kind = "body" /\ c.pc = "get"
    BY <1>7 DEF GetRaw, At
  <2>2. CASE c.uid \in DOMAIN inbox
    <3> DEFINE e == [c EXCEPT !.pc = "write", !.val = v]
    <3>1. task' = [task EXCEPT ![t] = e] BY <1>7, <2>2 DEF GetRaw
    <3> HIDE DEF c, v, cv
    <3>2. /\ e.kind = c.kind /\ e.pc = "write" /\ e.known = c.known /\ e.ok = c.ok
          /\ e.val = v /\ e.uid = c.uid
      BY <1>1 DEF Call
    <3> HIDE DEF e
    <3>3. cv = v /\ e.ok => FreshBody(e, v, disk)
      BY <1>3, <2>1, <3>2 DEF FreshBody
    <3>4. QED BY <1>3, <1>4, <2>1, <3>1, <3>2, <3>3
  <2>3. CASE c.uid \notin DOMAIN inbox
    <3>1. task' = [task EXCEPT ![t] = [Returning(c, {}) EXCEPT !.ok = FALSE]]
      BY <1>7, <2>3 DEF GetRaw
    <3> HIDE DEF c
    <3>2. QED BY <1>1, <1>3, <2>1, <3>1, ErrFresh, EpochMove
  <2>4. QED BY <2>2, <2>3
<1>8. CASE WriteFile(t)
  <2> DEFINE e == [c EXCEPT !.pc = "link"]
             d == [disk EXCEPT ![c.uid] = c.val]
  <2>1. /\ disk' = d /\ UNCHANGED <<server, folder, rows>>
        /\ task' = [task EXCEPT ![t] = e] /\ c.kind = "body" /\ c.pc = "write"
    BY <1>8 DEF WriteFile, At, Goto
  <2>2. UNCHANGED <<validity, cachedValidity, rows>> BY <2>1 DEF server, folder
  <2>3. /\ c.uid \in Uid /\ c.ok
        /\ cv = v => c.known \in {v, NoValidity} /\ c.val = v
    BY <1>3, <2>1 DEF FreshBody
  <2>4. d[c.uid] = c.val /\ \A u \in Uid : u # c.uid => d[u] = disk[u]
    BY <2>3 DEF TypeOK
  <2>5. DOMAIN rows \subseteq Uid BY PickedUids
  <2> HIDE DEF c, v, cv, d
  <2>6. /\ e.kind = c.kind /\ e.pc = "link" /\ e.known = c.known /\ e.ok = c.ok
        /\ e.val = c.val /\ e.uid = c.uid
    BY <1>1 DEF Call
  <2> HIDE DEF e
  <2>7. cv = v => FreshBody(e, v, d) BY <2>3, <2>4, <2>6 DEF FreshBody
  <2>8. Fresh(e, v, cv, rows, d) BY <2>1, <2>3, <2>6, <2>7 DEF Fresh
  <2>9. cv = v => RowsOf(rows, d, v) BY <1>2, <2>3, <2>4, <2>5 DEF RowsOf
  <2>10. QED BY <1>2, <2>1, <2>2, <2>8, <2>9, EpochStep DEF v, cv
<1>9. CASE CacheFails(t)
  <2>1. /\ UNCHANGED <<server, cache>> /\ task' = [task EXCEPT ![t] = Returning(c, c.out)]
        /\ c.kind = "body" /\ c.pc \in {"write", "link"}
    BY <1>9 DEF CacheFails, At, Return
  <2>2. c.uid \in Uid /\ (cv = v /\ c.ok => c.known \in {v, NoValidity} /\ c.val = v)
    BY <1>3, <2>1 DEF FreshBody
  <2> HIDE DEF c, v, cv
  <2>3. Fresh(Returning(c, c.out), v, cv, rows, disk) BY <1>1, <2>2, OkFresh
  <2>4. QED BY <2>1, <2>3, EpochMove DEF v, cv
<1>10. CASE Link(t)
  <2> DEFINE r == SetRawPath(rows, c.uid)
  <2>1. /\ rows' = r /\ UNCHANGED <<server, folder, disk>>
        /\ task' = [task EXCEPT ![t] = Returning(c, c.out)]
        /\ c.kind = "body" /\ c.pc = "link"
    BY <1>10 DEF Link, At, Return
  <2>2. UNCHANGED <<validity, cachedValidity, disk>> BY <2>1 DEF server, folder
  <2>3. /\ c.uid \in Uid
        /\ cv = v => c.known \in {v, NoValidity} /\ c.val = v /\ disk[c.uid] = v
    BY <1>3, <2>1 DEF FreshBody
  <2>4. /\ DOMAIN r = DOMAIN rows
        /\ \A u \in DOMAIN r : /\ r[u].gen = rows[u].gen
                               /\ u # c.uid => r[u].raw = rows[u].raw
    <3>1. rows \in Table(Row) BY DEF TypeOK
    <3>2. \A u \in DOMAIN rows : rows[u] \in Row BY <3>1, TableElim
    <3> HIDE DEF c
    <3>3. QED BY <3>2 DEF SetRawPath, Row
  <2> HIDE DEF c, v, cv, r
  <2>5. Fresh(Returning(c, c.out), v, cv, r, disk) BY <1>1, <2>3, OkFresh
  <2>6. cv = v => RowsOf(r, disk, v) BY <1>2, <2>3, <2>4 DEF RowsOf
  <2>7. QED BY <1>2, <2>1, <2>2, <2>5, <2>6, EpochStep DEF v, cv
<1>11. QED BY <1>5, <1>6, <1>7, <1>8, <1>9, <1>10 DEF Body

LEMMA EpochDelete ==
    ASSUME TypeOK, Sequential, Epochs, NEW t \in Task, Delete(t)
    PROVE  Epochs'
<1> DEFINE c  == task[t]
           v  == validity
           cv == cachedValidity
<1>1. c \in Call BY CallTypes
<1>2. /\ v \in Nat /\ cv \in 1..v
      /\ cv = v => RowsOf(rows, disk, v)
      /\ Fresh(c, v, cv, rows, disk)
  BY DEF Epochs
<1>3. \E e : /\ task' = [task EXCEPT ![t] = e]
             /\ e.kind = "delete" /\ e.pc # "store"
  <2>1. CASE StartDelete(t)
    <3>1. PICK u \in OnScreen :
             task' = [task EXCEPT ![t] = [Idle EXCEPT !.kind = "delete", !.pc = "remove",
                                                      !.uid = u, !.known = RowGen(u)]]
      BY <2>1 DEF StartDelete
    <3> DEFINE e == [Idle EXCEPT !.kind = "delete", !.pc = "remove", !.uid = u,
                                 !.known = RowGen(u)]
    <3>2. e.kind = "delete" /\ e.pc = "remove" BY DEF Idle
    <3>3. task' = [task EXCEPT ![t] = e] BY <3>1
    <3> HIDE DEF e
    <3>4. QED BY <3>2, <3>3
  <2>2. CASE Remove(t) \/ RemoveMarksOnly(t) \/ Drop(t)
    <3>1. c.kind = "delete" BY <2>2 DEF Remove, RemoveMarksOnly, Drop, At
    <3>2. \/ task' = [task EXCEPT ![t] = [c EXCEPT !.pc = "drop"]]
          \/ task' = [task EXCEPT ![t] = [c EXCEPT !.pc = "unlink"]]
          \/ task' = [task EXCEPT ![t] = Returning(c, c.out)]
      BY <2>2 DEF Remove, RemoveMarksOnly, Drop, Goto, Return
    <3> HIDE DEF c
    <3>3. \A e \in {[c EXCEPT !.pc = "drop"], [c EXCEPT !.pc = "unlink"], Returning(c, c.out)} :
             e.kind = "delete" /\ e.pc # "store"
      BY <1>1, <3>1 DEF Returning, Call
    <3>4. QED BY <3>2, <3>3
  <2>3. CASE RemoveReplyLost(t) \/ Unlink(t)
    <3>1. c.kind = "delete" BY <2>3 DEF RemoveReplyLost, Unlink, At
    <3>2. \/ task' = [task EXCEPT ![t] = [Returning(c, {}) EXCEPT !.ok = FALSE]]
          \/ task' = [task EXCEPT ![t] = Returning(c, c.out)]
      BY <2>3 DEF RemoveReplyLost, Unlink, Return
    <3> HIDE DEF c
    <3>3. \A e \in {[Returning(c, {}) EXCEPT !.ok = FALSE], Returning(c, c.out)} :
             e.kind = "delete" /\ e.pc # "store"
      BY <1>1, <3>1 DEF Returning, Call
    <3>4. QED BY <3>2, <3>3
  <2>4. QED BY <2>1, <2>2, <2>3 DEF Delete
<1>4. PICK e : /\ task' = [task EXCEPT ![t] = e]
               /\ e.kind = "delete" /\ e.pc # "store"
  BY <1>3
<1>5. UNCHANGED <<validity, cachedValidity>>
  BY DEF Delete, StartDelete, Remove, RemoveMarksOnly, RemoveReplyLost, Drop, Unlink,
         server, cache, folder
<1>6. Fresh(e, v, cv, rows', disk') BY <1>4 DEF Fresh
<1>7. cv = v => RowsOf(rows', disk', v)
  <2>1. CASE UNCHANGED <<rows, disk>> BY <1>2, <2>1
  <2>2. CASE Drop(t)
    <3>1. rows' = DeleteRow(rows, c.uid) /\ disk' = disk BY <2>2 DEF Drop
    <3>2. QED BY <1>2, <3>1 DEF RowsOf, DeleteRow
  <2>3. CASE Unlink(t)
    <3>1. rows' = rows /\ disk' = [disk EXCEPT ![c.uid] = NoFile] BY <2>3 DEF Unlink
    <3>2. DOMAIN rows \subseteq Uid /\ disk \in [Uid -> 0..MaxValidity]
      BY PickedUids DEF TypeOK
    <3> HIDE DEF c, v, cv
    <3>3. \A u \in Uid : disk'[u] \in {disk[u], NoFile} BY <3>1, <3>2
    <3>4. QED BY <1>2, <3>1, <3>2, <3>3 DEF RowsOf
  <2>4. QED
    BY <2>1, <2>2, <2>3
    DEF Delete, StartDelete, Remove, RemoveMarksOnly, RemoveReplyLost, cache
<1>8. QED BY <1>2, <1>4, <1>5, <1>6, <1>7, EpochStep DEF v, cv

LEMMA EpochNext ==
    ASSUME TypeOK, Sequential, Epochs, [Next]_vars
    PROVE  Epochs'
<1>1. CASE UNCHANGED vars
  <2>1. UNCHANGED <<validity, cachedValidity, rows, disk, task>>
    BY <1>1 DEF vars, server, cache, folder
  <2>2. QED BY <2>1 DEF Epochs
<1>2. CASE Crash
  <2>1. /\ UNCHANGED <<validity, cachedValidity, rows, disk>>
        /\ task' = [t \in Task |-> Idle]
    BY <1>2 DEF Crash, server, cache, folder
  <2>2. \A t \in Task : Fresh(task'[t], validity, cachedValidity, rows, disk)
    BY <2>1, IdleFresh
  <2>3. QED BY <2>1, <2>2 DEF Epochs
<1>3. CASE Server BY <1>3, EpochServer
<1>4. ASSUME NEW t \in Task,
             \/ Sync(t) \/ StartOlder(t) \/ SearchOlder(t) \/ StartSearch(t)
             \/ SearchText(t) \/ Body(t) \/ Delete(t) \/ Shared(t)
      PROVE  Epochs'
  BY <1>4, EpochShared, EpochSync, EpochSearches, EpochBody, EpochDelete
<1>5. QED BY <1>1, <1>2, <1>3, <1>4 DEF Next

\* With one call at a time, every call keeps to the UIDVALIDITY its SELECT has
\* shown, and a sync that finds another one clears the cache before it fills it.
THEOREM EpochInvariant ==
    ASSUME Sequential
    PROVE  SyncedSpec => []Epochs
<1>1. InitSynced => Epochs BY EpochInitially
<1>2. TypeOK /\ Epochs /\ [Next]_vars => Epochs' BY EpochNext
<1>3. QED BY <1>1, <1>2, SyncedSpecTypeOK, PTL DEF SyncedSpec

\* With one call at a time, whatever fails and wherever the process ends, the
\* cache holds no row of an earlier UIDVALIDITY while the folder's is the
\* server's: what clear_folder_messages drops does not come back.
THEOREM EpochNoStaleRows ==
    ASSUME Sequential
    PROVE  SyncedSpec => []NoStaleRows
<1>1. Epochs => NoStaleRows BY DEF Epochs, RowsOf, NoStaleRows
<1>2. QED BY <1>1, EpochInvariant, PTL

\* With one call at a time, the body that fetch_body returns Ok is the one of
\* the row there was when it was opened, whether it comes from <uid>.eml, left there by
\* earlier rows of that UID, or from the server.
THEOREM EpochBodyIsPicked ==
    ASSUME Sequential
    PROVE  SyncedSpec => []BodyIsPicked
<1>1. ASSUME Epochs, NEW t \in Task, At(t, {"body"}, "done"), task[t].ok,
             cachedValidity = validity, task[t].known # NoValidity
      PROVE  task[t].val = task[t].known
  <2>1. Fresh(task[t], validity, cachedValidity, rows, disk) BY <1>1 DEF Epochs
  <2>2. task[t].kind = "body" /\ task[t].pc = "done" BY <1>1 DEF At
  <2>3. QED BY <1>1, <2>1, <2>2 DEF Fresh, FreshBody
<1>2. Epochs => BodyIsPicked BY <1>1 DEF BodyIsPicked
<1>3. QED BY <1>2, EpochInvariant, PTL
=============================================================================
