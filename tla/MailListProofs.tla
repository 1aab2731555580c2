--------------------------- MODULE MailListProofs ---------------------------
(* All that is checked of MailList, for any accounts, UIDs, texts and      *)
(* number of requests: the guard of load-more never sticks, a deletion is  *)
(* of the message that was asked about, and list, pane and question are    *)
(* of the account shown, the list newest first and the cursor kept.        *)
EXTENDS MailList, FiniteSetTheorems, WellFoundedInduction, TLAPS

----------------------------------------------------------------------------
(* Numbers *)

\* The least of some numbers is one of them, and none is lower.
LEMMA MinOfNaturals ==
    ASSUME NEW S \in SUBSET Nat, S # {}
    PROVE  Min(S) \in S /\ \A x \in S : Min(S) <= x
<1> DEFINE R == OpToRel(<, Nat)
<1>1. \E m \in S : \A x \in S : ~ (<<x, m>> \in R)
  BY NatLessThanWellFounded, WFMin
<1>2. \A x, m \in Nat : x < m => <<x, m>> \in R
  BY DEF OpToRel
<1> HIDE DEF R
<1>3. \E m \in S : \A x \in S : m <= x
  <2>1. PICK m \in S : \A x \in S : ~ (<<x, m>> \in R) BY <1>1
  <2>2. \A x \in S : ~ (x < m) BY <1>2, <2>1
  <2>3. QED BY <2>2
<1>4. QED BY <1>3 DEF Min

----------------------------------------------------------------------------
(* Sequences *)

LEMMA Joined ==
    ASSUME NEW S, NEW a \in Seq(S), NEW b \in Seq(S)
    PROVE  /\ a \o b \in Seq(S) /\ Len(a \o b) = Len(a) + Len(b)
           /\ \A j \in 1..Len(a) : (a \o b)[j] = a[j]
           /\ \A j \in Len(a) + 1..Len(a) + Len(b) : (a \o b)[j] = b[j - Len(a)]
  OBVIOUS

----------------------------------------------------------------------------
(* Places of a sequence in their order, and in the order of what is there. *)
(* An induction is over the numbers for which a statement fails, of which  *)
(* there would be a least one.                                             *)

Increasing(p, K) ==
    /\ p \in [1..Cardinality(K) -> K]
    /\ \A i, j \in 1..Cardinality(K) : i < j => p[i] < p[j]

\* Some of the places of a sequence can be listed from the lowest up.
LEMMA IncreasingExists ==
    ASSUME NEW n \in Nat, NEW K \in SUBSET (1..n)
    PROVE  Cardinality(K) \in Nat /\ \E p : Increasing(p, K)
  <1> DEFINE Fine(k) == \A L \in SUBSET (1..k) :
                           IsFiniteSet(L) /\ Cardinality(L) \in Nat /\ \E p : Increasing(p, L)
             bad == {k \in Nat : ~Fine(k)}
  <1> HIDE DEF Fine
  <1>1. bad = {}
    <2>1. SUFFICES ASSUME bad # {} PROVE FALSE OBVIOUS
    <2> DEFINE m == Min(bad)
    <2>2. m \in bad /\ \A k \in bad : m <= k BY <2>1, MinOfNaturals
    <2> HIDE DEF m
    <2>3. m \in Nat /\ ~Fine(m) BY <2>2
    <2>4. CASE m = 0
      <3>1. ASSUME NEW L \in SUBSET (1..0)
            PROVE  IsFiniteSet(L) /\ Cardinality(L) \in Nat /\ \E p : Increasing(p, L)
        <4>1. L = {} OBVIOUS
        <4>2. IsFiniteSet(L) /\ Cardinality(L) = 0 BY <4>1, FS_EmptySet
        <4>3. Increasing([i \in 1..0 |-> i], L) BY <4>2 DEF Increasing
        <4> QED BY <4>2, <4>3
      <3> QED BY <2>3, <2>4, <3>1 DEF Fine
    <2>5. CASE m # 0
      <3>1. m - 1 \in Nat /\ ~(m <= m - 1) BY <2>3, <2>5
      <3>2. Fine(m - 1) BY <2>2, <3>1
      <3>3. ASSUME NEW L \in SUBSET (1..m)
            PROVE  IsFiniteSet(L) /\ Cardinality(L) \in Nat /\ \E p : Increasing(p, L)
        <4> DEFINE J == L \ {m}
        <4>1. J \in SUBSET (1..m - 1) BY <2>3
        <4>2. IsFiniteSet(J) /\ Cardinality(J) \in Nat /\ \E p : Increasing(p, J)
          BY <3>2, <4>1 DEF Fine
        <4>3. PICK p : Increasing(p, J) BY <4>2
        <4>4. CASE m \notin L
          <5>1. J = L BY <4>4
          <5> QED BY <4>2, <5>1
        <4>5. CASE m \in L
          <5> DEFINE c == Cardinality(J)
                     q == [i \in 1..c + 1 |-> IF i = c + 1 THEN m ELSE p[i]]
          <5>1. L = J \cup {m} /\ m \notin J BY <4>5
          <5>2. IsFiniteSet(L) /\ Cardinality(L) = c + 1
            <6> HIDE DEF J
            <6> QED BY <4>2, <5>1, FS_AddElement
          <5>3. /\ p \in [1..c -> J] /\ \A i, j \in 1..c : i < j => p[i] < p[j]
            BY <4>3 DEF Increasing
          <5>4. \A x \in J : x \in L /\ x \in Nat /\ x < m BY <2>3, <4>1
          <5> HIDE DEF J
          <5>5. c \in Nat BY <4>2
          <5> HIDE DEF c
          <5>6. q \in [1..c + 1 -> L]
            <6>1. \A i \in 1..c + 1 : i # c + 1 => i \in 1..c BY <5>5
            <6> QED BY <4>5, <5>3, <5>4, <6>1
          <5>7. ASSUME NEW i \in 1..c + 1, NEW j \in 1..c + 1, i < j PROVE q[i] < q[j]
            <6>1. i \in 1..c /\ i # c + 1 /\ p[i] \in J BY <5>3, <5>5, <5>7
            <6>2. CASE j = c + 1 BY <5>4, <6>1, <6>2
            <6>3. CASE j # c + 1
              <7>1. j \in 1..c BY <5>5, <6>3
              <7> QED BY <5>3, <5>7, <6>1, <6>3, <7>1
            <6> QED BY <6>2, <6>3
          <5> HIDE DEF q
          <5>8. Increasing(q, L) BY <5>2, <5>6, <5>7 DEF Increasing
          <5> QED BY <5>2, <5>5, <5>8
        <4> QED BY <4>4, <4>5
      <3> QED BY <2>3, <3>3 DEF Fine
    <2> QED BY <2>4, <2>5
  <1>2. Fine(n) BY <1>1
  <1> QED BY <1>2 DEF Fine

\* p lists the places 1..n so that the numbers u there do not rise.
Falling(p, u, n) ==
    /\ p \in [1..n -> 1..n]
    /\ \A i, j \in 1..n : p[i] = p[j] => i = j
    /\ \A v \in 1..n : \E i \in 1..n : p[i] = v
    /\ \A i, j \in 1..n : i < j => u[p[j]] <= u[p[i]]

\* Any list of numbers can be sorted.
LEMMA FallingExists ==
    ASSUME NEW n \in Nat, NEW u, \A i \in 1..n : u[i] \in Int
    PROVE  \E p : Falling(p, u, n)
  <1> DEFINE bad == {k \in 0..n : ~ \E p : Falling(p, u, k)}
  <1>1. bad = {}
    <2>1. SUFFICES ASSUME bad # {} PROVE FALSE OBVIOUS
    <2>2. bad \in SUBSET Nat OBVIOUS
    <2> DEFINE m == Min(bad)
    <2>3. m \in bad /\ \A k \in bad : m <= k BY <2>1, <2>2, MinOfNaturals
    <2> HIDE DEF m
    <2>4. m \in 0..n /\ ~ \E p : Falling(p, u, m) BY <2>3
    <2>5. CASE m = 0
      <3>1. Falling([i \in 1..0 |-> i], u, 0) BY DEF Falling
      <3> QED BY <2>4, <2>5, <3>1
    <2>6. CASE m # 0
      <3>1. m \in Nat /\ m \in 1..n /\ m - 1 \in 0..n /\ m - 1 \in Nat /\ ~(m <= m - 1)
        BY <2>4, <2>6
      <3>2. m - 1 \notin bad
        <4> HIDE DEF bad
        <4> QED BY <2>3, <3>1
      <3>3. PICK p : Falling(p, u, m - 1) BY <3>1, <3>2
      <3>4. /\ p \in [1..m - 1 -> 1..m - 1]
            /\ \A i, j \in 1..m - 1 : p[i] = p[j] => i = j
            /\ \A v \in 1..m - 1 : \E i \in 1..m - 1 : p[i] = v
            /\ \A i, j \in 1..m - 1 : i < j => u[p[j]] <= u[p[i]]
        BY <3>3 DEF Falling
      <3> DEFINE lower == {j \in 1..m - 1 : u[p[j]] < u[m]}
      <3>5. \A i \in 1..m : u[i] \in Int BY <3>1
      <3>6. PICK k \in 1..m : /\ \A j \in 1..m - 1 : j < k => u[m] <= u[p[j]]
                              /\ \A j \in 1..m - 1 : k <= j => u[p[j]] <= u[m]
        <4>0. \A j \in 1..m - 1 : p[j] \in 1..m - 1 /\ u[p[j]] \in Int BY <3>1, <3>4, <3>5
        <4>00. m \in 1..m /\ u[m] \in Int BY <3>1, <3>5
        <4>1. CASE lower = {}
          <5>1. \A j \in 1..m - 1 : u[m] <= u[p[j]] /\ ~(m <= j) BY <3>1, <4>0, <4>00, <4>1
          <5> QED BY <4>00, <5>1
        <4>2. CASE lower # {}
          <5>1. lower \in SUBSET Nat OBVIOUS
          <5>2. PICK k \in lower : \A x \in lower : k <= x BY <4>2, <5>1, MinOfNaturals
          <5>3. k \in 1..m - 1 /\ u[p[k]] < u[m] BY <5>2
          <5>4. ASSUME NEW j \in 1..m - 1, j < k PROVE u[m] <= u[p[j]]
            <6>1. j \notin lower
              <7> HIDE DEF lower
              <7> QED BY <5>2, <5>3, <5>4, <3>1
            <6> QED BY <4>0, <4>00, <6>1
          <5>5. ASSUME NEW j \in 1..m - 1, k <= j PROVE u[p[j]] <= u[m]
            <6>1. j = k \/ k < j BY <3>1, <5>3, <5>5
            <6>2. u[p[j]] <= u[p[k]] BY <3>4, <4>0, <5>3, <6>1
            <6> QED BY <4>0, <4>00, <5>3, <6>2
          <5>6. k \in 1..m BY <3>1, <5>3
          <5> QED BY <5>4, <5>5, <5>6
        <4> QED BY <4>1, <4>2
      <3> HIDE DEF lower
      <3> DEFINE q == [j \in 1..m |-> IF j < k THEN p[j] ELSE IF j = k THEN m ELSE p[j - 1]]
      <3>7. ASSUME NEW j \in 1..m
            PROVE  /\ j < k => j \in 1..m - 1 /\ q[j] = p[j] /\ p[j] \in 1..m - 1
                   /\ j = k => q[j] = m
                   /\ j > k => j - 1 \in 1..m - 1 /\ q[j] = p[j - 1] /\ p[j - 1] \in 1..m - 1
                   /\ j < k \/ j = k \/ j > k
        <4>1. j < k => j \in 1..m - 1 BY <3>1
        <4>2. j > k => j - 1 \in 1..m - 1 /\ ~(j < k) /\ j # k BY <3>1
        <4>3. \A x \in 1..m - 1 : p[x] \in 1..m - 1 BY <3>4
        <4>4. q[j] = IF j < k THEN p[j] ELSE IF j = k THEN m ELSE p[j - 1] OBVIOUS
        <4>5. j < k \/ j = k \/ j > k BY <3>1
        <4>6. ~(k < k) BY <3>1
        <4> HIDE DEF q
        <4> QED BY <4>1, <4>2, <4>3, <4>4, <4>5, <4>6
      <3>8. q \in [1..m -> 1..m]
        <4>1. \A x \in 1..m - 1 : x \in 1..m BY <3>1
        <4>2. \A j \in 1..m : q[j] \in 1..m
          <5> HIDE DEF q
          <5> QED BY <3>1, <3>7, <4>1
        <4> QED BY <4>2
      <3> HIDE DEF q
      <3>9. ASSUME NEW i \in 1..m, NEW j \in 1..m, q[i] = q[j] PROVE i = j
        <4>1. m \notin 1..m - 1 BY <3>1
        <4>2. CASE i = k \/ j = k BY <3>7, <3>9, <4>1, <4>2
        <4>3. CASE i < k /\ j < k BY <3>4, <3>7, <3>9, <4>3
        <4>4. CASE i > k /\ j > k
          <5>1. i - 1 = j - 1 BY <3>4, <3>7, <3>9, <4>4
          <5> QED BY <5>1
        <4>5. CASE i < k /\ j > k
          <5>1. i = j - 1 BY <3>4, <3>7, <3>9, <4>5
          <5> QED BY <4>5, <5>1
        <4>6. CASE i > k /\ j < k
          <5>1. i - 1 = j BY <3>4, <3>7, <3>9, <4>6
          <5> QED BY <4>6, <5>1
        <4> QED BY <3>7, <4>2, <4>3, <4>4, <4>5, <4>6
      <3>10. ASSUME NEW v \in 1..m PROVE \E i \in 1..m : q[i] = v
        <4>1. CASE v = m BY <3>7, <4>1
        <4>2. CASE v # m
          <5>1. v \in 1..m - 1 BY <3>1, <4>2
          <5>2. PICK i \in 1..m - 1 : p[i] = v BY <3>4, <5>1
          <5>3. i \in 1..m /\ i + 1 \in 1..m /\ (i + 1) - 1 = i BY <3>1
          <5>4. CASE i < k BY <3>7, <5>2, <5>3, <5>4
          <5>5. CASE ~(i < k)
            <6>1. i + 1 > k BY <5>5
            <6> QED BY <3>7, <5>2, <5>3, <6>1
          <5> QED BY <5>4, <5>5
        <4> QED BY <4>1, <4>2
      <3>11. ASSUME NEW i \in 1..m, NEW j \in 1..m, i < j PROVE u[q[j]] <= u[q[i]]
        <4>0. u[m] \in Int BY <3>1, <3>5
        <4>1. CASE j < k
          <5>1. i < k BY <3>11, <4>1
          <5> QED BY <3>4, <3>7, <3>11, <4>1, <5>1
        <4>2. CASE j = k BY <3>6, <3>7, <3>11, <4>2
        <4>3. CASE j > k /\ i < k
          <5>1. i < j - 1 \/ i = j - 1 BY <3>11
          <5>2. u[p[j - 1]] <= u[p[i]]
            <6>1. i \in 1..m - 1 /\ j - 1 \in 1..m - 1 BY <3>7, <4>3
            <6>2. p[i] \in 1..m - 1 BY <3>4, <6>1
            <6>3. u[p[i]] \in Int BY <3>1, <3>5, <6>2
            <6>4. CASE i < j - 1 BY <3>4, <6>1, <6>4
            <6>5. CASE i = j - 1 BY <6>3, <6>5
            <6> QED BY <5>1, <6>4, <6>5
          <5> QED BY <3>7, <4>3, <5>2
        <4>4. CASE j > k /\ i = k
          <5>1. k <= j - 1 BY <4>4
          <5> QED BY <3>6, <3>7, <4>4, <5>1
        <4>5. CASE j > k /\ i > k
          <5>1. i - 1 < j - 1 BY <3>11
          <5>2. i - 1 \in 1..m - 1 /\ j - 1 \in 1..m - 1 BY <3>7, <4>5
          <5>3. u[p[j - 1]] <= u[p[i - 1]] BY <3>4, <5>1, <5>2
          <5>4. q[i] = p[i - 1] /\ q[j] = p[j - 1] BY <3>7, <4>5
          <5> QED BY <5>3, <5>4
        <4> QED BY <3>7, <4>1, <4>2, <4>3, <4>4, <4>5
      <3>12. Falling(q, u, m) BY <3>8, <3>9, <3>10, <3>11 DEF Falling
      <3> QED BY <2>4, <3>12
    <2> QED BY <2>5, <2>6
  <1>2. n \in 0..n OBVIOUS
  <1> QED BY <1>1, <1>2

----------------------------------------------------------------------------
(* The guard of load-more *)

\* What the guard needs of the types; the invariant is LoadingMoreHasRequest
\* itself on top of it.
GuardType ==
    /\ current \in Account
    /\ older \in [more : BOOLEAN, loading : BOOLEAN]
    /\ pending \in [Request -> Nat]

GuardInv == GuardType /\ LoadingMoreHasRequest

LEMMA OlderRequests ==
    /\ \A a \in Account : On("older", a) \in Request
    /\ \A a \in Account, k \in {"sync", "list"} : On(k, a) \in Request /\ On(k, a) # On("older", a)
  BY DEF On, Request

\* Spawning takes no request away.
LEMMA SpawnKeeps ==
    ASSUME NEW R, pending \in [Request -> Nat], Spawn(R)
    PROVE  /\ pending' \in [Request -> Nat]
           /\ \A r \in Request : pending'[r] >= pending[r]
           /\ \A r \in R \cap Request : pending'[r] > 0
  BY DEF Spawn

LEMMA AnsweredTakesOne ==
    ASSUME NEW r \in Request, pending \in [Request -> Nat], Answered(r)
    PROVE  /\ pending' \in [Request -> Nat]
           /\ \A s \in Request \ {r} : pending'[s] = pending[s]
  BY DEF Answered

\* A step that keeps account and guard, and the answers to load-more.
LEMMA GuardKept ==
    ASSUME GuardInv, UNCHANGED <<current, older>>, pending' \in [Request -> Nat],
           pending'[On("older", current)] >= pending[On("older", current)]
    PROVE  GuardInv'
  <1>1. On("older", current) \in Request
    BY OlderRequests DEF GuardInv, GuardType
  <1> QED BY <1>1 DEF GuardInv, GuardType, LoadingMoreHasRequest

LEMMA GuardInit == Init => GuardInv
  <1> SUFFICES ASSUME Init PROVE GuardInv
    OBVIOUS
  <1>1. older.loading = FALSE /\ older \in [more : BOOLEAN, loading : BOOLEAN]
    BY DEF Init, AnyOlder
  <1>2. current \in Account /\ pending \in [Request -> Nat]
    BY DEF Init
  <1> QED BY <1>1, <1>2 DEF GuardInv, GuardType, LoadingMoreHasRequest

\* A step after which nothing is guarded.
LEMMA GuardOpen ==
    ASSUME current' \in Account, older' \in [more : BOOLEAN, loading : {FALSE}],
           pending' \in [Request -> Nat]
    PROVE  GuardInv'
  BY DEF GuardInv, GuardType, LoadingMoreHasRequest

LEMMA MoveDownGuard ==
    ASSUME GuardInv, NEW i, MoveDown(i)
    PROVE  GuardInv'
  <1> USE DEF GuardInv, GuardType
  <1>1. UNCHANGED current /\ MaybeLoadMore(view')
    BY DEF MoveDown
  <1>2. CASE view'.search = {} /\ older.more /\ ~older.loading /\ AtEnd(view')
    <2>1. older' = [older EXCEPT !.loading = TRUE] /\ Spawn({On("older", current)})
      BY <1>1, <1>2 DEF MaybeLoadMore
    <2>2. On("older", current) \in Request
      BY OlderRequests
    <2>3. pending' \in [Request -> Nat] /\ pending'[On("older", current)] > 0
      BY <2>1, <2>2, SpawnKeeps
    <2> QED BY <1>1, <2>1, <2>3 DEF LoadingMoreHasRequest
  <1>3. CASE ~(view'.search = {} /\ older.more /\ ~older.loading /\ AtEnd(view'))
    <2>1. UNCHANGED <<older, pending>>
      BY <1>1, <1>3 DEF MaybeLoadMore
    <2> QED BY <1>1, <2>1 DEF LoadingMoreHasRequest
  <1> QED BY <1>2, <1>3

\* Keys: a move down may ask for more, a switch and a new start forget the
\* guard, all others keep it and only add requests.
LEMMA KeyGuard == GuardInv /\ Key => GuardInv'
  <1> SUFFICES ASSUME GuardInv, Key PROVE GuardInv'
    OBVIOUS
  <1>0. current \in Account /\ pending \in [Request -> Nat]
        /\ older \in [more : BOOLEAN, loading : BOOLEAN] /\ On("older", current) \in Request
    BY OlderRequests DEF GuardInv, GuardType
  <1>1. CASE Quit
    <2>1. current' \in Account /\ older' = AnyOlder /\ pending' \in [Request -> Nat]
      BY <1>1 DEF Quit
    <2> QED BY <2>1, GuardOpen DEF AnyOlder
  <1>2. CASE SelectNext \/ SelectPageDown \/ SelectBottom
    BY <1>2, MoveDownGuard DEF SelectNext, SelectPageDown, SelectBottom
  <1>3. CASE \/ SelectPrev \/ SelectPageUp \/ SelectTop
             \/ StartSearch \/ (\E q \in Text : TypeSearch(q)) \/ ClearSearch
             \/ AskDelete \/ CancelDelete
    <2>1. UNCHANGED <<current, older, pending>>
      BY <1>3 DEF SelectPrev, SelectPageUp, SelectTop, MoveUp, StartSearch, TypeSearch,
                  ClearSearch, AskDelete, CancelDelete
    <2> QED BY <1>0, <2>1, GuardKept
  <1>4. CASE Refresh \/ OpenMessage \/ ConfirmDelete \/ ConfirmSearch
    <2>1. UNCHANGED <<current, older>> /\ (UNCHANGED pending \/ \E R : Spawn(R))
      BY <1>4 DEF Refresh, OpenMessage, ConfirmDelete, ConfirmSearch
    <2>2. CASE UNCHANGED pending
      BY <1>0, <2>1, <2>2, GuardKept
    <2>3. CASE \E R : Spawn(R)
      BY <1>0, <2>1, <2>3, SpawnKeeps, GuardKept
    <2> QED BY <2>1, <2>2, <2>3
  <1>5. CASE \E a \in Account : SwitchAccount(a)
    <2>1. PICK a \in Account : SwitchAccount(a)
      BY <1>5
    <2>2. current' = a /\ older' = AnyOlder /\ Spawn({On("list", a), On("sync", a)})
      BY <2>1 DEF SwitchAccount
    <2>3. pending' \in [Request -> Nat]
      BY <1>0, <2>2, SpawnKeeps
    <2> QED BY <2>2, <2>3, GuardOpen DEF AnyOlder
  <1> QED BY <1>1, <1>2, <1>3, <1>4, <1>5 DEF Key

\* The answer to a request other than load-more for the account shown.
LEMMA OtherAnswer ==
    ASSUME GuardInv, NEW r \in Request, r # On("older", current), Answered(r),
           UNCHANGED <<current, older>>
    PROVE  GuardInv'
  <1>1. On("older", current) \in Request /\ pending \in [Request -> Nat]
    BY OlderRequests DEF GuardInv, GuardType
  <1>2. /\ pending' \in [Request -> Nat]
        /\ pending'[On("older", current)] = pending[On("older", current)]
    BY <1>1, AnsweredTakesOne
  <1>3. pending'[On("older", current)] >= pending[On("older", current)]
    BY <1>1, <1>2
  <1> QED BY <1>2, <1>3, GuardKept

\* An answer about load-more for the account shown is taken and opens the
\* guard; other answers leave it, and that request, alone.
LEMMA BgMsgGuard == GuardInv /\ BgMsg => GuardInv'
  <1> SUFFICES ASSUME GuardInv, NEW r \in Request, NEW l, NEW any \in BOOLEAN,
                      \/ Ignored(r) \/ Failed(r)
                      \/ SyncDone(r, l) \/ AccountEnvelopes(r, l) \/ RemoteSearchDone(r, l)
                      \/ BodyLoaded(r) \/ MessageDeleted(r) \/ FetchedOlder(r, any)
               PROVE  GuardInv'
    BY DEF BgMsg
  <1>0. /\ current \in Account /\ pending \in [Request -> Nat]
        /\ older \in [more : BOOLEAN, loading : BOOLEAN]
    BY DEF GuardInv, GuardType
  <1>1. CASE r = On("older", current)
    <2>1. r.kind = "older" /\ Concerns(r) /\ Asked(r)
      BY <1>1 DEF On, Concerns, Asked
    <2>2. CASE Failed(r)
      <3>1. current' = current /\ older' = [older EXCEPT !.loading = FALSE] /\ Answered(r)
        BY <2>1, <2>2 DEF Failed
      <3> QED BY <1>0, <3>1, AnsweredTakesOne, GuardOpen
    <2>3. CASE FetchedOlder(r, any)
      <3>1. /\ current' = current /\ older' = [more |-> older.more /\ any, loading |-> FALSE]
            /\ pending[r] > 0
            /\ pending' = [s \in Request |->
                             CASE s = r -> pending[s] - 1
                               [] any /\ s = On("list", current) -> pending[s] + 1
                               [] OTHER -> pending[s]]
        BY <2>3 DEF FetchedOlder
      <3>2. older' \in [more : BOOLEAN, loading : {FALSE}]
        BY <1>0, <3>1, Zenon
      <3>3. On("list", current) # r
        BY <1>0, <1>1, OlderRequests
      <3>4. pending' \in [Request -> Nat]
        BY <1>0, <3>1, <3>3
      <3> QED BY <1>0, <3>1, <3>2, <3>4, GuardOpen
    <2> QED BY <2>1, <2>2, <2>3 DEF Ignored, SyncDone, AccountEnvelopes, RemoteSearchDone,
                                    BodyLoaded, MessageDeleted
  <1>2. CASE r # On("older", current)
    <2>1. r.kind = "older" => ~Concerns(r)
      BY <1>0, <1>2 DEF On, Concerns, Request
    <2>2. CASE Failed(r)
      <3>1. r.kind # "older"
        BY <2>1, <2>2 DEF Failed
      <3>2. Answered(r) /\ UNCHANGED <<current, older>>
        BY <2>2, <3>1 DEF Failed
      <3> QED BY <1>2, <3>2, OtherAnswer
    <2>3. ~FetchedOlder(r, any)
      BY <2>1 DEF FetchedOlder
    <2>4. ~Failed(r) => Answered(r) /\ UNCHANGED <<current, older>>
      BY <2>3 DEF Ignored, SyncDone, AccountEnvelopes, RemoteSearchDone, BodyLoaded,
                  MessageDeleted
    <2> QED BY <1>2, <2>2, <2>4, OtherAnswer
  <1> QED BY <1>1, <1>2

LEMMA GuardStep == GuardInv /\ [Next]_vars => GuardInv'
  <1> SUFFICES ASSUME GuardInv, [Next]_vars PROVE GuardInv'
    OBVIOUS
  <1>0. current \in Account /\ pending \in [Request -> Nat] /\ On("older", current) \in Request
    BY OlderRequests DEF GuardInv, GuardType
  <1>1. CASE NewMail
    <2>1. UNCHANGED <<current, older>> /\ Spawn({On("list", current)})
      BY <1>1 DEF NewMail
    <2> QED BY <1>0, <2>1, SpawnKeeps, GuardKept
  <1>2. CASE UNCHANGED vars
    BY <1>2 DEF vars, GuardInv, GuardType, LoadingMoreHasRequest
  <1> QED BY <1>1, <1>2, KeyGuard, BgMsgGuard DEF Next

\* Load-more does not get stuck: at any time, whichever accounts the user has
\* switched between, loading_more is only set while a request of the account
\* shown is under way, whose answer will not be dropped while that account is
\* shown.
THEOREM SpecLoadingMore == Spec => []LoadingMoreHasRequest
  <1>1. GuardInv => LoadingMoreHasRequest
    BY DEF GuardInv
  <1> QED BY GuardInit, GuardStep, <1>1, PTL DEF Spec

----------------------------------------------------------------------------
(* The delete question *)

\* While the question is asked, its message's account is the one shown: no
\* other key is taken before the answer.
ConfirmInv ==
    /\ pending \in [Request -> Nat]
    /\ confirm # {} => \E u : confirm = {[acct |-> current, uid |-> u]}

Delete(r) == r.kind = "delete" /\ Asks(r)

LEMMA ConfirmInit == Init => ConfirmInv
  BY DEF Init, ConfirmInv

\* A question that is asked, or none, and no new deletion.
LEMMA ConfirmKept ==
    ASSUME ConfirmInv, pending' \in [Request -> Nat],
           confirm' = {} \/ UNCHANGED <<current, confirm>>
    PROVE  ConfirmInv'
  BY DEF ConfirmInv

\* Spawning adds what is spawned, and nothing else.
LEMMA SpawnAdds ==
    ASSUME NEW R, pending \in [Request -> Nat], Spawn(R)
    PROVE  \A r \in Request \ R : pending'[r] = pending[r]
  BY DEF Spawn

LEMMA AnsweredAddsNone ==
    ASSUME NEW s \in Request, pending \in [Request -> Nat], Answered(s)
    PROVE  \A r \in Request : ~Asks(r)
  BY DEF Answered, Asks

\* A step that spawns requests of other kinds.
LEMMA SpawnsNoDelete ==
    ASSUME NEW R, pending \in [Request -> Nat], Spawn(R), \A r \in R : r.kind # "delete"
    PROVE  pending' \in [Request -> Nat] /\ \A r \in Request : ~Delete(r)
  <1>1. pending' \in [Request -> Nat]
    BY SpawnKeeps
  <1>2. ASSUME NEW r \in Request, r.kind = "delete" PROVE ~Asks(r)
    <2>1. r \notin R
      BY <1>2
    <2>2. pending'[r] = pending[r]
      BY <2>1, SpawnAdds
    <2> QED BY <1>1, <2>2 DEF Asks
  <1> QED BY <1>1, <1>2 DEF Delete

\* What every step keeps, and all that may spawn a deletion.
StepOK ==
    /\ ConfirmInv'
    /\ \A r \in Request : Delete(r) => confirm = {[acct |-> r.acct, uid |-> r.uid]}

LEMMA QuietStep ==
    ASSUME ConfirmInv, pending' \in [Request -> Nat], \A r \in Request : ~Delete(r),
           confirm' = {} \/ UNCHANGED <<current, confirm>>
    PROVE  StepOK
  BY ConfirmKept DEF StepOK

LEMMA ConfirmDeleteStep == ConfirmInv /\ ConfirmDelete => StepOK
  <1> SUFFICES ASSUME ConfirmInv, ConfirmDelete PROVE StepOK
    OBVIOUS
  <1>1. PICK m \in confirm : Spawn({OnMessage("delete", current, m.uid)})
    BY DEF ConfirmDelete
  <1>2. confirm = {[acct |-> current, uid |-> m.uid]}
    BY <1>1 DEF ConfirmInv
  <1>3. pending \in [Request -> Nat] /\ pending' \in [Request -> Nat]
    BY <1>1, SpawnKeeps DEF ConfirmInv
  <1>4. confirm' = {}
    BY DEF ConfirmDelete
  <1>5. ASSUME NEW r \in Request, Delete(r) PROVE confirm = {[acct |-> r.acct, uid |-> r.uid]}
    <2>1. r = OnMessage("delete", current, m.uid)
      BY <1>1, <1>3, <1>5, SpawnAdds DEF Delete, Asks
    <2> QED BY <1>2, <2>1 DEF OnMessage
  <1> QED BY <1>3, <1>4, <1>5, ConfirmKept DEF StepOK

\* Keys that spawn nothing leave the question, cancel it, or ask it.
LEMMA IdleKeyStep ==
    ASSUME ConfirmInv, UNCHANGED pending,
           \/ confirm' = {} \/ UNCHANGED <<current, confirm>>
           \/ AskDelete
    PROVE  StepOK
  <1>1. \A r \in Request : ~Delete(r)
    BY DEF Delete, Asks, ConfirmInv
  <1>2. pending' \in [Request -> Nat]
    BY DEF ConfirmInv
  <1>3. CASE AskDelete
    <2>1. Selected(view) # {} /\ current' = current
          /\ confirm' = {[acct |-> current, uid |-> m.uid] : m \in Selected(view)}
      BY <1>3 DEF AskDelete
    <2>2. PICK x : Selected(view) = {x}
      BY <2>1 DEF Selected
    <2>3. confirm' = {[acct |-> current', uid |-> x.uid]}
      BY <2>1, <2>2
    <2> QED BY <1>1, <1>2, <2>3 DEF StepOK, ConfirmInv
  <1> QED BY <1>1, <1>2, <1>3, QuietStep

LEMMA MoveDownStep ==
    ASSUME ConfirmInv, NEW i, MoveDown(i)
    PROVE  StepOK
  <1>1. UNCHANGED <<current, confirm>>
    BY DEF MoveDown
  <1>2. CASE UNCHANGED pending
    BY <1>1, <1>2, IdleKeyStep
  <1>3. CASE Spawn({On("older", current)})
    BY <1>1, <1>3, SpawnsNoDelete, QuietStep DEF On, ConfirmInv
  <1> QED BY <1>2, <1>3 DEF MoveDown, MaybeLoadMore

\* Only ConfirmDelete spawns a deletion, and only AskDelete asks.
LEMMA KeyStep == ConfirmInv /\ Key => StepOK
  <1> SUFFICES ASSUME ConfirmInv, Key PROVE StepOK
    OBVIOUS
  <1>0. pending \in [Request -> Nat]
    BY DEF ConfirmInv
  <1>1. CASE Quit
    <2>1. /\ confirm' = {}
          /\ pending' = [r \in Request |-> IF r \in AtLaunch THEN 1 ELSE 0]
      BY <1>1 DEF Quit
    <2>2. \A r \in AtLaunch : r.kind = "sync"
      BY DEF AtLaunch, On
    <2>3. ASSUME NEW r \in Request, r.kind = "delete" PROVE ~Asks(r)
      <3>1. pending'[r] = 0
        BY <2>1, <2>2, <2>3
      <3>2. pending[r] \in Nat
        BY <1>0
      <3> QED BY <3>1, <3>2 DEF Asks
    <2> QED BY <2>1, <2>3, QuietStep DEF Delete
  <1>2. CASE SelectNext \/ SelectPageDown \/ SelectBottom
    BY <1>2, MoveDownStep DEF SelectNext, SelectPageDown, SelectBottom
  <1>3. CASE \/ SelectPrev \/ SelectPageUp \/ SelectTop
             \/ StartSearch \/ (\E q \in Text : TypeSearch(q)) \/ ClearSearch
             \/ AskDelete \/ CancelDelete
    <2>1. UNCHANGED pending
      BY <1>3 DEF SelectPrev, SelectPageUp, SelectTop, MoveUp, StartSearch, TypeSearch,
                  ClearSearch, AskDelete, CancelDelete
    <2>2. confirm' = {} \/ UNCHANGED <<current, confirm>> \/ AskDelete
      BY <1>3 DEF SelectPrev, SelectPageUp, SelectTop, MoveUp, StartSearch, TypeSearch,
                  ClearSearch, CancelDelete
    <2> QED BY <2>1, <2>2, IdleKeyStep
  <1>4. CASE Refresh \/ OpenMessage \/ ConfirmSearch
    <2>1. UNCHANGED <<current, confirm>>
      BY <1>4 DEF Refresh, OpenMessage, ConfirmSearch
    <2>2. UNCHANGED pending \/ \E R : Spawn(R) /\ \A r \in R : r.kind # "delete"
      <3>1. CASE Refresh
        <4>1. Spawn({On("sync", current)})
          BY <3>1 DEF Refresh
        <4>2. \A r \in {On("sync", current)} : r.kind # "delete"
          BY DEF On
        <4> QED BY <4>1, <4>2
      <3>2. CASE OpenMessage
        <4>1. PICK m \in Selected(view) : Spawn({OnMessage("body", current, m.uid)})
          BY <3>2 DEF OpenMessage
        <4>2. \A r \in {OnMessage("body", current, m.uid)} : r.kind # "delete"
          BY DEF OnMessage
        <4> QED BY <4>1, <4>2
      <3>3. CASE ConfirmSearch
        <4> DEFINE R == {SearchFor(current, Trim[q]) : q \in view.search}
        <4>1. UNCHANGED pending \/ Spawn(R)
          BY <3>3 DEF ConfirmSearch
        <4>2. \A r \in R : r.kind # "delete"
          BY DEF SearchFor
        <4> QED BY <4>1, <4>2
      <3> QED BY <1>4, <3>1, <3>2, <3>3
    <2>3. CASE UNCHANGED pending
      BY <2>1, <2>3, IdleKeyStep
    <2>4. CASE \E R : Spawn(R) /\ \A r \in R : r.kind # "delete"
      BY <1>0, <2>1, <2>4, SpawnsNoDelete, QuietStep
    <2> QED BY <2>2, <2>3, <2>4
  <1>5. CASE ConfirmDelete
    BY <1>5, ConfirmDeleteStep
  <1>6. CASE \E a \in Account : SwitchAccount(a)
    <2>1. PICK a \in Account : SwitchAccount(a)
      BY <1>6
    <2>2. confirm' = {} /\ Spawn({On("list", a), On("sync", a)})
      BY <2>1 DEF SwitchAccount, Normal
    <2>3. \A r \in {On("list", a), On("sync", a)} : r.kind # "delete"
      BY DEF On
    <2> QED BY <1>0, <2>2, <2>3, SpawnsNoDelete, QuietStep
  <1> QED BY <1>1, <1>2, <1>3, <1>4, <1>5, <1>6 DEF Key

LEMMA BgMsgStep == ConfirmInv /\ BgMsg => StepOK
  <1> SUFFICES ASSUME ConfirmInv, NEW r \in Request, NEW l, NEW any \in BOOLEAN,
                      \/ Ignored(r) \/ Failed(r)
                      \/ SyncDone(r, l) \/ AccountEnvelopes(r, l) \/ RemoteSearchDone(r, l)
                      \/ BodyLoaded(r) \/ MessageDeleted(r) \/ FetchedOlder(r, any)
               PROVE  StepOK
    BY DEF BgMsg
  <1>0. pending \in [Request -> Nat]
    BY DEF ConfirmInv
  <1>1. UNCHANGED <<current, confirm>>
    BY DEF Ignored, Failed, SyncDone, AccountEnvelopes, RemoteSearchDone, BodyLoaded,
           MessageDeleted, FetchedOlder
  <1>2. CASE FetchedOlder(r, any)
    <2>1. /\ r.kind = "older" /\ pending[r] > 0
          /\ pending' = [s \in Request |->
                           CASE s = r -> pending[s] - 1
                             [] any /\ s = On("list", current) -> pending[s] + 1
                             [] OTHER -> pending[s]]
      BY <1>2 DEF FetchedOlder
    <2>2. r # On("list", current)
      BY <2>1 DEF On
    <2>3. pending' \in [Request -> Nat]
      BY <1>0, <2>1, <2>2
    <2>4. ASSUME NEW s \in Request, s.kind = "delete" PROVE ~Asks(s)
      <3>1. s # r /\ s # On("list", current)
        BY <2>1, <2>4 DEF On
      <3>2. pending'[s] = pending[s]
        BY <2>1, <3>1
      <3> QED BY <1>0, <3>2 DEF Asks
    <2> QED BY <1>1, <2>3, <2>4, QuietStep DEF Delete
  <1>3. CASE ~FetchedOlder(r, any)
    <2>1. Answered(r)
      BY <1>3 DEF Ignored, Failed, SyncDone, AccountEnvelopes, RemoteSearchDone, BodyLoaded,
                  MessageDeleted
    <2> QED BY <1>0, <1>1, <2>1, AnsweredTakesOne, AnsweredAddsNone, QuietStep DEF Delete
  <1> QED BY <1>2, <1>3

LEMMA ConfirmStep == ConfirmInv /\ [Next]_vars => StepOK
  <1> SUFFICES ASSUME ConfirmInv, [Next]_vars PROVE StepOK
    OBVIOUS
  <1>1. CASE NewMail
    <2>1. UNCHANGED <<current, confirm>> /\ Spawn({On("list", current)})
      BY <1>1 DEF NewMail
    <2>2. \A r \in {On("list", current)} : r.kind # "delete"
      BY DEF On
    <2>3. pending' \in [Request -> Nat] /\ \A r \in Request : ~Delete(r)
      BY <2>1, <2>2, SpawnsNoDelete DEF ConfirmInv
    <2> QED BY <2>1, <2>3, QuietStep
  <1>2. CASE UNCHANGED vars
    BY <1>2, IdleKeyStep DEF vars
  <1> QED BY <1>1, <1>2, KeyStep, BgMsgStep DEF Next

\* Whatever answers and switches come between the question and the `y`, the
\* deletion sent off is of the message, in the account, the question was about.
THEOREM SpecDeletesWhatWasAsked == Spec => DeletesWhatWasAsked
  <1>1. ConfirmInv /\ [Next]_vars => ConfirmInv'
    BY ConfirmStep DEF StepOK
  <1>2. ConfirmInv /\ [Next]_vars
        => [\A r \in Request : r.kind = "delete" /\ Asks(r) =>
              confirm = {[acct |-> r.acct, uid |-> r.uid]}]_vars
    BY ConfirmStep DEF StepOK, Delete
  <1> QED BY ConfirmInit, <1>1, <1>2, PTL DEF Spec, DeletesWhatWasAsked

----------------------------------------------------------------------------
(* The list *)

LEMMA SequenceType ==
    ASSUME NEW S, NEW l \in Seq(S)
    PROVE  Len(l) \in Nat /\ DOMAIN l = 1..Len(l) /\ l \in [1..Len(l) -> S]
  OBVIOUS

LEMMA UidsAreNumbers == Uid \subseteq Int
  <1>1. MaxUid \in Nat BY MailListAssumption
  <1> QED BY <1>1 DEF Uid

LEMMA SetToSeqType ==
    ASSUME NEW S, IsFiniteSet(S)
    PROVE  SetToSeq(S) \in Seq(S) /\ IsInjective(SetToSeq(S))
  <1>1. PICK n \in Nat : ExistsBijection(1..n, S) BY FS_NatBijection
  <1>2. Cardinality(S) = n BY <1>1, FS_CountingElements
  <1>3. \E f \in [1..n -> S] : IsInjective(f)
    BY <1>1 DEF ExistsBijection, Bijection, Injection, IsInjective
  <1>4. SetToSeq(S) \in [1..n -> S] /\ IsInjective(SetToSeq(S))
    BY <1>2, <1>3 DEF SetToSeq
  <1> QED BY <1>4

\* A list of messages of one account, newest first.
Distinct(l) == \A i, j \in DOMAIN l : l[i].uid = l[j].uid => i = j
Sorted(l) == \A i, j \in DOMAIN l : i < j => l[i].uid > l[j].uid
List(a) == {l \in Seq([acct : {a}, uid : Uid]) : Sorted(l)}

\* What is in l is in m.
Within(l, m) == \A i \in DOMAIN l : \E j \in DOMAIN m : l[i] = m[j]

LEMMA SortedIsDistinct ==
    ASSUME NEW a, NEW l \in List(a)
    PROVE  Distinct(l)
  <1>1. ASSUME NEW i \in DOMAIN l, NEW j \in DOMAIN l, l[i].uid = l[j].uid PROVE i = j
    <2>1. l \in Seq([acct : {a}, uid : Uid]) /\ Sorted(l) BY DEF List
    <2>2. /\ DOMAIN l = 1..Len(l) /\ Len(l) \in Nat /\ l \in [1..Len(l) -> [acct : {a}, uid : Uid]]
      BY <2>1, SequenceType
    <2>3. i \in Nat /\ j \in Nat /\ l[i].uid \in Uid BY <2>2
    <2>4. l[i].uid \in Int BY <2>3, UidsAreNumbers
    <2>5. ~(i < j) /\ ~(j < i) BY <1>1, <2>1, <2>4 DEF Sorted
    <2> QED BY <2>3, <2>5
  <1> QED BY <1>1 DEF Distinct

\* Sorting a list without duplicates.
LEMMA NewestFirstSorts ==
    ASSUME NEW a, NEW l \in Seq([acct : {a}, uid : Uid]), Distinct(l)
    PROVE  NewestFirst(l) \in List(a)
  <1> DEFINE R == [acct : {a}, uid : Uid]
             n == Len(l)
             u == [i \in 1..n |-> l[i].uid]
             order == CHOOSE p \in Bijection(DOMAIN l, DOMAIN l) :
                         \A i, j \in DOMAIN l : i < j => ~Newer(l[p[j]], l[p[i]])
  <1>1. n \in Nat /\ DOMAIN l = 1..n /\ l \in [1..n -> R] BY SequenceType
  <1> HIDE DEF n
  <1>2. \A i \in 1..n : u[i] = l[i].uid /\ l[i] \in R /\ l[i].uid \in Uid BY <1>1
  <1>3. Uid \subseteq Int BY UidsAreNumbers
  <1> HIDE DEF u, R
  <1>4. \A i \in 1..n : u[i] \in Int BY <1>2, <1>3
  <1>5. PICK p : Falling(p, u, n) BY <1>1, <1>4, FallingExists
  <1>6. /\ p \in Bijection(DOMAIN l, DOMAIN l)
        /\ \A i, j \in DOMAIN l : i < j => ~Newer(l[p[j]], l[p[i]])
    <2>1. p \in Bijection(1..n, 1..n)
      BY <1>5 DEF Falling, Bijection, Injection, Surjection, IsInjective
    <2>2. ASSUME NEW i \in 1..n, NEW j \in 1..n, i < j PROVE ~(l[p[j]].uid > l[p[i]].uid)
      <3>1. p[i] \in 1..n /\ p[j] \in 1..n /\ u[p[j]] <= u[p[i]] BY <1>5, <2>2 DEF Falling
      <3>2. u[p[j]] \in Int /\ u[p[i]] \in Int BY <1>4, <3>1
      <3>3. u[p[j]] = l[p[j]].uid /\ u[p[i]] = l[p[i]].uid BY <1>2, <3>1
      <3> QED BY <3>1, <3>2, <3>3
    <2> QED BY <1>1, <2>1, <2>2 DEF Newer
  <1>7. /\ order \in Bijection(1..n, 1..n)
        /\ \A i, j \in 1..n : i < j => ~Newer(l[order[j]], l[order[i]])
    <2>1. \E q \in Bijection(DOMAIN l, DOMAIN l) :
             \A i, j \in DOMAIN l : i < j => ~Newer(l[q[j]], l[q[i]])
      BY <1>6
    <2> QED BY <1>1, <2>1
  <1>8. NewestFirst(l) = [i \in 1..n |-> l[order[i]]] BY <1>1 DEF NewestFirst
  <1> HIDE DEF order
  <1>9. order \in [1..n -> 1..n] /\ \A i, j \in 1..n : order[i] = order[j] => i = j
    BY <1>7 DEF Bijection, Injection, IsInjective
  <1>10. NewestFirst(l) \in [1..n -> R] BY <1>1, <1>8, <1>9
  <1>11. ASSUME NEW i \in 1..n, NEW j \in 1..n, i < j
         PROVE  NewestFirst(l)[i].uid > NewestFirst(l)[j].uid
    <2> DEFINE x == order[i]
               y == order[j]
    <2>1. x \in 1..n /\ y \in 1..n /\ i # j BY <1>1, <1>9, <1>11
    <2>2. x # y BY <1>9, <2>1
    <2>3. ~(l[y].uid > l[x].uid) BY <1>7, <1>11 DEF Newer
    <2>4. NewestFirst(l)[i] = l[x] /\ NewestFirst(l)[j] = l[y] BY <1>8
    <2> HIDE DEF x, y
    <2>5. l[x].uid # l[y].uid BY <1>1, <2>1, <2>2 DEF Distinct
    <2>6. l[x].uid \in Int /\ l[y].uid \in Int BY <1>2, <1>3, <2>1
    <2> QED BY <2>3, <2>4, <2>5, <2>6
  <1>12. DOMAIN NewestFirst(l) = 1..n BY <1>8
  <1>13. NewestFirst(l) \in Seq(R) BY <1>1, <1>10
  <1> QED BY <1>11, <1>12, <1>13 DEF List, Sorted, R

\* Some rows of a list, in its order.
LEMMA RowsAtSorted ==
    ASSUME NEW a, NEW l \in List(a), NEW K \in SUBSET DOMAIN l
    PROVE  /\ RowsAt(l, K) \in List(a)
           /\ \A i \in DOMAIN RowsAt(l, K) : \E k \in K : RowsAt(l, K)[i] = l[k]
  <1> DEFINE R == [acct : {a}, uid : Uid]
             n == Len(l)
             c == Cardinality(K)
             order == CHOOSE p \in [1..c -> K] : \A i, j \in 1..c : i < j => p[i] < p[j]
             m == RowsAt(l, K)
  <1>1. l \in Seq(R) /\ Sorted(l) BY DEF List
  <1> HIDE DEF R
  <1>2. n \in Nat /\ DOMAIN l = 1..n /\ l \in [1..n -> R] BY <1>1, SequenceType
  <1> HIDE DEF n
  <1>3. c \in Nat /\ \E p : Increasing(p, K) BY <1>2, IncreasingExists
  <1>4. order \in [1..c -> K] /\ \A i, j \in 1..c : i < j => order[i] < order[j]
    <2>1. \E p \in [1..c -> K] : \A i, j \in 1..c : i < j => p[i] < p[j]
      BY <1>3 DEF Increasing
    <2> QED BY <2>1
  <1>5. m = [i \in 1..c |-> l[order[i]]] BY DEF RowsAt
  <1> HIDE DEF order, c, m
  <1>6. \A i \in 1..c : order[i] \in K /\ order[i] \in 1..n /\ m[i] = l[order[i]]
    BY <1>2, <1>4, <1>5
  <1>7. m \in Seq(R) BY <1>2, <1>3, <1>5, <1>6
  <1>8. DOMAIN m = 1..c BY <1>5
  <1>9. Sorted(m)
    <2>1. ASSUME NEW i \in 1..c, NEW j \in 1..c, i < j PROVE m[i].uid > m[j].uid
      <3>1. order[i] < order[j] BY <1>4, <2>1
      <3> QED BY <1>1, <1>2, <1>6, <3>1 DEF Sorted
    <2> QED BY <1>8, <2>1 DEF Sorted
  <1> QED BY <1>6, <1>7, <1>8, <1>9 DEF List, R, m

\* What is on the screen is of account a.
Shown(v, a) ==
    /\ v \in Views
    /\ v.envelopes \in List(a)
    /\ \A m \in v.body.msg : m.acct = a

LEMMA ListType ==
    ASSUME NEW a \in Account, NEW l \in List(a)
    PROVE  /\ l \in Seq(Message) /\ Len(l) \in Nat /\ DOMAIN l = 1..Len(l)
           /\ \A i \in DOMAIN l : l[i] \in Message /\ l[i].acct = a
  <1> DEFINE R == [acct : {a}, uid : Uid]
  <1>1. l \in Seq(R) BY DEF List
  <1>2. R \subseteq Message /\ \A m \in R : m.acct = a BY DEF Message
  <1> HIDE DEF R
  <1>3. Len(l) \in Nat /\ DOMAIN l = 1..Len(l) /\ l \in [1..Len(l) -> R] BY <1>1, SequenceType
  <1>4. \A i \in 1..Len(l) : l[i] \in R BY <1>3
  <1>5. l \in [1..Len(l) -> Message] BY <1>2, <1>3
  <1>6. l \in Seq(Message) BY <1>3, <1>5
  <1> QED BY <1>2, <1>3, <1>4, <1>6

LEMMA EmptyList ==
    ASSUME NEW a
    PROVE  <<>> \in List(a)
  BY DEF List, Sorted

LEMMA ListingsType ==
    ASSUME NEW a, NEW l \in Listings(a)
    PROVE  l \in List(a)
  <1>1. PICK S \in SUBSET Uid : l = NewestFirst(SetToSeq({[acct |-> a, uid |-> u] : u \in S}))
    BY DEF Listings
  <1> DEFINE R == [acct : {a}, uid : Uid]
             M == {[acct |-> a, uid |-> u] : u \in S}
             s == SetToSeq(M)
  <1>2. M \in SUBSET R OBVIOUS
  <1>3. IsFiniteSet(S)
    <2>1. MaxUid \in Nat BY MailListAssumption
    <2>2. IsFiniteSet(Uid) BY <2>1, FS_Interval DEF Uid
    <2> QED BY <2>2, FS_Subset
  <1>4. IsFiniteSet(M)
    <2> DEFINE f == [u \in S |-> [acct |-> a, uid |-> u]]
    <2>1. f \in Surjection(S, M) BY DEF Surjection
    <2> HIDE DEF f, M
    <2> QED BY <1>3, <2>1, FS_Surjection
  <1>5. s \in Seq(M) /\ IsInjective(s)
    <2> HIDE DEF M
    <2> QED BY <1>4, SetToSeqType
  <1>6. \A m, n \in M : m.uid = n.uid => m = n OBVIOUS
  <1> HIDE DEF M, R, s
  <1>7. Len(s) \in Nat /\ DOMAIN s = 1..Len(s) /\ s \in [1..Len(s) -> M] BY <1>5, SequenceType
  <1>8. s \in Seq(R) BY <1>2, <1>7
  <1>9. \A i \in DOMAIN s : s[i] \in M BY <1>7
  <1>10. Distinct(s) BY <1>5, <1>6, <1>9 DEF Distinct, IsInjective
  <1>11. NewestFirst(s) \in List(a) BY <1>8, <1>10, NewestFirstSorts DEF R
  <1> QED BY <1>1, <1>11 DEF s, M

LEMMA VisibleType ==
    ASSUME NEW a \in Account, NEW v, Shown(v, a)
    PROVE  /\ Visible(v) \in List(a) /\ Visible(v) \in Seq(Message) /\ Len(Visible(v)) \in Nat
           /\ v.search \subseteq BlankText => Visible(v) = v.envelopes
  <1>1. v.envelopes \in List(a) BY DEF Shown
  <1>2. Visible(v) \in List(a) BY <1>1, RowsAtSorted DEF Visible
  <1> QED BY <1>2, ListType DEF Visible

LEMMA SelectedType ==
    ASSUME NEW a \in Account, NEW v, Shown(v, a)
    PROVE  /\ Selected(v) = {} \/ \E m \in Message : Selected(v) = {m}
           /\ \A m \in Selected(v) : m \in Message /\ m.acct = a
           /\ \A m \in Selected(v) : v.selected + 1 \in DOMAIN Visible(v)
                                     /\ m = Visible(v)[v.selected + 1]
  <1>1. Visible(v) \in List(a) /\ Len(Visible(v)) \in Nat BY VisibleType
  <1>2. v.selected \in Nat BY DEF Shown, Views
  <1>3. v.selected < Len(Visible(v)) => v.selected + 1 \in 1..Len(Visible(v)) BY <1>1, <1>2
  <1>4. /\ DOMAIN Visible(v) = 1..Len(Visible(v))
        /\ \A i \in DOMAIN Visible(v) : Visible(v)[i] \in Message /\ Visible(v)[i].acct = a
    BY <1>1, ListType
  <1> QED BY <1>3, <1>4 DEF Selected

LEMMA MinusType ==
    ASSUME NEW i \in Nat, NEW j \in Nat
    PROVE  Minus(i, j) \in Nat
  BY DEF Minus

\* remove_envelope leaves a list of the same account.
LEMMA WithoutShown ==
    ASSUME NEW a \in Account, NEW v, Shown(v, a), NEW u
    PROVE  Shown(Without(v, u), a)
  <1> DEFINE K == {i \in DOMAIN v.envelopes : v.envelopes[i].uid # u}
             l == RowsAt(v.envelopes, K)
             w == [v EXCEPT !.envelopes = l]
             n == Len(Visible(w))
             x == Without(v, u)
  <1>1. v \in Views /\ v.envelopes \in List(a) BY DEF Shown
  <1>2. l \in List(a) BY <1>1, RowsAtSorted
  <1>3. l \in Seq(Message) BY <1>2, ListType
  <1>4. x = [w EXCEPT !.selected = IF @ >= n THEN Minus(n, 1) ELSE @,
                      !.body = IF \E m \in @.msg : m.uid = u THEN NoBody ELSE @]
    BY <1>1 DEF Without, Views
  <1> HIDE DEF l, x
  <1>5. /\ w \in Views /\ w.envelopes = l /\ w.body = v.body /\ w.selected = v.selected
    BY <1>1, <1>3 DEF Views
  <1> HIDE DEF w
  <1>6. Shown(w, a) BY <1>2, <1>5 DEF Shown
  <1>7. n \in Nat BY <1>6, VisibleType
  <1> HIDE DEF n
  <1>8. Minus(n, 1) \in Nat BY <1>7, MinusType
  <1>9. NoBody \in Body /\ NoBody.msg = {} BY DEF NoBody, Body, Option
  <1>10. x \in Views /\ x.envelopes = l /\ (x.body = w.body \/ x.body = NoBody)
    BY <1>4, <1>5, <1>8, <1>9 DEF Views
  <1>11. \A m \in x.body.msg : m.acct = a BY <1>6, <1>9, <1>10 DEF Shown
  <1> QED BY <1>2, <1>10, <1>11 DEF Shown, x

\* The list, the pane and the question are of the account shown.
ListInv ==
    /\ GuardInv /\ ConfirmInv
    /\ Shown(view, current)
    /\ confirm \in Option(Message)

ListStep == Shown(view', current') /\ confirm' \in Option(Message)

LEMMA BlankShown ==
    ASSUME NEW a \in Account
    PROVE  Shown(Blank, a)
  <1>1. <<>> \in Seq(Message) /\ NoBody \in Body /\ NoBody.msg = {}
    BY DEF NoBody, Body, Option
  <1>2. Blank \in Views /\ Blank.envelopes = <<>> /\ Blank.body = NoBody
    BY <1>1 DEF Blank, Views, Option
  <1> QED BY <1>1, <1>2, EmptyList DEF Shown

LEMMA FirstViewShown ==
    ASSUME NEW a \in Account, NEW v \in FirstViews(a)
    PROVE  Shown(v, a)
  <1>1. Shown(Blank, a) BY BlankShown
  <1>2. CASE v = [Blank EXCEPT !.state = "error"]
    BY <1>1, <1>2 DEF Shown, Views
  <1>3. ASSUME NEW l \in Listings(a),
               v = [Blank EXCEPT !.envelopes = l,
                                 !.state = IF l = <<>> THEN "loading" ELSE "loaded"]
        PROVE  Shown(v, a)
    <2>1. l \in List(a) BY ListingsType
    <2>2. l \in Seq(Message) BY <2>1, ListType
    <2>3. v \in Views /\ v.envelopes = l /\ v.body = Blank.body
      BY <1>1, <1>3, <2>2 DEF Shown, Views
    <2> QED BY <1>1, <2>1, <2>3 DEF Shown
  <1> QED BY <1>2, <1>3 DEF FirstViews

LEMMA ListInit == Init => ListInv
  <1> SUFFICES ASSUME Init PROVE ListInv
    OBVIOUS
  <1>1. current \in Account /\ view \in FirstViews(current) /\ confirm = {} BY DEF Init
  <1> QED BY <1>1, FirstViewShown, GuardInit, ConfirmInit DEF ListInv, Option

\* A step that leaves the rows alone.
LEMMA SameRows ==
    ASSUME NEW a, NEW v, Shown(v, a), NEW w \in Views,
           w.envelopes = v.envelopes, w.body.msg \in {{}, v.body.msg}
    PROVE  Shown(w, a)
  BY DEF Shown

LEMMA CursorType ==
    ASSUME NEW a \in Account, NEW l \in List(a)
    PROVE  /\ Cursor(l) \in Nat
           /\ \A m \in Selected(view), i \in DOMAIN l : l[i].uid = m.uid =>
                 Cursor(l) + 1 \in DOMAIN l /\ \E n \in Selected(view) : l[Cursor(l) + 1].uid = n.uid
  <1> DEFINE at == {i \in DOMAIN l : \E m \in Selected(view) : l[i].uid = m.uid}
  <1>1. DOMAIN l = 1..Len(l) /\ Len(l) \in Nat BY ListType
  <1>2. at \in SUBSET Nat /\ \A i \in at : i \in DOMAIN l /\ i >= 1 BY <1>1
  <1>3. \A i \in at : \E n \in Selected(view) : l[i].uid = n.uid OBVIOUS
  <1>4. \A m \in Selected(view), i \in DOMAIN l : l[i].uid = m.uid => i \in at OBVIOUS
  <1>5. Cursor(l) = IF at = {} THEN 0 ELSE Min(at) - 1 BY DEF Cursor
  <1> HIDE DEF at
  <1>6. CASE at = {} BY <1>4, <1>5, <1>6
  <1>7. CASE at # {}
    <2>1. Min(at) \in at BY <1>2, <1>7, MinOfNaturals
    <2>2. Min(at) \in Nat /\ Min(at) >= 1 BY <1>2, <2>1
    <2>3. Cursor(l) \in Nat /\ Cursor(l) + 1 = Min(at) BY <1>5, <1>7, <2>2
    <2> QED BY <1>2, <1>3, <2>1, <2>3
  <1> QED BY <1>6, <1>7

LEMMA KeyList ==
    ASSUME ListInv, Key
    PROVE  ListStep
  <1>0. current \in Account /\ view \in Views /\ Shown(view, current) /\ confirm \in Option(Message)
        /\ Len(Visible(view)) \in Nat /\ view.selected \in Nat
    BY VisibleType DEF ListInv, GuardInv, GuardType, Shown, Views
  <1>1. CASE Quit
    <2>1. current' \in Account /\ view' \in FirstViews(current') /\ confirm' = {} BY <1>1 DEF Quit
    <2> QED BY <2>1, FirstViewShown DEF ListStep, Option
  <1>2. ASSUME NEW i \in Nat, MoveDown(i) \/ MoveUp(i) PROVE ListStep
    <2>1. view' = [view EXCEPT !.selected = i] /\ UNCHANGED <<current, confirm>>
      BY <1>2 DEF MoveDown, MoveUp
    <2>2. view' \in Views /\ view'.envelopes = view.envelopes /\ view'.body = view.body
      BY <1>0, <2>1 DEF Views
    <2> QED BY <1>0, <2>1, <2>2, SameRows DEF ListStep
  <1>3. CASE SelectNext \/ SelectPageDown \/ SelectBottom
    <2> DEFINE n == Len(Visible(view))
    <2>1. PAGE_JUMP \in Nat BY MailListAssumption
    <2>2. Visible(view) # <<>> => n - 1 \in Nat
      <3>1. Visible(view) \in Seq(Message) BY <1>0, VisibleType
      <3>2. Visible(view) # <<>> => Len(Visible(view)) # 0 BY <3>1
      <3> QED BY <1>0, <3>2
    <2> HIDE DEF n
    <2>3. n \in Nat BY <1>0 DEF n
    <2>4. \A j \in Nat : n - 1 \in Nat => Least(view.selected + j, n - 1) \in Nat
      BY <1>0, <2>3 DEF Least
    <2>5. Minus(n, 1) \in Nat BY <2>3, MinusType
    <2> QED BY <1>2, <1>3, <2>1, <2>2, <2>4, <2>5 DEF SelectNext, SelectPageDown, SelectBottom, n
  <1>4. CASE SelectPrev \/ SelectPageUp \/ SelectTop
    <2>1. PAGE_JUMP \in Nat BY MailListAssumption
    <2>2. Minus(view.selected, 1) \in Nat /\ Minus(view.selected, PAGE_JUMP) \in Nat
      BY <1>0, <2>1, MinusType
    <2> QED BY <1>2, <1>4, <2>2 DEF SelectPrev, SelectPageUp, SelectTop
  <1>5. CASE \/ StartSearch \/ (\E q \in Text : TypeSearch(q)) \/ ClearSearch \/ ConfirmSearch
    <2>0. {} \in Option(Text) /\ \A q \in Text : {q} \in Option(Text) BY DEF Option
    <2>1. "" \in Text BY MailListAssumption
    <2>2. UNCHANGED <<current, confirm>>
      BY <1>5 DEF StartSearch, TypeSearch, ClearSearch, ConfirmSearch
    <2>3. CASE StartSearch
      <3>1. view' = [view EXCEPT !.search = {""}, !.editing = TRUE, !.selected = 0]
        BY <2>3 DEF StartSearch
      <3>2. view' \in Views /\ view'.envelopes = view.envelopes /\ view'.body = view.body
        BY <1>0, <2>0, <2>1, <3>1 DEF Views
      <3> QED BY <1>0, <2>2, <3>2, SameRows DEF ListStep
    <2>4. ASSUME NEW q \in Text, TypeSearch(q) PROVE ListStep
      <3>1. view' = [view EXCEPT !.search = {q}, !.selected = 0] BY <2>4 DEF TypeSearch
      <3>2. view' \in Views /\ view'.envelopes = view.envelopes /\ view'.body = view.body
        BY <1>0, <2>0, <3>1 DEF Views
      <3> QED BY <1>0, <2>2, <3>2, SameRows DEF ListStep
    <2>5. CASE ClearSearch
      <3>1. view' = [view EXCEPT !.search = {}, !.editing = FALSE, !.selected = 0]
        BY <2>5 DEF ClearSearch, NoSearch
      <3>2. view' \in Views /\ view'.envelopes = view.envelopes /\ view'.body = view.body
        BY <1>0, <2>0, <3>1 DEF Views
      <3> QED BY <1>0, <2>2, <3>2, SameRows DEF ListStep
    <2>6. CASE ConfirmSearch
      <3>1. view' = [view EXCEPT !.editing = FALSE] BY <2>6 DEF ConfirmSearch
      <3>2. view' \in Views /\ view'.envelopes = view.envelopes /\ view'.body = view.body
        BY <1>0, <3>1 DEF Views
      <3> QED BY <1>0, <2>2, <3>2, SameRows DEF ListStep
    <2> QED BY <1>5, <2>3, <2>4, <2>5, <2>6
  <1>6. CASE Refresh
    <2>1. view' = [view EXCEPT !.state = "loading"] /\ UNCHANGED <<current, confirm>>
      BY <1>6 DEF Refresh
    <2>2. view' \in Views /\ view'.envelopes = view.envelopes /\ view'.body = view.body
      BY <1>0, <2>1 DEF Views
    <2> QED BY <1>0, <2>1, <2>2, SameRows DEF ListStep
  <1>7. CASE OpenMessage
    <2> DEFINE b == [state |-> "loading", msg |-> {}]
    <2>1. view' = [view EXCEPT !.body = b] /\ UNCHANGED <<current, confirm>>
      BY <1>7 DEF OpenMessage
    <2>2. b \in Body /\ b.msg = {} BY DEF Body, Option
    <2> HIDE DEF b
    <2>3. view' \in Views /\ view'.envelopes = view.envelopes /\ view'.body = b
      BY <1>0, <2>1, <2>2 DEF Views
    <2> QED BY <1>0, <2>1, <2>2, <2>3, SameRows DEF ListStep
  <1>8. CASE AskDelete
    <2>1. /\ UNCHANGED <<current, view>>
          /\ confirm' = {[acct |-> current, uid |-> m.uid] : m \in Selected(view)}
      BY <1>8 DEF AskDelete
    <2>2. Selected(view) = {} \/ \E m \in Message : Selected(view) = {m} BY <1>0, SelectedType
    <2>3. \A m \in Message : [acct |-> current, uid |-> m.uid] \in Message BY <1>0 DEF Message
    <2>4. confirm' = {} \/ \E x \in Message : confirm' = {x} BY <2>1, <2>2, <2>3
    <2> QED BY <1>0, <2>1, <2>4 DEF ListStep, Option
  <1>9. CASE ConfirmDelete \/ CancelDelete
    BY <1>0, <1>9 DEF ConfirmDelete, CancelDelete, ListStep, Option
  <1>10. CASE \E a \in Account : SwitchAccount(a)
    <2>1. PICK a \in Account : SwitchAccount(a) BY <1>10
    <2>2. current' = a /\ view' = Blank /\ confirm' = confirm BY <2>1 DEF SwitchAccount
    <2> QED BY <1>0, <2>2, BlankShown DEF ListStep
  <1> QED BY <1>1, <1>3, <1>4, <1>5, <1>6, <1>7, <1>8, <1>9, <1>10 DEF ListInv, Key

\* The matches that are not in the list can be added to it.
LEMMA FoundList ==
    ASSUME NEW a \in Account, view.envelopes \in List(a), NEW found \in List(a)
    PROVE  NewestFirst(view.envelopes \o NotListed(found)) \in List(a)
  <1> DEFINE R == [acct : {a}, uid : Uid]
             e == view.envelopes
             new == {j \in DOMAIN found : \A i \in DOMAIN e : e[i].uid # found[j].uid}
             m == NotListed(found)
             l == e \o m
  <1>1. m = RowsAt(found, new) BY DEF NotListed
  <1>2. /\ m \in List(a) /\ \A i \in DOMAIN m : \E k \in new : m[i] = found[k]
    <2>1. new \in SUBSET DOMAIN found OBVIOUS
    <2> HIDE DEF new, m
    <2> QED BY <1>1, <2>1, RowsAtSorted
  <1>3. \A i \in DOMAIN m, j \in DOMAIN e : e[j].uid # m[i].uid
    <2>1. \A k \in new : \A j \in DOMAIN e : e[j].uid # found[k].uid OBVIOUS
    <2> HIDE DEF new, m, e
    <2> QED BY <1>2, <2>1
  <1>4. Distinct(m) /\ Distinct(e) BY <1>2, SortedIsDistinct
  <1>5. m \in Seq(R) /\ e \in Seq(R) BY <1>2 DEF List
  <1> HIDE DEF R, e, m
  <1>6. /\ DOMAIN m = 1..Len(m) /\ Len(m) \in Nat /\ DOMAIN e = 1..Len(e) /\ Len(e) \in Nat
    BY <1>5, SequenceType
  <1>7. /\ l \in Seq(R) /\ Len(l) = Len(e) + Len(m)
        /\ \A j \in 1..Len(e) : l[j] = e[j]
        /\ \A j \in Len(e) + 1..Len(e) + Len(m) : l[j] = m[j - Len(e)]
    BY <1>5, Joined
  <1> HIDE DEF l
  <1>8. DOMAIN l = 1..Len(e) + Len(m) BY <1>7, SequenceType
  <1>9. ASSUME NEW i \in 1..Len(e) + Len(m)
        PROVE  \/ i \in DOMAIN e /\ l[i] = e[i]
               \/ i - Len(e) \in DOMAIN m /\ l[i] = m[i - Len(e)] /\ ~(i <= Len(e))
    <2>1. CASE i <= Len(e)
      <3>1. i \in 1..Len(e) BY <1>6, <2>1
      <3> QED BY <1>6, <1>7, <3>1
    <2>2. CASE ~(i <= Len(e))
      <3>1. i \in Len(e) + 1..Len(e) + Len(m) /\ i - Len(e) \in 1..Len(m) BY <1>6, <2>2
      <3> QED BY <1>6, <1>7, <2>2, <3>1
    <2> QED BY <2>1, <2>2
  <1>10. ASSUME NEW i \in 1..Len(e) + Len(m), NEW j \in 1..Len(e) + Len(m),
                l[i].uid = l[j].uid
         PROVE  i = j
    <2>1. CASE i \in DOMAIN e /\ l[i] = e[i] /\ j \in DOMAIN e /\ l[j] = e[j]
      BY <1>4, <1>10, <2>1 DEF Distinct
    <2>2. CASE /\ i - Len(e) \in DOMAIN m /\ l[i] = m[i - Len(e)]
               /\ j - Len(e) \in DOMAIN m /\ l[j] = m[j - Len(e)]
      <3>1. i - Len(e) = j - Len(e) BY <1>4, <1>10, <2>2 DEF Distinct
      <3> QED BY <1>6, <3>1
    <2>3. CASE i \in DOMAIN e /\ l[i] = e[i] /\ j - Len(e) \in DOMAIN m /\ l[j] = m[j - Len(e)]
      BY <1>3, <1>10, <2>3 DEF e
    <2>4. CASE j \in DOMAIN e /\ l[j] = e[j] /\ i - Len(e) \in DOMAIN m /\ l[i] = m[i - Len(e)]
      BY <1>3, <1>10, <2>4 DEF e
    <2> QED BY <1>9, <2>1, <2>2, <2>3, <2>4
  <1>11. Distinct(l) BY <1>8, <1>10 DEF Distinct
  <1>12. NewestFirst(l) \in List(a) BY <1>7, <1>11, NewestFirstSorts DEF R
  <1> QED BY <1>12 DEF l, e, m

\* A list of the account shown takes the place of the one on the screen.
LEMMA NewRows ==
    ASSUME NEW a \in Account, NEW v, Shown(v, a), NEW l \in List(a), NEW i \in Nat,
           NEW s \in {"loading", "loaded", "error"},
           NEW w, w = [v EXCEPT !.envelopes = l, !.state = s, !.selected = i]
    PROVE  Shown(w, a)
  <1>1. l \in Seq(Message) BY ListType
  <1>2. v \in Views BY DEF Shown
  <1>3. w \in Views /\ w.envelopes = l /\ w.body = v.body BY <1>1, <1>2 DEF Views
  <1> QED BY <1>3 DEF Shown

LEMMA BgMsgList ==
    ASSUME ListInv, BgMsg
    PROVE  ListStep
  <1> SUFFICES ASSUME NEW r \in Request,
                      \/ Ignored(r) \/ Failed(r)
                      \/ \E l \in Listings(r.acct) :
                          SyncDone(r, l) \/ AccountEnvelopes(r, l) \/ RemoteSearchDone(r, l)
                      \/ BodyLoaded(r) \/ MessageDeleted(r)
                      \/ \E any \in BOOLEAN : FetchedOlder(r, any)
               PROVE  ListStep
    BY DEF BgMsg
  <1>0. current \in Account /\ view \in Views /\ Shown(view, current) /\ confirm \in Option(Message)
        /\ view.selected \in Nat /\ view.state \in {"loading", "loaded", "error"}
    BY DEF ListInv, GuardInv, GuardType, Shown, Views
  <1>1. UNCHANGED <<current, confirm>>
    BY DEF Ignored, Failed, SyncDone, AccountEnvelopes, RemoteSearchDone, BodyLoaded,
           MessageDeleted, FetchedOlder
  <1>2. CASE Ignored(r) \/ \E any \in BOOLEAN : FetchedOlder(r, any)
    BY <1>0, <1>1, <1>2 DEF Ignored, FetchedOlder, ListStep
  <1>3. CASE Failed(r)
    <2> DEFINE b == [state |-> "error", msg |-> {}]
    <2>1. b \in Body /\ b.msg = {} BY DEF Body, Option
    <2>2. \/ view' = [view EXCEPT !.state = "error"]
          \/ view' = [view EXCEPT !.body = b]
          \/ view' = view
      BY <1>3 DEF Failed
    <2> HIDE DEF b
    <2>3. /\ view' \in Views /\ view'.envelopes = view.envelopes
          /\ view'.body = view.body \/ view'.body = b
      BY <1>0, <2>1, <2>2 DEF Views
    <2>4. view'.body.msg \in {{}, view.body.msg} BY <2>1, <2>3
    <2> QED BY <1>0, <1>1, <2>3, <2>4, SameRows DEF ListStep
  <1>4. ASSUME NEW l \in Listings(r.acct),
               SyncDone(r, l) \/ AccountEnvelopes(r, l) \/ RemoteSearchDone(r, l)
        PROVE  ListStep
    <2>1. r.acct = current
      BY <1>4 DEF SyncDone, AccountEnvelopes, RemoteSearchDone, Concerns
    <2>2. l \in List(current) BY <2>1, ListingsType
    <2>3. CASE SyncDone(r, l)
      <3>1. view' = [view EXCEPT !.envelopes = l, !.state = "loaded", !.selected = Cursor(l)]
        BY <2>3 DEF SyncDone
      <3>2. Cursor(l) \in Nat BY <1>0, <2>2, CursorType
      <3> QED BY <1>0, <1>1, <2>2, <3>1, <3>2, NewRows DEF ListStep
    <2>4. CASE AccountEnvelopes(r, l)
      <3> DEFINE s == IF l = <<>> THEN "loading" ELSE "loaded"
      <3>1. view' = [view EXCEPT !.envelopes = l, !.state = s] BY <2>4 DEF AccountEnvelopes
      <3>2. s \in {"loading", "loaded", "error"} OBVIOUS
      <3> HIDE DEF s
      <3>3. view' = [view EXCEPT !.envelopes = l, !.state = s, !.selected = view.selected]
        BY <1>0, <3>1 DEF Views
      <3> QED BY <1>0, <1>1, <2>2, <3>2, <3>3, NewRows DEF ListStep
    <2>5. CASE RemoteSearchDone(r, l)
      <3> DEFINE m == NewestFirst(view.envelopes \o NotListed(l))
      <3>1. view' = [view EXCEPT !.envelopes = m] BY <1>0, <2>5 DEF RemoteSearchDone, Views
      <3>2. m \in List(current) BY <1>0, <2>2, FoundList DEF Shown
      <3> HIDE DEF m
      <3>3. view' = [view EXCEPT !.envelopes = m, !.state = view.state, !.selected = view.selected]
        BY <1>0, <3>1 DEF Views
      <3> QED BY <1>0, <1>1, <3>2, <3>3, NewRows DEF ListStep
    <2> QED BY <1>4, <2>3, <2>4, <2>5
  <1>5. CASE BodyLoaded(r)
    <2> DEFINE x == [acct |-> r.acct, uid |-> r.uid]
               b == [state |-> "loaded", msg |-> {x}]
    <2>1. r.kind = "body" /\ r.acct = current /\ view' = [view EXCEPT !.body = b]
      BY <1>5 DEF BodyLoaded, Concerns
    <2>2. x \in Message /\ x.acct = current BY <2>1 DEF Request, Message
    <2> HIDE DEF x
    <2>3. b \in Body /\ b.msg = {x} BY <2>2 DEF Body, Option
    <2> HIDE DEF b
    <2>4. view' \in Views /\ view'.envelopes = view.envelopes /\ view'.body = b
      BY <1>0, <2>1, <2>3 DEF Views
    <2> QED BY <1>0, <1>1, <2>2, <2>3, <2>4 DEF ListStep, Shown
  <1>6. CASE MessageDeleted(r)
    <2>1. view' = Without(view, r.uid) BY <1>6 DEF MessageDeleted
    <2> QED BY <1>0, <1>1, <2>1, WithoutShown DEF ListStep
  <1> QED BY <1>2, <1>3, <1>4, <1>5, <1>6

LEMMA ListKept == ListInv /\ [Next]_vars => ListInv'
  <1> SUFFICES ASSUME ListInv, [Next]_vars PROVE ListInv'
    OBVIOUS
  <1>1. GuardInv' /\ ConfirmInv' BY GuardStep, ConfirmStep DEF ListInv, StepOK
  <1>2. ListStep
    <2>1. CASE NewMail BY <2>1 DEF NewMail, ListInv, ListStep
    <2>2. CASE UNCHANGED vars BY <2>2 DEF vars, ListInv, ListStep
    <2> QED BY <2>1, <2>2, KeyList, BgMsgList DEF Next
  <1> QED BY <1>1, <1>2 DEF ListInv, ListStep

LEMMA ListInvariant == Spec => []ListInv
  BY ListInit, ListKept, PTL DEF Spec

\* All that the event loop keeps is of its type: in particular the cursor,
\* which several keys and answers compute by subtraction, is never negative.
THEOREM SpecTypeOK == Spec => []TypeOK
  <1>1. ListInv => TypeOK
    BY DEF ListInv, GuardInv, GuardType, Shown, TypeOK
  <1> QED BY ListInvariant, <1>1, PTL

\* Rows, body and delete question are always of the account shown, for any
\* number of accounts and answers of any age: the guards on the answers'
\* tags suffice.
THEOREM SpecShownOfCurrent == Spec => []ShownOfCurrent
  <1>1. ASSUME ListInv PROVE ShownOfCurrent
    <2>1. current \in Account /\ view.envelopes \in List(current)
      BY <1>1 DEF ListInv, GuardInv, GuardType, Shown
    <2>2. \A i \in DOMAIN view.envelopes : view.envelopes[i].acct = current
      BY <2>1, ListType
    <2>3. \A m \in confirm : m.acct = current BY <1>1 DEF ListInv, ConfirmInv
    <2> QED BY <1>1, <2>2, <2>3 DEF ShownOfCurrent, ListInv, Shown
  <1> QED BY ListInvariant, <1>1, PTL

\* The list is strictly newest first, so without duplicates, for lists of any
\* length: matches the server found are merged in without one shown twice.
THEOREM SpecListSorted == Spec => []ListSorted
  <1>1. ASSUME ListInv PROVE ListSorted
    <2> DEFINE l == view.envelopes
    <2>1. current \in Account /\ l \in List(current)
      BY <1>1 DEF ListInv, GuardInv, GuardType, Shown
    <2> HIDE DEF l
    <2>2. DOMAIN l = 1..Len(l) /\ Len(l) \in Nat BY <2>1, ListType
    <2>3. ASSUME NEW i \in 1..Len(l) - 1 PROVE Newer(l[i], l[i + 1])
      <3>1. i \in 1..Len(l) /\ i + 1 \in 1..Len(l) /\ i < i + 1 BY <2>2
      <3> QED BY <2>1, <2>2, <3>1 DEF List, Sorted, Newer
    <2> QED BY <2>3 DEF ListSorted, l
  <1> QED BY ListInvariant, <1>1, PTL

\* A sync's answer leaves the cursor on the message it was on, if that is
\* still listed and no filter is set, wherever it moved to in the list.
THEOREM SpecCursorKeptUnfiltered == Spec => CursorKeptUnfiltered
  <1> DEFINE Kept == Resynced /\ view.search \subseteq BlankText =>
                       \A m \in Selected(view) \cap ToSet(Visible(view')) : Selected(view') = {m}
  <1>1. ASSUME ListInv, ListInv', Resynced, view.search \subseteq BlankText,
               NEW m \in Selected(view) \cap ToSet(Visible(view'))
        PROVE  Selected(view') = {m}
    <2>1. PICK l \in Listings(current) : SyncDone(On("sync", current), l) BY <1>1 DEF Resynced
    <2>2. /\ current \in Account /\ Shown(view, current) /\ view \in Views
          /\ current' = current /\ Shown(view', current)
      BY <1>1, <2>1 DEF ListInv, GuardInv, GuardType, Shown, SyncDone
    <2>3. l \in List(current) BY ListingsType
    <2>4. view' = [view EXCEPT !.envelopes = l, !.state = "loaded", !.selected = Cursor(l)]
      BY <2>1 DEF SyncDone
    <2>5. view'.envelopes = l /\ view'.search = view.search /\ view'.selected = Cursor(l)
      BY <2>2, <2>4 DEF Views
    <2>6. Visible(view') = l BY <1>1, <2>2, <2>5, VisibleType
    <2>7. PICK i \in DOMAIN l : l[i] = m BY <2>6 DEF ToSet
    <2>8. /\ Cursor(l) \in Nat /\ Cursor(l) + 1 \in DOMAIN l
          /\ \E n \in Selected(view) : l[Cursor(l) + 1].uid = n.uid
      BY <2>2, <2>3, <2>7, CursorType
    <2>9. l[Cursor(l) + 1].uid = m.uid BY <2>2, <2>8, SelectedType
    <2>10. Cursor(l) + 1 = i BY <2>3, <2>7, <2>8, <2>9, SortedIsDistinct DEF Distinct
    <2>11. DOMAIN l = 1..Len(l) /\ Len(l) \in Nat BY <2>2, <2>3, ListType
    <2>12. Cursor(l) < Len(l) BY <2>8, <2>11
    <2> QED BY <2>5, <2>6, <2>7, <2>10, <2>12 DEF Selected
  <1>2. ListInv /\ ListInv' /\ [Next]_vars => [Kept]_vars BY <1>1
  <1> QED BY ListInvariant, <1>2, PTL DEF Spec, CursorKeptUnfiltered
=============================================================================
