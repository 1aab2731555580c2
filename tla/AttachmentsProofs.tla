------------------------- MODULE AttachmentsProofs -------------------------
(* Files in mail-tui, for any directories, files, mails, attachments and   *)
(* changes by other programs.                                              *)
EXTENDS Attachments, WellFoundedInduction, TLAPS, FiniteSetTheorems

LEMMA ConstantTypes ==
    /\ Cap \in Nat /\ MaxChanges \in Nat /\ Size \in [Bytes -> Nat]
    /\ Home \in Dir /\ NoDir \notin Dir /\ Parent \in [Dir -> Dir \cup {NoDir}]
    /\ Partial \in Bytes /\ NoFile \notin Bytes /\ Up \notin Dir \cup Name
  BY AttachmentsAssumption

----------------------------------------------------------------------------
(* Numbers *)

\* The least of some numbers is one of them, and none is lower.
LEMMA MinOfNaturals ==
    ASSUME NEW S \in SUBSET Nat, S # {}
    PROVE  Min(S) \in S /\ \A x \in S : Min(S) <= x
<1> DEFINE R == OpToRel(<, Nat)
<1>1. \E m \in S : \A x \in S : ~ (<<x, m>> \in R)
  BY NatLessThanWellFounded, WFMin
<1>2. \A x, m \in Nat : x < m => <<x, m>> \in R
  BY DEF OpToRel
<1> HIDE DEF R
<1>3. \E m \in S : \A x \in S : m <= x
  <2>1. PICK m \in S : \A x \in S : ~ (<<x, m>> \in R) BY <1>1
  <2>2. \A x \in S : ~ (x < m) BY <1>2, <2>1
  <2>3. QED BY <2>2
<1>4. QED BY <1>3 DEF Min

\* The highest of some numbers with a bound is one of them, and none is higher.
LEMMA MaxOfNaturals ==
    ASSUME NEW S \in SUBSET Nat, S # {}, NEW n \in Nat, \A x \in S : x <= n
    PROVE  Max(S) \in S /\ \A x \in S : x <= Max(S)
<1> DEFINE bounds == {b \in Nat : \A x \in S : x <= b}
<1>1. Min(bounds) \in bounds /\ \A b \in bounds : Min(bounds) <= b
  BY MinOfNaturals
<1>2. Min(bounds) \in S
  <2>1. SUFFICES ASSUME Min(bounds) \notin S PROVE FALSE OBVIOUS
  <2>2. Min(bounds) # 0
    <3>1. PICK x \in S : TRUE OBVIOUS
    <3>2. x <= Min(bounds) /\ x # Min(bounds) BY <1>1, <2>1, <3>1
    <3>3. QED BY <1>1, <3>2
  <2>3. Min(bounds) - 1 \in bounds BY <1>1, <2>1, <2>2
  <2>4. QED BY <1>1, <2>3
<1>3. \E m \in S : \A x \in S : m >= x
  BY <1>1, <1>2
<1>4. QED BY <1>3 DEF Max

\* The higher and the lower of two numbers.
LEMMA MaxOfTwo ==
    ASSUME NEW a \in Int, NEW b \in Int
    PROVE  Max({a, b}) = IF a >= b THEN a ELSE b
  <1>1. \E m \in {a, b} : \A x \in {a, b} : m >= x OBVIOUS
  <1>2. Max({a, b}) \in {a, b} /\ \A x \in {a, b} : Max({a, b}) >= x BY <1>1 DEF Max
  <1> QED BY <1>2

LEMMA MinOfTwo ==
    ASSUME NEW a \in Int, NEW b \in Int
    PROVE  Min({a, b}) = IF a <= b THEN a ELSE b
  <1>1. \E m \in {a, b} : \A x \in {a, b} : m <= x OBVIOUS
  <1>2. Min({a, b}) \in {a, b} /\ \A x \in {a, b} : Min({a, b}) <= x BY <1>1 DEF Min
  <1> QED BY <1>2

----------------------------------------------------------------------------
(* Sequences *)

LEMMA Joined ==
    ASSUME NEW S, NEW a \in Seq(S), NEW b \in Seq(S)
    PROVE  /\ a \o b \in Seq(S) /\ Len(a \o b) = Len(a) + Len(b)
           /\ \A j \in 1..Len(a) : (a \o b)[j] = a[j]
           /\ \A j \in Len(a) + 1..Len(a) + Len(b) : (a \o b)[j] = b[j - Len(a)]
  OBVIOUS

\* The first k elements of a list, and all but them.
LEMMA Parts ==
    ASSUME NEW S, NEW s \in Seq(S), NEW k \in 0..Len(s)
    PROVE  /\ SubSeq(s, 1, k) \in Seq(S) /\ Len(SubSeq(s, 1, k)) = k
           /\ \A j \in 1..k : SubSeq(s, 1, k)[j] = s[j]
           /\ SubSeq(s, k + 1, Len(s)) \in Seq(S)
           /\ Len(SubSeq(s, k + 1, Len(s))) = Len(s) - k
           /\ \A j \in 1..Len(s) - k : SubSeq(s, k + 1, Len(s))[j] = s[j + k]
  OBVIOUS

\* A list without its i-th element.
LEMMA WithoutElement ==
    ASSUME NEW S, NEW s \in Seq(S), NEW i \in 1..Len(s)
    PROVE  LET t == SubSeq(s, 1, i - 1) \o SubSeq(s, i + 1, Len(s))
           IN  /\ t \in Seq(S) /\ Len(t) = Len(s) - 1
               /\ \A j \in 1..Len(s) - 1 : t[j] = IF j < i THEN s[j] ELSE s[j + 1]
  <1> DEFINE a == SubSeq(s, 1, i - 1)
             b == SubSeq(s, i + 1, Len(s))
             t == a \o b
  <1>1. Len(s) \in Nat /\ i - 1 \in 0..Len(s) /\ i \in 0..Len(s) OBVIOUS
  <1>2. a \in Seq(S) /\ Len(a) = i - 1 /\ \A j \in 1..i - 1 : a[j] = s[j]
    BY <1>1, Parts
  <1>3. /\ b \in Seq(S) /\ Len(b) = Len(s) - i
        /\ \A j \in 1..Len(s) - i : b[j] = s[j + i]
    BY <1>1, Parts
  <1> HIDE DEF a, b
  <1>4. /\ t \in Seq(S) /\ Len(t) = Len(a) + Len(b)
        /\ \A j \in 1..Len(a) : t[j] = a[j]
        /\ \A j \in Len(a) + 1..Len(a) + Len(b) : t[j] = b[j - Len(a)]
    BY <1>2, <1>3, Joined
  <1> HIDE DEF t
  <1>5. Len(t) = Len(s) - 1 BY <1>1, <1>2, <1>3, <1>4
  <1>6. ASSUME NEW j \in 1..Len(s) - 1
        PROVE  t[j] = IF j < i THEN s[j] ELSE s[j + 1]
    <2>1. CASE j < i
      <3>1. j \in 1..i - 1 BY <1>1, <2>1
      <3> QED BY <1>2, <1>4, <2>1, <3>1
    <2>2. CASE ~(j < i)
      <3>1. /\ j \in Len(a) + 1..Len(a) + Len(b) /\ j - Len(a) \in 1..Len(s) - i
            /\ (j - Len(a)) + i = j + 1
        BY <1>1, <1>2, <1>3, <2>2
      <3>2. t[j] = b[j - Len(a)] BY <1>4, <3>1
      <3>3. b[j - Len(a)] = s[(j - Len(a)) + i] BY <1>3, <3>1
      <3> QED BY <2>2, <3>1, <3>2, <3>3
    <2> QED BY <2>1, <2>2
  <1> QED BY <1>4, <1>5, <1>6 DEF t, a, b

----------------------------------------------------------------------------
(* Sums, which the models take with FoldLeft: a function on the sets of    *)
(* places of a sequence.  The induction is over the lengths for which a    *)
(* statement fails, of which there would be a least one.                   *)

\* T is the fold of FoldLeft that adds up the numbers z.
AddsUp(T, z) ==
    T = [x \in SUBSET DOMAIN z |-> IF x = {} THEN 0 ELSE T[x \ {Max(x)}] + z[Max(x)]]

\* n is the sum of the numbers z: the last of their partial sums g.
PartialSums(g, z) ==
    /\ g \in [0..Len(z) -> Nat] /\ g[0] = 0
    /\ \A i \in 1..Len(z) : g[i] = g[i - 1] + z[i]

IsSum(n, z) == \E g : PartialSums(g, z) /\ n = g[Len(z)]

LEMMA MaxOfInterval ==
    ASSUME NEW n \in Nat, NEW x \in SUBSET (1..n), x # {}
    PROVE  Max(x) \in x /\ \A y \in x : y <= Max(x)
  <1>1. x \in SUBSET Nat /\ \A y \in x : y <= n OBVIOUS
  <1> QED BY <1>1, MaxOfNaturals

\* There is such a fold.
LEMMA AddsUpExists ==
    ASSUME NEW z \in Seq(Nat)
    PROVE  \E T : AddsUp(T, z)
  <1> DEFINE Upto(T, k) ==
               T = [x \in SUBSET (1..k) |-> IF x = {} THEN 0 ELSE T[x \ {Max(x)}] + z[Max(x)]]
             bad == {k \in 0..Len(z) : ~ \E T : Upto(T, k)}
  <1>1. Len(z) \in Nat /\ DOMAIN z = 1..Len(z) OBVIOUS
  <1>2. bad = {}
    <2>1. SUFFICES ASSUME bad # {} PROVE FALSE OBVIOUS
    <2>2. bad \in SUBSET Nat BY <1>1
    <2> DEFINE m == Min(bad)
    <2>3. m \in bad /\ \A k \in bad : m <= k BY <2>1, <2>2, MinOfNaturals
    <2> HIDE DEF m
    <2>4. m \in 0..Len(z) /\ ~ \E T : Upto(T, m) BY <2>3
    <2>5. CASE m = 0
      <3> DEFINE T == [x \in SUBSET (1..0) |-> 0]
      <3>1. 1..0 = {} OBVIOUS
      <3>2. \A x \in SUBSET (1..0) : x = {} BY <3>1
      <3>3. T = [x \in SUBSET (1..0) |-> IF x = {} THEN 0 ELSE T[x \ {Max(x)}] + z[Max(x)]]
        BY <3>2
      <3>4. Upto(T, m) BY <2>5, <3>3
      <3> QED BY <2>4, <3>4
    <2>6. CASE m # 0
      <3>1. m - 1 \in 0..Len(z) /\ m - 1 < m /\ m \in Nat BY <1>1, <2>4, <2>6
      <3>2. m - 1 \notin bad
        <4> HIDE DEF bad
        <4>1. ~(m <= m - 1) BY <3>1
        <4> QED BY <2>3, <4>1
      <3>3. PICK T : Upto(T, m - 1) BY <3>1, <3>2
      <3> DEFINE U == [x \in SUBSET (1..m) |-> IF m \in x THEN T[x \ {m}] + z[m] ELSE T[x]]
      <3>4. ASSUME NEW x \in SUBSET (1..m)
            PROVE  U[x] = IF x = {} THEN 0 ELSE U[x \ {Max(x)}] + z[Max(x)]
        <4>1. CASE m \in x
          <5>1. Max(x) \in x /\ m <= Max(x) BY <3>1, <4>1, MaxOfInterval
          <5>2. Max(x) = m
            <6> HIDE DEF U, bad
            <6>1. Max(x) \in 1..m BY <5>1
            <6> QED BY <3>1, <5>1, <6>1
          <5>3. x \ {m} \in SUBSET (1..m) /\ m \notin x \ {m} OBVIOUS
          <5>4. U[x \ {m}] = T[x \ {m}] BY <5>3
          <5>5. U[x] = T[x \ {m}] + z[m] BY <4>1
          <5> QED BY <4>1, <5>2, <5>4, <5>5
        <4>2. CASE m \notin x
          <5>1. x \in SUBSET (1..m - 1) BY <3>1, <4>2
          <5>2. U[x] = T[x] BY <4>2
          <5>3. T[x] = IF x = {} THEN 0 ELSE T[x \ {Max(x)}] + z[Max(x)] BY <3>3, <5>1
          <5>4. x \ {Max(x)} \in SUBSET (1..m) /\ m \notin x \ {Max(x)} BY <4>2
          <5>5. U[x \ {Max(x)}] = T[x \ {Max(x)}] BY <5>4
          <5> QED BY <5>2, <5>3, <5>5
        <4> QED BY <4>1, <4>2
      <3>5. Upto(U, m) BY <3>4
      <3> QED BY <2>4, <3>5
    <2> QED BY <2>5, <2>6
  <1>3. Len(z) \in 0..Len(z) BY <1>1
  <1>4. \E T : Upto(T, Len(z))
    <2> HIDE DEF Upto
    <2> QED BY <1>2, <1>3
  <1> QED BY <1>1, <1>4 DEF AddsUp

\* What it gives for all places is the sum.
LEMMA AddsUpSum ==
    ASSUME NEW z \in Seq(Nat), NEW T, AddsUp(T, z)
    PROVE  IsSum(T[DOMAIN z], z)
  <1> DEFINE g == [k \in 0..Len(z) |-> T[1..k]]
             bad == {k \in 0..Len(z) : g[k] \notin Nat}
  <1>1. Len(z) \in Nat /\ DOMAIN z = 1..Len(z) OBVIOUS
  <1>2. g[0] = 0
    <2>1. 1..0 = {} /\ 0 \in 0..Len(z) BY <1>1
    <2>2. T[{}] = 0 BY DEF AddsUp
    <2> QED BY <2>1, <2>2
  <1>3. ASSUME NEW i \in 1..Len(z) PROVE g[i] = g[i - 1] + z[i]
    <2>1. i \in 0..Len(z) /\ i - 1 \in 0..Len(z) /\ i \in Nat BY <1>1
    <2>2. 1..i \in SUBSET (1..i) /\ 1..i \in SUBSET DOMAIN z /\ i \in 1..i
      BY <1>1, <2>1
    <2>3. Max(1..i) \in 1..i /\ i <= Max(1..i) BY <2>1, <2>2, MaxOfInterval
    <2>4. Max(1..i) = i BY <2>1, <2>3
    <2>5. (1..i) \ {i} = 1..i - 1 BY <2>1
    <2>6. T[1..i] = T[(1..i) \ {Max(1..i)}] + z[Max(1..i)] BY <2>2 DEF AddsUp
    <2>7. T[1..i] = T[1..i - 1] + z[i] BY <2>4, <2>5, <2>6
    <2> QED BY <2>1, <2>7
  <1> HIDE DEF g
  <1>4. bad = {}
    <2>1. SUFFICES ASSUME bad # {} PROVE FALSE OBVIOUS
    <2>2. bad \in SUBSET Nat BY <1>1
    <2> DEFINE m == Min(bad)
    <2>3. m \in bad /\ \A k \in bad : m <= k BY <2>1, <2>2, MinOfNaturals
    <2> HIDE DEF m
    <2>4. m # 0 BY <1>2, <2>3
    <2>5. m \in 1..Len(z) /\ m - 1 \in 0..Len(z) /\ m - 1 < m BY <1>1, <2>3, <2>4
    <2>6. g[m - 1] \in Nat BY <2>3, <2>5
    <2>7. g[m] \in Nat BY <1>3, <2>5, <2>6
    <2> QED BY <2>3, <2>7
  <1>5. PartialSums(g, z)
    <2>1. g \in [0..Len(z) -> Nat] BY <1>4 DEF g
    <2> QED BY <1>2, <1>3, <2>1 DEF PartialSums
  <1>6. g[Len(z)] = T[DOMAIN z] BY <1>1 DEF g
  <1> QED BY <1>5, <1>6 DEF IsSum

\* There is one sum.
LEMMA SumUnique ==
    ASSUME NEW z \in Seq(Nat), NEW m, NEW n, IsSum(m, z), IsSum(n, z)
    PROVE  m = n /\ m \in Nat
  <1>1. PICK g : PartialSums(g, z) /\ m = g[Len(z)] BY DEF IsSum
  <1>2. PICK h : PartialSums(h, z) /\ n = h[Len(z)] BY DEF IsSum
  <1> DEFINE bad == {k \in 0..Len(z) : g[k] # h[k]}
  <1>3. Len(z) \in Nat OBVIOUS
  <1>4. bad = {}
    <2>1. SUFFICES ASSUME bad # {} PROVE FALSE OBVIOUS
    <2>2. bad \in SUBSET Nat BY <1>3
    <2> DEFINE k == Min(bad)
    <2>3. k \in bad /\ \A j \in bad : k <= j BY <2>1, <2>2, MinOfNaturals
    <2> HIDE DEF k
    <2>4. k # 0 BY <1>1, <1>2, <2>3 DEF PartialSums
    <2>5. k \in 1..Len(z) /\ k - 1 \in 0..Len(z) /\ k - 1 < k BY <1>3, <2>3, <2>4
    <2>6. g[k - 1] = h[k - 1] BY <2>3, <2>5
    <2>7. g[k] = h[k] BY <1>1, <1>2, <2>5, <2>6 DEF PartialSums
    <2> QED BY <2>3, <2>7
  <1> QED BY <1>1, <1>2, <1>3, <1>4 DEF PartialSums

\* The sum grows by what is appended.
LEMMA SumAppend ==
    ASSUME NEW z \in Seq(Nat), NEW n, IsSum(n, z), NEW e \in Nat, NEW y \in Seq(Nat),
           Len(y) = Len(z) + 1, y[Len(z) + 1] = e, \A i \in 1..Len(z) : y[i] = z[i]
    PROVE  IsSum(n + e, y)
  <1>1. PICK g : PartialSums(g, z) /\ n = g[Len(z)] BY DEF IsSum
  <1> DEFINE h == [k \in 0..Len(z) + 1 |-> IF k = Len(z) + 1 THEN n + e ELSE g[k]]
  <1>2. /\ Len(z) \in Nat /\ Len(y) = Len(z) + 1 /\ y[Len(z) + 1] = e
        /\ \A i \in 1..Len(z) : y[i] = z[i]
    OBVIOUS
  <1>3. g \in [0..Len(z) -> Nat] /\ g[0] = 0 /\ \A i \in 1..Len(z) : g[i] = g[i - 1] + z[i]
    BY <1>1 DEF PartialSums
  <1>4. n \in Nat BY <1>1, <1>2, <1>3
  <1>5. h \in [0..Len(z) + 1 -> Nat] /\ h[0] = 0 BY <1>2, <1>3, <1>4
  <1>6. ASSUME NEW i \in 1..Len(z) + 1 PROVE h[i] = h[i - 1] + y[i]
    <2>1. CASE i = Len(z) + 1 BY <1>1, <1>2, <1>3, <2>1
    <2>2. CASE i # Len(z) + 1
      <3>1. i \in 1..Len(z) /\ i - 1 \in 0..Len(z) /\ i - 1 # Len(z) + 1 BY <1>2, <2>2
      <3>2. h[i] = g[i] /\ h[i - 1] = g[i - 1] BY <1>2, <2>2, <3>1
      <3> QED BY <1>2, <1>3, <3>1, <3>2
    <2> QED BY <2>1, <2>2
  <1>7. h[Len(y)] = n + e BY <1>2
  <1> HIDE DEF h
  <1>8. PartialSums(h, y) BY <1>2, <1>5, <1>6 DEF PartialSums
  <1> QED BY <1>7, <1>8 DEF IsSum

\* Without one of the numbers it is not more than it was.
LEMMA SumWithout ==
    ASSUME NEW z \in Seq(Nat), NEW n, IsSum(n, z), NEW i \in 1..Len(z),
           NEW y \in Seq(Nat), Len(y) = Len(z) - 1,
           \A j \in 1..Len(z) - 1 : y[j] = IF j < i THEN z[j] ELSE z[j + 1]
    PROVE  \E m \in Nat : IsSum(m, y) /\ m <= n
  <1>1. PICK g : PartialSums(g, z) /\ n = g[Len(z)] BY DEF IsSum
  <1>2. Len(z) \in Nat /\ z[i] \in Nat /\ i \in Nat OBVIOUS
  <1>3. /\ g \in [0..Len(z) -> Nat] /\ g[0] = 0 /\ \A k \in 0..Len(z) : g[k] \in Nat
        /\ \A k \in 1..Len(z) : g[k] = g[k - 1] + z[k] /\ z[k] \in Nat
    <2>1. \A k \in 1..Len(z) : z[k] \in Nat OBVIOUS
    <2> QED BY <1>1, <2>1 DEF PartialSums
  <1> DEFINE bad == {k \in i..Len(z) : g[k] < z[i]}
             h == [k \in 0..Len(z) - 1 |-> IF k < i THEN g[k] ELSE g[k + 1] - z[i]]
  <1>4. bad = {}
    <2>1. SUFFICES ASSUME bad # {} PROVE FALSE OBVIOUS
    <2>2. bad \in SUBSET Nat BY <1>2
    <2> DEFINE k == Min(bad)
    <2>3. k \in bad /\ \A j \in bad : k <= j BY <2>1, <2>2, MinOfNaturals
    <2> HIDE DEF k
    <2>4. k \in 1..Len(z) /\ k - 1 \in 0..Len(z) /\ k \in i..Len(z) BY <1>2, <2>3
    <2>5. g[k] = g[k - 1] + z[k] /\ g[k - 1] \in Nat /\ z[k] \in Nat BY <1>3, <2>4
    <2>6. CASE k = i BY <1>2, <2>3, <2>5, <2>6
    <2>7. CASE k # i
      <3>1. k - 1 \in i..Len(z) /\ k - 1 < k BY <1>2, <2>4, <2>7
      <3>2. ~(g[k - 1] < z[i]) BY <2>3, <3>1
      <3> QED BY <1>2, <2>3, <2>5, <3>2
    <2> QED BY <2>6, <2>7
  <1>5. ASSUME NEW k \in 0..Len(z) - 1 PROVE h[k] \in Nat
    <2>1. CASE k < i BY <1>2, <1>3, <2>1
    <2>2. CASE ~(k < i)
      <3>1. k + 1 \in i..Len(z) /\ k + 1 \in 0..Len(z) BY <1>2, <2>2
      <3>2. g[k + 1] \in Nat /\ ~(g[k + 1] < z[i]) BY <1>3, <1>4, <3>1
      <3> QED BY <1>2, <2>2, <3>2
    <2> QED BY <2>1, <2>2
  <1>6. ASSUME NEW k \in 1..Len(z) - 1 PROVE h[k] = h[k - 1] + y[k]
    <2>1. /\ k \in 1..Len(z) /\ k \in 0..Len(z) - 1 /\ k - 1 \in 0..Len(z) - 1
          /\ k + 1 \in 1..Len(z) /\ (k - 1) + 1 = k /\ (k + 1) - 1 = k
      BY <1>2
    <2>2. /\ g[k] = g[k - 1] + z[k] /\ g[k + 1] = g[k] + z[k + 1]
          /\ {g[k], g[k - 1], g[k + 1], z[k], z[k + 1]} \subseteq Nat
      <3>1. g[k + 1] = g[(k + 1) - 1] + z[k + 1] BY <1>3, <2>1
      <3>2. k - 1 \in 0..Len(z) /\ k \in 0..Len(z) /\ k + 1 \in 0..Len(z)
        BY <1>2, <2>1
      <3>3. g[k + 1] = g[k] + z[k + 1] BY <2>1, <3>1
      <3>4. g[k] = g[k - 1] + z[k] BY <1>3, <2>1
      <3>5. {g[k], g[k - 1], g[k + 1], z[k], z[k + 1]} \subseteq Nat
        BY <1>3, <2>1, <3>2
      <3> QED BY <3>3, <3>4, <3>5
    <2>3. CASE k < i
      <3>1. h[k] = g[k] /\ h[k - 1] = g[k - 1] /\ y[k] = z[k] BY <1>2, <2>1, <2>3
      <3> HIDE DEF h
      <3> QED BY <2>2, <3>1
    <2>4. CASE k = i
      <3>1. h[k] = g[k + 1] - z[i] /\ h[k - 1] = g[k - 1] /\ y[k] = z[k + 1]
        BY <1>2, <2>1, <2>4
      <3> HIDE DEF h
      <3>2. g[k - 1] \in Nat /\ z[k] \in Nat /\ z[k + 1] \in Nat /\ z[k] = z[i]
        BY <2>2, <2>4
      <3>3. g[k + 1] = g[k - 1] + z[k] + z[k + 1] BY <2>2
      <3>4. h[k] = g[k - 1] + z[k + 1] BY <3>1, <3>2, <3>3
      <3> QED BY <3>1, <3>4
    <2>5. CASE k > i
      <3>1. h[k] = g[k + 1] - z[i] /\ y[k] = z[k + 1] BY <1>2, <2>1, <2>5
      <3>2. h[k - 1] = g[(k - 1) + 1] - z[i] BY <1>2, <2>1, <2>5
      <3>3. h[k - 1] = g[k] - z[i] BY <2>1, <3>2
      <3>4. g[k + 1] = g[k] + z[k + 1] /\ g[k] \in Nat /\ z[k + 1] \in Nat /\ z[i] \in Nat
        BY <1>2, <2>2
      <3> HIDE DEF h
      <3> QED BY <3>1, <3>3, <3>4
    <2> QED BY <1>2, <2>3, <2>4, <2>5
  <1>7. h[0] = 0 /\ h \in [0..Len(z) - 1 -> Nat]
    <2>1. 0 \in 0..Len(z) - 1 /\ 0 < i BY <1>2
    <2>2. h[0] = g[0] BY <2>1
    <2>3. h \in [0..Len(z) - 1 -> Nat] BY <1>5
    <2> QED BY <1>3, <2>2, <2>3
  <1>8. h[Len(z) - 1] \in Nat /\ h[Len(z) - 1] <= n
    <2>1. Len(z) - 1 \in 0..Len(z) - 1 BY <1>2
    <2>2. h[Len(z) - 1] \in Nat BY <1>5, <2>1
    <2>3. CASE Len(z) - 1 < i
      <3>1. h[Len(z) - 1] = g[Len(z) - 1] BY <2>1, <2>3
      <3>2. Len(z) \in 1..Len(z) /\ Len(z) - 1 \in 0..Len(z) BY <1>2
      <3>3. g[Len(z)] = g[Len(z) - 1] + z[Len(z)] /\ g[Len(z) - 1] \in Nat /\ z[Len(z)] \in Nat
        BY <1>3, <3>2
      <3> QED BY <1>1, <2>2, <3>1, <3>3
    <2>4. CASE ~(Len(z) - 1 < i)
      <3>1. (Len(z) - 1) + 1 = Len(z) /\ Len(z) \in 0..Len(z) BY <1>2
      <3>2. h[Len(z) - 1] = g[(Len(z) - 1) + 1] - z[i] BY <2>1, <2>4
      <3>3. h[Len(z) - 1] = g[Len(z)] - z[i] /\ g[Len(z)] \in Nat BY <1>3, <3>1, <3>2
      <3> QED BY <1>1, <1>2, <2>2, <3>3
    <2> QED BY <2>3, <2>4
  <1> HIDE DEF h
  <1>9. PartialSums(h, y) BY <1>6, <1>7 DEF PartialSums
  <1> QED BY <1>8, <1>9 DEF IsSum

----------------------------------------------------------------------------
(* Sums of sizes *)

\* The sizes recorded of a list are added up, and so are those of files read.
LEMMA RecordedSizeFold ==
    ASSUME NEW s
    PROVE  RecordedSize(s) =
             (CHOOSE T : T = [x \in SUBSET DOMAIN s |->
                 IF x = {} THEN 0 ELSE T[x \ {Max(x)}] + s[Max(x)].size])[DOMAIN s]
  BY DEF RecordedSize, FoldLeft, MapThenFoldSet

LEMMA RecordedSizeSum ==
    ASSUME NEW s \in Seq(Item), NEW z \in Seq(Nat), Len(z) = Len(s),
           \A i \in DOMAIN s : z[i] = s[i].size
    PROVE  IsSum(RecordedSize(s), z)
  <1> DEFINE F(T) == [x \in SUBSET DOMAIN s |->
                       IF x = {} THEN 0 ELSE T[x \ {Max(x)}] + s[Max(x)].size]
  <1>1. DOMAIN z = DOMAIN s /\ DOMAIN s = 1..Len(s) /\ Len(s) \in Nat OBVIOUS
  <1>2. \A T : F(T) = [x \in SUBSET DOMAIN z |->
                         IF x = {} THEN 0 ELSE T[x \ {Max(x)}] + z[Max(x)]]
    <2>1. \A x \in SUBSET DOMAIN s : x # {} => Max(x) \in DOMAIN s
      BY <1>1, MaxOfInterval
    <2> QED BY <1>1, <2>1
  <1>3. \E T : T = F(T)
    <2>1. PICK T : AddsUp(T, z) BY AddsUpExists
    <2>2. T = F(T) BY <1>2, <2>1 DEF AddsUp
    <2> QED BY <2>2
  <1> DEFINE T == CHOOSE T : T = F(T)
  <1>4. T = F(T) BY <1>3
  <1>5. RecordedSize(s) = T[DOMAIN s] BY RecordedSizeFold
  <1> HIDE DEF T
  <1>6. AddsUp(T, z) BY <1>2, <1>4 DEF AddsUp
  <1>7. IsSum(T[DOMAIN z], z) BY <1>6, AddsUpSum
  <1> QED BY <1>1, <1>5, <1>7

ReadSize(files) == FoldLeft(LAMBDA n, f : n + Size[f.bytes], 0, files)

LEMMA ReadSizeFold ==
    ASSUME NEW s
    PROVE  ReadSize(s) =
             (CHOOSE T : T = [x \in SUBSET DOMAIN s |->
                 IF x = {} THEN 0 ELSE T[x \ {Max(x)}] + Size[s[Max(x)].bytes]])[DOMAIN s]
  BY DEF ReadSize, FoldLeft, MapThenFoldSet

LEMMA ReadSizeSum ==
    ASSUME NEW s \in Seq([path : Path, bytes : Bytes]), NEW z \in Seq(Nat), Len(z) = Len(s),
           \A i \in DOMAIN s : z[i] = Size[s[i].bytes]
    PROVE  IsSum(ReadSize(s), z)
  <1> DEFINE F(T) == [x \in SUBSET DOMAIN s |->
                       IF x = {} THEN 0 ELSE T[x \ {Max(x)}] + Size[s[Max(x)].bytes]]
  <1>1. DOMAIN z = DOMAIN s /\ DOMAIN s = 1..Len(s) /\ Len(s) \in Nat OBVIOUS
  <1>2. \A T : F(T) = [x \in SUBSET DOMAIN z |->
                         IF x = {} THEN 0 ELSE T[x \ {Max(x)}] + z[Max(x)]]
    <2>1. \A x \in SUBSET DOMAIN s : x # {} => Max(x) \in DOMAIN s
      BY <1>1, MaxOfInterval
    <2> QED BY <1>1, <2>1
  <1>3. \E T : T = F(T)
    <2>1. PICK T : AddsUp(T, z) BY AddsUpExists
    <2>2. T = F(T) BY <1>2, <2>1 DEF AddsUp
    <2> QED BY <2>2
  <1> DEFINE T == CHOOSE T : T = F(T)
  <1>4. T = F(T) BY <1>3
  <1>5. ReadSize(s) = T[DOMAIN s] BY ReadSizeFold
  <1> HIDE DEF T
  <1>6. AddsUp(T, z) BY <1>2, <1>4 DEF AddsUp
  <1>7. IsSum(T[DOMAIN z], z) BY <1>6, AddsUpSum
  <1> QED BY <1>1, <1>5, <1>7

Sizes(s) == [i \in DOMAIN s |-> s[i].size]

LEMMA SizesType ==
    ASSUME NEW s \in Seq(Item)
    PROVE  /\ Sizes(s) \in Seq(Nat) /\ Len(Sizes(s)) = Len(s)
           /\ \A i \in DOMAIN s : Sizes(s)[i] = s[i].size
           /\ IsSum(RecordedSize(s), Sizes(s)) /\ RecordedSize(s) \in Nat
  <1>1. \A i \in DOMAIN s : s[i].size \in Nat
    <2>1. \A i \in DOMAIN s : s[i] \in Item OBVIOUS
    <2> QED BY <2>1 DEF Item
  <1>2. Sizes(s) \in Seq(Nat) /\ Len(Sizes(s)) = Len(s) BY <1>1 DEF Sizes
  <1>3. \A i \in DOMAIN s : Sizes(s)[i] = s[i].size BY DEF Sizes
  <1> DEFINE z == Sizes(s)
  <1>4. z \in Seq(Nat) /\ Len(z) = Len(s) /\ \A i \in DOMAIN s : z[i] = s[i].size BY <1>2, <1>3
  <1> HIDE DEF z
  <1>5. IsSum(RecordedSize(s), z) BY <1>4, RecordedSizeSum
  <1>6. RecordedSize(s) \in Nat BY <1>4, <1>5, SumUnique
  <1> QED BY <1>2, <1>3, <1>5, <1>6 DEF z

----------------------------------------------------------------------------
(* The inductive invariant *)

ComposeType == [open : BOOLEAN, sending : BOOLEAN,
                attachments : [items : Seq(Item), selected : Nat]]
BrowserType == [purpose : {"none", "attach", "save"}, bytes : Bytes \cup {NoFile}, dir : Dir,
                entries : Seq({Up} \cup Dir \cup Name), selected : Nat,
                filename : Name \cup {""}, focused : BOOLEAN]

ReadType == [todo : Seq(Item), files : Seq([path : Path, bytes : Bytes])]

DiskTyped == disk \in [Path -> Bytes \cup {NoFile}] /\ changes \in 0..MaxChanges
PaneTyped ==
    /\ pane \in [mail : Received \cup {<<>>}, selected : Nat]
    /\ InRange(pane.selected, pane.mail)
ComposeTyped ==
    /\ compose \in ComposeType
    /\ InRange(compose.attachments.selected, compose.attachments.items)
BrowserTyped ==
    /\ browser \in BrowserType
    /\ InRange(browser.selected, browser.entries)
ReadTyped == reading \in ReadType

Typed == DiskTyped /\ PaneTyped /\ ComposeTyped /\ BrowserTyped /\ ReadTyped

Items == compose.attachments.items

\* `..` is listed only where there is a directory above.
BrowserSound ==
    /\ Attaching => compose.open /\ ~compose.sending
    /\ Saving => ~compose.open /\ browser.bytes = wanted /\ wanted \in Bytes
    /\ \A i \in DOMAIN browser.entries :
          browser.entries[i] = Up => Parent[browser.dir] # NoDir

\* While nothing has changed since it was picked, a file is there as it was.
ComposeSound ==
    /\ compose.sending => compose.open
    /\ ~compose.open => Items = <<>>
    /\ RecordedSize(Items) <= Cap
    /\ \A i \in DOMAIN Items :
          /\ Items[i].then <= changes
          /\ Items[i].then = changes =>
                /\ disk[Items[i].path] # NoFile
                /\ Size[disk[Items[i].path]] = Items[i].size

\* What has been read and what is to be read are the window's list.
ReadSound ==
    compose.sending =>
        /\ Len(reading.files) + Len(reading.todo) = Len(Items)
        /\ \A i \in 1..Len(reading.files) :
              /\ reading.files[i].path = Items[i].path
              /\ Items[i].then = changes => Size[reading.files[i].bytes] = Items[i].size
        /\ \A i \in 1..Len(reading.todo) : reading.todo[i] = Items[Len(reading.files) + i]

Sound == BrowserSound /\ ComposeSound /\ ReadSound

----------------------------------------------------------------------------
(* Lists and selections *)

LEMMA Wider ==
    ASSUME NEW T, NEW S \in SUBSET T, NEW s \in Seq(S)
    PROVE  s \in Seq(T)
  OBVIOUS

LEMMA SetToSeqType ==
    ASSUME NEW S, IsFiniteSet(S)
    PROVE  SetToSeq(S) \in Seq(S)
  <1>1. PICK n \in Nat : ExistsBijection(1..n, S) BY FS_NatBijection
  <1>2. Cardinality(S) = n BY <1>1, FS_CountingElements
  <1>3. \E f \in [1..n -> S] : IsInjective(f)
    BY <1>1 DEF ExistsBijection, Bijection, Injection, IsInjective
  <1>4. SetToSeq(S) \in [1..n -> S] BY <1>2, <1>3 DEF SetToSeq
  <1> QED BY <1>4

Entries == Seq({Up} \cup Dir \cup Name)

LEMMA ListingType ==
    ASSUME disk \in [Path -> Bytes \cup {NoFile}], NEW d \in Dir, NEW entries \in Listing(d)
    PROVE  /\ entries \in Entries
           /\ \A i \in DOMAIN entries : entries[i] = Up => Parent[d] # NoDir
  <1> DEFINE up    == IF Parent[d] = NoDir THEN <<>> ELSE <<Up>>
             below == {e \in Dir : Parent[e] = d}
             there == {n \in Name : disk[<<d, n>>] # NoFile}
             dirs  == SetToSeq(below)
             files == SetToSeq(there)
  <1>1. IsFiniteSet(below) /\ IsFiniteSet(there)
    BY AttachmentsAssumption, FS_Subset
  <1>2. dirs \in Seq(below) /\ files \in Seq(there) BY <1>1, SetToSeqType
  <1>3. dirs \in Seq(Dir) /\ files \in Seq(Name)
    <2>1. below \subseteq Dir /\ there \subseteq Name OBVIOUS
    <2> HIDE DEF dirs, files, below, there
    <2> QED BY <1>2, <2>1, Wider
  <1>4. entries = (up \o dirs) \o files \/ entries = up BY DEF Listing
  <1>5. up \in Seq({Up}) /\ (Parent[d] = NoDir => Len(up) = 0)
    <2>1. <<>> \in Seq({Up}) /\ Len(<<>>) = 0 /\ <<Up>> \in Seq({Up}) OBVIOUS
    <2> QED BY <2>1
  <1> HIDE DEF up, dirs, files
  <1>6. up \in Entries /\ dirs \in Entries /\ files \in Entries BY <1>3, <1>5 DEF Entries
  <1>7. /\ up \o dirs \in Entries /\ Len(up \o dirs) = Len(up) + Len(dirs)
        /\ \A j \in 1..Len(up) : (up \o dirs)[j] = up[j]
        /\ \A j \in Len(up) + 1..Len(up) + Len(dirs) : (up \o dirs)[j] = dirs[j - Len(up)]
    BY <1>6, Joined DEF Entries
  <1> DEFINE both == up \o dirs
             all  == both \o files
  <1> HIDE DEF both
  <1>8. /\ all \in Entries /\ Len(all) = Len(both) + Len(files)
        /\ \A j \in 1..Len(both) : all[j] = both[j]
        /\ \A j \in Len(both) + 1..Len(both) + Len(files) : all[j] = files[j - Len(both)]
    <2>1. both \in Entries BY <1>7 DEF both
    <2> QED BY <1>6, <2>1, Joined DEF Entries
  <1>9. entries = all \/ entries = up BY <1>4 DEF both
  <1>10. Len(up) \in Nat /\ Len(dirs) \in Nat /\ Len(files) \in Nat BY <1>3, <1>5
  <1>11. ASSUME Parent[d] = NoDir, NEW i \in 1..Len(all) PROVE all[i] # Up
    <2>1. Len(up) = 0 /\ Len(both) = Len(dirs) BY <1>5, <1>7, <1>10, <1>11 DEF both
    <2> HIDE DEF all, both
    <2>2. CASE i \in 1..Len(dirs)
      <3>1. all[i] = both[i] BY <1>8, <2>1, <2>2
      <3>2. i \in Len(up) + 1..Len(up) + Len(dirs) /\ i - Len(up) = i BY <1>10, <2>1, <2>2
      <3>3. both[i] = dirs[i] BY <1>7, <3>2 DEF both
      <3>4. dirs[i] \in Dir BY <1>3, <2>2
      <3> QED BY <3>1, <3>3, <3>4, ConstantTypes
    <2>3. CASE i \notin 1..Len(dirs)
      <3>1. i \in Len(both) + 1..Len(both) + Len(files) /\ i - Len(both) \in 1..Len(files)
        BY <1>8, <1>10, <2>1, <2>3
      <3>2. all[i] = files[i - Len(both)] BY <1>8, <3>1
      <3>3. files[i - Len(both)] \in Name BY <1>3, <3>1
      <3> QED BY <3>2, <3>3, ConstantTypes
    <2> QED BY <2>2, <2>3
  <1> HIDE DEF all
  <1>12. entries \in Entries BY <1>6, <1>8, <1>9
  <1>13. DOMAIN entries = 1..Len(entries) BY <1>12 DEF Entries
  <1>14. CASE entries = all
    <2>1. \A i \in 1..Len(all) : all[i] = Up => Parent[d] # NoDir BY <1>11
    <2> QED BY <1>12, <1>13, <1>14, <2>1
  <1>15. CASE entries = up
    <2>1. Parent[d] = NoDir => DOMAIN entries = {} BY <1>5, <1>13, <1>15
    <2> HIDE DEF Entries
    <2> QED BY <2>1, <1>12
  <1> QED BY <1>9, <1>12, <1>14, <1>15

\* Selections move inside their lists.
LEMMA LastPlace ==
    ASSUME NEW S, NEW s \in Seq(S), NEW i
    PROVE  InRange(i, s) <=> i \in Nat /\ (i < Len(s) \/ i = 0)
  <1>1. Len(s) \in Nat OBVIOUS
  <1>2. Max({0, Len(s) - 1}) = IF 0 >= Len(s) - 1 THEN 0 ELSE Len(s) - 1
    BY <1>1, MaxOfTwo
  <1> QED BY <1>1, <1>2 DEF InRange

LEMMA UpDown ==
    ASSUME NEW S, NEW s \in Seq(S), NEW i, InRange(i, s)
    PROVE  InRange(UpOne(i), s) /\ InRange(DownOne(i, Len(s)), s)
  <1>1. i \in Nat /\ (i < Len(s) \/ i = 0) /\ Len(s) \in Nat BY LastPlace
  <1>2. UpOne(i) = IF 0 >= i - 1 THEN 0 ELSE i - 1 BY <1>1, MaxOfTwo DEF UpOne
  <1>3. Len(s) # 0 => DownOne(i, Len(s)) = IF i + 1 <= Len(s) - 1 THEN i + 1 ELSE Len(s) - 1
    BY <1>1, MinOfTwo DEF DownOne
  <1>4. Len(s) = 0 => DownOne(i, Len(s)) = i BY DEF DownOne
  <1>5. UpOne(i) \in Nat /\ (UpOne(i) < Len(s) \/ UpOne(i) = 0) BY <1>1, <1>2
  <1>6. DownOne(i, Len(s)) \in Nat /\ (DownOne(i, Len(s)) < Len(s) \/ DownOne(i, Len(s)) = 0)
    BY <1>1, <1>3, <1>4
  <1> QED BY <1>5, <1>6, LastPlace

----------------------------------------------------------------------------
(* The browser *)

Kept == UNCHANGED <<disk, changes, compose, reading>>

\* What a step leaves alone stays sound.
LEMMA SameDisk ==
    ASSUME DiskTyped, UNCHANGED <<disk, changes>> PROVE DiskTyped'
  BY DEF DiskTyped

LEMMA SamePane ==
    ASSUME PaneTyped, pane' = pane PROVE PaneTyped'
  BY DEF PaneTyped

LEMMA SameRead ==
    ASSUME ReadTyped, reading' = reading PROVE ReadTyped'
  BY DEF ReadTyped

LEMMA SameCompose ==
    ASSUME ComposeTyped, ComposeSound, ReadSound, Kept
    PROVE  ComposeTyped' /\ ComposeSound' /\ ReadSound'
  BY DEF ComposeTyped, ComposeSound, ReadSound, Kept, Items

LEMMA SameBrowser ==
    ASSUME BrowserTyped, BrowserSound, UNCHANGED <<browser, wanted>>,
           Attaching => compose'.open /\ ~compose'.sending, Saving => ~compose'.open
    PROVE  BrowserTyped' /\ BrowserSound'
  BY DEF BrowserTyped, BrowserSound, Attaching, Saving

LEMMA BrowserShut ==
    ASSUME browser' = Closed
    PROVE  BrowserTyped' /\ BrowserSound'
  <1> DEFINE none == <<>>
  <1>1. none \in Entries /\ Len(none) = 0 BY DEF Entries
  <1>2. Closed \in BrowserType BY <1>1, ConstantTypes DEF Closed, BrowserType, Entries
  <1>3. InRange(0, none) BY <1>1, LastPlace DEF Entries
  <1>4. Closed.selected = 0 /\ Closed.entries = none /\ Closed.purpose = "none" BY DEF Closed
  <1>5. DOMAIN none = {} OBVIOUS
  <1> HIDE DEF none
  <1>6. browser'.entries = none /\ browser'.purpose = "none" BY <1>4
  <1>7. BrowserTyped' BY <1>2, <1>3, <1>4 DEF BrowserTyped
  <1> QED BY <1>5, <1>6, <1>7 DEF BrowserSound, Attaching, Saving

\* The browser opened in a directory, or moved to one.
LEMMA BrowserIn ==
    ASSUME DiskTyped, NEW b \in BrowserType, NEW d \in Dir, NEW entries \in Listing(d),
           browser' = In(b, d, entries),
           b.purpose = "attach" => compose'.open /\ ~compose'.sending,
           b.purpose = "save" => ~compose'.open /\ b.bytes = wanted' /\ wanted' \in Bytes
    PROVE  BrowserTyped' /\ BrowserSound'
  <1>1. entries \in Entries /\ \A i \in DOMAIN entries : entries[i] = Up => Parent[d] # NoDir
    BY ListingType DEF DiskTyped
  <1>2. /\ browser' \in BrowserType /\ browser'.entries = entries /\ browser'.selected = 0
        /\ browser'.dir = d /\ browser'.purpose = b.purpose /\ browser'.bytes = b.bytes
    BY <1>1 DEF In, BrowserType, Entries
  <1>3. InRange(0, entries) BY <1>1, LastPlace DEF Entries
  <1>4. BrowserTyped' BY <1>2, <1>3 DEF BrowserTyped
  <1> QED BY <1>1, <1>2, <1>4 DEF BrowserSound, Attaching, Saving

\* A key pressed in the browser that keeps it open in its directory.
LEMMA BrowserMoves ==
    ASSUME BrowserTyped, BrowserSound, NEW i, InRange(i, browser.entries),
           NEW n \in Name \cup {""}, NEW f \in BOOLEAN,
           browser' = [browser EXCEPT !.selected = i, !.filename = n, !.focused = f],
           UNCHANGED <<compose, wanted>>
    PROVE  BrowserTyped' /\ BrowserSound'
  <1>1. browser.entries \in Entries BY DEF BrowserTyped, BrowserType, Entries
  <1>2. i \in Nat BY <1>1, LastPlace DEF Entries
  <1>3. /\ browser' \in BrowserType /\ browser'.entries = browser.entries /\ browser'.selected = i
        /\ browser'.dir = browser.dir /\ browser'.purpose = browser.purpose
        /\ browser'.bytes = browser.bytes
    BY <1>2 DEF BrowserTyped, BrowserType
  <1>4. BrowserTyped' BY <1>3 DEF BrowserTyped
  <1> QED BY <1>3, <1>4 DEF BrowserSound, Attaching, Saving

----------------------------------------------------------------------------
(* The attachments of the window *)

\* One attachment less: nothing else is lost, and the sum does not grow.
LEMMA Removed ==
    ASSUME NEW s \in [items : Seq(Item), selected : Nat], InRange(s.selected, s.items)
    PROVE  LET t == RemoveSelected(s)
           IN  /\ t \in [items : Seq(Item), selected : Nat]
               /\ InRange(t.selected, t.items)
               /\ RecordedSize(t.items) <= RecordedSize(s.items)
               /\ \A i \in DOMAIN t.items : \E j \in DOMAIN s.items : t.items[i] = s.items[j]
               /\ s.items = <<>> => t.items = <<>>
  <1> DEFINE items == s.items
             t     == RemoveSelected(s)
  <1>1. items \in Seq(Item) /\ s.selected \in Nat /\ Len(items) \in Nat OBVIOUS
  <1>2. CASE items = <<>>
    <2>1. t = s BY <1>2 DEF RemoveSelected
    <2>2. RecordedSize(items) <= RecordedSize(items)
      <3>1. RecordedSize(items) \in Nat BY <1>1, SizesType
      <3> QED BY <3>1
    <2> HIDE DEF t
    <2> QED BY <2>1, <2>2 DEF t
  <1>3. CASE items # <<>>
    <2> DEFINE n    == Len(items)
               i    == s.selected + 1
               left == SubSeq(items, 1, i - 1) \o SubSeq(items, i + 1, n)
               sel  == Max({0, Min({s.selected, n - 2})})
    <2>1. n # 0 BY <1>1, <1>3
    <2> HIDE DEF items
    <2>2. i \in 1..n
      <3>1. InRange(s.selected, items) BY DEF items
      <3> QED BY <1>1, <2>1, <3>1, LastPlace
    <2>3. t = [items |-> left, selected |-> sel]
      BY <1>3 DEF RemoveSelected, RemoveAt, items
    <2>4. /\ left \in Seq(Item) /\ Len(left) = n - 1
          /\ \A j \in 1..n - 1 : left[j] = IF j < i THEN items[j] ELSE items[j + 1]
      BY <1>1, <2>2, WithoutElement
    <2> HIDE DEF left, i
    <2>5. sel \in Nat /\ (sel < n - 1 \/ sel = 0)
      <3>1. Min({s.selected, n - 2}) = IF s.selected <= n - 2 THEN s.selected ELSE n - 2
        BY <1>1, MinOfTwo
      <3> DEFINE m == Min({s.selected, n - 2})
      <3>2. m \in Int /\ m <= n - 2 BY <1>1, <3>1
      <3> HIDE DEF m
      <3>3. Max({0, m}) = IF 0 >= m THEN 0 ELSE m BY <3>2, MaxOfTwo
      <3> QED BY <1>1, <3>2, <3>3 DEF m
    <2> HIDE DEF sel, n, t
    <2>6. InRange(sel, left) BY <2>4, <2>5, LastPlace
    <2>7. \A k \in DOMAIN left : \E j \in DOMAIN items : left[k] = items[j]
      <3>1. DOMAIN items = 1..n /\ DOMAIN left = 1..n - 1 BY <1>1, <2>4 DEF n
      <3>2. SUFFICES ASSUME NEW k \in 1..n - 1
                     PROVE  \E j \in 1..n : left[k] = items[j]
        BY <3>1
      <3>3. n \in Nat /\ k \in 1..n /\ k + 1 \in 1..n BY <1>1 DEF n
      <3>4. left[k] = items[k] \/ left[k] = items[k + 1] BY <2>4
      <3> QED BY <3>3, <3>4
    <2>8. RecordedSize(left) <= RecordedSize(items)
      <3> DEFINE z == Sizes(items)
                 y == Sizes(left)
      <3>1. /\ z \in Seq(Nat) /\ Len(z) = n /\ \A j \in DOMAIN items : z[j] = items[j].size
            /\ IsSum(RecordedSize(items), z) /\ RecordedSize(items) \in Nat
        BY <1>1, SizesType DEF n
      <3>2. /\ y \in Seq(Nat) /\ Len(y) = n - 1 /\ \A j \in DOMAIN left : y[j] = left[j].size
            /\ IsSum(RecordedSize(left), y) /\ RecordedSize(left) \in Nat
        BY <2>4, SizesType
      <3> HIDE DEF z, y
      <3>3. DOMAIN items = 1..n /\ DOMAIN left = 1..n - 1 BY <1>1, <2>4 DEF n
      <3>4. \A j \in 1..n - 1 : y[j] = IF j < i THEN z[j] ELSE z[j + 1]
        <4>1. SUFFICES ASSUME NEW j \in 1..n - 1
                       PROVE  y[j] = IF j < i THEN z[j] ELSE z[j + 1]
          OBVIOUS
        <4>2. n \in Nat /\ j \in 1..n /\ j + 1 \in 1..n BY <1>1 DEF n
        <4>3. y[j] = left[j].size /\ z[j] = items[j].size /\ z[j + 1] = items[j + 1].size
          BY <3>1, <3>2, <3>3, <4>2
        <4>4. left[j] = IF j < i THEN items[j] ELSE items[j + 1] BY <2>4
        <4> QED BY <4>3, <4>4
      <3>5. i \in 1..Len(z) /\ Len(y) = Len(z) - 1
            /\ \A j \in 1..Len(z) - 1 : y[j] = IF j < i THEN z[j] ELSE z[j + 1]
        BY <2>2, <3>1, <3>2, <3>4
      <3>6. PICK m \in Nat : IsSum(m, y) /\ m <= RecordedSize(items)
        BY <3>1, <3>2, <3>5, SumWithout
      <3>7. m = RecordedSize(left) BY <3>2, <3>6, SumUnique
      <3> QED BY <3>6, <3>7
    <2>9. t \in [items : Seq(Item), selected : Nat] /\ t.items = left /\ t.selected = sel
      BY <2>3, <2>4, <2>5
    <2> QED BY <1>3, <2>6, <2>7, <2>8, <2>9 DEF t, items
  <1> QED BY <1>2, <1>3

----------------------------------------------------------------------------
(* The steps *)

IInv == Typed /\ Sound

\* A list is known by the type of its elements.
LEMMA WindowType ==
    ASSUME ComposeTyped
    PROVE  /\ Items \in Seq(Item) /\ DOMAIN Items = 1..Len(Items) /\ Len(Items) \in Nat
           /\ compose.open \in BOOLEAN /\ compose.sending \in BOOLEAN
           /\ compose.attachments \in [items : Seq(Item), selected : Nat]
           /\ \A i \in DOMAIN Items : /\ Items[i].then \in Int /\ Items[i].path \in Path
                                      /\ Items[i].size \in Nat
  <1>1. /\ compose.attachments \in [items : Seq(Item), selected : Nat]
        /\ compose.open \in BOOLEAN /\ compose.sending \in BOOLEAN
    BY DEF ComposeTyped, ComposeType
  <1>2. Items \in Seq(Item) BY <1>1 DEF Items
  <1> HIDE DEF Items
  <1>3. DOMAIN Items = 1..Len(Items) /\ Len(Items) \in Nat BY <1>2
  <1>4. \A i \in DOMAIN Items : Items[i] \in Item BY <1>2
  <1> QED BY <1>1, <1>2, <1>3, <1>4, ConstantTypes DEF Item

\* Once a file has changed, nothing is claimed of what was picked before.
LEMMA ChangeStep ==
    ASSUME IInv, NEW p \in Path, NEW b \in Bytes \cup {NoFile}, Change(p, b)
    PROVE  IInv'
  <1>1. DiskTyped'
    BY ConstantTypes DEF Change, IInv, Typed, DiskTyped
  <1>2. /\ PaneTyped' /\ ComposeTyped' /\ ReadTyped'
    BY DEF Change, IInv, Typed, PaneTyped, ComposeTyped, ReadTyped
  <1>3. BrowserTyped' /\ BrowserSound'
    BY DEF Change, IInv, Typed, Sound, BrowserSound, BrowserTyped, Attaching, Saving
  <1>4. \A i \in DOMAIN Items : Items[i].then <= changes' /\ Items[i].then # changes'
    <2>1. \A i \in DOMAIN Items : Items[i].then <= changes BY DEF IInv, Sound, ComposeSound
    <2>2. \A i \in DOMAIN Items : Items[i].then \in Int BY WindowType DEF IInv, Typed
    <2>3. changes \in Int /\ changes' = changes + 1 BY ConstantTypes DEF IInv, Typed, DiskTyped, Change
    <2> QED BY <2>1, <2>2, <2>3
  <1>5. UNCHANGED <<compose, reading>> /\ Items' = Items BY DEF Change, Items
  <1>6. ComposeSound'
    BY <1>4, <1>5 DEF IInv, Sound, ComposeSound
  <1>7. ReadSound'
    <2>1. SUFFICES ASSUME compose.sending PROVE ReadSound' BY <1>5 DEF ReadSound
    <2>2. \A i \in 1..Len(reading.files) : i \in DOMAIN Items
      <3> DEFINE read == Len(reading.files)
                 rest == Len(reading.todo)
                 all  == Len(Items)
      <3>1. read \in Nat /\ rest \in Nat
        BY DEF IInv, Typed, ReadTyped, ReadType
      <3>2. read + rest = all
        BY <2>1 DEF IInv, Sound, ReadSound
      <3>3. DOMAIN Items = 1..all /\ all \in Nat BY WindowType DEF IInv, Typed
      <3> HIDE DEF read, rest, all
      <3>4. \A i \in 1..read : i \in 1..all BY <3>1, <3>2, <3>3
      <3> QED BY <3>3, <3>4 DEF read
    <2> QED BY <1>4, <1>5, <2>1, <2>2 DEF IInv, Sound, ReadSound
  <1> QED BY <1>1, <1>2, <1>3, <1>6, <1>7 DEF IInv, Typed, Sound

\* A browser that saves is open over no window, so that nothing depends on
\* what is written.
LEMMA ConfirmSaveStep ==
    ASSUME IInv, ConfirmSave
    PROVE  IInv'
  <1>1. Saving /\ ~compose.open /\ browser.bytes \in Bytes /\ ~compose.sending
        /\ Items = <<>>
    BY DEF IInv, Sound, BrowserSound, ComposeSound, ConfirmSave
  <1> DEFINE p == <<browser.dir, browser.filename>>
  <1>2. p \in Path
    <2>1. browser.dir \in Dir /\ browser.filename \in Name \cup {""} /\ browser.filename # ""
      BY DEF IInv, Typed, BrowserTyped, BrowserType, ConfirmSave
    <2> QED BY <2>1 DEF Path
  <1> HIDE DEF p
  <1>3. \/ disk' = [disk EXCEPT ![p] = browser.bytes] /\ browser' = Closed
        \/ disk' \in {disk, [disk EXCEPT ![p] = Partial]} /\ browser' = browser
    BY DEF ConfirmSave, ToSave, p
  <1>4. UNCHANGED <<changes, pane, compose, reading, wanted>> BY DEF ConfirmSave
  <1>5. DiskTyped'
    <2>1. Partial \in Bytes BY ConstantTypes
    <2>2. disk \in [Path -> Bytes \cup {NoFile}] /\ changes \in 0..MaxChanges
      BY DEF IInv, Typed, DiskTyped
    <2>3. disk' \in [Path -> Bytes \cup {NoFile}] BY <1>1, <1>2, <1>3, <2>1, <2>2
    <2> QED BY <1>4, <2>2, <2>3 DEF DiskTyped
  <1>6. PaneTyped' /\ ComposeTyped' /\ ReadTyped'
    BY <1>4 DEF IInv, Typed, PaneTyped, ComposeTyped, ReadTyped
  <1>7. BrowserTyped' /\ BrowserSound'
    <2>1. CASE browser' = Closed BY <2>1, BrowserShut
    <2>2. CASE browser' = browser
      <3>1. (Attaching => compose'.open /\ ~compose'.sending) /\ (Saving => ~compose'.open)
        BY <1>1, <1>4 DEF Attaching, Saving
      <3> QED BY <1>4, <2>2, <3>1, SameBrowser DEF IInv, Typed, Sound
    <2> QED BY <1>3, <2>1, <2>2
  <1>8. ComposeSound'
    <2>1. Items' = <<>> /\ DOMAIN Items' = {} /\ compose' = compose BY <1>1, <1>4 DEF Items
    <2> QED BY <1>1, <2>1 DEF IInv, Sound, ComposeSound
  <1>9. ReadSound' BY <1>1, <1>4 DEF ReadSound
  <1> QED BY <1>5, <1>6, <1>7, <1>8, <1>9 DEF IInv, Typed, Sound

\* The reading pane, and a browser opened from it.
LEMMA PaneSteps ==
    ASSUME IInv, \/ \E m \in Received : BodyLoaded(m)
                 \/ SelectAttachment
                 \/ Download
    PROVE  IInv'
  <1>1. Kept BY DEF BodyLoaded, SelectAttachment, Download, Kept
  <1>2. DiskTyped' /\ ReadTyped' /\ ComposeTyped' /\ ComposeSound' /\ ReadSound'
    BY <1>1, SameDisk, SameRead, SameCompose DEF IInv, Typed, Sound, Kept
  <1>3. pane \in [mail : Received \cup {<<>>}, selected : Nat] /\ InRange(pane.selected, pane.mail)
        /\ pane.mail \in Seq(Bytes \cup {Unloaded})
    <2>1. pane \in [mail : Received \cup {<<>>}, selected : Nat]
          /\ InRange(pane.selected, pane.mail)
      BY DEF IInv, Typed, PaneTyped
    <2>2. pane.mail \in Received \cup {<<>>} BY <2>1
    <2>3. <<>> \in Seq(Bytes \cup {Unloaded}) OBVIOUS
    <2>4. Received \subseteq Seq(Bytes \cup {Unloaded}) BY AttachmentsAssumption
    <2>5. pane.mail \in Seq(Bytes \cup {Unloaded}) BY <2>2, <2>3, <2>4
    <2> QED BY <2>1, <2>5
  <1>4. ASSUME NEW m \in Received, BodyLoaded(m) PROVE IInv'
    <2>1. pane' = [mail |-> m, selected |-> 0] /\ UNCHANGED <<browser, wanted>>
      BY <1>4 DEF BodyLoaded
    <2>2. m \in Seq(Bytes \cup {Unloaded}) BY AttachmentsAssumption
    <2>3. InRange(0, m) BY <2>2, LastPlace
    <2>4. PaneTyped' BY <2>1, <2>3 DEF PaneTyped
    <2>5. BrowserTyped' /\ BrowserSound'
      BY <1>1, <2>1, SameBrowser DEF Kept, IInv, Typed, Sound, BrowserSound
    <2> QED BY <1>2, <2>4, <2>5 DEF IInv, Typed, Sound
  <1>5. CASE SelectAttachment
    <2>1. PICK i \in {UpOne(pane.selected), DownOne(pane.selected, Len(pane.mail))} :
             pane' = [pane EXCEPT !.selected = i]
      BY <1>5 DEF SelectAttachment
    <2>2. InRange(i, pane.mail) BY <1>3, <2>1, UpDown
    <2>3. i \in Nat BY <1>3, <2>2, LastPlace
    <2>4. PaneTyped' BY <1>3, <2>1, <2>2, <2>3 DEF PaneTyped
    <2>5. BrowserTyped' /\ BrowserSound'
      <3>1. UNCHANGED <<browser, wanted>> BY <1>5 DEF SelectAttachment
      <3> QED BY <1>1, <3>1, SameBrowser DEF Kept, IInv, Typed, Sound, BrowserSound
    <2> QED BY <1>2, <2>4, <2>5 DEF IInv, Typed, Sound
  <1>6. CASE Download
    <2> DEFINE bytes == pane.mail[pane.selected + 1]
    <2>1. pane.selected + 1 \in 1..Len(pane.mail) /\ bytes # Unloaded /\ wanted' = bytes
          /\ pane' = pane /\ ~compose.open
      <3>1. /\ pane.selected < Len(pane.mail) /\ bytes # Unloaded /\ wanted' = bytes
            /\ pane' = pane /\ ~compose.open
        BY <1>6 DEF Download, Normal
      <3>2. pane.selected \in Nat /\ Len(pane.mail) \in Nat BY <1>3
      <3> HIDE DEF bytes
      <3> QED BY <3>1, <3>2
    <2>2. bytes \in Bytes BY <1>3, <2>1
    <2>3. PICK entries \in Listing(Home), n \in Name :
             browser' = In([Closed EXCEPT !.purpose = "save", !.bytes = bytes, !.filename = n],
                           Home, entries)
      BY <1>6 DEF Download
    <2> DEFINE b == [Closed EXCEPT !.purpose = "save", !.bytes = bytes, !.filename = n]
    <2>4. b \in BrowserType /\ b.purpose = "save" /\ b.bytes = bytes
      <3> HIDE DEF bytes
      <3>1. <<>> \in Seq({Up} \cup Dir \cup Name) OBVIOUS
      <3> QED BY <2>2, <3>1, ConstantTypes DEF Closed, BrowserType
    <2>5. browser' = In(b, Home, entries) BY <2>3
    <2> HIDE DEF b
    <2>6. BrowserTyped' /\ BrowserSound'
      BY <1>1, <2>1, <2>2, <2>4, <2>5, BrowserIn, ConstantTypes DEF Kept, IInv, Typed
    <2>7. PaneTyped' BY <2>1, SamePane DEF IInv, Typed
    <2> QED BY <1>2, <2>6, <2>7 DEF IInv, Typed, Sound
  <1> QED BY <1>4, <1>5, <1>6

LEMMA EmptyWindow ==
    ASSUME compose' \in {Shut, [Shut EXCEPT !.open = TRUE]}
    PROVE  ComposeTyped' /\ ComposeSound' /\ ReadSound'
  <1> DEFINE none == <<>>
  <1>1. none \in Seq(Item) /\ Len(none) = 0 /\ DOMAIN none = {} OBVIOUS
  <1>2. RecordedSize(none) = 0
    <2> DEFINE z == Sizes(none)
    <2>1. z \in Seq(Nat) /\ Len(z) = 0 /\ IsSum(RecordedSize(none), z) BY <1>1, SizesType
    <2> HIDE DEF z, none
    <2> QED BY <2>1 DEF IsSum, PartialSums
  <1>3. InRange(0, none) BY <1>1, LastPlace
  <1>4. compose' \in ComposeType /\ ~compose'.sending
        /\ compose'.attachments.items = none /\ compose'.attachments.selected = 0
    <2>1. /\ NoItems \in [items : Seq(Item), selected : Nat]
          /\ NoItems.items = none /\ NoItems.selected = 0
      BY <1>1 DEF NoItems
    <2> HIDE DEF none
    <2>2. \E o \in BOOLEAN :
             compose' = [open |-> o, sending |-> FALSE, attachments |-> NoItems]
      BY DEF Shut
    <2>3. /\ compose' \in ComposeType /\ ~compose'.sending /\ compose'.attachments = NoItems
      BY <2>1, <2>2 DEF ComposeType
    <2> QED BY <2>1, <2>3
  <1> HIDE DEF none
  <1>5. Items' = none BY <1>4 DEF Items
  <1>6. ComposeTyped' BY <1>3, <1>4 DEF ComposeTyped
  <1>7. ComposeSound' BY <1>1, <1>2, <1>4, <1>5, ConstantTypes, none = <<>> DEF ComposeSound, none
  <1> QED BY <1>4, <1>6, <1>7 DEF ReadSound

\* Attachments taken from those of the window, or all of them.
LEMMA FewerItems ==
    ASSUME IInv, NEW t \in [items : Seq(Item), selected : Nat], InRange(t.selected, t.items),
           RecordedSize(t.items) <= Cap,
           \A i \in DOMAIN t.items : \E j \in DOMAIN Items : t.items[i] = Items[j],
           compose.open, ~compose.sending, compose' = [compose EXCEPT !.attachments = t],
           UNCHANGED <<disk, changes>>
    PROVE  ComposeTyped' /\ ComposeSound' /\ ReadSound'
  <1>1. compose' \in ComposeType /\ compose'.attachments = t /\ compose'.open /\ ~compose'.sending
    BY DEF IInv, Typed, ComposeTyped, ComposeType
  <1>2. Items' = t.items BY <1>1 DEF Items
  <1>3. ComposeTyped' BY <1>1 DEF ComposeTyped
  <1>4. ComposeSound'
    <2>1. ASSUME NEW i \in DOMAIN t.items
          PROVE  /\ t.items[i].then <= changes
                 /\ t.items[i].then = changes =>
                      /\ disk[t.items[i].path] # NoFile
                      /\ Size[disk[t.items[i].path]] = t.items[i].size
      <3>1. PICK j \in DOMAIN Items : t.items[i] = Items[j] OBVIOUS
      <3> QED BY <3>1 DEF IInv, Sound, ComposeSound
    <2> QED BY <1>1, <1>2, <2>1 DEF ComposeSound
  <1> QED BY <1>1, <1>3, <1>4 DEF ReadSound

\* The compose window with no browser open: what is read begins with the list.
LEMMA WindowSteps ==
    ASSUME IInv, Compose \/ Discard \/ EditItems \/ Send
    PROVE  IInv'
  <1>1. NoBrowser /\ UNCHANGED <<disk, changes, pane, browser, wanted>>
    BY DEF Compose, Discard, EditItems, Send, Normal, Editing
  <1>2. DiskTyped' /\ PaneTyped' BY <1>1, SameDisk, SamePane DEF IInv, Typed
  <1>3. BrowserTyped' /\ BrowserSound'
    <2>1. ~Attaching /\ ~Saving BY <1>1 DEF NoBrowser, Attaching, Saving
    <2> QED BY <1>1, <2>1, SameBrowser DEF IInv, Typed, Sound
  <1>4. CASE Compose \/ Discard
    <2>1. compose' \in {Shut, [Shut EXCEPT !.open = TRUE]} /\ reading' = reading
      BY <1>4 DEF Compose, Discard
    <2> QED BY <1>2, <1>3, <2>1, EmptyWindow, SameRead DEF IInv, Typed, Sound
  <1>5. CASE EditItems
    <2>1. PICK t \in {RemoveSelected(compose.attachments),
                      [compose.attachments EXCEPT !.selected = UpOne(@)],
                      [compose.attachments EXCEPT !.selected = DownOne(@, Len(compose.attachments.items))]} :
             compose' = [compose EXCEPT !.attachments = t]
      BY <1>5 DEF EditItems
    <2> DEFINE s == compose.attachments
    <2>2. s \in [items : Seq(Item), selected : Nat] /\ InRange(s.selected, s.items)
          /\ s.items = Items /\ RecordedSize(Items) <= Cap
      BY WindowType DEF IInv, Typed, Sound, ComposeTyped, ComposeSound, Items
    <2>3. t = RemoveSelected(s) \/ \E i : InRange(i, s.items) /\ t = [s EXCEPT !.selected = i]
      BY <2>1, <2>2, UpDown
    <2> HIDE DEF s
    <2>4. /\ t \in [items : Seq(Item), selected : Nat] /\ InRange(t.selected, t.items)
          /\ RecordedSize(t.items) <= RecordedSize(Items) /\ RecordedSize(t.items) \in Nat
          /\ \A i \in DOMAIN t.items : \E j \in DOMAIN Items : t.items[i] = Items[j]
      <3>1. CASE t = RemoveSelected(s)
        <4>1. /\ t \in [items : Seq(Item), selected : Nat] /\ InRange(t.selected, t.items)
              /\ RecordedSize(t.items) <= RecordedSize(s.items)
              /\ \A i \in DOMAIN t.items : \E j \in DOMAIN s.items : t.items[i] = s.items[j]
          BY <2>2, <3>1, Removed
        <4>2. RecordedSize(t.items) \in Nat BY <4>1, SizesType
        <4> QED BY <2>2, <4>1, <4>2
      <3>2. ASSUME NEW i, InRange(i, s.items), t = [s EXCEPT !.selected = i]
            PROVE  <2>4
        <4>1. i \in Nat BY <2>2, <3>2, LastPlace
        <4>2. t \in [items : Seq(Item), selected : Nat] /\ t.items = Items /\ t.selected = i
          BY <2>2, <3>2, <4>1
        <4>3. RecordedSize(Items) \in Nat BY <2>2, SizesType
        <4>4. RecordedSize(Items) <= RecordedSize(Items) BY <4>3
        <4> QED BY <2>2, <3>2, <4>2, <4>3, <4>4
      <3> QED BY <2>3, <3>1, <3>2
    <2>5. RecordedSize(t.items) <= Cap
      <3>1. RecordedSize(Items) \in Nat BY SizesType, WindowType DEF IInv, Typed
      <3> QED BY <2>2, <2>4, <3>1, ConstantTypes
    <2>6. compose.open /\ ~compose.sending /\ reading' = reading
      BY <1>5 DEF EditItems, Editing
    <2>7. ComposeTyped' /\ ComposeSound' /\ ReadSound'
      BY <1>1, <2>1, <2>4, <2>5, <2>6, FewerItems
    <2> QED BY <1>2, <1>3, <2>6, <2>7, SameRead DEF IInv, Typed, Sound
  <1>6. CASE Send
    <2>1. /\ compose.open /\ compose' = [compose EXCEPT !.sending = TRUE]
          /\ reading' = [todo |-> Items, files |-> <<>>]
      BY <1>6 DEF Send, Editing, Items
    <2>2. /\ compose' \in ComposeType /\ compose'.open /\ compose'.attachments = compose.attachments
      BY <2>1 DEF IInv, Typed, ComposeTyped, ComposeType
    <2>3. Items' = Items BY <2>2 DEF Items
    <2>4. ComposeTyped' BY <2>2 DEF IInv, Typed, ComposeTyped
    <2>5. ComposeSound' BY <1>1, <2>2, <2>3 DEF IInv, Sound, ComposeSound
    <2> DEFINE none == <<>>
    <2>6. none \in Seq([path : Path, bytes : Bytes]) /\ Len(none) = 0 /\ 1..0 = {} OBVIOUS
    <2>7. Items \in Seq(Item) /\ Len(Items) \in Nat BY WindowType DEF IInv, Typed
    <2>8. reading'.todo = Items /\ reading'.files = none BY <2>1
    <2>9. ReadTyped' BY <2>1, <2>6, <2>7 DEF ReadTyped, ReadType
    <2>10. ReadSound'
      <3> HIDE DEF none
      <3>1. Len(reading'.files) = 0 BY <2>6, <2>8
      <3>2. Len(reading'.files) + Len(reading'.todo) = Len(Items') BY <2>3, <2>7, <2>8, <3>1
      <3>3. 1..Len(reading'.files) = {} BY <2>6, <3>1
      <3>4. \A i \in 1..Len(reading'.todo) : reading'.todo[i] = Items'[Len(reading'.files) + i]
        <4>1. \A i \in 1..Len(Items) : 0 + i = i BY <2>7
        <4> QED BY <2>3, <2>8, <3>1, <4>1
      <3> QED BY <3>2, <3>3, <3>4 DEF ReadSound
    <2> QED BY <1>2, <1>3, <2>4, <2>5, <2>9, <2>10 DEF IInv, Typed, Sound
  <1> QED BY <1>4, <1>5, <1>6

\* Reading a file takes the next of the list, as it is now.
LEMMA ReadFileStep ==
    ASSUME IInv, ReadFile
    PROVE  IInv'
  <1> DEFINE todo  == reading.todo
             files == reading.files
             file  == [path |-> todo[1].path, bytes |-> disk[todo[1].path]]
  <1>1. /\ compose.sending /\ todo # <<>> /\ disk[todo[1].path] # NoFile
        /\ reading' = [todo |-> Tail(todo), files |-> Append(files, file)]
        /\ UNCHANGED <<disk, changes, pane, compose, browser, wanted>>
    BY DEF ReadFile
  <1>2. todo \in Seq(Item) /\ files \in Seq([path : Path, bytes : Bytes])
    BY DEF IInv, Typed, ReadTyped, ReadType
  <1> DEFINE n == Len(files)
             m == Len(todo)
  <1>3. n \in Nat /\ m \in Nat BY <1>2
  <1> HIDE DEF todo, files
  <1>4. m # 0 BY <1>1, <1>2
  <1>5. todo[1] \in Item BY <1>2, <1>3, <1>4
  <1>6. todo[1].path \in Path BY <1>5 DEF Item
  <1>7. file \in [path : Path, bytes : Bytes]
    <2>1. disk[todo[1].path] \in Bytes BY <1>1, <1>6 DEF IInv, Typed, DiskTyped
    <2> QED BY <1>6, <2>1
  <1>8. file.path = todo[1].path /\ file.bytes = disk[todo[1].path] OBVIOUS
  <1> HIDE DEF file
  <1> DEFINE rest == Tail(todo)
             read == Append(files, file)
  <1>9. /\ rest \in Seq(Item) /\ Len(rest) = m - 1 /\ \A i \in 1..m - 1 : rest[i] = todo[i + 1]
    BY <1>2, <1>4
  <1>10. /\ read \in Seq([path : Path, bytes : Bytes]) /\ Len(read) = n + 1
         /\ read[n + 1] = file /\ \A i \in 1..n : read[i] = files[i]
    BY <1>2, <1>7
  <1> HIDE DEF rest, read, n, m
  <1>11. reading' \in ReadType /\ reading'.todo = rest /\ reading'.files = read
    BY <1>1, <1>9, <1>10 DEF ReadType, rest, read
  <1>12. ReadTyped' BY <1>11 DEF ReadTyped
  <1>13. /\ n + m = Len(Items)
         /\ \A i \in 1..n : /\ files[i].path = Items[i].path
                            /\ Items[i].then = changes => Size[files[i].bytes] = Items[i].size
         /\ \A i \in 1..m : todo[i] = Items[n + i]
    BY <1>1 DEF IInv, Sound, ReadSound, n, m, todo, files
  <1>14. todo[1] = Items[n + 1] /\ n + 1 \in DOMAIN Items
    <2>1. 1 \in 1..m BY <1>3, <1>4
    <2>2. DOMAIN Items = 1..Len(Items) BY WindowType DEF IInv, Typed
    <2> QED BY <1>3, <1>4, <1>13, <2>1, <2>2
  <1>15. /\ file.path = Items[n + 1].path
         /\ Items[n + 1].then = changes => Size[file.bytes] = Items[n + 1].size
    BY <1>8, <1>14 DEF IInv, Sound, ComposeSound
  <1>16. Items' = Items /\ changes' = changes BY <1>1 DEF Items
  <1>17. ReadSound'
    <2>1. Len(reading'.files) = n + 1 /\ Len(reading'.todo) = m - 1 BY <1>9, <1>10, <1>11
    <2>2. Len(reading'.files) + Len(reading'.todo) = Len(Items') BY <1>3, <1>13, <1>16, <2>1
    <2>3. \A i \in 1..n + 1 :
             /\ read[i].path = Items[i].path
             /\ Items[i].then = changes => Size[read[i].bytes] = Items[i].size
      <3>1. SUFFICES ASSUME NEW i \in 1..n + 1
                     PROVE  /\ read[i].path = Items[i].path
                            /\ Items[i].then = changes => Size[read[i].bytes] = Items[i].size
        OBVIOUS
      <3>2. CASE i = n + 1 BY <1>10, <1>15, <3>2
      <3>3. CASE i # n + 1
        <4>1. i \in 1..n BY <1>3, <3>3
        <4>2. read[i] = files[i] BY <1>10, <4>1
        <4> QED BY <1>13, <4>1, <4>2
      <3> QED BY <3>2, <3>3
    <2>4. \A i \in 1..m - 1 : rest[i] = Items[n + 1 + i]
      <3>1. SUFFICES ASSUME NEW i \in 1..m - 1 PROVE rest[i] = Items[n + 1 + i] OBVIOUS
      <3>2. i + 1 \in 1..m /\ n + (i + 1) = n + 1 + i BY <1>3
      <3> QED BY <1>9, <1>13, <3>2
    <2> QED BY <1>11, <1>16, <2>1, <2>2, <2>3, <2>4 DEF ReadSound
  <1>18. DiskTyped' /\ PaneTyped' BY <1>1, SameDisk, SamePane DEF IInv, Typed
  <1>19. BrowserTyped' /\ BrowserSound'
    BY <1>1, SameBrowser DEF IInv, Typed, Sound, BrowserSound
  <1>20. ComposeTyped' BY <1>1 DEF IInv, Typed, ComposeTyped
  <1>21. ComposeSound' BY <1>1, <1>16 DEF IInv, Sound, ComposeSound
  <1> QED BY <1>12, <1>17, <1>18, <1>19, <1>20, <1>21 DEF IInv, Typed, Sound

\* The answer: the window is editable again, or it is gone.
LEMMA AnswerSteps ==
    ASSUME IInv, ReadFails \/ Sent
    PROVE  IInv'
  <1>1. /\ compose.sending /\ reading' = NotReading
        /\ compose' \in {Shut, [compose EXCEPT !.sending = FALSE]}
        /\ UNCHANGED <<disk, changes, pane, browser, wanted>>
    BY DEF ReadFails, Sent
  <1>2. compose.open /\ ~Attaching /\ ~Saving
    BY <1>1 DEF IInv, Sound, ComposeSound, BrowserSound
  <1>3. DiskTyped' /\ PaneTyped' BY <1>1, SameDisk, SamePane DEF IInv, Typed
  <1>4. BrowserTyped' /\ BrowserSound' BY <1>1, <1>2, SameBrowser DEF IInv, Typed, Sound
  <1>5. ReadTyped'
    <2> DEFINE none == <<>>
    <2>1. none \in Seq(Item) /\ none \in Seq([path : Path, bytes : Bytes]) OBVIOUS
    <2>2. reading' = [todo |-> none, files |-> none] BY <1>1 DEF NotReading
    <2> HIDE DEF none
    <2> QED BY <2>1, <2>2 DEF ReadTyped, ReadType
  <1>6. ComposeTyped' /\ ComposeSound' /\ ReadSound'
    <2>1. CASE compose' = Shut BY <2>1, EmptyWindow
    <2>2. CASE compose' = [compose EXCEPT !.sending = FALSE]
      <3>1. /\ compose' \in ComposeType /\ compose'.open /\ ~compose'.sending
            /\ compose'.attachments = compose.attachments
        BY <1>2, <2>2 DEF IInv, Typed, ComposeTyped, ComposeType
      <3>2. Items' = Items BY <3>1 DEF Items
      <3>3. ComposeTyped' BY <3>1 DEF IInv, Typed, ComposeTyped
      <3>4. ComposeSound' BY <1>1, <3>1, <3>2 DEF IInv, Sound, ComposeSound
      <3> QED BY <3>1, <3>3, <3>4 DEF ReadSound
    <2> QED BY <1>1, <2>1, <2>2
  <1> QED BY <1>3, <1>4, <1>5, <1>6 DEF IInv, Typed, Sound

\* Steps that change the browser only.
LEMMA BrowserSteps ==
    ASSUME IInv, Attach \/ Cancel \/ ToggleFocus \/ MoveInList \/ Descend
                 \/ PickToReplace \/ EditFilename
    PROVE  IInv'
  <1>1. Kept /\ UNCHANGED <<disk, changes, pane, compose, reading, wanted>>
    BY DEF Attach, Cancel, ToggleFocus, MoveInList, Descend, PickToReplace, EditFilename,
           Keep, Kept
  <1>2. /\ DiskTyped' /\ PaneTyped' /\ ComposeTyped' /\ ReadTyped'
        /\ ComposeSound' /\ ReadSound'
    BY <1>1, SameDisk, SamePane, SameRead, SameCompose DEF IInv, Typed, Sound
  <1>3. SUFFICES BrowserTyped' /\ BrowserSound' BY <1>2 DEF IInv, Typed, Sound
  <1>4. /\ browser \in BrowserType /\ InRange(browser.selected, browser.entries)
        /\ browser.entries \in Entries /\ browser.filename \in Name \cup {""}
        /\ browser.focused \in BOOLEAN /\ browser.dir \in Dir
    BY DEF IInv, Typed, BrowserTyped, BrowserType, Entries
  <1>5. CASE Attach
    <2> DEFINE b == [Closed EXCEPT !.purpose = "attach"]
    <2>1. PICK entries \in Listing(Home) : browser' = In(b, Home, entries)
      BY <1>5 DEF Attach
    <2>2. b \in BrowserType /\ b.purpose = "attach"
      <3>1. <<>> \in Seq({Up} \cup Dir \cup Name) OBVIOUS
      <3> QED BY <3>1, ConstantTypes DEF Closed, BrowserType
    <2>3. compose'.open /\ ~compose'.sending BY <1>1, <1>5 DEF Attach, Editing
    <2> HIDE DEF b
    <2> QED BY <2>1, <2>2, <2>3, BrowserIn, ConstantTypes DEF IInv, Typed
  <1>6. CASE Cancel BY <1>6, BrowserShut DEF Cancel, Keep
  <1>7. ASSUME NEW i, InRange(i, browser.entries), NEW n \in Name \cup {""}, NEW f \in BOOLEAN,
               browser' = [browser EXCEPT !.selected = i, !.filename = n, !.focused = f]
        PROVE  BrowserTyped' /\ BrowserSound'
    BY <1>1, <1>7, BrowserMoves DEF IInv, Typed, Sound
  <1>8. CASE ToggleFocus
    <2>1. browser' = [browser EXCEPT !.focused = ~@] BY <1>8 DEF ToggleFocus, Keep
    <2>2. browser' = [browser EXCEPT !.selected = browser.selected, !.filename = browser.filename,
                                     !.focused = ~browser.focused]
      BY <1>4, <2>1 DEF BrowserType
    <2> QED BY <1>4, <1>7, <2>2
  <1>9. CASE MoveInList
    <2>1. PICK i \in {UpOne(browser.selected), DownOne(browser.selected, Len(browser.entries))} :
             browser' = [browser EXCEPT !.selected = i]
      BY <1>9 DEF MoveInList, Keep
    <2>2. InRange(i, browser.entries) BY <1>4, <2>1, UpDown DEF Entries
    <2>3. browser' = [browser EXCEPT !.selected = i, !.filename = browser.filename,
                                     !.focused = browser.focused]
      BY <1>4, <2>1 DEF BrowserType
    <2> QED BY <1>4, <1>7, <2>2, <2>3
  <1>10. CASE Descend
    <2> DEFINE d == IF Entry = Up THEN Parent[browser.dir] ELSE Entry
    <2>1. PICK entries \in Listing(d) : browser' = In(browser, d, entries)
      BY <1>10 DEF Descend, Keep
    <2>2. d \in Dir
      <3>1. browser.selected < Len(browser.entries) /\ Entry \in Dir \cup {Up}
        BY <1>10 DEF Descend, OnEntry
      <3>2. browser.selected + 1 \in DOMAIN browser.entries
        <4>1. browser.selected \in Nat BY <1>4 DEF BrowserType
        <4>2. Len(browser.entries) \in Nat /\ DOMAIN browser.entries = 1..Len(browser.entries)
          <5> DEFINE listed == browser.entries
          <5>1. listed \in Seq({Up} \cup Dir \cup Name) BY <1>4 DEF Entries
          <5> HIDE DEF listed
          <5>2. Len(listed) \in Nat /\ DOMAIN listed = 1..Len(listed) BY <5>1
          <5> QED BY <5>2 DEF listed
        <4> QED BY <3>1, <4>1, <4>2
      <3>3. Entry = Up => Parent[browser.dir] # NoDir
        BY <3>2 DEF IInv, Sound, BrowserSound, Entry
      <3>4. Parent[browser.dir] \in Dir \cup {NoDir} BY <1>4, ConstantTypes
      <3> QED BY <3>1, <3>3, <3>4
    <2> HIDE DEF d
    <2>3. /\ browser.purpose = "attach" => compose'.open /\ ~compose'.sending
          /\ browser.purpose = "save" => ~compose'.open /\ browser.bytes = wanted' /\ wanted' \in Bytes
      BY <1>1 DEF IInv, Sound, BrowserSound, Attaching, Saving
    <2> QED BY <1>4, <2>1, <2>2, <2>3, BrowserIn DEF IInv, Typed
  <1>11. CASE PickToReplace
    <2>1. Entry \in Name /\ browser' = [browser EXCEPT !.filename = Entry, !.focused = TRUE]
      BY <1>11 DEF PickToReplace, Keep
    <2>2. browser' = [browser EXCEPT !.selected = browser.selected, !.filename = Entry,
                                     !.focused = TRUE]
      BY <1>4, <2>1 DEF BrowserType
    <2> QED BY <1>4, <1>7, <2>1, <2>2
  <1>12. CASE EditFilename
    <2>1. PICK n \in Name \cup {""} : browser' = [browser EXCEPT !.filename = n]
      BY <1>12 DEF EditFilename, Keep
    <2>2. browser' = [browser EXCEPT !.selected = browser.selected, !.filename = n,
                                     !.focused = browser.focused]
      BY <1>4, <2>1 DEF BrowserType
    <2> QED BY <1>4, <1>7, <2>2
  <1> QED BY <1>5, <1>6, <1>8, <1>9, <1>10, <1>11, <1>12

\* A file picked is listed with its size, which fits under the cap.
LEMMA PickStep ==
    ASSUME IInv, PickToAttach
    PROVE  IInv'
  <1> DEFINE p    == <<browser.dir, Entry>>
             item == [path |-> p, size |-> Size[disk[p]], then |-> changes]
             n    == Len(Items)
             more == Append(Items, item)
             s    == [items |-> more, selected |-> n]
  <1>1. /\ Attaching /\ Entry \in Name /\ disk[p] # NoFile /\ Fits(Items, Size[disk[p]])
        /\ compose' = [compose EXCEPT !.attachments = s] /\ browser' = Closed
        /\ UNCHANGED <<disk, changes, pane, reading, wanted>>
    BY DEF PickToAttach, Items
  <1>2. p \in Path /\ disk[p] \in Bytes
    <2>1. browser.dir \in Dir BY DEF IInv, Typed, BrowserTyped, BrowserType
    <2>2. p \in Path BY <1>1, <2>1 DEF Path
    <2> QED BY <1>1, <2>2 DEF IInv, Typed, DiskTyped
  <1>3. compose.open /\ ~compose.sending BY <1>1 DEF IInv, Sound, BrowserSound
  <1>4. /\ Items \in Seq(Item) /\ n \in Nat /\ DOMAIN Items = 1..n
        /\ RecordedSize(Items) + Size[disk[p]] <= Cap
    BY <1>1, WindowType DEF IInv, Typed, Fits
  <1>5. Size[disk[p]] \in Nat BY <1>2, ConstantTypes
  <1> HIDE DEF p
  <1>6. item \in Item /\ item.path = p /\ item.size = Size[disk[p]] /\ item.then = changes
    BY <1>2, <1>5 DEF Item, IInv, Typed, DiskTyped
  <1> HIDE DEF item, n
  <1>7. /\ more \in Seq(Item) /\ Len(more) = n + 1 /\ DOMAIN more = 1..n + 1
        /\ more[n + 1] = item /\ \A i \in 1..n : more[i] = Items[i]
    BY <1>4, <1>6 DEF n
  <1>8. RecordedSize(more) <= Cap
    <2> DEFINE z == Sizes(Items)
               y == Sizes(more)
    <2>1. /\ z \in Seq(Nat) /\ Len(z) = n /\ \A i \in 1..n : z[i] = Items[i].size
          /\ IsSum(RecordedSize(Items), z) /\ RecordedSize(Items) \in Nat
      BY <1>4, SizesType DEF n
    <2> HIDE DEF more
    <2>2. /\ y \in Seq(Nat) /\ Len(y) = n + 1 /\ \A i \in 1..n + 1 : y[i] = more[i].size
          /\ IsSum(RecordedSize(more), y) /\ RecordedSize(more) \in Nat
      BY <1>7, SizesType
    <2> HIDE DEF z, y
    <2>3. y[n + 1] = Size[disk[p]] BY <1>4, <1>6, <1>7, <2>2
    <2>4. \A i \in 1..n : y[i] = z[i]
      <3>1. SUFFICES ASSUME NEW i \in 1..n PROVE y[i] = z[i] OBVIOUS
      <3>2. i \in 1..n + 1 BY <1>4
      <3>3. y[i] = more[i].size BY <2>2, <3>2
      <3>4. more[i] = Items[i] BY <1>7
      <3>5. z[i] = Items[i].size BY <2>1
      <3> QED BY <3>3, <3>4, <3>5
    <2>5. IsSum(RecordedSize(Items) + Size[disk[p]], y)
      BY <1>5, <2>1, <2>2, <2>3, <2>4, SumAppend
    <2>6. RecordedSize(more) = RecordedSize(Items) + Size[disk[p]]
      BY <2>2, <2>5, SumUnique
    <2> QED BY <1>4, <2>6
  <1> HIDE DEF more
  <1>9. InRange(n, more)
    <2>1. more \in Seq(Item) /\ n \in Nat /\ n < Len(more) BY <1>4, <1>7
    <2> QED BY <2>1, LastPlace
  <1>10. s \in [items : Seq(Item), selected : Nat] /\ s.items = more /\ s.selected = n
    BY <1>4, <1>7
  <1> HIDE DEF s
  <1>11. /\ compose' \in ComposeType /\ compose'.attachments = s
         /\ compose'.open /\ ~compose'.sending
    BY <1>1, <1>3, <1>10 DEF IInv, Typed, ComposeTyped, ComposeType
  <1>12. Items' = more BY <1>10, <1>11 DEF Items
  <1>13. ComposeTyped' BY <1>9, <1>10, <1>11 DEF ComposeTyped
  <1>14. ComposeSound'
    <2>1. ASSUME NEW i \in 1..n + 1
          PROVE  /\ more[i].then <= changes
                 /\ more[i].then = changes =>
                      /\ disk[more[i].path] # NoFile
                      /\ Size[disk[more[i].path]] = more[i].size
      <3>1. CASE i = n + 1
        <4>1. changes \in Int BY ConstantTypes DEF IInv, Typed, DiskTyped
        <4>2. changes <= changes BY <4>1
        <4> QED BY <1>1, <1>6, <1>7, <3>1, <4>2 DEF p
      <3>2. CASE i # n + 1
        <4>1. i \in 1..n BY <1>4, <3>2
        <4>2. more[i] = Items[i] /\ i \in DOMAIN Items BY <1>4, <1>7, <4>1
        <4> QED BY <4>2 DEF IInv, Sound, ComposeSound
      <3> QED BY <3>1, <3>2
    <2> QED BY <1>1, <1>7, <1>8, <1>11, <1>12, <2>1 DEF ComposeSound
  <1>15. DiskTyped' /\ PaneTyped' /\ ReadTyped'
    BY <1>1, SameDisk, SamePane, SameRead DEF IInv, Typed
  <1>16. BrowserTyped' /\ BrowserSound' BY <1>1, BrowserShut
  <1> QED BY <1>11, <1>13, <1>14, <1>15, <1>16 DEF IInv, Typed, Sound, ReadSound

----------------------------------------------------------------------------
(* The theorems *)

LEMMA InitSound ==
    ASSUME Init
    PROVE  IInv
  <1> DEFINE none == <<>>
  <1>1. /\ none \in Seq(Item) /\ none \in Seq([path : Path, bytes : Bytes])
        /\ none \in Seq(Bytes) /\ none \in Entries /\ Len(none) = 0 /\ DOMAIN none = {}
    BY DEF Entries
  <1>2. InRange(0, none) BY <1>1, LastPlace
  <1>3. RecordedSize(none) = 0
    <2> DEFINE z == Sizes(none)
    <2>1. z \in Seq(Nat) /\ Len(z) = 0 /\ IsSum(RecordedSize(none), z) BY <1>1, SizesType
    <2> HIDE DEF z, none
    <2> QED BY <2>1 DEF IsSum, PartialSums
  <1>4. DiskTyped
    BY AttachmentsAssumption, ConstantTypes DEF Init, DiskTyped
  <1>5. PaneTyped
    <2>1. pane = [mail |-> none, selected |-> 0] BY DEF Init
    <2>2. none \in Received \cup {<<>>} OBVIOUS
    <2> HIDE DEF none
    <2> QED BY <1>2, <2>1, <2>2 DEF PaneTyped
  <1>6. /\ compose \in ComposeType /\ ~compose.open /\ ~compose.sending
        /\ compose.attachments = [items |-> none, selected |-> 0]
    <2>1. compose = [open |-> FALSE, sending |-> FALSE,
                     attachments |-> [items |-> none, selected |-> 0]]
      BY DEF Init, Shut, NoItems
    <2> HIDE DEF none
    <2> QED BY <1>1, <2>1 DEF ComposeType
  <1>7. browser = Closed /\ reading = [todo |-> none, files |-> none]
    BY DEF Init, NotReading
  <1>8. none = <<>> OBVIOUS
  <1> HIDE DEF none
  <1>9. ComposeTyped /\ Items = none BY <1>2, <1>6 DEF ComposeTyped, Items
  <1>10. ComposeSound BY <1>1, <1>3, <1>6, <1>8, <1>9, ConstantTypes DEF ComposeSound
  <1>11. ReadTyped /\ ReadSound BY <1>1, <1>6, <1>7 DEF ReadTyped, ReadType, ReadSound
  <1>12. BrowserTyped /\ BrowserSound
    <2>1. /\ browser.purpose = "none" /\ browser.entries = none /\ browser.selected = 0
      BY <1>7, <1>8 DEF Closed
    <2>2. browser \in BrowserType
      BY <1>1, <1>7, <1>8, ConstantTypes DEF Closed, BrowserType, Entries
    <2> QED BY <1>1, <1>2, <2>1, <2>2 DEF BrowserTyped, BrowserSound, Attaching, Saving
  <1> QED BY <1>4, <1>5, <1>9, <1>10, <1>11, <1>12 DEF IInv, Typed, Sound

LEMMA Step ==
    ASSUME IInv, [Next]_vars
    PROVE  IInv'
  <1>1. CASE UNCHANGED vars
    <2>1. UNCHANGED <<disk, changes, pane, compose, browser, reading, wanted>>
      BY <1>1 DEF vars
    <2>2. BrowserTyped' /\ BrowserSound'
      BY <2>1, SameBrowser DEF IInv, Typed, Sound, BrowserSound
    <2> QED BY <2>1, <2>2, SameDisk, SamePane, SameRead, SameCompose DEF IInv, Typed, Sound, Kept
  <1>2. CASE Next
    <2>1. ASSUME NEW p \in Path, NEW b \in Bytes \cup {NoFile}, Change(p, b) PROVE IInv'
      BY <2>1, ChangeStep
    <2>2. CASE (\E m \in Received : BodyLoaded(m)) \/ SelectAttachment \/ Download
      BY <2>2, PaneSteps
    <2>3. CASE Compose \/ Discard \/ EditItems \/ Send BY <2>3, WindowSteps
    <2>4. CASE ReadFile BY <2>4, ReadFileStep
    <2>5. CASE ReadFails \/ Sent BY <2>5, AnswerSteps
    <2>6. CASE Attach \/ Cancel \/ ToggleFocus \/ MoveInList \/ Descend
               \/ PickToReplace \/ EditFilename
      BY <2>6, BrowserSteps
    <2>7. CASE PickToAttach BY <2>7, PickStep
    <2>8. CASE ConfirmSave BY <2>8, ConfirmSaveStep
    <2> QED BY <1>2, <2>1, <2>2, <2>3, <2>4, <2>5, <2>6, <2>7, <2>8 DEF Next
  <1> QED BY <1>1, <1>2

\* Spec keeps the invariant: the types of what is on the screen, and what the
\* browser, a send under way and the file being saved are about.
THEOREM SpecSound == Spec => []IInv
  <1>1. Init => IInv BY InitSound
  <1>2. IInv /\ [Next]_vars => IInv' BY Step
  <1> QED BY <1>1, <1>2, PTL DEF Spec

\* Every selection stays inside its list, from which remove_selected and
\* activate take an element by it without looking, for lists of any length.
THEOREM SpecTypeOK == Spec => []TypeOK
  <1>1. IInv => TypeOK
    <2>1. SUFFICES ASSUME IInv PROVE TypeOK OBVIOUS
    <2>2. disk \in [Path -> Bytes \cup {NoFile}] /\ changes \in 0..MaxChanges
      BY <2>1 DEF IInv, Typed, DiskTyped
    <2>3. pane.mail \in Received \cup {<<>>} /\ InRange(pane.selected, pane.mail)
      BY <2>1 DEF IInv, Typed, PaneTyped
    <2>4. /\ compose.attachments.items \in Seq(Item)
          /\ InRange(compose.attachments.selected, compose.attachments.items)
      BY <2>1 DEF IInv, Typed, ComposeTyped, ComposeType
    <2>5. /\ browser.purpose \in {"none", "attach", "save"} /\ browser.dir \in Dir
          /\ browser.entries \in Seq({Up} \cup Dir \cup Name)
          /\ InRange(browser.selected, browser.entries) /\ browser.filename \in Name \cup {""}
      BY <2>1 DEF IInv, Typed, BrowserTyped, BrowserType
    <2>6. reading.todo \in Seq(Item) /\ reading.files \in Seq([path : Path, bytes : Bytes])
      BY <2>1 DEF IInv, Typed, ReadTyped, ReadType
    <2> QED BY <2>2, <2>3, <2>4, <2>5, <2>6 DEF TypeOK
  <1> QED BY <1>1, SpecSound, PTL

\* A browser opened to attach a file is open over the window it was opened
\* from, and that mail is not under way: finish_attach finds its window.
THEOREM SpecAttachesToWindow == Spec => []AttachesToWindow
  <1>1. IInv => AttachesToWindow BY DEF IInv, Sound, BrowserSound, AttachesToWindow
  <1> QED BY <1>1, SpecSound, PTL

\* What confirm_save writes is what the attachment held when `a` was pressed
\* on it, whatever mails were loaded into the pane and files changed since.
THEOREM SpecSavedIsWanted == Spec => SavedIsWanted
  <1>1. ASSUME IInv, ConfirmSave, browser' = Closed
        PROVE  disk'[<<browser.dir, browser.filename>>] = wanted
    <2> DEFINE p == <<browser.dir, browser.filename>>
    <2>1. Saving /\ browser.bytes = wanted /\ browser.purpose = "save"
      BY <1>1 DEF IInv, Sound, BrowserSound, ConfirmSave, Saving
    <2>2. p \in Path
      <3>1. browser.dir \in Dir /\ browser.filename \in Name \cup {""} /\ browser.filename # ""
        BY <1>1 DEF IInv, Typed, BrowserTyped, BrowserType, ConfirmSave
      <3> QED BY <3>1 DEF Path
    <2>3. browser # Closed
      <3>1. Closed.purpose = "none" BY DEF Closed
      <3> QED BY <2>1, <3>1
    <2> HIDE DEF p
    <2>4. disk' = [disk EXCEPT ![p] = browser.bytes]
      BY <1>1, <2>3 DEF ConfirmSave, ToSave, p
    <2>5. disk'[p] = browser.bytes BY <1>1, <2>2, <2>4 DEF IInv, Typed, DiskTyped
    <2> QED BY <2>1, <2>5 DEF p
  <1>2. IInv /\ [Next]_vars =>
            [ConfirmSave /\ browser' = Closed =>
                disk'[<<browser.dir, browser.filename>>] = wanted]_vars
    BY <1>1
  <1> QED BY <1>2, SpecSound, PTL DEF Spec, SavedIsWanted

\* What send_message is given is the window's list, file by file, however
\* files came and went while they were read; and as long as none has changed
\* since it was picked, their bytes are together no more than the cap that
\* validate keeps for the sizes it was told.
THEOREM SpecSentAsListed == Spec => SentAsListed
  <1> DEFINE Good(items, files) ==
                /\ Len(files) = Len(items)
                /\ \A i \in DOMAIN items : files[i].path = items[i].path
                /\ (\A i \in DOMAIN items : items[i].then = changes) => ReadSize(files) <= Cap
  <1>1. ASSUME IInv, Sent
        PROVE  Good(Items, reading.files)
    <2> DEFINE files == reading.files
               n     == Len(Items)
    <2>1. compose.sending /\ reading.todo = <<>> BY <1>1 DEF Sent, AllRead
    <2>2. Items \in Seq(Item) /\ n \in Nat /\ DOMAIN Items = 1..n BY <1>1, WindowType DEF IInv, Typed
    <2>3. files \in Seq([path : Path, bytes : Bytes]) BY <1>1 DEF IInv, Typed, ReadTyped, ReadType
    <2>4. /\ Len(files) + Len(reading.todo) = n
          /\ \A i \in 1..Len(files) :
                /\ files[i].path = Items[i].path
                /\ Items[i].then = changes => Size[files[i].bytes] = Items[i].size
      BY <1>1, <2>1 DEF IInv, Sound, ReadSound
    <2>5. Len(reading.todo) = 0 BY <2>1
    <2> HIDE DEF files, n
    <2>6. Len(files) = n
      <3>1. Len(files) \in Nat BY <2>3
      <3> QED BY <2>2, <2>4, <2>5, <3>1
    <2>7. \A i \in DOMAIN Items : files[i].path = Items[i].path BY <2>2, <2>4, <2>6
    <2>8. ASSUME \A i \in DOMAIN Items : Items[i].then = changes
          PROVE  ReadSize(files) <= Cap
      <3> DEFINE z == Sizes(Items)
      <3>1. /\ z \in Seq(Nat) /\ Len(z) = n /\ \A i \in DOMAIN Items : z[i] = Items[i].size
            /\ IsSum(RecordedSize(Items), z)
        BY <2>2, SizesType DEF n
      <3> HIDE DEF z
      <3>2. DOMAIN files = 1..n BY <2>3, <2>6
      <3>3. \A i \in DOMAIN files : z[i] = Size[files[i].bytes]
        BY <2>2, <2>4, <2>6, <2>8, <3>1, <3>2
      <3>4. Len(z) = Len(files) BY <2>6, <3>1
      <3>5. IsSum(ReadSize(files), z) BY <2>3, <3>1, <3>3, <3>4, ReadSizeSum
      <3>6. ReadSize(files) = RecordedSize(Items) BY <3>1, <3>5, SumUnique
      <3> QED BY <1>1, <3>6 DEF IInv, Sound, ComposeSound
    <2>9. Len(files) = Len(Items) BY <2>6 DEF n
    <2> QED BY <2>7, <2>8, <2>9 DEF files
  <1>2. IInv /\ [Next]_vars =>
          [Sent =>
            LET items == compose.attachments.items IN
            /\ Len(reading.files) = Len(items)
            /\ \A i \in DOMAIN items : reading.files[i].path = items[i].path
            /\ (\A i \in DOMAIN items : items[i].then = changes) =>
                   FoldLeft(LAMBDA n, f : n + Size[f.bytes], 0, reading.files) <= Cap]_vars
    BY <1>1 DEF Items, ReadSize
  <1> QED BY <1>2, SpecSound, PTL DEF Spec, SentAsListed
=============================================================================
