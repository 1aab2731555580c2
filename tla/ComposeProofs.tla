--------------------------- MODULE ComposeProofs ----------------------------
(* Theorems of Compose, for any addresses, accounts and texts of any       *)
(* length: its types, the suggestions, sending, and that what is done to   *)
(* the lines of the body is done to the text they make up.                 *)
EXTENDS Compose, FiniteSetTheorems, SequenceTheorems, WellFoundedInduction, TLAPS

----------------------------------------------------------------------------
(* Numbers *)

\* The least of some numbers is one of them, and none is lower.
LEMMA MinOfNaturals ==
    ASSUME NEW S \in SUBSET Nat, S # {}
    PROVE  Min(S) \in S /\ \A x \in S : Min(S) <= x
<1> DEFINE R == OpToRel(<, Nat)
<1>1. \E m \in S : \A x \in S : ~ (<<x, m>> \in R)
  BY NatLessThanWellFounded, WFMin
<1>2. \A x, m \in Nat : x < m => <<x, m>> \in R
  BY DEF OpToRel
<1> HIDE DEF R
<1>3. \E m \in S : \A x \in S : m <= x
  <2>1. PICK m \in S : \A x \in S : ~ (<<x, m>> \in R) BY <1>1
  <2>2. \A x \in S : ~ (x < m) BY <1>2, <2>1
  <2>3. QED BY <2>2
<1>4. QED BY <1>3 DEF Min

\* The highest of some numbers with a bound is one of them, and none is higher.
LEMMA MaxOfNaturals ==
    ASSUME NEW S \in SUBSET Nat, S # {}, NEW n \in Nat, \A x \in S : x <= n
    PROVE  Max(S) \in S /\ \A x \in S : x <= Max(S)
<1> DEFINE bounds == {b \in Nat : \A x \in S : x <= b}
<1>1. Min(bounds) \in bounds /\ \A b \in bounds : Min(bounds) <= b
  BY MinOfNaturals
<1>2. Min(bounds) \in S
  <2>1. SUFFICES ASSUME Min(bounds) \notin S PROVE FALSE OBVIOUS
  <2>2. Min(bounds) # 0
    <3>1. PICK x \in S : TRUE OBVIOUS
    <3>2. x <= Min(bounds) /\ x # Min(bounds) BY <1>1, <2>1, <3>1
    <3>3. QED BY <1>1, <3>2
  <2>3. Min(bounds) - 1 \in bounds BY <1>1, <2>1, <2>2
  <2>4. QED BY <1>1, <2>3
<1>3. \E m \in S : \A x \in S : m >= x
  BY <1>1, <1>2
<1>4. QED BY <1>3 DEF Max

\* The highest place of some is the only one none of them is above.
LEMMA MaxIs ==
    ASSUME NEW S \in SUBSET Int, NEW m \in S, \A x \in S : x <= m
    PROVE  Max(S) = m
  <1>1. \E y \in S : \A x \in S : y >= x OBVIOUS
  <1>2. Max(S) \in S /\ \A x \in S : Max(S) >= x BY <1>1 DEF Max
  <1>3. PICK y \in S : y = Max(S) BY <1>2
  <1>4. y >= m /\ y <= m /\ y \in Int /\ m \in Int BY <1>2, <1>3
  <1>5. y = m BY <1>4
  <1> QED BY <1>3, <1>5

LEMMA MinIs ==
    ASSUME NEW S \in SUBSET Int, NEW m \in S, \A x \in S : m <= x
    PROVE  Min(S) = m
  <1>1. \E y \in S : \A x \in S : y <= x OBVIOUS
  <1>2. Min(S) \in S /\ \A x \in S : Min(S) <= x BY <1>1 DEF Min
  <1>3. PICK y \in S : y = Min(S) BY <1>2
  <1>4. y <= m /\ m <= y /\ y \in Int /\ m \in Int BY <1>2, <1>3
  <1>5. y = m BY <1>4
  <1> QED BY <1>3, <1>5

\* Of two numbers.
LEMMA MinOfTwo ==
    ASSUME NEW i \in Int, NEW j \in Int
    PROVE  Min({i, j}) = IF i <= j THEN i ELSE j
  <1>1. {i, j} \in SUBSET Int OBVIOUS
  <1>2. CASE i <= j BY <1>1, <1>2, MinIs
  <1>3. CASE ~(i <= j)
    <2>1. j <= i BY <1>3
    <2> QED BY <1>1, <1>3, <2>1, MinIs
  <1> QED BY <1>2, <1>3

LEMMA MaxOfTwo ==
    ASSUME NEW i \in Int, NEW j \in Int
    PROVE  Max({i, j}) = IF i >= j THEN i ELSE j
  <1>1. {i, j} \in SUBSET Int OBVIOUS
  <1>2. CASE i >= j BY <1>1, <1>2, MaxIs
  <1>3. CASE ~(i >= j)
    <2>1. j >= i BY <1>3
    <2> QED BY <1>1, <1>3, <2>1, MaxIs
  <1> QED BY <1>2, <1>3

----------------------------------------------------------------------------
(* Folds.  FoldLeft is a function on the sets of places of a sequence; v   *)
(* is what it computes from s when g is the last of the values f that it   *)
(* passes through.  An induction over places is over those for which a     *)
(* statement fails, of which there would be a least one.                   *)

Passes(f, g, V, base, s) ==
    /\ f \in [0..Len(s) -> V] /\ f[0] = base
    /\ \A k \in 1..Len(s) : f[k] = g[<<f[k - 1], s[k]>>]
Folds(v, g, V, base, s) == \E f : Passes(f, g, V, base, s) /\ v = f[Len(s)]

\* T is the fold of FoldLeft whose step is the function g.
FoldOf(T, g, V, base, s) ==
    /\ T \in [SUBSET DOMAIN s -> V]
    /\ \A x \in SUBSET DOMAIN s :
          T[x] = IF x = {} THEN base ELSE g[<<T[x \ {Max(x)}], s[Max(x)]>>]

\* FoldLeft's function is well defined: there is one for any step.
LEMMA FoldExists ==
    ASSUME NEW V, NEW X, NEW g \in [V \X X -> V], NEW base \in V, NEW s \in Seq(X)
    PROVE  \E T : FoldOf(T, g, V, base, s)
  <1> DEFINE Upto(T, k) ==
               /\ T \in [SUBSET (1..k) -> V]
               /\ \A x \in SUBSET (1..k) :
                    T[x] = IF x = {} THEN base ELSE g[<<T[x \ {Max(x)}], s[Max(x)]>>]
             bad == {k \in 0..Len(s) : ~ \E T : Upto(T, k)}
  <1>1. Len(s) \in Nat /\ DOMAIN s = 1..Len(s) OBVIOUS
  <1>2. bad = {}
    <2>1. SUFFICES ASSUME bad # {} PROVE FALSE OBVIOUS
    <2>2. bad \in SUBSET Nat BY <1>1
    <2> DEFINE m == Min(bad)
    <2>3. m \in bad /\ \A k \in bad : m <= k BY <2>1, <2>2, MinOfNaturals
    <2> HIDE DEF m
    <2>4. m \in 0..Len(s) /\ ~ \E T : Upto(T, m) BY <2>3
    <2>5. CASE m = 0
      <3> DEFINE T == [x \in SUBSET (1..0) |-> base]
      <3>1. 1..0 = {} OBVIOUS
      <3>2. \A x \in SUBSET (1..0) : x = {} BY <3>1
      <3>3. T \in [SUBSET (1..0) -> V] OBVIOUS
      <3>4. Upto(T, m) BY <2>5, <3>2, <3>3
      <3> QED BY <2>4, <3>4
    <2>6. CASE m # 0
      <3>1. /\ m - 1 \in 0..Len(s) /\ m - 1 < m /\ m \in Nat /\ ~(m <= m - 1)
            /\ s[m] \in X
        BY <1>1, <2>4, <2>6
      <3>2. m - 1 \notin bad
        <4> HIDE DEF bad
        <4> QED BY <2>3, <3>1
      <3>3. PICK T : Upto(T, m - 1) BY <3>1, <3>2
      <3> DEFINE U == [x \in SUBSET (1..m) |->
                        IF m \in x THEN g[<<T[x \ {m}], s[m]>>] ELSE T[x]]
      <3>4. \A x \in SUBSET (1..m) : x \ {m} \in SUBSET (1..m - 1) BY <3>1
      <3>5. U \in [SUBSET (1..m) -> V]
        <4>1. ASSUME NEW x \in SUBSET (1..m) PROVE U[x] \in V
          <5>1. T[x \ {m}] \in V BY <3>3, <3>4
          <5>2. CASE m \in x
            <6>1. <<T[x \ {m}], s[m]>> \in V \X X BY <3>1, <5>1
            <6> QED BY <5>2, <6>1
          <5>3. CASE m \notin x
            <6>1. x \ {m} = x BY <5>3
            <6> QED BY <5>1, <5>3, <6>1
          <5> QED BY <5>2, <5>3
        <4> QED BY <4>1
      <3>6. ASSUME NEW x \in SUBSET (1..m)
            PROVE  U[x] = IF x = {} THEN base ELSE g[<<U[x \ {Max(x)}], s[Max(x)]>>]
        <4>1. CASE m \in x
          <5>1. Max(x) = m
            <6>1. x \in SUBSET Int /\ \A y \in x : y <= m BY <3>1
            <6> HIDE DEF U, bad
            <6> QED BY <4>1, <6>1, MaxIs
          <5>2. x \ {m} \in SUBSET (1..m) /\ m \notin x \ {m} OBVIOUS
          <5>3. U[x \ {m}] = T[x \ {m}] BY <5>2
          <5>4. U[x] = g[<<T[x \ {m}], s[m]>>] BY <4>1
          <5> QED BY <4>1, <5>1, <5>3, <5>4
        <4>2. CASE m \notin x
          <5>1. x \in SUBSET (1..m - 1) BY <3>1, <4>2
          <5>2. U[x] = T[x] BY <4>2
          <5>3. T[x] = IF x = {} THEN base ELSE g[<<T[x \ {Max(x)}], s[Max(x)]>>]
            BY <3>3, <5>1
          <5>4. x \ {Max(x)} \in SUBSET (1..m) /\ m \notin x \ {Max(x)} BY <4>2
          <5>5. U[x \ {Max(x)}] = T[x \ {Max(x)}] BY <5>4
          <5> QED BY <5>2, <5>3, <5>5
        <4> QED BY <4>1, <4>2
      <3>7. Upto(U, m)
        <4> HIDE DEF U
        <4> QED BY <3>5, <3>6
      <3> HIDE DEF Upto, U
      <3> QED BY <2>4, <3>7
    <2> QED BY <2>5, <2>6
  <1>3. Len(s) \in 0..Len(s) BY <1>1
  <1>4. \E T : Upto(T, Len(s))
    <2> HIDE DEF Upto
    <2> QED BY <1>2, <1>3
  <1> QED BY <1>1, <1>4 DEF FoldOf

\* The same, for one place after those before it.
StepsOf(T, g, V, X, base, s) ==
    /\ T \in [SUBSET DOMAIN s -> V]
    /\ T[{}] = base
    /\ \A x \in SUBSET DOMAIN s : x # {} =>
          /\ T[x \ {Max(x)}] \in V
          /\ s[Max(x)] \in X
          /\ T[x] = g[<<T[x \ {Max(x)}], s[Max(x)]>>]

LEMMA FoldStep ==
    ASSUME NEW V, NEW X, NEW g \in [V \X X -> V], NEW base \in V, NEW s \in Seq(X)
    PROVE  \E T : StepsOf(T, g, V, X, base, s)
  <1>1. PICK T : FoldOf(T, g, V, base, s) BY FoldExists
  <1>2. DOMAIN s = 1..Len(s) /\ Len(s) \in Nat /\ \A k \in DOMAIN s : s[k] \in X OBVIOUS
  <1>3. ASSUME NEW x \in SUBSET DOMAIN s, x # {}
        PROVE  T[x \ {Max(x)}] \in V /\ s[Max(x)] \in X /\ T[x] = g[<<T[x \ {Max(x)}], s[Max(x)]>>]
    <2>1. x \in SUBSET Nat /\ \A y \in x : y <= Len(s) BY <1>2
    <2>2. Max(x) \in x BY <1>2, <1>3, <2>1, MaxOfNaturals
    <2>3. x \ {Max(x)} \in SUBSET DOMAIN s OBVIOUS
    <2> QED BY <1>1, <1>2, <1>3, <2>2, <2>3 DEF FoldOf
  <1>4. T[{}] = base
    <2>1. {} \in SUBSET DOMAIN s OBVIOUS
    <2> QED BY <1>1, <2>1 DEF FoldOf
  <1> QED BY <1>1, <1>3, <1>4 DEF FoldOf, StepsOf

\* The sets of the first places of a sequence, of which the last is the highest.
LEMMA FirstPlaces ==
    ASSUME NEW k \in Nat, k # 0
    PROVE  1..k # {} /\ Max(1..k) = k /\ (1..k) \ {k} = 1..k - 1
  <1>1. 1..k \in SUBSET Int /\ k \in 1..k /\ \A x \in 1..k : x <= k OBVIOUS
  <1>2. Max(1..k) = k BY <1>1, MaxIs
  <1>3. (1..k) \ {k} = 1..k - 1 OBVIOUS
  <1> QED BY <1>1, <1>2, <1>3

\* What satisfies FoldLeft's equations, step by step, is the fold.
LEMMA FoldValue ==
    ASSUME NEW V, NEW X, NEW g \in [V \X X -> V], NEW base \in V, NEW s \in Seq(X),
           NEW T, T[{}] = base,
           \A k \in 1..Len(s) : T[1..k - 1] \in V => T[1..k] = g[<<T[1..k - 1], s[k]>>]
    PROVE  Folds(T[DOMAIN s], g, V, base, s) /\ T[DOMAIN s] \in V
  <1> DEFINE f == [k \in 0..Len(s) |-> T[1..k]]
             bad == {k \in 0..Len(s) : f[k] \notin V}
  <1>1. Len(s) \in Nat /\ DOMAIN s = 1..Len(s) OBVIOUS
  <1>2. f[0] = base
    <2>1. 1..0 = {} /\ 0 \in 0..Len(s) BY <1>1
    <2> QED BY <2>1
  <1>3. ASSUME NEW k \in 1..Len(s), f[k - 1] \in V
        PROVE  f[k] = g[<<f[k - 1], s[k]>>] /\ f[k] \in V
    <2>1. k \in 0..Len(s) /\ k - 1 \in 0..Len(s) /\ s[k] \in X BY <1>1
    <2>2. f[k - 1] = T[1..k - 1] /\ f[k] = T[1..k] BY <2>1
    <2> HIDE DEF f
    <2>3. <<f[k - 1], s[k]>> \in V \X X BY <1>3, <2>1
    <2> QED BY <1>3, <2>2, <2>3
  <1> HIDE DEF f
  <1>4. bad = {}
    <2>1. SUFFICES ASSUME bad # {} PROVE FALSE OBVIOUS
    <2>2. bad \in SUBSET Nat BY <1>1
    <2> DEFINE m == Min(bad)
    <2>3. m \in bad /\ \A k \in bad : m <= k BY <2>1, <2>2, MinOfNaturals
    <2> HIDE DEF m
    <2>4. m # 0 BY <1>2, <2>3
    <2>5. m \in 1..Len(s) /\ m - 1 \in 0..Len(s) /\ ~(m <= m - 1) BY <1>1, <2>3, <2>4
    <2>6. f[m - 1] \in V BY <2>3, <2>5
    <2> QED BY <1>3, <2>3, <2>5, <2>6
  <1>5. \A k \in 0..Len(s) : f[k] \in V BY <1>4
  <1>6. f \in [0..Len(s) -> V]
    <2>1. f = [k \in 0..Len(s) |-> f[k]] BY DEF f
    <2> QED BY <1>5, <2>1
  <1>7. \A k \in 1..Len(s) : f[k] = g[<<f[k - 1], s[k]>>]
    <2> TAKE k \in 1..Len(s)
    <2>1. k - 1 \in 0..Len(s) BY <1>1
    <2> QED BY <1>3, <1>5, <2>1
  <1>8. Passes(f, g, V, base, s) BY <1>2, <1>6, <1>7 DEF Passes
  <1>9. f[Len(s)] = T[DOMAIN s] /\ Len(s) \in 0..Len(s) BY <1>1 DEF f
  <1> QED BY <1>5, <1>8, <1>9 DEF Folds

\* There is one such value.
LEMMA FoldUnique ==
    ASSUME NEW V, NEW X, NEW g, NEW base, NEW s \in Seq(X),
           NEW v, NEW w, Folds(v, g, V, base, s), Folds(w, g, V, base, s)
    PROVE  v = w
  <1>1. PICK f : Passes(f, g, V, base, s) /\ v = f[Len(s)] BY DEF Folds
  <1>2. PICK h : Passes(h, g, V, base, s) /\ w = h[Len(s)] BY DEF Folds
  <1> DEFINE bad == {k \in 0..Len(s) : f[k] # h[k]}
  <1>3. Len(s) \in Nat OBVIOUS
  <1>4. bad = {}
    <2>1. SUFFICES ASSUME bad # {} PROVE FALSE OBVIOUS
    <2>2. bad \in SUBSET Nat BY <1>3
    <2> DEFINE k == Min(bad)
    <2>3. k \in bad /\ \A j \in bad : k <= j BY <2>1, <2>2, MinOfNaturals
    <2> HIDE DEF k
    <2>4. k # 0 BY <1>1, <1>2, <2>3 DEF Passes
    <2>5. k \in 1..Len(s) /\ k - 1 \in 0..Len(s) /\ ~(k <= k - 1) BY <1>3, <2>3, <2>4
    <2>6. f[k - 1] = h[k - 1] BY <2>3, <2>5
    <2>7. f[k] = h[k] BY <1>1, <1>2, <2>5, <2>6 DEF Passes
    <2> QED BY <2>3, <2>7
  <1> QED BY <1>1, <1>2, <1>3, <1>4

\* One more element is one more step.
LEMMA FoldAppend ==
    ASSUME NEW V, NEW X, NEW g \in [V \X X -> V], NEW base \in V, NEW s \in Seq(X), NEW x \in X,
           NEW v, Folds(v, g, V, base, s)
    PROVE  Folds(g[<<v, x>>], g, V, base, Append(s, x))
  <1>1. PICK f : Passes(f, g, V, base, s) /\ v = f[Len(s)] BY DEF Folds
  <1> DEFINE n == Len(s)
             t == Append(s, x)
             h == [k \in 0..n + 1 |-> IF k = n + 1 THEN g[<<v, x>>] ELSE f[k]]
  <1>2. /\ n \in Nat /\ Len(t) = n + 1 /\ t[n + 1] = x
        /\ \A k \in 1..n : t[k] = s[k]
    OBVIOUS
  <1> HIDE DEF t
  <1>3. /\ f \in [0..n -> V] /\ f[0] = base
        /\ \A k \in 1..n : f[k] = g[<<f[k - 1], s[k]>>]
    BY <1>1 DEF Passes
  <1>4. v \in V /\ v = f[n] BY <1>1, <1>2, <1>3
  <1>5. g[<<v, x>>] \in V
    <2>1. <<v, x>> \in V \X X BY <1>4
    <2> QED BY <2>1
  <1>6. h \in [0..n + 1 -> V]
    <2>1. ASSUME NEW k \in 0..n + 1, k # n + 1 PROVE k \in 0..n BY <1>2, <2>1
    <2> QED BY <1>3, <1>5, <2>1
  <1>7. h[0] = base /\ h[n + 1] = g[<<v, x>>] /\ \A k \in 0..n : h[k] = f[k]
    <2>1. 0 \in 0..n /\ n + 1 \in 0..n + 1 BY <1>2
    <2>2. \A k \in 0..n : k \in 0..n + 1 /\ k # n + 1 BY <1>2
    <2> QED BY <1>3, <2>1, <2>2
  <1> HIDE DEF h
  <1>8. ASSUME NEW k \in 1..n + 1 PROVE h[k] = g[<<h[k - 1], t[k]>>]
    <2>1. CASE k = n + 1
      <3>1. k - 1 = n /\ n \in 0..n BY <1>2, <2>1
      <3> QED BY <1>2, <1>4, <1>7, <2>1, <3>1
    <2>2. CASE k # n + 1
      <3>1. k \in 1..n /\ k \in 0..n /\ k - 1 \in 0..n BY <1>2, <2>2
      <3> QED BY <1>2, <1>3, <1>7, <3>1
    <2> QED BY <2>1, <2>2
  <1>9. Passes(h, g, V, base, t) BY <1>2, <1>6, <1>7, <1>8 DEF Passes
  <1>10. h[Len(t)] = g[<<v, x>>] BY <1>2, <1>7
  <1> QED BY <1>9, <1>10 DEF Folds, t

----------------------------------------------------------------------------
(* Sequences put together.  What follows is reckoned with the laws of this *)
(* section alone: the provers are not to look into Seq, Len, \o and <<x>>, *)
(* which have names of their own here.                                     *)

Str(S) == Seq(S)
Size(s) == Len(s)
None == <<>>
One(x) == <<x>>
Cat(s, t) == s \o t

LEMMA StrType ==
    ASSUME NEW S
    PROVE  /\ None \in Str(S) /\ Size(None) = 0
           /\ \A x \in S : One(x) \in Str(S) /\ Size(One(x)) = 1 /\ One(x)[1] = x
           /\ \A s \in Str(S) : Size(s) \in Nat
           /\ \A s \in Str(S) : \A i \in 1..Size(s) : s[i] \in S
  BY DEF Str, Size, None, One

\* Sequences with the same elements are the same.
LEMMA StrEqual ==
    ASSUME NEW S, NEW s \in Str(S), NEW t \in Str(S), Size(s) = Size(t),
           \A i \in 1..Size(s) : s[i] = t[i]
    PROVE  s = t
  BY SeqEqual DEF Str, Size

LEMMA StrEmpty ==
    ASSUME NEW S, NEW s \in Str(S)
    PROVE  Size(s) = 0 <=> s = None
  BY EmptySeq DEF Str, Size, None

LEMMA CatType ==
    ASSUME NEW S, NEW s \in Str(S), NEW t \in Str(S)
    PROVE  Cat(s, t) \in Str(S) /\ Size(Cat(s, t)) = Size(s) + Size(t)
  BY ConcatProperties DEF Str, Size, Cat

LEMMA CatAssociative ==
    ASSUME NEW S, NEW s \in Str(S), NEW t \in Str(S), NEW u \in Str(S)
    PROVE  Cat(Cat(s, t), u) = Cat(s, Cat(t, u))
  BY ConcatAssociative DEF Str, Cat

LEMMA CatNone ==
    ASSUME NEW S, NEW s \in Str(S)
    PROVE  Cat(s, None) = s /\ Cat(None, s) = s
  BY ConcatEmptySeq DEF Str, Cat, None

\* What is where.
LEMMA CatAt ==
    ASSUME NEW S, NEW s \in Str(S), NEW t \in Str(S)
    PROVE  /\ \A i \in 1..Size(s) : Cat(s, t)[i] = s[i]
           /\ \A i \in Size(s) + 1..Size(s) + Size(t) : Cat(s, t)[i] = t[i - Size(s)]
           /\ \A i \in 1..Size(t) : Cat(s, t)[Size(s) + i] = t[i]
  <1>1. s \in Seq(S) /\ t \in Seq(S) /\ Len(s) \in Nat /\ Len(t) \in Nat BY DEF Str
  <1>2. \A i \in 1..Len(s) : (s \o t)[i] = s[i] BY <1>1
  <1>3. \A i \in Len(s) + 1..Len(s) + Len(t) : (s \o t)[i] = t[i - Len(s)] BY <1>1
  <1>4. \A i \in 1..Len(t) : Len(s) + i \in Len(s) + 1..Len(s) + Len(t) /\ (Len(s) + i) - Len(s) = i
    BY <1>1
  <1> QED BY <1>2, <1>3, <1>4 DEF Cat, Size

\* The first elements of a sequence, and those after them.
LEMMA Parts ==
    ASSUME NEW S, NEW s \in Str(S), NEW k \in 0..Size(s)
    PROVE  /\ SubSeq(s, 1, k) \in Str(S) /\ Size(SubSeq(s, 1, k)) = k
           /\ \A i \in 1..k : SubSeq(s, 1, k)[i] = s[i]
           /\ SubSeq(s, k + 1, Size(s)) \in Str(S)
           /\ Size(SubSeq(s, k + 1, Size(s))) = Size(s) - k
           /\ \A i \in 1..Size(s) - k : SubSeq(s, k + 1, Size(s))[i] = s[k + i]
  <1> DEFINE n == Size(s)
             p == SubSeq(s, 1, k)
             q == SubSeq(s, k + 1, n)
  <1>1. n \in Nat /\ k \in Nat /\ k <= n /\ k \in Int /\ n \in Int /\ k + 1 \in Int /\ 1 \in Int
    BY StrType
  <1>2. \A i \in 1..n : s[i] \in S BY StrType
  <1> HIDE DEF n
  <1>3. /\ p \in Seq(S) /\ Len(p) = IF 1 <= k THEN k - 1 + 1 ELSE 0
        /\ \A i \in 1..k - 1 + 1 : p[i] = s[1 + i - 1]
    <2>1. \A i \in 1..k : s[i] \in S BY <1>1, <1>2
    <2> QED BY <1>1, <2>1, SubSeqProperties
  <1>4. /\ q \in Seq(S) /\ Len(q) = IF k + 1 <= n THEN n - (k + 1) + 1 ELSE 0
        /\ \A i \in 1..n - (k + 1) + 1 : q[i] = s[k + 1 + i - 1]
    <2>1. \A i \in k + 1..n : s[i] \in S BY <1>1, <1>2
    <2> QED BY <1>1, <2>1, SubSeqProperties
  <1> HIDE DEF p, q
  <1>5. k - 1 + 1 = k /\ \A i \in 1..k : 1 + i - 1 = i BY <1>1
  <1>6. n - (k + 1) + 1 = n - k /\ \A i \in 1..n - k : k + 1 + i - 1 = k + i BY <1>1
  <1>7. p \in Str(S) /\ q \in Str(S) BY <1>3, <1>4 DEF Str
  <1>8. Len(p) = k BY <1>1, <1>3
  <1>9. Len(q) = n - k BY <1>1, <1>4
  <1>10. Size(p) = k /\ Size(q) = n - k BY <1>8, <1>9 DEF Size
  <1> QED BY <1>3, <1>4, <1>5, <1>6, <1>7, <1>10 DEF p, q, n

\* The two parts again.
LEMMA CatParts ==
    ASSUME NEW S, NEW s \in Str(S), NEW t \in Str(S)
    PROVE  /\ SubSeq(Cat(s, t), 1, Size(s)) = s
           /\ SubSeq(Cat(s, t), Size(s) + 1, Size(Cat(s, t))) = t
  <1> DEFINE u == Cat(s, t)
             n == Size(s)
             m == Size(t)
  <1>1. n \in Nat /\ m \in Nat BY StrType
  <1>2. u \in Str(S) /\ Size(u) = n + m BY CatType
  <1>3. n \in 0..Size(u) /\ Size(u) - n = m BY <1>1, <1>2
  <1>4. \A i \in 1..n : u[i] = s[i] BY CatAt
  <1>5. \A i \in 1..m : u[n + i] = t[i] BY CatAt
  <1> DEFINE p == SubSeq(u, 1, n)
             q == SubSeq(u, n + 1, Size(u))
  <1>6. /\ p \in Str(S) /\ Size(p) = n /\ \A i \in 1..n : p[i] = u[i]
        /\ q \in Str(S) /\ Size(q) = m /\ \A i \in 1..m : q[i] = u[n + i]
    <2> HIDE DEF u, n, m
    <2> QED BY <1>2, <1>3, Parts
  <1> HIDE DEF u, p, q
  <1>7. p = s BY <1>4, <1>6, StrEqual
  <1>8. q = t BY <1>5, <1>6, StrEqual
  <1> QED BY <1>7, <1>8 DEF p, q, u

\* A sequence is cut at any place.
LEMMA Cut ==
    ASSUME NEW S, NEW s \in Str(S), NEW k \in 0..Size(s)
    PROVE  \E p, q \in Str(S) : s = Cat(p, q) /\ Size(p) = k /\ Size(q) = Size(s) - k
  <1> DEFINE n == Size(s)
             p == SubSeq(s, 1, k)
             q == SubSeq(s, k + 1, n)
  <1>1. /\ p \in Str(S) /\ Size(p) = k /\ \A i \in 1..k : p[i] = s[i]
        /\ q \in Str(S) /\ Size(q) = n - k /\ \A i \in 1..n - k : q[i] = s[k + i]
    BY Parts
  <1>2. n \in Nat /\ k \in Nat /\ k <= n BY StrType
  <1> HIDE DEF p, q
  <1>3. Cat(p, q) \in Str(S) /\ Size(Cat(p, q)) = k + (n - k) BY <1>1, CatType
  <1>4. ASSUME NEW i \in 1..n PROVE s[i] = Cat(p, q)[i]
    <2>1. CASE i <= k
      <3>1. i \in 1..k BY <1>2, <2>1
      <3> QED BY <1>1, <3>1, CatAt
    <2>2. CASE ~(i <= k)
      <3>1. i - k \in 1..n - k /\ k + (i - k) = i BY <1>2, <2>2
      <3>2. Cat(p, q)[k + (i - k)] = q[i - k] BY <1>1, <3>1, CatAt
      <3> QED BY <1>1, <3>1, <3>2
    <2> QED BY <2>1, <2>2
  <1>5. k + (n - k) = n BY <1>2
  <1>6. s = Cat(p, q) BY <1>3, <1>4, <1>5, StrEqual
  <1> QED BY <1>1, <1>6

\* Its last element, and its first.
LEMMA CutEnds ==
    ASSUME NEW S, NEW s \in Str(S), s # None
    PROVE  /\ \E p \in Str(S), e \in S : s = Cat(p, One(e)) /\ Size(s) = Size(p) + 1
           /\ \E e \in S, q \in Str(S) : s = Cat(One(e), q) /\ Size(s) = Size(q) + 1
  <1> DEFINE n == Size(s)
  <1>1. n \in Nat /\ n # 0 BY StrEmpty, StrType
  <1>2. n - 1 \in 0..n /\ 1 \in 0..n /\ n - (n - 1) = 1 /\ n = (n - 1) + 1 BY <1>1
  <1>3. ASSUME NEW t \in Str(S), Size(t) = 1 PROVE \E e \in S : t = One(e)
    <2>1. 1 \in 1..Size(t) BY <1>3
    <2>2. t[1] \in S BY <2>1, StrType
    <2>3. One(t[1]) \in Str(S) /\ Size(One(t[1])) = 1 /\ One(t[1])[1] = t[1] BY <2>2, StrType
    <2>4. \A i \in 1..Size(t) : i = 1 BY <1>3
    <2>5. \A i \in 1..Size(t) : t[i] = One(t[1])[i] BY <2>3, <2>4
    <2>6. t = One(t[1]) BY <1>3, <2>3, <2>5, StrEqual
    <2> QED BY <2>2, <2>6
  <1>4. \E p \in Str(S), e \in S : s = Cat(p, One(e)) /\ n = Size(p) + 1
    <2>1. PICK p, q \in Str(S) : s = Cat(p, q) /\ Size(p) = n - 1 /\ Size(q) = n - (n - 1)
      BY <1>2, Cut
    <2> QED BY <1>2, <1>3, <2>1
  <1>5. \E e \in S, q \in Str(S) : s = Cat(One(e), q) /\ n = Size(q) + 1
    <2>1. PICK p, q \in Str(S) : s = Cat(p, q) /\ Size(p) = 1 /\ Size(q) = n - 1
      BY <1>2, Cut
    <2>2. n = Size(q) + 1 BY <1>2, <2>1
    <2> QED BY <1>3, <2>1, <2>2
  <1> QED BY <1>4, <1>5

\* What is done at the place between two parts.
LEMMA InsertBetween ==
    ASSUME NEW S, NEW s \in Str(S), NEW t \in Str(S), NEW e \in S
    PROVE  InsertAt(Cat(s, t), Size(s) + 1, e) = Cat(s, Cat(One(e), t))
  <1> DEFINE u == Cat(s, t)
             n == Size(s)
  <1>1. n \in Nat BY StrType
  <1>2. (n + 1) - 1 = n BY <1>1
  <1>3. SubSeq(u, 1, n) = s /\ SubSeq(u, n + 1, Size(u)) = t BY CatParts
  <1> HIDE DEF u, n
  <1>4. InsertAt(u, n + 1, e) = Cat(Cat(s, One(e)), t)
    BY <1>2, <1>3 DEF InsertAt, Cat, One, Size
  <1>5. One(e) \in Str(S) BY StrType
  <1> QED BY <1>4, <1>5, CatAssociative DEF u, n

\* An element between two parts is taken out, or replaced.
LEMMA RemoveBetween ==
    ASSUME NEW S, NEW s \in Str(S), NEW t \in Str(S), NEW e \in S
    PROVE  RemoveAt(Cat(s, Cat(One(e), t)), Size(s) + 1) = Cat(s, t)
  <1> DEFINE n == Size(s)
             r == Cat(One(e), t)
             v == Cat(s, One(e))
             u == Cat(s, r)
  <1>1. n \in Nat BY StrType
  <1>2. (n + 1) - 1 = n BY <1>1
  <1>3. One(e) \in Str(S) /\ Size(One(e)) = 1 BY StrType
  <1>4. r \in Str(S) /\ v \in Str(S) /\ Size(v) = n + 1 BY <1>3, CatType
  <1>5. u = Cat(v, t) BY <1>3, CatAssociative
  <1> HIDE DEF r, v
  <1>6. SubSeq(u, 1, n) = s BY <1>4, CatParts
  <1>7. SubSeq(u, (n + 1) + 1, Size(u)) = t BY <1>4, <1>5, CatParts
  <1> HIDE DEF u, n
  <1>8. RemoveAt(u, n + 1) = Cat(s, t)
    BY <1>2, <1>6, <1>7 DEF RemoveAt, Cat, Size
  <1> QED BY <1>8 DEF u, r, n

LEMMA ChangeBetween ==
    ASSUME NEW S, NEW s \in Str(S), NEW t \in Str(S), NEW e \in S, NEW f \in S
    PROVE  /\ Cat(s, Cat(One(e), t))[Size(s) + 1] = e
           /\ Size(s) + 1 \in 1..Size(Cat(s, Cat(One(e), t)))
           /\ [Cat(s, Cat(One(e), t)) EXCEPT ![Size(s) + 1] = f] = Cat(s, Cat(One(f), t))
  <1> DEFINE n == Size(s)
             m == Size(t)
             U(x) == Cat(s, Cat(One(x), t))
  <1>1. n \in Nat /\ m \in Nat BY StrType
  <1>2. ASSUME NEW x \in S
        PROVE  /\ U(x) \in Str(S) /\ Size(U(x)) = n + (1 + m) /\ U(x)[n + 1] = x
               /\ \A i \in 1..n : U(x)[i] = s[i]
               /\ \A i \in 1..m : U(x)[n + (1 + i)] = t[i]
    <2> DEFINE v == Cat(One(x), t)
    <2>1. One(x) \in Str(S) /\ Size(One(x)) = 1 /\ One(x)[1] = x BY StrType
    <2>2. v \in Str(S) /\ Size(v) = 1 + m BY <2>1, CatType
    <2>3. v[1] = x
      <3>1. 1 \in 1..Size(One(x)) BY <2>1
      <3> QED BY <2>1, <3>1, CatAt
    <2>4. \A i \in 1..m : v[1 + i] = t[i] BY <2>1, CatAt
    <2> HIDE DEF v
    <2>5. Cat(s, v) \in Str(S) /\ Size(Cat(s, v)) = n + (1 + m) BY <2>2, CatType
    <2>6. \A i \in 1..n : Cat(s, v)[i] = s[i] BY <2>2, CatAt
    <2>7. \A i \in 1..1 + m : Cat(s, v)[n + i] = v[i] BY <2>2, CatAt
    <2>8. 1 \in 1..1 + m /\ \A i \in 1..m : 1 + i \in 1..1 + m BY <1>1
    <2>9. Cat(s, v)[n + 1] = x BY <2>3, <2>7, <2>8
    <2>10. \A i \in 1..m : Cat(s, v)[n + (1 + i)] = t[i] BY <2>4, <2>7, <2>8
    <2> QED BY <2>5, <2>6, <2>9, <2>10 DEF v
  <1> HIDE DEF U
  <1>3. n + 1 \in 1..Size(U(e)) BY <1>1, <1>2
  <1> DEFINE V == [U(e) EXCEPT ![n + 1] = f]
  <1>4. /\ V \in Str(S) /\ Size(V) = Size(U(e))
        /\ \A i \in 1..Size(U(e)) : V[i] = IF i = n + 1 THEN f ELSE U(e)[i]
    <2> HIDE DEF n
    <2>1. U(e) \in Seq(S) /\ n + 1 \in 1..Len(U(e)) BY <1>2, <1>3 DEF Str, Size
    <2> QED BY <2>1, ExceptSeq DEF Str, Size
  <1> HIDE DEF V
  <1>5. ASSUME NEW i \in 1..n + (1 + m) PROVE V[i] = U(f)[i]
    <2>1. i \in 1..n \/ i = n + 1 \/ (i - (n + 1) \in 1..m /\ i = n + (1 + (i - (n + 1)))) BY <1>1
    <2>2. i # n + 1 => V[i] = U(e)[i] BY <1>2, <1>4
    <2>3. CASE i \in 1..n
      <3>1. i # n + 1 BY <1>1, <2>3
      <3> QED BY <1>2, <2>2, <2>3, <3>1
    <2>4. CASE i = n + 1 BY <1>2, <1>3, <1>4, <2>4
    <2>5. CASE i - (n + 1) \in 1..m /\ i = n + (1 + (i - (n + 1)))
      <3>1. i # n + 1 BY <1>1, <2>5
      <3>2. U(e)[i] = t[i - (n + 1)] /\ U(f)[i] = t[i - (n + 1)] BY <1>2, <2>5
      <3> QED BY <2>2, <3>1, <3>2
    <2> QED BY <2>1, <2>3, <2>4, <2>5
  <1>6. V = U(f) BY <1>2, <1>4, <1>5, StrEqual
  <1> QED BY <1>2, <1>3, <1>6 DEF U, V

----------------------------------------------------------------------------
(* The text of the body *)

Mark == Char \cup {NL}
JoinStep == [p \in Seq(Mark) \X Seq(Char) |-> p[1] \o <<NL>> \o p[2]]

\* JoinLines, down to the function its fold computes it with.
LEMMA JoinLinesFold ==
    ASSUME NEW ls
    PROVE  Area!JoinLines(ls) =
             (CHOOSE T : T = [x \in SUBSET DOMAIN Tail(ls) |->
                 IF x = {} THEN Head(ls)
                 ELSE T[x \ {Max(x)}] \o <<NL>> \o Tail(ls)[Max(x)]])[DOMAIN Tail(ls)]
  BY DEF Area!JoinLines, Area!FoldLeft, Area!MapThenFoldSet, Area!Max, Max

\* The lines joined are passed through one by one.
LEMMA JoinLinesFolds ==
    ASSUME NEW ls \in Seq(Seq(Char)), ls # <<>>
    PROVE  /\ Folds(Area!JoinLines(ls), JoinStep, Seq(Mark), Head(ls), Tail(ls))
           /\ Area!JoinLines(ls) \in Seq(Mark)
  <1> DEFINE s == Tail(ls)
             base == Head(ls)
             V == Seq(Mark)
             X == Seq(Char)
             g == JoinStep
             E(T) == [x \in SUBSET DOMAIN s |->
                       IF x = {} THEN base ELSE T[x \ {Max(x)}] \o <<NL>> \o s[Max(x)]]
  <1>1. s \in Seq(X) /\ base \in X BY HeadTailProperties
  <1>2. base \in V /\ \A c \in X : c \in V BY <1>1 DEF Mark
  <1>3. Area!JoinLines(ls) = (CHOOSE T : T = E(T))[DOMAIN s] BY JoinLinesFold
  <1> HIDE DEF s, base
  <1>4. ASSUME NEW t \in V, NEW l \in X
        PROVE  g[<<t, l>>] = t \o <<NL>> \o l /\ t \o <<NL>> \o l \in V
    <2>1. <<t, l>> \in V \X X OBVIOUS
    <2>2. l \in V BY <1>2
    <2>3. <<NL>> \in V BY DEF Mark
    <2> QED BY <2>1, <2>2, <2>3 DEF JoinStep
  <1>5. g \in [V \X X -> V]
    <2>1. \A p \in V \X X : p[1] \in V /\ p[2] \in X /\ p = <<p[1], p[2]>> OBVIOUS
    <2>2. \A p \in V \X X : p[1] \o <<NL>> \o p[2] \in V BY <1>4, <2>1
    <2> QED BY <2>2 DEF JoinStep
  <1> HIDE DEF V, X, g
  <1>6. PICK T : FoldOf(T, g, V, base, s)
    <2> HIDE DEF E
    <2> QED BY <1>1, <1>2, <1>5, FoldExists
  <1>7. DOMAIN s = 1..Len(s) /\ Len(s) \in Nat /\ \A k \in DOMAIN s : s[k] \in X BY <1>1
  <1>8. \A x \in SUBSET DOMAIN s : x # {} => Max(x) \in x
    <2> TAKE x \in SUBSET DOMAIN s
    <2>1. x \in SUBSET Nat /\ \A y \in x : y <= Len(s) BY <1>7
    <2> QED BY <1>7, <2>1, MaxOfNaturals
  <1>9. T = E(T)
    <2>1. ASSUME NEW x \in SUBSET DOMAIN s
          PROVE  T[x] = IF x = {} THEN base ELSE T[x \ {Max(x)}] \o <<NL>> \o s[Max(x)]
      <3>1. CASE x = {} BY <1>6, <3>1 DEF FoldOf
      <3>2. CASE x # {}
        <4>1. T[x \ {Max(x)}] \in V /\ s[Max(x)] \in X BY <1>6, <1>7, <1>8, <3>2 DEF FoldOf
        <4> QED BY <1>4, <1>6, <3>2, <4>1 DEF FoldOf
      <3> QED BY <3>1, <3>2
    <2> QED BY <1>6, <2>1 DEF FoldOf
  <1> DEFINE U == CHOOSE U : U = E(U)
  <1>10. U = E(U) BY <1>9
  <1> HIDE DEF U
  <1>11. U[{}] = base BY <1>10
  <1>12. ASSUME NEW k \in 1..Len(s), U[1..k - 1] \in V
         PROVE  U[1..k] = g[<<U[1..k - 1], s[k]>>]
    <2>1. k \in Nat /\ k # 0 /\ 1..k \in SUBSET DOMAIN s /\ s[k] \in X BY <1>7
    <2>2. 1..k # {} /\ Max(1..k) = k /\ (1..k) \ {k} = 1..k - 1 BY <2>1, FirstPlaces
    <2>3. U[1..k] = U[(1..k) \ {Max(1..k)}] \o <<NL>> \o s[Max(1..k)]
      BY <1>10, <2>1, <2>2
    <2>4. U[1..k] = U[1..k - 1] \o <<NL>> \o s[k] BY <2>2, <2>3
    <2> QED BY <1>4, <1>12, <2>1, <2>4
  <1>13. Folds(U[DOMAIN s], g, V, base, s) /\ U[DOMAIN s] \in V
    BY <1>1, <1>2, <1>5, <1>11, <1>12, FoldValue
  <1>14. Area!JoinLines(ls) = U[DOMAIN s] BY <1>3 DEF U
  <1> QED BY <1>13, <1>14 DEF s, base, V, g

----------------------------------------------------------------------------
(* The text that lines make up *)

J(ls) == Area!JoinLines(ls)
Lines == Seq(Seq(Char))
Strs == Str(Char)
Marks == Str(Mark)
Lists == Str(Strs)

LEMMA Sorts ==
    /\ \A s \in Strs : s \in Marks
    /\ \A c \in Char : c \in Mark
    /\ NL \in Mark
    /\ \A s \in Strs : One(s) \in Lists /\ Size(One(s)) = 1
    /\ None \in Strs /\ None \in Lists /\ None \in Marks
  BY DEF Mark, Strs, Marks, Lists, Str, One, None, Size

LEMMA Texts ==
    /\ \A s \in Seq(Char) : s \in Seq(Mark)
    /\ NL \in Mark /\ <<NL>> \in Seq(Mark)
  BY DEF Mark

LEMMA JoinType ==
    ASSUME NEW ls \in Lists, ls # None
    PROVE  J(ls) \in Marks
  BY JoinLinesFolds DEF J, Lists, Strs, Marks, Str, None

\* A single line is its text.
LEMMA JoinOne ==
    ASSUME NEW l \in Strs
    PROVE  J(One(l)) = l
  <1>1. /\ <<l>> \in Seq(Seq(Char)) /\ <<l>> # <<>>
        /\ Head(<<l>>) = l /\ Tail(<<l>>) = <<>> /\ Len(<<>>) = 0
    BY DEF Strs, Str
  <1>2. Folds(J(<<l>>), JoinStep, Seq(Mark), l, <<>>) BY <1>1, JoinLinesFolds DEF J
  <1> QED BY <1>1, <1>2 DEF Folds, Passes, One

\* One more line is one more line break, and the line.
LEMMA JoinAppend ==
    ASSUME NEW ls \in Lines, ls # <<>>, NEW l \in Seq(Char)
    PROVE  J(Append(ls, l)) = J(ls) \o <<NL>> \o l
  <1> DEFINE t == Append(ls, l)
             s == Tail(ls)
             base == Head(ls)
             V == Seq(Mark)
             X == Seq(Char)
             g == JoinStep
  <1>1. /\ ls \in Seq(X) /\ t \in Seq(X) /\ t # <<>> /\ s \in Seq(X) /\ base \in X
        /\ Head(t) = base /\ Tail(t) = Append(s, l)
    <2>1. ls \in Seq(X) /\ l \in X BY DEF Lines
    <2> HIDE DEF X
    <2> QED BY <2>1, HeadTailProperties, HeadTailAppend, AppendProperties
  <1>2. Folds(J(ls), g, V, base, s) /\ J(ls) \in V BY <1>1, JoinLinesFolds DEF J
  <1>3. Folds(J(t), g, V, base, Append(s, l))
    <2>1. Folds(J(t), JoinStep, Seq(Mark), Head(t), Tail(t)) BY <1>1, JoinLinesFolds DEF J
    <2> QED BY <1>1, <2>1
  <1>4. ASSUME NEW u \in V, NEW c \in X
        PROVE  g[<<u, c>>] = u \o <<NL>> \o c /\ u \o <<NL>> \o c \in V
    <2>1. <<u, c>> \in V \X X OBVIOUS
    <2>2. c \in V /\ <<NL>> \in V BY Texts
    <2> QED BY <2>1, <2>2 DEF JoinStep
  <1>5. g \in [V \X X -> V]
    <2>1. \A p \in V \X X : p[1] \in V /\ p[2] \in X OBVIOUS
    <2>2. \A p \in V \X X : p[1] \o <<NL>> \o p[2] \in V BY <1>4, <2>1
    <2> QED BY <2>2 DEF JoinStep
  <1>6. base \in V BY <1>1, Texts
  <1>7. l \in X OBVIOUS
  <1> HIDE DEF V, X, g, s, base, t
  <1>8. Folds(g[<<J(ls), l>>], g, V, base, Append(s, l))
    BY <1>1, <1>2, <1>5, <1>6, <1>7, FoldAppend
  <1>9. Append(s, l) \in Seq(X) BY <1>1, <1>7
  <1> DEFINE ts == Append(s, l)
             v  == g[<<J(ls), l>>]
             w  == J(t)
  <1>10. ts \in Seq(X) /\ Folds(v, g, V, base, ts) /\ Folds(w, g, V, base, ts) BY <1>3, <1>8, <1>9
  <1> HIDE DEF ts, v, w
  <1>11. v = w BY <1>10, FoldUnique
  <1> QED BY <1>2, <1>4, <1>7, <1>11 DEF t, v, w

\* The same, with the laws of Cat.
LEMMA JoinMore ==
    ASSUME NEW ls \in Lists, ls # None, NEW l \in Strs
    PROVE  J(Cat(ls, One(l))) = Cat(J(ls), Cat(One(NL), l))
  <1>1. ls \in Lines /\ ls # <<>> /\ l \in Seq(Char) BY DEF Lists, Strs, Str, None, Lines
  <1>2. J(ls \o <<l>>) = J(ls) \o <<NL>> \o l
    <2>1. Append(ls, l) = ls \o <<l>> BY <1>1, AppendIsConcat DEF Lines
    <2>2. J(Append(ls, l)) = J(ls) \o <<NL>> \o l BY <1>1, JoinAppend
    <2> QED BY <2>1, <2>2
  <1>3. J(Cat(ls, One(l))) = Cat(Cat(J(ls), One(NL)), l) BY <1>2 DEF Cat, One
  <1>4. J(ls) \in Marks /\ One(NL) \in Marks /\ l \in Marks
    BY JoinType, Sorts, StrType DEF Marks
  <1> QED BY <1>3, <1>4, CatAssociative DEF Marks

\* Two texts are joined by a line break.
LEMMA JoinCat ==
    ASSUME NEW a \in Lists, a # None, NEW b \in Lists, b # None
    PROVE  J(Cat(a, b)) = Cat(J(a), Cat(One(NL), J(b)))
  <1> DEFINE Right(c) == J(Cat(a, c)) = Cat(J(a), Cat(One(NL), J(c)))
             bad == {Size(c) : c \in {d \in Lists : d # None /\ ~Right(d)}}
  <1>1. J(a) \in Marks /\ One(NL) \in Marks BY JoinType, Sorts, StrType DEF Marks
  <1>2. bad = {}
    <2>1. SUFFICES ASSUME bad # {} PROVE FALSE OBVIOUS
    <2>2. bad \in SUBSET Nat BY StrType DEF Lists
    <2> DEFINE n == Min(bad)
    <2>3. n \in bad /\ \A k \in bad : n <= k BY <2>1, <2>2, MinOfNaturals
    <2> HIDE DEF n
    <2>4. PICK c \in Lists : c # None /\ ~Right(c) /\ Size(c) = n BY <2>3
    <2>5. PICK p \in Lists, l \in Strs : c = Cat(p, One(l)) /\ n = Size(p) + 1
      BY <2>4, CutEnds DEF Lists
    <2> HIDE DEF bad
    <2>6. l \in Marks /\ One(l) \in Lists BY Sorts
    <2>7. CASE p = None
      <3>1. c = One(l) BY <2>5, <2>6, <2>7, CatNone DEF Lists
      <3>2. J(Cat(a, c)) = Cat(J(a), Cat(One(NL), l)) BY <3>1, JoinMore
      <3> QED BY <2>4, <3>1, <3>2, JoinOne
    <2>8. CASE p # None
      <3>1. Right(p)
        <4>1. Size(p) \in Nat /\ ~(n <= Size(p)) BY <2>5, StrType DEF Lists
        <4>2. SUFFICES ASSUME ~Right(p) PROVE FALSE OBVIOUS
        <4>3. Size(p) \in bad BY <2>8, <4>2 DEF bad
        <4> QED BY <2>3, <4>1, <4>3
      <3>2. Cat(a, p) \in Lists /\ Cat(a, p) # None
        <4>1. Cat(a, p) \in Lists /\ Size(Cat(a, p)) = Size(a) + Size(p) BY CatType DEF Lists
        <4>2. Size(a) \in Nat /\ Size(p) \in Nat /\ Size(a) # 0 BY StrType, StrEmpty DEF Lists
        <4>3. Size(Cat(a, p)) # 0 BY <4>1, <4>2
        <4> QED BY <4>1, <4>3, StrEmpty DEF Lists
      <3>3. Cat(a, c) = Cat(Cat(a, p), One(l)) BY <2>5, <2>6, CatAssociative DEF Lists
      <3>4. J(Cat(a, c)) = Cat(J(Cat(a, p)), Cat(One(NL), l)) BY <3>2, <3>3, JoinMore
      <3>5. J(c) = Cat(J(p), Cat(One(NL), l)) BY <2>5, <2>8, JoinMore
      <3>6. J(p) \in Marks BY <2>8, JoinType
      <3> DEFINE e == One(NL)
                 q == Cat(e, l)
                 r == Cat(e, J(p))
      <3>7. q \in Marks /\ r \in Marks BY <1>1, <2>6, <3>6, CatType DEF Marks
      <3>8. Cat(Cat(J(a), r), q) = Cat(J(a), Cat(r, q)) BY <1>1, <3>7, CatAssociative DEF Marks
      <3>9. Cat(r, q) = Cat(e, Cat(J(p), q)) BY <1>1, <3>6, <3>7, CatAssociative DEF Marks
      <3> QED BY <2>4, <3>1, <3>4, <3>5, <3>8, <3>9
    <2> QED BY <2>7, <2>8
  <1>3. Size(b) \notin bad BY <1>2
  <1> QED BY <1>3

\* What comes before a line, and what comes after it.
Start(A) == J(Cat(A, One(None)))
Rest(B)  == J(Cat(One(None), B))

\* The text of the lines above, and of those below.
LEMMA StartRest ==
    /\ Start(None) = None /\ Rest(None) = None
    /\ \A A \in Lists : Start(A) \in Marks /\ Rest(A) \in Marks
    /\ \A A \in Lists : A # None => Start(A) = Cat(J(A), One(NL))
    /\ \A B \in Lists : B # None => Rest(B) = Cat(One(NL), J(B))
  <1>1. None \in Strs /\ None \in Marks /\ One(None) \in Lists /\ None \in Lists /\ One(NL) \in Marks
        /\ Size(One(None)) = 1
    BY Sorts, StrType DEF Marks
  <1>2. Start(None) = None /\ Rest(None) = None
    BY <1>1, CatNone, JoinOne DEF Start, Rest, Lists
  <1>3. One(None) # None BY <1>1, StrType
  <1>4. ASSUME NEW A \in Lists, A # None PROVE Start(A) = Cat(J(A), One(NL)) /\ Start(A) \in Marks
    <2>1. Start(A) = Cat(J(A), Cat(One(NL), None)) BY <1>1, <1>4, JoinMore DEF Start
    <2>2. Start(A) = Cat(J(A), One(NL)) BY <1>1, <2>1, CatNone DEF Marks
    <2> QED BY <1>1, <1>4, <2>2, JoinType, CatType DEF Marks
  <1>5. ASSUME NEW B \in Lists, B # None PROVE Rest(B) = Cat(One(NL), J(B)) /\ Rest(B) \in Marks
    <2>1. Rest(B) = Cat(J(One(None)), Cat(One(NL), J(B))) BY <1>1, <1>3, <1>5, JoinCat DEF Rest
    <2>2. J(One(None)) = None BY <1>1, JoinOne
    <2>3. J(B) \in Marks BY <1>5, JoinType
    <2>4. Cat(One(NL), J(B)) \in Marks BY <1>1, <2>3, CatType DEF Marks
    <2> QED BY <2>1, <2>2, <2>4, CatNone DEF Marks
  <1> QED BY <1>1, <1>2, <1>4, <1>5

\* The text of lines is that of one of them between what is before and after it.
LEMMA JoinAround ==
    ASSUME NEW A \in Lists, NEW l \in Strs, NEW B \in Lists
    PROVE  /\ J(Cat(A, One(l))) = Cat(Start(A), l)
           /\ J(Cat(A, Cat(One(l), B))) = Cat(Start(A), Cat(l, Rest(B)))
  <1>1. l \in Marks /\ One(l) \in Lists /\ Size(One(l)) = 1 /\ One(NL) \in Marks
    BY Sorts, StrType DEF Marks
  <1>2. Start(A) \in Marks /\ Rest(B) \in Marks BY StartRest
  <1>3. J(Cat(A, One(l))) = Cat(Start(A), l)
    <2>1. CASE A = None
      <3>1. Cat(A, One(l)) = One(l) /\ Start(A) = None BY <1>1, <2>1, CatNone, StartRest DEF Lists
      <3> QED BY <1>1, <3>1, JoinOne, CatNone DEF Marks
    <2>2. CASE A # None
      <3>1. J(A) \in Marks /\ Start(A) = Cat(J(A), One(NL)) BY <2>2, JoinType, StartRest
      <3>2. J(Cat(A, One(l))) = Cat(J(A), Cat(One(NL), l)) BY <2>2, JoinMore
      <3> QED BY <1>1, <3>1, <3>2, CatAssociative DEF Marks
    <2> QED BY <2>1, <2>2
  <1>4. J(Cat(A, Cat(One(l), B))) = Cat(Cat(Start(A), l), Rest(B))
    <2>1. CASE B = None
      <3>1. Cat(One(l), B) = One(l) /\ Rest(B) = None BY <1>1, <2>1, CatNone, StartRest DEF Lists
      <3>2. Cat(Start(A), l) \in Marks BY <1>1, <1>2, CatType DEF Marks
      <3> QED BY <1>3, <3>1, <3>2, CatNone DEF Marks
    <2>2. CASE B # None
      <3> DEFINE D == Cat(A, One(l))
      <3>1. D \in Lists /\ Size(D) = Size(A) + 1 BY <1>1, CatType DEF Lists
      <3>2. D # None
        <4>1. Size(A) \in Nat BY StrType DEF Lists
        <4>2. Size(D) # 0 BY <3>1, <4>1
        <4> QED BY <3>1, <4>2, StrEmpty DEF Lists
      <3>3. Cat(A, Cat(One(l), B)) = Cat(D, B) BY <1>1, CatAssociative DEF Lists
      <3>4. J(Cat(D, B)) = Cat(J(D), Cat(One(NL), J(B))) BY <2>2, <3>1, <3>2, JoinCat
      <3>5. Rest(B) = Cat(One(NL), J(B)) BY <2>2, StartRest
      <3> QED BY <1>3, <3>3, <3>4, <3>5
    <2> QED BY <2>1, <2>2
  <1>5. Cat(Cat(Start(A), l), Rest(B)) = Cat(Start(A), Cat(l, Rest(B)))
    BY <1>1, <1>2, CatAssociative DEF Marks
  <1> QED BY <1>3, <1>4, <1>5

\* One line further down.
LEMMA NextLine ==
    ASSUME NEW A \in Lists, NEW l \in Strs
    PROVE  /\ Start(Cat(A, One(l))) = Cat(Start(A), Cat(l, One(NL)))
           /\ Rest(Cat(One(l), A)) = Cat(One(NL), Cat(l, Rest(A)))
  <1>1. /\ l \in Marks /\ One(l) \in Lists /\ Size(One(l)) = 1 /\ One(NL) \in Marks
        /\ None \in Lists /\ None \in Marks
    BY Sorts, StrType DEF Marks
  <1>2. Start(A) \in Marks /\ Rest(A) \in Marks BY StartRest
  <1>3. /\ Cat(A, One(l)) \in Lists /\ Cat(One(l), A) \in Lists
        /\ Cat(A, One(l)) # None /\ Cat(One(l), A) # None
    <2>1. /\ Cat(A, One(l)) \in Lists /\ Size(Cat(A, One(l))) = Size(A) + 1
          /\ Cat(One(l), A) \in Lists /\ Size(Cat(One(l), A)) = 1 + Size(A)
      BY <1>1, CatType DEF Lists
    <2>2. Size(A) \in Nat BY StrType DEF Lists
    <2>3. Size(Cat(A, One(l))) # 0 /\ Size(Cat(One(l), A)) # 0 BY <2>1, <2>2
    <2> QED BY <2>1, <2>3, StrEmpty DEF Lists
  <1>4. Start(Cat(A, One(l))) = Cat(Cat(Start(A), l), One(NL))
    BY <1>3, StartRest, JoinAround, <1>1
  <1>5. Rest(Cat(One(l), A)) = Cat(One(NL), Cat(l, Rest(A)))
    <2>1. Rest(Cat(One(l), A)) = Cat(One(NL), J(Cat(One(l), A))) BY <1>3, StartRest
    <2>2. J(Cat(None, Cat(One(l), A))) = Cat(Start(None), Cat(l, Rest(A))) BY <1>1, JoinAround
    <2>3. Cat(None, Cat(One(l), A)) = Cat(One(l), A) BY <1>3, CatNone DEF Lists
    <2>4. Cat(l, Rest(A)) \in Marks BY <1>1, <1>2, CatType DEF Marks
    <2>5. Cat(Start(None), Cat(l, Rest(A))) = Cat(l, Rest(A)) BY <2>4, StartRest, CatNone DEF Marks
    <2> QED BY <2>1, <2>2, <2>3, <2>5
  <1>6. Cat(Cat(Start(A), l), One(NL)) = Cat(Start(A), Cat(l, One(NL)))
    BY <1>1, <1>2, CatAssociative DEF Marks
  <1> QED BY <1>4, <1>5, <1>6

----------------------------------------------------------------------------
(* The body as a spot in it: the lines above the cursor's, what is before  *)
(* and after the cursor in its line, and the lines below.                  *)

AppendIsCat(S) == \A s \in Str(S), x \in S : Append(s, x) = Cat(s, One(x))
LEMMA AppendCat == \A S : AppendIsCat(S)
  BY AppendIsConcat DEF AppendIsCat, Str, Cat, One

Area3(ls, r, k) == [lines |-> ls, row |-> r, col |-> k]
Spot(A, x, y, B) == Area3(Cat(A, Cat(One(Cat(x, y)), B)), Size(A) + 1, Size(x))

\* Editable's own instance of the community modules does the same.
LEMMA SameOperators ==
    /\ \A s, i, e : Area!InsertAt(s, i, e) = InsertAt(s, i, e)
    /\ \A s, i : Area!RemoveAt(s, i) = RemoveAt(s, i)
    /\ \A S : Area!Min(S) = Min(S)
  <1>1. \A s, i, e : Area!InsertAt(s, i, e) = InsertAt(s, i, e) BY Zenon DEF Area!InsertAt, InsertAt
  <1>2. \A s, i : Area!RemoveAt(s, i) = RemoveAt(s, i) BY Zenon DEF Area!RemoveAt, RemoveAt
  <1>3. \A S : Area!Min(S) = Min(S) BY Zenon DEF Area!Min, Min
  <1> QED BY <1>1, <1>2, <1>3

\* The operations, field by field.
LEMMA AreaFields ==
    ASSUME NEW ls, NEW r, NEW k
    PROVE  /\ Area3(ls, r, k).lines = ls /\ Area3(ls, r, k).row = r /\ Area3(ls, r, k).col = k
           /\ Area!Line(Area3(ls, r, k)) = ls[r]
           /\ \A i, j : Area!At(Area3(ls, r, k), i, j) = Area3(ls, i, j)
           /\ \A i : Area!ToRow(Area3(ls, r, k), i) = Area3(ls, i, Min({k, Size(ls[i])}))
           /\ Area!Joins(Area3(ls, r, k)) <=> k = 0 /\ r > 1
  <1> DEFINE a == Area3(ls, r, k)
  <1>1. a.lines = ls /\ a.row = r /\ a.col = k BY DEF Area3
  <1>2. \A i, j : [lines |-> a.lines, row |-> i, col |-> j] = Area3(ls, i, j) BY DEF Area3
  <1> HIDE DEF a
  <1>3. \A i, j : Area!At(a, i, j) = Area3(ls, i, j) BY <1>2 DEF Area!At
  <1>4. Area!Line(a) = ls[r] BY <1>1 DEF Area!Line
  <1>5. ASSUME NEW i PROVE Area!ToRow(a, i) = Area3(ls, i, Min({k, Size(ls[i])}))
    BY <1>1, <1>3, SameOperators DEF Area!ToRow, Size
  <1>6. Area!Joins(a) <=> k = 0 /\ r > 1 BY <1>1 DEF Area!Joins
  <1> QED BY <1>1, <1>3, <1>4, <1>5, <1>6 DEF a

LEMMA AreaInsertFields ==
    ASSUME NEW ls, NEW r, NEW k, NEW c
    PROVE  Area!AreaInsert(Area3(ls, r, k), c) =
             Area3([ls EXCEPT ![r] = InsertAt(ls[r], k + 1, c)], r, k + 1)
  BY SameOperators DEF Area3, Area!AreaInsert

LEMMA AreaNewlineFields ==
    ASSUME NEW ls, NEW r, NEW k
    PROVE  Area!AreaNewline(Area3(ls, r, k)) =
             Area3(InsertAt([ls EXCEPT ![r] = SubSeq(ls[r], 1, k)], r + 1,
                            SubSeq(ls[r], k + 1, Size(ls[r]))), r + 1, 0)
  BY SameOperators DEF Area3, Area!AreaNewline, Area!Line, Size

LEMMA AreaBackspaceFields ==
    ASSUME NEW ls, NEW r \in Nat, NEW k \in Nat
    PROVE  Area!AreaBackspace(Area3(ls, r, k)) =
             IF k > 0 THEN Area3([ls EXCEPT ![r] = RemoveAt(ls[r], k)], r, k - 1)
             ELSE IF r > 1
               THEN Area3(RemoveAt([ls EXCEPT ![r - 1] = Cat(ls[r - 1], ls[r])], r), r - 1,
                          Size(ls[r - 1]))
               ELSE Area3(ls, r, k)
  <1> DEFINE a == Area3(ls, r, k)
  <1>1. /\ a.lines = ls /\ a.row = r /\ a.col = k /\ Area!Line(a) = ls[r]
        /\ Area!Joins(a) <=> k = 0 /\ r > 1
    BY AreaFields
  <1>2. [lines |-> [a.lines EXCEPT ![a.row] = RemoveAt(@, a.col)], row |-> a.row, col |-> a.col - 1] =
          Area3([ls EXCEPT ![r] = RemoveAt(ls[r], k)], r, k - 1)
    BY DEF Area3
  <1>3. [lines |-> RemoveAt([a.lines EXCEPT ![a.row - 1] = @ \o Area!Line(a)], a.row),
         row   |-> a.row - 1,
         col   |-> Len(a.lines[a.row - 1])] =
          Area3(RemoveAt([ls EXCEPT ![r - 1] = Cat(ls[r - 1], ls[r])], r), r - 1, Size(ls[r - 1]))
    BY <1>1, Zenon DEF Area3, Cat, Size
  <1> HIDE DEF a
  <1>4. CASE k > 0 BY <1>1, <1>2, <1>4, SameOperators DEF Area!AreaBackspace, a
  <1>5. CASE ~(k > 0) /\ r > 1
    BY <1>1, <1>3, <1>5, SameOperators DEF Area!AreaBackspace, a
  <1>6. CASE ~(k > 0) /\ ~(r > 1)
    BY <1>1, <1>6, SameOperators DEF Area!AreaBackspace, a
  <1> QED BY <1>4, <1>5, <1>6

LEMMA AreaMoveFields ==
    ASSUME NEW ls, NEW r \in Nat, NEW k \in Nat, Size(ls[r]) \in Nat, Size(ls) \in Nat,
           k <= Size(ls[r])
    PROVE  /\ Area!AreaLeft(Area3(ls, r, k)) =
                IF k > 0 THEN Area3(ls, r, k - 1)
                ELSE IF r > 1 THEN Area3(ls, r - 1, Size(ls[r - 1])) ELSE Area3(ls, r, k)
           /\ Area!AreaRight(Area3(ls, r, k)) =
                IF k < Size(ls[r]) THEN Area3(ls, r, k + 1)
                ELSE IF r < Size(ls) THEN Area3(ls, r + 1, 0) ELSE Area3(ls, r, k)
           /\ Area!AreaUp(Area3(ls, r, k)) =
                IF r > 1 THEN Area3(ls, r - 1, Min({k, Size(ls[r - 1])})) ELSE Area3(ls, r, k)
           /\ Area!AreaDown(Area3(ls, r, k)) =
                IF r < Size(ls) THEN Area3(ls, r + 1, Min({k, Size(ls[r + 1])}))
                ELSE Area3(ls, r, k)
  <1> DEFINE a == Area3(ls, r, k)
  <1>1. /\ a.lines = ls /\ a.row = r /\ a.col = k /\ Area!Line(a) = ls[r]
        /\ \A j : [a EXCEPT !.col = j] = Area3(ls, r, j)
        /\ \A i, j : Area!At(a, i, j) = Area3(ls, i, j)
        /\ \A i : Area!ToRow(a, i) = Area3(ls, i, Min({k, Size(ls[i])}))
        /\ Area!Joins(a) <=> k = 0 /\ r > 1
    BY AreaFields DEF Area3
  <1> HIDE DEF a
  <1>2. Area!AreaLeft(a) = IF k > 0 THEN Area3(ls, r, k - 1)
                ELSE IF r > 1 THEN Area3(ls, r - 1, Size(ls[r - 1])) ELSE a
    BY <1>1 DEF Area!AreaLeft, Size
  <1>3. Area!AreaRight(a) = IF k < Size(ls[r]) THEN Area3(ls, r, k + 1)
                ELSE IF r < Size(ls) THEN Area3(ls, r + 1, 0) ELSE a
    BY <1>1 DEF Area!AreaRight, Size
  <1>4. Area!AreaUp(a) = IF r > 1 THEN Area3(ls, r - 1, Min({k, Size(ls[r - 1])})) ELSE a
    BY <1>1 DEF Area!AreaUp
  <1>5. Area!AreaDown(a) = IF r < Size(ls) THEN Area3(ls, r + 1, Min({k, Size(ls[r + 1])})) ELSE a
    BY <1>1 DEF Area!AreaDown, Size
  <1> QED BY <1>2, <1>3, <1>4, <1>5 DEF a

LEMMA SpotSizes ==
    ASSUME NEW A \in Lists, NEW x \in Strs, NEW y \in Strs, NEW B \in Lists
    PROVE  /\ Size(A) \in Nat /\ Size(B) \in Nat /\ Size(x) \in Nat /\ Size(y) \in Nat
           /\ Cat(x, y) \in Strs /\ Size(Cat(x, y)) = Size(x) + Size(y)
           /\ Cat(A, Cat(One(Cat(x, y)), B)) \in Lists
           /\ Size(Cat(A, Cat(One(Cat(x, y)), B))) = Size(A) + (1 + Size(B))
  <1> DEFINE l == Cat(x, y)
             D == Cat(One(l), B)
  <1>1. l \in Strs /\ Size(l) = Size(x) + Size(y) BY CatType DEF Strs
  <1>2. Size(A) \in Nat /\ Size(B) \in Nat /\ Size(x) \in Nat /\ Size(y) \in Nat
    BY StrType DEF Lists, Strs
  <1> HIDE DEF l
  <1>3. One(l) \in Lists /\ Size(One(l)) = 1 BY <1>1, Sorts
  <1>4. D \in Lists /\ Size(D) = 1 + Size(B) BY <1>3, CatType DEF Lists
  <1> HIDE DEF D
  <1>5. Cat(A, D) \in Lists /\ Size(Cat(A, D)) = Size(A) + (1 + Size(B))
    BY <1>4, CatType DEF Lists
  <1> QED BY <1>1, <1>2, <1>5 DEF l, D

LEMMA SpotLine ==
    ASSUME NEW A \in Lists, NEW l \in Strs, NEW B \in Lists
    PROVE  /\ Cat(A, Cat(One(l), B))[Size(A) + 1] = l
           /\ \A f \in Strs : [Cat(A, Cat(One(l), B)) EXCEPT ![Size(A) + 1] = f] = Cat(A, Cat(One(f), B))
  BY ChangeBetween DEF Lists

LEMMA SpotCuts ==
    ASSUME NEW A \in Lists, NEW x \in Strs, NEW y \in Strs, NEW B \in Lists
    PROVE  /\ SubSeq(Cat(A, Cat(One(Cat(x, y)), B)), 1, Size(A)) = A
           /\ SubSeq(Cat(x, y), 1, Size(x)) = x
           /\ SubSeq(Cat(x, y), Size(x) + 1, Size(Cat(x, y))) = y
  <1>1. One(Cat(x, y)) \in Lists BY SpotSizes, Sorts
  <1>2. Cat(One(Cat(x, y)), B) \in Lists BY <1>1, CatType DEF Lists
  <1>3. SubSeq(Cat(A, Cat(One(Cat(x, y)), B)), 1, Size(A)) = A BY <1>2, CatParts DEF Lists
  <1>4. SubSeq(Cat(x, y), 1, Size(x)) = x /\ SubSeq(Cat(x, y), Size(x) + 1, Size(Cat(x, y))) = y
    BY CatParts DEF Strs
  <1> QED BY <1>3, <1>4

\* A spot is a body with its cursor inside; its text, and where in it.
LEMMA SpotText ==
    ASSUME NEW A \in Lists, NEW x \in Strs, NEW y \in Strs, NEW B \in Lists
    PROVE  /\ Area!AreaOK(Spot(A, x, y, B), Char)
           /\ Area!AreaText(Spot(A, x, y, B)) = Cat(Start(A), Cat(x, Cat(y, Rest(B))))
           /\ Area!AreaPos(Spot(A, x, y, B)) = Size(Start(A)) + Size(x)
  <1> DEFINE n == Size(A)
             a == Spot(A, x, y, B)
             ls == Cat(A, Cat(One(Cat(x, y)), B))
  <1>1. /\ ls \in Lists /\ Size(ls) = n + (1 + Size(B))
        /\ Cat(x, y) \in Strs /\ Size(Cat(x, y)) = Size(x) + Size(y)
        /\ n \in Nat /\ Size(B) \in Nat /\ Size(x) \in Nat /\ Size(y) \in Nat
    BY SpotSizes
  <1>2. ls[n + 1] = Cat(x, y) BY <1>1, SpotLine
  <1>3. SubSeq(ls, 1, n) = A /\ SubSeq(Cat(x, y), 1, Size(x)) = x BY SpotCuts
  <1>4. J(ls) = Cat(Start(A), Cat(Cat(x, y), Rest(B))) BY <1>1, JoinAround
  <1>5. J(Cat(A, One(x))) = Cat(Start(A), x)
    <2>1. None \in Lists BY Sorts
    <2> QED BY <2>1, JoinAround
  <1>6. a.lines = ls /\ a.row = n + 1 /\ a.col = Size(x) /\ Area!Line(a) = ls[n + 1]
    BY AreaFields DEF Spot
  <1> HIDE DEF a, ls, n
  <1>7. n + 1 \in 1..Size(ls) /\ Size(x) \in 0..Size(Cat(x, y)) /\ (n + 1) - 1 = n BY <1>1
  <1>8. Area!AreaOK(a, Char)
    BY <1>1, <1>2, <1>6, <1>7 DEF Area!AreaOK, Lists, Strs, Str, Size
  <1>9. Start(A) \in Marks /\ Rest(B) \in Marks /\ x \in Marks /\ y \in Marks BY StartRest, Sorts
  <1>10. Area!AreaText(a) = Cat(Start(A), Cat(x, Cat(y, Rest(B))))
    <2>1. Area!AreaText(a) = J(ls) BY <1>6 DEF Area!AreaText, J
    <2>2. Cat(Cat(x, y), Rest(B)) = Cat(x, Cat(y, Rest(B))) BY <1>9, CatAssociative DEF Marks
    <2> QED BY <1>4, <2>1, <2>2
  <1>11. Area!AreaPos(a) = Size(Start(A)) + Size(x)
    <2>1. Area!AreaPos(a) = Size(J(Append(A, x)))
      <3>1. SubSeq(a.lines, 1, a.row - 1) = A BY <1>3, <1>6, <1>7
      <3>2. SubSeq(Area!Line(a), 1, a.col) = x BY <1>2, <1>3, <1>6
      <3> QED BY <3>1, <3>2, Zenon DEF Area!AreaPos, J, Size
    <2>2. Append(A, x) = Cat(A, One(x)) BY AppendCat DEF AppendIsCat, Lists
    <2> QED BY <1>5, <1>9, <2>1, <2>2, CatType DEF Marks
  <1> QED BY <1>8, <1>10, <1>11 DEF a

\* There is no other body.
IsArea(a) == a = Area3(a.lines, a.row, a.col) /\ Area!AreaOK(a, Char)

\* A spot is a well-formed area, and each of those is a spot.
LEMMA SpotArea ==
    ASSUME NEW A \in Lists, NEW x \in Strs, NEW y \in Strs, NEW B \in Lists
    PROVE  IsArea(Spot(A, x, y, B))
  BY SpotText, AreaFields DEF IsArea, Spot

LEMMA AreaSpot ==
    ASSUME NEW a, IsArea(a)
    PROVE  \E A, B \in Lists, x, y \in Strs : a = Spot(A, x, y, B)
  <1> DEFINE ls == a.lines
             n == a.row - 1
  <1>1. /\ ls \in Lists /\ a.row \in 1..Size(ls) /\ a.col \in 0..Size(ls[a.row])
        /\ a = Area3(ls, a.row, a.col)
    BY DEF IsArea, Area!AreaOK, Area!Line, Lists, Strs, Str, Size
  <1> HIDE DEF ls
  <1>2. Size(ls) \in Nat BY <1>1, StrType DEF Lists
  <1>3. n \in 0..Size(ls) /\ n + 1 = a.row /\ Size(ls) - n # 0 BY <1>1, <1>2
  <1> HIDE DEF n
  <1>4. PICK A, D \in Lists : ls = Cat(A, D) /\ Size(A) = n /\ Size(D) = Size(ls) - n
    BY <1>1, <1>3, Cut DEF Lists
  <1>5. D # None BY <1>3, <1>4, StrEmpty DEF Lists
  <1>6. PICK l \in Strs, B \in Lists : D = Cat(One(l), B) BY <1>5, CutEnds DEF Lists
  <1>7. ls[a.row] = l BY <1>3, <1>4, <1>6, ChangeBetween DEF Lists
  <1>8. PICK x, y \in Strs : l = Cat(x, y) /\ Size(x) = a.col BY <1>1, <1>7, Cut DEF Strs
  <1>9. a = Spot(A, x, y, B) BY <1>1, <1>3, <1>4, <1>6, <1>8 DEF Spot
  <1> QED BY <1>9

----------------------------------------------------------------------------
(* What each operation makes of a spot *)

\* What each key makes of a spot.
LEMMA SpotInsert ==
    ASSUME NEW A \in Lists, NEW x \in Strs, NEW y \in Strs, NEW B \in Lists, NEW c \in Char
    PROVE  Area!AreaInsert(Spot(A, x, y, B), c) = Spot(A, Cat(x, One(c)), y, B)
  <1> DEFINE l == Cat(x, y)
             m == Cat(Cat(x, One(c)), y)
             ls == Cat(A, Cat(One(l), B))
  <1>1. One(c) \in Strs /\ Size(One(c)) = 1 BY StrType DEF Strs
  <1>2. Cat(x, One(c)) \in Strs /\ Size(Cat(x, One(c))) = Size(x) + 1 BY <1>1, CatType DEF Strs
  <1>3. l \in Strs /\ m \in Strs BY <1>2, CatType DEF Strs
  <1>4. m = Cat(x, Cat(One(c), y)) BY <1>1, CatAssociative DEF Strs
  <1>5. InsertAt(l, Size(x) + 1, c) = m BY <1>4, InsertBetween DEF Strs
  <1> HIDE DEF l, m
  <1>6. ls[Size(A) + 1] = l /\ [ls EXCEPT ![Size(A) + 1] = m] = Cat(A, Cat(One(m), B))
    BY <1>3, SpotLine
  <1>7. Area!AreaInsert(Area3(ls, Size(A) + 1, Size(x)), c) =
          Area3([ls EXCEPT ![Size(A) + 1] = InsertAt(ls[Size(A) + 1], Size(x) + 1, c)],
                Size(A) + 1, Size(x) + 1)
    BY AreaInsertFields
  <1> HIDE DEF ls
  <1>8. Area!AreaInsert(Area3(ls, Size(A) + 1, Size(x)), c) =
          Area3(Cat(A, Cat(One(m), B)), Size(A) + 1, Size(x) + 1)
    BY <1>5, <1>6, <1>7
  <1> QED BY <1>2, <1>8 DEF Spot, l, m, ls

LEMMA SpotNewline ==
    ASSUME NEW A \in Lists, NEW x \in Strs, NEW y \in Strs, NEW B \in Lists
    PROVE  Area!AreaNewline(Spot(A, x, y, B)) = Spot(Cat(A, One(x)), None, y, B)
  <1> DEFINE l == Cat(x, y)
             ls == Cat(A, Cat(One(l), B))
             C == Cat(A, One(x))
             n == Size(A) + 1
  <1>1. l \in Strs /\ SubSeq(l, 1, Size(x)) = x /\ SubSeq(l, Size(x) + 1, Size(l)) = y
    BY SpotSizes, SpotCuts
  <1>2. One(x) \in Lists /\ Size(One(x)) = 1 BY Sorts
  <1>3. C \in Lists /\ Size(C) = n BY <1>2, CatType DEF Lists
  <1>4. Cat(A, Cat(One(x), B)) = Cat(C, B) BY <1>2, CatAssociative DEF Lists
  <1>5. InsertAt(Cat(C, B), Size(C) + 1, y) = Cat(C, Cat(One(y), B)) BY <1>3, InsertBetween DEF Lists
  <1>6. Cat(None, y) = y /\ Size(None) = 0 BY CatNone, StrType DEF Strs
  <1> HIDE DEF l, C
  <1>7. ls[n] = l /\ [ls EXCEPT ![n] = x] = Cat(A, Cat(One(x), B)) BY <1>1, SpotLine
  <1>8. Area!AreaNewline(Area3(ls, n, Size(x))) =
          Area3(InsertAt([ls EXCEPT ![n] = SubSeq(ls[n], 1, Size(x))], n + 1,
                         SubSeq(ls[n], Size(x) + 1, Size(ls[n]))), n + 1, 0)
    BY AreaNewlineFields
  <1> HIDE DEF ls, n
  <1>9. InsertAt([ls EXCEPT ![n] = SubSeq(ls[n], 1, Size(x))], n + 1,
                 SubSeq(ls[n], Size(x) + 1, Size(ls[n]))) = Cat(C, Cat(One(y), B))
    <2>1. SubSeq(ls[n], 1, Size(x)) = x /\ SubSeq(ls[n], Size(x) + 1, Size(ls[n])) = y
      BY <1>1, <1>7
    <2>2. [ls EXCEPT ![n] = SubSeq(ls[n], 1, Size(x))] = Cat(C, B) BY <1>4, <1>7, <2>1
    <2> QED BY <1>3, <1>5, <2>1, <2>2
  <1>10. Area!AreaNewline(Area3(ls, n, Size(x))) = Area3(Cat(C, Cat(One(y), B)), n + 1, 0)
    BY <1>8, <1>9
  <1> QED BY <1>3, <1>6, <1>10 DEF Spot, l, ls, n, C

\* The end of one line and the one after it.
LEMMA LineAbove ==
    ASSUME NEW A \in Lists, NEW l \in Strs, NEW m \in Strs, NEW B \in Lists
    PROVE  LET C  == Cat(A, One(l))
               ls == Cat(C, Cat(One(m), B)) IN
           /\ C \in Lists /\ Size(C) = Size(A) + 1 /\ Size(A) \in Nat
           /\ ls = Cat(A, Cat(One(l), Cat(One(m), B)))
           /\ Cat(One(m), B) \in Lists
           /\ ls[Size(A) + 1] = l /\ ls[Size(C) + 1] = m
           /\ ls \in Lists /\ Size(ls) = Size(C) + (1 + Size(B))
  <1> DEFINE C == Cat(A, One(l))
             D == Cat(One(m), B)
  <1>1. /\ One(l) \in Lists /\ Size(One(l)) = 1 /\ Size(A) \in Nat
        /\ One(m) \in Lists /\ Size(One(m)) = 1
    BY Sorts, StrType DEF Lists
  <1>2. C \in Lists /\ Size(C) = Size(A) + 1 BY <1>1, CatType DEF Lists
  <1>3. D \in Lists /\ Size(D) = 1 + Size(B) BY <1>1, CatType DEF Lists
  <1>4. Cat(C, D)[Size(C) + 1] = m BY <1>2, SpotLine
  <1>5. Cat(C, D) = Cat(A, Cat(One(l), D)) BY <1>1, <1>3, CatAssociative DEF Lists
  <1> HIDE DEF D
  <1>6. Cat(A, Cat(One(l), D))[Size(A) + 1] = l BY <1>3, SpotLine
  <1>7. Cat(C, D) \in Lists /\ Size(Cat(C, D)) = Size(C) + (1 + Size(B)) BY <1>2, <1>3, CatType DEF Lists
  <1> HIDE DEF C
  <1> QED BY <1>1, <1>2, <1>3, <1>4, <1>5, <1>6, <1>7 DEF C, D

LEMMA SpotBackspace ==
    ASSUME NEW A \in Lists, NEW x \in Strs, NEW y \in Strs, NEW B \in Lists
    PROVE  /\ \A e \in Char : Area!AreaBackspace(Spot(A, Cat(x, One(e)), y, B)) = Spot(A, x, y, B)
           /\ Area!AreaBackspace(Spot(Cat(A, One(x)), None, y, B)) = Spot(A, x, y, B)
           /\ Area!AreaBackspace(Spot(None, None, y, B)) = Spot(None, None, y, B)
  <1>1. ASSUME NEW e \in Char
        PROVE  Area!AreaBackspace(Spot(A, Cat(x, One(e)), y, B)) = Spot(A, x, y, B)
    <2> DEFINE z == Cat(x, One(e))
               l == Cat(z, y)
               m == Cat(x, y)
               n == Size(A) + 1
               ls == Cat(A, Cat(One(l), B))
    <2>1. One(e) \in Strs /\ Size(One(e)) = 1 BY StrType DEF Strs
    <2>2. z \in Strs /\ Size(z) = Size(x) + 1 /\ Size(x) \in Nat BY <2>1, CatType, StrType DEF Strs
    <2>3. l = Cat(x, Cat(One(e), y)) BY <2>1, CatAssociative DEF Strs
    <2>4. RemoveAt(l, Size(z)) = m BY <2>2, <2>3, RemoveBetween DEF Strs
    <2>5. l \in Strs /\ m \in Strs /\ n \in Nat BY <2>2, CatType, StrType DEF Strs, Lists
    <2> HIDE DEF z, l, m
    <2>6. ls[n] = l /\ [ls EXCEPT ![n] = m] = Cat(A, Cat(One(m), B)) BY <2>5, SpotLine
    <2> HIDE DEF ls, n
    <2>7. Size(z) \in Nat /\ Size(z) > 0 /\ Size(z) - 1 = Size(x) BY <2>2
    <2>8. Area!AreaBackspace(Area3(ls, n, Size(z))) =
            Area3([ls EXCEPT ![n] = RemoveAt(ls[n], Size(z))], n, Size(z) - 1)
      BY <2>5, <2>7, AreaBackspaceFields
    <2>9. Area!AreaBackspace(Area3(ls, n, Size(z))) = Area3(Cat(A, Cat(One(m), B)), n, Size(x))
      BY <2>4, <2>6, <2>7, <2>8
    <2> QED BY <2>9 DEF Spot, z, l, m, n, ls
  <1>2. Area!AreaBackspace(Spot(Cat(A, One(x)), None, y, B)) = Spot(A, x, y, B)
    <2> DEFINE C == Cat(A, One(x))
               D == Cat(One(y), B)
               ls == Cat(C, D)
               m == Cat(x, y)
               E == Cat(A, One(m))
               n == Size(C) + 1
    <2>1. /\ C \in Lists /\ Size(C) = Size(A) + 1 /\ Size(A) \in Nat
          /\ ls = Cat(A, Cat(One(x), D)) /\ D \in Lists
          /\ ls[Size(A) + 1] = x /\ ls[n] = y
      BY LineAbove
    <2>2. m \in Strs /\ One(m) \in Lists /\ Size(One(m)) = 1 BY SpotSizes, Sorts
    <2>3. E \in Lists /\ Size(E) = Size(A) + 1 BY <2>2, CatType DEF Lists
    <2> HIDE DEF m
    <2>4. [ls EXCEPT ![Size(A) + 1] = m] = Cat(E, D)
      <3>1. Cat(E, D) = Cat(A, Cat(One(m), D)) BY <2>1, <2>2, CatAssociative DEF Lists
      <3> HIDE DEF D, ls, E
      <3> QED BY <2>1, <2>2, <3>1, SpotLine
    <2>5. RemoveAt(Cat(E, D), Size(E) + 1) = Cat(E, B) BY <2>3, RemoveBetween DEF Lists
    <2>6. Cat(E, B) = Cat(A, Cat(One(m), B)) BY <2>2, CatAssociative DEF Lists
    <2> HIDE DEF ls, C, D, E
    <2>7. Area!AreaBackspace(Area3(ls, n, 0)) =
            Area3(RemoveAt([ls EXCEPT ![n - 1] = Cat(ls[n - 1], ls[n])], n), n - 1, Size(ls[n - 1]))
      <3>1. n \in Nat /\ n > 1 /\ 0 \in Nat /\ ~(0 > 0) BY <2>1
      <3> HIDE DEF n
      <3> QED BY <3>1, AreaBackspaceFields
    <2>8. n - 1 = Size(A) + 1 /\ n = Size(E) + 1 BY <2>1, <2>3
    <2> HIDE DEF n
    <2>9. Cat(ls[n - 1], ls[n]) = m /\ ls[n - 1] = x BY <2>1, <2>8 DEF m
    <2>10. Area!AreaBackspace(Area3(ls, n, 0)) = Area3(Cat(A, Cat(One(m), B)), Size(A) + 1, Size(x))
      BY <2>4, <2>5, <2>6, <2>7, <2>8, <2>9
    <2>11. Cat(None, y) = y /\ Size(None) = 0 BY CatNone, StrType DEF Strs
    <2> QED BY <2>10, <2>11 DEF Spot, C, D, ls, m, n
  <1>3. Area!AreaBackspace(Spot(None, None, y, B)) = Spot(None, None, y, B)
    <2> DEFINE ls == Cat(None, Cat(One(Cat(None, y)), B))
    <2>1. Size(None) = 0 /\ 0 \in Nat /\ 0 + 1 \in Nat /\ ~(0 > 0) /\ ~(0 + 1 > 1) BY StrType
    <2> HIDE DEF ls
    <2>2. Area!AreaBackspace(Area3(ls, 0 + 1, 0)) = Area3(ls, 0 + 1, 0)
      BY <2>1, AreaBackspaceFields
    <2> QED BY <2>1, <2>2 DEF Spot, ls
  <1> QED BY <1>1, <1>2, <1>3

\* Left and right, also from the start and the end of a line.
LEMMA SpotLeftRight ==
    ASSUME NEW A \in Lists, NEW x \in Strs, NEW y \in Strs, NEW B \in Lists
    PROVE  /\ \A e \in Char :
                /\ Area!AreaLeft(Spot(A, Cat(x, One(e)), y, B)) = Spot(A, x, Cat(One(e), y), B)
                /\ Area!AreaRight(Spot(A, x, Cat(One(e), y), B)) = Spot(A, Cat(x, One(e)), y, B)
           /\ Area!AreaLeft(Spot(Cat(A, One(x)), None, y, B)) = Spot(A, x, None, Cat(One(y), B))
           /\ Area!AreaRight(Spot(A, x, None, Cat(One(y), B))) = Spot(Cat(A, One(x)), None, y, B)
           /\ Area!AreaLeft(Spot(None, None, y, B)) = Spot(None, None, y, B)
           /\ Area!AreaRight(Spot(A, x, None, None)) = Spot(A, x, None, None)
  <1>1. ASSUME NEW e \in Char
        PROVE  /\ Area!AreaLeft(Spot(A, Cat(x, One(e)), y, B)) = Spot(A, x, Cat(One(e), y), B)
               /\ Area!AreaRight(Spot(A, x, Cat(One(e), y), B)) = Spot(A, Cat(x, One(e)), y, B)
    <2> DEFINE z == Cat(x, One(e))
               w == Cat(One(e), y)
               l == Cat(z, y)
               n == Size(A) + 1
               ls == Cat(A, Cat(One(l), B))
    <2>1. One(e) \in Strs /\ Size(One(e)) = 1 BY StrType DEF Strs
    <2>2. z \in Strs /\ Size(z) = Size(x) + 1 /\ Size(x) \in Nat /\ Size(y) \in Nat
      BY <2>1, CatType, StrType DEF Strs
    <2>3. l = Cat(x, w) BY <2>1, CatAssociative DEF Strs
    <2>4. l \in Strs /\ Size(l) = Size(z) + Size(y) BY <2>2, CatType DEF Strs
    <2> HIDE DEF z, w, l
    <2>5. ls[n] = l BY <2>4, SpotLine
    <2>6. n \in Nat /\ ls \in Lists /\ Size(ls) \in Nat
      <3>1. ls \in Lists
        <4>1. One(l) \in Lists BY <2>4, Sorts
        <4> QED BY <4>1, CatType DEF Lists
      <3> QED BY <3>1, StrType DEF Lists
    <2> HIDE DEF ls, n
    <2>7. Area!AreaLeft(Area3(ls, n, Size(z))) = Area3(ls, n, Size(x))
      <3>1. Size(z) \in Nat /\ Size(z) > 0 /\ Size(z) - 1 = Size(x) /\ Size(z) <= Size(ls[n])
            /\ Size(ls[n]) \in Nat
        BY <2>2, <2>4, <2>5
      <3>2. Area!AreaLeft(Area3(ls, n, Size(z))) = Area3(ls, n, Size(z) - 1)
        BY <2>6, <3>1, AreaMoveFields
      <3> QED BY <3>1, <3>2
    <2>8. Area!AreaRight(Area3(ls, n, Size(x))) = Area3(ls, n, Size(z))
      <3>1. Size(x) \in Nat /\ Size(x) < Size(ls[n]) /\ Size(x) <= Size(ls[n]) /\ Size(ls[n]) \in Nat
        BY <2>2, <2>4, <2>5
      <3>2. Area!AreaRight(Area3(ls, n, Size(x))) = Area3(ls, n, Size(x) + 1)
        BY <2>6, <3>1, AreaMoveFields
      <3> QED BY <2>2, <3>2
    <2>9. ls = Cat(A, Cat(One(Cat(x, w)), B)) BY <2>3 DEF ls
    <2> QED BY <2>7, <2>8, <2>9 DEF Spot, z, w, l, n, ls
  <1> DEFINE C == Cat(A, One(x))
             D == Cat(One(y), B)
             ls == Cat(C, D)
             m == Size(A) + 1
             n == Size(C) + 1
  <1>2. /\ C \in Lists /\ Size(C) = m /\ Size(A) \in Nat
        /\ ls = Cat(A, Cat(One(x), D)) /\ D \in Lists
        /\ ls[m] = x /\ ls[n] = y /\ ls \in Lists /\ Size(ls) = Size(C) + (1 + Size(B))
    BY LineAbove
  <1>3. /\ Cat(None, y) = y /\ Cat(x, None) = x /\ Size(None) = 0
        /\ Size(x) \in Nat /\ Size(y) \in Nat /\ Size(B) \in Nat
    BY CatNone, StrType DEF Strs, Lists
  <1>4. Spot(C, None, y, B) = Area3(ls, n, 0) /\ Spot(A, x, None, D) = Area3(ls, m, Size(x))
    <2>1. Spot(C, None, y, B) = Area3(ls, n, 0) BY <1>3 DEF Spot
    <2>2. Spot(A, x, None, D) = Area3(Cat(A, Cat(One(x), D)), m, Size(x)) BY <1>3 DEF Spot
    <2> HIDE DEF C, D, ls, m, n
    <2> QED BY <1>2, <2>1, <2>2
  <1> HIDE DEF C, D, ls
  <1>5. Area!AreaLeft(Area3(ls, n, 0)) = Area3(ls, m, Size(x))
    <2>1. /\ n \in Nat /\ n > 1 /\ n - 1 = m /\ Size(ls) \in Nat /\ Size(ls[n]) \in Nat
          /\ 0 <= Size(ls[n]) /\ 0 \in Nat /\ ~(0 > 0)
      BY <1>2, <1>3
    <2> HIDE DEF n, m
    <2>2. Area!AreaLeft(Area3(ls, n, 0)) = Area3(ls, n - 1, Size(ls[n - 1]))
      BY <2>1, AreaMoveFields
    <2> QED BY <1>2, <2>1, <2>2
  <1>6. Area!AreaRight(Area3(ls, m, Size(x))) = Area3(ls, n, 0)
    <2>1. /\ m \in Nat /\ m < Size(ls) /\ m + 1 = n /\ Size(ls) \in Nat /\ Size(ls[m]) \in Nat
          /\ Size(x) <= Size(ls[m]) /\ ~(Size(x) < Size(ls[m]))
      BY <1>2, <1>3
    <2> HIDE DEF n, m
    <2>2. Area!AreaRight(Area3(ls, m, Size(x))) = Area3(ls, m + 1, 0)
      BY <1>3, <2>1, AreaMoveFields
    <2> QED BY <2>1, <2>2
  <1>7. Area!AreaLeft(Spot(None, None, y, B)) = Spot(None, None, y, B)
    <2> DEFINE us == Cat(None, Cat(One(Cat(None, y)), B))
    <2>1. us[Size(None) + 1] = y /\ Size(us) \in Nat
      <3>1. None \in Lists /\ None \in Strs BY Sorts
      <3>2. us \in Lists BY <3>1, SpotSizes
      <3> QED BY <1>3, <3>1, <3>2, SpotLine, StrType DEF Lists
    <2>2. Size(None) + 1 \in Nat /\ ~(Size(None) + 1 > 1) /\ 0 \in Nat /\ ~(0 > 0) /\ 0 <= Size(y)
      BY <1>3
    <2> HIDE DEF us
    <2>3. Area!AreaLeft(Area3(us, Size(None) + 1, 0)) = Area3(us, Size(None) + 1, 0)
      BY <1>3, <2>1, <2>2, AreaMoveFields
    <2> QED BY <1>3, <2>3 DEF Spot, us
  <1>8. Area!AreaRight(Spot(A, x, None, None)) = Spot(A, x, None, None)
    <2> DEFINE us == Cat(A, Cat(One(Cat(x, None)), None))
    <2>1. us[m] = x /\ Size(us) = Size(A) + (1 + Size(None))
      <3>1. None \in Lists /\ None \in Strs BY Sorts
      <3> QED BY <1>3, <3>1, SpotSizes, SpotLine
    <2>2. m \in Nat /\ ~(m < Size(us)) /\ Size(us) \in Nat /\ ~(Size(x) < Size(x)) /\ Size(x) <= Size(x)
      BY <1>2, <1>3, <2>1
    <2> HIDE DEF us, m
    <2>3. Area!AreaRight(Area3(us, m, Size(x))) = Area3(us, m, Size(x))
      BY <1>3, <2>1, <2>2, AreaMoveFields
    <2> QED BY <2>3 DEF Spot, us, m
  <1> QED BY <1>1, <1>4, <1>5, <1>6, <1>7, <1>8 DEF C, D

\* Up and down: to the column of the line there, or to its end.
AtColumn(p, q, l, x) == l = Cat(p, q) /\ Size(p) = Min({Size(x), Size(l)})
GoesUp(A, l, x, y, B, p, q) ==
    /\ AtColumn(p, q, l, x)
    /\ Area!AreaUp(Spot(Cat(A, One(l)), x, y, B)) = Spot(A, p, q, Cat(One(Cat(x, y)), B))
GoesDown(A, l, x, y, B, p, q) ==
    /\ AtColumn(p, q, l, x)
    /\ Area!AreaDown(Spot(A, x, y, Cat(One(l), B))) = Spot(Cat(A, One(Cat(x, y))), p, q, B)

LEMMA SpotUp ==
    ASSUME NEW A \in Lists, NEW l \in Strs, NEW x \in Strs, NEW y \in Strs, NEW B \in Lists
    PROVE  \E p, q \in Strs : GoesUp(A, l, x, y, B, p, q)
  <1> DEFINE h == Cat(x, y)
             k == Min({Size(x), Size(l)})
  <1>1. h \in Strs /\ Size(h) = Size(x) + Size(y) /\ Size(x) \in Nat /\ Size(y) \in Nat
        /\ Size(l) \in Nat /\ Size(h) \in Nat /\ Size(x) <= Size(h)
    <2>1. h \in Strs /\ Size(h) = Size(x) + Size(y) BY SpotSizes
    <2>2. Size(x) \in Nat /\ Size(y) \in Nat /\ Size(l) \in Nat BY StrType DEF Strs
    <2> QED BY <2>1, <2>2
  <1>2. k \in 0..Size(l) BY <1>1, MinOfTwo
  <1>3. PICK p, q \in Strs : l = Cat(p, q) /\ Size(p) = k BY <1>2, Cut DEF Strs
  <1>4. Area!AreaUp(Spot(Cat(A, One(l)), x, y, B)) = Spot(A, p, q, Cat(One(h), B))
    <2> DEFINE C == Cat(A, One(l))
               D == Cat(One(h), B)
               ls == Cat(C, D)
               n == Size(C) + 1
               m == Size(A) + 1
    <2> HIDE DEF h, k
    <2>1. /\ C \in Lists /\ Size(C) = m /\ Size(A) \in Nat
          /\ ls = Cat(A, Cat(One(l), D)) /\ ls[m] = l /\ ls[n] = h
          /\ ls \in Lists /\ Size(ls) = Size(C) + (1 + Size(B)) /\ Size(B) \in Nat
      BY <1>1, LineAbove, StrType DEF Lists
    <2> HIDE DEF C, D, ls
    <2>2. n \in Nat /\ n > 1 /\ n - 1 = m /\ Size(ls) \in Nat BY <2>1
    <2> HIDE DEF n, m
    <2>3. Area!AreaUp(Area3(ls, n, Size(x))) = Area3(ls, n - 1, Min({Size(x), Size(ls[n - 1])}))
      BY <1>1, <2>1, <2>2, AreaMoveFields
    <2>4. Area!AreaUp(Area3(ls, n, Size(x))) = Area3(Cat(A, Cat(One(l), D)), m, Size(p))
      BY <1>3, <2>1, <2>2, <2>3 DEF k
    <2> QED BY <1>3, <2>4 DEF Spot, C, D, ls, n, m, h
  <1> QED BY <1>3, <1>4 DEF AtColumn, GoesUp

LEMMA SpotDown ==
    ASSUME NEW A \in Lists, NEW l \in Strs, NEW x \in Strs, NEW y \in Strs, NEW B \in Lists
    PROVE  \E p, q \in Strs : GoesDown(A, l, x, y, B, p, q)
  <1> DEFINE h == Cat(x, y)
             k == Min({Size(x), Size(l)})
  <1>1. h \in Strs /\ Size(h) = Size(x) + Size(y) /\ Size(x) \in Nat /\ Size(y) \in Nat
        /\ Size(l) \in Nat /\ Size(h) \in Nat /\ Size(x) <= Size(h)
    <2>1. h \in Strs /\ Size(h) = Size(x) + Size(y) BY SpotSizes
    <2>2. Size(x) \in Nat /\ Size(y) \in Nat /\ Size(l) \in Nat BY StrType DEF Strs
    <2> QED BY <2>1, <2>2
  <1>2. k \in 0..Size(l) BY <1>1, MinOfTwo
  <1>3. PICK p, q \in Strs : l = Cat(p, q) /\ Size(p) = k BY <1>2, Cut DEF Strs
  <1>4. Area!AreaDown(Spot(A, x, y, Cat(One(l), B))) = Spot(Cat(A, One(h)), p, q, B)
    <2> DEFINE C == Cat(A, One(h))
               D == Cat(One(l), B)
               ls == Cat(C, D)
               n == Size(C) + 1
               m == Size(A) + 1
    <2> HIDE DEF h, k
    <2>1. /\ C \in Lists /\ Size(C) = m /\ Size(A) \in Nat
          /\ ls = Cat(A, Cat(One(h), D)) /\ ls[m] = h /\ ls[n] = l
          /\ ls \in Lists /\ Size(ls) = Size(C) + (1 + Size(B)) /\ Size(B) \in Nat
      BY <1>1, LineAbove, StrType DEF Lists
    <2> HIDE DEF C, D, ls
    <2>2. n \in Nat /\ m \in Nat /\ m < Size(ls) /\ m + 1 = n /\ Size(ls) \in Nat BY <2>1
    <2> HIDE DEF n, m
    <2>3. Area!AreaDown(Area3(ls, m, Size(x))) = Area3(ls, m + 1, Min({Size(x), Size(ls[m + 1])}))
      BY <1>1, <2>1, <2>2, AreaMoveFields
    <2>4. Area!AreaDown(Area3(Cat(A, Cat(One(h), D)), m, Size(x))) = Area3(ls, n, Size(p))
      BY <1>3, <2>1, <2>2, <2>3 DEF k
    <2> QED BY <1>3, <2>4 DEF Spot, C, D, ls, n, m, h
  <1> QED BY <1>3, <1>4 DEF AtColumn, GoesDown

\* But not beyond the first line and the last.
LEMMA SpotTopBottom ==
    ASSUME NEW A \in Lists, NEW x \in Strs, NEW y \in Strs, NEW B \in Lists
    PROVE  /\ Area!AreaUp(Spot(None, x, y, B)) = Spot(None, x, y, B)
           /\ Area!AreaDown(Spot(A, x, y, None)) = Spot(A, x, y, None)
  <1> DEFINE h == Cat(x, y)
  <1>1. h \in Strs /\ Size(h) = Size(x) + Size(y) /\ Size(x) \in Nat /\ Size(y) \in Nat
        /\ Size(h) \in Nat /\ Size(x) <= Size(h)
    <2>1. h \in Strs /\ Size(h) = Size(x) + Size(y) BY SpotSizes
    <2>2. Size(x) \in Nat /\ Size(y) \in Nat BY StrType DEF Strs
    <2> QED BY <2>1, <2>2
  <1>2. Area!AreaUp(Spot(None, x, y, B)) = Spot(None, x, y, B)
    <2> DEFINE us == Cat(None, Cat(One(h), B))
               m == Size(None) + 1
    <2>1. None \in Lists /\ Size(None) = 0 BY Sorts, StrType DEF Lists
    <2>2. us[m] = h /\ us \in Lists
      <3> HIDE DEF h
      <3>1. One(h) \in Lists BY <1>1, Sorts
      <3>2. us \in Lists BY <2>1, <3>1, CatType DEF Lists
      <3> QED BY <1>1, <2>1, <3>2, SpotLine
    <2>3. Size(us) \in Nat BY <2>2, StrType DEF Lists
    <2>4. m \in Nat /\ ~(m > 1) BY <2>1
    <2> HIDE DEF us, m, h
    <2>5. Area!AreaUp(Area3(us, m, Size(x))) = Area3(us, m, Size(x))
      BY <1>1, <2>2, <2>3, <2>4, AreaMoveFields
    <2> QED BY <2>5 DEF Spot, us, m, h
  <1>3. Area!AreaDown(Spot(A, x, y, None)) = Spot(A, x, y, None)
    <2> DEFINE us == Cat(A, Cat(One(h), None))
               m == Size(A) + 1
    <2>1. None \in Lists /\ Size(None) = 0 BY Sorts, StrType DEF Lists
    <2>2. us[m] = h /\ Size(us) = Size(A) + (1 + Size(None)) /\ Size(A) \in Nat
      BY <1>1, <2>1, SpotSizes, SpotLine
    <2>3. m \in Nat /\ ~(m < Size(us)) /\ Size(us) \in Nat BY <2>1, <2>2
    <2> HIDE DEF us, m, h
    <2>4. Area!AreaDown(Area3(us, m, Size(x))) = Area3(us, m, Size(x))
      BY <1>1, <2>2, <2>3, AreaMoveFields
    <2> QED BY <2>4 DEF Spot, us, m, h
  <1> QED BY <1>2, <1>3

----------------------------------------------------------------------------
(* What each operation does to the text *)

TextLineStart(t, p) == Max({0} \cup {q \in 1..p : t[q] = NL})
TextLineEnd(t, p) == Min({Len(t)} \cup {q - 1 : q \in {r \in p + 1..Len(t) : t[r] = NL}})
TextColumn(t, p) == p - TextLineStart(t, p)

\* The steps of PlainText, from the text t with the cursor at p.
Types(t, p, u, q) == \E c \in Mark : u = InsertAt(t, p + 1, c) /\ q = p + 1
Erases(t, p, u, q) == p > 0 /\ u = RemoveAt(t, p) /\ q = p - 1
Moves(t, p, u, q) == q \in {p - 1, p + 1} \cap 0..Len(t) /\ u = t
ChangesLine(t, p, u, q) ==
    /\ q \in 0..Len(t)
    /\ \/ TextLineStart(t, q) = TextLineEnd(t, p) + 1
       \/ TextLineEnd(t, q) = TextLineStart(t, p) - 1
    /\ TextColumn(t, q) = Min({TextColumn(t, p), TextLineEnd(t, q) - TextLineStart(t, q)})
    /\ u = t
Clears(u, q) == u = <<>> /\ q = 0
PlainStep(t, p, u, q) ==
    \/ Types(t, p, u, q) \/ Erases(t, p, u, q) \/ Moves(t, p, u, q) \/ ChangesLine(t, p, u, q)
    \/ Clears(u, q) \/ (u = t /\ q = p)

\* The steps of PlainText on a text in two halves.
LEMMA TypeAndErase ==
    ASSUME NEW P \in Marks, NEW Q \in Marks, NEW c \in Mark
    PROVE  LET R == Cat(P, One(c)) IN
           /\ Types(Cat(P, Q), Size(P), Cat(R, Q), Size(R))
           /\ Erases(Cat(R, Q), Size(R), Cat(P, Q), Size(P))
           /\ Moves(Cat(P, Cat(One(c), Q)), Size(P), Cat(R, Q), Size(R))
           /\ Moves(Cat(R, Q), Size(R), Cat(P, Cat(One(c), Q)), Size(P))
  <1> DEFINE R == Cat(P, One(c))
             k == Size(P)
  <1>1. One(c) \in Marks /\ Size(One(c)) = 1 /\ k \in Nat /\ Size(Q) \in Nat
    BY StrType DEF Marks
  <1>2. R \in Marks /\ Size(R) = k + 1 BY <1>1, CatType DEF Marks
  <1>3. Cat(R, Q) = Cat(P, Cat(One(c), Q)) BY <1>1, CatAssociative DEF Marks
  <1>4. InsertAt(Cat(P, Q), k + 1, c) = Cat(P, Cat(One(c), Q)) BY InsertBetween DEF Marks
  <1>5. RemoveAt(Cat(P, Cat(One(c), Q)), k + 1) = Cat(P, Q) BY RemoveBetween DEF Marks
  <1>6. Size(Cat(R, Q)) = (k + 1) + Size(Q) BY <1>2, CatType DEF Marks
  <1> HIDE DEF R, k
  <1>7. k \in 0..Size(Cat(R, Q)) /\ k + 1 \in 0..Size(Cat(R, Q)) /\ (k + 1) - 1 = k /\ k + 1 > 0
    BY <1>1, <1>6
  <1>8. Types(Cat(P, Q), k, Cat(R, Q), Size(R))
    <2> HIDE DEF Mark
    <2> QED BY <1>2, <1>3, <1>4 DEF Types
  <1>9. Erases(Cat(R, Q), Size(R), Cat(P, Q), k) BY <1>2, <1>3, <1>5, <1>7 DEF Erases
  <1>10. Moves(Cat(P, Cat(One(c), Q)), k, Cat(R, Q), Size(R))
    BY <1>2, <1>3, <1>7 DEF Moves, Size
  <1>11. Moves(Cat(R, Q), Size(R), Cat(P, Cat(One(c), Q)), k)
    BY <1>2, <1>3, <1>7 DEF Moves, Size
  <1> QED BY <1>8, <1>9, <1>10, <1>11 DEF R, k

\* A line of the text, by the places of its start and end.
StartsLine(U) == U = None \/ \E V \in Marks : U = Cat(V, One(NL))
EndsLine(W) == W = None \/ \E V \in Marks : W = Cat(One(NL), V)

\* Where the line of a cursor starts and ends in the text.
LEMMA LineAt ==
    ASSUME NEW U \in Marks, NEW l \in Strs, NEW W \in Marks, StartsLine(U), EndsLine(W),
           NEW k \in 0..Size(l)
    PROVE  LET t == Cat(U, Cat(l, W)) IN
           /\ TextLineStart(t, Size(U) + k) = Size(U)
           /\ TextLineEnd(t, Size(U) + k) = Size(U) + Size(l)
           /\ TextColumn(t, Size(U) + k) = k
           /\ Size(U) + k \in 0..Size(t)
           /\ Size(U) \in Nat /\ Size(l) \in Nat
  <1> DEFINE lw == Cat(l, W)
             t == Cat(U, lw)
             u == Size(U)
             n == Size(l)
             w == Size(W)
  <1>1. u \in Nat /\ n \in Nat /\ w \in Nat /\ k \in Nat /\ k <= n
    <2>1. u \in Nat /\ n \in Nat /\ w \in Nat BY StrType DEF Marks, Strs
    <2> QED BY <2>1
  <1>2. l \in Marks BY Sorts
  <1>3. lw \in Marks /\ Size(lw) = n + w BY <1>2, CatType DEF Marks
  <1>4. /\ \A i \in 1..n : lw[i] = l[i]
        /\ \A i \in 1..w : lw[n + i] = W[i]
    BY <1>2, CatAt DEF Marks
  <1> HIDE DEF lw
  <1>5. t \in Marks /\ Size(t) = u + (n + w) BY <1>3, CatType DEF Marks
  <1>6. /\ \A i \in 1..u : t[i] = U[i]
        /\ \A i \in 1..n + w : t[u + i] = lw[i]
    BY <1>3, CatAt DEF Marks
  <1> HIDE DEF t
  <1>7. \A i \in 1..n : t[u + i] # NL
    <2> TAKE i \in 1..n
    <2>1. i \in 1..n + w /\ l[i] \in Char BY <1>1, StrType DEF Strs
    <2> QED BY <1>4, <1>6, <2>1, ComposeAssumption
  <1>8. u = 0 \/ (u \in 1..u /\ t[u] = NL)
    <2>1. CASE U = None BY <2>1, StrType DEF Marks
    <2>2. CASE \E V \in Marks : U = Cat(V, One(NL))
      <3>1. PICK V \in Marks : U = Cat(V, One(NL)) BY <2>2
      <3>2. One(NL) \in Marks /\ Size(One(NL)) = 1 /\ One(NL)[1] = NL /\ Size(V) \in Nat
        BY Sorts, StrType DEF Marks
      <3>3. u = Size(V) + 1 BY <3>1, <3>2, CatType DEF Marks
      <3>4. 1 \in 1..Size(One(NL)) /\ u \in 1..u BY <3>2, <3>3
      <3>5. Cat(V, One(NL))[Size(V) + 1] = One(NL)[1] BY <3>2, <3>4, CatAt DEF Marks
      <3>6. U[u] = NL BY <3>1, <3>2, <3>3, <3>5
      <3> QED BY <1>6, <3>4, <3>6
    <2> QED BY <2>1, <2>2 DEF StartsLine
  <1>9. w = 0 \/ (1 \in 1..w /\ t[u + (n + 1)] = NL)
    <2>1. CASE W = None BY <2>1, StrType DEF Marks
    <2>2. CASE \E V \in Marks : W = Cat(One(NL), V)
      <3>1. PICK V \in Marks : W = Cat(One(NL), V) BY <2>2
      <3>2. One(NL) \in Marks /\ Size(One(NL)) = 1 /\ One(NL)[1] = NL /\ Size(V) \in Nat
        BY Sorts, StrType DEF Marks
      <3>3. w = 1 + Size(V) BY <3>1, <3>2, CatType DEF Marks
      <3>4. 1 \in 1..Size(One(NL)) /\ 1 \in 1..w /\ n + 1 \in 1..n + w BY <1>1, <3>2, <3>3
      <3>5. W[1] = NL BY <3>1, <3>2, <3>4, CatAt DEF Marks
      <3>6. lw[n + 1] = NL BY <1>4, <3>4, <3>5
      <3> QED BY <1>6, <3>4, <3>6
    <2> QED BY <2>1, <2>2 DEF EndsLine
  <1> HIDE DEF u, n, w
  <1>10. TextLineStart(t, u + k) = u
    <2> DEFINE S == {0} \cup {q \in 1..u + k : t[q] = NL}
    <2>1. S \in SUBSET Int BY <1>1
    <2>2. u \in S BY <1>1, <1>8
    <2>3. \A q \in S : q <= u
      <3> SUFFICES ASSUME NEW q \in S, ~(q <= u) PROVE FALSE BY <1>1, <2>1
      <3>1. q \in 1..u + k /\ t[q] = NL BY <1>1
      <3>2. q - u \in 1..n /\ u + (q - u) = q BY <1>1, <3>1
      <3> QED BY <1>7, <3>1, <3>2
    <2> HIDE DEF S
    <2>4. Max(S) = u BY <2>1, <2>2, <2>3, MaxIs
    <2> QED BY <2>4 DEF TextLineStart, S
  <1>11. TextLineEnd(t, u + k) = u + n
    <2> DEFINE N == {r \in (u + k) + 1..Size(t) : t[r] = NL}
               S == {Size(t)} \cup {q - 1 : q \in N}
    <2>1. \A q \in N : q \in Int /\ q - 1 \in Int /\ q >= u + k + 1 /\ q <= u + (n + w) /\ t[q] = NL
      BY <1>1, <1>5
    <2>2. S \in SUBSET Int BY <1>1, <1>5, <2>1
    <2>3. u + n \in S
      <3>1. CASE w = 0 BY <1>1, <1>5, <3>1
      <3>2. CASE w # 0
        <4>1. u + (n + 1) \in N /\ (u + (n + 1)) - 1 = u + n BY <1>1, <1>5, <1>9, <3>2
        <4> HIDE DEF N
        <4> QED BY <4>1
      <3> QED BY <3>1, <3>2
    <2>4. \A q \in N : u + n <= q - 1
      <3> SUFFICES ASSUME NEW q \in N, ~(u + n <= q - 1) PROVE FALSE BY <1>1, <2>1
      <3>1. q - u \in 1..n /\ u + (q - u) = q /\ t[q] = NL BY <1>1, <2>1
      <3> QED BY <1>7, <3>1
    <2>5. u + n <= Size(t) BY <1>1, <1>5
    <2> HIDE DEF N
    <2>6. \A q \in S : u + n <= q BY <2>4, <2>5
    <2> HIDE DEF S
    <2>7. Min(S) = u + n BY <2>2, <2>3, <2>6, MinIs
    <2> QED BY <2>7 DEF TextLineEnd, S, N, Size
  <1>12. TextColumn(t, u + k) = k BY <1>1, <1>10 DEF TextColumn
  <1>13. u + k \in 0..Size(t) BY <1>1, <1>5
  <1> QED BY <1>1, <1>10, <1>11, <1>12, <1>13 DEF t, u, n, lw

LEMMA StartsAndEnds ==
    ASSUME NEW A \in Lists
    PROVE  StartsLine(Start(A)) /\ EndsLine(Rest(A))
  <1>1. CASE A = None BY <1>1, StartRest DEF StartsLine, EndsLine
  <1>2. CASE A # None BY <1>2, StartRest, JoinType DEF StartsLine, EndsLine
  <1> QED BY <1>1, <1>2

\* One line and the next: from the one to the other.
LineText(A, l, B) == Cat(Start(A), Cat(l, Rest(B)))
Place(A, i) == Size(Start(A)) + i

\* From a line to the next, and back, the text stays.
LEMMA BetweenLines ==
    ASSUME NEW A \in Lists, NEW B \in Lists, NEW l \in Strs, NEW h \in Strs,
           NEW i \in 0..Size(l), NEW j \in 0..Size(h)
    PROVE  /\ LineText(A, l, Cat(One(h), B)) = LineText(Cat(A, One(l)), h, B)
           /\ i = Min({j, Size(l)}) =>
                ChangesLine(LineText(Cat(A, One(l)), h, B), Place(Cat(A, One(l)), j),
                            LineText(A, l, Cat(One(h), B)), Place(A, i))
           /\ j = Min({i, Size(h)}) =>
                ChangesLine(LineText(A, l, Cat(One(h), B)), Place(A, i),
                            LineText(Cat(A, One(l)), h, B), Place(Cat(A, One(l)), j))
  <1> DEFINE C == Cat(A, One(l))
             D == Cat(One(h), B)
             t == Cat(Start(A), Cat(l, Rest(D)))
             p == Size(Start(A)) + i
             q == Size(Start(C)) + j
  <1>1. One(l) \in Lists /\ One(h) \in Lists /\ l \in Marks /\ h \in Marks
        /\ One(NL) \in Marks /\ Size(One(NL)) = 1
    BY Sorts, StrType DEF Marks
  <1>2. C \in Lists /\ D \in Lists BY <1>1, CatType DEF Lists
  <1>3. Start(C) = Cat(Start(A), Cat(l, One(NL))) /\ Rest(D) = Cat(One(NL), Cat(h, Rest(B)))
    BY NextLine
  <1>4. /\ Start(A) \in Marks /\ Rest(B) \in Marks /\ Start(C) \in Marks /\ Rest(D) \in Marks
        /\ StartsLine(Start(A)) /\ StartsLine(Start(C)) /\ EndsLine(Rest(B)) /\ EndsLine(Rest(D))
    BY <1>2, StartRest, StartsAndEnds
  <1> HIDE DEF C, D
  <1>5. t = Cat(Start(C), Cat(h, Rest(B)))
    <2> DEFINE R == Cat(h, Rest(B))
               e == One(NL)
    <2>1. R \in Marks /\ Cat(l, e) \in Marks BY <1>1, <1>4, CatType DEF Marks
    <2>2. Cat(Cat(Start(A), Cat(l, e)), R) = Cat(Start(A), Cat(Cat(l, e), R))
      BY <1>4, <2>1, CatAssociative DEF Marks
    <2>3. Cat(Cat(l, e), R) = Cat(l, Cat(e, R)) BY <1>1, <2>1, CatAssociative DEF Marks
    <2> QED BY <1>3, <2>2, <2>3
  <1>6. Size(Start(C)) = Size(Start(A)) + (Size(l) + 1)
    <2>1. Cat(l, One(NL)) \in Marks /\ Size(Cat(l, One(NL))) = Size(l) + 1
      BY <1>1, CatType DEF Marks
    <2> QED BY <1>3, <1>4, <2>1, CatType DEF Marks
  <1>7. /\ TextLineStart(t, p) = Size(Start(A)) /\ TextLineEnd(t, p) = Size(Start(A)) + Size(l)
        /\ TextColumn(t, p) = i /\ p \in 0..Size(t) /\ Size(Start(A)) \in Nat /\ Size(l) \in Nat
    BY <1>4, LineAt
  <1>8. /\ TextLineStart(t, q) = Size(Start(C)) /\ TextLineEnd(t, q) = Size(Start(C)) + Size(h)
        /\ TextColumn(t, q) = j /\ q \in 0..Size(t) /\ Size(Start(C)) \in Nat /\ Size(h) \in Nat
    <2> DEFINE u == Cat(Start(C), Cat(h, Rest(B)))
    <2>1. /\ TextLineStart(u, q) = Size(Start(C)) /\ TextLineEnd(u, q) = Size(Start(C)) + Size(h)
          /\ TextColumn(u, q) = j /\ q \in 0..Size(u) /\ Size(Start(C)) \in Nat /\ Size(h) \in Nat
      BY <1>4, LineAt
    <2> HIDE DEF u, t, q
    <2>2. t = u BY <1>5 DEF u
    <2> QED BY <2>1, <2>2
  <1> HIDE DEF t, p, q
  <1>9. /\ TextLineEnd(t, p) = TextLineStart(t, q) - 1 /\ TextLineStart(t, q) = TextLineEnd(t, p) + 1
        /\ TextLineEnd(t, p) - TextLineStart(t, p) = Size(l)
        /\ TextLineEnd(t, q) - TextLineStart(t, q) = Size(h)
    BY <1>6, <1>7, <1>8
  <1>10. i = Min({j, Size(l)}) => ChangesLine(t, q, t, p)
    BY <1>7, <1>8, <1>9 DEF ChangesLine, Size
  <1>11. j = Min({i, Size(h)}) => ChangesLine(t, p, t, q)
    BY <1>7, <1>8, <1>9 DEF ChangesLine, Size
  <1>12. /\ LineText(A, l, D) = t /\ LineText(C, h, B) = t /\ Place(A, i) = p /\ Place(C, j) = q
    BY <1>5 DEF LineText, Place, t, p, q
  <1> QED BY <1>10, <1>11, <1>12 DEF C, D

\* What is before the cursor in the text, and what is after it.
Before(A, x) == Cat(Start(A), x)
After(y, B)  == Cat(y, Rest(B))

\* The text of a spot is its two halves, and the place is between them.
LEMMA SpotPlace ==
    ASSUME NEW A \in Lists, NEW x \in Strs, NEW y \in Strs, NEW B \in Lists
    PROVE  /\ Area!AreaText(Spot(A, x, y, B)) = Cat(Before(A, x), After(y, B))
           /\ Area!AreaPos(Spot(A, x, y, B)) = Size(Before(A, x))
           /\ Before(A, x) \in Marks /\ After(y, B) \in Marks
  <1>1. Start(A) \in Marks /\ Rest(B) \in Marks /\ x \in Marks /\ y \in Marks BY StartRest, Sorts
  <1>2. /\ Before(A, x) \in Marks /\ After(y, B) \in Marks
        /\ Size(Before(A, x)) = Size(Start(A)) + Size(x)
    BY <1>1, CatType DEF Marks, Before, After
  <1>3. Cat(Before(A, x), After(y, B)) = Cat(Start(A), Cat(x, Cat(y, Rest(B))))
    BY <1>1, <1>2, CatAssociative DEF Marks, Before, After
  <1> QED BY <1>2, <1>3, SpotText

LEMMA BeforeAndAfter ==
    ASSUME NEW A \in Lists, NEW x \in Strs, NEW y \in Strs, NEW B \in Lists
    PROVE  /\ \A c \in Char : Before(A, Cat(x, One(c))) = Cat(Before(A, x), One(c))
           /\ \A c \in Char : After(Cat(One(c), y), B) = Cat(One(c), After(y, B))
           /\ Before(Cat(A, One(x)), None) = Cat(Before(A, x), One(NL))
           /\ After(None, Cat(One(y), B)) = Cat(One(NL), After(y, B))
  <1>1. /\ Start(A) \in Marks /\ Rest(B) \in Marks /\ x \in Marks /\ y \in Marks
        /\ One(NL) \in Marks /\ One(x) \in Lists /\ One(y) \in Lists
        /\ \A c \in Char : One(c) \in Marks
    BY StartRest, Sorts, StrType DEF Marks
  <1>2. \A c \in Char : Before(A, Cat(x, One(c))) = Cat(Before(A, x), One(c))
    BY <1>1, CatAssociative DEF Marks, Before
  <1>3. \A c \in Char : After(Cat(One(c), y), B) = Cat(One(c), After(y, B))
    BY <1>1, CatAssociative DEF Marks, After
  <1>4. Before(Cat(A, One(x)), None) = Cat(Before(A, x), One(NL))
    <2>1. Cat(A, One(x)) \in Lists BY <1>1, CatType DEF Lists
    <2>2. Start(Cat(A, One(x))) \in Marks BY <2>1, StartRest
    <2>3. Before(Cat(A, One(x)), None) = Cat(Start(A), Cat(x, One(NL)))
      BY <2>2, NextLine, CatNone DEF Marks, Before
    <2> QED BY <1>1, <2>3, CatAssociative DEF Marks, Before
  <1>5. After(None, Cat(One(y), B)) = Cat(One(NL), After(y, B))
    <2>1. Cat(One(y), B) \in Lists BY <1>1, CatType DEF Lists
    <2>2. Rest(Cat(One(y), B)) \in Marks BY <2>1, StartRest
    <2> QED BY <2>2, NextLine, CatNone DEF Marks, After
  <1> QED BY <1>2, <1>3, <1>4, <1>5

BodyStep(a, b) ==
    PlainStep(Area!AreaText(a), Area!AreaPos(a), Area!AreaText(b), Area!AreaPos(b))

\* The text and place of a spot, by the two halves of its text.
LEMMA HalvesStep ==
    ASSUME NEW a, NEW b, NEW P \in Marks, NEW Q \in Marks, NEW c \in Mark,
           \/ /\ Area!AreaText(a) = Cat(P, Q) /\ Area!AreaPos(a) = Size(P)
              /\ Area!AreaText(b) = Cat(Cat(P, One(c)), Q) /\ Area!AreaPos(b) = Size(Cat(P, One(c)))
           \/ /\ Area!AreaText(a) = Cat(Cat(P, One(c)), Q) /\ Area!AreaPos(a) = Size(Cat(P, One(c)))
              /\ Area!AreaText(b) = Cat(P, Q) /\ Area!AreaPos(b) = Size(P)
           \/ /\ Area!AreaText(a) = Cat(P, Cat(One(c), Q)) /\ Area!AreaPos(a) = Size(P)
              /\ Area!AreaText(b) = Cat(Cat(P, One(c)), Q) /\ Area!AreaPos(b) = Size(Cat(P, One(c)))
           \/ /\ Area!AreaText(a) = Cat(Cat(P, One(c)), Q) /\ Area!AreaPos(a) = Size(Cat(P, One(c)))
              /\ Area!AreaText(b) = Cat(P, Cat(One(c), Q)) /\ Area!AreaPos(b) = Size(P)
    PROVE  BodyStep(a, b)
  BY TypeAndErase DEF BodyStep, PlainStep

LEMMA BodyStays == \A a : BodyStep(a, a)
  BY DEF BodyStep, PlainStep

\* Each operation on the body keeps it well formed and is a step of PlainText.
LEMMA BodyInsert ==
    ASSUME NEW a, IsArea(a), NEW c \in Char
    PROVE  IsArea(Area!AreaInsert(a, c)) /\ BodyStep(a, Area!AreaInsert(a, c))
  <1>1. PICK A, B \in Lists, x, y \in Strs : a = Spot(A, x, y, B) BY AreaSpot
  <1> DEFINE z == Cat(x, One(c))
             b == Spot(A, z, y, B)
  <1>2. One(c) \in Strs /\ c \in Mark BY StrType, Sorts DEF Strs
  <1>3. z \in Strs BY <1>2, CatType DEF Strs
  <1>4. Area!AreaInsert(a, c) = b BY <1>1, SpotInsert
  <1>5. Before(A, z) = Cat(Before(A, x), One(c)) BY BeforeAndAfter
  <1> HIDE DEF z
  <1>6. IsArea(b) BY <1>3, SpotArea
  <1>7. BodyStep(a, b) BY <1>1, <1>2, <1>3, <1>5, SpotPlace, HalvesStep
  <1> QED BY <1>4, <1>6, <1>7

LEMMA BodyNewline ==
    ASSUME NEW a, IsArea(a)
    PROVE  IsArea(Area!AreaNewline(a)) /\ BodyStep(a, Area!AreaNewline(a))
  <1>1. PICK A, B \in Lists, x, y \in Strs : a = Spot(A, x, y, B) BY AreaSpot
  <1> DEFINE C == Cat(A, One(x))
             b == Spot(C, None, y, B)
  <1>2. One(x) \in Lists /\ None \in Strs /\ NL \in Mark BY Sorts
  <1>3. C \in Lists BY <1>2, CatType DEF Lists
  <1>4. Area!AreaNewline(a) = b BY <1>1, SpotNewline
  <1>5. Before(C, None) = Cat(Before(A, x), One(NL)) BY BeforeAndAfter
  <1> HIDE DEF C
  <1>6. IsArea(b) BY <1>2, <1>3, SpotArea
  <1>7. BodyStep(a, b) BY <1>1, <1>2, <1>3, <1>5, SpotPlace, HalvesStep
  <1> QED BY <1>4, <1>6, <1>7

\* The cursor is after a character, after a line break, or at the start of
\* all; and likewise before one.
LEMMA SpotCases ==
    ASSUME NEW A \in Lists, NEW x \in Strs, NEW y \in Strs, NEW B \in Lists
    PROVE  /\ \/ \E z \in Strs, e \in Char : x = Cat(z, One(e))
              \/ \E C \in Lists, l \in Strs : x = None /\ A = Cat(C, One(l))
              \/ x = None /\ A = None
           /\ \/ \E z \in Strs, e \in Char : y = Cat(One(e), z)
              \/ \E D \in Lists, l \in Strs : y = None /\ B = Cat(One(l), D)
              \/ y = None /\ B = None
  BY CutEnds DEF Lists, Strs

LEMMA BodyBackspace ==
    ASSUME NEW a, IsArea(a)
    PROVE  IsArea(Area!AreaBackspace(a)) /\ BodyStep(a, Area!AreaBackspace(a))
  <1>1. PICK A, B \in Lists, x, y \in Strs : a = Spot(A, x, y, B) BY AreaSpot
  <1>2. None \in Strs /\ None \in Lists /\ NL \in Mark /\ \A c \in Char : c \in Mark BY Sorts
  <1>3. CASE \E z \in Strs, e \in Char : x = Cat(z, One(e))
    <2>1. PICK z \in Strs, e \in Char : x = Cat(z, One(e)) BY <1>3
    <2>2. Area!AreaBackspace(a) = Spot(A, z, y, B) BY <1>1, <2>1, SpotBackspace
    <2>3. Before(A, x) = Cat(Before(A, z), One(e)) BY <2>1, BeforeAndAfter
    <2>4. BodyStep(a, Spot(A, z, y, B)) BY <1>1, <1>2, <2>3, SpotPlace, HalvesStep
    <2> QED BY <2>2, <2>4, SpotArea
  <1>4. CASE \E C \in Lists, l \in Strs : x = None /\ A = Cat(C, One(l))
    <2>1. PICK C \in Lists, l \in Strs : x = None /\ A = Cat(C, One(l)) BY <1>4
    <2>2. Area!AreaBackspace(a) = Spot(C, l, y, B) BY <1>1, <2>1, SpotBackspace
    <2>3. Before(A, x) = Cat(Before(C, l), One(NL)) BY <2>1, BeforeAndAfter
    <2>4. BodyStep(a, Spot(C, l, y, B)) BY <1>1, <1>2, <2>3, SpotPlace, HalvesStep
    <2> QED BY <2>2, <2>4, SpotArea
  <1>5. CASE x = None /\ A = None
    <2>1. Area!AreaBackspace(a) = a BY <1>1, <1>5, <1>2, SpotBackspace
    <2> QED BY <2>1, BodyStays
  <1> QED BY <1>3, <1>4, <1>5, SpotCases

LEMMA BodyLeft ==
    ASSUME NEW a, IsArea(a)
    PROVE  IsArea(Area!AreaLeft(a)) /\ BodyStep(a, Area!AreaLeft(a))
  <1>1. PICK A, B \in Lists, x, y \in Strs : a = Spot(A, x, y, B) BY AreaSpot
  <1>2. None \in Strs /\ None \in Lists /\ NL \in Mark /\ \A c \in Char : c \in Mark BY Sorts
  <1>3. CASE \E z \in Strs, e \in Char : x = Cat(z, One(e))
    <2>1. PICK z \in Strs, e \in Char : x = Cat(z, One(e)) BY <1>3
    <2> DEFINE v == Cat(One(e), y)
    <2>2. Area!AreaLeft(a) = Spot(A, z, v, B) BY <1>1, <2>1, SpotLeftRight
    <2>3. Before(A, x) = Cat(Before(A, z), One(e)) /\ After(v, B) = Cat(One(e), After(y, B))
      BY <2>1, BeforeAndAfter
    <2>4. v \in Strs
      <3>1. One(e) \in Strs BY StrType DEF Strs
      <3> QED BY <3>1, CatType DEF Strs
    <2> HIDE DEF v
    <2>5. After(y, B) \in Marks BY SpotPlace
    <2>6. BodyStep(a, Spot(A, z, v, B)) BY <1>1, <1>2, <2>3, <2>4, <2>5, SpotPlace, HalvesStep
    <2> QED BY <2>2, <2>4, <2>6, SpotArea
  <1>4. CASE \E C \in Lists, l \in Strs : x = None /\ A = Cat(C, One(l))
    <2>1. PICK C \in Lists, l \in Strs : x = None /\ A = Cat(C, One(l)) BY <1>4
    <2> DEFINE D == Cat(One(y), B)
    <2>2. Area!AreaLeft(a) = Spot(C, l, None, D) BY <1>1, <2>1, SpotLeftRight
    <2>3. Before(A, x) = Cat(Before(C, l), One(NL)) /\ After(None, D) = Cat(One(NL), After(y, B))
      BY <2>1, BeforeAndAfter
    <2>4. D \in Lists
      <3>1. One(y) \in Lists BY Sorts
      <3> QED BY <3>1, CatType DEF Lists
    <2> HIDE DEF D
    <2>5. After(y, B) \in Marks BY SpotPlace
    <2>6. BodyStep(a, Spot(C, l, None, D)) BY <1>1, <1>2, <2>3, <2>4, <2>5, SpotPlace, HalvesStep
    <2> QED BY <1>2, <2>2, <2>4, <2>6, SpotArea
  <1>5. CASE x = None /\ A = None
    <2>1. Area!AreaLeft(a) = a BY <1>1, <1>5, <1>2, SpotLeftRight
    <2> QED BY <2>1, BodyStays
  <1> QED BY <1>3, <1>4, <1>5, SpotCases

LEMMA BodyRight ==
    ASSUME NEW a, IsArea(a)
    PROVE  IsArea(Area!AreaRight(a)) /\ BodyStep(a, Area!AreaRight(a))
  <1>1. PICK A, B \in Lists, x, y \in Strs : a = Spot(A, x, y, B) BY AreaSpot
  <1>2. None \in Strs /\ None \in Lists /\ NL \in Mark /\ \A c \in Char : c \in Mark BY Sorts
  <1>3. CASE \E z \in Strs, e \in Char : y = Cat(One(e), z)
    <2>1. PICK z \in Strs, e \in Char : y = Cat(One(e), z) BY <1>3
    <2> DEFINE v == Cat(x, One(e))
    <2>2. Area!AreaRight(a) = Spot(A, v, z, B) BY <1>1, <2>1, SpotLeftRight
    <2>3. Before(A, v) = Cat(Before(A, x), One(e)) /\ After(y, B) = Cat(One(e), After(z, B))
      BY <2>1, BeforeAndAfter
    <2>4. v \in Strs
      <3>1. One(e) \in Strs BY StrType DEF Strs
      <3> QED BY <3>1, CatType DEF Strs
    <2> HIDE DEF v
    <2>5. After(z, B) \in Marks BY SpotPlace
    <2>6. BodyStep(a, Spot(A, v, z, B)) BY <1>1, <1>2, <2>3, <2>4, <2>5, SpotPlace, HalvesStep
    <2> QED BY <2>2, <2>4, <2>6, SpotArea
  <1>4. CASE \E D \in Lists, l \in Strs : y = None /\ B = Cat(One(l), D)
    <2>1. PICK D \in Lists, l \in Strs : y = None /\ B = Cat(One(l), D) BY <1>4
    <2> DEFINE C == Cat(A, One(x))
    <2>2. Area!AreaRight(a) = Spot(C, None, l, D) BY <1>1, <2>1, SpotLeftRight
    <2>3. Before(C, None) = Cat(Before(A, x), One(NL)) /\ After(y, B) = Cat(One(NL), After(l, D))
      BY <2>1, BeforeAndAfter
    <2>4. C \in Lists
      <3>1. One(x) \in Lists BY Sorts
      <3> QED BY <3>1, CatType DEF Lists
    <2> HIDE DEF C
    <2>5. After(l, D) \in Marks BY SpotPlace
    <2>6. BodyStep(a, Spot(C, None, l, D)) BY <1>1, <1>2, <2>3, <2>4, <2>5, SpotPlace, HalvesStep
    <2> QED BY <1>2, <2>2, <2>4, <2>6, SpotArea
  <1>5. CASE y = None /\ B = None
    <2>1. Area!AreaRight(a) = a BY <1>1, <1>5, SpotLeftRight
    <2> QED BY <2>1, BodyStays
  <1> QED BY <1>3, <1>4, <1>5, SpotCases

LEMMA BodyUp ==
    ASSUME NEW a, IsArea(a)
    PROVE  IsArea(Area!AreaUp(a)) /\ BodyStep(a, Area!AreaUp(a))
  <1>1. PICK A, B \in Lists, x, y \in Strs : a = Spot(A, x, y, B) BY AreaSpot
  <1>2. CASE A = None
    <2>1. Area!AreaUp(a) = a BY <1>1, <1>2, SpotTopBottom
    <2> QED BY <2>1, BodyStays
  <1>3. CASE A # None
    <2>1. PICK C \in Lists, l \in Strs : A = Cat(C, One(l)) BY <1>3, CutEnds DEF Lists
    <2> DEFINE h == Cat(x, y)
               D == Cat(One(h), B)
    <2>2. PICK p, q \in Strs : /\ AtColumn(p, q, l, x)
                               /\ Area!AreaUp(a) = Spot(C, p, q, D)
      <3>1. \E p, q \in Strs : GoesUp(C, l, x, y, B, p, q) BY SpotUp
      <3> QED BY <1>1, <2>1, <3>1 DEF GoesUp
    <2>3. h \in Strs /\ Size(h) = Size(x) + Size(y) /\ Size(x) \in Nat /\ Size(y) \in Nat
      BY SpotSizes
    <2>4. /\ l = Cat(p, q) /\ Size(p) = Min({Size(x), Size(l)})
          /\ Size(l) = Size(p) + Size(q) /\ Size(p) \in Nat /\ Size(q) \in Nat
      BY <2>2, SpotSizes DEF AtColumn
    <2>5. Size(x) \in 0..Size(h) /\ Size(p) \in 0..Size(l) BY <2>3, <2>4
    <2>6. Area!AreaText(a) = LineText(A, h, B)
          /\ Area!AreaPos(a) = Place(A, Size(x))
      <3>1. x \in Marks /\ y \in Marks /\ Rest(B) \in Marks BY Sorts, StartRest
      <3> QED BY <1>1, <3>1, SpotText, CatAssociative DEF Marks, LineText, Place
    <2> HIDE DEF h
    <2>7. D \in Lists
      <3>1. One(h) \in Lists BY <2>3, Sorts
      <3> QED BY <3>1, CatType DEF Lists
    <2>8. ChangesLine(LineText(A, h, B), Place(A, Size(x)),
                      LineText(C, l, D), Place(C, Size(p)))
      BY <2>1, <2>3, <2>4, <2>5, BetweenLines
    <2>9. Area!AreaText(Spot(C, p, q, D)) = LineText(C, l, D)
          /\ Area!AreaPos(Spot(C, p, q, D)) = Place(C, Size(p))
      <3>1. p \in Marks /\ q \in Marks /\ Rest(D) \in Marks BY <2>7, Sorts, StartRest
      <3> HIDE DEF D
      <3> QED BY <2>4, <2>7, <3>1, SpotText, CatAssociative DEF Marks, LineText, Place
    <2>10. BodyStep(a, Spot(C, p, q, D)) BY <2>6, <2>8, <2>9 DEF BodyStep, PlainStep
    <2> QED BY <2>2, <2>7, <2>10, SpotArea
  <1> QED BY <1>2, <1>3

LEMMA BodyDown ==
    ASSUME NEW a, IsArea(a)
    PROVE  IsArea(Area!AreaDown(a)) /\ BodyStep(a, Area!AreaDown(a))
  <1>1. PICK A, B \in Lists, x, y \in Strs : a = Spot(A, x, y, B) BY AreaSpot
  <1>2. CASE B = None
    <2>1. Area!AreaDown(a) = a BY <1>1, <1>2, SpotTopBottom
    <2> QED BY <2>1, BodyStays
  <1>3. CASE B # None
    <2>1. PICK l \in Strs, D \in Lists : B = Cat(One(l), D) BY <1>3, CutEnds DEF Lists
    <2> DEFINE h == Cat(x, y)
               C == Cat(A, One(h))
    <2>2. PICK p, q \in Strs : /\ AtColumn(p, q, l, x)
                               /\ Area!AreaDown(a) = Spot(C, p, q, D)
      <3>1. \E p, q \in Strs : GoesDown(A, l, x, y, D, p, q) BY SpotDown
      <3> QED BY <1>1, <2>1, <3>1 DEF GoesDown
    <2>3. h \in Strs /\ Size(h) = Size(x) + Size(y) /\ Size(x) \in Nat /\ Size(y) \in Nat
      BY SpotSizes
    <2>4. /\ l = Cat(p, q) /\ Size(p) = Min({Size(x), Size(l)})
          /\ Size(l) = Size(p) + Size(q) /\ Size(p) \in Nat /\ Size(q) \in Nat
      BY <2>2, SpotSizes DEF AtColumn
    <2>5. Size(x) \in 0..Size(h) /\ Size(p) \in 0..Size(l) BY <2>3, <2>4
    <2>6. Area!AreaText(a) = LineText(A, h, B)
          /\ Area!AreaPos(a) = Place(A, Size(x))
      <3>1. x \in Marks /\ y \in Marks /\ Rest(B) \in Marks BY Sorts, StartRest
      <3> QED BY <1>1, <3>1, SpotText, CatAssociative DEF Marks, LineText, Place
    <2> HIDE DEF h
    <2>7. C \in Lists
      <3>1. One(h) \in Lists BY <2>3, Sorts
      <3> QED BY <3>1, CatType DEF Lists
    <2>8. ChangesLine(LineText(A, h, B), Place(A, Size(x)),
                      LineText(C, l, D), Place(C, Size(p)))
      BY <2>1, <2>3, <2>4, <2>5, BetweenLines
    <2>9. Area!AreaText(Spot(C, p, q, D)) = LineText(C, l, D)
          /\ Area!AreaPos(Spot(C, p, q, D)) = Place(C, Size(p))
      <3>1. p \in Marks /\ q \in Marks /\ Rest(D) \in Marks BY Sorts, StartRest
      <3> HIDE DEF C
      <3> QED BY <2>4, <2>7, <3>1, SpotText, CatAssociative DEF Marks, LineText, Place
    <2>10. BodyStep(a, Spot(C, p, q, D)) BY <2>6, <2>8, <2>9 DEF BodyStep, PlainStep
    <2> QED BY <2>2, <2>7, <2>10, SpotArea
  <1> QED BY <1>2, <1>3

\* The empty body.
LEMMA BodyEmpty ==
    /\ IsArea(Area!EmptyArea)
    /\ Area!AreaText(Area!EmptyArea) = <<>> /\ Area!AreaPos(Area!EmptyArea) = 0
    /\ \A a : BodyStep(a, Area!EmptyArea)
  <1>1. None \in Lists /\ None \in Strs /\ One(None) \in Lists BY Sorts
  <1>2. Cat(None, Cat(One(Cat(None, None)), None)) = One(None)
    <2>1. Cat(None, None) = None BY <1>1, CatNone DEF Strs
    <2> QED BY <1>1, <2>1, CatNone DEF Lists
  <1>3. Size(None) + 1 = 1 /\ Size(None) = 0 BY StrType
  <1>4. Area!EmptyArea = Area3(One(None), 1, 0) BY DEF Area!EmptyArea, Area3, One, None
  <1>5. Area!EmptyArea = Spot(None, None, None, None) BY <1>2, <1>3, <1>4 DEF Spot
  <1>6. Start(None) = None /\ Rest(None) = None /\ None \in Marks BY StartRest, Sorts
  <1>7. Before(None, None) = None /\ After(None, None) = None /\ Cat(None, None) = None
    BY <1>6, CatNone DEF Marks, Before, After
  <1>8. Area!AreaText(Area!EmptyArea) = None /\ Area!AreaPos(Area!EmptyArea) = 0
    BY <1>1, <1>3, <1>5, <1>7, SpotPlace
  <1>9. None = <<>> BY DEF None
  <1> QED BY <1>1, <1>5, <1>8, <1>9, SpotArea DEF BodyStep, PlainStep, Clears

----------------------------------------------------------------------------
(* The fields *)

\* A text with a cursor in it, of characters in C.
IsInput(f, C) == f = [value |-> f.value, cursor |-> f.cursor] /\ Area!InputOK(f, C)

LEMMA SameMax == \A S : Area!Max(S) = Max(S)
  BY Zenon DEF Area!Max, Max

LEMMA InputEmpty == \A C : IsInput(Area!EmptyInput, C)
  BY DEF IsInput, Area!InputOK, Area!EmptyInput

LEMMA InputWith ==
    ASSUME NEW C, NEW v \in Seq(C)
    PROVE  IsInput(Area!WithValue(v), C)
  BY DEF IsInput, Area!InputOK, Area!WithValue

\* A field cut at its cursor.
LEMMA InputCut ==
    ASSUME NEW C, NEW f, IsInput(f, C)
    PROVE  \E s, t \in Str(C) : f.value = Cat(s, t) /\ f.cursor = Size(s)
  <1>1. f.value \in Str(C) /\ f.cursor \in 0..Size(f.value)
    BY DEF IsInput, Area!InputOK, Str, Size
  <1> QED BY <1>1, Cut

LEMMA InputMade ==
    ASSUME NEW C, NEW s \in Str(C), NEW t \in Str(C)
    PROVE  IsInput([value |-> Cat(s, t), cursor |-> Size(s)], C)
  <1>1. Cat(s, t) \in Str(C) /\ Size(Cat(s, t)) = Size(s) + Size(t) BY CatType
  <1>2. Size(s) \in Nat /\ Size(t) \in Nat BY StrType
  <1>3. Size(s) \in 0..Size(Cat(s, t)) BY <1>1, <1>2
  <1> QED BY <1>1, <1>3 DEF IsInput, Area!InputOK, Str, Size

\* What the keys make of a field.
LEMMA InputKeys ==
    ASSUME NEW C, NEW f, IsInput(f, C)
    PROVE  /\ \A c \in C : IsInput(Area!InputInsert(f, c), C)
           /\ IsInput(Area!InputBackspace(f), C)
           /\ IsInput(Area!InputLeft(f), C) /\ Area!InputLeft(f).value = f.value
           /\ IsInput(Area!InputRight(f), C) /\ Area!InputRight(f).value = f.value
  <1>1. PICK s, t \in Str(C) : f.value = Cat(s, t) /\ f.cursor = Size(s) BY InputCut
  <1>2. Size(s) \in Nat BY StrType
  <1>3. ASSUME NEW c \in C PROVE IsInput(Area!InputInsert(f, c), C)
    <2> DEFINE u == Cat(s, One(c))
    <2>1. One(c) \in Str(C) /\ Size(One(c)) = 1 BY StrType
    <2>2. u \in Str(C) /\ Size(u) = Size(s) + 1 BY <2>1, CatType
    <2>3. InsertAt(f.value, f.cursor + 1, c) = Cat(u, t)
      BY <1>1, <2>1, InsertBetween, CatAssociative
    <2> HIDE DEF u
    <2>4. Area!InputInsert(f, c) = [value |-> Cat(u, t), cursor |-> Size(u)]
      BY <1>1, <2>2, <2>3, SameOperators DEF Area!InputInsert
    <2> QED BY <2>2, <2>4, InputMade
  <1>4. IsInput(Area!InputBackspace(f), C)
    <2>1. CASE f.cursor = 0 BY <2>1 DEF Area!InputBackspace
    <2>2. CASE f.cursor # 0
      <3>1. s # None BY <1>1, <2>2, StrEmpty
      <3>2. PICK u \in Str(C), e \in C : s = Cat(u, One(e)) /\ Size(s) = Size(u) + 1
        BY <3>1, CutEnds
      <3>3. One(e) \in Str(C) /\ Size(u) \in Nat BY StrType
      <3>4. RemoveAt(f.value, f.cursor) = Cat(u, t)
        BY <1>1, <3>2, <3>3, RemoveBetween, CatAssociative
      <3>5. f.cursor - 1 = Size(u) BY <1>1, <3>2, <3>3
      <3>6. Area!InputBackspace(f) = [value |-> Cat(u, t), cursor |-> Size(u)]
        BY <2>2, <3>4, <3>5, SameOperators DEF Area!InputBackspace
      <3> QED BY <3>6, InputMade
    <2> QED BY <2>1, <2>2
  <1> DEFINE v == f.value
             k == f.cursor
             n == Len(f.value)
  <1>5. /\ f = [value |-> v, cursor |-> k] /\ v \in Seq(C) /\ k \in 0..n /\ n \in Nat
        /\ k \in Int /\ 0 \in Int /\ k - 1 \in Int /\ k + 1 \in Int /\ n \in Int
    BY DEF IsInput, Area!InputOK
  <1>6. IsInput(Area!InputLeft(f), C) /\ Area!InputLeft(f).value = f.value
    <2> DEFINE m == Max({0, k - 1})
    <2>1. m \in 0..n
      <3>1. Max({0, k - 1}) = IF 0 >= k - 1 THEN 0 ELSE k - 1 BY <1>5, MaxOfTwo
      <3> QED BY <1>5, <3>1
    <2>2. Area!InputLeft(f) = [f EXCEPT !.cursor = m] BY SameMax DEF Area!InputLeft
    <2> HIDE DEF m, v, k
    <2>3. Area!InputLeft(f) = [value |-> v, cursor |-> m] BY <1>5, <2>2
    <2> QED BY <1>5, <2>1, <2>3 DEF IsInput, Area!InputOK, v
  <1>7. IsInput(Area!InputRight(f), C) /\ Area!InputRight(f).value = f.value
    <2> DEFINE m == Min({n, k + 1})
    <2>1. m \in 0..n
      <3>1. Min({n, k + 1}) = IF n <= k + 1 THEN n ELSE k + 1 BY <1>5, MinOfTwo
      <3> QED BY <1>5, <3>1
    <2>2. Area!InputRight(f) = [f EXCEPT !.cursor = m] BY SameOperators DEF Area!InputRight
    <2> HIDE DEF m, v, k
    <2>3. Area!InputRight(f) = [value |-> v, cursor |-> m] BY <1>5, <2>2
    <2> QED BY <1>5, <2>1, <2>3 DEF IsInput, Area!InputOK, v
  <1> QED BY <1>3, <1>4, <1>6, <1>7

\* The pieces of a recipient field.
LEMMA SubSeqType ==
    ASSUME NEW C, NEW t \in Seq(C), NEW m \in Nat, NEW n \in Nat, m >= 1, n <= Len(t)
    PROVE  SubSeq(t, m, n) \in Seq(C)
  <1>1. \A i \in m..n : t[i] \in C OBVIOUS
  <1> QED BY <1>1, SubSeqProperties

\* The operators on recipient fields give texts and places in them.
LEMMA SeparatorType ==
    ASSUME NEW t \in Seq(Char)
    PROVE  Separator(t) \in 0..Len(t)
  <1> DEFINE S == {0} \cup {i \in DOMAIN t : t[i] = Comma /\ Quotes(t, i) % 2 = 0}
  <1>1. Len(t) \in Nat /\ DOMAIN t = 1..Len(t) OBVIOUS
  <1>2. S \in SUBSET Nat /\ S # {} /\ \A i \in S : i <= Len(t) BY <1>1
  <1> HIDE DEF S
  <1>3. Max(S) \in S BY <1>1, <1>2, MaxOfNaturals
  <1>4. Max(S) \in Nat /\ Max(S) <= Len(t) BY <1>2, <1>3
  <1> QED BY <1>1, <1>4 DEF Separator, S

LEMMA TrimType ==
    ASSUME NEW t \in Seq(Char)
    PROVE  Trim(t) \in Seq(Char)
  <1> DEFINE at == {i \in DOMAIN t : t[i] # Blank}
  <1>1. Len(t) \in Nat /\ at \in SUBSET Nat /\ \A i \in at : 1 <= i /\ i <= Len(t) OBVIOUS
  <1> HIDE DEF at
  <1>2. CASE at = {} BY <1>2 DEF Trim, at
  <1>3. CASE at # {}
    <2>1. Min(at) \in at /\ Max(at) \in at BY <1>1, <1>3, MinOfNaturals, MaxOfNaturals
    <2>2. SubSeq(t, Min(at), Max(at)) \in Seq(Char) BY <1>1, <2>1, SubSeqType
    <2> QED BY <1>3, <2>2 DEF Trim, at
  <1> QED BY <1>2, <1>3

LEMMA QueryType ==
    ASSUME NEW t \in Seq(Char)
    PROVE  Query(t) \in Seq(Char)
  <1>1. Separator(t) \in Nat /\ Separator(t) + 1 >= 1 /\ Len(t) \in Nat BY SeparatorType
  <1>2. SubSeq(t, Separator(t) + 1, Len(t)) \in Seq(Char) BY <1>1, SubSeqType
  <1> QED BY <1>2, TrimType DEF Query

LEMMA AcceptedType ==
    ASSUME NEW t \in Seq(Char), NEW a \in Addr
    PROVE  Accepted(t, a) \in Seq(Char)
  <1> DEFINE kept == SubSeq(t, 1, Separator(t))
             d == Display(a)
             end == <<Comma, Blank>>
             pre == IF kept = <<>> THEN <<>> ELSE Append(kept, Blank)
  <1>1. kept \in Seq(Char)
    <2>1. Separator(t) \in Nat /\ Separator(t) <= Len(t) BY SeparatorType
    <2> QED BY <2>1, SubSeqType
  <1>2. Blank \in Char /\ Comma \in Char BY DEF Char
  <1>3. end \in Seq(Char) BY <1>2
  <1>4. d \in Seq(Char)
    <2>1. a.name \in Seq(Char) /\ a.email \in Char BY DEF Addr, Char
    <2> QED BY <2>1, AppendProperties DEF Display
  <1> HIDE DEF kept, d, end
  <1>5. pre \in Seq(Char) BY <1>1, <1>2, AppendProperties
  <1> HIDE DEF pre
  <1>6. pre \o d \in Seq(Char) BY <1>4, <1>5, ConcatProperties
  <1>7. (pre \o d) \o end \in Seq(Char) BY <1>3, <1>6, ConcatProperties
  <1> QED BY <1>7, Zenon DEF Accepted, pre, kept, d, end

----------------------------------------------------------------------------
(* What is looked for and where *)

\* The letters of one character.
LettersOf(c) == IF c \in Email THEN Spelling[c] ELSE <<c>>

\* What is spelled out is a text, and nothing is if nothing is there.
LEMMA SpelledType ==
    ASSUME NEW s \in Seq(Char)
    PROVE  Spelled(s) \in Seq(Char) /\ (s = <<>> => Spelled(s) = <<>>)
  <1> DEFINE V == Seq(Char)
             X == Char
             base == <<>>
             g == [p \in V \X X |-> p[1] \o LettersOf(p[2])]
             E(T) == [x \in SUBSET DOMAIN s |->
                       IF x = {} THEN base ELSE T[x \ {Max(x)}] \o LettersOf(s[Max(x)])]
  <1>1. Spelled(s) = (CHOOSE T : T = E(T))[DOMAIN s]
    BY DEF Spelled, LettersOf, FoldLeft, MapThenFoldSet, Max
  <1>2. base \in V OBVIOUS
  <1>3. \A c \in X : LettersOf(c) \in Seq(Char)
    <2> TAKE c \in X
    <2>1. CASE c \in Email
      <3>1. Spelling[c] \in Seq(Letter) /\ Letter \subseteq Char
        BY <2>1, RecipientsAssumption DEF Char
      <3>2. Spelling[c] \in Seq(Char) BY <3>1
      <3> QED BY <2>1, <3>2 DEF LettersOf
    <2>2. CASE c \notin Email BY <2>2 DEF LettersOf
    <2> QED BY <2>1, <2>2
  <1>4. ASSUME NEW t \in V, NEW c \in X
        PROVE  g[<<t, c>>] = t \o LettersOf(c) /\ t \o LettersOf(c) \in V
    <2>1. <<t, c>> \in V \X X OBVIOUS
    <2>2. LettersOf(c) \in Seq(Char) BY <1>3
    <2> QED BY <2>1, <2>2
  <1>5. g \in [V \X X -> V]
    <2>1. \A p \in V \X X : p[1] \in V /\ p[2] \in X /\ p = <<p[1], p[2]>> OBVIOUS
    <2>2. \A p \in V \X X : p[1] \o LettersOf(p[2]) \in V BY <1>4, <2>1
    <2> QED BY <2>2
  <1> HIDE DEF V, X, g, base
  <1>6. s \in Seq(X) BY DEF X
  <1>7. \E T : T = E(T)
    <2>1. PICK T : StepsOf(T, g, V, X, base, s)
      <3> HIDE DEF E
      <3> QED BY <1>2, <1>5, <1>6, FoldStep
    <2>2. \A x \in SUBSET DOMAIN s :
            T[x] = IF x = {} THEN base ELSE T[x \ {Max(x)}] \o LettersOf(s[Max(x)])
      BY <1>4, <2>1 DEF StepsOf
    <2> QED BY <2>1, <2>2 DEF StepsOf
  <1> DEFINE U == CHOOSE U : U = E(U)
  <1>8. U = E(U) BY <1>7
  <1> HIDE DEF U
  <1>9. U[{}] = base BY <1>8
  <1>10. ASSUME NEW k \in 1..Len(s), U[1..k - 1] \in V
         PROVE  U[1..k] = g[<<U[1..k - 1], s[k]>>]
    <2>1. k \in Nat /\ k # 0 /\ 1..k \in SUBSET DOMAIN s /\ s[k] \in X BY <1>6
    <2>2. 1..k # {} /\ Max(1..k) = k /\ (1..k) \ {k} = 1..k - 1 BY <2>1, FirstPlaces
    <2>3. U[1..k] = U[(1..k) \ {Max(1..k)}] \o LettersOf(s[Max(1..k)]) BY <1>8, <2>1, <2>2
    <2> QED BY <1>4, <1>10, <2>1, <2>2, <2>3
  <1>11. U[DOMAIN s] \in V BY <1>2, <1>5, <1>6, <1>9, <1>10, FoldValue
  <1>12. s = <<>> => U[DOMAIN s] = base
    <2>1. s = <<>> => DOMAIN s = {} OBVIOUS
    <2> QED BY <1>9, <2>1
  <1> QED BY <1>1, <1>11, <1>12 DEF U, V, base

LEMMA LabelType ==
    ASSUME NEW a \in Addr
    PROVE  Label(a) \in Seq(Char)
  <1> DEFINE named == IF a.name = <<>> THEN <<a.email>> ELSE a.name \o <<Blank, a.email>>
  <1>1. a.name \in Seq(Char) /\ a.email \in Char /\ Blank \in Char BY DEF Addr, Char
  <1>2. <<a.email>> \in Seq(Char) /\ <<Blank, a.email>> \in Seq(Char) BY <1>1
  <1>3. a.name \o <<Blank, a.email>> \in Seq(Char) BY <1>1, <1>2, ConcatProperties
  <1>4. named \in Seq(Char) BY <1>2, <1>3
  <1> HIDE DEF named
  <1>5. Label(a) = Spelled(named) BY Zenon DEF Label, named
  <1> QED BY <1>4, <1>5, SpelledType

----------------------------------------------------------------------------
(* Scores *)

Matching == [matches : BOOLEAN, at : Nat, run : Nat, total : Nat, first : Nat]
NoneMatched == [matches |-> TRUE, at |-> 0, run |-> 0, total |-> 0, first |-> 0]

\* A letter keeps what is known of a match in its types.
LEMMA NextLetterType ==
    ASSUME NEW hay \in Seq(Char), NEW s \in Matching, NEW c
    PROVE  NextLetter(hay, s, c) \in Matching
  <1> DEFINE places == {i \in s.at + 1..Len(hay) : hay[i] = c}
             run    == IF Min(places) = s.at + 1 THEN s.run + 1 ELSE 1
  <1>1. /\ s.matches \in BOOLEAN /\ s.at \in Nat /\ s.run \in Nat /\ s.total \in Nat
        /\ s.first \in Nat
        /\ s = [matches |-> s.matches, at |-> s.at, run |-> s.run, total |-> s.total,
                first |-> s.first]
    BY DEF Matching
  <1>2. places \in SUBSET Nat BY <1>1
  <1>3. run \in Nat BY <1>1
  <1> HIDE DEF places
  <1>4. CASE ~s.matches \/ places = {}
    <2>1. [s EXCEPT !.matches = FALSE] \in Matching BY <1>1 DEF Matching
    <2> QED BY <1>4, <2>1 DEF NextLetter, places
  <1>5. CASE ~(~s.matches \/ places = {})
    <2> DEFINE m == Min(places)
               first == IF s.first = 0 THEN m ELSE s.first
    <2>1. m \in Nat BY <1>2, <1>5, MinOfNaturals
    <2>2. first \in Nat /\ s.total + 1 + run \in Nat BY <1>1, <1>3, <2>1
    <2> DEFINE r == [matches |-> TRUE, at |-> m, run |-> run, total |-> s.total + 1 + run,
                     first |-> first]
    <2>3. NextLetter(hay, s, c) = r BY <1>5, Zenon DEF NextLetter, places
    <2> HIDE DEF m, run, first
    <2>4. r \in Matching BY <1>3, <2>1, <2>2 DEF Matching
    <2> QED BY <2>3, <2>4
  <1> QED BY <1>4, <1>5

\* A score is a number: scores can be compared.
LEMMA ScoreType ==
    ASSUME NEW s \in Seq(Char), NEW hay \in Seq(Char)
    PROVE  Score(s, hay) \in Int
  <1> DEFINE V == Matching
             X == Char
             base == NoneMatched
             g == [p \in V \X X |-> NextLetter(hay, p[1], p[2])]
             E(T) == [x \in SUBSET DOMAIN s |->
                       IF x = {} THEN base ELSE NextLetter(hay, T[x \ {Max(x)}], s[Max(x)])]
             v == (CHOOSE T : T = E(T))[DOMAIN s]
             w == FoldLeft(LAMBDA t, c : NextLetter(hay, t, c), NoneMatched, s)
  <1>1. w = v BY DEF FoldLeft, MapThenFoldSet, Max
  <1>2. base \in V BY DEF Matching, NoneMatched
  <1>3. ASSUME NEW t \in V, NEW c \in X
        PROVE  g[<<t, c>>] = NextLetter(hay, t, c) /\ NextLetter(hay, t, c) \in V
    <2>1. <<t, c>> \in V \X X OBVIOUS
    <2>2. NextLetter(hay, t, c) \in V BY NextLetterType
    <2> HIDE DEF V, X
    <2> QED BY <2>1, <2>2
  <1>4. g \in [V \X X -> V]
    <2> HIDE DEF V, X
    <2>1. \A p \in V \X X : p[1] \in V /\ p[2] \in X OBVIOUS
    <2>2. \A p \in V \X X : NextLetter(hay, p[1], p[2]) \in V BY <1>3, <2>1
    <2> QED BY <2>2
  <1> HIDE DEF V, X, g, base
  <1>5. s \in Seq(X) BY DEF X
  <1>6. \E T : T = E(T)
    <2>1. PICK T : StepsOf(T, g, V, X, base, s)
      <3> HIDE DEF E
      <3> QED BY <1>2, <1>4, <1>5, FoldStep
    <2>2. \A x \in SUBSET DOMAIN s :
            T[x] = IF x = {} THEN base ELSE NextLetter(hay, T[x \ {Max(x)}], s[Max(x)])
      BY <1>3, <2>1 DEF StepsOf
    <2> QED BY <2>1, <2>2 DEF StepsOf
  <1> DEFINE U == CHOOSE U : U = E(U)
  <1>7. U = E(U) BY <1>6
  <1> HIDE DEF U
  <1>8. U[{}] = base BY <1>7
  <1>9. ASSUME NEW k \in 1..Len(s), U[1..k - 1] \in V
         PROVE  U[1..k] = g[<<U[1..k - 1], s[k]>>]
    <2>1. k \in Nat /\ k # 0 /\ 1..k \in SUBSET DOMAIN s /\ s[k] \in X BY <1>5
    <2>2. 1..k # {} /\ Max(1..k) = k /\ (1..k) \ {k} = 1..k - 1 BY <2>1, FirstPlaces
    <2>3. U[1..k] = NextLetter(hay, U[(1..k) \ {Max(1..k)}], s[Max(1..k)]) BY <1>7, <2>1, <2>2
    <2> QED BY <1>3, <1>9, <2>1, <2>2, <2>3
  <1>10. U[DOMAIN s] \in V BY <1>2, <1>4, <1>5, <1>8, <1>9, FoldValue
  <1>11. w \in Matching BY <1>1, <1>10 DEF U, V
  <1>12. Score(s, hay) = IF s = <<>> \/ ~w.matches THEN -1 ELSE w.total + 20 - Min({w.first - 1, 20})
    BY Zenon DEF Score, NoneMatched
  <1> HIDE DEF w
  <1>13. w.first \in Nat /\ w.total \in Nat BY <1>11 DEF Matching
  <1>14. Min({w.first - 1, 20}) \in Int
    <2>1. w.first - 1 \in Int /\ 20 \in Int BY <1>13
    <2>2. Min({w.first - 1, 20}) = IF w.first - 1 <= 20 THEN w.first - 1 ELSE 20 BY <2>1, MinOfTwo
    <2> QED BY <2>1, <2>2
  <1> QED BY <1>12, <1>13, <1>14

----------------------------------------------------------------------------
(* What is suggested *)

\* i goes before j: it scores higher, or the same and is earlier.
Ahead(score, i, j) == score[i] > score[j] \/ (score[i] = score[j] /\ i < j)
RanksAll(p, score, D, n) ==
    /\ p \in [1..n -> D]
    /\ \A j, k \in 1..n : j < k => Ahead(score, p[j], p[k])

\* Of some places with scores one comes last.
LEMMA LastRanked ==
    ASSUME NEW N \in Nat, NEW D \in SUBSET (1..N), D # {}, NEW score, \A i \in D : score[i] \in Nat
    PROVE  \E w \in D : \A i \in D \ {w} : Ahead(score, i, w)
  <1> DEFINE S == {score[i] : i \in D}
             least == Min(S)
             L == {i \in D : score[i] = least}
  <1>1. S \in SUBSET Nat /\ S # {} OBVIOUS
  <1>2. least \in S /\ \A x \in S : least <= x BY <1>1, MinOfNaturals
  <1>3. \A i \in D : least <= score[i] BY <1>2
  <1>4. L # {} BY <1>2
  <1> HIDE DEF S, least
  <1>5. L \in SUBSET Nat /\ \A i \in L : i <= N
    <2>1. \A i \in D : i \in Nat /\ i <= N OBVIOUS
    <2> QED BY <2>1
  <1>6. Max(L) \in L /\ \A i \in L : i <= Max(L) BY <1>4, <1>5, MaxOfNaturals
  <1>7. ASSUME NEW w \in L, \A i \in L : i <= w, NEW i \in D \ {w} PROVE Ahead(score, i, w)
    <2>1. score[w] = least /\ w \in D /\ w \in Nat /\ i \in Nat /\ i # w BY <1>5
    <2>2. score[i] \in Nat /\ score[w] \in Nat /\ least <= score[i] BY <1>3, <2>1
    <2>3. score[i] = least => i <= w BY <1>7
    <2> HIDE DEF L
    <2> QED BY <2>1, <2>2, <2>3 DEF Ahead
  <1> HIDE DEF L
  <1>8. Max(L) \in D BY <1>6 DEF L
  <1> QED BY <1>6, <1>7, <1>8

\* A ranking of the others is made one of all with the last.
LEMMA OneRankedLast ==
    ASSUME NEW D, NEW score, NEW w \in D, \A i \in D \ {w} : Ahead(score, i, w),
           NEW n \in Nat, NEW q, RanksAll(q, score, D \ {w}, n)
    PROVE  \E p : RanksAll(p, score, D, n + 1)
  <1> DEFINE p == [k \in 1..n + 1 |-> IF k = n + 1 THEN w ELSE q[k]]
  <1>1. \A k \in 1..n : k \in 1..n + 1 /\ k # n + 1 OBVIOUS
  <1>2. \A k \in 1..n + 1 : k # n + 1 => k \in 1..n OBVIOUS
  <1>3. n + 1 \in 1..n + 1 OBVIOUS
  <1>4. q \in [1..n -> D \ {w}] /\ \A j, k \in 1..n : j < k => Ahead(score, q[j], q[k])
    BY DEF RanksAll
  <1>5. p[n + 1] = w /\ \A k \in 1..n : p[k] = q[k] /\ q[k] \in D \ {w} BY <1>1, <1>3, <1>4
  <1>6. p \in [1..n + 1 -> D] BY <1>2, <1>4
  <1> HIDE DEF p
  <1>7. ASSUME NEW j \in 1..n + 1, NEW k \in 1..n + 1, j < k PROVE Ahead(score, p[j], p[k])
    <2>1. j \in 1..n BY <1>7
    <2>2. CASE k = n + 1 BY <1>5, <2>1, <2>2
    <2>3. CASE k # n + 1
      <3>1. k \in 1..n BY <1>2, <2>3
      <3> QED BY <1>4, <1>5, <1>7, <2>1, <3>1
    <2> QED BY <2>2, <2>3
  <1> QED BY <1>6, <1>7 DEF RanksAll

\* Some places can be put in the order of their scores.
LEMMA RankingExists ==
    ASSUME NEW N \in Nat, NEW score
    PROVE  \A D \in SUBSET (1..N) : (\A i \in D : score[i] \in Nat) =>
              /\ Cardinality(D) \in Nat
              /\ \E p : RanksAll(p, score, D, Cardinality(D))
  <1> DEFINE Scored(D) == D \in SUBSET (1..N) /\ \A i \in D : score[i] \in Nat
             Ranked(D) == \E p : RanksAll(p, score, D, Cardinality(D))
             bad == {k \in Nat : \E D : Scored(D) /\ Cardinality(D) = k /\ ~Ranked(D)}
  <1>1. IsFiniteSet(1..N) BY FS_Interval
  <1>2. \A D : Scored(D) => IsFiniteSet(D) /\ Cardinality(D) \in Nat
    BY <1>1, FS_Subset, FS_CardinalityType
  <1>3. bad = {}
    <2>1. SUFFICES ASSUME bad # {} PROVE FALSE OBVIOUS
    <2>2. bad \in SUBSET Nat OBVIOUS
    <2> DEFINE m == Min(bad)
    <2>3. m \in bad /\ \A k \in bad : m <= k BY <2>1, <2>2, MinOfNaturals
    <2> HIDE DEF m
    <2>4. PICK D : Scored(D) /\ Cardinality(D) = m /\ ~Ranked(D) BY <2>3
    <2>5. m \in Nat BY <2>3
    <2>6. CASE D = {}
      <3> DEFINE p == [k \in 1..0 |-> 0]
      <3>1. m = 0 BY <2>4, <2>6, FS_EmptySet
      <3>2. 1..0 = {} OBVIOUS
      <3>3. p \in [1..0 -> D] BY <2>6, <3>2
      <3>4. RanksAll(p, score, D, 0) BY <3>2, <3>3 DEF RanksAll
      <3> QED BY <2>4, <3>1, <3>4
    <2>7. CASE D # {}
      <3>1. PICK w \in D : \A i \in D \ {w} : Ahead(score, i, w) BY <2>4, <2>7, LastRanked
      <3>2. Scored(D \ {w}) /\ IsFiniteSet(D) BY <1>2, <2>4
      <3>3. Cardinality(D \ {w}) = m - 1 BY <2>4, <3>1, <3>2, FS_RemoveElement
      <3>4. Cardinality(D \ {w}) \in Nat BY <1>2, <3>2
      <3>5. m - 1 \in Nat /\ ~(m <= m - 1) BY <2>5, <3>3, <3>4
      <3>6. Ranked(D \ {w}) BY <2>3, <3>2, <3>3, <3>5
      <3>7. PICK q : RanksAll(q, score, D \ {w}, m - 1) BY <3>3, <3>6
      <3>8. \E p : RanksAll(p, score, D, (m - 1) + 1)
        <4> HIDE DEF Scored, Ranked, bad
        <4> QED BY <3>1, <3>5, <3>7, OneRankedLast
      <3>9. (m - 1) + 1 = m BY <2>5
      <3> QED BY <2>4, <3>8, <3>9
    <2> QED BY <2>6, <2>7
  <1>4. \A D : Scored(D) => Ranked(D)
    <2> HIDE DEF Scored, Ranked
    <2> QED BY <1>2, <1>3
  <1> QED BY <1>2, <1>4

\* What is suggested are senders who match what is looked for.
LEMMA BestMatchesType ==
    ASSUME NEW query \in Seq(Char), NEW senders \in Seq(Addr)
    PROVE  /\ BestMatches(query, senders) \in Seq(Addr)
           /\ \A k \in DOMAIN BestMatches(query, senders) : \E i \in DOMAIN senders :
                /\ BestMatches(query, senders)[k] = senders[i]
                /\ Score(Spelled(query), Label(senders[i])) >= 0
  <1> DEFINE score == [i \in DOMAIN senders |-> Score(Spelled(query), Label(senders[i]))]
             found == {i \in DOMAIN senders : score[i] >= 0}
             n     == Cardinality(found)
             best  == CHOOSE p \in [1..n -> found] : \A j, k \in 1..n : j < k =>
                        \/ score[p[j]] > score[p[k]]
                        \/ score[p[j]] = score[p[k]] /\ p[j] < p[k]
             m     == Min({n, MAX_RECIPIENT_SUGGESTIONS})
             items == [k \in 1..m |-> senders[best[k]]]
  <1>1. BestMatches(query, senders) = items BY Zenon DEF BestMatches
  <1>2. Len(senders) \in Nat /\ DOMAIN senders = 1..Len(senders)
        /\ \A i \in DOMAIN senders : senders[i] \in Addr
    OBVIOUS
  <1>3. \A i \in DOMAIN senders : score[i] \in Int /\ score[i] = Score(Spelled(query), Label(senders[i]))
    <2> TAKE i \in DOMAIN senders
    <2>1. Spelled(query) \in Seq(Char) /\ Label(senders[i]) \in Seq(Char)
      BY <1>2, SpelledType, LabelType
    <2> QED BY <2>1, ScoreType
  <1> HIDE DEF score
  <1>4. found \in SUBSET (1..Len(senders)) /\ \A i \in found : score[i] \in Nat BY <1>2, <1>3
  <1>5. \A i \in found : /\ senders[i] \in Addr /\ i \in DOMAIN senders
                         /\ Score(Spelled(query), Label(senders[i])) >= 0
    BY <1>2, <1>3
  <1> HIDE DEF found
  <1>6. n \in Nat /\ \E p : RanksAll(p, score, found, n) BY <1>2, <1>4, RankingExists
  <1> HIDE DEF n
  <1>7. best \in [1..n -> found] BY <1>6, Zenon DEF RanksAll, Ahead
  <1> HIDE DEF best
  <1>8. m \in Nat /\ m <= n
    <2>1. MAX_RECIPIENT_SUGGESTIONS \in Nat BY RecipientsAssumption
    <2>2. m = IF n <= MAX_RECIPIENT_SUGGESTIONS THEN n ELSE MAX_RECIPIENT_SUGGESTIONS
      BY <1>6, <2>1, MinOfTwo
    <2> QED BY <1>6, <2>1, <2>2
  <1> HIDE DEF m
  <1>9. \A k \in 1..m : best[k] \in found
    <2>1. \A k \in 1..m : k \in 1..n BY <1>6, <1>8
    <2> QED BY <1>7, <2>1
  <1>10. \A k \in 1..m : items[k] = senders[best[k]] /\ items[k] \in Addr BY <1>5, <1>9
  <1>11. DOMAIN items = 1..m OBVIOUS
  <1>12. items \in Seq(Addr)
    <2> HIDE DEF items
    <2>1. items = [k \in 1..m |-> items[k]] BY DEF items
    <2> QED BY <1>8, <1>10, <2>1
  <1> HIDE DEF items
  <1> QED BY <1>1, <1>5, <1>9, <1>10, <1>11, <1>12

----------------------------------------------------------------------------
(* Known senders *)

\* A sequence of addresses of those named in `from`, the senders nobody
\* answers left out.
KnownIn(from, m) == m \notin NoReply /\ \E i \in DOMAIN from : from[i].email = m

\* All known senders have written, and none of them is automatic.
LEMMA KnownSendersType ==
    ASSUME NEW from \in Seq(Addr)
    PROVE  /\ KnownSenders(from) \in Seq(Addr)
           /\ \A i \in DOMAIN KnownSenders(from) : KnownIn(from, KnownSenders(from)[i].email)
  <1> DEFINE named(m) == {i \in DOMAIN from : from[i].email = m /\ from[i].name # <<>>}
             writes(m) == \E i \in DOMAIN from : from[i].email = m /\ m \notin NoReply
             as(m)    == [email |-> m,
                          name |-> IF named(m) = {} THEN <<>> ELSE from[Max(named(m))].name]
             s == Alphabetical
             found == FoldLeft(LAMBDA f, m : IF writes(m) THEN Append(f, m) ELSE f, <<>>, Alphabetical)
             items == [i \in DOMAIN found |-> as(found[i])]
             K == {m \in Email : KnownIn(from, m)}
             V == Seq(K)
             X == Email
             base == <<>>
             step(f, m) == IF KnownIn(from, m) THEN Append(f, m) ELSE f
             g == [p \in V \X X |-> step(p[1], p[2])]
             E(T) == [x \in SUBSET DOMAIN s |->
                       IF x = {} THEN base ELSE step(T[x \ {Max(x)}], s[Max(x)])]
  <1>1. KnownSenders(from) = items BY Zenon DEF KnownSenders
  <1>2. \A m : writes(m) = KnownIn(from, m) BY DEF KnownIn
  <1>3. found = (CHOOSE T : T = E(T))[DOMAIN s]
    <2>1. found = FoldLeft(LAMBDA f, m : step(f, m), <<>>, Alphabetical)
      BY DEF KnownIn, FoldLeft, MapThenFoldSet, Max
    <2> QED BY <2>1 DEF FoldLeft, MapThenFoldSet, Max
  <1>4. base \in V OBVIOUS
  <1>5. ASSUME NEW t \in V, NEW c \in X
        PROVE  g[<<t, c>>] = step(t, c) /\ step(t, c) \in V
    <2>1. <<t, c>> \in V \X X OBVIOUS
    <2>2. step(t, c) \in V OBVIOUS
    <2> HIDE DEF V, X, step
    <2> QED BY <2>1, <2>2
  <1>6. g \in [V \X X -> V]
    <2> HIDE DEF V, X, step
    <2>1. \A p \in V \X X : p[1] \in V /\ p[2] \in X OBVIOUS
    <2>2. \A p \in V \X X : step(p[1], p[2]) \in V BY <1>5, <2>1
    <2> QED BY <2>2
  <1> HIDE DEF V, X, g, base, step
  <1>7. s \in Seq(X) BY RecipientsAssumption DEF X
  <1> HIDE DEF s
  <1>8. \E T : T = E(T)
    <2>1. PICK T : StepsOf(T, g, V, X, base, s)
      <3> HIDE DEF E
      <3> QED BY <1>4, <1>6, <1>7, FoldStep
    <2>2. \A x \in SUBSET DOMAIN s :
            T[x] = IF x = {} THEN base ELSE step(T[x \ {Max(x)}], s[Max(x)])
      BY <1>5, <2>1 DEF StepsOf
    <2> QED BY <2>1, <2>2 DEF StepsOf
  <1> DEFINE U == CHOOSE U : U = E(U)
  <1>9. U = E(U) BY <1>8
  <1> HIDE DEF U
  <1>10. U[{}] = base BY <1>9
  <1>11. ASSUME NEW k \in 1..Len(s), U[1..k - 1] \in V
         PROVE  U[1..k] = g[<<U[1..k - 1], s[k]>>]
    <2>1. k \in Nat /\ k # 0 /\ 1..k \in SUBSET DOMAIN s /\ s[k] \in X BY <1>7
    <2>2. 1..k # {} /\ Max(1..k) = k /\ (1..k) \ {k} = 1..k - 1 BY <2>1, FirstPlaces
    <2>3. U[1..k] = step(U[(1..k) \ {Max(1..k)}], s[Max(1..k)]) BY <1>9, <2>1, <2>2
    <2> QED BY <1>5, <1>11, <2>1, <2>2, <2>3
  <1>12. U[DOMAIN s] \in V BY <1>4, <1>6, <1>7, <1>10, <1>11, FoldValue
  <1>13. found \in Seq(K) BY <1>3, <1>12 DEF U, V
  <1> HIDE DEF found
  <1>14. \A i \in DOMAIN found : found[i] \in Email /\ KnownIn(from, found[i]) BY <1>13
  <1>15. \A m \in Email : as(m) \in Addr /\ as(m).email = m
    <2> TAKE m \in Email
    <2> DEFINE name == IF named(m) = {} THEN <<>> ELSE from[Max(named(m))].name
    <2>1. \A i \in DOMAIN from : from[i] \in Addr /\ i \in Nat /\ i <= Len(from) OBVIOUS
    <2>2. named(m) \in SUBSET Nat /\ \A i \in named(m) : i <= Len(from) /\ from[i] \in Addr
      BY <2>1
    <2>3. Len(from) \in Nat OBVIOUS
    <2>4. named(m) # {} => Max(named(m)) \in named(m)
      <3> HIDE DEF named
      <3> QED BY <2>2, <2>3, MaxOfNaturals
    <2> HIDE DEF named
    <2>5. name \in Seq(Letter \cup {Comma, Quote}) BY <2>2, <2>4 DEF Addr
    <2> HIDE DEF name
    <2>6. [email |-> m, name |-> name] \in Addr BY <2>5 DEF Addr
    <2> QED BY <2>6 DEF name
  <1> HIDE DEF as
  <1>16. DOMAIN items = DOMAIN found /\ \A i \in DOMAIN found :
            items[i] \in Addr /\ items[i].email = found[i]
    BY <1>14, <1>15
  <1>17. items \in Seq(Addr)
    <2>1. DOMAIN found = 1..Len(found) /\ Len(found) \in Nat BY <1>13
    <2>2. items = [i \in 1..Len(found) |-> items[i]] BY <2>1
    <2> HIDE DEF items
    <2> QED BY <1>16, <2>1, <2>2
  <1> HIDE DEF items
  <1> QED BY <1>1, <1>14, <1>16, <1>17

----------------------------------------------------------------------------
(* The window *)

Window(open, input, body, focus, suggestions, sending) ==
    [open |-> open, input |-> input, body |-> body, focus |-> focus,
     suggestions |-> suggestions, sending |-> sending]

InputsOK(i) ==
    /\ i = [f \in Input |-> i[f]]
    /\ \A f \in Recipient : IsInput(i[f], Char)
    /\ IsInput(i["subject"], Char \cup {Subject})

SuggestionsOK(s) ==
    /\ s = [items |-> s.items, selected |-> s.selected]
    /\ s.items \in Seq(Addr)
    /\ s.selected \in 0..Max({0, Len(s.items) - 1})

WindowOK(w) ==
    /\ w = Window(w.open, w.input, w.body, w.focus, w.suggestions, w.sending)
    /\ w.open \in BOOLEAN
    /\ InputsOK(w.input)
    /\ IsArea(w.body)
    /\ w.focus \in ToSet(Focus)
    /\ SuggestionsOK(w.suggestions)
    /\ w.sending \in BOOLEAN

\* What the dropdown of a window lists is about what is typed in it.
Fits(w, from) ==
    \A i \in DOMAIN w.suggestions.items :
        LET a == w.suggestions.items[i] IN
        /\ w.focus \in Recipient
        /\ Score(Spelled(Query(w.input[w.focus].value)), Label(a)) >= 0
        /\ KnownIn(from, a.email)

LEMMA WindowParts ==
    ASSUME NEW o, NEW i, NEW b, NEW f, NEW s, NEW z
    PROVE  LET w == Window(o, i, b, f, s, z) IN
           /\ w.open = o /\ w.input = i /\ w.body = b
           /\ w.focus = f /\ w.suggestions = s /\ w.sending = z
  BY DEF Window

\* One part of a window is changed.
LEMMA WindowChanges ==
    ASSUME NEW w, w = Window(w.open, w.input, w.body, w.focus, w.suggestions, w.sending), NEW x
    PROVE  /\ [w EXCEPT !.open = x] = Window(x, w.input, w.body, w.focus, w.suggestions, w.sending)
           /\ [w EXCEPT !.input = x] = Window(w.open, x, w.body, w.focus, w.suggestions, w.sending)
           /\ [w EXCEPT !.body = x] = Window(w.open, w.input, x, w.focus, w.suggestions, w.sending)
           /\ [w EXCEPT !.focus = x] = Window(w.open, w.input, w.body, x, w.suggestions, w.sending)
           /\ [w EXCEPT !.suggestions = x] = Window(w.open, w.input, w.body, w.focus, x, w.sending)
           /\ [w EXCEPT !.sending = x] = Window(w.open, w.input, w.body, w.focus, w.suggestions, x)
  BY DEF Window

LEMMA InputChanges ==
    ASSUME NEW w, WindowOK(w), NEW k \in Input, NEW f,
           k \in Recipient => IsInput(f, Char),
           k = "subject" => IsInput(f, Char \cup {Subject})
    PROVE  LET i == [w.input EXCEPT ![k] = f] IN
           /\ InputsOK(i) /\ i[k] = f
           /\ [w EXCEPT !.input[k] = f] = Window(w.open, i, w.body, w.focus, w.suggestions, w.sending)
  <1> DEFINE i == [w.input EXCEPT ![k] = f]
  <1>1. InputsOK(w.input) BY DEF WindowOK
  <1>2. InputsOK(i) /\ i[k] = f BY <1>1 DEF InputsOK, Input, Recipient
  <1>3. [w EXCEPT !.input[k] = f] = [w EXCEPT !.input = i] OBVIOUS
  <1> HIDE DEF i
  <1>4. w = Window(w.open, w.input, w.body, w.focus, w.suggestions, w.sending) BY DEF WindowOK
  <1>5. [w EXCEPT !.input = i] = Window(w.open, i, w.body, w.focus, w.suggestions, w.sending)
    BY <1>4, WindowChanges
  <1> QED BY <1>2, <1>3, <1>5 DEF i

LEMMA SuggestionsMade ==
    ASSUME NEW items \in Seq(Addr)
    PROVE  LET s == [selected |-> 0, items |-> items] IN SuggestionsOK(s) /\ s.items = items
  <1>1. Max({0, Len(items) - 1}) = IF 0 >= Len(items) - 1 THEN 0 ELSE Len(items) - 1
    BY MaxOfTwo
  <1>2. 0 \in 0..Max({0, Len(items) - 1}) BY <1>1
  <1> QED BY <1>2 DEF SuggestionsOK

\* A closed window is well formed.
LEMMA BlanksOK ==
    /\ WindowOK(Blanks) /\ Blanks.open = FALSE /\ Blanks.sending = FALSE
    /\ Blanks.body = Area!EmptyArea /\ Blanks.focus = "to"
    /\ Blanks.input = [f \in Input |-> Area!EmptyInput]
    /\ Blanks.suggestions = NoSuggestions
    /\ NoSuggestions.items = <<>> /\ SuggestionsOK(NoSuggestions)
  <1>1. NoSuggestions.items = <<>> /\ SuggestionsOK(NoSuggestions)
    <2>1. <<>> \in Seq(Addr) OBVIOUS
    <2>2. NoSuggestions = [selected |-> 0, items |-> <<>>] BY DEF NoSuggestions
    <2> HIDE DEF NoSuggestions
    <2> QED BY <2>1, <2>2, SuggestionsMade
  <1> DEFINE i == [f \in Input |-> Area!EmptyInput]
  <1>2. InputsOK(i) BY InputEmpty DEF InputsOK, Input, Recipient
  <1>3. Blanks = Window(FALSE, i, Area!EmptyArea, "to", NoSuggestions, FALSE)
    BY DEF Blanks, Window
  <1> HIDE DEF i
  <1>4. "to" \in ToSet(Focus) BY DEF ToSet, Focus
  <1>5. /\ Blanks.open = FALSE /\ Blanks.sending = FALSE
        /\ Blanks.body = Area!EmptyArea /\ Blanks.focus = "to"
        /\ Blanks.input = i /\ Blanks.suggestions = NoSuggestions
    BY <1>3 DEF Window
  <1>6. WindowOK(Blanks) BY <1>1, <1>2, <1>3, <1>4, <1>5, BodyEmpty DEF WindowOK
  <1> QED BY <1>1, <1>5, <1>6 DEF i

\* A window with nothing suggested fits.
LEMMA NothingFits ==
    ASSUME NEW w, w.suggestions.items = <<>>, NEW from
    PROVE  Fits(w, from)
  BY DEF Fits

\* Suggestions looked for anew fit the window they are for.
LEMMA RefreshOK ==
    ASSUME NEW w, WindowOK(w), known \in Seq(Addr), NEW from,
           \A i \in DOMAIN known : KnownIn(from, known[i].email)
    PROVE  /\ WindowOK(Refresh(w)) /\ Fits(Refresh(w), from)
           /\ Refresh(w).open = w.open /\ Refresh(w).sending = w.sending
           /\ Refresh(w).body = w.body
  <1> DEFINE items == IF w.focus \in Recipient
                        THEN BestMatches(Query(w.input[w.focus].value), known) ELSE <<>>
             s == [selected |-> 0, items |-> items]
  <1>1. w = Window(w.open, w.input, w.body, w.focus, w.suggestions, w.sending)
        /\ InputsOK(w.input) /\ IsArea(w.body) /\ w.focus \in ToSet(Focus)
        /\ w.open \in BOOLEAN /\ w.sending \in BOOLEAN
    BY DEF WindowOK
  <1>2. items \in Seq(Addr) /\ \A k \in DOMAIN items :
          /\ w.focus \in Recipient
          /\ Score(Spelled(Query(w.input[w.focus].value)), Label(items[k])) >= 0
          /\ KnownIn(from, items[k].email)
    <2>1. CASE w.focus \in Recipient
      <3> DEFINE query == Query(w.input[w.focus].value)
      <3>1. w.input[w.focus].value \in Seq(Char) BY <1>1, <2>1 DEF InputsOK, IsInput, Area!InputOK
      <3>2. query \in Seq(Char) BY <3>1, QueryType
      <3>3. items = BestMatches(query, known) BY <2>1
      <3> HIDE DEF query, items
      <3>4. items \in Seq(Addr) /\ \A k \in DOMAIN items : \E i \in DOMAIN known :
              items[k] = known[i] /\ Score(Spelled(query), Label(known[i])) >= 0
        BY <3>2, <3>3, BestMatchesType
      <3>5. \A k \in DOMAIN items : /\ Score(Spelled(query), Label(items[k])) >= 0
                                    /\ KnownIn(from, items[k].email)
        BY <3>4
      <3> QED BY <2>1, <3>4, <3>5 DEF query
    <2>2. CASE w.focus \notin Recipient BY <2>2
    <2> QED BY <2>1, <2>2
  <1>3. Refresh(w) = [w EXCEPT !.suggestions = s] BY Zenon DEF Refresh
  <1> HIDE DEF items
  <1>4. SuggestionsOK(s) /\ s.items = items BY <1>2, SuggestionsMade
  <1> HIDE DEF s
  <1>5. Refresh(w) = Window(w.open, w.input, w.body, w.focus, s, w.sending)
    BY <1>1, <1>3, WindowChanges
  <1>6. /\ Refresh(w).open = w.open /\ Refresh(w).sending = w.sending
        /\ Refresh(w).body = w.body /\ Refresh(w).input = w.input
        /\ Refresh(w).focus = w.focus /\ Refresh(w).suggestions = s
    BY <1>5, WindowParts
  <1>7. WindowOK(Refresh(w)) BY <1>1, <1>4, <1>5, <1>6 DEF WindowOK
  <1>8. Fits(Refresh(w), from) BY <1>2, <1>4, <1>6 DEF Fits
  <1> QED BY <1>6, <1>7, <1>8

\* The field or the body typed into.
LEMMA EditedOK ==
    ASSUME WindowOK(window), NEW f, NEW a, IsArea(a), BodyStep(window.body, a),
           window.focus \in Recipient => IsInput(f, Char),
           window.focus = "subject" => IsInput(f, Char \cup {Subject})
    PROVE  LET w == Edited(f, a) IN
           /\ WindowOK(w)
           /\ w.open = window.open /\ w.sending = window.sending
           /\ w.focus = window.focus /\ w.suggestions = window.suggestions
           /\ BodyStep(window.body, w.body)
           /\ window.focus \in Input => w.input[window.focus] = f
           /\ window.focus \notin Input => w.input = window.input
  <1> DEFINE w == Edited(f, a)
             Is(i, b) == w = Window(window.open, i, b, window.focus, window.suggestions, window.sending)
  <1>1. window = Window(window.open, window.input, window.body, window.focus,
                        window.suggestions, window.sending)
        /\ InputsOK(window.input) /\ IsArea(window.body) /\ window.focus \in ToSet(Focus)
        /\ window.open \in BOOLEAN /\ window.sending \in BOOLEAN
        /\ SuggestionsOK(window.suggestions)
    BY DEF WindowOK
  <1>2. "body" \notin Input BY DEF Input, Recipient
  <1>3. CASE window.focus \in Input
    <2> DEFINE i == [window.input EXCEPT ![window.focus] = f]
    <2>1. w = [window EXCEPT !.input[window.focus] = f] BY <1>2, <1>3 DEF Edited
    <2>2. InputsOK(i) /\ i[window.focus] = f /\ Is(i, window.body) BY <1>3, <2>1, InputChanges
    <2> HIDE DEF i, w
    <2>3. /\ w.open = window.open /\ w.input = i /\ w.body = window.body
          /\ w.focus = window.focus /\ w.suggestions = window.suggestions
          /\ w.sending = window.sending
      BY <2>2, WindowParts
    <2>4. WindowOK(w) BY <1>1, <2>2, <2>3 DEF WindowOK
    <2> QED BY <1>3, <2>2, <2>3, <2>4, BodyStays DEF w
  <1>4. CASE window.focus = "body"
    <2>1. w = [window EXCEPT !.body = a] BY <1>2, <1>4 DEF Edited
    <2>2. Is(window.input, a) BY <1>1, <2>1, WindowChanges
    <2> HIDE DEF w
    <2>3. /\ w.open = window.open /\ w.input = window.input /\ w.body = a
          /\ w.focus = window.focus /\ w.suggestions = window.suggestions
          /\ w.sending = window.sending
      BY <2>2, WindowParts
    <2>4. WindowOK(w) BY <1>1, <2>2, <2>3 DEF WindowOK
    <2> QED BY <1>2, <1>4, <2>3, <2>4 DEF w
  <1>5. CASE window.focus \notin Input /\ window.focus # "body"
    <2>1. w = window BY <1>5 DEF Edited
    <2> QED BY <1>5, <2>1, BodyStays
  <1> QED BY <1>3, <1>4, <1>5

----------------------------------------------------------------------------
(* The invariant *)

StateOK ==
    /\ current \in Account
    /\ asked \subseteq Account
    /\ known \in Seq(Addr)
    /\ WindowOK(window)

\* The senders known are of the account shown.
KnownFits == \A i \in DOMAIN known : KnownIn(Cached[current], known[i].email)

\* A closed window keeps nothing.
ClosedIsBlank == ~window.open => window = Blanks

IInv == StateOK /\ KnownFits /\ ClosedIsBlank /\ Fits(window, Cached[current]) /\ SendingFrozen

\* The invariant holds at first.
LEMMA InitOK == Init => IInv
  <1> SUFFICES ASSUME Init PROVE IInv OBVIOUS
  <1>1. known = <<>> /\ known \in Seq(Addr) /\ DOMAIN known = {} BY DEF Init
  <1>2. window = Blanks /\ send = {} /\ current \in Account /\ asked \subseteq Account BY DEF Init
  <1>3. StateOK BY <1>1, <1>2, BlanksOK DEF StateOK
  <1>4. KnownFits BY <1>1 DEF KnownFits
  <1>5. Fits(window, Cached[current]) BY <1>2, BlanksOK, NothingFits
  <1>6. SendingFrozen BY <1>2, BlanksOK DEF SendingFrozen
  <1> QED BY <1>2, <1>3, <1>4, <1>5, <1>6 DEF IInv, ClosedIsBlank

\* What a key does to the window.
LEMMA KeyStep ==
    ASSUME IInv, NEW w, Key(w), WindowOK(w), Fits(w, Cached[current]), w.sending = FALSE,
           w.open \/ w = Blanks
    PROVE  IInv'
  <1>1. /\ window' = w /\ window.sending = FALSE /\ send = {}
        /\ UNCHANGED <<current, known, asked, send>>
    BY DEF Key, IInv, SendingFrozen, StateOK, WindowOK
  <1>2. StateOK' BY <1>1 DEF IInv, StateOK
  <1>3. KnownFits' BY <1>1 DEF IInv, KnownFits
  <1>4. ClosedIsBlank' BY <1>1 DEF ClosedIsBlank
  <1>5. Fits(window', Cached[current']) BY <1>1
  <1>6. SendingFrozen' BY <1>1 DEF SendingFrozen
  <1> QED BY <1>2, <1>3, <1>4, <1>5, <1>6 DEF IInv

\* What a window that looks for suggestions again comes to be.
LEMMA RefreshedKey ==
    ASSUME IInv, NEW w, Key(Refresh(w)), WindowOK(w), w.open, w.sending = FALSE,
           BodyStep(window.body, w.body)
    PROVE  IInv' /\ BodyStep(window.body, window'.body)
  <1>1. known \in Seq(Addr) /\ \A i \in DOMAIN known : KnownIn(Cached[current], known[i].email)
    BY DEF IInv, StateOK, KnownFits
  <1>2. /\ WindowOK(Refresh(w)) /\ Fits(Refresh(w), Cached[current])
        /\ Refresh(w).open = w.open /\ Refresh(w).sending = w.sending
        /\ Refresh(w).body = w.body
    BY <1>1, RefreshOK
  <1>3. IInv' BY <1>2, KeyStep
  <1>4. window' = Refresh(w) BY DEF Key
  <1> QED BY <1>2, <1>3, <1>4

\* The window as it is when a key is pressed.
Pressed ==
    /\ WindowOK(window) /\ window.open /\ window.open = TRUE /\ window.sending = FALSE
    /\ Fits(window, Cached[current])
    /\ window = Window(window.open, window.input, window.body, window.focus, window.suggestions,
                       window.sending)
    /\ InputsOK(window.input) /\ IsArea(window.body) /\ window.focus \in ToSet(Focus)
    /\ SuggestionsOK(window.suggestions)

LEMMA KeyPressed ==
    ASSUME IInv, NEW w, Key(w)
    PROVE  Pressed /\ window' = w
  BY DEF IInv, StateOK, Key, WindowOK, Pressed

\* The other parts of the window are kept with new suggestions.
LEMMA WithSuggestions ==
    ASSUME Pressed, NEW s, SuggestionsOK(s)
    PROVE  LET w == [window EXCEPT !.suggestions = s] IN
           /\ WindowOK(w) /\ w.open /\ w.sending = FALSE /\ w.body = window.body
           /\ w.suggestions = s /\ w.input = window.input /\ w.focus = window.focus
           /\ w = Window(w.open, w.input, w.body, w.focus, w.suggestions, w.sending)
  <1> DEFINE w == [window EXCEPT !.suggestions = s]
  <1>1. w = Window(window.open, window.input, window.body, window.focus, s, window.sending)
    BY WindowChanges DEF Pressed
  <1> HIDE DEF w
  <1>2. /\ w.open = window.open /\ w.input = window.input /\ w.body = window.body
        /\ w.focus = window.focus /\ w.suggestions = s /\ w.sending = window.sending
    BY <1>1, WindowParts
  <1>3. WindowOK(w) BY <1>1, <1>2 DEF Pressed, WindowOK
  <1> QED BY <1>1, <1>2, <1>3 DEF Pressed, w

\* Each key keeps the invariant and is a step of PlainText on the body.
LEMMA ChooseStep == IInv /\ Choose => IInv' /\ BodyStep(window.body, window'.body)
  <1> SUFFICES ASSUME IInv, Choose PROVE IInv' /\ BodyStep(window.body, window'.body) OBVIOUS
  <1> DEFINE s == window.suggestions
             n == Len(s.items)
  <1>1. PICK i \in 0..n - 1 : Key([window EXCEPT !.suggestions.selected = i]) BY DEF Choose
  <1> DEFINE t == [s EXCEPT !.selected = i]
             w == [window EXCEPT !.suggestions = t]
  <1>2. Key(w) BY <1>1
  <1>3. Pressed /\ window' = w BY <1>2, KeyPressed
  <1>4. s = [items |-> s.items, selected |-> s.selected] /\ s.items \in Seq(Addr)
    BY <1>3 DEF Pressed, SuggestionsOK
  <1>5. t = [items |-> s.items, selected |-> i] BY <1>4
  <1>6. n \in Nat /\ i \in Int BY <1>4
  <1>7. Max({0, n - 1}) = IF 0 >= n - 1 THEN 0 ELSE n - 1 BY <1>6, MaxOfTwo
  <1>8. i \in 0..Max({0, n - 1}) BY <1>6, <1>7
  <1> HIDE DEF t
  <1>9. SuggestionsOK(t) /\ t.items = s.items BY <1>4, <1>5, <1>8 DEF SuggestionsOK
  <1>10. /\ WindowOK(w) /\ w.open /\ w.sending = FALSE /\ w.body = window.body
         /\ w.suggestions = t /\ w.input = window.input /\ w.focus = window.focus
    BY <1>3, <1>9, WithSuggestions
  <1> HIDE DEF w
  <1>11. Fits(w, Cached[current]) BY <1>3, <1>9, <1>10 DEF Pressed, Fits
  <1>12. IInv' BY <1>2, <1>10, <1>11, KeyStep
  <1> QED BY <1>3, <1>10, <1>12, BodyStays

LEMMA DismissStep == IInv /\ Dismiss => IInv' /\ BodyStep(window.body, window'.body)
  <1> SUFFICES ASSUME IInv, Dismiss PROVE IInv' /\ BodyStep(window.body, window'.body) OBVIOUS
  <1> DEFINE w == [window EXCEPT !.suggestions = NoSuggestions]
  <1>1. Key(w) BY DEF Dismiss
  <1>2. Pressed /\ window' = w BY <1>1, KeyPressed
  <1>3. /\ WindowOK(w) /\ w.open /\ w.sending = FALSE /\ w.body = window.body
        /\ w.suggestions = NoSuggestions
    BY <1>2, BlanksOK, WithSuggestions
  <1> HIDE DEF w
  <1>4. Fits(w, Cached[current]) BY <1>3, BlanksOK, NothingFits
  <1>5. IInv' BY <1>1, <1>3, <1>4, KeyStep
  <1> QED BY <1>2, <1>3, <1>5, BodyStays

\* What is chosen is one of the suggestions, and is put into the field.
LEMMA AcceptPutsIn ==
    ASSUME IInv, Accept
    PROVE  LET text == Accepted(window.input[window.focus].value, Chosen) IN
           /\ window.focus \in Recipient
           /\ Chosen \in Addr
           /\ \E i \in DOMAIN window.suggestions.items : Chosen = window.suggestions.items[i]
           /\ text \in Seq(Char)
           /\ Key([window EXCEPT !.suggestions = NoSuggestions,
                                !.input[window.focus] = Area!WithValue(text)])
  <1> DEFINE s == window.suggestions
             text == Accepted(window.input[window.focus].value, Chosen)
             w == [window EXCEPT !.suggestions = NoSuggestions,
                                 !.input[window.focus] = Area!WithValue(text)]
  <1>1. window.focus \in Recipient /\ s.items # <<>> /\ Key(w) BY DEF Accept, Dropdown
  <1>2. Pressed BY <1>1, KeyPressed
  <1>3. window.input[window.focus].value \in Seq(Char)
    BY <1>1, <1>2 DEF Pressed, InputsOK, IsInput, Area!InputOK
  <1>4. s.items \in Seq(Addr) /\ s.selected \in 0..Max({0, Len(s.items) - 1})
    BY <1>2 DEF Pressed, SuggestionsOK
  <1>5. Len(s.items) \in Nat /\ Len(s.items) # 0 BY <1>1, <1>4, EmptySeq
  <1>6. Max({0, Len(s.items) - 1}) = IF 0 >= Len(s.items) - 1 THEN 0 ELSE Len(s.items) - 1
    BY <1>5, MaxOfTwo
  <1>7. s.selected + 1 \in 1..Len(s.items) BY <1>4, <1>5, <1>6
  <1>8. Chosen \in Addr /\ \E i \in DOMAIN s.items : Chosen = s.items[i]
    BY <1>4, <1>7 DEF Chosen
  <1>9. text \in Seq(Char) BY <1>3, <1>8, AcceptedType
  <1> HIDE DEF w
  <1> QED BY <1>1, <1>8, <1>9 DEF w

LEMMA AcceptStep ==
    IInv /\ Accept =>
      /\ IInv' /\ BodyStep(window.body, window'.body)
      /\ window'.input[window.focus].value = Accepted(window.input[window.focus].value, Chosen)
  <1> SUFFICES ASSUME IInv, Accept
               PROVE  /\ IInv' /\ BodyStep(window.body, window'.body)
                      /\ window'.input[window.focus].value =
                           Accepted(window.input[window.focus].value, Chosen)
    OBVIOUS
  <1> DEFINE text == Accepted(window.input[window.focus].value, Chosen)
             v == [window EXCEPT !.suggestions = NoSuggestions]
             f == Area!WithValue(text)
             w == [window EXCEPT !.suggestions = NoSuggestions, !.input[window.focus] = f]
  <1>1. window.focus \in Recipient /\ text \in Seq(Char) /\ Key(w) BY AcceptPutsIn
  <1>2. Pressed /\ window' = w BY <1>1, KeyPressed
  <1>3. w = [v EXCEPT !.input[window.focus] = f] OBVIOUS
  <1>4. f.value = text BY DEF Area!WithValue
  <1>5. IsInput(f, Char) BY <1>1, InputWith
  <1> HIDE DEF text, f
  <1>6. /\ WindowOK(v) /\ v.open /\ v.sending = FALSE /\ v.body = window.body
        /\ v.suggestions = NoSuggestions
    BY <1>2, BlanksOK, WithSuggestions
  <1> HIDE DEF v, w
  <1>7. window.focus \in Input /\ window.focus # "subject" BY <1>1 DEF Input, Recipient
  <1> DEFINE i == [v.input EXCEPT ![window.focus] = f]
  <1>8. InputsOK(i) /\ i[window.focus] = f
        /\ w = Window(v.open, i, v.body, v.focus, v.suggestions, v.sending)
    <2> DEFINE k == window.focus
    <2>1. k \in Input /\ k # "subject" BY <1>7
    <2>2. i = [v.input EXCEPT ![k] = f] OBVIOUS
    <2>3. w = [v EXCEPT !.input = i] BY <1>3
    <2> HIDE DEF i, k
    <2>4. InputsOK(i) BY <1>5, <1>6, <2>1, <2>2, InputChanges
    <2>5. i[k] = f
      <3>1. v.input = [g \in Input |-> v.input[g]] BY <1>6 DEF WindowOK, InputsOK
      <3> QED BY <2>1, <2>2, <3>1
    <2>6. v = Window(v.open, v.input, v.body, v.focus, v.suggestions, v.sending)
      BY <1>6 DEF WindowOK
    <2> QED BY <2>3, <2>4, <2>5, <2>6, WindowChanges DEF k
  <1> HIDE DEF i
  <1>9. /\ w.open = v.open /\ w.input = i /\ w.body = v.body /\ w.focus = v.focus
        /\ w.suggestions = v.suggestions /\ w.sending = v.sending
    BY <1>8, WindowParts
  <1>10. WindowOK(w) BY <1>6, <1>8, <1>9 DEF WindowOK
  <1>11. Fits(w, Cached[current]) BY <1>6, <1>9, BlanksOK, NothingFits
  <1>12. IInv' BY <1>1, <1>6, <1>9, <1>10, <1>11, KeyStep
  <1>13. window'.input[window.focus].value = text BY <1>2, <1>4, <1>8, <1>9
  <1> QED BY <1>2, <1>6, <1>9, <1>12, <1>13, BodyStays DEF text

LEMMA DiscardStep == IInv /\ Discard => IInv' /\ BodyStep(window.body, window'.body)
  <1> SUFFICES ASSUME IInv, Discard PROVE IInv' /\ BodyStep(window.body, window'.body) OBVIOUS
  <1>1. Key(Blanks) BY DEF Discard
  <1>2. Fits(Blanks, Cached[current]) BY BlanksOK, NothingFits
  <1>3. IInv' BY <1>1, <1>2, BlanksOK, KeyStep
  <1>4. window' = Blanks BY <1>1, KeyPressed
  <1> QED BY <1>3, <1>4, BlanksOK, BodyEmpty

LEMMA TurnType ==
    ASSUME NEW focus \in ToSet(Focus), NEW by \in Int
    PROVE  Turn(focus, by) \in ToSet(Focus)
  <1> DEFINE i == CHOOSE i \in 1..6 : Focus[i] = focus
             j == ((i + by - 1) % 6) + 1
  <1>1. DOMAIN Focus = 1..6 BY DEF Focus
  <1>2. \E k \in 1..6 : Focus[k] = focus BY <1>1 DEF ToSet
  <1>3. i \in 1..6 BY <1>2
  <1>4. Turn(focus, by) = Focus[j] BY DEF Turn
  <1> HIDE DEF i
  <1>5. j \in 1..6 BY <1>3
  <1> HIDE DEF j
  <1> QED BY <1>1, <1>4, <1>5 DEF ToSet

LEMMA MoveFocusStep ==
    ASSUME IInv, NEW by \in Int, MoveFocus(by)
    PROVE  IInv' /\ BodyStep(window.body, window'.body)
  <1> DEFINE f == Turn(window.focus, by)
             w == [window EXCEPT !.focus = f]
  <1>1. Key(Refresh(w)) BY DEF MoveFocus
  <1>2. Pressed BY <1>1, KeyPressed
  <1>3. f \in ToSet(Focus) BY <1>2, TurnType DEF Pressed
  <1> HIDE DEF f
  <1>4. w = Window(window.open, window.input, window.body, f, window.suggestions, window.sending)
    BY <1>2, WindowChanges DEF Pressed
  <1> HIDE DEF w
  <1>5. /\ w.open = window.open /\ w.input = window.input /\ w.body = window.body
        /\ w.focus = f /\ w.suggestions = window.suggestions /\ w.sending = window.sending
    BY <1>4, WindowParts
  <1>6. WindowOK(w) BY <1>2, <1>3, <1>4, <1>5 DEF Pressed, WindowOK
  <1> QED BY <1>1, <1>2, <1>5, <1>6, BodyStays, RefreshedKey DEF Pressed

LEMMA InsertStep == IInv /\ Insert => IInv' /\ BodyStep(window.body, window'.body)
  <1> SUFFICES ASSUME IInv, Insert PROVE IInv' /\ BodyStep(window.body, window'.body) OBVIOUS
  <1>1. PICK c \in IF window.focus \in Recipient THEN TypedName ELSE TypedText :
          Key(Refresh(Edited(Area!InputInsert(Field, c), Area!AreaInsert(window.body, c))))
    BY DEF Insert
  <1> DEFINE f == Area!InputInsert(Field, c)
             a == Area!AreaInsert(window.body, c)
             w == Edited(f, a)
  <1>2. Pressed BY <1>1, KeyPressed
  <1>3. c \in Char BY ComposeAssumption
  <1>4. IsArea(a) /\ BodyStep(window.body, a) BY <1>2, <1>3, BodyInsert DEF Pressed
  <1>5. window.focus \in Recipient => IsInput(f, Char)
    <2>1. window.focus \in Recipient => IsInput(Field, Char) BY <1>2 DEF Pressed, InputsOK, Field
    <2> QED BY <1>3, <2>1, InputKeys
  <1>6. window.focus = "subject" => IsInput(f, Char \cup {Subject})
    <2>1. window.focus = "subject" => IsInput(Field, Char \cup {Subject})
      BY <1>2 DEF Pressed, InputsOK, Field
    <2>2. c \in Char \cup {Subject} BY <1>3
    <2> QED BY <2>1, <2>2, InputKeys
  <1> HIDE DEF f, a
  <1>7. /\ WindowOK(w) /\ w.open = window.open /\ w.sending = window.sending
        /\ BodyStep(window.body, w.body)
    BY <1>2, <1>4, <1>5, <1>6, EditedOK DEF Pressed
  <1>8. Key(Refresh(w)) BY <1>1 DEF f, a
  <1> HIDE DEF w
  <1> QED BY <1>2, <1>7, <1>8, RefreshedKey DEF Pressed

LEMMA BackspaceStep == IInv /\ Backspace => IInv' /\ BodyStep(window.body, window'.body)
  <1> SUFFICES ASSUME IInv, Backspace PROVE IInv' /\ BodyStep(window.body, window'.body) OBVIOUS
  <1> DEFINE f == Area!InputBackspace(Field)
             a == Area!AreaBackspace(window.body)
             w == Edited(f, a)
  <1>1. Key(Refresh(w)) BY DEF Backspace
  <1>2. Pressed BY <1>1, KeyPressed
  <1>3. IsArea(a) /\ BodyStep(window.body, a) BY <1>2, BodyBackspace DEF Pressed
  <1>4. window.focus \in Recipient => IsInput(f, Char)
    <2>1. window.focus \in Recipient => IsInput(Field, Char) BY <1>2 DEF Pressed, InputsOK, Field
    <2> QED BY <2>1, InputKeys
  <1>5. window.focus = "subject" => IsInput(f, Char \cup {Subject})
    <2>1. window.focus = "subject" => IsInput(Field, Char \cup {Subject})
      BY <1>2 DEF Pressed, InputsOK, Field
    <2> QED BY <2>1, InputKeys
  <1> HIDE DEF f, a
  <1>6. /\ WindowOK(w) /\ w.open = window.open /\ w.sending = window.sending
        /\ BodyStep(window.body, w.body)
    BY <1>2, <1>3, <1>4, <1>5, EditedOK DEF Pressed
  <1> HIDE DEF w
  <1> QED BY <1>1, <1>2, <1>6, RefreshedKey DEF Pressed

\* Nothing but the body is changed.
LEMMA WithBody ==
    ASSUME Pressed, NEW a, IsArea(a), window.focus = "body"
    PROVE  LET w == [window EXCEPT !.body = a] IN
           /\ WindowOK(w) /\ w.open /\ w.sending = FALSE /\ w.body = a
           /\ Fits(w, Cached[current])
  <1> DEFINE w == [window EXCEPT !.body = a]
  <1>1. w = Window(window.open, window.input, a, window.focus, window.suggestions, window.sending)
    BY WindowChanges DEF Pressed
  <1> HIDE DEF w
  <1>2. /\ w.open = window.open /\ w.input = window.input /\ w.body = a
        /\ w.focus = window.focus /\ w.suggestions = window.suggestions
        /\ w.sending = window.sending
    BY <1>1, WindowParts
  <1>3. WindowOK(w) BY <1>1, <1>2 DEF Pressed, WindowOK
  <1>4. Fits(w, Cached[current]) BY <1>2 DEF Pressed, Fits
  <1> QED BY <1>2, <1>3, <1>4 DEF Pressed, w

LEMMA NewlineStep == IInv /\ Newline => IInv' /\ BodyStep(window.body, window'.body)
  <1> SUFFICES ASSUME IInv, Newline PROVE IInv' /\ BodyStep(window.body, window'.body) OBVIOUS
  <1> DEFINE a == Area!AreaNewline(window.body)
             w == [window EXCEPT !.body = a]
  <1>1. window.focus = "body" /\ Key(Refresh(w)) BY DEF Newline
  <1>2. Pressed BY <1>1, KeyPressed
  <1>3. IsArea(a) /\ BodyStep(window.body, a) BY <1>2, BodyNewline DEF Pressed
  <1> HIDE DEF a
  <1>4. WindowOK(w) /\ w.open /\ w.sending = FALSE /\ w.body = a BY <1>1, <1>2, <1>3, WithBody
  <1> HIDE DEF w
  <1> QED BY <1>1, <1>3, <1>4, RefreshedKey

\* A cursor is moved in a field or in the body.
LEMMA MovedInField ==
    ASSUME IInv, NEW f, NEW a, Key(Edited(f, a)), IsArea(a), BodyStep(window.body, a),
           \A C : IsInput(Field, C) => IsInput(f, C) /\ f.value = Field.value
    PROVE  IInv' /\ BodyStep(window.body, window'.body)
  <1> DEFINE w == Edited(f, a)
  <1>1. Pressed /\ window' = w BY KeyPressed
  <1>2. window.focus \in Recipient => IsInput(Field, Char) BY <1>1 DEF Pressed, InputsOK, Field
  <1>3. window.focus = "subject" => IsInput(Field, Char \cup {Subject})
    BY <1>1 DEF Pressed, InputsOK, Field
  <1>4. /\ WindowOK(w)
        /\ w.open = window.open /\ w.sending = window.sending
        /\ w.focus = window.focus /\ w.suggestions = window.suggestions
        /\ BodyStep(window.body, w.body)
        /\ window.focus \in Input => w.input[window.focus] = f
    BY <1>1, <1>2, <1>3, EditedOK DEF Pressed
  <1>5. Key(w) OBVIOUS
  <1> HIDE DEF w
  <1>6. window.focus \in Recipient => w.input[w.focus].value = window.input[window.focus].value
    BY <1>2, <1>4 DEF Input, Field
  <1>7. Fits(w, Cached[current]) BY <1>1, <1>4, <1>6 DEF Pressed, Fits
  <1>8. IInv' BY <1>1, <1>4, <1>5, <1>7, KeyStep DEF Pressed
  <1> QED BY <1>1, <1>4, <1>8

LEMMA MovedInBody ==
    ASSUME IInv, NEW a, window.focus = "body", Key([window EXCEPT !.body = a]), IsArea(a),
           BodyStep(window.body, a)
    PROVE  IInv' /\ BodyStep(window.body, window'.body)
  <1> DEFINE w == [window EXCEPT !.body = a]
  <1>1. Pressed /\ window' = w BY KeyPressed
  <1>2. WindowOK(w) /\ w.open /\ w.sending = FALSE /\ w.body = a /\ Fits(w, Cached[current])
    BY <1>1, WithBody
  <1>3. Key(w) OBVIOUS
  <1> HIDE DEF w
  <1> QED BY <1>1, <1>2, <1>3, KeyStep

LEMMA MoveCursorStep == IInv /\ MoveCursor => IInv' /\ BodyStep(window.body, window'.body)
  <1> SUFFICES ASSUME IInv, MoveCursor PROVE IInv' /\ BodyStep(window.body, window'.body) OBVIOUS
  <1>1. IsArea(window.body) BY DEF IInv, StateOK, WindowOK
  <1>2. CASE Key(Edited(Area!InputLeft(Field), Area!AreaLeft(window.body)))
    <2>1. \A C : IsInput(Field, C) =>
            IsInput(Area!InputLeft(Field), C) /\ Area!InputLeft(Field).value = Field.value
      BY InputKeys
    <2>2. IsArea(Area!AreaLeft(window.body)) /\ BodyStep(window.body, Area!AreaLeft(window.body))
      BY <1>1, BodyLeft
    <2> QED BY <1>2, <2>1, <2>2, MovedInField
  <1>3. CASE Key(Edited(Area!InputRight(Field), Area!AreaRight(window.body)))
    <2>1. \A C : IsInput(Field, C) =>
            IsInput(Area!InputRight(Field), C) /\ Area!InputRight(Field).value = Field.value
      BY InputKeys
    <2>2. IsArea(Area!AreaRight(window.body)) /\ BodyStep(window.body, Area!AreaRight(window.body))
      BY <1>1, BodyRight
    <2> QED BY <1>3, <2>1, <2>2, MovedInField
  <1>4. CASE window.focus = "body" /\ Key([window EXCEPT !.body = Area!AreaUp(@)])
    <2>1. IsArea(Area!AreaUp(window.body)) /\ BodyStep(window.body, Area!AreaUp(window.body))
      BY <1>1, BodyUp
    <2>2. Key([window EXCEPT !.body = Area!AreaUp(window.body)]) BY <1>4
    <2> QED BY <1>4, <2>1, <2>2, MovedInBody
  <1>5. CASE window.focus = "body" /\ Key([window EXCEPT !.body = Area!AreaDown(@)])
    <2>1. IsArea(Area!AreaDown(window.body)) /\ BodyStep(window.body, Area!AreaDown(window.body))
      BY <1>1, BodyDown
    <2>2. Key([window EXCEPT !.body = Area!AreaDown(window.body)]) BY <1>5
    <2> QED BY <1>5, <2>1, <2>2, MovedInBody
  <1> QED BY <1>2, <1>3, <1>4, <1>5 DEF MoveCursor

----------------------------------------------------------------------------
(* What happens outside the window *)

LEMMA SwitchAccountStep == IInv /\ SwitchAccount => IInv' /\ BodyStep(window.body, window'.body)
  <1> SUFFICES ASSUME IInv, SwitchAccount PROVE IInv' /\ BodyStep(window.body, window'.body)
    OBVIOUS
  <1>1. /\ ~window.open /\ window = Blanks /\ window' = window /\ send' = send
        /\ known' = <<>> /\ current' \in Account /\ asked' = asked \cup {current'}
    BY DEF IInv, ClosedIsBlank, SwitchAccount
  <1>2. known' \in Seq(Addr) /\ DOMAIN known' = {} BY <1>1
  <1>3. StateOK' BY <1>1, <1>2 DEF IInv, StateOK
  <1>4. KnownFits' BY <1>2 DEF KnownFits
  <1>5. ClosedIsBlank' BY <1>1 DEF ClosedIsBlank
  <1>6. Fits(window', Cached[current']) BY <1>1, BlanksOK, NothingFits
  <1>7. SendingFrozen' BY <1>1 DEF IInv, SendingFrozen
  <1> QED BY <1>1, <1>3, <1>4, <1>5, <1>6, <1>7, BodyStays DEF IInv

LEMMA AskAgainStep == IInv /\ AskAgain => IInv' /\ BodyStep(window.body, window'.body)
  <1> SUFFICES ASSUME IInv, AskAgain PROVE IInv' /\ BodyStep(window.body, window'.body)
    OBVIOUS
  <1>1. /\ current' = current /\ known' = known /\ window' = window /\ send' = send
        /\ asked' = asked \cup {current}
    BY DEF AskAgain
  <1>2. StateOK' /\ KnownFits' /\ ClosedIsBlank'
    BY <1>1 DEF IInv, StateOK, KnownFits, ClosedIsBlank
  <1>3. Fits(window', Cached[current']) BY <1>1 DEF IInv
  <1>4. SendingFrozen' BY <1>1 DEF IInv, SendingFrozen
  <1> QED BY <1>1, <1>2, <1>3, <1>4, BodyStays DEF IInv

LEMMA KnownSendersDoneStep ==
    IInv /\ KnownSendersDone => IInv' /\ BodyStep(window.body, window'.body)
  <1> SUFFICES ASSUME IInv, KnownSendersDone
               PROVE  IInv' /\ BodyStep(window.body, window'.body)
    OBVIOUS
  <1>1. current' = current /\ window' = window /\ send' = send BY DEF KnownSendersDone
  <1>2. PICK a \in asked : asked' \subseteq asked /\ (TakeSenders(a) \/ known' = known)
    BY DEF KnownSendersDone
  <1>3. asked \subseteq Account /\ current \in Account /\ known \in Seq(Addr) /\ KnownFits
    BY DEF IInv, StateOK
  <1>4. Cached[current] \in Seq(Addr) BY <1>3, ComposeAssumption
  <1>5. known' \in Seq(Addr) /\ \A i \in DOMAIN known' : KnownIn(Cached[current], known'[i].email)
    <2>1. CASE known' = known BY <1>3, <2>1 DEF KnownFits
    <2>2. CASE known' = KnownSenders(Cached[current]) BY <1>4, <2>2, KnownSendersType
    <2> QED BY <1>2, <2>1, <2>2 DEF TakeSenders
  <1>6. StateOK' BY <1>1, <1>2, <1>3, <1>5 DEF IInv, StateOK
  <1>7. KnownFits' BY <1>1, <1>5 DEF KnownFits
  <1>8. ClosedIsBlank' BY <1>1 DEF IInv, ClosedIsBlank
  <1>9. Fits(window', Cached[current']) BY <1>1 DEF IInv
  <1>10. SendingFrozen' BY <1>1 DEF IInv, SendingFrozen
  <1> QED BY <1>1, <1>6, <1>7, <1>8, <1>9, <1>10, BodyStays DEF IInv

\* A window is opened with nothing suggested.
LEMMA Opened ==
    ASSUME IInv, ~window.open, NEW w, window' = w, UNCHANGED <<current, known, asked, send>>,
           WindowOK(w), w.open, w.sending = FALSE, w.suggestions = NoSuggestions,
           w.body = Area!EmptyArea
    PROVE  IInv' /\ BodyStep(window.body, window'.body)
  <1>1. window.sending = FALSE /\ send = {} BY BlanksOK DEF IInv, ClosedIsBlank, SendingFrozen
  <1>2. StateOK' BY DEF IInv, StateOK
  <1>3. KnownFits' BY DEF IInv, KnownFits
  <1>4. ClosedIsBlank' BY DEF ClosedIsBlank
  <1>5. Fits(window', Cached[current']) BY BlanksOK, NothingFits
  <1>6. SendingFrozen' BY <1>1 DEF SendingFrozen
  <1> QED BY <1>2, <1>3, <1>4, <1>5, <1>6, BodyEmpty DEF IInv

LEMMA StartBlankStep == IInv /\ StartBlank => IInv' /\ BodyStep(window.body, window'.body)
  <1> SUFFICES ASSUME IInv, StartBlank PROVE IInv' /\ BodyStep(window.body, window'.body) OBVIOUS
  <1> DEFINE w == [Blanks EXCEPT !.open = TRUE]
  <1>1. ~window.open /\ window' = w /\ UNCHANGED <<current, known, asked, send>> BY DEF StartBlank
  <1>2. WindowOK(Blanks) BY BlanksOK
  <1>3. w = Window(TRUE, Blanks.input, Blanks.body, Blanks.focus, Blanks.suggestions, Blanks.sending)
    BY <1>2, WindowChanges DEF WindowOK
  <1> HIDE DEF w
  <1>4. /\ w.open = TRUE /\ w.input = Blanks.input /\ w.body = Blanks.body
        /\ w.focus = Blanks.focus /\ w.suggestions = Blanks.suggestions
        /\ w.sending = Blanks.sending
    BY <1>3 DEF Window
  <1>5. WindowOK(w) BY <1>2, <1>3, <1>4 DEF WindowOK
  <1> QED BY <1>1, <1>4, <1>5, BlanksOK, Opened

LEMMA ReplyStep == IInv /\ Reply => IInv' /\ BodyStep(window.body, window'.body)
  <1> SUFFICES ASSUME IInv, Reply PROVE IInv' /\ BodyStep(window.body, window'.body) OBVIOUS
  <1>1. PICK to \in {<<>>} \cup {<<Cached[current][k].email>> : k \in DOMAIN Cached[current]} :
          window' = [Blanks EXCEPT !.open = TRUE, !.focus = "body",
                       !.input["to"] = Area!WithValue(to),
                       !.input["subject"] = Area!WithValue(<<Subject>>)]
    BY DEF Reply
  <1>2. ~window.open /\ UNCHANGED <<current, known, asked, send>> BY DEF Reply
  <1> DEFINE f == Area!WithValue(to)
             g == Area!WithValue(<<Subject>>)
             i == [Blanks.input EXCEPT !["to"] = f, !["subject"] = g]
             w == Window(TRUE, i, Blanks.body, "body", Blanks.suggestions, Blanks.sending)
  <1>3. IsInput(f, Char) /\ IsInput(g, Char \cup {Subject})
    <2>1. current \in Account BY DEF IInv, StateOK
    <2>2. Cached[current] \in Seq(Addr) BY <2>1, ComposeAssumption
    <2>3. \A a \in Addr : a.email \in Char BY DEF Addr, Char
    <2>4. \A k \in DOMAIN Cached[current] : Cached[current][k] \in Addr BY <2>2
    <2>5. to \in Seq(Char)
      <3>1. CASE to = <<>> BY <3>1
      <3>2. CASE to # <<>>
        <4>1. PICK k \in DOMAIN Cached[current] : to = <<Cached[current][k].email>> BY <3>2
        <4>2. Cached[current][k].email \in Char BY <2>3, <2>4
        <4> QED BY <4>1, <4>2
      <3> QED BY <3>1, <3>2
    <2>6. <<Subject>> \in Seq(Char \cup {Subject}) OBVIOUS
    <2> QED BY <2>5, <2>6, InputWith
  <1> HIDE DEF f, g
  <1>4. WindowOK(Blanks) BY BlanksOK
  <1>5. InputsOK(i) BY <1>3, <1>4 DEF WindowOK, InputsOK, Input, Recipient
  <1>6. window' = w
    <2>1. window' = [Blanks EXCEPT !.open = TRUE, !.focus = "body", !.input = i]
      BY <1>1 DEF f, g
    <2>2. Blanks = Window(Blanks.open, Blanks.input, Blanks.body, Blanks.focus,
                          Blanks.suggestions, Blanks.sending)
      BY <1>4 DEF WindowOK
    <2> HIDE DEF i
    <2> QED BY <2>1, <2>2 DEF Window
  <1> HIDE DEF i
  <1>7. /\ w.open = TRUE /\ w.input = i /\ w.body = Blanks.body /\ w.focus = "body"
        /\ w.suggestions = Blanks.suggestions /\ w.sending = Blanks.sending
    BY DEF Window
  <1>8. w = Window(w.open, w.input, w.body, w.focus, w.suggestions, w.sending) BY <1>7
  <1>9. "body" \in ToSet(Focus) BY DEF ToSet, Focus
  <1> HIDE DEF w
  <1>10. WindowOK(w) BY <1>4, <1>5, <1>7, <1>8, <1>9 DEF WindowOK
  <1> QED BY <1>2, <1>6, <1>7, <1>10, BlanksOK, Opened

----------------------------------------------------------------------------
(* Sending *)

LEMMA SendStep == IInv /\ Send => IInv' /\ BodyStep(window.body, window'.body)
  <1> SUFFICES ASSUME IInv, Send PROVE IInv' /\ BodyStep(window.body, window'.body) OBVIOUS
  <1> DEFINE w == [window EXCEPT !.sending = TRUE]
  <1>1. /\ window.open /\ window' = w /\ send' = {Draft(window)}
        /\ UNCHANGED <<current, known, asked>>
    BY DEF Send
  <1>2. WindowOK(window) BY DEF IInv, StateOK
  <1>3. w = Window(window.open, window.input, window.body, window.focus, window.suggestions, TRUE)
    BY <1>2, WindowChanges DEF WindowOK
  <1> HIDE DEF w
  <1>4. /\ w.open = window.open /\ w.input = window.input /\ w.body = window.body
        /\ w.focus = window.focus /\ w.suggestions = window.suggestions /\ w.sending = TRUE
    BY <1>3 DEF Window
  <1>5. WindowOK(w) BY <1>2, <1>3, <1>4 DEF WindowOK
  <1>6. Draft(w) = Draft(window) BY <1>4 DEF Draft
  <1>7. StateOK' BY <1>1, <1>5 DEF IInv, StateOK
  <1>8. KnownFits' BY <1>1 DEF IInv, KnownFits
  <1>9. ClosedIsBlank' BY <1>1, <1>4 DEF ClosedIsBlank
  <1>10. Fits(window', Cached[current']) BY <1>1, <1>4 DEF IInv, Fits
  <1>11. SendingFrozen'
    <2>1. Draft(window') = Draft(window) BY <1>1, <1>6
    <2>2. window'.sending /\ window'.open BY <1>1, <1>4
    <2>3. send' # {} /\ \A d \in send' : d = Draft(window') BY <1>1, <2>1
    <2> QED BY <2>2, <2>3 DEF SendingFrozen
  <1> QED BY <1>1, <1>4, <1>7, <1>8, <1>9, <1>10, <1>11, BodyStays DEF IInv

LEMMA SendOkStep == IInv /\ SendOk => IInv' /\ BodyStep(window.body, window'.body)
  <1> SUFFICES ASSUME IInv, SendOk PROVE IInv' /\ BodyStep(window.body, window'.body) OBVIOUS
  <1>1. window' = Blanks /\ send' = {} /\ UNCHANGED <<current, known, asked>> BY DEF SendOk
  <1>2. StateOK' BY <1>1, BlanksOK DEF IInv, StateOK
  <1>3. KnownFits' BY <1>1 DEF IInv, KnownFits
  <1>4. ClosedIsBlank' BY <1>1 DEF ClosedIsBlank
  <1>5. Fits(window', Cached[current']) BY <1>1, BlanksOK, NothingFits
  <1>6. SendingFrozen' BY <1>1, BlanksOK DEF SendingFrozen
  <1> QED BY <1>1, <1>2, <1>3, <1>4, <1>5, <1>6, BlanksOK, BodyEmpty DEF IInv

LEMMA SendFailsStep == IInv /\ SendFails => IInv' /\ BodyStep(window.body, window'.body)
  <1> SUFFICES ASSUME IInv, SendFails PROVE IInv' /\ BodyStep(window.body, window'.body) OBVIOUS
  <1> DEFINE w == [window EXCEPT !.sending = FALSE]
  <1>1. window.open
    <2>1. send # {} BY DEF SendFails
    <2> QED BY <2>1 DEF IInv, SendingFrozen
  <1>2. window' = w /\ send' = {} /\ UNCHANGED <<current, known, asked>> BY <1>1 DEF SendFails
  <1>3. WindowOK(window) BY DEF IInv, StateOK
  <1>4. w = Window(window.open, window.input, window.body, window.focus, window.suggestions, FALSE)
    BY <1>3, WindowChanges DEF WindowOK
  <1> HIDE DEF w
  <1>5. /\ w.open = window.open /\ w.input = window.input /\ w.body = window.body
        /\ w.focus = window.focus /\ w.suggestions = window.suggestions /\ w.sending = FALSE
    BY <1>4 DEF Window
  <1>6. WindowOK(w) BY <1>3, <1>4, <1>5 DEF WindowOK
  <1>7. StateOK' BY <1>2, <1>6 DEF IInv, StateOK
  <1>8. KnownFits' BY <1>2 DEF IInv, KnownFits
  <1>9. ClosedIsBlank' BY <1>1, <1>2, <1>5 DEF ClosedIsBlank
  <1>10. Fits(window', Cached[current']) BY <1>2, <1>5 DEF IInv, Fits
  <1>11. SendingFrozen' BY <1>2, <1>5 DEF SendingFrozen
  <1> QED BY <1>2, <1>5, <1>7, <1>8, <1>9, <1>10, <1>11, BodyStays DEF IInv

----------------------------------------------------------------------------
(* Every step *)

\* All steps together.
LEMMA StepOK ==
    IInv /\ [Next]_vars => IInv' /\ BodyStep(window.body, window'.body)
  <1> SUFFICES ASSUME IInv, [Next]_vars
               PROVE  IInv' /\ BodyStep(window.body, window'.body)
    OBVIOUS
  <1>1. CASE SwitchAccount BY <1>1, SwitchAccountStep
  <1>2. CASE KnownSendersDone BY <1>2, KnownSendersDoneStep
  <1>3. CASE StartBlank BY <1>3, StartBlankStep
  <1>4. CASE Reply BY <1>4, ReplyStep
  <1>5. CASE Choose BY <1>5, ChooseStep
  <1>6. CASE Accept BY <1>6, AcceptStep
  <1>7. CASE Dismiss BY <1>7, DismissStep
  <1>8. CASE Discard BY <1>8, DiscardStep
  <1>9. CASE NextField BY <1>9, MoveFocusStep DEF NextField
  <1>10. CASE PrevField BY <1>10, MoveFocusStep DEF PrevField
  <1>11. CASE Insert BY <1>11, InsertStep
  <1>12. CASE Backspace BY <1>12, BackspaceStep
  <1>13. CASE Newline BY <1>13, NewlineStep
  <1>14. CASE MoveCursor BY <1>14, MoveCursorStep
  <1>15. CASE Send BY <1>15, SendStep
  <1>16. CASE SendOk BY <1>16, SendOkStep
  <1>17. CASE SendFails BY <1>17, SendFailsStep
  <1>19. CASE AskAgain BY <1>19, AskAgainStep
  <1>18. CASE UNCHANGED vars
    <2>1. /\ current' = current /\ known' = known /\ asked' = asked /\ window' = window
          /\ send' = send
      BY <1>18 DEF vars
    <2>2. StateOK' /\ KnownFits' /\ ClosedIsBlank'
      BY <2>1 DEF IInv, StateOK, KnownFits, ClosedIsBlank
    <2>3. Fits(window', Cached[current']) BY <2>1 DEF IInv
    <2>4. SendingFrozen' BY <2>1 DEF IInv, SendingFrozen
    <2> QED BY <2>1, <2>2, <2>3, <2>4, BodyStays DEF IInv
  <1> QED BY <1>1, <1>2, <1>3, <1>4, <1>5, <1>6, <1>7, <1>8, <1>9, <1>10, <1>11, <1>12,
             <1>13, <1>14, <1>15, <1>16, <1>17, <1>18, <1>19 DEF Next

\* The invariant always holds.
LEMMA Invariance == Spec => []IInv
  <1>1. IInv /\ [Next]_vars => IInv' BY StepOK
  <1> QED BY InitOK, <1>1, PTL DEF Spec

\* Cursors stay inside their texts and selections inside their lists,
\* whatever is typed, deleted, suggested and answered (TypeOK).
THEOREM SpecTypeOK == Spec => []TypeOK
  <1>1. IInv => TypeOK
    <2> SUFFICES ASSUME IInv PROVE TypeOK OBVIOUS
    <2>1. /\ current \in Account /\ asked \subseteq Account /\ known \in Seq(Addr)
          /\ InputsOK(window.input) /\ IsArea(window.body) /\ window.focus \in ToSet(Focus)
          /\ SuggestionsOK(window.suggestions)
      BY DEF IInv, StateOK, WindowOK
    <2>2. /\ \A f \in Recipient : Area!InputOK(window.input[f], Char)
          /\ Area!InputOK(window.input["subject"], Char \cup {Subject})
      BY <2>1 DEF InputsOK, IsInput
    <2>3. Area!AreaOK(window.body, Char) BY <2>1 DEF IsArea
    <2>4. LET s == window.suggestions IN
            s.items \in Seq(Addr) /\ s.selected \in 0..Max({0, Len(s.items) - 1})
      BY <2>1 DEF SuggestionsOK
    <2> QED BY <2>1, <2>2, <2>3, <2>4, Zenon DEF TypeOK
  <1> QED BY Invariance, <1>1, PTL

\* The dropdown lists nobody but senders the account shown knows, who match
\* what is typed in the field with the focus now (SuggestionsFit).
THEOREM SpecSuggestionsFit == Spec => []SuggestionsFit
  <1>1. IInv => SuggestionsFit
    <2> SUFFICES ASSUME IInv PROVE SuggestionsFit OBVIOUS
    <2>1. Fits(window, Cached[current]) BY DEF IInv
    <2> QED BY <2>1 DEF Fits, KnownIn, SuggestionsFit
  <1> QED BY Invariance, <1>1, PTL

\* While a mail is being sent its window stays as it was sent
\* (SendingFrozen).
THEOREM SpecSendingFrozen == Spec => []SendingFrozen
  <1>1. IInv => SendingFrozen BY DEF IInv
  <1> QED BY Invariance, <1>1, PTL

\* While a mail is being sent, its window is closed only by the answer that
\* what it shows was sent, to someone, each recipient having been read
\* (KeptUntilSent): no key closes it then, and no other answer.
THEOREM SpecKeptUntilSent == Spec => KeptUntilSent
  <1> DEFINE Kept == window.open /\ ~window'.open =>
                       \/ ~window.sending
                       \/ send = {Draft(window)} /\ Builds(Draft(window))
  <1>1. IInv /\ [Next]_vars => Kept
    <2> SUFFICES ASSUME IInv, [Next]_vars, window.open, ~window'.open, window.sending
                 PROVE  send = {Draft(window)} /\ Builds(Draft(window))
      OBVIOUS
    <2>1. CASE SendOk
      <3>1. PICK d \in send : Builds(d) BY <2>1 DEF SendOk
      <3>2. \A e \in send : e = Draft(window) BY DEF IInv, SendingFrozen
      <3> QED BY <3>1, <3>2
    <2>2. CASE SendFails
      <3>1. WindowOK(window) BY DEF IInv, StateOK
      <3>2. window' = [window EXCEPT !.sending = FALSE] BY <2>2 DEF SendFails
      <3>3. window'.open = window.open BY <3>1, <3>2, WindowChanges DEF WindowOK, Window
      <3> QED BY <3>3
    <2>3. CASE KnownSendersDone BY <2>3 DEF KnownSendersDone
    <2>4. CASE UNCHANGED vars BY <2>4 DEF vars
    <2>5. CASE SwitchAccount \/ AskAgain \/ StartBlank \/ Reply \/ Send
      BY <2>5 DEF SwitchAccount, AskAgain, StartBlank, Reply, Send
    <2>6. CASE Choose \/ Accept \/ Dismiss \/ Discard
      BY <2>6 DEF Choose, Accept, Dismiss, Discard, Key
    <2>7. CASE NextField \/ PrevField \/ Insert \/ Backspace \/ Newline \/ MoveCursor
      BY <2>7 DEF NextField, PrevField, MoveFocus, Insert, Backspace, Newline, MoveCursor, Key
    <2> QED BY <2>1, <2>2, <2>3, <2>4, <2>5, <2>6, <2>7 DEF Next
  <1>2. IInv /\ [Next]_vars => [Kept]_vars BY <1>1
  <1> QED BY Invariance, <1>2, PTL DEF Spec, KeptUntilSent

----------------------------------------------------------------------------
(* The body implements one text with a cursor *)

\* PlainText's lines are those of the text of the body.
LEMMA SameLines ==
    /\ \A p : TypesPlainText!LineStart(p) = TextLineStart(Area!AreaText(window.body), p)
    /\ \A p : TypesPlainText!LineEnd(p) = TextLineEnd(Area!AreaText(window.body), p)
    /\ \A p : TypesPlainText!Column(p) = TextColumn(Area!AreaText(window.body), p)
    /\ \A S : TypesPlainText!Min(S) = Min(S)
    /\ \A s, i, e : TypesPlainText!InsertAt(s, i, e) = InsertAt(s, i, e)
    /\ \A s, i : TypesPlainText!RemoveAt(s, i) = RemoveAt(s, i)
  <1>1. \A S : TypesPlainText!Min(S) = Min(S) BY Zenon DEF TypesPlainText!Min, Min
  <1>2. \A S : TypesPlainText!Max(S) = Max(S) BY Zenon DEF TypesPlainText!Max, Max
  <1>3. \A s, i, e : TypesPlainText!InsertAt(s, i, e) = InsertAt(s, i, e)
    BY Zenon DEF TypesPlainText!InsertAt, InsertAt
  <1>4. \A s, i : TypesPlainText!RemoveAt(s, i) = RemoveAt(s, i)
    BY Zenon DEF TypesPlainText!RemoveAt, RemoveAt
  <1>5. \A p : TypesPlainText!LineStart(p) = TextLineStart(Area!AreaText(window.body), p)
    BY <1>2, Zenon DEF TypesPlainText!LineStart, TextLineStart
  <1>6. \A p : TypesPlainText!LineEnd(p) = TextLineEnd(Area!AreaText(window.body), p)
    BY <1>1, Zenon DEF TypesPlainText!LineEnd, TextLineEnd
  <1>7. \A p : TypesPlainText!Column(p) = TextColumn(Area!AreaText(window.body), p)
    BY <1>5, Zenon DEF TypesPlainText!Column, TextColumn
  <1> QED BY <1>1, <1>3, <1>4, <1>5, <1>6, <1>7

\* A step on the body is one of PlainText, or none.
LEMMA BodyStepIsPlain ==
    BodyStep(window.body, window'.body) =>
      [TypesPlainText!Next]_<<Area!AreaText(window.body), Area!AreaPos(window.body)>>
  <1> DEFINE t == Area!AreaText(window.body)
             p == Area!AreaPos(window.body)
             u == Area!AreaText(window'.body)
             q == Area!AreaPos(window'.body)
  <1> SUFFICES ASSUME PlainStep(t, p, u, q)
               PROVE  [TypesPlainText!Next]_<<t, p>>
    BY DEF BodyStep
  <1>1. CASE Types(t, p, u, q)
    <2>1. PICK c \in Mark : u = InsertAt(t, p + 1, c) /\ q = p + 1 BY <1>1 DEF Types
    <2>2. TypesPlainText!Type(c) BY <2>1, SameLines DEF TypesPlainText!Type
    <2>3. c \in Char \cup {NL} BY DEF Mark
    <2> QED BY <2>2, <2>3 DEF TypesPlainText!Next
  <1>2. CASE Erases(t, p, u, q)
    <2>1. TypesPlainText!Erase BY <1>2, SameLines DEF Erases, TypesPlainText!Erase
    <2> QED BY <2>1 DEF TypesPlainText!Next
  <1>3. CASE Moves(t, p, u, q)
    <2>1. TypesPlainText!Step BY <1>3 DEF Moves, TypesPlainText!Step, TypesPlainText!Place
    <2> QED BY <2>1 DEF TypesPlainText!Next
  <1>4. CASE ChangesLine(t, p, u, q)
    <2>1. TypesPlainText!ChangeLine
      BY <1>4, SameLines DEF ChangesLine, TypesPlainText!ChangeLine, TypesPlainText!Place
    <2> QED BY <2>1 DEF TypesPlainText!Next
  <1>5. CASE Clears(u, q)
    <2>1. TypesPlainText!Clear BY <1>5 DEF Clears, TypesPlainText!Clear
    <2> QED BY <2>1 DEF TypesPlainText!Next
  <1>6. CASE u = t /\ q = p BY <1>6
  <1> QED BY <1>1, <1>2, <1>3, <1>4, <1>5, <1>6 DEF PlainStep

\* Every key does to the lines, the row and the column what it would do to
\* the text the lines make up and a place in it (ImplementsPlainText).
THEOREM SpecImplementsPlainText == Spec => ImplementsPlainText
  <1>1. Init => TypesPlainText!Init
    BY BodyEmpty, BlanksOK DEF Init, TypesPlainText!Init
  <1>2. IInv /\ [Next]_vars =>
          [TypesPlainText!Next]_<<Area!AreaText(window.body), Area!AreaPos(window.body)>>
    BY StepOK, BodyStepIsPlain
  <1> QED BY Invariance, <1>1, <1>2, PTL DEF Spec, ImplementsPlainText, TypesPlainText!Spec

----------------------------------------------------------------------------
(* What smtp.rs reads in a recipient field *)

PieceStep(ps, c) ==
    IF c = Comma THEN Append(ps, <<>>) ELSE Append(Front(ps), Append(Last(ps), c))
Pieces(text) == FoldLeft(LAMBDA ps, c : PieceStep(ps, c), << <<>> >>, text)
KeepStep(ms, p) == IF Trim(p) = <<>> THEN ms ELSE Append(ms, Trim(p))
Kept(ps) == FoldLeft(LAMBDA ms, p : KeepStep(ms, p), <<>>, ps)

\* smtp.rs's reading is one fold after another.
LEMMA MailboxesKept == \A text : Mailboxes(text) = Kept(Pieces(text))
  <1> TAKE text
  <1>1. FoldLeft(LAMBDA ps, c : IF c = Comma THEN Append(ps, <<>>)
                                ELSE Append(Front(ps), Append(Last(ps), c)), << <<>> >>, text)
          = Pieces(text)
    BY DEF Pieces, PieceStep, FoldLeft, MapThenFoldSet
  <1>2. \A ps : FoldLeft(LAMBDA ms, p : IF Trim(p) = <<>> THEN ms ELSE Append(ms, Trim(p)), <<>>, ps)
                  = Kept(ps)
    BY DEF Kept, KeepStep, FoldLeft, MapThenFoldSet
  <1> QED BY <1>1, <1>2, Zenon DEF Mailboxes

\* All but the last, and the last.
LEMMA FrontAndLast ==
    ASSUME NEW S, NEW s \in Str(S), NEW x \in S
    PROVE  Front(Cat(s, One(x))) = s /\ Last(Cat(s, One(x))) = x
  <1> DEFINE u == Cat(s, One(x))
  <1>1. One(x) \in Str(S) /\ Size(One(x)) = 1 /\ One(x)[1] = x /\ Size(s) \in Nat BY StrType
  <1>2. u \in Str(S) /\ Size(u) = Size(s) + 1 BY <1>1, CatType
  <1>3. SubSeq(u, 1, Size(s)) = s BY <1>1, CatParts
  <1>4. u[Size(s) + 1] = x
    <2>1. 1 \in 1..Size(One(x)) BY <1>1
    <2> QED BY <1>1, <2>1, CatAt
  <1> HIDE DEF u
  <1>5. Len(u) = Size(s) + 1 /\ Len(u) - 1 = Size(s) BY <1>1, <1>2 DEF Size
  <1>6. Front(u) = SubSeq(u, 1, Size(s)) BY <1>5 DEF Front
  <1>7. Last(u) = u[Size(s) + 1] BY <1>5 DEF Last
  <1> QED BY <1>3, <1>4, <1>6, <1>7 DEF u

LEMMA OneMore ==
    /\ \A s \in Strs, c \in Char : Append(s, c) = Cat(s, One(c))
    /\ \A A \in Lists, x \in Strs : Append(A, x) = Cat(A, One(x))
  BY AppendCat DEF AppendIsCat, Strs, Lists

\* Lists with a last piece.
SomeLists == {ps \in Lists : ps # None}

LEMMA LastPiece ==
    /\ \A ps \in SomeLists : \E A \in Lists, x \in Strs : ps = Cat(A, One(x))
    /\ \A A \in Lists, x \in Strs : Cat(A, One(x)) \in SomeLists
  <1>1. ASSUME NEW ps \in SomeLists PROVE \E A \in Lists, x \in Strs : ps = Cat(A, One(x))
    BY CutEnds DEF SomeLists, Lists
  <1>2. ASSUME NEW A \in Lists, NEW x \in Strs PROVE Cat(A, One(x)) \in SomeLists
    <2>1. One(x) \in Lists /\ Size(One(x)) = 1 /\ Size(A) \in Nat BY StrType DEF Lists
    <2>2. Cat(A, One(x)) \in Lists /\ Size(Cat(A, One(x))) = Size(A) + 1
      BY <2>1, CatType DEF Lists
    <2>3. Size(Cat(A, One(x))) # 0 BY <2>1, <2>2
    <2> QED BY <2>2, <2>3, StrType DEF SomeLists
  <1> QED BY <1>1, <1>2

\* A comma starts a piece, and any other character is put to the last one.
LEMMA PieceStepIs ==
    ASSUME NEW A \in Lists, NEW x \in Strs, NEW c \in Char
    PROVE  /\ c = Comma => PieceStep(Cat(A, One(x)), c) = Cat(Cat(A, One(x)), One(None))
           /\ c # Comma => PieceStep(Cat(A, One(x)), c) = Cat(A, One(Cat(x, One(c))))
           /\ PieceStep(Cat(A, One(x)), c) \in SomeLists
  <1>1. Cat(A, One(x)) \in Lists /\ None \in Strs BY LastPiece, Sorts DEF SomeLists
  <1>2. Front(Cat(A, One(x))) = A /\ Last(Cat(A, One(x))) = x BY FrontAndLast DEF Lists
  <1>3. Cat(x, One(c)) \in Strs BY StrType, CatType DEF Strs
  <1>4. c = Comma => PieceStep(Cat(A, One(x)), c) = Cat(Cat(A, One(x)), One(None))
    BY <1>1, OneMore DEF PieceStep, None
  <1>5. c # Comma => PieceStep(Cat(A, One(x)), c) = Cat(A, One(Cat(x, One(c))))
    BY <1>2, <1>3, OneMore DEF PieceStep
  <1> QED BY <1>1, <1>4, <1>5, <1>3, LastPiece

LEMMA PiecesFold ==
    ASSUME NEW s \in Seq(Char)
    PROVE  LET g == [p \in SomeLists \X Char |-> PieceStep(p[1], p[2])] IN
           /\ g \in [SomeLists \X Char -> SomeLists]
           /\ Folds(Pieces(s), g, SomeLists, One(None), s)
           /\ Pieces(s) \in SomeLists
  <1> DEFINE V == SomeLists
             X == Char
             base == One(None)
             g == [p \in V \X X |-> PieceStep(p[1], p[2])]
             E(T) == [x \in SUBSET DOMAIN s |->
                       IF x = {} THEN base ELSE PieceStep(T[x \ {Max(x)}], s[Max(x)])]
  <1>1. Pieces(s) = (CHOOSE T : T = E(T))[DOMAIN s]
    BY DEF Pieces, FoldLeft, MapThenFoldSet, Max, One, None
  <1>2. base \in V
    <2>1. None \in Strs /\ None \in Lists BY Sorts
    <2>2. Cat(None, One(None)) = One(None) BY <2>1, Sorts, CatNone DEF Lists
    <2> QED BY <2>1, <2>2, LastPiece
  <1>3. ASSUME NEW t \in V, NEW c \in X
        PROVE  g[<<t, c>>] = PieceStep(t, c) /\ PieceStep(t, c) \in V
    <2>1. <<t, c>> \in V \X X OBVIOUS
    <2>2. PieceStep(t, c) \in V BY LastPiece, PieceStepIs
    <2> HIDE DEF V, X
    <2> QED BY <2>1, <2>2
  <1>4. g \in [V \X X -> V]
    <2> HIDE DEF V, X
    <2>1. \A p \in V \X X : p[1] \in V /\ p[2] \in X OBVIOUS
    <2>2. \A p \in V \X X : PieceStep(p[1], p[2]) \in V BY <1>3, <2>1
    <2> QED BY <2>2
  <1> HIDE DEF V, X, g, base
  <1>5. s \in Seq(X) BY DEF X
  <1>6. \E T : T = E(T)
    <2>1. PICK T : StepsOf(T, g, V, X, base, s)
      <3> HIDE DEF E
      <3> QED BY <1>2, <1>4, <1>5, FoldStep
    <2>2. \A x \in SUBSET DOMAIN s :
            T[x] = IF x = {} THEN base ELSE PieceStep(T[x \ {Max(x)}], s[Max(x)])
      BY <1>3, <2>1 DEF StepsOf
    <2> QED BY <2>1, <2>2 DEF StepsOf
  <1> DEFINE U == CHOOSE U : U = E(U)
  <1>7. U = E(U) BY <1>6
  <1> HIDE DEF U
  <1>8. U[{}] = base BY <1>7
  <1>9. ASSUME NEW k \in 1..Len(s), U[1..k - 1] \in V
         PROVE  U[1..k] = g[<<U[1..k - 1], s[k]>>]
    <2>1. k \in Nat /\ k # 0 /\ 1..k \in SUBSET DOMAIN s /\ s[k] \in X BY <1>5
    <2>2. 1..k # {} /\ Max(1..k) = k /\ (1..k) \ {k} = 1..k - 1 BY <2>1, FirstPlaces
    <2>3. U[1..k] = PieceStep(U[(1..k) \ {Max(1..k)}], s[Max(1..k)]) BY <1>7, <2>1, <2>2
    <2> QED BY <1>3, <1>9, <2>1, <2>2, <2>3
  <1>10. Folds(U[DOMAIN s], g, V, base, s) /\ U[DOMAIN s] \in V
    BY <1>2, <1>4, <1>5, <1>8, <1>9, FoldValue
  <1>11. Pieces(s) = U[DOMAIN s] BY <1>1 DEF U
  <1> QED BY <1>4, <1>10, <1>11 DEF V, X, g, base

\* One more character is one more step.
LEMMA PiecesMore ==
    ASSUME NEW s \in Strs, NEW c \in Char
    PROVE  /\ Pieces(s) \in SomeLists
           /\ Pieces(Cat(s, One(c))) = PieceStep(Pieces(s), c)
  <1> DEFINE V == SomeLists
             X == Char
             g == [p \in V \X X |-> PieceStep(p[1], p[2])]
             t == Append(s, c)
             base == One(None)
  <1>1. s \in Seq(X) /\ t \in Seq(X) BY DEF Strs, Str
  <1>2. /\ g \in [V \X X -> V] /\ Pieces(s) \in V
        /\ Folds(Pieces(s), g, V, base, s) /\ Folds(Pieces(t), g, V, base, t)
    BY <1>1, PiecesFold
  <1>3. base \in V
    <2>1. None \in Strs /\ None \in Lists BY Sorts
    <2>2. Cat(None, One(None)) = One(None) BY <2>1, Sorts, CatNone DEF Lists
    <2> QED BY <2>1, <2>2, LastPiece
  <1>4. g[<<Pieces(s), c>>] = PieceStep(Pieces(s), c)
    <2>1. <<Pieces(s), c>> \in V \X X BY <1>2
    <2> HIDE DEF V, X
    <2> QED BY <2>1
  <1>5. t = Cat(s, One(c)) BY OneMore
  <1> HIDE DEF V, g, base, X
  <1>6. c \in X BY DEF X
  <1>7. Folds(g[<<Pieces(s), c>>], g, V, base, t)
    BY <1>1, <1>2, <1>3, <1>6, FoldAppend
  <1> HIDE DEF t
  <1>8. Pieces(t) = g[<<Pieces(s), c>>] BY <1>1, <1>2, <1>7, FoldUnique
  <1> QED BY <1>2, <1>4, <1>5, <1>8 DEF V

\* What has no comma is put to the last piece.
Solid(t) == \A i \in 1..Size(t) : t[i] # Comma

LEMMA PiecesSolid ==
    ASSUME NEW s \in Strs, NEW A \in Lists, NEW x \in Strs, Pieces(s) = Cat(A, One(x)),
           NEW t \in Strs, Solid(t)
    PROVE  Pieces(Cat(s, t)) = Cat(A, One(Cat(x, t)))
  <1> DEFINE Goes(u) == Pieces(Cat(s, u)) = Cat(A, One(Cat(x, u)))
             bad == {n \in Nat : \E u \in Strs : Size(u) = n /\ Solid(u) /\ ~Goes(u)}
  <1>1. bad = {}
    <2>1. SUFFICES ASSUME bad # {} PROVE FALSE OBVIOUS
    <2>2. bad \in SUBSET Nat OBVIOUS
    <2> DEFINE m == Min(bad)
    <2>3. m \in bad /\ \A k \in bad : m <= k BY <2>1, <2>2, MinOfNaturals
    <2> HIDE DEF m
    <2>4. PICK u \in Strs : Size(u) = m /\ Solid(u) /\ ~Goes(u) BY <2>3
    <2>5. m \in Nat BY <2>3
    <2>6. CASE u = None
      <3>1. Cat(s, u) = s /\ Cat(x, u) = x BY <2>6, CatNone DEF Strs
      <3> QED BY <2>4, <3>1
    <2>7. CASE u # None
      <3>1. PICK v \in Strs, e \in Char : u = Cat(v, One(e)) /\ Size(u) = Size(v) + 1
        BY <2>7, CutEnds DEF Strs
      <3>2. One(e) \in Strs /\ Size(One(e)) = 1 /\ One(e)[1] = e /\ Size(v) \in Nat
        BY StrType DEF Strs
      <3>3. Solid(v) /\ e # Comma
        <4>1. \A i \in 1..Size(v) : u[i] = v[i] /\ i \in 1..Size(u) BY <3>1, <3>2, CatAt DEF Strs
        <4>2. 1 \in 1..Size(One(e)) BY <3>2
        <4>3. u[Size(v) + 1] = e BY <3>1, <3>2, <4>2, CatAt DEF Strs
        <4>4. Size(v) + 1 \in 1..Size(u) BY <3>1, <3>2
        <4> QED BY <2>4, <4>1, <4>3, <4>4 DEF Solid
      <3>4. Size(v) = m - 1 /\ m - 1 \in Nat /\ ~(m <= m - 1) BY <2>4, <2>5, <3>1, <3>2
      <3>5. Goes(v)
        <4> HIDE DEF Goes
        <4> QED BY <2>3, <3>3, <3>4
      <3>6. Cat(s, v) \in Strs /\ Cat(x, v) \in Strs BY CatType DEF Strs
      <3>7. Cat(s, u) = Cat(Cat(s, v), One(e)) /\ Cat(x, u) = Cat(Cat(x, v), One(e))
        BY <3>1, <3>2, CatAssociative DEF Strs
      <3>8. Pieces(Cat(s, u)) = PieceStep(Cat(A, One(Cat(x, v))), e)
        BY <3>5, <3>6, <3>7, PiecesMore
      <3>9. PieceStep(Cat(A, One(Cat(x, v))), e) = Cat(A, One(Cat(Cat(x, v), One(e))))
        BY <3>3, <3>6, PieceStepIs
      <3> QED BY <2>4, <3>7, <3>8, <3>9
    <2> QED BY <2>6, <2>7
  <1>2. Size(t) \in Nat BY StrType DEF Strs
  <1> QED BY <1>1, <1>2

LEMMA PiecesOne == Pieces(None) = Cat(None, One(None))
  <1>1. None \in Strs /\ None \in Lists /\ None \in Seq(Char) /\ Len(None) = 0
    BY Sorts DEF None
  <1>2. Pieces(None) = One(None)
    <2> DEFINE g == [p \in SomeLists \X Char |-> PieceStep(p[1], p[2])]
    <2>1. Folds(Pieces(None), g, SomeLists, One(None), None) BY <1>1, PiecesFold
    <2> HIDE DEF g
    <2> QED BY <1>1, <2>1 DEF Folds, Passes
  <1> QED BY <1>1, <1>2, Sorts, CatNone DEF Lists

\* A text that ends in a comma, or is empty, leaves an empty piece.
LEMMA PiecesEnded ==
    ASSUME NEW s \in Strs, s = None \/ \E r \in Strs : s = Cat(r, One(Comma))
    PROVE  \E A \in Lists : Pieces(s) = Cat(A, One(None))
  <1>1. CASE s = None BY <1>1, PiecesOne, Sorts
  <1>2. CASE s # None
    <2>1. PICK r \in Strs : s = Cat(r, One(Comma)) BY <1>2
    <2>2. Comma \in Char BY DEF Char
    <2>3. Pieces(r) \in SomeLists /\ Pieces(s) = PieceStep(Pieces(r), Comma)
      BY <2>1, <2>2, PiecesMore
    <2>4. PICK A \in Lists, x \in Strs : Pieces(r) = Cat(A, One(x)) BY <2>3, LastPiece
    <2>5. Pieces(s) = Cat(Cat(A, One(x)), One(None)) BY <2>2, <2>3, <2>4, PieceStepIs
    <2>6. Cat(A, One(x)) \in Lists BY LastPiece DEF SomeLists
    <2> QED BY <2>5, <2>6
  <1> QED BY <1>1, <1>2

LEMMA KeptFold ==
    ASSUME NEW s \in Lists
    PROVE  LET g == [p \in Lists \X Strs |-> KeepStep(p[1], p[2])] IN
           /\ g \in [Lists \X Strs -> Lists]
           /\ Folds(Kept(s), g, Lists, None, s)
           /\ Kept(s) \in Lists
  <1> DEFINE V == Lists
             X == Strs
             base == None
             g == [p \in V \X X |-> KeepStep(p[1], p[2])]
             E(T) == [x \in SUBSET DOMAIN s |->
                       IF x = {} THEN base ELSE KeepStep(T[x \ {Max(x)}], s[Max(x)])]
  <1>1. Kept(s) = (CHOOSE T : T = E(T))[DOMAIN s]
    BY DEF Kept, FoldLeft, MapThenFoldSet, Max, None
  <1>2. base \in V BY Sorts
  <1>3. ASSUME NEW t \in V, NEW c \in X
        PROVE  g[<<t, c>>] = KeepStep(t, c) /\ KeepStep(t, c) \in V
    <2>1. <<t, c>> \in V \X X OBVIOUS
    <2>2. KeepStep(t, c) \in V
      <3>1. Trim(c) \in Strs BY TrimType DEF Strs, Str
      <3>2. One(Trim(c)) \in Lists BY <3>1, Sorts
      <3>3. Append(t, Trim(c)) \in Lists BY <3>1, <3>2, OneMore, CatType DEF Lists
      <3> QED BY <3>3 DEF KeepStep
    <2> HIDE DEF V, X
    <2> QED BY <2>1, <2>2
  <1>4. g \in [V \X X -> V]
    <2> HIDE DEF V, X
    <2>1. \A p \in V \X X : p[1] \in V /\ p[2] \in X OBVIOUS
    <2>2. \A p \in V \X X : KeepStep(p[1], p[2]) \in V BY <1>3, <2>1
    <2> QED BY <2>2
  <1> HIDE DEF V, X, g, base
  <1>5. s \in Seq(X) BY DEF X, Lists, Str
  <1>6. \E T : T = E(T)
    <2>1. PICK T : StepsOf(T, g, V, X, base, s)
      <3> HIDE DEF E
      <3> QED BY <1>2, <1>4, <1>5, FoldStep
    <2>2. \A x \in SUBSET DOMAIN s :
            T[x] = IF x = {} THEN base ELSE KeepStep(T[x \ {Max(x)}], s[Max(x)])
      BY <1>3, <2>1 DEF StepsOf
    <2> QED BY <2>1, <2>2 DEF StepsOf
  <1> DEFINE U == CHOOSE U : U = E(U)
  <1>7. U = E(U) BY <1>6
  <1> HIDE DEF U
  <1>8. U[{}] = base BY <1>7
  <1>9. ASSUME NEW k \in 1..Len(s), U[1..k - 1] \in V
        PROVE  U[1..k] = g[<<U[1..k - 1], s[k]>>]
    <2>1. k \in Nat /\ k # 0 /\ 1..k \in SUBSET DOMAIN s /\ s[k] \in X BY <1>5
    <2>2. 1..k # {} /\ Max(1..k) = k /\ (1..k) \ {k} = 1..k - 1 BY <2>1, FirstPlaces
    <2>3. U[1..k] = KeepStep(U[(1..k) \ {Max(1..k)}], s[Max(1..k)]) BY <1>7, <2>1, <2>2
    <2> QED BY <1>3, <1>9, <2>1, <2>2, <2>3
  <1>10. Folds(U[DOMAIN s], g, V, base, s) /\ U[DOMAIN s] \in V
    BY <1>2, <1>4, <1>5, <1>8, <1>9, FoldValue
  <1>11. Kept(s) = U[DOMAIN s] BY <1>1 DEF U
  <1> QED BY <1>4, <1>10, <1>11 DEF V, X, g, base

\* One more piece is kept if something is left of it.
LEMMA KeptMore ==
    ASSUME NEW s \in Lists, NEW p \in Strs
    PROVE  /\ Kept(s) \in Lists
           /\ Trim(p) = None => Kept(Cat(s, One(p))) = Kept(s)
           /\ Trim(p) # None => Kept(Cat(s, One(p))) = Cat(Kept(s), One(Trim(p)))
  <1> DEFINE V == Lists
             X == Strs
             g == [q \in V \X X |-> KeepStep(q[1], q[2])]
             t == Append(s, p)
             base == None
  <1>1. s \in Seq(X) /\ t \in Seq(X) BY DEF Lists, Str
  <1>2. t \in Lists BY <1>1 DEF Lists, Str
  <1>3. /\ g \in [V \X X -> V] /\ Kept(s) \in V
        /\ Folds(Kept(s), g, V, base, s) /\ Folds(Kept(t), g, V, base, t)
    BY <1>2, KeptFold
  <1>4. base \in V BY Sorts
  <1>5. g[<<Kept(s), p>>] = KeepStep(Kept(s), p)
    <2>1. <<Kept(s), p>> \in V \X X BY <1>3
    <2> HIDE DEF V, X
    <2> QED BY <2>1
  <1>6. t = Cat(s, One(p)) BY OneMore
  <1>7. Trim(p) \in Strs BY TrimType DEF Strs, Str
  <1>8. Append(Kept(s), Trim(p)) = Cat(Kept(s), One(Trim(p))) BY <1>3, <1>7, OneMore
  <1> HIDE DEF V, g, base, X
  <1>9. p \in X BY DEF X
  <1>10. Folds(g[<<Kept(s), p>>], g, V, base, t)
    BY <1>1, <1>3, <1>4, <1>9, FoldAppend
  <1> HIDE DEF t
  <1>11. Kept(t) = g[<<Kept(s), p>>] BY <1>1, <1>3, <1>10, FoldUnique
  <1> QED BY <1>3, <1>5, <1>6, <1>8, <1>11 DEF V, KeepStep, None

----------------------------------------------------------------------------
(* Where a recipient field is cut *)

\* Without a quote before its end, the separator is the last comma.
LEMMA SeparatorCuts ==
    ASSUME NEW t \in Strs, Quotes(t, Len(t)) = 0
    PROVE  \E s, q \in Strs :
             /\ t = Cat(s, q) /\ Solid(q)
             /\ SubSeq(t, 1, Separator(t)) = s
             /\ SubSeq(t, Separator(t) + 1, Len(t)) = q
             /\ s = None \/ \E r \in Strs : s = Cat(r, One(Comma))
  <1> DEFINE n == Size(t)
             S == {0} \cup {i \in DOMAIN t : t[i] = Comma /\ Quotes(t, i) % 2 = 0}
             k == Max(S)
  <1>1. t \in Seq(Char) /\ n = Len(t) /\ n \in Nat /\ DOMAIN t = 1..n BY DEF Strs, Str, Size
  <1>2. \A i \in 1..n : Quotes(t, i) = 0
    <2> TAKE i \in 1..n
    <2> DEFINE Q(j) == {l \in 1..j : t[l] = Quote}
    <2>1. Cardinality(Q(n)) = 0 BY <1>1 DEF Quotes
    <2>2. IsFiniteSet(1..n) BY <1>1, FS_Interval
    <2>3. IsFiniteSet(Q(n)) BY <2>2, FS_Subset
    <2>4. Q(n) = {}
      <3> HIDE DEF Q
      <3> QED BY <2>1, <2>3, FS_EmptySet
    <2>5. Q(i) = {} BY <1>1, <2>4
    <2>6. Cardinality({}) = 0 BY FS_EmptySet
    <2> QED BY <2>5, <2>6 DEF Quotes
  <1> HIDE DEF n
  <1>3. 0 % 2 = 0 OBVIOUS
  <1>4. S = {0} \cup {i \in 1..n : t[i] = Comma} BY <1>1, <1>2, <1>3
  <1> HIDE DEF S
  <1>5. S \in SUBSET Nat /\ S # {} /\ \A i \in S : i <= n BY <1>1, <1>4
  <1>6. k \in S /\ \A i \in S : i <= k BY <1>1, <1>5, MaxOfNaturals
  <1>7. Separator(t) = k BY DEF Separator, S
  <1> HIDE DEF k
  <1>8. k \in 0..n /\ k \in Nat BY <1>1, <1>5, <1>6
  <1> DEFINE s == SubSeq(t, 1, k)
             q == SubSeq(t, k + 1, n)
  <1>9. /\ s \in Strs /\ Size(s) = k /\ \A i \in 1..k : s[i] = t[i]
        /\ q \in Strs /\ Size(q) = n - k /\ \A i \in 1..n - k : q[i] = t[k + i]
    BY <1>8, Parts DEF Strs, n
  <1> HIDE DEF s, q
  <1>10. t = Cat(s, q)
    <2>1. PICK a, b \in Strs : t = Cat(a, b) /\ Size(a) = k BY <1>8, Cut DEF Strs, n
    <2>2. SubSeq(t, 1, k) = a /\ SubSeq(t, k + 1, n) = b BY <2>1, CatParts DEF Strs, n
    <2> QED BY <2>1, <2>2 DEF s, q
  <1>11. Solid(q)
    <2> SUFFICES ASSUME NEW i \in 1..Size(q) PROVE q[i] # Comma BY DEF Solid
    <2>1. i \in 1..n - k BY <1>9
    <2>2. k + i \in 1..n /\ ~(k + i <= k) BY <1>1, <1>8, <2>1
    <2>3. k + i \notin S BY <1>6, <2>2
    <2> QED BY <1>4, <1>9, <2>1, <2>2, <2>3
  <1>12. s = None \/ \E r \in Strs : s = Cat(r, One(Comma))
    <2>1. CASE s = None BY <2>1
    <2>2. CASE s # None
      <3>1. PICK r \in Strs, e \in Char : s = Cat(r, One(e)) /\ Size(s) = Size(r) + 1
        BY <1>9, <2>2, CutEnds DEF Strs
      <3>2. One(e) \in Strs /\ Size(One(e)) = 1 /\ One(e)[1] = e /\ Size(r) \in Nat
        BY StrType DEF Strs
      <3>3. 1 \in 1..Size(One(e)) BY <3>2
      <3>4. s[Size(r) + 1] = e BY <3>1, <3>2, <3>3, CatAt DEF Strs
      <3>5. k = Size(r) + 1 /\ k # 0 /\ k \in 1..k BY <1>8, <1>9, <3>1, <3>2
      <3>6. t[k] = Comma BY <1>4, <1>6, <3>5
      <3>7. e = Comma BY <1>9, <3>4, <3>5, <3>6
      <3> QED BY <3>1, <3>7
    <2> QED BY <2>1, <2>2
  <1> QED BY <1>1, <1>7, <1>9, <1>10, <1>11, <1>12 DEF s, q

\* A text without blanks is what is left of it with one in front.
LEMMA TrimPadded ==
    ASSUME NEW d \in Strs, d # None, \A i \in 1..Size(d) : d[i] # Blank,
           NEW b \in Strs, \A i \in 1..Size(b) : b[i] = Blank
    PROVE  Trim(Cat(b, d)) = d
  <1> DEFINE t == Cat(b, d)
             n == Size(b)
             m == Size(d)
             at == {i \in DOMAIN t : t[i] # Blank}
  <1>1. n \in Nat /\ m \in Nat BY StrType DEF Strs
  <1>2. m # 0 BY StrEmpty DEF Strs
  <1>3. t \in Strs /\ Size(t) = n + m BY CatType DEF Strs
  <1>4. DOMAIN t = 1..n + m BY <1>3 DEF Strs, Str, Size
  <1>5. /\ \A i \in 1..n : t[i] = b[i]
        /\ \A i \in n + 1..n + m : t[i] = d[i - n]
    BY CatAt DEF Strs
  <1>6. SubSeq(t, n + 1, n + m) = d BY <1>3, CatParts DEF Strs
  <1> HIDE DEF t, n, m
  <1>7. \A i \in 1..n : t[i] = Blank BY <1>5 DEF n
  <1>8. \A i \in n + 1..n + m : t[i] # Blank
    <2> TAKE i \in n + 1..n + m
    <2>1. i - n \in 1..m BY <1>1
    <2> QED BY <1>5, <2>1 DEF m
  <1>9. at = n + 1..n + m
    <2>1. \A i \in 1..n + m : i \in 1..n \/ i \in n + 1..n + m BY <1>1
    <2>2. \A i \in n + 1..n + m : i \in 1..n + m BY <1>1
    <2> QED BY <1>4, <1>7, <1>8, <2>1, <2>2
  <1> HIDE DEF at
  <1>10. /\ at \in SUBSET Int /\ n + 1 \in at /\ n + m \in at
         /\ \A i \in at : n + 1 <= i /\ i <= n + m
    BY <1>1, <1>2, <1>9
  <1>11. Min(at) = n + 1 /\ Max(at) = n + m BY <1>10, MinIs, MaxIs
  <1>12. Trim(t) = SubSeq(t, Min(at), Max(at)) BY <1>10, Zenon DEF Trim, at
  <1> QED BY <1>6, <1>11, <1>12 DEF t

LEMMA TrimBlank == Trim(One(Blank)) = None
  BY DEF Trim, One, None

----------------------------------------------------------------------------
(* Accepting a suggestion *)

\* The law of an accepted suggestion, of any field and any address.
LEMMA AcceptedMailboxes ==
    ASSUME NEW t \in Strs, Quotes(t, Len(t)) = 0, Query(t) # None, NEW a \in Addr, Plain(a)
    PROVE  Mailboxes(Accepted(t, a)) = Append(Front(Mailboxes(t)), Display(a))
  <1> DEFINE d == Display(a)
  <1>1. PICK s, q \in Strs :
          /\ t = Cat(s, q) /\ Solid(q)
          /\ SubSeq(t, 1, Separator(t)) = s
          /\ SubSeq(t, Separator(t) + 1, Len(t)) = q
          /\ s = None \/ \E r \in Strs : s = Cat(r, One(Comma))
    BY SeparatorCuts
  <1>2. Trim(q) # None /\ Trim(q) \in Strs
    <2>1. Query(t) = Trim(q) BY <1>1 DEF Query
    <2>2. Trim(q) \in Seq(Char) BY TrimType DEF Strs, Str
    <2> QED BY <2>1, <2>2 DEF Strs, Str
  <1>3. PICK A \in Lists : Pieces(s) = Cat(A, One(None)) BY <1>1, PiecesEnded
  <1>4. None \in Strs /\ None \in Lists /\ Comma \in Char /\ Blank \in Char /\ Comma # Blank
    BY RecipientsAssumption, Sorts DEF Char
  \* What the field had.
  <1>5. Mailboxes(t) = Cat(Kept(A), One(Trim(q))) /\ Kept(A) \in Lists
    <2>1. Pieces(t) = Cat(A, One(Cat(None, q))) BY <1>1, <1>3, <1>4, PiecesSolid
    <2>2. Cat(None, q) = q BY CatNone DEF Strs
    <2>3. Kept(A) \in Lists /\ Kept(Pieces(t)) = Cat(Kept(A), One(Trim(q)))
      BY <1>2, <2>1, <2>2, KeptMore
    <2> QED BY <2>3, MailboxesKept
  <1>6. Front(Mailboxes(t)) = Kept(A) BY <1>2, <1>5, FrontAndLast DEF Lists
  \* The address put in.
  <1>7. /\ d \in Strs /\ d # None /\ Solid(d)
        /\ \A i \in 1..Size(d) : d[i] # Blank
    <2>1. /\ a.name \in Seq(Letter \cup {Comma, Quote}) /\ a.email \in Email
          /\ \A i \in DOMAIN a.name : a.name[i] \notin {Comma, Quote}
      BY DEF Addr, Plain
    <2>2. Blank \notin Letter \cup {Comma, Quote} /\ Blank \notin Email /\ Comma \notin Email
      BY RecipientsAssumption
    <2> DEFINE n == Len(a.name)
    <2>3. n \in Nat /\ \A i \in 1..n : a.name[i] \in Char /\ a.name[i] # Blank /\ a.name[i] # Comma
      BY <2>1, <2>2 DEF Char
    <2>4. a.name \in Seq(Char) /\ a.email \in Char /\ a.email # Blank /\ a.email # Comma
      BY <2>1, <2>2 DEF Char
    <2>5. d \in Seq(Char) /\ Len(d) = n + 1 /\ (\A i \in 1..n : d[i] = a.name[i]) /\ d[n + 1] = a.email
      BY <2>4, AppendProperties DEF Display
    <2> HIDE DEF d, n
    <2>6. \A i \in 1..n + 1 : d[i] # Blank /\ d[i] # Comma
      <3> TAKE i \in 1..n + 1
      <3>1. i = n + 1 \/ i \in 1..n BY <2>3
      <3> QED BY <2>3, <2>4, <2>5, <3>1
    <2>7. d # <<>> BY <2>3, <2>5
    <2> QED BY <2>5, <2>6, <2>7 DEF Strs, Str, Solid, Size, None
  <1> DEFINE b == IF s = None THEN None ELSE One(Blank)
  <1>8. b \in Strs /\ Solid(b) /\ \A i \in 1..Size(b) : b[i] = Blank
    <2>1. One(Blank) \in Strs /\ Size(One(Blank)) = 1 /\ One(Blank)[1] = Blank
      BY <1>4, StrType DEF Strs
    <2>2. \A i \in 1..1 : i = 1 OBVIOUS
    <2>3. Size(None) = 0 /\ 1..0 = {} BY StrType
    <2>4. CASE s = None BY <1>4, <2>3, <2>4 DEF Solid
    <2>5. CASE s # None BY <1>4, <2>1, <2>2, <2>5 DEF Solid
    <2> QED BY <2>4, <2>5
  <1> DEFINE pre == Cat(s, b)
             w == Cat(pre, d)
             x == Cat(w, One(Comma))
             y == Cat(x, One(Blank))
  \* What the field has then.
  <1>9. Accepted(t, a) = y
    <2>1. (IF s = <<>> THEN <<>> ELSE Append(s, Blank)) = pre
      <3>1. CASE s = None BY <1>4, <3>1, CatNone DEF Strs, None
      <3>2. CASE s # None BY <1>4, <3>2, OneMore DEF None
      <3> QED BY <3>1, <3>2
    <2>2. Accepted(t, a) = pre \o d \o <<Comma, Blank>>
      BY <1>1, <2>1, Zenon DEF Accepted
    <2>3. One(Comma) \in Strs /\ One(Blank) \in Strs /\ <<Comma, Blank>> = Cat(One(Comma), One(Blank))
      BY <1>4 DEF Strs, Str, One, Cat
    <2>4. pre \in Strs /\ w \in Strs BY <1>7, <1>8, CatType DEF Strs
    <2>5. Accepted(t, a) = Cat(w, Cat(One(Comma), One(Blank))) BY <2>2, <2>3 DEF Cat
    <2> QED BY <2>3, <2>4, <2>5, CatAssociative DEF Strs
  <1>10. /\ pre \in Strs /\ w \in Strs /\ x \in Strs /\ y \in Strs /\ Cat(b, d) \in Strs
         /\ One(Comma) \in Strs /\ One(Blank) \in Strs
    <2>1. One(Comma) \in Strs /\ One(Blank) \in Strs BY <1>4, StrType DEF Strs
    <2>2. pre \in Strs /\ Cat(b, d) \in Strs BY <1>7, <1>8, CatType DEF Strs
    <2>3. w \in Strs BY <1>7, <2>2, CatType DEF Strs
    <2>4. x \in Strs BY <2>1, <2>3, CatType DEF Strs
    <2> QED BY <2>1, <2>2, <2>3, <2>4, CatType DEF Strs
  <1> HIDE DEF b, d
  <1>11. Pieces(w) = Cat(A, One(Cat(b, d)))
    <2>1. Pieces(pre) = Cat(A, One(Cat(None, b))) BY <1>3, <1>4, <1>8, PiecesSolid
    <2>2. Cat(None, b) = b BY <1>8, CatNone DEF Strs
    <2> HIDE DEF pre
    <2> QED BY <1>7, <1>8, <1>10, <2>1, <2>2, PiecesSolid
  <1> DEFINE B == Cat(A, One(Cat(b, d)))
  <1>12. B \in Lists /\ B \in SomeLists BY <1>10, LastPiece DEF SomeLists
  <1> HIDE DEF w
  <1>13. Pieces(x) = Cat(B, One(None)) BY <1>4, <1>10, <1>11, PiecesMore, PieceStepIs
  <1> HIDE DEF x
  <1>14. Pieces(y) = Cat(B, One(One(Blank)))
    <2>1. Pieces(y) = PieceStep(Cat(B, One(None)), Blank) BY <1>4, <1>10, <1>13, PiecesMore
    <2> HIDE DEF y, B
    <2>2. PieceStep(Cat(B, One(None)), Blank) = Cat(B, One(Cat(None, One(Blank))))
      BY <1>4, <1>12, PieceStepIs
    <2>3. Cat(None, One(Blank)) = One(Blank) BY <1>10, CatNone DEF Strs
    <2> QED BY <2>1, <2>2, <2>3
  <1> HIDE DEF y
  <1>15. Trim(Cat(b, d)) = d BY <1>7, <1>8, TrimPadded
  <1>16. Kept(Pieces(y)) = Kept(B)
    <2> HIDE DEF B
    <2> QED BY <1>10, <1>12, <1>14, TrimBlank, KeptMore
  <1>17. Kept(B) = Cat(Kept(A), One(d)) BY <1>7, <1>10, <1>15, KeptMore
  <1>18. Mailboxes(Accepted(t, a)) = Cat(Kept(A), One(d)) BY <1>9, <1>16, <1>17, MailboxesKept
  <1> QED BY <1>5, <1>6, <1>7, <1>18, OneMore DEF d

\* What matches something is looked for with something.
LEMMA QueryGiven ==
    ASSUME NEW t \in Seq(Char), NEW hay, Score(Spelled(Query(t)), hay) >= 0
    PROVE  Query(t) # <<>>
  <1> SUFFICES ASSUME Query(t) = <<>> PROVE FALSE OBVIOUS
  <1>1. Spelled(<<>>) = <<>>
    <2>1. <<>> \in Seq(Char) OBVIOUS
    <2> QED BY <2>1, SpelledType
  <1>2. Score(<<>>, hay) = -1 BY DEF Score
  <1> QED BY <1>1, <1>2

\* An accepted suggestion is one recipient more in place of the one that was
\* being typed, as smtp.rs reads the field, and the others are kept
\* (AcceptAppends).
THEOREM SpecAcceptAppends == Spec => AcceptAppends
  <1> DEFINE Appends == \A f \in Recipient :
               LET old == window.input[f].value
                   new == window'.input[f].value
               IN  Accept /\ window.focus = f /\ Plain(Chosen) /\ Quotes(old, Len(old)) = 0 =>
                       Mailboxes(new) = Append(Front(Mailboxes(old)), Display(Chosen))
  <1>1. IInv => Appends
    <2> SUFFICES ASSUME IInv, NEW f \in Recipient, Accept, window.focus = f, Plain(Chosen),
                        Quotes(window.input[f].value, Len(window.input[f].value)) = 0
                 PROVE  Mailboxes(window'.input[f].value) =
                          Append(Front(Mailboxes(window.input[f].value)), Display(Chosen))
      OBVIOUS
    <2> DEFINE old == window.input[f].value
    <2>1. window'.input[f].value = Accepted(old, Chosen) BY AcceptStep
    <2>2. Chosen \in Addr /\ Score(Spelled(Query(old)), Label(Chosen)) >= 0
      <3>1. Fits(window, Cached[current]) BY DEF IInv
      <3>2. PICK i \in DOMAIN window.suggestions.items : Chosen = window.suggestions.items[i]
        BY AcceptPutsIn
      <3> QED BY <3>1, <3>2, AcceptPutsIn DEF Fits
    <2>3. old \in Seq(Char) BY DEF IInv, StateOK, WindowOK, InputsOK, IsInput, Area!InputOK
    <2>4. old \in Strs /\ Query(old) # None BY <2>2, <2>3, QueryGiven DEF Strs, Str, None
    <2> HIDE DEF old
    <2>5. Mailboxes(Accepted(old, Chosen)) = Append(Front(Mailboxes(old)), Display(Chosen))
      BY <2>2, <2>4, AcceptedMailboxes DEF old
    <2> QED BY <2>1, <2>5 DEF old
  <1>2. IInv /\ [Next]_vars => [Appends]_vars BY <1>1
  <1> QED BY Invariance, <1>2, PTL DEF Spec, AcceptAppends

=============================================================================
