-------------------------- MODULE SpellCheckProofs --------------------------
(* Theorems of SpellCheck: its types, that a window only ever shows words  *)
(* typed in it, and that it is checked with the dictionary of its layout.  *)
EXTENDS SpellCheck, WellFoundedInduction, TLAPS

----------------------------------------------------------------------------
(* Numbers *)

\* The least of some numbers is one of them, and none is lower.
LEMMA MinOfNaturals ==
    ASSUME NEW S \in SUBSET Nat, S # {}
    PROVE  Min(S) \in S /\ \A x \in S : Min(S) <= x
<1> DEFINE R == OpToRel(<, Nat)
<1>1. \E m \in S : \A x \in S : ~ (<<x, m>> \in R)
  BY NatLessThanWellFounded, WFMin
<1>2. \A x, m \in Nat : x < m => <<x, m>> \in R
  BY DEF OpToRel
<1> HIDE DEF R
<1>3. \E m \in S : \A x \in S : m <= x
  <2>1. PICK m \in S : \A x \in S : ~ (<<x, m>> \in R) BY <1>1
  <2>2. \A x \in S : ~ (x < m) BY <1>2, <2>1
  <2>3. QED BY <2>2
<1>4. QED BY <1>3 DEF Min

\* The highest of some numbers with a bound is one of them, and none is higher.
LEMMA MaxOfNaturals ==
    ASSUME NEW S \in SUBSET Nat, S # {}, NEW n \in Nat, \A x \in S : x <= n
    PROVE  Max(S) \in S /\ \A x \in S : x <= Max(S)
<1> DEFINE bounds == {b \in Nat : \A x \in S : x <= b}
<1>1. Min(bounds) \in bounds /\ \A b \in bounds : Min(bounds) <= b
  BY MinOfNaturals
<1>2. Min(bounds) \in S
  <2>1. SUFFICES ASSUME Min(bounds) \notin S PROVE FALSE OBVIOUS
  <2>2. Min(bounds) # 0
    <3>1. PICK x \in S : TRUE OBVIOUS
    <3>2. x <= Min(bounds) /\ x # Min(bounds) BY <1>1, <2>1, <3>1
    <3>3. QED BY <1>1, <3>2
  <2>3. Min(bounds) - 1 \in bounds BY <1>1, <2>1, <2>2
  <2>4. QED BY <1>1, <2>3
<1>3. \E m \in S : \A x \in S : m >= x
  BY <1>1, <1>2
<1>4. QED BY <1>3 DEF Max

\* The higher and the lower of two numbers.
LEMMA MaxOfTwo ==
    ASSUME NEW a \in Int, NEW b \in Int
    PROVE  Max({a, b}) = IF a >= b THEN a ELSE b
  <1>1. \E m \in {a, b} : \A x \in {a, b} : m >= x OBVIOUS
  <1>2. Max({a, b}) \in {a, b} /\ \A x \in {a, b} : Max({a, b}) >= x BY <1>1 DEF Max
  <1> QED BY <1>2

LEMMA MinOfTwo ==
    ASSUME NEW a \in Int, NEW b \in Int
    PROVE  Min({a, b}) = IF a <= b THEN a ELSE b
  <1>1. \E m \in {a, b} : \A x \in {a, b} : m <= x OBVIOUS
  <1>2. Min({a, b}) \in {a, b} /\ \A x \in {a, b} : Min({a, b}) <= x BY <1>1 DEF Min
  <1> QED BY <1>2

----------------------------------------------------------------------------
(* Sequences *)

LEMMA Joined ==
    ASSUME NEW S, NEW a \in Seq(S), NEW b \in Seq(S)
    PROVE  /\ a \o b \in Seq(S) /\ Len(a \o b) = Len(a) + Len(b)
           /\ \A j \in 1..Len(a) : (a \o b)[j] = a[j]
           /\ \A j \in Len(a) + 1..Len(a) + Len(b) : (a \o b)[j] = b[j - Len(a)]
  OBVIOUS

\* The first k elements of a list, and all but them.
LEMMA Parts ==
    ASSUME NEW S, NEW s \in Seq(S), NEW k \in 0..Len(s)
    PROVE  /\ SubSeq(s, 1, k) \in Seq(S) /\ Len(SubSeq(s, 1, k)) = k
           /\ \A j \in 1..k : SubSeq(s, 1, k)[j] = s[j]
           /\ SubSeq(s, k + 1, Len(s)) \in Seq(S)
           /\ Len(SubSeq(s, k + 1, Len(s))) = Len(s) - k
           /\ \A j \in 1..Len(s) - k : SubSeq(s, k + 1, Len(s))[j] = s[j + k]
  OBVIOUS

\* A list without its i-th element.
LEMMA WithoutElement ==
    ASSUME NEW S, NEW s \in Seq(S), NEW i \in 1..Len(s)
    PROVE  LET t == SubSeq(s, 1, i - 1) \o SubSeq(s, i + 1, Len(s))
           IN  /\ t \in Seq(S) /\ Len(t) = Len(s) - 1
               /\ \A j \in 1..Len(s) - 1 : t[j] = IF j < i THEN s[j] ELSE s[j + 1]
  <1> DEFINE a == SubSeq(s, 1, i - 1)
             b == SubSeq(s, i + 1, Len(s))
             t == a \o b
  <1>1. Len(s) \in Nat /\ i - 1 \in 0..Len(s) /\ i \in 0..Len(s) OBVIOUS
  <1>2. a \in Seq(S) /\ Len(a) = i - 1 /\ \A j \in 1..i - 1 : a[j] = s[j]
    BY <1>1, Parts
  <1>3. /\ b \in Seq(S) /\ Len(b) = Len(s) - i
        /\ \A j \in 1..Len(s) - i : b[j] = s[j + i]
    BY <1>1, Parts
  <1> HIDE DEF a, b
  <1>4. /\ t \in Seq(S) /\ Len(t) = Len(a) + Len(b)
        /\ \A j \in 1..Len(a) : t[j] = a[j]
        /\ \A j \in Len(a) + 1..Len(a) + Len(b) : t[j] = b[j - Len(a)]
    BY <1>2, <1>3, Joined
  <1> HIDE DEF t
  <1>5. Len(t) = Len(s) - 1 BY <1>1, <1>2, <1>3, <1>4
  <1>6. ASSUME NEW j \in 1..Len(s) - 1
        PROVE  t[j] = IF j < i THEN s[j] ELSE s[j + 1]
    <2>1. CASE j < i
      <3>1. j \in 1..i - 1 BY <1>1, <2>1
      <3> QED BY <1>2, <1>4, <2>1, <3>1
    <2>2. CASE ~(j < i)
      <3>1. /\ j \in Len(a) + 1..Len(a) + Len(b) /\ j - Len(a) \in 1..Len(s) - i
            /\ (j - Len(a)) + i = j + 1
        BY <1>1, <1>2, <1>3, <2>2
      <3>2. t[j] = b[j - Len(a)] BY <1>4, <3>1
      <3>3. b[j - Len(a)] = s[(j - Len(a)) + i] BY <1>3, <3>1
      <3> QED BY <2>2, <3>1, <3>2, <3>3
    <2> QED BY <2>1, <2>2
  <1> QED BY <1>4, <1>5, <1>6 DEF t, a, b

\* A list with an element put in before its i-th.
Enlarged(s, i, e) == SubSeq(s, 1, i - 1) \o <<e>> \o SubSeq(s, i, Len(s))

LEMMA WithElement ==
    ASSUME NEW S, NEW s \in Seq(S), NEW i \in 1..Len(s) + 1, NEW e \in S, NEW t, t = Enlarged(s, i, e)
    PROVE  /\ t \in Seq(S) /\ Len(t) = Len(s) + 1
           /\ \A j \in 1..Len(s) + 1 :
                 t[j] = IF j < i THEN s[j] ELSE IF j = i THEN e ELSE s[j - 1]
  <1> DEFINE a == SubSeq(s, 1, i - 1)
             b == SubSeq(s, i, Len(s))
             c == a \o <<e>>
  <1>0. t = c \o b BY DEF Enlarged
  <1>1. Len(s) \in Nat /\ i - 1 \in 0..Len(s) /\ (i - 1) + 1 = i OBVIOUS
  <1>2. a \in Seq(S) /\ Len(a) = i - 1 /\ \A j \in 1..i - 1 : a[j] = s[j]
    BY <1>1, Parts
  <1>3. /\ b \in Seq(S) /\ Len(b) = Len(s) - (i - 1)
        /\ \A j \in 1..Len(s) - (i - 1) : b[j] = s[j + (i - 1)]
    BY <1>1, Parts
  <1> HIDE DEF a, b
  <1>4. c \in Seq(S) /\ Len(c) = i /\ c[i] = e /\ \A j \in 1..i - 1 : c[j] = s[j]
    BY <1>1, <1>2
  <1> HIDE DEF c
  <1>5. /\ t \in Seq(S) /\ Len(t) = Len(c) + Len(b)
        /\ \A j \in 1..Len(c) : t[j] = c[j]
        /\ \A j \in Len(c) + 1..Len(c) + Len(b) : t[j] = b[j - Len(c)]
    BY <1>0, <1>3, <1>4, Joined
  <1>6. Len(t) = Len(s) + 1 BY <1>1, <1>3, <1>4, <1>5
  <1>7. ASSUME NEW j \in 1..Len(s) + 1
        PROVE  t[j] = IF j < i THEN s[j] ELSE IF j = i THEN e ELSE s[j - 1]
    <2>1. CASE j <= i
      <3>1. j \in 1..Len(c) /\ (j # i => j \in 1..i - 1 /\ j < i) /\ ~(i < i)
        BY <1>1, <1>4, <2>1
      <3> QED BY <1>4, <1>5, <3>1
    <2>2. CASE ~(j <= i)
      <3>1. /\ j \in Len(c) + 1..Len(c) + Len(b) /\ j - i \in 1..Len(s) - (i - 1)
            /\ (j - i) + (i - 1) = j - 1 /\ ~(j < i) /\ j # i
        BY <1>1, <1>3, <1>4, <2>2
      <3>2. t[j] = b[j - i] BY <1>4, <1>5, <3>1
      <3>3. b[j - i] = s[(j - i) + (i - 1)] BY <1>3, <3>1
      <3> QED BY <3>1, <3>2, <3>3
    <2> QED BY <2>1, <2>2
  <1> QED BY <1>5, <1>6, <1>7

----------------------------------------------------------------------------
(* TextArea: every edit and every move keeps the cursor in the text. *)

Area == {a \in [lines : Seq(Seq(Char)), row : Nat, col : Nat] : AreaOK(a, Char)}

LEMMA AreaParts ==
    ASSUME NEW a \in Area
    PROVE  /\ a = [lines |-> a.lines, row |-> a.row, col |-> a.col]
           /\ a.lines \in Seq(Seq(Char)) /\ Len(a.lines) \in Nat
           /\ a.row \in 1..Len(a.lines) /\ a.row \in Nat
           /\ Line(a) = a.lines[a.row] /\ Line(a) \in Seq(Char) /\ Len(Line(a)) \in Nat
           /\ a.col \in 0..Len(Line(a)) /\ a.col \in Nat
  <1> DEFINE ls == a.lines
             l == Line(a)
  <1>1. ls \in Seq(Seq(Char)) /\ a.row \in 1..Len(ls) /\ a.col \in 0..Len(l) /\ l = ls[a.row]
    BY DEF Area, AreaOK, Line
  <1>2. a = [lines |-> a.lines, row |-> a.row, col |-> a.col] /\ a.row \in Nat /\ a.col \in Nat
    BY DEF Area
  <1> HIDE DEF ls, l
  <1>3. Len(ls) \in Nat BY <1>1
  <1>4. l \in Seq(Char) BY <1>1
  <1>5. Len(l) \in Nat BY <1>4
  <1> QED BY <1>1, <1>2, <1>3, <1>4, <1>5 DEF ls, l

LEMMA AreaBuilt ==
    ASSUME NEW ls \in Seq(Seq(Char)), NEW r \in 1..Len(ls), NEW c \in 0..Len(ls[r])
    PROVE  [lines |-> ls, row |-> r, col |-> c] \in Area
  <1> DEFINE a == [lines |-> ls, row |-> r, col |-> c]
  <1>1. a.lines = ls /\ a.row = r /\ a.col = c OBVIOUS
  <1>2. r \in Nat /\ c \in Nat
    <2>1. Len(ls) \in Nat /\ ls[r] \in Seq(Char) OBVIOUS
    <2>2. Len(ls[r]) \in Nat BY <2>1
    <2> QED BY <2>1, <2>2
  <1>3. a \in [lines : Seq(Seq(Char)), row : Nat, col : Nat] BY <1>2
  <1> HIDE DEF a
  <1>4. AreaOK(a, Char) BY <1>1 DEF AreaOK, Line
  <1>5. a \in Area BY <1>3, <1>4 DEF Area
  <1> QED BY <1>5 DEF a

LEMMA EmptyAreaOK == EmptyArea \in Area /\ Len(EmptyArea.lines) = 1
  <1> DEFINE ls == << <<>> >>
  <1>1. ls \in Seq(Seq(Char)) /\ Len(ls) = 1 /\ ls[1] = <<>> /\ Len(ls[1]) = 0 OBVIOUS
  <1> HIDE DEF ls
  <1>2. 1 \in 1..Len(ls) /\ 0 \in 0..Len(ls[1]) BY <1>1
  <1>3. [lines |-> ls, row |-> 1, col |-> 0] \in Area BY <1>1, <1>2, AreaBuilt
  <1>4. EmptyArea = [lines |-> ls, row |-> 1, col |-> 0] BY DEF EmptyArea, ls
  <1> QED BY <1>1, <1>3, <1>4

\* One line of a text replaced.
LEMMA WithLine ==
    ASSUME NEW ls \in Seq(Seq(Char)), NEW r \in 1..Len(ls), NEW l \in Seq(Char)
    PROVE  LET t == [ls EXCEPT ![r] = l]
           IN  t \in Seq(Seq(Char)) /\ Len(t) = Len(ls) /\ t[r] = l
               /\ \A i \in 1..Len(ls) : i # r => t[i] = ls[i]
  OBVIOUS

LEMMA InsertAtOK ==
    ASSUME NEW S, NEW s \in Seq(S), NEW i \in 1..Len(s) + 1, NEW e \in S
    PROVE  /\ InsertAt(s, i, e) \in Seq(S) /\ Len(InsertAt(s, i, e)) = Len(s) + 1
           /\ InsertAt(s, i, e)[i] = e
  <1>0. PICK t : t = Enlarged(s, i, e) OBVIOUS
  <1>1. Len(s) \in Nat /\ ~(i < i) /\ i \in 1..Len(s) + 1 OBVIOUS
  <1>2. /\ t \in Seq(S) /\ Len(t) = Len(s) + 1
        /\ \A j \in 1..Len(s) + 1 :
              t[j] = IF j < i THEN s[j] ELSE IF j = i THEN e ELSE s[j - 1]
    BY <1>0, WithElement
  <1>3. InsertAt(s, i, e) = t BY <1>0 DEF InsertAt, Enlarged
  <1> QED BY <1>1, <1>2, <1>3

LEMMA RemoveAtOK ==
    ASSUME NEW S, NEW s \in Seq(S), NEW i \in 1..Len(s)
    PROVE  /\ RemoveAt(s, i) \in Seq(S) /\ Len(RemoveAt(s, i)) = Len(s) - 1
           /\ \A j \in 1..Len(s) - 1 : j < i => RemoveAt(s, i)[j] = s[j]
  BY WithoutElement DEF RemoveAt

LEMMA AreaInsertOK ==
    ASSUME NEW a \in Area, NEW c \in Char
    PROVE  AreaInsert(a, c) \in Area /\ Len(AreaInsert(a, c).lines) = Len(a.lines)
  <1> DEFINE ls == a.lines
             r == a.row
             l == Line(a)
             m == InsertAt(l, a.col + 1, c)
             t == [ls EXCEPT ![r] = m]
             b == [lines |-> t, row |-> r, col |-> a.col + 1]
  <1>1. /\ a = [lines |-> ls, row |-> r, col |-> a.col]
        /\ ls \in Seq(Seq(Char)) /\ Len(ls) \in Nat /\ r \in 1..Len(ls)
        /\ l = ls[r] /\ l \in Seq(Char) /\ Len(l) \in Nat /\ a.col \in 0..Len(l)
    BY AreaParts
  <1>2. AreaInsert(a, c) = b BY DEF AreaInsert, Line
  <1> HIDE DEF ls, r, l
  <1>3. a.col + 1 \in 1..Len(l) + 1 BY <1>1
  <1>4. m \in Seq(Char) /\ Len(m) = Len(l) + 1 BY <1>1, <1>3, InsertAtOK
  <1> HIDE DEF m
  <1>5. t \in Seq(Seq(Char)) /\ Len(t) = Len(ls) /\ t[r] = m BY <1>1, <1>4, WithLine
  <1> HIDE DEF t
  <1>6. r \in 1..Len(t) /\ a.col + 1 \in 0..Len(t[r]) BY <1>1, <1>4, <1>5
  <1>7. b \in Area BY <1>5, <1>6, AreaBuilt
  <1>8. b.lines = t OBVIOUS
  <1> QED BY <1>2, <1>5, <1>7, <1>8 DEF ls

LEMMA AreaNewlineOK ==
    ASSUME NEW a \in Area
    PROVE  AreaNewline(a) \in Area /\ Len(AreaNewline(a).lines) = Len(a.lines) + 1
  <1> DEFINE ls == a.lines
             r == a.row
             l == Line(a)
             m == SubSeq(l, 1, a.col)
             n == SubSeq(l, a.col + 1, Len(l))
             t == [ls EXCEPT ![r] = m]
             u == InsertAt(t, r + 1, n)
             b == [lines |-> u, row |-> r + 1, col |-> 0]
  <1>1. /\ a = [lines |-> ls, row |-> r, col |-> a.col]
        /\ ls \in Seq(Seq(Char)) /\ Len(ls) \in Nat /\ r \in 1..Len(ls)
        /\ l = ls[r] /\ l \in Seq(Char) /\ Len(l) \in Nat /\ a.col \in 0..Len(l)
    BY AreaParts
  <1>2. AreaNewline(a) = b BY <1>1 DEF AreaNewline
  <1> HIDE DEF ls, r, l
  <1>3. m \in Seq(Char) /\ n \in Seq(Char) BY <1>1, Parts
  <1> HIDE DEF m, n
  <1>4. t \in Seq(Seq(Char)) /\ Len(t) = Len(ls) BY <1>1, <1>3, WithLine
  <1> HIDE DEF t
  <1>5. r + 1 \in 1..Len(t) + 1 BY <1>1, <1>4
  <1> DEFINE Text == Seq(Char)
  <1>6. u \in Seq(Seq(Char)) /\ Len(u) = Len(t) + 1 /\ u[r + 1] = n
    <2>1. t \in Seq(Text) /\ n \in Text BY <1>3, <1>4
    <2> HIDE DEF Text, u
    <2>2. /\ InsertAt(t, r + 1, n) \in Seq(Text)
          /\ Len(InsertAt(t, r + 1, n)) = Len(t) + 1
          /\ InsertAt(t, r + 1, n)[r + 1] = n
      BY <1>5, <2>1, InsertAtOK
    <2>3. u = InsertAt(t, r + 1, n) BY DEF u
    <2> QED BY <2>2, <2>3 DEF Text
  <1> HIDE DEF u, Text
  <1>7. r + 1 \in 1..Len(u) /\ 0 \in 0..Len(u[r + 1])
    <2>1. Len(n) \in Nat BY <1>3
    <2> QED BY <1>1, <1>4, <1>6, <2>1
  <1>8. b \in Area BY <1>6, <1>7, AreaBuilt
  <1>9. b.lines = u OBVIOUS
  <1> QED BY <1>2, <1>4, <1>6, <1>8, <1>9 DEF ls

LEMMA AreaBackspaceOK ==
    ASSUME NEW a \in Area
    PROVE  AreaBackspace(a) \in Area /\ Len(AreaBackspace(a).lines) <= Len(a.lines)
  <1> DEFINE ls == a.lines
             r == a.row
             l == Line(a)
  <1>1. /\ a = [lines |-> ls, row |-> r, col |-> a.col]
        /\ ls \in Seq(Seq(Char)) /\ Len(ls) \in Nat /\ r \in 1..Len(ls)
        /\ l = ls[r] /\ l \in Seq(Char) /\ Len(l) \in Nat /\ a.col \in 0..Len(l)
    BY AreaParts
  <1>2. CASE a.col > 0
    <2> DEFINE m == RemoveAt(l, a.col)
               t == [ls EXCEPT ![r] = m]
               b == [lines |-> t, row |-> r, col |-> a.col - 1]
    <2>1. AreaBackspace(a) = b BY <1>1, <1>2 DEF AreaBackspace, Joins, Line
    <2> HIDE DEF ls, r, l
    <2>2. a.col \in 1..Len(l) BY <1>1, <1>2
    <2>3. m \in Seq(Char) /\ Len(m) = Len(l) - 1 BY <1>1, <2>2, RemoveAtOK
    <2> HIDE DEF m
    <2>4. t \in Seq(Seq(Char)) /\ Len(t) = Len(ls) /\ t[r] = m BY <1>1, <2>3, WithLine
    <2> HIDE DEF t
    <2>5. r \in 1..Len(t) /\ a.col - 1 \in 0..Len(t[r]) BY <1>1, <2>2, <2>3, <2>4
    <2>6. b \in Area BY <2>4, <2>5, AreaBuilt
    <2>7. b.lines = t OBVIOUS
    <2>8. Len(t) <= Len(ls) BY <1>1, <2>4
    <2> QED BY <2>1, <2>6, <2>7, <2>8 DEF ls
  <1>3. CASE Joins(a)
    <2> DEFINE p == ls[r - 1]
               m == p \o l
               t == [ls EXCEPT ![r - 1] = m]
               u == RemoveAt(t, r)
               b == [lines |-> u, row |-> r - 1, col |-> Len(p)]
    <2>1. AreaBackspace(a) = b
      <3>1. ~(a.col > 0) BY <1>1, <1>3 DEF Joins
      <3> QED BY <1>1, <1>3, <3>1 DEF AreaBackspace
    <2>2. r > 1 BY <1>3 DEF Joins
    <2> HIDE DEF ls, r, l
    <2>3. r - 1 \in 1..Len(ls) BY <1>1, <2>2
    <2>4. p \in Seq(Char) BY <1>1, <2>3
    <2> HIDE DEF p
    <2>5. m \in Seq(Char) /\ Len(m) = Len(p) + Len(l) BY <1>1, <2>4
    <2> HIDE DEF m
    <2>6. t \in Seq(Seq(Char)) /\ Len(t) = Len(ls) /\ t[r - 1] = m
      BY <1>1, <2>3, <2>5, WithLine
    <2> HIDE DEF t
    <2>7. r \in 1..Len(t) BY <1>1, <2>6
    <2>8. /\ u \in Seq(Seq(Char)) /\ Len(u) = Len(t) - 1
          /\ \A j \in 1..Len(t) - 1 : j < r => u[j] = t[j]
      BY <2>6, <2>7, RemoveAtOK
    <2> HIDE DEF u
    <2>9. r - 1 \in 1..Len(u) /\ u[r - 1] = m
      <3>1. r - 1 \in 1..Len(t) - 1 /\ r - 1 < r BY <1>1, <2>2, <2>6
      <3> QED BY <2>6, <2>8, <3>1
    <2>10. Len(p) \in 0..Len(u[r - 1])
      <3>1. Len(p) \in Nat BY <2>4
      <3> QED BY <1>1, <2>5, <2>9, <3>1
    <2>11. b \in Area BY <2>8, <2>9, <2>10, AreaBuilt
    <2>12. b.lines = u OBVIOUS
    <2>13. Len(u) <= Len(ls) BY <1>1, <2>6, <2>8
    <2> QED BY <2>1, <2>11, <2>12, <2>13 DEF ls
  <1>4. CASE ~(a.col > 0) /\ ~Joins(a)
    <2>1. AreaBackspace(a) = a BY <1>4 DEF AreaBackspace
    <2> QED BY <1>1, <2>1
  <1> QED BY <1>2, <1>3, <1>4

\* The cursor put at a place of the text.
LEMMA AtOK ==
    ASSUME NEW a \in Area, NEW r \in 1..Len(a.lines), NEW c \in 0..Len(a.lines[r])
    PROVE  At(a, r, c) \in Area /\ At(a, r, c).lines = a.lines
  <1>1. At(a, r, c) = [lines |-> a.lines, row |-> r, col |-> c] BY DEF At
  <1>2. a.lines \in Seq(Seq(Char)) BY AreaParts
  <1>3. [lines |-> a.lines, row |-> r, col |-> c] \in Area BY <1>2, AreaBuilt
  <1> QED BY <1>1, <1>3

LEMMA ToRowOK ==
    ASSUME NEW a \in Area, NEW r \in 1..Len(a.lines)
    PROVE  ToRow(a, r) \in Area /\ ToRow(a, r).lines = a.lines
  <1> DEFINE n == Len(a.lines[r])
  <1>1. a.lines \in Seq(Seq(Char)) /\ a.col \in Nat BY AreaParts
  <1>2. n \in Nat
    <2>1. a.lines[r] \in Seq(Char) BY <1>1
    <2> QED BY <2>1
  <1> HIDE DEF n
  <1>3. Min({a.col, n}) \in 0..n
    <2>1. Min({a.col, n}) = IF a.col <= n THEN a.col ELSE n BY <1>1, <1>2, MinOfTwo
    <2> QED BY <1>1, <1>2, <2>1
  <1> QED BY <1>3, AtOK DEF ToRow, n

LEMMA MovesOK ==
    ASSUME NEW a \in Area,
           NEW b \in {AreaLeft(a), AreaRight(a), AreaUp(a), AreaDown(a)}
    PROVE  b \in Area /\ b.lines = a.lines
  <1>1. /\ a = [lines |-> a.lines, row |-> a.row, col |-> a.col]
        /\ a.lines \in Seq(Seq(Char)) /\ Len(a.lines) \in Nat
        /\ a.row \in 1..Len(a.lines) /\ a.row \in Nat
        /\ Line(a) = a.lines[a.row] /\ Line(a) \in Seq(Char) /\ Len(Line(a)) \in Nat
        /\ a.col \in 0..Len(Line(a)) /\ a.col \in Nat
    BY AreaParts
  <1>2. ASSUME NEW c \in 0..Len(Line(a))
        PROVE  [a EXCEPT !.col = c] \in Area /\ [a EXCEPT !.col = c].lines = a.lines
    <2>1. [a EXCEPT !.col = c] = [lines |-> a.lines, row |-> a.row, col |-> c] BY <1>1
    <2>2. [lines |-> a.lines, row |-> a.row, col |-> c] \in Area BY <1>1, AreaBuilt
    <2> QED BY <2>1, <2>2
  <1>3. CASE b = AreaLeft(a)
    <2>1. CASE a.col > 0
      <3>1. a.col - 1 \in 0..Len(Line(a)) BY <1>1, <2>1
      <3>2. b = [a EXCEPT !.col = a.col - 1] BY <1>3, <2>1 DEF AreaLeft, Joins
      <3> QED BY <1>2, <3>1, <3>2
    <2>2. CASE Joins(a)
      <3>1. a.row - 1 \in 1..Len(a.lines) /\ ~(a.col > 0) BY <1>1, <2>2 DEF Joins
      <3>2. b = At(a, a.row - 1, Len(a.lines[a.row - 1])) BY <1>3, <2>2, <3>1 DEF AreaLeft
      <3>3. a.lines[a.row - 1] \in Seq(Char) BY <1>1, <3>1
      <3>4. Len(a.lines[a.row - 1]) \in 0..Len(a.lines[a.row - 1])
        <4>1. Len(a.lines[a.row - 1]) \in Nat BY <3>3
        <4> QED BY <4>1
      <3> QED BY <3>1, <3>2, <3>4, AtOK
    <2>3. CASE ~(a.col > 0) /\ ~Joins(a) BY <1>3, <2>3 DEF AreaLeft
    <2> QED BY <2>1, <2>2, <2>3
  <1>4. CASE b = AreaRight(a)
    <2>1. CASE a.col < Len(Line(a))
      <3>1. a.col + 1 \in 0..Len(Line(a)) BY <1>1, <2>1
      <3>2. a.col # Len(Line(a)) BY <1>1, <2>1
      <3>3. b = [a EXCEPT !.col = a.col + 1] BY <1>4, <2>1, <3>2 DEF AreaRight
      <3> QED BY <1>2, <3>1, <3>3
    <2>2. CASE a.col = Len(Line(a)) /\ a.row < Len(a.lines)
      <3>1. a.row + 1 \in 1..Len(a.lines) /\ ~(a.col < Len(Line(a))) BY <1>1, <2>2
      <3>2. b = At(a, a.row + 1, 0) BY <1>4, <2>2, <3>1 DEF AreaRight
      <3>3. a.lines[a.row + 1] \in Seq(Char) BY <1>1, <3>1
      <3>4. 0 \in 0..Len(a.lines[a.row + 1])
        <4>1. Len(a.lines[a.row + 1]) \in Nat BY <3>3
        <4> QED BY <4>1
      <3> QED BY <3>1, <3>2, <3>4, AtOK
    <2>3. CASE ~(a.col < Len(Line(a))) /\ ~(a.col = Len(Line(a)) /\ a.row < Len(a.lines))
      <3>1. b = a BY <1>4, <2>3 DEF AreaRight
      <3> QED BY <3>1
    <2> QED BY <2>1, <2>2, <2>3
  <1>5. CASE b = AreaUp(a)
    <2>1. CASE a.row > 1
      <3>1. a.row - 1 \in 1..Len(a.lines) BY <1>1, <2>1
      <3> QED BY <1>5, <2>1, <3>1, ToRowOK DEF AreaUp
    <2>2. CASE ~(a.row > 1) BY <1>5, <2>2 DEF AreaUp
    <2> QED BY <2>1, <2>2
  <1>6. CASE b = AreaDown(a)
    <2>1. CASE a.row < Len(a.lines)
      <3>1. a.row + 1 \in 1..Len(a.lines) BY <1>1, <2>1
      <3> QED BY <1>6, <2>1, <3>1, ToRowOK DEF AreaDown
    <2>2. CASE ~(a.row < Len(a.lines)) BY <1>6, <2>2 DEF AreaDown
    <2> QED BY <2>1, <2>2
  <1> QED BY <1>3, <1>4, <1>5, <1>6

----------------------------------------------------------------------------
(* Words and dictionaries *)

LEMMA RunsAreWords ==
    ASSUME NEW line \in Seq(Char)
    PROVE  Runs(line) \subseteq Seq(Letter)
  <1> SUFFICES ASSUME NEW w \in Runs(line) PROVE w \in Seq(Letter) OBVIOUS
  <1>1. PICK u \in (0..Len(line)) \X (1..Len(line)) :
            /\ w = SubSeq(line, u[1] + 1, u[2])
            /\ u[1] < u[2]
            /\ \A k \in u[1] + 1..u[2] : line[k] \in Letter
    BY DEF Runs
  <1> DEFINE i == u[1]
             j == u[2]
  <1>2. /\ i \in 0..Len(line) /\ j \in 1..Len(line) /\ Len(line) \in Nat /\ i < j
        /\ w = SubSeq(line, i + 1, j) /\ \A k \in i + 1..j : line[k] \in Letter
    BY <1>1
  <1> HIDE DEF i, j
  <1>3. /\ w \in Seq(Char) /\ Len(w) = j - i
        /\ \A k \in 1..j - i : w[k] = line[k + i]
    BY <1>2
  <1>4. ASSUME NEW k \in 1..Len(w) PROVE w[k] \in Letter
    <2>1. k \in 1..j - i /\ k + i \in i + 1..j BY <1>2, <1>3
    <2> QED BY <1>2, <1>3, <2>1
  <1> QED BY <1>3, <1>4

LEMMA DictionaryExists ==
    ASSUME NEW language
    PROVE  DictionaryFor(language) \in Dict \cup {NoDict}
  <1> DEFINE matching == {i \in DOMAIN ByPath :
                            ByPath[i] \in ToSet(Found) /\ Code[Name[ByPath[i]]] = language}
             own      == {i \in matching : Name[ByPath[i]] = Locale}
  <1>0. ByPath \in Seq(Dict) BY SpellCheckAssumption
  <1>1. DOMAIN ByPath \subseteq Nat /\ \A i \in DOMAIN ByPath : ByPath[i] \in Dict
    <2> HIDE DEF Dict, matching, own
    <2> QED BY <1>0
  <1>2. DictionaryFor(language) =
            CASE matching = {} -> NoDict
              [] own # {}      -> ByPath[Min(own)]
              [] OTHER         -> ByPath[Min(matching)]
    BY DEF DictionaryFor
  <1>3. matching \subseteq DOMAIN ByPath /\ own \subseteq matching OBVIOUS
  <1> HIDE DEF matching, own
  <1>4. matching # {} => Min(matching) \in DOMAIN ByPath
    <2>1. ASSUME matching # {} PROVE Min(matching) \in matching
      <3>1. matching \in SUBSET Nat BY <1>1, <1>3
      <3> QED BY <2>1, <3>1, MinOfNaturals
    <2> QED BY <1>3, <2>1
  <1>5. own # {} => Min(own) \in DOMAIN ByPath
    <2>1. ASSUME own # {} PROVE Min(own) \in own
      <3>1. own \in SUBSET Nat BY <1>1, <1>3
      <3> QED BY <2>1, <3>1, MinOfNaturals
    <2> QED BY <1>3, <2>1
  <1>6. CASE matching = {} BY <1>2, <1>3, <1>6
  <1>7. CASE matching # {} /\ own # {}
    <2>1. DictionaryFor(language) = ByPath[Min(own)] BY <1>2, <1>7
    <2> QED BY <1>1, <1>5, <1>7, <2>1
  <1>8. CASE matching # {} /\ own = {}
    <2>1. DictionaryFor(language) = ByPath[Min(matching)] BY <1>2, <1>8
    <2> QED BY <1>1, <1>4, <1>8, <2>1
  <1> QED BY <1>6, <1>7, <1>8

----------------------------------------------------------------------------
(* The invariant *)

Words == SUBSET Seq(Letter)

\* A request has lines, and no more of them than can have been typed.
Request ==
    {r \in [kind : {"none", "line", "full"}, id : 0..MaxWindows, row : 0..MaxEdits + 1,
            lines : Seq(Seq(Char))] :
        r.kind # "none" => r.row \in Row /\ Len(r.lines) \in Row}

Message ==
    {m \in [kind : {"ready", "line", "full"}, from : Workers \cup {NoWorker},
            id : 0..MaxWindows, row : 0..MaxEdits + 1, flags : Seq(Words)] :
        m.kind # "ready" => m.row \in Row /\ Len(m.flags) \in Row}

Worker ==
    {w \in [pc : {"none", "detect", "spawn", "idle", "busy", "ended"},
            dict : Dict \cup {NoDict}, req : Request, unseen : BOOLEAN,
            job : Request, up : BOOLEAN] :
        /\ w.unseen => w.req.kind # "none"
        /\ w.pc = "busy" => w.job.kind # "none"}

Window ==
    [open : BOOLEAN, id : 0..MaxWindows, body : Area, flags : Seq(Words), typed : Words,
     last : Workers \cup {NoWorker}, at : Nat, kept : BOOLEAN]

\* Types: a line was begun by an edit, so there are no more than edits.
Typed ==
    /\ layout \in Layouts
    /\ window \in Window
    /\ Len(window.body.lines) <= edits + 1
    /\ Len(window.flags) <= MaxEdits + 1
    /\ nextId \in 1..MaxWindows + 1
    /\ edits \in 0..MaxEdits
    /\ handle \in Workers \cup {NoWorker}
    /\ worker \in [Workers -> Worker]
    /\ inbox \in Seq(Message)
    /\ Len(inbox) <= Capacity

\* A window's id is new when it opens: nothing that is under way has it.
Fresh ==
    /\ window.open => window.id \in 1..nextId - 1
    /\ \A k \in Workers : worker[k].req.id < nextId /\ worker[k].job.id < nextId
    /\ \A i \in DOMAIN inbox : inbox[i].id < nextId

\* What is under way for the window that is open is about words typed in it.
Asked(r) == r.id = window.id => \A i \in DOMAIN r.lines : Runs(r.lines[i]) \subseteq window.typed
Told(m)  == m.id = window.id => \A i \in DOMAIN m.flags : m.flags[i] \subseteq window.typed
Own ==
    window.open =>
        /\ \A k \in Workers : Asked(worker[k].req) /\ Asked(worker[k].job)
        /\ \A i \in DOMAIN inbox : Told(inbox[i])

\* The dictionary of the layout; a worker for it, or a reason to have none;
\* and the handle that will be the last to arrive.
Wanted == DictionaryFor(ActiveLanguage(layout))
Right(h) ==
    \/ h # NoWorker /\ worker[h].dict = Wanted
    \/ h = NoWorker /\ (Wanted = NoDict \/ "hunspell" \in Faults)
Arrives(h) ==
    \/ /\ handle = h
       /\ \A i \in DOMAIN inbox : inbox[i].kind # "ready"
    \/ \E i \in DOMAIN inbox :
        /\ inbox[i].kind = "ready" /\ inbox[i].from = h
        /\ \A j \in DOMAIN inbox : j > i => inbox[j].kind # "ready"

\* Only the task of the window's own opening is looking for a dictionary; it
\* looks for the right one, and when it is done, its handle is the last.
Current ==
    window.open /\ window.kept =>
        /\ \A k \in Workers \ {window.id} : ~Looking(k)
        /\ worker[window.id].pc # "none"
        /\ worker[window.id].pc # "detect" => worker[window.id].dict = Wanted
        /\ ~Looking(window.id) => \A h \in Workers \cup {NoWorker} : Arrives(h) => Right(h)

IInv == Typed /\ Fresh /\ Own /\ OwnWords /\ Current

LEMMA NotADict == NoDict \notin Dict
  BY SpellCheckAssumption

LEMMA Bounds == MaxWindows \in Nat /\ MaxEdits \in Nat /\ Capacity \in Nat \ {0}
  BY SpellCheckAssumption

LEMMA NotAWorker == NoWorker \notin Workers /\ 0 \in Workers
  BY Bounds DEF NoWorker, Workers

\* What an answer to a request says of each of its lines, whether hunspell
\* was there to the end or not, are words of that line.
LEMMA AnswerSays ==
    ASSUME NEW k, worker[k].job.lines \in Seq(Seq(Char)), worker[k].job.lines # <<>>,
           NEW f, f = Checked(k) \/ f \in Cut(Checked(k))
    PROVE  /\ f \in Seq(Words) /\ Len(f) = Len(worker[k].job.lines)
           /\ \A i \in DOMAIN f : f[i] \subseteq Runs(worker[k].job.lines[i])
  <1> DEFINE ls == worker[k].job.lines
             d  == worker[k].dict
             c  == Checked(k)
  <1>1. ls \in Seq(Seq(Char)) /\ ls # <<>> OBVIOUS
  <1>2. c = [i \in DOMAIN ls |-> Flagged(d, ls[i])] BY DEF Checked
  <1> HIDE DEF ls, d, c
  <1>3. DOMAIN ls = 1..Len(ls) /\ Len(ls) \in Nat \ {0} BY <1>1
  <1>4. ASSUME NEW i \in DOMAIN ls
        PROVE  Flagged(d, ls[i]) \in Words /\ Flagged(d, ls[i]) \subseteq Runs(ls[i])
    <2>1. ls[i] \in Seq(Char) BY <1>1, <1>3
    <2> QED BY <2>1, RunsAreWords DEF Flagged, Words
  <1>5. c \in [1..Len(ls) -> Words] /\ \A i \in 1..Len(ls) : c[i] \subseteq Runs(ls[i])
    BY <1>2, <1>3, <1>4
  <1>6. c \in Seq(Words) /\ Len(c) = Len(ls) BY <1>3, <1>5
  <1>7. f \in [1..Len(ls) -> Words] /\ \A i \in 1..Len(ls) : f[i] \subseteq Runs(ls[i])
    <2>1. CASE f = c BY <1>5, <2>1
    <2>2. CASE f \in Cut(c)
      <3>1. PICK s \in SUBSET c[Len(c)] : f = [c EXCEPT ![Len(c)] = s]
        BY <2>2 DEF Cut, Last
      <3>2. Len(c) \in 1..Len(ls) BY <1>3, <1>6
      <3>3. c[Len(c)] \in Words /\ c[Len(c)] \subseteq Runs(ls[Len(c)]) BY <1>5, <3>2
      <3>4. s \in Words /\ s \subseteq Runs(ls[Len(c)]) BY <3>1, <3>3 DEF Words
      <3> QED BY <1>5, <3>1, <3>2, <3>4
    <2>3. f = c \/ f \in Cut(c) BY DEF c
    <2> QED BY <2>1, <2>2, <2>3
  <1>8. f \in Seq(Words) /\ Len(f) = Len(ls) BY <1>3, <1>7
  <1>9. DOMAIN f = 1..Len(ls) BY <1>7
  <1> QED BY <1>7, <1>8, <1>9 DEF ls

----------------------------------------------------------------------------
(* Records *)

LEMMA NoRequestOK ==
    /\ NoRequest \in Request /\ NoRequest.kind = "none" /\ NoRequest.id = 0
    /\ NoRequest.lines = <<>>
  <1>1. 0 \in 0..MaxWindows /\ 0 \in 0..MaxEdits + 1 BY Bounds
  <1>2. <<>> \in Seq(Seq(Char)) OBVIOUS
  <1> QED BY <1>1, <1>2 DEF NoRequest, Request

LEMMA RequestParts ==
    ASSUME NEW r \in Request
    PROVE  /\ r.kind \in {"none", "line", "full"} /\ r.id \in 0..MaxWindows
           /\ r.row \in 0..MaxEdits + 1 /\ r.lines \in Seq(Seq(Char))
           /\ r.kind # "none" => r.row \in Row /\ Len(r.lines) \in Row
  BY DEF Request

LEMMA WorkerParts ==
    ASSUME NEW w \in Worker
    PROVE  /\ w = [pc |-> w.pc, dict |-> w.dict, req |-> w.req, unseen |-> w.unseen,
                   job |-> w.job, up |-> w.up]
           /\ w.pc \in {"none", "detect", "spawn", "idle", "busy", "ended"}
           /\ w.dict \in Dict \cup {NoDict} /\ w.req \in Request /\ w.unseen \in BOOLEAN
           /\ w.job \in Request /\ w.up \in BOOLEAN
           /\ w.unseen => w.req.kind # "none"
           /\ w.pc = "busy" => w.job.kind # "none"
  BY DEF Worker

LEMMA WorkerBuilt ==
    ASSUME NEW pc \in {"none", "detect", "spawn", "idle", "busy", "ended"},
           NEW dict \in Dict \cup {NoDict}, NEW req \in Request, NEW unseen \in BOOLEAN,
           NEW job \in Request, NEW up \in BOOLEAN,
           unseen => req.kind # "none",
           pc = "busy" => job.kind # "none"
    PROVE  [pc |-> pc, dict |-> dict, req |-> req, unseen |-> unseen, job |-> job,
            up |-> up] \in Worker
  BY DEF Worker

LEMMA NotStartedOK ==
    /\ NotStarted \in Worker
    /\ NotStarted = [pc |-> "none", dict |-> NoDict, req |-> NoRequest, unseen |-> FALSE,
                     job |-> NoRequest, up |-> FALSE]
  <1>1. [pc |-> "none", dict |-> NoDict, req |-> NoRequest, unseen |-> FALSE,
         job |-> NoRequest, up |-> FALSE] \in Worker
    <2>1. "none" \in {"none", "detect", "spawn", "idle", "busy", "ended"}
          /\ NoDict \in Dict \cup {NoDict} /\ FALSE \in BOOLEAN
      OBVIOUS
    <2> QED BY <2>1, NoRequestOK, WorkerBuilt
  <1> QED BY <1>1 DEF NotStarted

\* The change of one worker.
LEMMA WorkerPut ==
    ASSUME worker \in [Workers -> Worker], NEW k \in Workers, NEW w \in Worker,
           NEW after, after = [worker EXCEPT ![k] = w]
    PROVE  /\ after \in [Workers -> Worker] /\ after[k] = w
           /\ \A j \in Workers : j # k => after[j] = worker[j]
  OBVIOUS

LEMMA ShutOK ==
    /\ Shut \in Window
    /\ Shut.open = FALSE /\ Shut.id = 0 /\ Shut.body = EmptyArea /\ Shut.flags = <<>>
    /\ Shut.typed = {} /\ Shut.last = NoWorker /\ Shut.at = 1 /\ Shut.kept = FALSE
  <1> DEFINE none == <<>>
  <1>1. none \in Seq(Words) /\ {} \in Words BY DEF Words
  <1> HIDE DEF none
  <1>2. 0 \in 0..MaxWindows BY Bounds
  <1>3. EmptyArea \in Area BY EmptyAreaOK
  <1> DEFINE w == [open |-> FALSE, id |-> 0, body |-> EmptyArea, flags |-> none, typed |-> {},
                   last |-> NoWorker, at |-> 1, kept |-> FALSE]
  <1>4. w \in Window BY <1>1, <1>2, <1>3 DEF Window
  <1>5. Shut = w BY DEF Shut, none
  <1>6. /\ w.open = FALSE /\ w.id = 0 /\ w.body = EmptyArea /\ w.flags = none
        /\ w.typed = {} /\ w.last = NoWorker /\ w.at = 1 /\ w.kept = FALSE
    OBVIOUS
  <1> HIDE DEF w
  <1> QED BY <1>4, <1>5, <1>6 DEF none

LEMMA WindowParts ==
    ASSUME NEW w \in Window
    PROVE  /\ w = [open |-> w.open, id |-> w.id, body |-> w.body, flags |-> w.flags,
                   typed |-> w.typed, last |-> w.last, at |-> w.at, kept |-> w.kept]
           /\ w.open \in BOOLEAN /\ w.id \in 0..MaxWindows /\ w.body \in Area
           /\ w.flags \in Seq(Words) /\ w.typed \in Words
           /\ w.last \in Workers \cup {NoWorker} /\ w.at \in Nat /\ w.kept \in BOOLEAN
  BY DEF Window

----------------------------------------------------------------------------
(* The initial states *)

LEMMA InitInv == Init => IInv
  <1> SUFFICES ASSUME Init PROVE IInv OBVIOUS
  <1> DEFINE d == DictionaryFor(ActiveLanguage(layout))
             w == [NotStarted EXCEPT !.pc = "idle", !.up = TRUE, !.dict = d]
  <1>1. d \in Dict \cup {NoDict} BY DictionaryExists
  <1>2. handle = IF d = NoDict THEN NoWorker ELSE 0 BY DEF Init
  <1>3. worker = [k \in Workers |-> IF k = handle THEN w ELSE NotStarted] BY DEF Init
  <1>4. NotStarted \in Worker /\ NotStarted.req = NoRequest /\ NotStarted.job = NoRequest
    BY NotStartedOK
  <1> HIDE DEF d
  <1>5. w \in Worker /\ w.req = NoRequest /\ w.job = NoRequest
    BY <1>1, <1>4, NoRequestOK DEF Worker
  <1> HIDE DEF w
  <1>6. ASSUME NEW k \in Workers
        PROVE  worker[k].req = NoRequest /\ worker[k].job = NoRequest
    <2>1. worker[k] = w \/ worker[k] = NotStarted BY <1>3
    <2> QED BY <1>4, <1>5, <2>1
  <1>7. /\ layout \in Layouts /\ window = Shut /\ nextId = 1 /\ edits = 0
        /\ inbox = <<>>
    BY DEF Init
  <1>8. Typed
    <2>1. worker \in [Workers -> Worker] BY <1>3, <1>4, <1>5
    <2>2. handle \in Workers \cup {NoWorker} BY <1>2, NotAWorker
    <2>3. inbox \in Seq(Message) /\ Len(inbox) = 0 BY <1>7
    <2>4. 1 \in 1..MaxWindows + 1 /\ 0 \in 0..MaxEdits /\ 0 <= Capacity /\ 0 <= MaxEdits + 1
      BY Bounds
    <2>5. Len(window.body.lines) = 1 /\ Len(window.flags) = 0 /\ window \in Window
      BY <1>7, ShutOK, EmptyAreaOK
    <2> QED BY <1>7, <2>1, <2>2, <2>3, <2>4, <2>5 DEF Typed
  <1>9. ~window.open /\ window.flags = <<>> BY <1>7, ShutOK
  <1>10. Fresh
    <2>1. \A k \in Workers : worker[k].req.id < 1 /\ worker[k].job.id < 1
      BY <1>6, NoRequestOK
    <2>2. DOMAIN inbox = {} BY <1>7
    <2> QED BY <1>7, <1>9, <2>1, <2>2 DEF Fresh
  <1>11. OwnWords
    <2>1. DOMAIN window.flags = {} BY <1>9
    <2> QED BY <2>1 DEF OwnWords
  <1> QED BY <1>8, <1>9, <1>10, <1>11 DEF IInv, Own, Current

----------------------------------------------------------------------------
(* The steps of the workers.  One of them becomes w, and may send a message. *)

Sends(m) == Len(inbox) < Capacity /\ inbox' = Append(inbox, m)
OfWorker(k, w) ==
    /\ worker' = [worker EXCEPT ![k] = w]
    /\ UNCHANGED <<layout, window, nextId, edits, handle>>

LEMMA Sent ==
    ASSUME inbox \in Seq(Message), NEW m \in Message, Sends(m)
    PROVE  /\ inbox' \in Seq(Message) /\ Len(inbox') = Len(inbox) + 1
           /\ Len(inbox') <= Capacity
           /\ DOMAIN inbox = 1..Len(inbox) /\ DOMAIN inbox' = 1..Len(inbox) + 1
           /\ inbox'[Len(inbox) + 1] = m
           /\ \A i \in DOMAIN inbox : inbox'[i] = inbox[i]
  <1>1. Capacity \in Nat BY Bounds
  <1> QED BY <1>1 DEF Sends

LEMMA WorkerTypes ==
    ASSUME Typed, NEW k \in Workers, NEW w \in Worker, OfWorker(k, w),
           inbox' = inbox \/ \E m \in Message : Sends(m)
    PROVE  Typed'
  <1>1. worker' \in [Workers -> Worker] BY WorkerPut DEF Typed, OfWorker
  <1>2. inbox' \in Seq(Message) /\ Len(inbox') <= Capacity
    <2>1. CASE inbox' = inbox BY <2>1 DEF Typed
    <2>2. CASE \E m \in Message : Sends(m)
      <3>1. PICK m \in Message : Sends(m) BY <2>2
      <3>2. inbox \in Seq(Message) BY DEF Typed
      <3> QED BY <3>1, <3>2, Sent
    <2> QED BY <2>1, <2>2
  <1>3. UNCHANGED <<layout, window, nextId, edits, handle>> BY DEF OfWorker
  <1> QED BY <1>1, <1>2, <1>3 DEF Typed

\* It takes up or lays down a request, and tells the words of one.
LEMMA WorkerOwn ==
    ASSUME Typed, Fresh, Own, OwnWords, NEW k \in Workers, NEW w \in Worker, OfWorker(k, w),
           w.req \in {worker[k].req, NoRequest},
           w.job \in {worker[k].job, worker[k].req, NoRequest},
           \/ inbox' = inbox
           \/ \E m \in Message : /\ Sends(m) /\ m.id < nextId
                                 /\ window.open => Told(m)
    PROVE  Fresh' /\ Own' /\ OwnWords'
  <1>1. /\ worker' \in [Workers -> Worker] /\ worker'[k] = w
        /\ \A j \in Workers : j # k => worker'[j] = worker[j]
    BY WorkerPut DEF Typed, OfWorker
  <1>2. window' = window /\ nextId' = nextId BY DEF OfWorker
  <1>3. nextId \in Nat /\ 0 < nextId BY Bounds DEF Typed
  <1>4. /\ NoRequest.id < nextId
        /\ window.open => Asked(NoRequest)
    <2>1. DOMAIN NoRequest.lines = {} BY NoRequestOK
    <2> QED BY <1>3, <2>1, NoRequestOK DEF Asked
  <1>5. ASSUME NEW j \in Workers
        PROVE  /\ worker'[j].req.id < nextId /\ worker'[j].job.id < nextId
               /\ window.open => Asked(worker'[j].req) /\ Asked(worker'[j].job)
    <2>1. CASE j # k BY <1>1, <2>1 DEF Fresh, Own
    <2>2. CASE j = k
      <3>1. /\ worker[k].req.id < nextId /\ worker[k].job.id < nextId
            /\ window.open => Asked(worker[k].req) /\ Asked(worker[k].job)
        BY DEF Fresh, Own
      <3> QED BY <1>1, <1>4, <2>2, <3>1
    <2> QED BY <2>1, <2>2
  <1>6. \A i \in DOMAIN inbox' : inbox'[i].id < nextId /\ (window.open => Told(inbox'[i]))
    <2>1. \A i \in DOMAIN inbox : inbox[i].id < nextId /\ (window.open => Told(inbox[i]))
      BY DEF Fresh, Own
    <2>2. CASE inbox' = inbox BY <2>1, <2>2
    <2>3. ASSUME NEW m \in Message, Sends(m), m.id < nextId, window.open => Told(m)
          PROVE  \A i \in DOMAIN inbox' :
                     inbox'[i].id < nextId /\ (window.open => Told(inbox'[i]))
      <3>1. inbox \in Seq(Message) BY DEF Typed
      <3>2. /\ DOMAIN inbox = 1..Len(inbox) /\ DOMAIN inbox' = 1..Len(inbox) + 1
            /\ inbox'[Len(inbox) + 1] = m /\ Len(inbox) \in Nat
            /\ \A i \in DOMAIN inbox : inbox'[i] = inbox[i]
        BY <2>3, <3>1, Sent
      <3>3. \A i \in DOMAIN inbox' : i = Len(inbox) + 1 \/ i \in DOMAIN inbox BY <3>2
      <3> QED BY <2>1, <2>3, <3>2, <3>3
    <2> QED BY <2>2, <2>3
  <1>7. Fresh'
    <2>1. window'.open => window'.id \in 1..nextId' - 1 BY <1>2 DEF Fresh
    <2> QED BY <1>2, <1>5, <1>6, <2>1 DEF Fresh
  <1>8. Own'
    <2>1. ASSUME window.open, NEW j \in Workers
          PROVE  Asked(worker[j].req)' /\ Asked(worker[j].job)'
      BY <1>2, <1>5, <2>1 DEF Asked
    <2>2. ASSUME window.open, NEW i \in DOMAIN inbox'
          PROVE  Told(inbox[i])'
      BY <1>2, <1>6, <2>2 DEF Told
    <2> QED BY <1>2, <2>1, <2>2 DEF Own
  <1> QED BY <1>2, <1>7, <1>8 DEF OwnWords

\* It goes on with the dictionary it has looked for, and sends its handle when
\* it has.
LEMMA WorkerCurrent ==
    ASSUME Typed, Fresh, Current, NEW k \in Workers, NEW w \in Worker, OfWorker(k, w),
           worker[k].pc # "none", w.pc \notin {"none", "detect"},
           Looking(k) \/ w.pc # "spawn",
           worker[k].pc # "detect" => w.dict = worker[k].dict,
           worker[k].pc = "detect" => w.pc = "spawn" /\ w.dict = Wanted,
           \/ inbox' = inbox /\ (worker[k].pc = "spawn" => w.pc = "spawn")
           \/ /\ worker[k].pc # "spawn"
              /\ \E m \in Message : Sends(m) /\ m.kind # "ready"
           \/ /\ worker[k].pc = "spawn"
              /\ \E m \in Message :
                    /\ Sends(m) /\ m.kind = "ready" /\ m.from \in {k, NoWorker}
                    /\ m.from = NoWorker => w.dict = NoDict \/ "hunspell" \in Faults
    PROVE  Current'
  <1> SUFFICES ASSUME window.open, window.kept PROVE Current'
    BY DEF Current, OfWorker
  <1>1. /\ worker' \in [Workers -> Worker] /\ worker'[k] = w
        /\ \A j \in Workers : j # k => worker'[j] = worker[j]
    BY WorkerPut DEF Typed, OfWorker
  <1>2. window' = window /\ layout' = layout /\ handle' = handle BY DEF OfWorker
  <1>3. Wanted' = Wanted BY <1>2 DEF Wanted
  <1>4. PICK o \in Workers : o = window.id
    <2>1. window.id \in 1..nextId - 1 /\ nextId \in 1..MaxWindows + 1 BY DEF Fresh, Typed
    <2> QED BY <2>1, Bounds DEF Workers
  <1>5. /\ \A j \in Workers \ {o} : ~Looking(j)
        /\ worker[o].pc # "none"
        /\ worker[o].pc # "detect" => worker[o].dict = Wanted
        /\ ~Looking(o) => \A h \in Workers \cup {NoWorker} : Arrives(h) => Right(h)
    BY <1>4 DEF Current
  <1>6. Looking(k) => k = o BY <1>5
  <1>7. \A j \in Workers \ {o} : ~Looking(j)'
    <2> TAKE j \in Workers \ {o}
    <2>1. CASE j # k BY <1>1, <1>5, <2>1 DEF Looking
    <2>2. CASE j = k
      <3>1. ~Looking(k) BY <1>5, <2>2
      <3>2. worker[k].pc # "detect" /\ w.pc # "spawn" BY <3>1 DEF Looking
      <3> QED BY <1>1, <2>2, <3>2 DEF Looking
    <2> QED BY <2>1, <2>2
  <1>8. worker'[o].pc # "none" BY <1>1, <1>4, <1>5
  <1>9. worker'[o].pc # "detect" => worker'[o].dict = Wanted
    <2>1. CASE o # k BY <1>1, <1>4, <1>5, <2>1
    <2>2. CASE o = k BY <1>1, <1>5, <2>2
    <2> QED BY <2>1, <2>2
  <1>10. ASSUME ~Looking(o)', NEW h \in Workers \cup {NoWorker}, Arrives(h)'
         PROVE  Right(h)'
    <2>1. Looking(o) => k = o /\ worker[k].pc = "spawn" /\ w.pc # "spawn"
      <3> SUFFICES ASSUME Looking(o) PROVE k = o /\ worker[k].pc = "spawn" /\ w.pc # "spawn"
        OBVIOUS
      <3>1. k = o
        <4>1. ASSUME k # o PROVE FALSE
          <5>1. worker'[o] = worker[o] BY <1>1, <1>4, <4>1
          <5> QED BY <1>10, <5>1 DEF Looking
        <4> QED BY <4>1
      <3>2. w.pc # "spawn" BY <1>1, <1>10, <3>1 DEF Looking
      <3> QED BY <3>1, <3>2 DEF Looking
    <2>2. CASE worker[k].pc = "spawn"
      <3>1. k = o /\ w.dict = Wanted
        <4>1. k = o BY <1>6, <2>2 DEF Looking
        <4> QED BY <1>5, <2>2, <4>1
      <3>2. w.pc # "spawn" BY <1>1, <1>10, <3>1 DEF Looking
      <3>3. PICK m \in Message :
                /\ Sends(m) /\ m.kind = "ready" /\ m.from \in {k, NoWorker}
                /\ m.from = NoWorker => w.dict = NoDict \/ "hunspell" \in Faults
        BY <2>2, <3>2
      <3>4. inbox \in Seq(Message) BY DEF Typed
      <3>5. /\ DOMAIN inbox' = 1..Len(inbox) + 1 /\ Len(inbox) \in Nat
            /\ inbox'[Len(inbox) + 1] = m
        BY <3>3, <3>4, Sent
      <3>6. h = m.from
        <4>1. Len(inbox) + 1 \in DOMAIN inbox' BY <3>5
        <4>2. \/ \A i \in DOMAIN inbox' : inbox'[i].kind # "ready"
              \/ \E i \in DOMAIN inbox' :
                    /\ inbox'[i].from = h
                    /\ \A j \in DOMAIN inbox' : j > i => inbox'[j].kind # "ready"
          BY <1>10 DEF Arrives
        <4>3. PICK i \in DOMAIN inbox' :
                    /\ inbox'[i].from = h
                    /\ \A j \in DOMAIN inbox' : j > i => inbox'[j].kind # "ready"
          BY <3>3, <3>5, <4>1, <4>2
        <4>4. ~(Len(inbox) + 1 > i) BY <3>3, <3>5, <4>1, <4>3
        <4>5. i = Len(inbox) + 1 BY <3>5, <4>4
        <4> QED BY <3>5, <4>3, <4>5
      <3>7. CASE h = NoWorker BY <1>3, <3>1, <3>3, <3>6, <3>7 DEF Right
      <3>8. CASE h # NoWorker
        <4>1. h = k BY <3>3, <3>6, <3>8
        <4> QED BY <1>1, <1>3, <3>1, <3>8, <4>1 DEF Right
      <3> QED BY <3>7, <3>8
    <2>3. CASE worker[k].pc # "spawn"
      <3>1. ~Looking(o) BY <2>1, <2>3
      <3>2. Arrives(h)
        <4>1. CASE inbox' = inbox BY <1>2, <1>10, <4>1 DEF Arrives
        <4>2. ASSUME NEW m \in Message, Sends(m), m.kind # "ready" PROVE Arrives(h)
          <5>1. inbox \in Seq(Message) BY DEF Typed
          <5>2. /\ DOMAIN inbox = 1..Len(inbox) /\ DOMAIN inbox' = 1..Len(inbox) + 1
                /\ Len(inbox) \in Nat /\ inbox'[Len(inbox) + 1] = m
                /\ \A i \in DOMAIN inbox : inbox'[i] = inbox[i]
            BY <4>2, <5>1, Sent
          <5>3. \A i \in DOMAIN inbox : i \in DOMAIN inbox' BY <5>2
          <5>4. CASE handle' = h /\ \A i \in DOMAIN inbox' : inbox'[i].kind # "ready"
            BY <1>2, <5>2, <5>3, <5>4 DEF Arrives
          <5>5. ASSUME NEW i \in DOMAIN inbox', inbox'[i].kind = "ready", inbox'[i].from = h,
                       \A j \in DOMAIN inbox' : j > i => inbox'[j].kind # "ready"
                PROVE  Arrives(h)
            <6>1. i # Len(inbox) + 1 BY <4>2, <5>2, <5>5
            <6>2. i \in DOMAIN inbox BY <5>2, <6>1
            <6>3. inbox[i].kind = "ready" /\ inbox[i].from = h BY <5>2, <5>5, <6>2
            <6>4. \A j \in DOMAIN inbox : j > i => inbox[j].kind # "ready"
              BY <5>2, <5>3, <5>5
            <6> QED BY <6>2, <6>3, <6>4 DEF Arrives
          <5> QED BY <1>10, <5>4, <5>5 DEF Arrives
        <4> QED BY <2>3, <4>1, <4>2
      <3>3. Right(h) BY <1>5, <3>1, <3>2
      <3>4. h # NoWorker => worker'[h].dict = worker[h].dict
        <4>1. worker[k].pc # "detect" BY <1>6, <3>1 DEF Looking
        <4> QED BY <1>1, <4>1
      <3> QED BY <1>3, <3>3, <3>4 DEF Right
    <2> QED BY <2>2, <2>3
  <1> QED BY <1>2, <1>3, <1>4, <1>7, <1>8, <1>9, <1>10 DEF Current

\* What the last part of the invariant is about is not touched.
LEMMA CurrentKept ==
    ASSUME Typed, Fresh, Current, UNCHANGED <<layout, handle, inbox>>,
           window'.open = window.open, window'.id = window.id, window'.kept = window.kept,
           \A j \in Workers : worker'[j].pc = worker[j].pc /\ worker'[j].dict = worker[j].dict
    PROVE  Current'
  <1> SUFFICES ASSUME window.open, window.kept PROVE Current'
    BY DEF Current
  <1>1. PICK o \in Workers : o = window.id
    <2>1. window.id \in 1..nextId - 1 /\ nextId \in 1..MaxWindows + 1 BY DEF Fresh, Typed
    <2> QED BY <2>1, Bounds DEF Workers
  <1>2. /\ \A j \in Workers \ {o} : ~Looking(j)
        /\ worker[o].pc # "none"
        /\ worker[o].pc # "detect" => worker[o].dict = Wanted
        /\ ~Looking(o) => \A h \in Workers \cup {NoWorker} : Arrives(h) => Right(h)
    BY <1>1 DEF Current
  <1>3. Wanted' = Wanted BY DEF Wanted
  <1>4. ASSUME NEW j \in Workers PROVE Looking(j)' <=> Looking(j) BY DEF Looking
  <1>5. ASSUME NEW h \in Workers \cup {NoWorker}
        PROVE  (Arrives(h)' <=> Arrives(h)) /\ (Right(h)' <=> Right(h))
    <2>1. h # NoWorker => h \in Workers OBVIOUS
    <2>2. Right(h)' <=> Right(h) BY <1>3, <2>1 DEF Right
    <2>3. Arrives(h)' <=> Arrives(h) BY DEF Arrives
    <2> QED BY <2>2, <2>3
  <1> QED BY <1>1, <1>2, <1>3, <1>4, <1>5 DEF Current

LEMMA DetectInv ==
    ASSUME IInv, NEW k \in Workers, Detect(k)
    PROVE  IInv'
  <1> DEFINE w == [worker[k] EXCEPT !.pc = "spawn", !.dict = Wanted]
  <1>1. Wanted \in Dict \cup {NoDict} BY DictionaryExists DEF Wanted
  <1>2. worker \in [Workers -> Worker] BY DEF IInv, Typed
  <1>3. worker[k] \in Worker /\ worker[k].pc = "detect" BY <1>2 DEF Detect
  <1>4. OfWorker(k, w) /\ inbox' = inbox BY <1>2 DEF Detect, OfWorker, Wanted
  <1>5. /\ w \in Worker /\ w.pc = "spawn" /\ w.dict = Wanted /\ w.req = worker[k].req
        /\ w.job = worker[k].job
    BY <1>1, <1>3 DEF Worker
  <1> HIDE DEF w
  <1>6. Looking(k) BY <1>3 DEF Looking
  <1>7. Typed' BY <1>4, <1>5, WorkerTypes DEF IInv
  <1>8. Fresh' /\ Own' /\ OwnWords' BY <1>4, <1>5, WorkerOwn DEF IInv
  <1>9. Current' BY <1>3, <1>4, <1>5, <1>6, WorkerCurrent DEF IInv
  <1> QED BY <1>7, <1>8, <1>9 DEF IInv

LEMMA ReadyOK ==
    ASSUME NEW k \in Workers, NEW ok \in BOOLEAN
    PROVE  /\ Ready(k, ok) \in Message
           /\ Ready(k, ok).kind = "ready" /\ Ready(k, ok).id = 0 /\ Ready(k, ok).flags = <<>>
           /\ Ready(k, ok).from = IF ok THEN k ELSE NoWorker
  <1> DEFINE none == <<>>
             from == IF ok THEN k ELSE NoWorker
             m == [kind |-> "ready", from |-> from, id |-> 0, row |-> 0, flags |-> none]
  <1>1. from \in Workers \cup {NoWorker} OBVIOUS
  <1>2. none \in Seq(Words) OBVIOUS
  <1>3. 0 \in 0..MaxWindows /\ 0 \in 0..MaxEdits + 1 BY Bounds
  <1>4. Ready(k, ok) = m BY DEF Ready
  <1> HIDE DEF none, from
  <1>5. m \in Message BY <1>1, <1>2, <1>3 DEF Message
  <1>6. m.kind = "ready" /\ m.id = 0 /\ m.flags = none /\ m.from = from OBVIOUS
  <1> HIDE DEF m
  <1> QED BY <1>4, <1>5, <1>6 DEF none, from

LEMMA SpawnInv ==
    ASSUME IInv, NEW k \in Workers, Spawn(k)
    PROVE  IInv'
  <1>1. PICK ok \in BOOLEAN :
            /\ ok => worker[k].dict # NoDict
            /\ ~ok => worker[k].dict = NoDict \/ "hunspell" \in Faults
            /\ Send(Ready(k, ok))
            /\ worker' = [worker EXCEPT ![k].pc = IF ok THEN "idle" ELSE "ended", ![k].up = ok]
    BY DEF Spawn
  <1> DEFINE pc == IF ok THEN "idle" ELSE "ended"
             w == [worker[k] EXCEPT !.pc = pc, !.up = ok]
             m == Ready(k, ok)
  <1>2. worker \in [Workers -> Worker] BY DEF IInv, Typed
  <1>3. worker[k] \in Worker /\ worker[k].pc = "spawn" BY <1>2 DEF Spawn
  <1>4. OfWorker(k, w) BY <1>1, <1>2 DEF Spawn, OfWorker
  <1>5. pc \in {"idle", "ended"} OBVIOUS
  <1> HIDE DEF pc
  <1>6. /\ w \in Worker /\ w.pc = pc /\ w.dict = worker[k].dict /\ w.req = worker[k].req
        /\ w.job = worker[k].job
    BY <1>3, <1>5 DEF Worker
  <1> HIDE DEF w
  <1>7. /\ m \in Message /\ m.kind = "ready" /\ m.id = 0 /\ m.flags = <<>>
        /\ m.from = IF ok THEN k ELSE NoWorker
    BY ReadyOK
  <1>8. Sends(m) BY <1>1 DEF Send, Sends
  <1> HIDE DEF m
  <1>9. m.id < nextId /\ (window.open => Told(m))
    <2>1. nextId \in 1..MaxWindows + 1 BY DEF IInv, Typed
    <2>2. DOMAIN m.flags = {} BY <1>7
    <2> QED BY <1>7, <2>1, <2>2, Bounds DEF Told
  <1>10. Looking(k) BY <1>3 DEF Looking
  <1>11. m.from \in {k, NoWorker} /\ (m.from = NoWorker => w.dict = NoDict \/ "hunspell" \in Faults)
    <2>1. k # NoWorker BY NotAWorker
    <2> QED BY <1>1, <1>6, <1>7, <2>1
  <1>12. Typed' BY <1>4, <1>6, <1>7, <1>8, WorkerTypes DEF IInv
  <1>13. Fresh' /\ Own' /\ OwnWords' BY <1>4, <1>6, <1>7, <1>8, <1>9, WorkerOwn DEF IInv
  <1>14. Current'
    <2>1. worker[k].pc # "none" /\ w.pc \notin {"none", "detect"} /\ worker[k].pc # "detect"
          /\ w.dict = worker[k].dict
      BY <1>3, <1>5, <1>6
    <2>2. \E n \in Message :
            /\ Sends(n) /\ n.kind = "ready" /\ n.from \in {k, NoWorker}
            /\ n.from = NoWorker => w.dict = NoDict \/ "hunspell" \in Faults
      BY <1>7, <1>8, <1>11
    <2> QED BY <1>3, <1>4, <1>6, <1>10, <2>1, <2>2, WorkerCurrent DEF IInv
  <1> QED BY <1>12, <1>13, <1>14 DEF IInv

LEMMA TakeInv ==
    ASSUME IInv, NEW k \in Workers, Take(k)
    PROVE  IInv'
  <1> DEFINE w == [worker[k] EXCEPT !.pc = "busy", !.job = worker[k].req, !.req = NoRequest,
                                    !.unseen = FALSE]
  <1>1. worker \in [Workers -> Worker] BY DEF IInv, Typed
  <1>2. worker[k] \in Worker /\ worker[k].pc = "idle" /\ worker[k].unseen BY <1>1 DEF Take
  <1>3. OfWorker(k, w) /\ inbox' = inbox BY <1>1 DEF Take, OfWorker
  <1>4. worker[k].req.kind # "none" BY <1>2, WorkerParts
  <1>5. /\ w \in Worker /\ w.pc = "busy" /\ w.dict = worker[k].dict /\ w.req = NoRequest
        /\ w.job = worker[k].req
    BY <1>2, <1>4, NoRequestOK DEF Worker
  <1> HIDE DEF w
  <1>6. Typed' BY <1>3, <1>5, WorkerTypes DEF IInv
  <1>7. Fresh' /\ Own' /\ OwnWords' BY <1>3, <1>5, WorkerOwn DEF IInv
  <1>8. Current' BY <1>2, <1>3, <1>5, WorkerCurrent DEF IInv
  <1> QED BY <1>6, <1>7, <1>8 DEF IInv

LEMMA HunspellExitsInv ==
    ASSUME IInv, NEW k \in Workers, HunspellExits(k)
    PROVE  IInv'
  <1> DEFINE w == [worker[k] EXCEPT !.up = FALSE]
  <1>1. worker \in [Workers -> Worker] BY DEF IInv, Typed
  <1>2. worker[k] \in Worker BY <1>1
  <1>3. OfWorker(k, w) /\ inbox' = inbox BY <1>1 DEF HunspellExits, OfWorker
  <1>4. /\ w \in Worker /\ w.pc = worker[k].pc /\ w.dict = worker[k].dict
        /\ w.req = worker[k].req /\ w.job = worker[k].job
    BY <1>2 DEF Worker
  <1> HIDE DEF w
  <1>5. Typed' BY <1>3, <1>4, WorkerTypes DEF IInv
  <1>6. Fresh' /\ Own' /\ OwnWords' BY <1>3, <1>4, WorkerOwn DEF IInv
  <1>7. Current'
    <2>1. \A j \in Workers : worker'[j].pc = worker[j].pc /\ worker'[j].dict = worker[j].dict
      BY <1>1, <1>3, <1>4, WorkerPut DEF OfWorker
    <2>2. UNCHANGED <<layout, handle, inbox>> /\ window' = window BY <1>3 DEF OfWorker
    <2> QED BY <2>1, <2>2, CurrentKept DEF IInv
  <1> QED BY <1>5, <1>6, <1>7 DEF IInv

\* A worker that ends says nothing more, and keeps its dictionary.
LEMMA EndedInv ==
    ASSUME IInv, NEW k \in Workers, worker[k].pc \in {"idle", "busy"},
           worker' = [worker EXCEPT ![k] = Ended(k)],
           UNCHANGED <<layout, window, nextId, edits, handle, inbox>>
    PROVE  IInv'
  <1> DEFINE w == Ended(k)
  <1>1. worker \in [Workers -> Worker] BY DEF IInv, Typed
  <1>2. worker[k] \in Worker BY <1>1
  <1>3. OfWorker(k, w) /\ inbox' = inbox BY DEF OfWorker
  <1>4. /\ w \in Worker /\ w.pc = "ended" /\ w.dict = worker[k].dict
        /\ w.req = NoRequest /\ w.job = NoRequest
    <2>1. NotStarted \in Worker /\ NotStarted.req = NoRequest /\ NotStarted.job = NoRequest
      BY NotStartedOK
    <2>2. worker[k].dict \in Dict \cup {NoDict} BY <1>2, WorkerParts
    <2>3. w = [NotStarted EXCEPT !.pc = "ended", !.dict = worker[k].dict] BY DEF Ended
    <2> QED BY <2>1, <2>2, <2>3 DEF Worker
  <1> HIDE DEF w
  <1>5. Typed' BY <1>3, <1>4, WorkerTypes DEF IInv
  <1>6. Fresh' /\ Own' /\ OwnWords' BY <1>3, <1>4, WorkerOwn DEF IInv
  <1>7. Current' BY <1>3, <1>4, WorkerCurrent DEF IInv
  <1> QED BY <1>5, <1>6, <1>7 DEF IInv

LEMMA FailInv ==
    ASSUME IInv, NEW k \in Workers, Fail(k)
    PROVE  IInv'
  BY EndedInv DEF Fail

LEMMA LetGoInv ==
    ASSUME IInv, NEW k \in Workers, LetGo(k)
    PROVE  IInv'
  BY EndedInv DEF LetGo

LEMMA AnswerInv ==
    ASSUME IInv, NEW k \in Workers, Answer(k)
    PROVE  IInv'
  <1> DEFINE job == worker[k].job
             w == [worker[k] EXCEPT !.pc = "idle", !.job = NoRequest]
  <1>1. PICK f :
            /\ f = Checked(k) \/ f \in Cut(Checked(k))
            /\ Send([kind |-> job.kind, from |-> k, id |-> job.id, row |-> job.row, flags |-> f])
    BY DEF Answer
  <1>2. worker \in [Workers -> Worker] BY DEF IInv, Typed
  <1>3. worker[k] \in Worker /\ worker[k].pc = "busy" BY <1>2 DEF Answer
  <1>4. /\ job.kind \in {"line", "full"} /\ job.id \in 0..MaxWindows
        /\ job.row \in 0..MaxEdits + 1 /\ job.row \in Row
        /\ job.lines \in Seq(Seq(Char)) /\ Len(job.lines) \in Row
    <2>1. job \in Request /\ job.kind # "none" BY <1>3, WorkerParts
    <2> HIDE DEF job
    <2> QED BY <2>1, RequestParts
  <1>5. job.lines # <<>>
    <2>1. Len(job.lines) # 0 BY <1>4, Bounds DEF Row
    <2> HIDE DEF job
    <2> QED BY <1>4, <2>1
  <1>6. /\ f \in Seq(Words) /\ Len(f) = Len(job.lines)
        /\ \A i \in DOMAIN f : f[i] \subseteq Runs(job.lines[i])
    BY <1>1, <1>4, <1>5, AnswerSays
  <1>7. OfWorker(k, w) BY <1>2 DEF Answer, OfWorker
  <1>8. /\ w \in Worker /\ w.pc = "idle" /\ w.dict = worker[k].dict /\ w.req = worker[k].req
        /\ w.job = NoRequest
    BY <1>3, NoRequestOK DEF Worker
  <1> HIDE DEF w
  <1> DEFINE m == [kind |-> job.kind, from |-> k, id |-> job.id, row |-> job.row, flags |-> f]
  <1>9. Sends(m) BY <1>1 DEF Send, Sends
  <1>10. job.id < nextId /\ (window.open => Asked(job)) BY DEF IInv, Fresh, Own
  <1> HIDE DEF job
  <1>11. m \in Message BY <1>4, <1>6 DEF Message
  <1>12. m.kind # "ready" /\ m.id = job.id /\ m.flags = f BY <1>4
  <1> HIDE DEF m
  <1>13. m.id < nextId /\ (window.open => Told(m))
    <2>1. ASSUME window.open, m.id = window.id, NEW i \in DOMAIN m.flags
          PROVE  m.flags[i] \subseteq window.typed
      <3>1. i \in DOMAIN job.lines
        <4>1. DOMAIN f = 1..Len(job.lines) BY <1>6
        <4> QED BY <1>4, <1>12, <2>1, <4>1
      <3>2. Runs(job.lines[i]) \subseteq window.typed BY <1>10, <1>12, <2>1, <3>1 DEF Asked
      <3> QED BY <1>6, <1>12, <2>1, <3>2
    <2> QED BY <1>10, <1>12, <2>1 DEF Told
  <1>14. Typed' BY <1>7, <1>8, <1>9, <1>11, WorkerTypes DEF IInv
  <1>15. Fresh' /\ Own' /\ OwnWords'
    <2>1. \E n \in Message : Sends(n) /\ n.id < nextId /\ (window.open => Told(n))
      BY <1>9, <1>11, <1>13
    <2>2. w.req \in {worker[k].req, NoRequest} BY <1>8
    <2>3. w.job \in {worker[k].job, worker[k].req, NoRequest} BY <1>8
    <2> QED BY <1>7, <1>8, <2>1, <2>2, <2>3, WorkerOwn DEF IInv
  <1>16. Current'
    <2>1. \E n \in Message : Sends(n) /\ n.kind # "ready" BY <1>9, <1>11, <1>12
    <2> QED BY <1>3, <1>7, <1>8, <2>1, WorkerCurrent DEF IInv
  <1> QED BY <1>14, <1>15, <1>16 DEF IInv

----------------------------------------------------------------------------
(* The steps of the keyboard *)

LEMMA OpenWindowInv ==
    ASSUME IInv, OpenWindow
    PROVE  IInv'
  <1>1. PICK n \in Workers : n = nextId /\ n \in 1..MaxWindows /\ n \in Nat
    <2>1. nextId \in 1..MaxWindows + 1 /\ nextId <= MaxWindows BY DEF IInv, Typed, OpenWindow
    <2>2. nextId \in 1..MaxWindows /\ nextId \in Nat BY <2>1, Bounds
    <2> QED BY <2>2, Bounds DEF Workers
  <1> DEFINE w == [worker[n] EXCEPT !.pc = "detect"]
             quiet == \A k \in Workers : ~Looking(k)
             v == [Shut EXCEPT !.open = TRUE, !.id = n, !.kept = quiet]
  <1>2. worker \in [Workers -> Worker] BY DEF IInv, Typed
  <1>3. worker[n] \in Worker BY <1>2
  <1>4. /\ w \in Worker /\ w.pc = "detect" /\ w.dict = worker[n].dict
        /\ w.req = worker[n].req /\ w.job = worker[n].job
    BY <1>3 DEF Worker
  <1>5. worker' = [worker EXCEPT ![n] = w] BY <1>1, <1>2 DEF OpenWindow
  <1>6. window' = v BY <1>1 DEF OpenWindow
  <1>7. quiet \in BOOLEAN /\ n \in 0..MaxWindows BY <1>1, Bounds
  <1> HIDE DEF w, quiet
  <1>8. /\ v \in Window /\ v.open = TRUE /\ v.id = n /\ v.body = EmptyArea /\ v.flags = <<>>
        /\ v.typed = {}
    <2>1. /\ Shut \in Window /\ Shut.body = EmptyArea /\ Shut.flags = <<>> /\ Shut.typed = {}
      BY ShutOK
    <2> QED BY <1>7, <2>1 DEF Window
  <1>9. v.kept = quiet
    <2>1. Shut \in Window BY ShutOK
    <2> QED BY <1>7, <2>1 DEF Window
  <1> HIDE DEF v
  <1>10. /\ worker' \in [Workers -> Worker] /\ worker'[n] = w
         /\ \A j \in Workers : j # n => worker'[j] = worker[j]
    BY <1>2, <1>4, <1>5, WorkerPut
  <1>11. nextId' = n + 1 /\ UNCHANGED <<layout, edits, handle, inbox>>
    BY <1>1 DEF OpenWindow
  <1>12. Typed'
    <2>1. n + 1 \in 1..MaxWindows + 1 BY <1>1, Bounds
    <2>2. Len(window'.body.lines) <= edits' + 1 /\ Len(window'.flags) <= MaxEdits + 1
      <3>1. Len(v.body.lines) = 1 /\ Len(v.flags) = 0 BY <1>8, EmptyAreaOK
      <3>2. edits \in 0..MaxEdits BY DEF IInv, Typed
      <3> QED BY <1>6, <1>11, <3>1, <3>2, Bounds
    <2> QED BY <1>6, <1>8, <1>10, <1>11, <2>1, <2>2 DEF IInv, Typed
  <1>13. ASSUME NEW j \in Workers
         PROVE  worker'[j].req = worker[j].req /\ worker'[j].job = worker[j].job
    BY <1>4, <1>10
  <1>14. \A j \in Workers : worker[j].req.id < n /\ worker[j].job.id < n
    BY <1>1 DEF IInv, Fresh
  <1>15. \A i \in DOMAIN inbox : inbox[i].id < n
    BY <1>1 DEF IInv, Fresh
  <1>16. Fresh'
    <2>1. \A j \in Workers : worker[j].req.id \in Int /\ worker[j].job.id \in Int
      <3> TAKE j \in Workers
      <3>1. worker[j].req \in Request /\ worker[j].job \in Request
        BY <1>2, WorkerParts
      <3> QED BY <3>1, RequestParts, Bounds
    <2>2. \A i \in DOMAIN inbox : inbox[i].id \in Int
      <3>1. \A i \in DOMAIN inbox : inbox[i] \in Message BY DEF IInv, Typed
      <3> QED BY <3>1, Bounds DEF Message
    <2>3. \A j \in Workers : worker'[j].req.id < n + 1 /\ worker'[j].job.id < n + 1
      BY <1>1, <1>13, <1>14, <2>1
    <2>4. \A i \in DOMAIN inbox' : inbox'[i].id < n + 1
      BY <1>1, <1>11, <1>15, <2>2
    <2>5. n \in 1..(n + 1) - 1 BY <1>1
    <2> QED BY <1>6, <1>8, <1>11, <2>3, <2>4, <2>5 DEF Fresh
  <1>17. Own'
    <2>1. ~(n < n) BY <1>1
    <2>2. \A j \in Workers : Asked(worker[j].req)' /\ Asked(worker[j].job)'
      BY <1>6, <1>8, <1>13, <1>14, <2>1 DEF Asked
    <2>3. \A i \in DOMAIN inbox' : Told(inbox[i])'
      BY <1>6, <1>8, <1>11, <1>15, <2>1 DEF Told
    <2> QED BY <2>2, <2>3 DEF Own
  <1>18. OwnWords'
    <2>1. DOMAIN window'.flags = {} BY <1>6, <1>8
    <2> QED BY <2>1 DEF OwnWords
  <1>19. Current'
    <2>1. SUFFICES ASSUME quiet PROVE Current' BY <1>6, <1>9 DEF Current
    <2>2. \A j \in Workers \ {n} : ~Looking(j)' BY <1>10, <2>1 DEF Looking, quiet
    <2>3. worker'[n].pc = "detect" BY <1>4, <1>10
    <2>4. Looking(n)' BY <2>3 DEF Looking
    <2> QED BY <1>6, <1>8, <2>2, <2>3, <2>4 DEF Current
  <1> QED BY <1>12, <1>16, <1>17, <1>18, <1>19 DEF IInv

LEMMA CloseWindowInv ==
    ASSUME IInv, CloseWindow
    PROVE  IInv'
  <1>1. window' = Shut /\ UNCHANGED <<layout, nextId, edits, handle, worker, inbox>>
    BY DEF CloseWindow
  <1>2. ~window'.open /\ DOMAIN window'.flags = {} BY <1>1, ShutOK
  <1>3. Typed'
    <2>1. Len(window'.body.lines) <= edits' + 1 /\ Len(window'.flags) <= MaxEdits + 1
      <3>1. Len(Shut.body.lines) = 1 /\ Len(Shut.flags) = 0 BY ShutOK, EmptyAreaOK
      <3>2. edits \in 0..MaxEdits BY DEF IInv, Typed
      <3> QED BY <1>1, <3>1, <3>2, Bounds
    <2> QED BY <1>1, <2>1, ShutOK DEF IInv, Typed
  <1> QED BY <1>1, <1>2, <1>3 DEF IInv, Fresh, Own, OwnWords, Current

LEMMA SwitchLayoutInv ==
    ASSUME IInv, NEW l \in Layouts, SwitchLayout(l)
    PROVE  IInv'
  <1>1. /\ ~window.open /\ layout' = l
        /\ UNCHANGED <<window, nextId, edits, handle, worker, inbox>>
    BY DEF SwitchLayout
  <1>2. Typed' BY <1>1 DEF IInv, Typed
  <1> QED BY <1>1, <1>2 DEF IInv, Fresh, Own, OwnWords, Current

\* The words of a text are words of letters, and those of its lines.
LEMMA AllWordsAreWords ==
    ASSUME NEW a \in Area
    PROVE  /\ AllWords(a) \in Words
           /\ \A i \in DOMAIN a.lines : Runs(a.lines[i]) \subseteq AllWords(a)
  <1> DEFINE ls == a.lines
  <1>1. ls \in Seq(Seq(Char)) BY AreaParts
  <1>2. AllWords(a) = UNION {Runs(ls[i]) : i \in DOMAIN ls} BY DEF AllWords
  <1> HIDE DEF ls
  <1>3. \A i \in DOMAIN ls : Runs(ls[i]) \subseteq Seq(Letter)
    <2> TAKE i \in DOMAIN ls
    <2>1. ls[i] \in Seq(Char) BY <1>1
    <2> QED BY <2>1, RunsAreWords
  <1>4. AllWords(a) \in Words BY <1>2, <1>3 DEF Words
  <1> QED BY <1>2, <1>4 DEF ls

\* The requests an edit makes: all of the lines, or the one of the cursor.
LEMMA RequestsOK ==
    ASSUME NEW w \in Window, Len(w.body.lines) <= MaxEdits + 1,
           NEW r, r = FullRequest(w) \/ r = LineRequest(w)
    PROVE  /\ r \in Request /\ r.kind # "none" /\ r.id = w.id
           /\ \A i \in DOMAIN r.lines : Runs(r.lines[i]) \subseteq AllWords(w.body)
  <1> DEFINE a == w.body
             ls == a.lines
             l == Line(a)
  <1>1. a \in Area /\ w.id \in 0..MaxWindows BY WindowParts
  <1>2. /\ ls \in Seq(Seq(Char)) /\ Len(ls) \in Nat /\ a.row \in 1..Len(ls)
        /\ l = ls[a.row] /\ l \in Seq(Char)
    BY <1>1, AreaParts
  <1>3. \A i \in DOMAIN ls : Runs(ls[i]) \subseteq AllWords(a) BY <1>1, AllWordsAreWords
  <1>4. Len(ls) \in Row /\ a.row \in Row /\ 1 \in Row /\ a.row \in 0..MaxEdits + 1
        /\ 1 \in 0..MaxEdits + 1
    BY <1>2, Bounds DEF Row
  <1>5. CASE r = FullRequest(w)
    <2>1. r = [kind |-> "full", id |-> w.id, row |-> 1, lines |-> ls] BY <1>5 DEF FullRequest
    <2> HIDE DEF a, ls, l
    <2>2. r \in Request BY <1>1, <1>2, <1>4, <2>1 DEF Request
    <2>3. r.kind # "none" /\ r.id = w.id /\ r.lines = ls BY <2>1
    <2> QED BY <1>3, <2>2, <2>3 DEF a
  <1>6. CASE r = LineRequest(w)
    <2> DEFINE one == <<l>>
    <2>1. r = [kind |-> "line", id |-> w.id, row |-> a.row, lines |-> one]
      BY <1>6 DEF LineRequest
    <2> HIDE DEF a, ls, l
    <2>2. /\ one \in Seq(Seq(Char)) /\ Len(one) = 1 /\ DOMAIN one = {1}
          /\ one[1] = l
      BY <1>2
    <2>3. Runs(l) \subseteq AllWords(a)
      <3>1. a.row \in DOMAIN ls BY <1>2
      <3> QED BY <1>2, <1>3, <3>1
    <2> HIDE DEF one
    <2>4. r \in Request BY <1>1, <1>4, <2>1, <2>2 DEF Request
    <2>5. r.kind # "none" /\ r.id = w.id /\ r.lines = one BY <2>1
    <2> QED BY <2>2, <2>3, <2>4, <2>5 DEF a
  <1> QED BY <1>5, <1>6

LEMMA EditInv ==
    ASSUME IInv, NEW a \in Area, Len(a.lines) <= Len(window.body.lines) + 1,
           NEW structural \in BOOLEAN, Edit(a, structural)
    PROVE  IInv'
  <1> DEFINE words == window.typed \cup AllWords(a)
             last == IF \E k \in Workers \ {handle} : Owes(k) THEN NoWorker ELSE handle
             w == [window EXCEPT !.body = a, !.typed = words, !.at = a.row, !.last = last]
             r == IF structural THEN FullRequest(w) ELSE LineRequest(w)
  <1>1. /\ window.open /\ edits < MaxEdits /\ edits' = edits + 1 /\ window' = w
        /\ Ask(r) /\ UNCHANGED <<layout, nextId, handle, inbox>>
    BY DEF Edit
  <1>2. /\ window \in Window /\ handle \in Workers \cup {NoWorker} /\ edits \in 0..MaxEdits
        /\ Len(window.body.lines) <= edits + 1 /\ Len(window.flags) <= MaxEdits + 1
        /\ worker \in [Workers -> Worker] /\ nextId \in 1..MaxWindows + 1
    BY DEF IInv, Typed
  <1>3. last \in Workers \cup {NoWorker} BY <1>2
  <1>4. words \in Words
    <2>1. window.typed \in Words BY <1>2, WindowParts
    <2>2. AllWords(a) \in Words BY AllWordsAreWords
    <2> QED BY <2>1, <2>2 DEF Words
  <1>5. a.row \in Nat BY AreaParts
  <1> HIDE DEF last, words
  <1>6. /\ w \in Window /\ w.open = window.open /\ w.id = window.id /\ w.body = a
        /\ w.flags = window.flags /\ w.typed = words /\ w.kept = window.kept
    BY <1>2, <1>3, <1>4, <1>5 DEF Window
  <1> HIDE DEF w
  <1>7. Len(a.lines) <= edits' + 1 /\ Len(a.lines) <= MaxEdits + 1 /\ edits' \in 0..MaxEdits
    <2>1. Len(a.lines) \in Nat BY AreaParts
    <2>2. Len(window.body.lines) \in Nat BY <1>2, WindowParts, AreaParts
    <2> QED BY <1>1, <1>2, <2>1, <2>2, Bounds
  <1>8. /\ r \in Request /\ r.kind # "none" /\ r.id = window.id
        /\ \A i \in DOMAIN r.lines : Runs(r.lines[i]) \subseteq words
    <2>1. Len(w.body.lines) <= MaxEdits + 1 /\ (r = FullRequest(w) \/ r = LineRequest(w))
      BY <1>6, <1>7
    <2> HIDE DEF r
    <2>2. /\ r \in Request /\ r.kind # "none" /\ r.id = w.id
          /\ \A i \in DOMAIN r.lines : Runs(r.lines[i]) \subseteq AllWords(w.body)
      BY <1>6, <2>1, RequestsOK
    <2> QED BY <1>6, <2>2 DEF words
  <1> HIDE DEF r
  <1>9. /\ worker' \in [Workers -> Worker]
        /\ \A k \in Workers :
              /\ worker'[k].pc = worker[k].pc /\ worker'[k].dict = worker[k].dict
              /\ worker'[k].job = worker[k].job
              /\ worker'[k].req \in {worker[k].req, r}
    <2>1. CASE handle # NoWorker /\ worker[handle].pc \in {"idle", "busy"}
      <3> DEFINE x == [worker[handle] EXCEPT !.req = r, !.unseen = TRUE]
      <3>1. handle \in Workers /\ worker[handle] \in Worker BY <1>2, <2>1
      <3>2. worker' = [worker EXCEPT ![handle] = x] BY <1>1, <1>2, <2>1, <3>1 DEF Ask
      <3>3. /\ x \in Worker /\ x.pc = worker[handle].pc /\ x.dict = worker[handle].dict
            /\ x.job = worker[handle].job /\ x.req = r
        BY <1>8, <3>1 DEF Worker
      <3> HIDE DEF x
      <3>4. /\ worker' \in [Workers -> Worker] /\ worker'[handle] = x
            /\ \A j \in Workers : j # handle => worker'[j] = worker[j]
        BY <1>2, <3>1, <3>2, <3>3, WorkerPut
      <3> QED BY <3>3, <3>4
    <2>2. CASE ~(handle # NoWorker /\ worker[handle].pc \in {"idle", "busy"})
      <3>1. worker' = worker BY <1>1, <2>2 DEF Ask
      <3> QED BY <1>2, <3>1
    <2> QED BY <2>1, <2>2
  <1>10. Typed' BY <1>1, <1>2, <1>6, <1>7, <1>9 DEF IInv, Typed
  <1>11. window.id \in 1..nextId - 1 /\ window.id < nextId
    <2>1. window.id \in 1..nextId - 1 BY <1>1 DEF IInv, Fresh
    <2> QED BY <1>2, <2>1, Bounds
  <1>12. Fresh'
    <2>1. \A k \in Workers : worker'[k].req.id < nextId /\ worker'[k].job.id < nextId
      BY <1>8, <1>9, <1>11 DEF IInv, Fresh
    <2> QED BY <1>1, <1>6, <1>11, <2>1 DEF IInv, Fresh
  <1>13. window'.typed = words /\ window.typed \subseteq words /\ window'.id = window.id
    BY <1>1, <1>6 DEF words
  <1>14. Own'
    <2>1. ASSUME NEW k \in Workers PROVE Asked(worker[k].req)' /\ Asked(worker[k].job)'
      <3>1. Asked(worker[k].req) /\ Asked(worker[k].job) BY <1>1 DEF IInv, Own
      <3>2. Asked(worker[k].job)' BY <1>9, <1>13, <3>1 DEF Asked
      <3>3. CASE worker'[k].req = r BY <1>8, <1>13, <3>2, <3>3 DEF Asked
      <3>4. CASE worker'[k].req = worker[k].req BY <1>13, <3>1, <3>2, <3>4 DEF Asked
      <3> QED BY <1>9, <3>2, <3>3, <3>4
    <2>2. ASSUME NEW i \in DOMAIN inbox' PROVE Told(inbox[i])'
      <3>1. Told(inbox[i]) BY <1>1 DEF IInv, Own
      <3> QED BY <1>1, <1>13, <3>1 DEF Told
    <2> QED BY <2>1, <2>2 DEF Own
  <1>15. OwnWords' BY <1>1, <1>6, <1>13 DEF IInv, OwnWords
  <1>16. Current' BY <1>1, <1>6, <1>9, CurrentKept DEF IInv
  <1> QED BY <1>10, <1>12, <1>14, <1>15, <1>16 DEF IInv

LEMMA MoveCursorInv ==
    ASSUME IInv, MoveCursor
    PROVE  IInv'
  <1>1. PICK a \in {AreaLeft(window.body), AreaRight(window.body),
                    AreaUp(window.body), AreaDown(window.body)} :
            window' = [window EXCEPT !.body = a]
    BY DEF MoveCursor
  <1>2. UNCHANGED <<layout, nextId, edits, handle, worker, inbox>> BY DEF MoveCursor
  <1>3. window \in Window BY DEF IInv, Typed
  <1>4. a \in Area /\ a.lines = window.body.lines
    <2>1. window.body \in Area BY <1>3, WindowParts
    <2> QED BY <2>1, MovesOK
  <1> DEFINE w == [window EXCEPT !.body = a]
  <1>5. /\ w \in Window /\ w.open = window.open /\ w.id = window.id /\ w.body = a
        /\ w.flags = window.flags /\ w.typed = window.typed /\ w.kept = window.kept
    BY <1>3, <1>4 DEF Window
  <1>6. window' = w BY <1>1
  <1> HIDE DEF w
  <1>7. Typed' BY <1>2, <1>4, <1>5, <1>6 DEF IInv, Typed
  <1>8. Fresh' BY <1>2, <1>5, <1>6 DEF IInv, Fresh
  <1>9. Own'
    <2>1. ASSUME window.open, NEW k \in Workers
          PROVE  Asked(worker[k].req)' /\ Asked(worker[k].job)'
      BY <1>2, <1>5, <1>6, <2>1 DEF IInv, Own, Asked
    <2>2. ASSUME window.open, NEW i \in DOMAIN inbox' PROVE Told(inbox[i])'
      BY <1>2, <1>5, <1>6, <2>2 DEF IInv, Own, Told
    <2> QED BY <1>5, <1>6, <2>1, <2>2 DEF Own
  <1>10. OwnWords' BY <1>5, <1>6 DEF IInv, OwnWords
  <1>11. Current' BY <1>2, <1>5, <1>6, CurrentKept DEF IInv
  <1> QED BY <1>7, <1>8, <1>9, <1>10, <1>11 DEF IInv

----------------------------------------------------------------------------
(* The event loop *)

LEMMA SetLineOK ==
    ASSUME NEW flags \in Seq(Words), Len(flags) <= MaxEdits + 1, NEW row \in Row,
           NEW words \in Words
    PROVE  LET s == SetLine(flags, row, words)
           IN  /\ s \in Seq(Words) /\ Len(s) <= MaxEdits + 1
               /\ \A i \in DOMAIN s :
                    \/ s[i] = words \/ s[i] = {}
                    \/ i \in DOMAIN flags /\ s[i] = flags[i]
  <1> DEFINE n == Max({row, Len(flags)})
             f == [i \in 1..n |->
                      IF i = row THEN words ELSE IF i \in DOMAIN flags THEN flags[i] ELSE {}]
  <1>1. row \in Nat /\ Len(flags) \in Nat /\ row <= MaxEdits + 1 BY Bounds DEF Row
  <1>2. n \in Nat /\ n <= MaxEdits + 1
    <2>1. n = IF row >= Len(flags) THEN row ELSE Len(flags) BY <1>1, MaxOfTwo
    <2> QED BY <1>1, <2>1
  <1>3. SetLine(flags, row, words) = f BY DEF SetLine
  <1> HIDE DEF n
  <1>4. \A i \in DOMAIN flags : flags[i] \in Words OBVIOUS
  <1>5. {} \in Words BY DEF Words
  <1>6. f \in [1..n -> Words] BY <1>4, <1>5
  <1>7. \A i \in 1..n : \/ f[i] = words \/ f[i] = {}
                        \/ i \in DOMAIN flags /\ f[i] = flags[i]
    OBVIOUS
  <1> HIDE DEF f
  <1>8. f \in Seq(Words) /\ Len(f) = n /\ DOMAIN f = 1..n BY <1>2, <1>6
  <1> QED BY <1>2, <1>3, <1>7, <1>8

LEMMA MessageParts ==
    ASSUME NEW m \in Message
    PROVE  /\ m.kind \in {"ready", "line", "full"} /\ m.from \in Workers \cup {NoWorker}
           /\ m.flags \in Seq(Words)
           /\ m.kind # "ready" => m.row \in Row /\ Len(m.flags) \in Row
  BY DEF Message

LEMMA ApplyInv ==
    ASSUME IInv, Apply
    PROVE  IInv'
  <1> DEFINE m == Head(inbox)
  <1>1. /\ inbox # <<>> /\ inbox' = Tail(inbox)
        /\ UNCHANGED <<layout, nextId, edits, worker>>
        /\ \/ m.kind = "ready" /\ handle' = m.from /\ window' = window
           \/ /\ m.kind \in {"line", "full"} /\ handle' = handle
              /\ \/ window' = window
                 \/ /\ IsFor(m, window)
                    /\ window' = [window EXCEPT !.flags =
                                      IF m.kind = "line" THEN SetLine(@, m.row, m.flags[1])
                                      ELSE m.flags]
    BY DEF Apply
  <1>2. /\ inbox \in Seq(Message) /\ window \in Window /\ Len(inbox) <= Capacity
        /\ handle \in Workers \cup {NoWorker} /\ worker \in [Workers -> Worker]
        /\ Len(window.flags) <= MaxEdits + 1
    BY DEF IInv, Typed
  <1>3. /\ DOMAIN inbox = 1..Len(inbox) /\ Len(inbox) \in Nat \ {0}
        /\ inbox' \in Seq(Message) /\ Len(inbox') = Len(inbox) - 1
        /\ DOMAIN inbox' = 1..Len(inbox) - 1
        /\ \A i \in 1..Len(inbox) - 1 : inbox'[i] = inbox[i + 1]
        /\ m = inbox[1] /\ m \in Message
    BY <1>1, <1>2
  <1>4. \A i \in DOMAIN inbox' : i + 1 \in DOMAIN inbox /\ inbox'[i] = inbox[i + 1]
    BY <1>3
  <1>5. 1 \in DOMAIN inbox BY <1>3
  <1> HIDE DEF m
  <1>6. /\ m.kind \in {"ready", "line", "full"} /\ m.from \in Workers \cup {NoWorker}
        /\ m.flags \in Seq(Words)
        /\ m.kind # "ready" => m.row \in Row /\ Len(m.flags) \in Row
    BY <1>3, MessageParts
  <1>7. /\ window' \in Window /\ Len(window'.flags) <= MaxEdits + 1
        /\ window'.open = window.open /\ window'.id = window.id /\ window'.body = window.body
        /\ window'.typed = window.typed /\ window'.kept = window.kept
        /\ window.open =>
              \A i \in DOMAIN window'.flags : window'.flags[i] \subseteq window.typed
    <2>1. OwnWords BY DEF IInv
    <2>2. CASE window' = window BY <1>2, <2>1, <2>2 DEF OwnWords
    <2>3. CASE /\ m.kind \in {"line", "full"} /\ IsFor(m, window)
               /\ window' = [window EXCEPT !.flags =
                                 IF m.kind = "line" THEN SetLine(@, m.row, m.flags[1])
                                 ELSE m.flags]
      <3>1. m.row \in Row /\ Len(m.flags) \in Row BY <1>6, <2>3
      <3>2. window.open /\ \A i \in DOMAIN m.flags : m.flags[i] \subseteq window.typed
        <4>1. Told(m) BY <1>3, <1>5, <2>3 DEF IInv, Own, IsFor
        <4> QED BY <2>3, <4>1 DEF Told, IsFor
      <3>3. ASSUME NEW f \in Seq(Words), Len(f) <= MaxEdits + 1,
                   \A i \in DOMAIN f : f[i] \subseteq window.typed,
                   window' = [window EXCEPT !.flags = f]
            PROVE  /\ window' \in Window /\ Len(window'.flags) <= MaxEdits + 1
                   /\ window'.open = window.open /\ window'.id = window.id
                   /\ window'.body = window.body
                   /\ window'.typed = window.typed /\ window'.kept = window.kept
                   /\ window.open =>
                        \A i \in DOMAIN window'.flags : window'.flags[i] \subseteq window.typed
        <4> DEFINE v == [window EXCEPT !.flags = f]
        <4>1. /\ v \in Window /\ v.open = window.open /\ v.id = window.id
              /\ v.body = window.body /\ v.typed = window.typed /\ v.kept = window.kept
              /\ v.flags = f
          BY <1>2, <3>3 DEF Window
        <4>2. window' = v BY <3>3
        <4> HIDE DEF v
        <4> QED BY <3>3, <4>1, <4>2
      <3>4. CASE m.kind = "line"
        <4> DEFINE g == window.flags
                   words == m.flags[1]
                   s == SetLine(g, m.row, words)
        <4>1. window' = [window EXCEPT !.flags = s] BY <2>3, <3>4
        <4>2. 1 \in DOMAIN m.flags BY <1>6, <3>1, Bounds DEF Row
        <4>3. words \in Words /\ words \subseteq window.typed BY <1>6, <3>2, <4>2
        <4>4. g \in Seq(Words) /\ Len(g) <= MaxEdits + 1 BY <1>2, WindowParts
        <4>5. \A i \in DOMAIN g : g[i] \subseteq window.typed BY <2>1 DEF OwnWords
        <4> HIDE DEF g, words
        <4>6. /\ s \in Seq(Words) /\ Len(s) <= MaxEdits + 1
              /\ \A i \in DOMAIN s : \/ s[i] = words \/ s[i] = {}
                                     \/ i \in DOMAIN g /\ s[i] = g[i]
          BY <3>1, <4>3, <4>4, SetLineOK
        <4> HIDE DEF s
        <4>7. \A i \in DOMAIN s : s[i] \subseteq window.typed BY <4>3, <4>5, <4>6
        <4> QED BY <3>3, <4>1, <4>6, <4>7
      <3>5. CASE m.kind # "line"
        <4>1. window' = [window EXCEPT !.flags = m.flags] BY <2>3, <3>5
        <4>2. Len(m.flags) <= MaxEdits + 1 BY <3>1, Bounds DEF Row
        <4> QED BY <1>6, <3>2, <3>3, <4>1, <4>2
      <3> QED BY <3>4, <3>5
    <2> QED BY <1>1, <2>2, <2>3
  <1>8. handle' \in Workers \cup {NoWorker} BY <1>1, <1>2, <1>6
  <1>9. Typed'
    <2>1. Len(inbox') <= Capacity BY <1>2, <1>3, Bounds
    <2> QED BY <1>1, <1>3, <1>7, <1>8, <2>1 DEF IInv, Typed
  <1>10. Fresh' BY <1>1, <1>4, <1>7 DEF IInv, Fresh
  <1>11. Own'
    <2>1. ASSUME window.open, NEW k \in Workers
          PROVE  Asked(worker[k].req)' /\ Asked(worker[k].job)'
      BY <1>1, <1>7, <2>1 DEF IInv, Own, Asked
    <2>2. ASSUME window.open, NEW i \in DOMAIN inbox' PROVE Told(inbox[i])'
      <3>1. Told(inbox[i + 1]) BY <1>4, <2>2 DEF IInv, Own
      <3> QED BY <1>4, <1>7, <2>2, <3>1 DEF Told
    <2> QED BY <1>7, <2>1, <2>2 DEF Own
  <1>12. OwnWords'
    <2>1. CASE window.open BY <1>7, <2>1 DEF OwnWords
    <2>2. CASE ~window.open
      <3>1. ~IsFor(m, window) BY <2>2 DEF IsFor
      <3>2. window' = window BY <1>1, <3>1
      <3> QED BY <3>2 DEF IInv, OwnWords
    <2> QED BY <2>1, <2>2
  <1>13. Current'
    <2>1. ASSUME NEW h, Arrives(h)' PROVE Arrives(h)
      <3>1. ASSUME NEW i \in DOMAIN inbox', inbox'[i].kind = "ready", inbox'[i].from = h,
                   \A j \in DOMAIN inbox' : j > i => inbox'[j].kind # "ready"
            PROVE  Arrives(h)
        <4>1. i + 1 \in DOMAIN inbox /\ inbox[i + 1].kind = "ready" /\ inbox[i + 1].from = h
          BY <1>4, <3>1
        <4>2. ASSUME NEW j \in DOMAIN inbox, j > i + 1 PROVE inbox[j].kind # "ready"
          <5>1. j - 1 \in DOMAIN inbox' /\ j - 1 > i /\ (j - 1) + 1 = j
            BY <1>3, <3>1, <4>2
          <5> QED BY <1>4, <3>1, <5>1
        <4> QED BY <4>1, <4>2 DEF Arrives
      <3>2. CASE handle' = h /\ \A i \in DOMAIN inbox' : inbox'[i].kind # "ready"
        <4>1. ASSUME NEW j \in DOMAIN inbox, j # 1 PROVE inbox[j].kind # "ready"
          <5>1. j - 1 \in DOMAIN inbox' /\ (j - 1) + 1 = j BY <1>3, <4>1
          <5> QED BY <1>4, <3>2, <5>1
        <4>2. CASE m.kind = "ready"
          <5>1. inbox[1].kind = "ready" /\ inbox[1].from = h BY <1>1, <1>3, <3>2, <4>2
          <5>2. \A j \in DOMAIN inbox : j > 1 => inbox[j].kind # "ready" BY <1>3, <4>1
          <5> QED BY <1>5, <5>1, <5>2 DEF Arrives
        <4>3. CASE m.kind # "ready"
          <5>1. handle = h BY <1>1, <3>2, <4>3
          <5>2. \A j \in DOMAIN inbox : inbox[j].kind # "ready" BY <1>3, <4>1, <4>3
          <5> QED BY <5>1, <5>2 DEF Arrives
        <4> QED BY <4>2, <4>3
      <3> QED BY <2>1, <3>1, <3>2 DEF Arrives
    <2>2. Wanted' = Wanted BY <1>1 DEF Wanted
    <2>3. ASSUME NEW h PROVE Right(h)' <=> Right(h) BY <1>1, <2>2 DEF Right
    <2>4. ASSUME NEW k PROVE Looking(k)' <=> Looking(k) BY <1>1 DEF Looking
    <2>5. Looking(window.id)' <=> Looking(window.id) BY <1>1, <1>7 DEF Looking
    <2> SUFFICES ASSUME window.open, window.kept PROVE Current'
      BY <1>7 DEF Current
    <2>6. /\ \A k \in Workers \ {window.id} : ~Looking(k)
          /\ worker[window.id].pc # "none"
          /\ worker[window.id].pc # "detect" => worker[window.id].dict = Wanted
          /\ ~Looking(window.id) => \A h \in Workers \cup {NoWorker} : Arrives(h) => Right(h)
      BY DEF IInv, Current
    <2>7. \A k \in Workers \ {window'.id} : ~Looking(k)' BY <1>7, <2>4, <2>6
    <2>8. ~Looking(window.id)' => \A h \in Workers \cup {NoWorker} : Arrives(h)' => Right(h)'
      BY <2>1, <2>3, <2>5, <2>6
    <2> QED BY <1>1, <1>7, <2>2, <2>6, <2>7, <2>8 DEF Current
  <1> QED BY <1>9, <1>10, <1>11, <1>12, <1>13 DEF IInv

----------------------------------------------------------------------------
(* The line last edited *)

HasStarted(k) == worker[k].pc \in {"idle", "busy", "ended"}

\* hunspell runs for workers at their loop, which have a dictionary; only
\* theirs are the handles; and the workers of later windows are yet to start.
Running ==
    /\ \A k \in Workers : k >= nextId => worker[k].pc = "none"
    /\ \A k \in Workers :
          worker[k].up => worker[k].pc \in {"idle", "busy"} /\ worker[k].dict # NoDict
    /\ handle # NoWorker => HasStarted(handle)
    /\ \A i \in DOMAIN inbox :
          IF inbox[i].from = NoWorker THEN inbox[i].kind = "ready"
          ELSE inbox[i].kind = "ready" => HasStarted(inbox[i].from)

LastLine == window.body.lines[window.at]

\* A request or an answer that tells of the line last edited, as it is now.
Covers(r) ==
    /\ r.id = window.id
    /\ \/ r.kind = "line" /\ r.row = window.at /\ r.lines = <<LastLine>>
       \/ r.kind = "full" /\ window.at \in DOMAIN r.lines /\ r.lines[window.at] = LastLine
Tells(m, d) ==
    /\ m.id = window.id
    /\ \/ m.kind = "line" /\ m.row = window.at /\ m.flags[1] = Flagged(d, LastLine)
       \/ /\ m.kind = "full" /\ window.at \in DOMAIN m.flags
          /\ m.flags[window.at] = Flagged(d, LastLine)

\* Of all that worker k has yet to take, to answer and to be heard of, the
\* last tells of that line; when there is nothing left the flags do.
Final(k) ==
    \/ worker[k].unseen /\ Covers(worker[k].req)
    \/ /\ ~worker[k].unseen /\ worker[k].pc = "busy" /\ Covers(worker[k].job)
    \/ /\ ~worker[k].unseen /\ worker[k].pc # "busy"
       /\ \E i \in Answers(k) :
            Tells(inbox[i], worker[k].dict) /\ \A j \in Answers(k) : j <= i
    \/ /\ ~worker[k].unseen /\ worker[k].pc # "busy" /\ Answers(k) = {}
       /\ window.at \in DOMAIN window.flags
       /\ window.flags[window.at] = Flagged(worker[k].dict, LastLine)

\* The worker last asked is the only one that has anything to say.
Settled ==
    window.open /\ window.last # NoWorker =>
        /\ window.at \in DOMAIN window.body.lines
        /\ HasStarted(window.last)
        /\ \A j \in Workers \ {window.last} : ~Owes(j)
        /\ worker[window.last].up => Final(window.last)

\* The invariant, and these.
LInv == IInv /\ Running /\ Settled

LEMMA WorkerRunning ==
    ASSUME Typed, Running, NEW k \in Workers, NEW w \in Worker, OfWorker(k, w),
           worker[k].pc # "none",
           w.up => w.pc \in {"idle", "busy"} /\ w.dict # NoDict,
           HasStarted(k) => w.pc \in {"idle", "busy", "ended"},
           \/ inbox' = inbox
           \/ \E m \in Message :
                /\ Sends(m)
                /\ IF m.from = NoWorker THEN m.kind = "ready"
                   ELSE m.from = k /\ w.pc \in {"idle", "busy", "ended"}
    PROVE  Running'
  <1>1. /\ worker' \in [Workers -> Worker] /\ worker'[k] = w
        /\ \A j \in Workers : j # k => worker'[j] = worker[j]
    BY WorkerPut DEF Typed, OfWorker
  <1>2. handle' = handle /\ handle \in Workers \cup {NoWorker} /\ nextId' = nextId
    BY DEF Typed, OfWorker
  <1>3. ASSUME NEW j \in Workers
        PROVE  /\ j >= nextId' => worker'[j].pc = "none"
               /\ worker'[j].up => worker'[j].pc \in {"idle", "busy"} /\ worker'[j].dict # NoDict
               /\ HasStarted(j) => HasStarted(j)'
    <2>1. CASE j = k BY <1>1, <1>2, <2>1 DEF HasStarted, Running
    <2>2. CASE j # k BY <1>1, <1>2, <2>2 DEF HasStarted, Running
    <2> QED BY <2>1, <2>2
  <1>4. handle' # NoWorker => HasStarted(handle)'
    <2>1. SUFFICES ASSUME handle # NoWorker PROVE HasStarted(handle)' BY <1>2
    <2>2. handle \in Workers /\ HasStarted(handle) BY <1>2, <2>1 DEF Running
    <2> QED BY <1>2, <1>3, <2>2 DEF HasStarted
  <1>5. ASSUME NEW i \in DOMAIN inbox'
        PROVE  IF inbox'[i].from = NoWorker THEN inbox'[i].kind = "ready"
               ELSE inbox'[i].kind = "ready" => HasStarted(inbox[i].from)'
    <2>0. inbox \in Seq(Message) BY DEF Typed
    <2>1. ASSUME i \in DOMAIN inbox, inbox'[i] = inbox[i]
          PROVE  IF inbox'[i].from = NoWorker THEN inbox'[i].kind = "ready"
                 ELSE inbox'[i].kind = "ready" => HasStarted(inbox[i].from)'
      <3>1. inbox[i] \in Message BY <2>0, <2>1
      <3>2. inbox[i].from \in Workers \cup {NoWorker} BY <3>1 DEF Message
      <3>3. IF inbox[i].from = NoWorker THEN inbox[i].kind = "ready"
            ELSE inbox[i].kind = "ready" => HasStarted(inbox[i].from)
        BY <2>1 DEF Running
      <3> QED BY <1>3, <2>1, <3>2, <3>3 DEF HasStarted
    <2>2. CASE inbox' = inbox BY <2>1, <2>2
    <2>3. ASSUME NEW m \in Message, Sends(m),
                 IF m.from = NoWorker THEN m.kind = "ready"
                 ELSE m.from = k /\ w.pc \in {"idle", "busy", "ended"}
          PROVE  IF inbox'[i].from = NoWorker THEN inbox'[i].kind = "ready"
                 ELSE inbox'[i].kind = "ready" => HasStarted(inbox[i].from)'
      <3>1. /\ DOMAIN inbox = 1..Len(inbox) /\ DOMAIN inbox' = 1..Len(inbox) + 1
            /\ inbox'[Len(inbox) + 1] = m /\ Len(inbox) \in Nat
            /\ \A j \in DOMAIN inbox : inbox'[j] = inbox[j]
        BY <2>0, <2>3, Sent
      <3>2. CASE i \in DOMAIN inbox BY <2>1, <3>1, <3>2
      <3>3. CASE i = Len(inbox) + 1
        <4>1. inbox'[i] = m BY <3>1, <3>3
        <4> QED BY <1>1, <2>3, <4>1 DEF HasStarted
      <3> QED BY <3>1, <3>2, <3>3
    <2> QED BY <2>2, <2>3
  <1> QED BY <1>3, <1>4, <1>5 DEF Running

\* A message that is not an answer of a worker adds nothing to its answers.
LEMMA AnswersKept ==
    ASSUME inbox \in Seq(Message), NEW j,
           \/ inbox' = inbox
           \/ \E m \in Message : Sends(m) /\ (m.kind = "ready" \/ m.from # j)
    PROVE  Answers(j)' = Answers(j) /\ \A i \in Answers(j) : inbox'[i] = inbox[i]
  <1>1. CASE inbox' = inbox BY <1>1 DEF Answers
  <1>2. ASSUME NEW m \in Message, Sends(m), m.kind = "ready" \/ m.from # j
        PROVE  Answers(j)' = Answers(j) /\ \A i \in Answers(j) : inbox'[i] = inbox[i]
    <2>1. /\ DOMAIN inbox = 1..Len(inbox) /\ DOMAIN inbox' = 1..Len(inbox) + 1
          /\ inbox'[Len(inbox) + 1] = m /\ Len(inbox) \in Nat
          /\ \A i \in DOMAIN inbox : inbox'[i] = inbox[i]
      BY <1>2, Sent
    <2>2. \A i \in DOMAIN inbox' : i = Len(inbox) + 1 \/ i \in DOMAIN inbox BY <2>1
    <2>3. \A i \in DOMAIN inbox : i \in DOMAIN inbox' BY <2>1
    <2>4. Len(inbox) + 1 \notin Answers(j)' BY <1>2, <2>1 DEF Answers
    <2>5. ASSUME NEW i PROVE i \in Answers(j)' <=> i \in Answers(j)
      <3>1. ASSUME i \in Answers(j)' PROVE i \in Answers(j)
        <4>1. i \in DOMAIN inbox BY <2>2, <2>4, <3>1 DEF Answers
        <4> QED BY <2>1, <3>1, <4>1 DEF Answers
      <3>2. ASSUME i \in Answers(j) PROVE i \in Answers(j)'
        BY <2>1, <2>3, <3>2 DEF Answers
      <3> QED BY <3>1, <3>2
    <2>6. \A i \in Answers(j) : i \in DOMAIN inbox BY DEF Answers
    <2> QED BY <2>1, <2>5, <2>6
  <1> QED BY <1>1, <1>2

\* Steps of the workers: one other than the last asked, which has nothing to
\* say, and the last one.
LEMMA OtherSettled ==
    ASSUME Typed, Settled, NEW k \in Workers, NEW w \in Worker, OfWorker(k, w),
           window.open /\ window.last # NoWorker => k # window.last,
           w.unseen => worker[k].unseen, w.pc = "busy" => worker[k].pc = "busy",
           inbox' = inbox \/ \E m \in Message : Sends(m) /\ m.kind = "ready"
    PROVE  Settled'
  <1> SUFFICES ASSUME window.open, window.last # NoWorker PROVE Settled'
    BY DEF Settled, OfWorker
  <1>1. window' = window BY DEF OfWorker
  <1>2. /\ worker' \in [Workers -> Worker] /\ worker'[k] = w
        /\ \A j \in Workers : j # k => worker'[j] = worker[j]
    BY WorkerPut DEF Typed, OfWorker
  <1>3. ASSUME NEW j PROVE Answers(j)' = Answers(j) /\ \A i \in Answers(j) : inbox'[i] = inbox[i]
    <2>1. inbox \in Seq(Message) BY DEF Typed
    <2> QED BY <2>1, AnswersKept
  <1>4. PICK o \in Workers : o = window.last /\ o # k
    <2>1. window \in Window BY DEF Typed
    <2>2. window.last \in Workers \cup {NoWorker} BY <2>1, WindowParts
    <2> QED BY <2>2
  <1>5. /\ window.at \in DOMAIN window.body.lines /\ HasStarted(o)
        /\ \A j \in Workers \ {o} : ~Owes(j)
        /\ worker[o].up => Final(o)
    BY <1>4 DEF Settled
  <1>6. worker'[o] = worker[o] BY <1>2, <1>4
  <1>7. HasStarted(o)' BY <1>5, <1>6 DEF HasStarted
  <1>8. \A j \in Workers \ {o} : ~Owes(j)'
    <2> TAKE j \in Workers \ {o}
    <2>1. ~worker[j].unseen /\ worker[j].pc # "busy" /\ Answers(j) = {} BY <1>5 DEF Owes
    <2>2. ~worker'[j].unseen /\ worker'[j].pc # "busy"
      <3>1. CASE j = k BY <1>2, <2>1, <3>1
      <3>2. CASE j # k BY <1>2, <2>1, <3>2
      <3> QED BY <3>1, <3>2
    <2> QED BY <1>3, <2>1, <2>2 DEF Owes
  <1>9. worker'[o].up => Final(o)'
    <2>1. SUFFICES ASSUME Final(o) PROVE Final(o)' BY <1>5, <1>6
    <2>2. LastLine' = LastLine BY <1>1 DEF LastLine
    <2> QED BY <1>1, <1>3, <1>6, <2>1, <2>2 DEF Final, Covers, Tells
  <1> QED BY <1>1, <1>4, <1>5, <1>7, <1>8, <1>9 DEF Settled

LEMMA LastSettled ==
    ASSUME Typed, Settled, NEW k \in Workers, NEW w \in Worker, OfWorker(k, w),
           k = window.last, w.pc \in {"idle", "busy", "ended"},
           inbox' = inbox \/ \E m \in Message : Sends(m) /\ m.from = k,
           window.open /\ w.up => Final(k)'
    PROVE  Settled'
  <1> SUFFICES ASSUME window.open, window.last # NoWorker PROVE Settled'
    BY DEF Settled, OfWorker
  <1>1. window' = window BY DEF OfWorker
  <1>2. /\ worker' \in [Workers -> Worker] /\ worker'[k] = w
        /\ \A j \in Workers : j # k => worker'[j] = worker[j]
    BY WorkerPut DEF Typed, OfWorker
  <1>3. window.at \in DOMAIN window.body.lines /\ \A j \in Workers \ {k} : ~Owes(j)
    BY DEF Settled
  <1>4. \A j \in Workers \ {k} : ~Owes(j)'
    <2> TAKE j \in Workers \ {k}
    <2>1. ~worker[j].unseen /\ worker[j].pc # "busy" /\ Answers(j) = {} BY <1>3 DEF Owes
    <2>2. worker'[j] = worker[j] BY <1>2
    <2>3. Answers(j)' = Answers(j)
      <3>1. inbox \in Seq(Message) BY DEF Typed
      <3>2. k # j OBVIOUS
      <3> QED BY <3>1, <3>2, AnswersKept
    <2> QED BY <2>1, <2>2, <2>3 DEF Owes
  <1>5. HasStarted(k)' BY <1>2 DEF HasStarted
  <1>6. worker'[k].up => Final(k)' BY <1>2
  <1> QED BY <1>1, <1>3, <1>4, <1>5, <1>6 DEF Settled
LEMMA DetectSettled ==
    ASSUME LInv, NEW k \in Workers, Detect(k)
    PROVE  Running' /\ Settled'
  <1> DEFINE w == [worker[k] EXCEPT !.pc = "spawn", !.dict = Wanted]
  <1>1. Wanted \in Dict \cup {NoDict} BY DictionaryExists DEF Wanted
  <1>2. Typed /\ worker \in [Workers -> Worker] BY DEF LInv, IInv, Typed
  <1>3. worker[k] \in Worker /\ worker[k].pc = "detect" BY <1>2 DEF Detect
  <1>4. OfWorker(k, w) /\ inbox' = inbox BY <1>2 DEF Detect, OfWorker, Wanted
  <1>5. w \in Worker /\ w.pc = "spawn" /\ w.unseen = worker[k].unseen /\ w.up = worker[k].up
    BY <1>1, <1>3 DEF Worker
  <1> HIDE DEF w
  <1>6. ~HasStarted(k) /\ ~worker[k].up BY <1>3 DEF HasStarted, LInv, Running
  <1>7. window.open /\ window.last # NoWorker => k # window.last
    BY <1>6 DEF LInv, Settled
  <1>8. Running' BY <1>2, <1>3, <1>4, <1>5, <1>6, WorkerRunning DEF LInv
  <1>9. Settled' BY <1>2, <1>4, <1>5, <1>7, OtherSettled DEF LInv
  <1> QED BY <1>8, <1>9

LEMMA SpawnSettled ==
    ASSUME LInv, NEW k \in Workers, Spawn(k)
    PROVE  Running' /\ Settled'
  <1>1. PICK ok \in BOOLEAN :
            /\ ok => worker[k].dict # NoDict
            /\ Send(Ready(k, ok))
            /\ worker' = [worker EXCEPT ![k].pc = IF ok THEN "idle" ELSE "ended", ![k].up = ok]
    BY DEF Spawn
  <1> DEFINE pc == IF ok THEN "idle" ELSE "ended"
             w == [worker[k] EXCEPT !.pc = pc, !.up = ok]
             m == Ready(k, ok)
  <1>2. Typed /\ worker \in [Workers -> Worker] BY DEF LInv, IInv, Typed
  <1>3. worker[k] \in Worker /\ worker[k].pc = "spawn" BY <1>2 DEF Spawn
  <1>4. OfWorker(k, w) BY <1>1, <1>2 DEF Spawn, OfWorker
  <1>5. pc \in {"idle", "ended"} /\ (ok => pc = "idle") OBVIOUS
  <1> HIDE DEF pc
  <1>6. /\ w \in Worker /\ w.pc = pc /\ w.dict = worker[k].dict /\ w.unseen = worker[k].unseen
        /\ w.up = ok
    BY <1>3, <1>5 DEF Worker
  <1> HIDE DEF w
  <1>7. m \in Message /\ m.kind = "ready" /\ m.from \in {k, NoWorker} BY ReadyOK
  <1>8. Sends(m) BY <1>1 DEF Send, Sends
  <1> HIDE DEF m
  <1>9. ~HasStarted(k) BY <1>3 DEF HasStarted
  <1>10. window.open /\ window.last # NoWorker => k # window.last
    BY <1>9 DEF LInv, Settled
  <1>11. Running'
    <2>1. \E n \in Message :
            /\ Sends(n)
            /\ IF n.from = NoWorker THEN n.kind = "ready"
               ELSE n.from = k /\ w.pc \in {"idle", "busy", "ended"}
      BY <1>5, <1>6, <1>7, <1>8
    <2> QED BY <1>1, <1>2, <1>3, <1>4, <1>5, <1>6, <1>9, <2>1, WorkerRunning DEF LInv
  <1>12. Settled'
    <2>1. \E n \in Message : Sends(n) /\ n.kind = "ready" BY <1>7, <1>8
    <2> QED BY <1>2, <1>4, <1>5, <1>6, <1>10, <2>1, OtherSettled DEF LInv
  <1> QED BY <1>11, <1>12

LEMMA TakeSettled ==
    ASSUME LInv, NEW k \in Workers, Take(k)
    PROVE  Running' /\ Settled'
  <1> DEFINE w == [worker[k] EXCEPT !.pc = "busy", !.job = worker[k].req, !.req = NoRequest,
                                    !.unseen = FALSE]
  <1>1. Typed /\ worker \in [Workers -> Worker] BY DEF LInv, IInv, Typed
  <1>2. worker[k] \in Worker /\ worker[k].pc = "idle" /\ worker[k].unseen BY <1>1 DEF Take
  <1>3. OfWorker(k, w) /\ inbox' = inbox BY <1>1 DEF Take, OfWorker
  <1>4. worker[k].req.kind # "none" BY <1>2, WorkerParts
  <1>5. /\ w \in Worker /\ w.pc = "busy" /\ w.dict = worker[k].dict /\ w.up = worker[k].up
        /\ w.job = worker[k].req /\ w.unseen = FALSE
    BY <1>2, <1>4, NoRequestOK DEF Worker
  <1> HIDE DEF w
  <1>6. worker[k].up => worker[k].dict # NoDict BY DEF LInv, Running
  <1>7. Running' BY <1>1, <1>2, <1>3, <1>5, <1>6, WorkerRunning DEF LInv
  <1>8. Settled'
    <2>1. CASE window.open /\ window.last # NoWorker
      <3>1. k = window.last BY <1>2, <2>1 DEF LInv, Settled, Owes
      <3>2. ASSUME w.up PROVE Final(k)'
        <4>1. Final(k) BY <1>5, <2>1, <3>1, <3>2 DEF LInv, Settled
        <4>2. Covers(worker[k].req) BY <1>2, <4>1 DEF Final
        <4>3. worker'[k] = w BY <1>1, <1>3, <1>5, WorkerPut DEF OfWorker
        <4>4. Covers(worker[k].job)'
          BY <1>3, <1>5, <4>2, <4>3 DEF Covers, LastLine, OfWorker
        <4> QED BY <1>5, <4>3, <4>4 DEF Final
      <3> QED BY <1>1, <1>3, <1>5, <3>1, <3>2, LastSettled DEF LInv
    <2>2. CASE ~(window.open /\ window.last # NoWorker)
      BY <1>3, <2>2 DEF Settled, OfWorker
    <2> QED BY <2>1, <2>2
  <1> QED BY <1>7, <1>8

LEMMA HunspellExitsSettled ==
    ASSUME LInv, NEW k \in Workers, HunspellExits(k)
    PROVE  Running' /\ Settled'
  <1> DEFINE w == [worker[k] EXCEPT !.up = FALSE]
  <1>1. Typed /\ worker \in [Workers -> Worker] BY DEF LInv, IInv, Typed
  <1>2. worker[k] \in Worker /\ worker[k].up BY <1>1 DEF HunspellExits
  <1>3. OfWorker(k, w) /\ inbox' = inbox BY <1>1 DEF HunspellExits, OfWorker
  <1>4. w \in Worker /\ w.pc = worker[k].pc /\ w.unseen = worker[k].unseen /\ ~w.up
    BY <1>2 DEF Worker
  <1> HIDE DEF w
  <1>5. w.pc \in {"idle", "busy", "ended"} /\ worker[k].pc # "none"
    BY <1>2, <1>4 DEF LInv, Running
  <1>6. Running' BY <1>1, <1>3, <1>4, <1>5, WorkerRunning DEF LInv
  <1>7. Settled'
    <2>1. CASE k = window.last BY <1>1, <1>3, <1>4, <1>5, <2>1, LastSettled DEF LInv
    <2>2. CASE k # window.last BY <1>1, <1>3, <1>4, <2>2, OtherSettled DEF LInv
    <2> QED BY <2>1, <2>2
  <1> QED BY <1>6, <1>7

LEMMA EndedSettled ==
    ASSUME LInv, NEW k \in Workers, worker[k].pc \in {"idle", "busy"},
           worker' = [worker EXCEPT ![k] = Ended(k)],
           UNCHANGED <<layout, window, nextId, edits, handle, inbox>>
    PROVE  Running' /\ Settled'
  <1> DEFINE w == Ended(k)
  <1>1. Typed /\ worker \in [Workers -> Worker] BY DEF LInv, IInv, Typed
  <1>2. worker[k] \in Worker BY <1>1
  <1>3. OfWorker(k, w) /\ inbox' = inbox BY DEF OfWorker
  <1>4. w \in Worker /\ w.pc = "ended" /\ ~w.unseen /\ ~w.up
    <2>1. NotStarted \in Worker /\ ~NotStarted.unseen /\ ~NotStarted.up
      BY NotStartedOK
    <2>2. worker[k].dict \in Dict \cup {NoDict} BY <1>2, WorkerParts
    <2>3. w = [NotStarted EXCEPT !.pc = "ended", !.dict = worker[k].dict] BY DEF Ended
    <2> QED BY <2>1, <2>2, <2>3 DEF Worker
  <1> HIDE DEF w
  <1>5. Running' BY <1>1, <1>3, <1>4, WorkerRunning DEF LInv
  <1>6. Settled'
    <2>1. CASE k = window.last BY <1>1, <1>3, <1>4, <2>1, LastSettled DEF LInv
    <2>2. CASE k # window.last BY <1>1, <1>3, <1>4, <2>2, OtherSettled DEF LInv
    <2> QED BY <2>1, <2>2
  <1> QED BY <1>5, <1>6

\* What a worker with its hunspell answers to a request of that line.
LEMMA AnswerTells ==
    ASSUME NEW k, NEW r \in Request, r = worker[k].job, Covers(r), window.at \in Nat,
           NEW m, m.id = r.id, m.kind = r.kind, m.row = r.row, m.flags = Checked(k)
    PROVE  Tells(m, worker[k].dict)
  <1> DEFINE ls == r.lines
  <1>1. m.flags = [i \in DOMAIN ls |-> Flagged(worker[k].dict, ls[i])] BY DEF Checked
  <1>2. CASE r.kind = "line" /\ r.row = window.at /\ ls = <<LastLine>>
    <2>1. 1 \in DOMAIN ls /\ ls[1] = LastLine BY <1>2
    <2> HIDE DEF ls
    <2>2. m.flags[1] = Flagged(worker[k].dict, LastLine) BY <1>1, <2>1
    <2> QED BY <1>2, <2>2 DEF Tells, Covers
  <1>3. CASE r.kind = "full" /\ window.at \in DOMAIN ls /\ ls[window.at] = LastLine
    <2> HIDE DEF ls
    <2>1. /\ window.at \in DOMAIN m.flags
          /\ m.flags[window.at] = Flagged(worker[k].dict, LastLine)
      BY <1>1, <1>3
    <2> QED BY <1>3, <2>1 DEF Tells, Covers
  <1> QED BY <1>2, <1>3 DEF Covers

LEMMA AnswerSettled ==
    ASSUME LInv, NEW k \in Workers, Answer(k)
    PROVE  Running' /\ Settled'
  <1> DEFINE job == worker[k].job
             w == [worker[k] EXCEPT !.pc = "idle", !.job = NoRequest]
  <1>1. PICK f :
            /\ IF worker[k].up THEN f = Checked(k) ELSE f \in Cut(Checked(k))
            /\ Send([kind |-> job.kind, from |-> k, id |-> job.id, row |-> job.row, flags |-> f])
    BY DEF Answer
  <1>2. /\ Typed /\ worker \in [Workers -> Worker] /\ window \in Window
        /\ inbox \in Seq(Message)
    BY DEF LInv, IInv, Typed
  <1>3. worker[k] \in Worker /\ worker[k].pc = "busy" BY <1>2 DEF Answer
  <1>4. /\ job \in Request
        /\ job.kind \in {"line", "full"} /\ job.id \in 0..MaxWindows
        /\ job.row \in 0..MaxEdits + 1 /\ job.row \in Row
        /\ job.lines \in Seq(Seq(Char)) /\ Len(job.lines) \in Row
    <2>1. job \in Request /\ job.kind # "none" BY <1>3, WorkerParts
    <2> HIDE DEF job
    <2> QED BY <2>1, RequestParts
  <1>5. job.lines # <<>>
    <2>1. Len(job.lines) # 0 BY <1>4, Bounds DEF Row
    <2> HIDE DEF job
    <2> QED BY <1>4, <2>1
  <1>6. f \in Seq(Words) /\ Len(f) = Len(job.lines)
    BY <1>1, <1>4, <1>5, AnswerSays
  <1>7. OfWorker(k, w) BY <1>2 DEF Answer, OfWorker
  <1>8. /\ w \in Worker /\ w.pc = "idle" /\ w.dict = worker[k].dict /\ w.req = worker[k].req
        /\ w.up = worker[k].up /\ w.unseen = worker[k].unseen
    BY <1>3, NoRequestOK DEF Worker
  <1> HIDE DEF w
  <1>9. PICK m :
            /\ m = [kind |-> job.kind, from |-> k, id |-> job.id, row |-> job.row, flags |-> f]
            /\ Sends(m)
    BY <1>1 DEF Send, Sends
  <1>10. m.kind = job.kind /\ m.id = job.id /\ m.row = job.row /\ m.flags = f /\ m.from = k
    BY <1>9
  <1> HIDE DEF job
  <1>11. m \in Message BY <1>4, <1>6, <1>9 DEF Message
  <1>12. k # NoWorker BY NotAWorker
  <1>13. worker[k].up => worker[k].dict # NoDict BY DEF LInv, Running
  <1>14. Running'
    <2>1. \E n \in Message :
            /\ Sends(n)
            /\ IF n.from = NoWorker THEN n.kind = "ready"
               ELSE n.from = k /\ w.pc \in {"idle", "busy", "ended"}
      BY <1>8, <1>9, <1>10, <1>11, <1>12
    <2> QED BY <1>2, <1>3, <1>7, <1>8, <1>13, <2>1, WorkerRunning DEF LInv
  <1>15. Settled'
    <2>1. CASE window.open /\ window.last # NoWorker
      <3>1. k = window.last BY <1>3, <2>1 DEF LInv, Settled, Owes
      <3>2. worker'[k] = w BY <1>2, <1>7, <1>8, WorkerPut DEF OfWorker
      <3>3. window' = window /\ LastLine' = LastLine BY <1>7 DEF OfWorker, LastLine
      <3>4. ASSUME w.up PROVE Final(k)'
        <4>1. Final(k) BY <1>8, <2>1, <3>1, <3>4 DEF LInv, Settled
        <4>2. CASE worker[k].unseen
          <5>1. Covers(worker[k].req) BY <4>1, <4>2 DEF Final
          <5> QED BY <1>8, <3>2, <3>3, <4>2, <5>1 DEF Final, Covers
        <4>3. CASE ~worker[k].unseen
          <5>1. Covers(job) BY <1>3, <4>1, <4>3 DEF Final, job
          <5>2. window.at \in Nat BY <1>2, WindowParts
          <5>3. m.flags = Checked(k) BY <1>1, <1>8, <1>10, <3>4
          <5>4. Tells(m, worker[k].dict)
            BY <1>4, <1>10, <5>1, <5>2, <5>3, AnswerTells DEF job
          <5>5. PICK n \in Nat : DOMAIN inbox' = 1..n /\ n \in 1..n /\ inbox'[n] = m
            <6>1. /\ DOMAIN inbox' = 1..Len(inbox) + 1 /\ Len(inbox) \in Nat
                  /\ inbox'[Len(inbox) + 1] = m
              BY <1>2, <1>9, <1>11, Sent
            <6>2. Len(inbox) + 1 \in Nat /\ Len(inbox) + 1 \in 1..Len(inbox) + 1 BY <6>1
            <6> QED BY <6>1, <6>2
          <5>6. n \in Answers(k)' BY <1>4, <1>10, <5>5 DEF Answers
          <5>7. \A j \in Answers(k)' : j <= n BY <5>5 DEF Answers
          <5>8. Tells(inbox[n], worker[k].dict)'
            <6>1. Tells(m, worker[k].dict)' BY <1>8, <3>2, <3>3, <5>4 DEF Tells
            <6> QED BY <5>5, <6>1
          <5> QED BY <1>8, <3>2, <4>3, <5>6, <5>7, <5>8 DEF Final
        <4> QED BY <4>2, <4>3
      <3>5. \E n \in Message : Sends(n) /\ n.from = k BY <1>9, <1>10, <1>11
      <3> QED BY <1>2, <1>7, <1>8, <3>1, <3>4, <3>5, LastSettled DEF LInv
    <2>2. CASE ~(window.open /\ window.last # NoWorker)
      BY <1>7, <2>2 DEF Settled, OfWorker
    <2> QED BY <2>1, <2>2
  <1> QED BY <1>14, <1>15
\* The rest of the window, and what is in the channel, are as they were.
LEMMA MovedSettled ==
    ASSUME LInv, MoveCursor
    PROVE  Running' /\ Settled'
  <1>1. PICK a \in {AreaLeft(window.body), AreaRight(window.body),
                    AreaUp(window.body), AreaDown(window.body)} :
            window' = [window EXCEPT !.body = a]
    BY DEF MoveCursor
  <1>2. UNCHANGED <<layout, nextId, edits, handle, worker, inbox>> BY DEF MoveCursor
  <1>3. window \in Window BY DEF LInv, IInv, Typed
  <1>4. a.lines = window.body.lines
    <2>1. window.body \in Area BY <1>3, WindowParts
    <2> QED BY <2>1, MovesOK
  <1>5. /\ window'.open = window.open /\ window'.id = window.id /\ window'.at = window.at
        /\ window'.last = window.last /\ window'.flags = window.flags
        /\ window'.body.lines = window.body.lines
    BY <1>1, <1>3, <1>4, WindowParts
  <1>6. Running' BY <1>2 DEF LInv, Running, HasStarted
  <1>7. LastLine' = LastLine BY <1>5 DEF LastLine
  <1>8. ASSUME NEW j PROVE (Owes(j)' <=> Owes(j)) /\ Answers(j)' = Answers(j)
    BY <1>2 DEF Owes, Answers
  <1>9. ASSUME NEW j, Final(j) PROVE Final(j)'
    BY <1>2, <1>5, <1>7, <1>8, <1>9 DEF Final, Covers, Tells
  <1>10. Settled'
    <2> SUFFICES ASSUME window.open, window.last # NoWorker PROVE Settled'
      BY <1>5 DEF Settled
    <2>1. /\ window.at \in DOMAIN window.body.lines /\ HasStarted(window.last)
          /\ \A j \in Workers \ {window.last} : ~Owes(j)
          /\ worker[window.last].up => Final(window.last)
      BY DEF LInv, Settled
    <2>2. PICK o : o = window.last OBVIOUS
    <2>3. worker'[o].up => Final(o)' BY <1>2, <1>9, <2>1, <2>2
    <2>4. \A j \in Workers \ {o} : ~Owes(j)' BY <1>8, <2>1, <2>2
    <2>5. HasStarted(o)' BY <1>2, <2>1, <2>2 DEF HasStarted
    <2> QED BY <1>5, <2>1, <2>2, <2>3, <2>4, <2>5 DEF Settled
  <1> QED BY <1>6, <1>10

LEMMA ShutSettled ==
    ASSUME LInv, OpenWindow \/ CloseWindow \/ \E l \in Layouts : SwitchLayout(l)
    PROVE  Running' /\ Settled'
  <1>1. CASE OpenWindow
    <2>1. PICK n \in Workers : n = nextId
      <3>1. nextId \in 1..MaxWindows + 1 /\ nextId <= MaxWindows
        BY <1>1 DEF LInv, IInv, Typed, OpenWindow
      <3>2. nextId \in 1..MaxWindows BY <3>1, Bounds
      <3> QED BY <3>2, Bounds DEF Workers
    <2> DEFINE w == [worker[n] EXCEPT !.pc = "detect"]
    <2>2. worker \in [Workers -> Worker] /\ handle \in Workers \cup {NoWorker}
      BY DEF LInv, IInv, Typed
    <2>3. w.pc = "detect" /\ w.dict = worker[n].dict /\ w.up = worker[n].up /\ w \in Worker
      BY <2>2 DEF Worker
    <2>4. worker' = [worker EXCEPT ![n] = w] BY <1>1, <2>1, <2>2 DEF OpenWindow
    <2> HIDE DEF w
    <2>5. /\ worker'[n] = w
          /\ \A j \in Workers : j # n => worker'[j] = worker[j]
      BY <2>2, <2>3, <2>4, WorkerPut
    <2>6. UNCHANGED <<handle, inbox>> BY <1>1 DEF OpenWindow
    <2>7. window'.last = NoWorker
      <3>1. Shut \in Window /\ Shut.last = NoWorker BY ShutOK
      <3>2. window' = [Shut EXCEPT !.open = TRUE, !.id = nextId,
                                   !.kept = \A k \in Workers : ~Looking(k)]
        BY <1>1 DEF OpenWindow
      <3> QED BY <3>1, <3>2, WindowParts
    <2>8. worker[n].pc = "none" /\ ~worker[n].up /\ ~HasStarted(n)
      <3>1. n >= nextId BY <2>1, Bounds DEF Workers
      <3>2. worker[n].pc = "none" BY <3>1 DEF LInv, Running
      <3> QED BY <3>2 DEF LInv, Running, HasStarted
    <2>9. ASSUME NEW j \in Workers
          PROVE  /\ j >= nextId' => worker'[j].pc = "none"
                 /\ worker'[j].up => worker'[j].pc \in {"idle", "busy"} /\ worker'[j].dict # NoDict
                 /\ HasStarted(j) => HasStarted(j)'
      <3>1. CASE j = n
        <4>1. ~(n >= nextId') BY <1>1, <2>1, Bounds DEF OpenWindow, Workers
        <4> QED BY <2>3, <2>5, <2>8, <3>1, <4>1 DEF HasStarted
      <3>2. CASE j # n
        <4>1. j >= nextId' => j >= nextId BY <1>1, <2>1, Bounds DEF OpenWindow, Workers
        <4> QED BY <2>5, <3>2, <4>1 DEF LInv, Running, HasStarted
      <3> QED BY <3>1, <3>2
    <2>10. handle' # NoWorker => HasStarted(handle)'
      BY <2>2, <2>6, <2>9 DEF LInv, Running, HasStarted
    <2>11. ASSUME NEW i \in DOMAIN inbox'
           PROVE  IF inbox'[i].from = NoWorker THEN inbox'[i].kind = "ready"
                  ELSE inbox'[i].kind = "ready" => HasStarted(inbox[i].from)'
      <3>1. inbox[i] \in Message BY <2>6 DEF LInv, IInv, Typed
      <3>2. inbox[i].from \in Workers \cup {NoWorker} BY <3>1 DEF Message
      <3>3. IF inbox[i].from = NoWorker THEN inbox[i].kind = "ready"
            ELSE inbox[i].kind = "ready" => HasStarted(inbox[i].from)
        BY <2>6 DEF LInv, Running
      <3> QED BY <2>6, <2>9, <3>2, <3>3 DEF HasStarted
    <2>12. Running' BY <2>9, <2>10, <2>11 DEF Running
    <2> QED BY <2>7, <2>12 DEF Settled
  <1>2. CASE CloseWindow
    <2>1. UNCHANGED <<nextId, handle, worker, inbox>> /\ window' = Shut
      BY <1>2 DEF CloseWindow
    <2>2. ~window'.open BY <2>1, ShutOK
    <2>3. Running' BY <2>1 DEF LInv, Running, HasStarted
    <2> QED BY <2>2, <2>3 DEF Settled
  <1>3. ASSUME NEW l \in Layouts, SwitchLayout(l) PROVE Running' /\ Settled'
    <2>1. ~window.open /\ UNCHANGED <<window, nextId, handle, worker, inbox>>
      BY <1>3 DEF SwitchLayout
    <2>2. Running' BY <2>1 DEF LInv, Running, HasStarted
    <2> QED BY <2>1, <2>2 DEF Settled
  <1> QED BY <1>1, <1>2, <1>3
\* What an edit asks for tells of the line of the cursor.
LEMMA RequestCovers ==
    ASSUME window' \in Window, window'.at = window'.body.row,
           NEW r, r = FullRequest(window)' \/ r = LineRequest(window)'
    PROVE  Covers(r)'
  <1> DEFINE a == window.body'
             ls == a.lines
             l == Line(a)
             id == window.id'
             row == a.row
  <1>1. /\ ls \in Seq(Seq(Char)) /\ row \in DOMAIN ls /\ l = ls[row]
    <2>1. a \in Area BY WindowParts
    <2> HIDE DEF a
    <2> QED BY <2>1, AreaParts
  <1>2. LastLine' = l BY DEF LastLine, Line
  <1>3. CASE r = FullRequest(window)'
    <2>1. r = [kind |-> "full", id |-> id, row |-> 1, lines |-> ls]
      BY <1>3 DEF FullRequest
    <2>2. r.kind = "full" /\ r.id = id /\ r.lines = ls BY <2>1
    <2> QED BY <1>1, <1>2, <2>2 DEF Covers
  <1>4. CASE r = LineRequest(window)'
    <2>1. r = [kind |-> "line", id |-> id, row |-> row, lines |-> <<l>>]
      BY <1>4 DEF LineRequest
    <2>2. r.kind = "line" /\ r.id = id /\ r.lines = <<l>> /\ r.row = row BY <2>1
    <2> QED BY <1>2, <2>2 DEF Covers
  <1> QED BY <1>3, <1>4

\* The worker that has the handle is asked about that line; it is the last
\* asked if no other worker has anything to say.
LEMMA EditSettled ==
    ASSUME LInv, NEW a \in Area, NEW structural \in BOOLEAN, Edit(a, structural), IInv'
    PROVE  Running' /\ Settled'
  <1> DEFINE words == window.typed \cup AllWords(a)
             last == IF \E k \in Workers \ {handle} : Owes(k) THEN NoWorker ELSE handle
             w == [window EXCEPT !.body = a, !.typed = words, !.at = a.row, !.last = last]
             r == IF structural THEN FullRequest(w) ELSE LineRequest(w)
  <1>1. /\ window' = w /\ Ask(r) /\ UNCHANGED <<layout, nextId, handle, inbox>>
    BY DEF Edit
  <1>2. /\ window \in Window /\ handle \in Workers \cup {NoWorker}
        /\ worker \in [Workers -> Worker] /\ inbox \in Seq(Message)
        /\ worker' \in [Workers -> Worker] /\ window' \in Window
    BY DEF LInv, IInv, Typed
  <1> HIDE DEF last, words
  <1>3. w.body = a /\ w.at = a.row /\ w.last = last BY <1>2, WindowParts
  <1>4. PICK q : q = r OBVIOUS
  <1>5. Covers(q)'
    <2>1. q = FullRequest(window)' \/ q = LineRequest(window)'
      BY <1>1, <1>4 DEF FullRequest, LineRequest
    <2>2. window'.at = window'.body.row BY <1>1, <1>3
    <2> HIDE DEF w, r
    <2> QED BY <1>2, <2>1, <2>2, RequestCovers
  <1>6. Ask(q) BY <1>1, <1>4
  <1> HIDE DEF w, r
  <1>7. ASSUME NEW j \in Workers, j # handle PROVE worker'[j] = worker[j]
    <2>1. CASE handle # NoWorker /\ worker[handle].pc \in {"idle", "busy"}
      BY <1>2, <1>6, <1>7, <2>1 DEF Ask
    <2>2. CASE ~(handle # NoWorker /\ worker[handle].pc \in {"idle", "busy"})
      BY <1>6, <2>2 DEF Ask
    <2> QED BY <2>1, <2>2
  <1>8. ASSUME handle # NoWorker
        PROVE  /\ worker'[handle].pc = worker[handle].pc
               /\ worker'[handle].dict = worker[handle].dict
               /\ worker'[handle].up = worker[handle].up
               /\ worker[handle].pc \in {"idle", "busy"} =>
                      worker'[handle].unseen /\ worker'[handle].req = q
    <2>1. handle \in Workers /\ worker[handle] \in Worker BY <1>2, <1>8
    <2>2. CASE worker[handle].pc \in {"idle", "busy"}
      <3> DEFINE x == [worker[handle] EXCEPT !.req = q, !.unseen = TRUE]
      <3>1. worker' = [worker EXCEPT ![handle] = x] BY <1>2, <1>6, <1>8, <2>1, <2>2 DEF Ask
      <3>2. /\ x.pc = worker[handle].pc /\ x.dict = worker[handle].dict
            /\ x.up = worker[handle].up /\ x.req = q /\ x.unseen = TRUE
        BY <2>1, WorkerParts
      <3> HIDE DEF x
      <3>3. worker'[handle] = x BY <1>2, <2>1, <3>1
      <3> QED BY <3>2, <3>3
    <2>3. CASE worker[handle].pc \notin {"idle", "busy"} BY <1>6, <2>3 DEF Ask
    <2> QED BY <2>2, <2>3
  <1>9. ASSUME NEW j \in Workers
        PROVE  /\ worker'[j].pc = worker[j].pc /\ worker'[j].dict = worker[j].dict
               /\ worker'[j].up = worker[j].up
    <2>1. CASE j = handle
      <3>1. handle # NoWorker BY <2>1, NotAWorker
      <3> QED BY <1>8, <2>1, <3>1
    <2>2. CASE j # handle BY <1>7, <2>2
    <2> QED BY <2>1, <2>2
  <1>10. Running'
    <2>1. \A j \in Workers :
              /\ j >= nextId' => worker'[j].pc = "none"
              /\ worker'[j].up => worker'[j].pc \in {"idle", "busy"} /\ worker'[j].dict # NoDict
              /\ HasStarted(j) => HasStarted(j)'
      BY <1>1, <1>9 DEF LInv, Running, HasStarted
    <2>2. handle' # NoWorker => HasStarted(handle)'
      BY <1>1, <1>2, <1>9 DEF LInv, Running, HasStarted
    <2>3. ASSUME NEW i \in DOMAIN inbox'
          PROVE  IF inbox'[i].from = NoWorker THEN inbox'[i].kind = "ready"
                 ELSE inbox'[i].kind = "ready" => HasStarted(inbox[i].from)'
      <3>1. inbox[i] \in Message BY <1>1, <1>2
      <3>2. inbox[i].from \in Workers \cup {NoWorker} BY <3>1 DEF Message
      <3>3. IF inbox[i].from = NoWorker THEN inbox[i].kind = "ready"
            ELSE inbox[i].kind = "ready" => HasStarted(inbox[i].from)
        BY <1>1 DEF LInv, Running
      <3> QED BY <1>1, <2>1, <3>2, <3>3 DEF HasStarted
    <2> QED BY <2>1, <2>2, <2>3 DEF Running
  <1>11. Settled'
    <2> SUFFICES ASSUME last # NoWorker PROVE Settled'
      BY <1>1, <1>3 DEF Settled
    <2>1. last = handle /\ handle # NoWorker /\ \A j \in Workers \ {handle} : ~Owes(j)
      BY DEF last
    <2>2. PICK o \in Workers : o = handle BY <1>2, <2>1
    <2>3. window'.last = o BY <1>1, <1>3, <2>1, <2>2
    <2>4. window'.at \in DOMAIN window'.body.lines
      <3>1. a.row \in DOMAIN a.lines BY AreaParts
      <3> QED BY <1>1, <1>3, <3>1
    <2>5. HasStarted(o) BY <2>1, <2>2 DEF LInv, Running
    <2>6. HasStarted(o)' BY <1>9, <2>5 DEF HasStarted
    <2>7. \A j \in Workers \ {o} : ~Owes(j)'
      <3> TAKE j \in Workers \ {o}
      <3>1. worker'[j] = worker[j] /\ Answers(j)' = Answers(j)
        BY <1>1, <1>7, <2>2 DEF Answers
      <3> QED BY <2>1, <2>2, <3>1 DEF Owes
    <2>8. worker'[o].up => Final(o)'
      <3> SUFFICES ASSUME worker'[o].up PROVE Final(o)' OBVIOUS
      <3>1. worker[o].pc \in {"idle", "busy"} BY <1>9 DEF LInv, Running
      <3>2. worker'[o].unseen /\ worker'[o].req = q BY <1>8, <2>1, <2>2, <3>1
      <3>3. Covers(worker[o].req)' BY <1>5, <3>2 DEF Covers
      <3> QED BY <3>2, <3>3 DEF Final
    <2> QED BY <2>3, <2>4, <2>6, <2>7, <2>8 DEF Settled
  <1> QED BY <1>10, <1>11
\* A line that is set is there, with its words.
LEMMA SetLineAt ==
    ASSUME NEW flags \in Seq(Words), NEW row \in Row, NEW words
    PROVE  /\ row \in DOMAIN SetLine(flags, row, words)
           /\ SetLine(flags, row, words)[row] = words
  <1>1. row \in Nat \ {0} /\ Len(flags) \in Nat BY Bounds DEF Row
  <1> DEFINE n == Max({row, Len(flags)})
  <1>2. n = IF row >= Len(flags) THEN row ELSE Len(flags) BY <1>1, MaxOfTwo
  <1> HIDE DEF n
  <1>3. row \in 1..n BY <1>1, <1>2
  <1>4. SetLine(flags, row, words) =
            [i \in 1..n |->
                IF i = row THEN words ELSE IF i \in DOMAIN flags THEN flags[i] ELSE {}]
    BY DEF SetLine, n
  <1> QED BY <1>3, <1>4

\* The last answer about the line is the last to be taken, and is for the
\* window.
LEMMA ApplySettled ==
    ASSUME LInv, Apply
    PROVE  Running' /\ Settled'
  <1>1. PICK m : m = Head(inbox) OBVIOUS
  <1>2. /\ inbox # <<>> /\ inbox' = Tail(inbox)
        /\ UNCHANGED <<layout, nextId, edits, worker>>
        /\ \/ m.kind = "ready" /\ handle' = m.from /\ window' = window
           \/ /\ m.kind \in {"line", "full"} /\ handle' = handle
              /\ ~IsFor(m, window) /\ window' = window
           \/ /\ m.kind = "line" /\ handle' = handle /\ IsFor(m, window)
              /\ window' = [window EXCEPT !.flags = SetLine(@, m.row, m.flags[1])]
           \/ /\ m.kind = "full" /\ handle' = handle /\ IsFor(m, window)
              /\ window' = [window EXCEPT !.flags = m.flags]
    BY <1>1 DEF Apply
  <1>3. /\ inbox \in Seq(Message) /\ window \in Window
        /\ handle \in Workers \cup {NoWorker} /\ worker \in [Workers -> Worker]
    BY DEF LInv, IInv, Typed
  <1>4. /\ DOMAIN inbox = 1..Len(inbox) /\ Len(inbox) \in Nat \ {0}
        /\ DOMAIN inbox' = 1..Len(inbox) - 1
        /\ \A i \in 1..Len(inbox) - 1 : inbox'[i] = inbox[i + 1]
        /\ m = inbox[1] /\ m \in Message
    BY <1>1, <1>2, <1>3
  <1>5. \A i \in DOMAIN inbox' : i + 1 \in DOMAIN inbox /\ inbox'[i] = inbox[i + 1]
    BY <1>4
  <1>6. 1 \in DOMAIN inbox BY <1>4
  <1>7. /\ m.kind \in {"ready", "line", "full"} /\ m.from \in Workers \cup {NoWorker}
        /\ m.kind # "ready" => m.row \in Row
    BY <1>4, MessageParts
  <1>8. Running'
    <2>1. ASSUME NEW j PROVE HasStarted(j)' <=> HasStarted(j) BY <1>2 DEF HasStarted
    <2>2. IF m.from = NoWorker THEN m.kind = "ready"
          ELSE m.kind = "ready" => HasStarted(m.from)
      BY <1>4, <1>6 DEF LInv, Running
    <2>3. handle' # NoWorker => HasStarted(handle)'
      <3>1. CASE handle' = handle
        BY <1>2, <2>1, <3>1 DEF LInv, Running, HasStarted
      <3>2. CASE m.kind = "ready" /\ handle' = m.from
        BY <1>2, <2>2, <3>2 DEF HasStarted
      <3> QED BY <1>2, <3>1, <3>2
    <2>4. ASSUME NEW i \in DOMAIN inbox'
          PROVE  IF inbox'[i].from = NoWorker THEN inbox'[i].kind = "ready"
                 ELSE inbox'[i].kind = "ready" => HasStarted(inbox[i].from)'
      <3>1. i + 1 \in DOMAIN inbox /\ inbox'[i] = inbox[i + 1] BY <1>5
      <3>2. IF inbox[i + 1].from = NoWorker THEN inbox[i + 1].kind = "ready"
            ELSE inbox[i + 1].kind = "ready" => HasStarted(inbox[i + 1].from)
        BY <3>1 DEF LInv, Running
      <3> QED BY <1>2, <3>1, <3>2 DEF HasStarted
    <2>5. \A j \in Workers :
              /\ j >= nextId' => worker'[j].pc = "none"
              /\ worker'[j].up => worker'[j].pc \in {"idle", "busy"} /\ worker'[j].dict # NoDict
      BY <1>2 DEF LInv, Running
    <2> QED BY <2>3, <2>4, <2>5 DEF Running
  <1>9. /\ window'.open = window.open /\ window'.id = window.id /\ window'.at = window.at
        /\ window'.last = window.last /\ window'.body = window.body
    BY <1>2, <1>3, WindowParts
  <1>10. ASSUME NEW j, NEW i
         PROVE  i \in Answers(j)' <=> i \in DOMAIN inbox' /\ i + 1 \in Answers(j)
    BY <1>5 DEF Answers
  <1>11. Settled'
    <2> SUFFICES ASSUME window.open, window.last # NoWorker PROVE Settled'
      BY <1>9 DEF Settled
    <2>1. PICK o \in Workers : o = window.last
      <3>1. window.last \in Workers \cup {NoWorker} BY <1>3, WindowParts
      <3> QED BY <3>1
    <2>2. /\ window.at \in DOMAIN window.body.lines /\ HasStarted(o)
          /\ \A j \in Workers \ {o} : ~Owes(j)
          /\ worker[o].up => Final(o)
      BY <2>1 DEF LInv, Settled
    <2>3. HasStarted(o)' BY <1>2, <2>2 DEF HasStarted
    <2>4. \A j \in Workers \ {o} : ~Owes(j)'
      BY <1>2, <1>10, <2>2 DEF Owes
    <2>5. LastLine' = LastLine BY <1>9 DEF LastLine
    <2>6. ASSUME Final(o) PROVE Final(o)'
      <3>1. CASE worker[o].unseen /\ Covers(worker[o].req)
        BY <1>2, <1>9, <2>5, <3>1 DEF Final, Covers
      <3>2. CASE ~worker[o].unseen /\ worker[o].pc = "busy" /\ Covers(worker[o].job)
        BY <1>2, <1>9, <2>5, <3>2 DEF Final, Covers
      <3>3. ASSUME ~worker[o].unseen, worker[o].pc # "busy", NEW i \in Answers(o),
                   Tells(inbox[i], worker[o].dict), \A j \in Answers(o) : j <= i
            PROVE  Final(o)'
        <4>1. i \in DOMAIN inbox /\ i \in 1..Len(inbox) BY <1>4 DEF Answers
        <4>2. CASE i > 1
          <5>1. PICK n \in Nat : n + 1 = i /\ n \in DOMAIN inbox'
            <6>1. i - 1 \in Nat /\ (i - 1) + 1 = i /\ i - 1 \in DOMAIN inbox'
              BY <1>4, <4>1, <4>2
            <6> QED BY <6>1
          <5>2. n \in Answers(o)' BY <1>10, <3>3, <5>1
          <5>3. ASSUME NEW j \in Answers(o)' PROVE j <= n
            <6>1. j \in DOMAIN inbox' /\ j + 1 \in Answers(o) BY <1>10
            <6>2. j + 1 <= i BY <3>3, <6>1
            <6>3. j \in Nat BY <1>4, <6>1
            <6> QED BY <5>1, <6>2, <6>3
          <5>4. inbox'[n] = inbox[i] BY <1>5, <5>1
          <5>5. Tells(inbox[n], worker[o].dict)'
            BY <1>2, <1>9, <2>5, <3>3, <5>4 DEF Tells
          <5> QED BY <1>2, <3>3, <5>2, <5>3, <5>5 DEF Final
        <4>3. CASE ~(i > 1)
          <5>1. i = 1 BY <4>1, <4>3
          <5>2. Answers(o)' = {}
            <6>1. ASSUME NEW j \in Answers(o)' PROVE FALSE
              <7>1. j \in DOMAIN inbox' /\ j + 1 \in Answers(o) BY <1>10
              <7>2. j + 1 <= 1 BY <3>3, <5>1, <7>1
              <7> QED BY <1>4, <7>1, <7>2
            <6> QED BY <6>1
          <5>3. m.kind \in {"line", "full"} /\ Tells(m, worker[o].dict)
            BY <1>4, <3>3, <5>1 DEF Answers
          <5>4. IsFor(m, window) BY <5>3 DEF IsFor, Tells
          <5>5. /\ window.at \in DOMAIN window'.flags
                /\ window'.flags[window.at] = Flagged(worker[o].dict, LastLine)
            <6>1. CASE m.kind = "line"
              <7>1. m.row = window.at /\ m.flags[1] = Flagged(worker[o].dict, LastLine)
                BY <5>3, <6>1 DEF Tells
              <7>2. window' = [window EXCEPT !.flags = SetLine(@, m.row, m.flags[1])]
                BY <1>2, <5>4, <6>1
              <7>3. window'.flags = SetLine(window.flags, m.row, m.flags[1])
                BY <1>3, <7>2, WindowParts
              <7>4. window.flags \in Seq(Words) /\ m.row \in Row
                BY <1>3, <1>7, <6>1, WindowParts
              <7> QED BY <7>1, <7>3, <7>4, SetLineAt
            <6>2. CASE m.kind = "full"
              <7>1. /\ window.at \in DOMAIN m.flags
                    /\ m.flags[window.at] = Flagged(worker[o].dict, LastLine)
                BY <5>3, <6>2 DEF Tells
              <7>2. window' = [window EXCEPT !.flags = m.flags] BY <1>2, <5>4, <6>2
              <7>3. window'.flags = m.flags BY <1>3, <7>2, WindowParts
              <7> QED BY <7>1, <7>3
            <6> QED BY <5>3, <6>1, <6>2
          <5> QED BY <1>2, <1>9, <2>5, <3>3, <5>2, <5>5 DEF Final
        <4> QED BY <4>2, <4>3
      <3>4. ASSUME ~worker[o].unseen, worker[o].pc # "busy", Answers(o) = {},
                   window.at \in DOMAIN window.flags,
                   window.flags[window.at] = Flagged(worker[o].dict, LastLine)
            PROVE  Final(o)'
        <4>1. m.kind = "ready"
          <5>1. ASSUME m.kind \in {"line", "full"} PROVE FALSE
            <6>1. m.from # NoWorker BY <1>4, <1>6, <5>1 DEF LInv, Running
            <6>2. m.from \in Workers BY <1>7, <6>1
            <6>3. 1 \in Answers(m.from) BY <1>4, <1>6, <5>1 DEF Answers
            <6>4. CASE m.from = o BY <3>4, <6>3, <6>4
            <6>5. CASE m.from # o BY <2>2, <6>2, <6>3, <6>5 DEF Owes
            <6> QED BY <6>4, <6>5
          <5> QED BY <1>7, <5>1
        <4>2. window' = window BY <1>2, <4>1
        <4>3. Answers(o)' = {} BY <1>10, <3>4
        <4> QED BY <1>2, <2>5, <3>4, <4>2, <4>3 DEF Final
      <3> QED BY <2>6, <3>1, <3>2, <3>3, <3>4 DEF Final
    <2>7. worker'[o].up => Final(o)' BY <1>2, <2>2, <2>6
    <2> QED BY <1>9, <2>1, <2>2, <2>3, <2>4, <2>7 DEF Settled
  <1> QED BY <1>8, <1>11

----------------------------------------------------------------------------
(* What is underlined *)

LEMMA Middle ==
    ASSUME NEW S, NEW s \in Seq(S), NEW a \in 0..Len(s), NEW b \in a..Len(s)
    PROVE  /\ SubSeq(s, a + 1, b) \in Seq(S) /\ Len(SubSeq(s, a + 1, b)) = b - a
           /\ DOMAIN SubSeq(s, a + 1, b) = 1..b - a
           /\ \A k \in 1..b - a : SubSeq(s, a + 1, b)[k] = s[k + a]
  OBVIOUS

\* The middle of the middle of a list.
LEMMA MiddleOfMiddle ==
    ASSUME NEW S, NEW s \in Seq(S), NEW a \in 0..Len(s), NEW b \in a..Len(s),
           NEW c \in 0..b - a, NEW d \in c..b - a
    PROVE  SubSeq(SubSeq(s, a + 1, b), c + 1, d) = SubSeq(s, (a + c) + 1, a + d)
  <1> DEFINE m == SubSeq(s, a + 1, b)
             u == SubSeq(m, c + 1, d)
             v == SubSeq(s, (a + c) + 1, a + d)
  <1>1. /\ Len(s) \in Nat /\ a + c \in 0..Len(s) /\ a + d \in a + c..Len(s)
        /\ {a, b, c, d, d - c} \subseteq Nat /\ (a + d) - (a + c) = d - c
    OBVIOUS
  <1>2. /\ m \in Seq(S) /\ Len(m) = b - a
        /\ \A k \in 1..b - a : m[k] = s[k + a]
    BY Middle
  <1> HIDE DEF m
  <1>3. /\ u \in Seq(S) /\ DOMAIN u = 1..d - c /\ Len(u) = d - c
        /\ \A k \in 1..d - c : u[k] = m[k + c]
    <2>1. c \in 0..Len(m) /\ d \in c..Len(m) BY <1>2
    <2> QED BY <1>2, <2>1, Middle
  <1>4. /\ v \in Seq(S) /\ DOMAIN v = 1..d - c /\ Len(v) = d - c
        /\ \A k \in 1..d - c : v[k] = s[k + (a + c)]
    BY <1>1, Middle
  <1> HIDE DEF u, v
  <1>5. ASSUME NEW k \in 1..d - c PROVE u[k] = v[k]
    <2>1. k + c \in 1..b - a /\ (k + c) + a = k + (a + c) BY <1>1
    <2> QED BY <1>2, <1>3, <1>4, <2>1
  <1>6. u \in [1..d - c -> S] /\ v \in [1..d - c -> S] BY <1>3, <1>4
  <1>7. u = v BY <1>5, <1>6
  <1> QED BY <1>7 DEF u, v, m

\* What is typed between two blanks, without what is around its letters, is
\* one of the words hunspell tells apart, if it is a word at all.
LEMMA TokenIsRun ==
    ASSUME NEW line \in Seq(Char), NEW t \in Tokens(line),
           Word(line, t) \in Seq(Letter), Word(line, t) # <<>>
    PROVE  Word(line, t) \in Runs(line)
  <1>1. /\ t \in (0..Len(line)) \X (1..Len(line)) /\ t[1] < t[2]
        /\ t[1] > 0 => line[t[1]] = Blank
        /\ t[2] < Len(line) => line[t[2] + 1] = Blank
    BY DEF Tokens
  <1> DEFINE i == t[1]
             j == t[2]
             s == SubSeq(line, i + 1, j)
             at == {k \in 1..Len(s) : s[k] \in Letter}
             lo == Min(at)
             hi == Max(at)
             w == Word(line, t)
  <1>2. /\ i \in 0..Len(line) /\ j \in 1..Len(line) /\ Len(line) \in Nat /\ i < j
        /\ i > 0 => line[i] = Blank
        /\ j < Len(line) => line[j + 1] = Blank
    BY <1>1
  <1>3. w = IF at = {} THEN <<>> ELSE SubSeq(s, lo, hi) BY DEF Word, Normalize
  <1>4. w \in Seq(Letter) /\ w # <<>> OBVIOUS
  <1> HIDE DEF i, j, w
  <1>5. /\ s \in Seq(Char) /\ Len(s) = j - i /\ i \in 0..Len(line) /\ j \in i..Len(line)
        /\ \A k \in 1..j - i : s[k] = line[k + i]
    <2>1. i \in 0..Len(line) /\ j \in i..Len(line) BY <1>2
    <2> QED BY <2>1, Middle
  <1>6. at # {} BY <1>3, <1>4
  <1>7. Len(s) \in Nat /\ at \in SUBSET Nat /\ \A k \in at : k <= Len(s)
    <2>1. Len(s) \in Nat BY <1>5
    <2> DEFINE n == Len(s)
    <2>2. n \in Nat /\ at \subseteq 1..n BY <2>1
    <2> HIDE DEF n, at
    <2>3. at \in SUBSET Nat /\ \A k \in at : k <= n BY <2>2
    <2> QED BY <2>1, <2>3 DEF n
  <1>8. lo \in at /\ hi \in at /\ \A k \in at : lo <= k /\ k <= hi
    BY <1>6, <1>7, MinOfNaturals, MaxOfNaturals
  <1>9. \A k : k \in at <=> k \in 1..Len(s) /\ s[k] \in Letter OBVIOUS
  <1>10. w = SubSeq(s, lo, hi) BY <1>3, <1>6
  <1> HIDE DEF at, lo, hi
  <1> DEFINE a == i + (lo - 1)
             b == i + hi
  <1>11. /\ lo \in 1..j - i /\ hi \in 1..j - i /\ lo <= hi /\ {i, j, lo, hi} \subseteq Nat
         /\ lo - 1 \in 0..j - i /\ hi \in lo - 1..j - i /\ (lo - 1) + 1 = lo
         /\ a \in 0..Len(line) /\ b \in 1..Len(line) /\ a < b /\ b \in a..Len(line)
         /\ b - a = hi - (lo - 1)
    <2>1. lo \in 1..j - i /\ hi \in 1..j - i /\ lo <= hi BY <1>5, <1>8, <1>9
    <2> QED BY <1>2, <2>1
  <1>12. w = SubSeq(line, a + 1, b)
    <2>1. SubSeq(s, (lo - 1) + 1, hi) = SubSeq(line, (i + (lo - 1)) + 1, i + hi)
      BY <1>5, <1>11, MiddleOfMiddle
    <2> QED BY <1>10, <1>11, <2>1
  <1> HIDE DEF s
  <1>13. \A k \in a + 1..b : line[k] \in Letter
    <2>0. /\ a \in Nat /\ b \in Nat /\ Len(line) \in Nat
          /\ a \in 0..Len(line) /\ b \in a..Len(line)
      BY <1>2, <1>11
    <2> HIDE DEF a, b
    <2> TAKE k \in a + 1..b
    <2>1. k - a \in 1..b - a /\ (k - a) + a = k BY <2>0
    <2>2. SubSeq(line, a + 1, b)[k - a] = line[k] /\ Len(SubSeq(line, a + 1, b)) = b - a
      BY <2>0, <2>1, Middle
    <2>3. Len(w) = b - a /\ w[k - a] = line[k] BY <1>12, <2>2
    <2>4. w[k - a] \in Letter BY <1>4, <2>1, <2>3
    <2> QED BY <2>3, <2>4
  <1>14. Blank \notin Letter BY SpellCheckAssumption
  <1>15. a > 0 => line[a] \notin Letter
    <2>1. CASE lo = 1 BY <1>2, <1>11, <1>14, <2>1
    <2>2. CASE lo # 1
      <3>1. lo - 1 \in 1..j - i /\ ~(lo <= lo - 1) /\ (lo - 1) + i = a BY <1>11, <2>2
      <3>2. lo - 1 \notin at BY <1>8, <3>1
      <3>3. s[lo - 1] \notin Letter BY <1>5, <1>9, <3>1, <3>2
      <3> QED BY <1>5, <3>1, <3>3
    <2> QED BY <2>1, <2>2
  <1>16. b < Len(line) => line[b + 1] \notin Letter
    <2>1. CASE hi = j - i
      <3>1. b = j BY <1>11, <2>1
      <3> QED BY <1>2, <1>14, <3>1
    <2>2. CASE hi # j - i
      <3>1. hi + 1 \in 1..j - i /\ ~(hi + 1 <= hi) /\ (hi + 1) + i = b + 1 BY <1>11, <2>2
      <3>2. hi + 1 \notin at BY <1>8, <3>1
      <3>3. s[hi + 1] \notin Letter BY <1>5, <1>9, <3>1, <3>2
      <3> QED BY <1>5, <3>1, <3>3
    <2> QED BY <2>1, <2>2
  <1>17. SubSeq(line, a + 1, b) \in Runs(line)
    <2> HIDE DEF a, b
    <2> DEFINE u == <<a, b>>
    <2>1. u \in (0..Len(line)) \X (1..Len(line)) /\ u[1] = a /\ u[2] = b BY <1>11
    <2> HIDE DEF u
    <2>2. /\ u[1] < u[2]
          /\ \A k \in u[1] + 1..u[2] : line[k] \in Letter
          /\ u[1] > 0 => line[u[1]] \notin Letter
          /\ u[2] < Len(line) => line[u[2] + 1] \notin Letter
      BY <1>11, <1>13, <1>15, <1>16, <2>1
    <2> QED BY <2>1, <2>2 DEF Runs
  <1> QED BY <1>12, <1>17 DEF w

\* So what is underlined, or told of at the cursor, is what the dictionary
\* does not know.
LEMMA FlaggedIsMisspelt ==
    ASSUME NEW d \in Dict, NEW line \in Seq(Char), NEW t \in Tokens(line)
    PROVE  Word(line, t) \in Flagged(d, line) <=> Word(line, t) \in Misspelt[d]
  <1>1. Misspelt[d] \subseteq Seq(Letter) \ {<<>>} BY MisspeltAssumption
  <1>2. ASSUME Word(line, t) \in Misspelt[d] PROVE Word(line, t) \in Runs(line)
    <2>1. Word(line, t) \in Seq(Letter) /\ Word(line, t) # <<>> BY <1>1, <1>2
    <2> QED BY <2>1, TokenIsRun
  <1> QED BY <1>2 DEF Flagged

LEMMA AtCursor ==
    ASSUME NEW line \in Seq(Char), NEW col \in Nat
    PROVE  WordAt(line, col) = <<>> \/ \E t \in Tokens(line) : WordAt(line, col) = Word(line, t)
  <1> DEFINE near == {t \in Tokens(line) : t[1] <= col /\ col <= t[2]}
             first(t) == \A u \in near : t[1] <= u[1]
  <1>1. WordAt(line, col) =
            IF near = {} THEN <<>> ELSE Word(line, CHOOSE t \in near : first(t))
    BY DEF WordAt
  <1>2. ASSUME near # {} PROVE \E t \in near : first(t)
    <2> DEFINE starts == {t[1] : t \in near}
    <2>1. \A t \in near : t[1] \in Nat
      <3>1. \A t \in Tokens(line) : t \in (0..Len(line)) \X (1..Len(line)) BY DEF Tokens
      <3>2. \A t \in (0..Len(line)) \X (1..Len(line)) : t[1] \in Nat OBVIOUS
      <3> QED BY <3>1, <3>2
    <2>2. starts \in SUBSET Nat BY <2>1
    <2>3. starts # {} BY <1>2
    <2> HIDE DEF starts
    <2>4. Min(starts) \in starts /\ \A x \in starts : Min(starts) <= x
      BY <2>2, <2>3, MinOfNaturals
    <2> HIDE DEF near
    <2> QED BY <2>4 DEF starts
  <1>3. ASSUME near # {}
        PROVE  (CHOOSE t \in near : first(t)) \in near
    <2> HIDE DEF near, first
    <2> QED BY <1>2, <1>3
  <1>4. near \subseteq Tokens(line) OBVIOUS
  <1> HIDE DEF near, first
  <1> QED BY <1>1, <1>3, <1>4

----------------------------------------------------------------------------
(* The theorems *)

LEMMA NextInv ==
    ASSUME IInv, [Next]_vars
    PROVE  IInv'
  <1>1. CASE Next
    <2>1. CASE OpenWindow BY <2>1, OpenWindowInv
    <2>2. CASE CloseWindow BY <2>2, CloseWindowInv
    <2>3. ASSUME NEW a \in Area, Len(a.lines) <= Len(window.body.lines) + 1,
                 NEW b \in BOOLEAN, Edit(a, b)
          PROVE  IInv'
      BY <2>3, EditInv
    <2>4. window.body \in Area /\ Len(window.body.lines) \in Nat
      <3>1. window \in Window BY DEF IInv, Typed
      <3> QED BY <3>1, WindowParts, AreaParts
    <2>5. ASSUME NEW c \in Char, Insert(c) PROVE IInv'
      <3>1. /\ AreaInsert(window.body, c) \in Area
            /\ Len(AreaInsert(window.body, c).lines) = Len(window.body.lines)
        BY <2>4, AreaInsertOK
      <3>2. Len(AreaInsert(window.body, c).lines) <= Len(window.body.lines) + 1
        BY <2>4, <3>1
      <3>3. Edit(AreaInsert(window.body, c), FALSE) BY <2>5 DEF Insert
      <3> QED BY <2>3, <3>1, <3>2, <3>3
    <2>6. CASE Newline
      <3>1. /\ AreaNewline(window.body) \in Area
            /\ Len(AreaNewline(window.body).lines) = Len(window.body.lines) + 1
        BY <2>4, AreaNewlineOK
      <3>2. Len(AreaNewline(window.body).lines) <= Len(window.body.lines) + 1
        BY <2>4, <3>1
      <3>3. Edit(AreaNewline(window.body), TRUE) BY <2>6 DEF Newline
      <3> QED BY <2>3, <3>1, <3>2, <3>3
    <2>7. CASE Backspace
      <3>1. /\ AreaBackspace(window.body) \in Area
            /\ Len(AreaBackspace(window.body).lines) <= Len(window.body.lines)
        BY <2>4, AreaBackspaceOK
      <3>2. Len(AreaBackspace(window.body).lines) <= Len(window.body.lines) + 1
        <4>1. Len(AreaBackspace(window.body).lines) \in Nat BY <3>1, AreaParts
        <4> QED BY <2>4, <3>1, <4>1
      <3>3. Edit(AreaBackspace(window.body), Joins(window.body)) BY <2>7 DEF Backspace
      <3>4. Joins(window.body) \in BOOLEAN BY DEF Joins
      <3> QED BY <2>3, <3>1, <3>2, <3>3, <3>4
    <2>8. CASE MoveCursor BY <2>8, MoveCursorInv
    <2>9. ASSUME NEW l \in Layouts, SwitchLayout(l) PROVE IInv' BY <2>9, SwitchLayoutInv
    <2>10. ASSUME NEW k \in Workers,
                  \/ Detect(k) \/ Spawn(k) \/ Take(k) \/ Answer(k)
                  \/ HunspellExits(k) \/ Fail(k) \/ LetGo(k)
           PROVE  IInv'
      BY <2>10, DetectInv, SpawnInv, TakeInv, AnswerInv, HunspellExitsInv, FailInv, LetGoInv
    <2>11. CASE Apply BY <2>11, ApplyInv
    <2> QED BY <1>1, <2>1, <2>2, <2>5, <2>6, <2>7, <2>8, <2>9, <2>10, <2>11
            DEF Next, Key, Background
  <1>2. CASE UNCHANGED vars
    BY <1>2 DEF vars, IInv, Typed, Fresh, Own, Asked, Told, OwnWords, Current, Wanted, Looking,
                Arrives, Right
  <1> QED BY <1>1, <1>2

LEMMA NextLatest ==
    ASSUME LInv, [Next]_vars
    PROVE  LInv'
  <1>1. IInv' BY NextInv DEF LInv
  <1>2. CASE Next
    <2> SUFFICES Running' /\ Settled' BY <1>1 DEF LInv
    <2>1. CASE OpenWindow BY <2>1, ShutSettled
    <2>2. CASE CloseWindow BY <2>2, ShutSettled
    <2>3. ASSUME NEW a \in Area, NEW b \in BOOLEAN, Edit(a, b) PROVE Running' /\ Settled'
      BY <1>1, <2>3, EditSettled
    <2>4. window.body \in Area
      <3>1. window \in Window BY DEF LInv, IInv, Typed
      <3> QED BY <3>1, WindowParts
    <2>5. ASSUME NEW c \in Char, Insert(c) PROVE Running' /\ Settled'
      <3>1. AreaInsert(window.body, c) \in Area BY <2>4, AreaInsertOK
      <3> QED BY <2>3, <2>5, <3>1 DEF Insert
    <2>6. CASE Newline
      <3>1. AreaNewline(window.body) \in Area BY <2>4, AreaNewlineOK
      <3> QED BY <2>3, <2>6, <3>1 DEF Newline
    <2>7. CASE Backspace
      <3>1. AreaBackspace(window.body) \in Area BY <2>4, AreaBackspaceOK
      <3>2. Joins(window.body) \in BOOLEAN BY DEF Joins
      <3> QED BY <2>3, <2>7, <3>1, <3>2 DEF Backspace
    <2>8. CASE MoveCursor BY <2>8, MovedSettled
    <2>9. CASE \E l \in Layouts : SwitchLayout(l) BY <2>9, ShutSettled
    <2>10. ASSUME NEW k \in Workers,
                  \/ Detect(k) \/ Spawn(k) \/ Take(k) \/ Answer(k)
                  \/ HunspellExits(k) \/ Fail(k) \/ LetGo(k)
           PROVE  Running' /\ Settled'
      <3>1. CASE Fail(k) BY <3>1, EndedSettled DEF Fail
      <3>2. CASE LetGo(k) BY <3>2, EndedSettled DEF LetGo
      <3> QED BY <2>10, <3>1, <3>2, DetectSettled, SpawnSettled, TakeSettled, AnswerSettled,
                 HunspellExitsSettled
    <2>11. CASE Apply BY <2>11, ApplySettled
    <2> QED BY <1>2, <2>1, <2>2, <2>5, <2>6, <2>7, <2>8, <2>9, <2>10, <2>11
            DEF Next, Key, Background
  <1>3. CASE UNCHANGED vars
    BY <1>1, <1>3 DEF vars, LInv, Running, HasStarted, Settled, Final, Covers, Tells, LastLine,
                      Answers, Owes
  <1> QED BY <1>2, <1>3

\* Spec keeps the invariant: the types, the ids that are new, the words that
\* are on their way to a window and the handle that will be the last to come.
THEOREM SpecInv == Spec => []IInv
  <1>1. Init => IInv BY InitInv
  <1>2. IInv /\ [Next]_vars => IInv' BY NextInv
  <1> QED BY <1>1, <1>2, PTL DEF Spec

\* With any number of windows, edits, layouts and dictionaries, the cursor
\* stays in the text, there are no more flags than lines can have been, and a
\* worker only checks rows there can be (editable.rs, set_line_misspellings).
THEOREM SpecTypeOK == Spec => []TypeOK
  <1>1. IInv => TypeOK
    <2> SUFFICES ASSUME IInv PROVE TypeOK OBVIOUS
    <2>1. Typed BY DEF IInv
    <2>2. window \in Window BY <2>1 DEF Typed
    <2>3. AreaOK(window.body, Char) BY <2>2, WindowParts DEF Area
    <2>4. \A i \in DOMAIN window.flags : window.flags[i] \subseteq Seq(Letter)
      <3> DEFINE f == window.flags
      <3>1. f \in Seq(Words) BY <2>2, WindowParts
      <3> HIDE DEF f
      <3>2. \A i \in DOMAIN f : f[i] \in Words BY <3>1
      <3> QED BY <3>2 DEF f, Words
    <2>5. window.last \in Workers \cup {NoWorker} BY <2>2, WindowParts
    <2>6. ASSUME NEW k \in Workers
          PROVE  /\ worker[k].pc \in {"none", "detect", "spawn", "idle", "busy", "ended"}
                 /\ worker[k].dict \in Dict \cup {NoDict}
                 /\ RequestOK(worker[k].req) /\ RequestOK(worker[k].job)
                 /\ worker[k].pc = "busy" => worker[k].job.row \in Row
      <3>1. worker[k] \in Worker BY <2>1 DEF Typed
      <3>2. /\ worker[k].pc \in {"none", "detect", "spawn", "idle", "busy", "ended"}
            /\ worker[k].dict \in Dict \cup {NoDict}
            /\ worker[k].req \in Request /\ worker[k].job \in Request
            /\ worker[k].pc = "busy" => worker[k].job.kind # "none"
        BY <3>1, WorkerParts
      <3>3. RequestOK(worker[k].req) /\ RequestOK(worker[k].job)
        BY <3>2, RequestParts DEF RequestOK
      <3>4. worker[k].pc = "busy" => worker[k].job.row \in Row BY <3>2, RequestParts
      <3> QED BY <3>2, <3>3, <3>4
    <2> QED BY <2>1, <2>3, <2>4, <2>5, <2>6 DEF Typed, TypeOK
  <1> QED BY <1>1, SpecInv, PTL

\* A window never shows a word as misspelt that was not typed in it, however
\* many windows there were before it and however late their answers come
\* ("silently patching text the user never typed", BgMsg::SpellCheckLine).
THEOREM SpecOwnWords == Spec => []OwnWords
  <1>1. IInv => OwnWords BY DEF IInv
  <1> QED BY <1>1, SpecInv, PTL

\* "switching layout before writing a new email is picked up" (main.rs), in
\* whichever order the workers before are let go and their messages arrive.
THEOREM SpecPicksUpLayout == Spec => []PicksUpLayout
  <1>1. IInv => PicksUpLayout
    <2> SUFFICES ASSUME IInv, Quiet, window.open, window.kept
                 PROVE  Right(handle)
      BY DEF PicksUpLayout, Right, Wanted
    <2>1. window.id \in Workers
      <3>1. window.id \in 1..nextId - 1 /\ nextId \in 1..MaxWindows + 1
        BY DEF IInv, Fresh, Typed
      <3> QED BY <3>1, Bounds DEF Workers
    <2>2. inbox = <<>> /\ ~Looking(window.id) BY <2>1 DEF Quiet
    <2>3. Arrives(handle)
      <3>1. DOMAIN inbox = {} BY <2>2
      <3> QED BY <3>1 DEF Arrives
    <2>4. handle \in Workers \cup {NoWorker} BY DEF IInv, Typed
    <2> QED BY <2>2, <2>3, <2>4 DEF IInv, Current
  <1> QED BY <1>1, SpecInv, PTL

\* With any number of windows, workers and edits, and whatever the texts, once
\* all is answered the line last edited shows the words its worker's
\* dictionary does not know, and the popup agrees: the last that worker has to
\* say is always about that line as it is, and no other worker has anything
\* left to say (request_line, request_full, set_line_misspellings).
THEOREM SpecLastEditChecked == Spec => []LastEditChecked
  <1>1. Init => LInv
    <2> SUFFICES ASSUME Init PROVE LInv OBVIOUS
    <2>1. IInv BY InitInv
    <2>2. window = Shut /\ nextId = 1 /\ inbox = <<>> BY DEF Init
    <2>3. Settled BY <2>2, ShutOK DEF Settled
    <2>4. Running
      <3> DEFINE d == DictionaryFor(ActiveLanguage(layout))
                 w == [NotStarted EXCEPT !.pc = "idle", !.up = TRUE, !.dict = d]
      <3>1. handle = IF d = NoDict THEN NoWorker ELSE 0 BY DEF Init
      <3>2. worker = [k \in Workers |-> IF k = handle THEN w ELSE NotStarted] BY DEF Init
      <3>3. NotStarted.pc = "none" /\ ~NotStarted.up BY NotStartedOK
      <3> HIDE DEF d
      <3>4. w.pc = "idle" /\ w.dict = d BY NotStartedOK
      <3> HIDE DEF w
      <3>5. \A k \in Workers : k >= 1 => worker[k].pc = "none"
        <4> TAKE k \in Workers
        <4>1. k >= 1 => k # handle BY <3>1 DEF NoWorker
        <4> QED BY <3>2, <3>3, <4>1
      <3>6. \A k \in Workers :
                worker[k].up => worker[k].pc \in {"idle", "busy"} /\ worker[k].dict # NoDict
        <4> TAKE k \in Workers
        <4>1. CASE k = handle
          <5>1. worker[k] = w BY <3>2, <4>1
          <5>2. d # NoDict BY <3>1, <4>1, NotAWorker
          <5> QED BY <3>4, <5>1, <5>2
        <4>2. CASE k # handle BY <3>2, <3>3, <4>2
        <4> QED BY <4>1, <4>2
      <3>7. handle # NoWorker => HasStarted(handle)
        <4>1. handle # NoWorker => handle \in Workers BY <3>1, NotAWorker
        <4> QED BY <3>2, <3>4, <4>1 DEF HasStarted
      <3>8. DOMAIN inbox = {} BY <2>2
      <3> QED BY <2>2, <3>5, <3>6, <3>7, <3>8 DEF Running
    <2> QED BY <2>1, <2>3, <2>4 DEF LInv
  <1>2. LInv /\ [Next]_vars => LInv' BY NextLatest
  <1>3. LInv => LastEditChecked
    <2> DEFINE k == window.last
               a == window.body
               line == LastLine
               d == worker[k].dict
               word == WordAt(line, a.col)
    <2> SUFFICES ASSUME LInv, Quiet, window.open, k # NoWorker, worker[k].up
                 PROVE  /\ Underlined(window.at) =
                             {t \in Tokens(line) : Word(line, t) \in Misspelt[d]}
                        /\ window.at = a.row =>
                             Popup = IF word \in Misspelt[d] THEN word ELSE <<>>
      BY DEF LastEditChecked, LastLine
    <2>1. window \in Window /\ worker \in [Workers -> Worker] BY DEF LInv, IInv, Typed
    <2>2. k \in Workers BY <2>1, WindowParts
    <2>3. d \in Dict
      <3>1. worker[k] \in Worker BY <2>1, <2>2
      <3>2. d # NoDict BY <2>2 DEF LInv, Running
      <3> QED BY <3>1, <3>2, WorkerParts
    <2>4. a \in Area /\ window.at \in DOMAIN a.lines /\ Final(k)
      BY <2>1, WindowParts DEF LInv, Settled
    <2>5. ~Owes(k) BY <2>2 DEF Quiet
    <2>6. /\ window.at \in DOMAIN window.flags
          /\ window.flags[window.at] = Flagged(d, line)
      BY <2>4, <2>5 DEF Final, Owes
    <2>7. line \in Seq(Char) /\ a.col \in Nat
      <3>1. a.lines \in Seq(Seq(Char)) /\ a.col \in Nat BY <2>4, AreaParts
      <3> QED BY <2>4, <3>1 DEF LastLine
    <2> HIDE DEF d
    <2>8. \A t \in Tokens(line) : Word(line, t) \in Flagged(d, line) <=> Word(line, t) \in Misspelt[d]
      BY <2>3, <2>7, FlaggedIsMisspelt
    <2>9. Underlined(window.at) = {t \in Tokens(line) : Word(line, t) \in Misspelt[d]}
      <3>1. Underlined(window.at) = {t \in Tokens(line) : Word(line, t) \in Flagged(d, line)}
        BY <2>6 DEF Underlined, LastLine
      <3> QED BY <2>8, <3>1
    <2>10. ASSUME window.at = a.row
           PROVE  Popup = IF word \in Misspelt[d] THEN word ELSE <<>>
      <3>1. Line(a) = line BY <2>10 DEF Line, LastLine
      <3>2. Popup = IF word \in Flagged(d, line) THEN word ELSE <<>>
        BY <2>6, <2>10, <3>1 DEF Popup
      <3>3. word = <<>> \/ \E t \in Tokens(line) : word = Word(line, t)
        BY <2>7, AtCursor
      <3> HIDE DEF word, line
      <3> QED BY <2>8, <3>2, <3>3
    <2> QED BY <2>9, <2>10
  <1> QED BY <1>1, <1>2, <1>3, PTL DEF Spec
=============================================================================
