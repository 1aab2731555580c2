--------------------------- MODULE AccountsProofs ---------------------------
(* The accounts, for any number of them, of processes and of starts.       *)
EXTENDS Accounts, WellFoundedInduction, TLAPS

LEMMA ConstantTypes ==
    /\ MaxId \in Nat /\ MaxStarts \in Nat /\ NoEmail \notin Email
  BY AccountsAssumption

----------------------------------------------------------------------------
(* Numbers *)

\* The least of some numbers is one of them, and none is lower.
LEMMA MinOfNaturals ==
    ASSUME NEW S \in SUBSET Nat, S # {}
    PROVE  Min(S) \in S /\ \A x \in S : Min(S) <= x
<1> DEFINE R == OpToRel(<, Nat)
<1>1. \E m \in S : \A x \in S : ~ (<<x, m>> \in R)
  BY NatLessThanWellFounded, WFMin
<1>2. \A x, m \in Nat : x < m => <<x, m>> \in R
  BY DEF OpToRel
<1> HIDE DEF R
<1>3. \E m \in S : \A x \in S : m <= x
  <2>1. PICK m \in S : \A x \in S : ~ (<<x, m>> \in R) BY <1>1
  <2>2. \A x \in S : ~ (x < m) BY <1>2, <2>1
  <2>3. QED BY <2>2
<1>4. QED BY <1>3 DEF Min

\* The highest of some numbers with a bound is one of them, and none is higher.
LEMMA MaxOfNaturals ==
    ASSUME NEW S \in SUBSET Nat, S # {}, NEW n \in Nat, \A x \in S : x <= n
    PROVE  Max(S) \in S /\ \A x \in S : x <= Max(S)
<1> DEFINE bounds == {b \in Nat : \A x \in S : x <= b}
<1>1. Min(bounds) \in bounds /\ \A b \in bounds : Min(bounds) <= b
  BY MinOfNaturals
<1>2. Min(bounds) \in S
  <2>1. SUFFICES ASSUME Min(bounds) \notin S PROVE FALSE OBVIOUS
  <2>2. Min(bounds) # 0
    <3>1. PICK x \in S : TRUE OBVIOUS
    <3>2. x <= Min(bounds) /\ x # Min(bounds) BY <1>1, <2>1, <3>1
    <3>3. QED BY <1>1, <3>2
  <2>3. Min(bounds) - 1 \in bounds BY <1>1, <2>1, <2>2
  <2>4. QED BY <1>1, <2>3
<1>3. \E m \in S : \A x \in S : m >= x
  BY <1>1, <1>2
<1>4. QED BY <1>3 DEF Max

----------------------------------------------------------------------------
(* Sequences *)

LEMMA Joined ==
    ASSUME NEW S, NEW a \in Seq(S), NEW b \in Seq(S)
    PROVE  /\ a \o b \in Seq(S) /\ Len(a \o b) = Len(a) + Len(b)
           /\ \A j \in 1..Len(a) : (a \o b)[j] = a[j]
           /\ \A j \in Len(a) + 1..Len(a) + Len(b) : (a \o b)[j] = b[j - Len(a)]
  OBVIOUS

\* The first k elements of a list, and all but them.
LEMMA Parts ==
    ASSUME NEW S, NEW s \in Seq(S), NEW k \in 0..Len(s)
    PROVE  /\ SubSeq(s, 1, k) \in Seq(S) /\ Len(SubSeq(s, 1, k)) = k
           /\ \A j \in 1..k : SubSeq(s, 1, k)[j] = s[j]
           /\ SubSeq(s, k + 1, Len(s)) \in Seq(S)
           /\ Len(SubSeq(s, k + 1, Len(s))) = Len(s) - k
           /\ \A j \in 1..Len(s) - k : SubSeq(s, k + 1, Len(s))[j] = s[j + k]
  OBVIOUS

\* A list without its i-th element.
LEMMA WithoutElement ==
    ASSUME NEW S, NEW s \in Seq(S), NEW i \in 1..Len(s)
    PROVE  LET t == SubSeq(s, 1, i - 1) \o SubSeq(s, i + 1, Len(s))
           IN  /\ t \in Seq(S) /\ Len(t) = Len(s) - 1
               /\ \A j \in 1..Len(s) - 1 : t[j] = IF j < i THEN s[j] ELSE s[j + 1]
  <1> DEFINE a == SubSeq(s, 1, i - 1)
             b == SubSeq(s, i + 1, Len(s))
             t == a \o b
  <1>1. Len(s) \in Nat /\ i - 1 \in 0..Len(s) /\ i \in 0..Len(s) OBVIOUS
  <1>2. a \in Seq(S) /\ Len(a) = i - 1 /\ \A j \in 1..i - 1 : a[j] = s[j]
    BY <1>1, Parts
  <1>3. /\ b \in Seq(S) /\ Len(b) = Len(s) - i
        /\ \A j \in 1..Len(s) - i : b[j] = s[j + i]
    BY <1>1, Parts
  <1> HIDE DEF a, b
  <1>4. /\ t \in Seq(S) /\ Len(t) = Len(a) + Len(b)
        /\ \A j \in 1..Len(a) : t[j] = a[j]
        /\ \A j \in Len(a) + 1..Len(a) + Len(b) : t[j] = b[j - Len(a)]
    BY <1>2, <1>3, Joined
  <1> HIDE DEF t
  <1>5. Len(t) = Len(s) - 1 BY <1>1, <1>2, <1>3, <1>4
  <1>6. ASSUME NEW j \in 1..Len(s) - 1
        PROVE  t[j] = IF j < i THEN s[j] ELSE s[j + 1]
    <2>1. CASE j < i
      <3>1. j \in 1..i - 1 BY <1>1, <2>1
      <3> QED BY <1>2, <1>4, <2>1, <3>1
    <2>2. CASE ~(j < i)
      <3>1. /\ j \in Len(a) + 1..Len(a) + Len(b) /\ j - Len(a) \in 1..Len(s) - i
            /\ (j - Len(a)) + i = j + 1
        BY <1>1, <1>2, <1>3, <2>2
      <3>2. t[j] = b[j - Len(a)] BY <1>4, <3>1
      <3>3. b[j - Len(a)] = s[(j - Len(a)) + i] BY <1>3, <3>1
      <3> QED BY <2>2, <3>1, <3>2, <3>3
    <2> QED BY <2>1, <2>2
  <1> QED BY <1>4, <1>5, <1>6 DEF t, a, b

----------------------------------------------------------------------------
(* Types *)

LEMMA NoProcType == NoProc \in Process /\ NoConfig \in Config
  <1>1. <<>> \in Seq(Email) /\ <<>> \in Seq(Account)
    OBVIOUS
  <1>2. NoConfig \in Config BY <1>1 DEF NoConfig, Config
  <1>3. 0 \in 0..MaxId BY ConstantTypes
  <1> QED BY <1>1, <1>2, <1>3 DEF NoProc, Process

\* A step of one process gives it another record, alone or with a change that
\* makes the others stale.
LEMMA StepType ==
    ASSUME TypeOK, NEW p \in Proc, NEW to \in Process,
           proc' = [proc EXCEPT ![p] = to]
    PROVE  /\ proc' \in [Proc -> Process] /\ proc'[p] = to
           /\ \A q \in Proc : q # p => proc'[q] = proc[q]
  BY DEF TypeOK

LEMMA ChangesType ==
    ASSUME TypeOK, NEW p \in Proc, NEW to \in Process, Changes(p, to)
    PROVE  /\ proc' \in [Proc -> Process] /\ proc'[p] = to
           /\ clashed' \in BOOLEAN /\ (~clashed' => ~clashed /\ ~proc[p].stale)
           /\ \A q \in Proc : q # p =>
                \/ proc'[q] = proc[q] /\ proc[q].pc \in {"none", "open", "run"}
                \/ /\ proc'[q] = [proc[q] EXCEPT !.stale = TRUE]
                   /\ proc'[q].stale /\ proc[q].pc \notin {"none", "open", "run"}
  <1>1. proc' = [q \in Proc |->
            IF q = p THEN to
            ELSE [proc[q] EXCEPT !.stale = @ \/ proc[q].pc \notin {"none", "open", "run"}]]
    BY DEF Changes
  <1>2. ASSUME NEW q \in Proc, q # p
        PROVE  /\ proc'[q] \in Process
               /\ \/ proc'[q] = proc[q] /\ proc[q].pc \in {"none", "open", "run"}
                  \/ /\ proc'[q] = [proc[q] EXCEPT !.stale = TRUE]
                     /\ proc'[q].stale /\ proc[q].pc \notin {"none", "open", "run"}
    <2> DEFINE c == proc[q]
               b == c.stale \/ c.pc \notin {"none", "open", "run"}
    <2>1. proc'[q] = [c EXCEPT !.stale = b] BY <1>1, <1>2
    <2>2. c \in Process BY DEF TypeOK
    <2>3. c.stale \in BOOLEAN BY <2>2 DEF Process
    <2> HIDE DEF c
    <2>4. CASE c.pc \in {"none", "open", "run"}
      <3>1. b = c.stale BY <2>3, <2>4
      <3>2. proc'[q] = [c EXCEPT !.stale = c.stale] BY <2>1, <3>1
      <3>3. proc'[q] = c BY <2>2, <3>2 DEF Process
      <3> QED BY <2>2, <2>4, <3>3 DEF c
    <2>5. CASE c.pc \notin {"none", "open", "run"}
      <3>1. b = TRUE BY <2>5
      <3>2. proc'[q] = [c EXCEPT !.stale = TRUE] BY <2>1, <3>1
      <3>3. proc'[q] \in Process /\ proc'[q].stale BY <2>2, <3>2 DEF Process
      <3> QED BY <2>5, <3>2, <3>3 DEF c
    <2> QED BY <2>4, <2>5
  <1>3. proc'[p] = to BY <1>1
  <1>4. proc' \in [Proc -> Process] BY <1>1, <1>2, <1>3
  <1>5. proc[p].stale \in BOOLEAN BY DEF TypeOK, Process
  <1>6. clashed' = (clashed \/ proc[p].stale) BY DEF Changes
  <1> QED BY <1>2, <1>3, <1>4, <1>5, <1>6 DEF TypeOK

\* Lists of accounts.
LEMMA AppendType ==
    ASSUME NEW S, NEW s \in Seq(S), NEW e \in S
    PROVE  Append(s, e) \in Seq(S) /\ ToSet(Append(s, e)) = ToSet(s) \cup {e}
  <1>1. /\ Append(s, e) \in Seq(S) /\ Len(Append(s, e)) = Len(s) + 1
        /\ Append(s, e)[Len(s) + 1] = e
        /\ \A i \in 1..Len(s) : Append(s, e)[i] = s[i]
    OBVIOUS
  <1>2. Len(s) \in Nat /\ DOMAIN s = 1..Len(s) OBVIOUS
  <1>3. DOMAIN Append(s, e) = 1..Len(s) + 1 BY <1>1
  <1>4. \A i \in 1..Len(s) + 1 : i \in 1..Len(s) \/ i = Len(s) + 1 BY <1>2
  <1>5. 1..Len(s) \subseteq 1..Len(s) + 1 /\ Len(s) + 1 \in 1..Len(s) + 1 BY <1>2
  <1> QED BY <1>1, <1>2, <1>3, <1>4, <1>5 DEF ToSet

LEMMA RemoveAtType ==
    ASSUME NEW S, NEW s \in Seq(S), NEW i \in 1..Len(s)
    PROVE  /\ RemoveAt(s, i) \in Seq(S) /\ Len(RemoveAt(s, i)) = Len(s) - 1
           /\ \A j \in 1..Len(s) - 1 :
                RemoveAt(s, i)[j] = IF j < i THEN s[j] ELSE s[j + 1]
  BY WithoutElement DEF RemoveAt

\* The fields of a record of a process that the steps change.
LEMMA GoesType ==
    ASSUME NEW c \in Process
    PROVE  /\ \A pc \in {"none", "save", "write", "add", "setup", "reload", "password",
                        "secret", "find", "delete", "files", "open", "run"} :
                [c EXCEPT !.pc = pc] \in Process
           /\ \A conf \in Config, pc \in {"add", "setup", "password", "save"} :
                [c EXCEPT !.conf = conf, !.pc = pc, !.stale = FALSE] \in Process
  BY DEF Process

LEMMA LoadedType ==
    ASSUME TypeOK, NEW p \in Proc, NEW conf \in Config,
           NEW pc \in {"add", "setup", "password", "save"}
    PROVE  /\ Loaded(p, conf, pc) \in Process
           /\ Loaded(p, conf, pc).conf = conf /\ Loaded(p, conf, pc).pc = pc
           /\ Loaded(p, conf, pc).stale = FALSE
  <1>1. proc[p] \in Process BY DEF TypeOK
  <1>2. Loaded(p, conf, pc) \in Process BY <1>1, GoesType DEF Loaded
  <1>3. /\ Loaded(p, conf, pc).conf = conf /\ Loaded(p, conf, pc).pc = pc
        /\ Loaded(p, conf, pc).stale = FALSE
    BY <1>1 DEF Loaded, Process
  <1> QED BY <1>2, <1>3

LEMMA SavingType ==
    ASSUME TypeOK, NEW p \in Proc, NEW conf \in Config,
           NEW then \in {"none", "open", "secret", "run"}
    PROVE  /\ Saving(p, conf, then) \in Process
           /\ Saving(p, conf, then).conf = conf /\ Saving(p, conf, then).pc = "save"
           /\ Saving(p, conf, then).then = then /\ Saving(p, conf, then).stale = FALSE
  <1> DEFINE c == Loaded(p, conf, "save")
  <1>1. c \in Process /\ c.conf = conf /\ c.pc = "save" /\ c.stale = FALSE
    BY LoadedType
  <1> HIDE DEF c
  <1>2. /\ [c EXCEPT !.then = then] \in Process
        /\ [c EXCEPT !.then = then].conf = conf /\ [c EXCEPT !.then = then].pc = "save"
        /\ [c EXCEPT !.then = then].then = then /\ [c EXCEPT !.then = then].stale = FALSE
    BY <1>1 DEF Process
  <1> QED BY <1>2 DEF Saving, c

LEMMA AfterSaveType ==
    ASSUME TypeOK, NEW p \in Proc
    PROVE  /\ AfterSave(p) \in Process
           /\ AfterSave(p).pc = proc[p].then
           /\ AfterSave(p).conf = NoConfig
           /\ proc[p].then # "none" =>
                AfterSave(p).email = proc[p].email /\ AfterSave(p).stale = proc[p].stale
  <1>1. CASE proc[p].then = "none"
    BY <1>1, NoProcType DEF AfterSave, NoProc
  <1>2. CASE proc[p].then # "none"
    <2> DEFINE c == [proc[p] EXCEPT !.pc = proc[p].then, !.conf = NoConfig, !.then = "none"]
    <2>1. proc[p] \in Process BY DEF TypeOK
    <2>2. /\ c \in Process /\ c.pc = proc[p].then /\ c.conf = NoConfig
          /\ c.email = proc[p].email /\ c.stale = proc[p].stale
      BY <2>1, NoProcType DEF Process
    <2> QED BY <1>2, <2>2 DEF AfterSave
  <1> QED BY <1>1, <1>2

LEMMA WithoutType ==
    ASSUME NEW c \in Config, NEW i \in DOMAIN c.accounts
    PROVE  Without(c, i) \in Config
  <1>1. c.accounts \in Seq(Email) /\ i \in 1..Len(c.accounts) BY DEF Config
  <1>2. RemoveAt(c.accounts, i) \in Seq(Email) BY <1>1, RemoveAtType
  <1> QED BY <1>2 DEF Without, Config

\* upsert_account gives an account one row, under an id of its own.
LEMMA UpsertType ==
    ASSUME TypeOK, NEW e \in Email, HasRoom(e)
    PROVE  /\ Upsert(e) \subseteq Account
           /\ \A r, s \in Upsert(e) : r.email = s.email \/ r.id = s.id => r = s
           /\ IdOf(e, Upsert(e)) \in 1..MaxId
           /\ [email |-> e, id |-> IdOf(e, Upsert(e))] \in Upsert(e)
  <1> DEFINE ids == {0} \cup {r.id : r \in rows}
             new == [email |-> e, id |-> NextId]
  <1>1. rows \subseteq Account /\ \A r, s \in rows : r.email = s.email \/ r.id = s.id => r = s
    BY DEF TypeOK
  <1>2. /\ Upsert(e) \subseteq Account
        /\ \A r, s \in Upsert(e) : r.email = s.email \/ r.id = s.id => r = s
        /\ \E r \in Upsert(e) : r.email = e
    <2>1. CASE \E r \in rows : r.email = e
      BY <1>1, <2>1 DEF Upsert
    <2>2. CASE ~ \E r \in rows : r.email = e
      <3>1. ids \in SUBSET Nat /\ ids # {} /\ \A x \in ids : x <= MaxId
        BY <1>1, ConstantTypes DEF Account
      <3>2. Max(ids) \in ids /\ \A x \in ids : x <= Max(ids)
        BY <3>1, MaxOfNaturals, ConstantTypes
      <3>3. NextId = 1 + Max(ids) BY DEF NextId
      <3>4. NextId \in Nat \ {0} /\ \A r \in rows : r.id # NextId
        <4>1. Max(ids) \in Nat BY <3>1, <3>2
        <4>2. \A r \in rows : r.id \in ids OBVIOUS
        <4> HIDE DEF ids
        <4>3. \A x \in ids : x # 1 + Max(ids) BY <3>1, <3>2, <4>1
        <4> QED BY <3>3, <4>1, <4>2, <4>3
      <3>5. NextId \in 1..MaxId BY <2>2, <3>4, ConstantTypes DEF HasRoom
      <3>6. new \in Account BY <3>5 DEF Account
      <3>7. Upsert(e) = rows \cup {new} BY <2>2 DEF Upsert
      <3>8. new.email = e /\ new.id = NextId OBVIOUS
      <3> HIDE DEF new
      <3>9. \A r \in rows : r.email # new.email /\ r.id # new.id
        BY <2>2, <3>4, <3>8
      <3> QED BY <1>1, <3>6, <3>7, <3>8, <3>9
    <2> QED BY <2>1, <2>2
  <1>3. PICK r \in Upsert(e) : r.email = e /\ IdOf(e, Upsert(e)) = r.id
    BY <1>2 DEF IdOf
  <1>4. r \in Account BY <1>2, <1>3
  <1>5. r = [email |-> e, id |-> r.id] /\ r.id \in 1..MaxId BY <1>3, <1>4 DEF Account
  <1> QED BY <1>2, <1>3, <1>5

\* A process that works on an account knows which; one that has ended, and a
\* command that has only just read the file, have nothing left of before.
Shape(c) ==
    /\ "secret" \in {c.pc, c.then} \/ c.pc \in {"find", "delete", "files", "password", "reload"}
         => c.email \in Email
    /\ c.pc = "none" => c = NoProc
    /\ c.pc = "add" => c.then = "none"
Typed == TypeOK /\ \A p \in Proc : Shape(proc[p])

LEMMA NoProcShape == Shape(NoProc)
  BY DEF Shape, NoProc

LEMMA StepTyped ==
    ASSUME Typed, NEW p \in Proc, NEW to \in Process, Shape(to),
           proc' = [proc EXCEPT ![p] = to]
    PROVE  /\ proc' \in [Proc -> Process] /\ proc'[p] = to
           /\ \A q \in Proc : q # p => proc'[q] = proc[q]
           /\ \A q \in Proc : Shape(proc'[q])
  BY StepType DEF Typed

LEMMA ChangesTyped ==
    ASSUME Typed, NEW p \in Proc, NEW to \in Process, Shape(to), Changes(p, to)
    PROVE  /\ proc' \in [Proc -> Process] /\ clashed' \in BOOLEAN
           /\ \A q \in Proc : Shape(proc'[q])
  <1>1. /\ proc' \in [Proc -> Process] /\ proc'[p] = to /\ clashed' \in BOOLEAN
        /\ \A q \in Proc : q # p =>
             \/ proc'[q] = proc[q]
             \/ /\ proc'[q] = [proc[q] EXCEPT !.stale = TRUE]
                /\ proc[q].pc \notin {"none", "open", "run"}
    BY ChangesType DEF Typed
  <1>2. ASSUME NEW q \in Proc, q # p PROVE Shape(proc'[q])
    <2>1. CASE proc'[q] = proc[q] BY <2>1 DEF Typed
    <2>2. CASE /\ proc'[q] = [proc[q] EXCEPT !.stale = TRUE]
               /\ proc[q].pc \notin {"none", "open", "run"}
      <3>1. /\ proc'[q].pc = proc[q].pc /\ proc'[q].email = proc[q].email
            /\ proc'[q].then = proc[q].then
        BY <2>2 DEF Typed, TypeOK, Process
      <3>2. Shape(proc[q]) BY DEF Typed
      <3> QED BY <2>2, <3>1, <3>2 DEF Shape
    <2> QED BY <1>1, <1>2, <2>1, <2>2
  <1> QED BY <1>1, <1>2

\* What a process goes on as.
LEMMA GoesTyped ==
    ASSUME Typed, NEW p \in Proc,
           NEW pc \in {"write", "secret", "find", "delete", "files", "open", "run"},
           pc \in {"secret", "find", "delete", "files"} => proc[p].email \in Email
    PROVE  LET c == [proc[p] EXCEPT !.pc = pc] IN
           /\ c \in Process /\ Shape(c) /\ c.pc = pc /\ c.email = proc[p].email
           /\ c.conf = proc[p].conf /\ c.then = proc[p].then /\ c.stale = proc[p].stale
  <1> DEFINE c == [proc[p] EXCEPT !.pc = pc]
  <1>1. proc[p] \in Process /\ Shape(proc[p]) BY DEF Typed, TypeOK
  <1>2. /\ c \in Process /\ c.pc = pc /\ c.email = proc[p].email
        /\ c.conf = proc[p].conf /\ c.then = proc[p].then /\ c.stale = proc[p].stale
    BY <1>1 DEF Process
  <1> HIDE DEF c
  <1>3. Shape(c) BY <1>1, <1>2 DEF Shape
  <1> QED BY <1>2, <1>3 DEF c

LEMMA AfterSaveTyped ==
    ASSUME Typed, NEW p \in Proc PROVE AfterSave(p) \in Process /\ Shape(AfterSave(p))
  <1>1. AfterSave(p) \in Process BY AfterSaveType DEF Typed
  <1>2. proc[p] \in Process /\ Shape(proc[p]) BY DEF Typed, TypeOK
  <1>3. CASE proc[p].then = "none" BY <1>1, <1>3, NoProcShape DEF AfterSave
  <1>4. CASE proc[p].then # "none"
    <2>1. AfterSave(p).pc = proc[p].then /\ AfterSave(p).email = proc[p].email
      BY <1>4, AfterSaveType DEF Typed
    <2>2. AfterSave(p).then = "none" BY <1>2, <1>4 DEF AfterSave, Process
    <2>3. proc[p].then \in {"open", "secret", "run"} BY <1>2, <1>4 DEF Process
    <2> QED BY <1>1, <1>2, <2>1, <2>2, <2>3 DEF Shape
  <1> QED BY <1>1, <1>3, <1>4

LEMMA StartTyped ==
    ASSUME Typed, NEW p \in Proc, NEW to \in Process, Shape(to), Start(p, to)
    PROVE  /\ Typed' /\ proc'[p] = to
           /\ \A q \in Proc : q # p => proc'[q] = proc[q]
  <1>1. starts' \in 0..MaxStarts
    BY ConstantTypes DEF Start, Typed, TypeOK
  <1>2. /\ proc' \in [Proc -> Process] /\ proc'[p] = to
        /\ \A q \in Proc : q # p => proc'[q] = proc[q]
        /\ \A q \in Proc : Shape(proc'[q])
    BY StepTyped DEF Start
  <1> QED BY <1>1, <1>2 DEF Start, Typed, TypeOK

LEMMA EndTyped ==
    ASSUME Typed, NEW p \in Proc, End(p)
    PROVE  /\ proc' \in [Proc -> Process] /\ proc'[p] = NoProc
           /\ \A q \in Proc : q # p => proc'[q] = proc[q]
           /\ \A q \in Proc : Shape(proc'[q])
  <1>1. proc' = [proc EXCEPT ![p] = NoProc] BY DEF End
  <1> QED BY <1>1, NoProcType, NoProcShape, StepTyped

LEMMA IdleIsNoProc ==
    ASSUME Typed, NEW p \in Proc, proc[p].pc = "none" PROVE proc[p] = NoProc
  BY DEF Typed, Shape

\* What a command that starts has read.
LEMMA LoadedTyped ==
    ASSUME Typed, NEW p \in Proc, proc[p].pc = "none",
           NEW pc \in {"add", "setup", "password", "save"}
    PROVE  LET c == Loaded(p, file, pc) IN
           /\ c \in Process /\ c.conf = file /\ c.pc = pc /\ c.stale = FALSE
           /\ c.then = "none" /\ c.email = NoEmail
  <1>1. file \in Config BY DEF Typed, TypeOK
  <1>2. proc[p] = NoProc BY IdleIsNoProc
  <1>3. Loaded(p, file, pc).then = "none" /\ Loaded(p, file, pc).email = NoEmail
    BY <1>2 DEF Loaded, NoProc
  <1> QED BY <1>1, <1>3, LoadedType DEF Typed

LEMMA SavingShape ==
    ASSUME Typed, NEW p \in Proc, NEW conf \in Config, NEW then \in {"none", "open", "run"}
    PROVE  /\ Saving(p, conf, then) \in Process /\ Shape(Saving(p, conf, then))
  BY SavingType DEF Shape, Typed

\* --remove-account of an entry.
LEMMA RemovalTyped ==
    ASSUME Typed, NEW p \in Proc, NEW i \in DOMAIN file.accounts
    PROVE  /\ Removal(p, i) \in Process /\ Shape(Removal(p, i))
           /\ Removal(p, i).pc = "save" /\ Removal(p, i).then = "secret"
           /\ Removal(p, i).conf = Without(file, i)
           /\ Removal(p, i).email = file.accounts[i]
  <1>1. file \in Config BY DEF Typed, TypeOK
  <1>2. file.accounts[i] \in Email BY <1>1 DEF Config
  <1> DEFINE c == Saving(p, Without(file, i), "secret")
  <1>7. Without(file, i) \in Config BY <1>1, WithoutType
  <1>8. TypeOK BY DEF Typed
  <1>3. /\ c \in Process /\ c.conf = Without(file, i) /\ c.pc = "save"
        /\ c.then = "secret"
    BY <1>7, <1>8, SavingType
  <1> DEFINE d == [c EXCEPT !.email = file.accounts[i]]
  <1>4. Removal(p, i) = d BY DEF Removal
  <1> HIDE DEF c
  <1>5. /\ d \in Process /\ d.conf = Without(file, i) /\ d.pc = "save"
        /\ d.then = "secret" /\ d.email = file.accounts[i]
    BY <1>2, <1>3 DEF Process
  <1> HIDE DEF d
  <1>6. Shape(d) BY <1>2, <1>5 DEF Shape
  <1> QED BY <1>4, <1>5, <1>6

\* The entry a setup adds.
LEMMA AddEntry ==
    ASSUME NEW c \in Config, NEW e \in Email
    PROVE  LET d == [c EXCEPT !.accounts = Append(@, e)] IN
           /\ d \in Config /\ d.accounts = Append(c.accounts, e)
  <1>1. Append(c.accounts, e) \in Seq(Email) BY AppendType DEF Config
  <1> QED BY <1>1 DEF Config

----------------------------------------------------------------------------
(* Type correctness, one step per action *)

\* A setup goes on with the entry it adds.
SetupSaving(p) ==
    [Saving(p, [file EXCEPT !.accounts = Append(@, proc[p].email)], "open")
        EXCEPT !.todo = <<proc[p].email>>, !.stale = proc[p].stale]

LEMMA SetupSavingTyped ==
    ASSUME Typed, NEW p \in Proc, proc[p].pc = "reload"
    PROVE  /\ SetupSaving(p) \in Process /\ Shape(SetupSaving(p))
           /\ SetupSaving(p).pc = "save" /\ SetupSaving(p).then = "open"
           /\ SetupSaving(p).stale = proc[p].stale
           /\ SetupSaving(p).conf \in Config
           /\ SetupSaving(p).conf.accounts = Append(file.accounts, proc[p].email)
  <1> DEFINE conf == [file EXCEPT !.accounts = Append(@, proc[p].email)]
             c == Saving(p, conf, "open")
             d == [c EXCEPT !.todo = <<proc[p].email>>, !.stale = proc[p].stale]
  <1>1. file \in Config /\ proc[p] \in Process /\ TypeOK BY DEF Typed, TypeOK
  <1>2. proc[p].email \in Email BY DEF Typed, Shape
  <1>3. conf \in Config /\ conf.accounts = Append(file.accounts, proc[p].email)
    BY <1>1, <1>2, AddEntry
  <1> HIDE DEF conf
  <1>9. TypeOK /\ conf \in Config /\ "open" \in {"none", "open", "secret", "run"}
    BY <1>1, <1>3
  <1>4. c \in Process /\ c.conf = conf /\ c.pc = "save" /\ c.then = "open"
    BY <1>9, SavingType
  <1> HIDE DEF c
  <1>5. <<proc[p].email>> \in Seq(Email) /\ proc[p].stale \in BOOLEAN
    BY <1>1, <1>2 DEF Process
  <1>6. /\ d \in Process /\ d.pc = "save" /\ d.then = "open" /\ d.conf = conf
        /\ d.stale = proc[p].stale
    BY <1>4, <1>5 DEF Process
  <1> HIDE DEF d
  <1>7. Shape(d) BY <1>6 DEF Shape
  <1>8. SetupSaving(p) = d BY DEF SetupSaving, d, c, conf
  <1> QED BY <1>3, <1>6, <1>7, <1>8

\* A secret is stored by a command that goes on as `to`.
LEMMA SecretTyped ==
    ASSUME Typed, NEW p \in Proc, NEW e \in Email, NEW to \in Process, Shape(to),
           SetSecret(p, e, to)
    PROVE  Typed'
  <1>1. keyring' \subseteq Email BY DEF SetSecret, Typed, TypeOK
  <1>2. Changes(p, to) BY DEF SetSecret
  <1> QED BY <1>1, <1>2, ChangesTyped DEF SetSecret, Typed, TypeOK

\* The account --add-account adds.
Adding(p, e) ==
    [proc[p] EXCEPT !.conf.accounts = Append(@, e), !.email = e, !.pc = "save"]

LEMMA AddingTyped ==
    ASSUME Typed, NEW p \in Proc, proc[p].pc = "add", NEW e \in Email
    PROVE  /\ Adding(p, e) \in Process /\ Shape(Adding(p, e))
           /\ Adding(p, e).pc = "save" /\ Adding(p, e).then = "none"
           /\ Adding(p, e).stale = proc[p].stale
           /\ Adding(p, e).conf.accounts = Append(proc[p].conf.accounts, e)
  <1> DEFINE conf == [proc[p].conf EXCEPT !.accounts = Append(@, e)]
             d == [proc[p] EXCEPT !.conf = conf, !.email = e, !.pc = "save"]
  <1>1. proc[p] \in Process /\ Shape(proc[p]) BY DEF Typed, TypeOK
  <1>2. proc[p].conf \in Config BY <1>1 DEF Process
  <1>3. conf \in Config /\ conf.accounts = Append(proc[p].conf.accounts, e)
    BY <1>2, AddEntry
  <1>4. Adding(p, e) = d
    BY <1>1 DEF Adding, Process
  <1> HIDE DEF conf
  <1>5. /\ d \in Process /\ d.conf = conf /\ d.email = e /\ d.pc = "save"
        /\ d.then = proc[p].then /\ d.stale = proc[p].stale
    BY <1>1, <1>3 DEF Process
  <1>6. proc[p].then = "none" BY <1>1 DEF Shape
  <1> HIDE DEF d
  <1>7. Shape(d) BY <1>5, <1>6 DEF Shape
  <1> QED BY <1>3, <1>4, <1>5, <1>6, <1>7

LEMMA EmptyTyped ==
    ASSUME Typed, NEW p \in Proc, Empty(p) PROVE Typed'
  <1>1. NoConfig \in Config BY NoProcType
  <1> DEFINE c == [proc[p] EXCEPT !.pc = "write"]
  <1>2. c \in Process /\ Shape(c) BY GoesTyped
  <1>3. Changes(p, c) BY DEF Empty
  <1> HIDE DEF c
  <1> QED BY <1>1, <1>2, <1>3, ChangesTyped DEF Empty, Typed, TypeOK

LEMMA WriteTyped ==
    ASSUME Typed, NEW p \in Proc, Write(p) PROVE Typed'
  <1>1. proc[p].conf \in Config BY DEF Typed, TypeOK, Process
  <1>2. AfterSave(p) \in Process /\ Shape(AfterSave(p)) BY AfterSaveTyped
  <1>3. Changes(p, AfterSave(p)) BY DEF Write
  <1> QED BY <1>1, <1>2, <1>3, ChangesTyped DEF Write, Typed, TypeOK

\* A step that changes one process and leaves all else alone.
LEMMA OnlyProcTyped ==
    ASSUME Typed, NEW p \in Proc, NEW to \in Process, Shape(to),
           proc' = [proc EXCEPT ![p] = to],
           UNCHANGED <<file, keyring, rows, dirs, starts, cut, clashed>>
    PROVE  Typed'
  BY StepTyped DEF Typed, TypeOK

LEMMA SaveFailsTyped ==
    ASSUME Typed, NEW p \in Proc, SaveFails(p) PROVE Typed'
  <1> DEFINE to == IF proc[p].then = "run" THEN AfterSave(p) ELSE NoProc
  <1>1. to \in Process /\ Shape(to) BY AfterSaveTyped, NoProcType, NoProcShape
  <1>2. proc' = [proc EXCEPT ![p] = to] BY DEF SaveFails
  <1> HIDE DEF to
  <1> QED BY <1>1, <1>2, OnlyProcTyped DEF SaveFails

LEMMA StartAddTyped ==
    ASSUME Typed, NEW p \in Proc, StartAdd(p) PROVE Typed'
  <1>1. proc[p].pc = "none" BY DEF StartAdd, Start
  <1>2. /\ Loaded(p, file, "add") \in Process /\ Loaded(p, file, "add").pc = "add"
        /\ Loaded(p, file, "add").then = "none"
    BY <1>1, LoadedTyped
  <1>3. Shape(Loaded(p, file, "add")) BY <1>2 DEF Shape
  <1> QED BY <1>2, <1>3, StartTyped DEF StartAdd

LEMMA AddTyped ==
    ASSUME Typed, NEW p \in Proc, Add(p) PROVE Typed'
  <1>1. PICK e \in Email : SetSecret(p, e, Adding(p, e)) BY DEF Add, Adding
  <1>2. proc[p].pc = "add" BY DEF Add
  <1> QED BY <1>1, <1>2, AddingTyped, SecretTyped

LEMMA SecretFailsTyped ==
    ASSUME Typed, NEW p \in Proc, SecretFails(p) PROVE Typed'
  <1>1. proc' = [proc EXCEPT ![p] = NoProc] BY DEF SecretFails, End
  <1> QED BY <1>1, NoProcType, NoProcShape, OnlyProcTyped DEF SecretFails

LEMMA StartSetupTyped ==
    ASSUME Typed, NEW p \in Proc, StartSetup(p) PROVE Typed'
  <1>1. proc[p].pc = "none" BY DEF StartSetup, Start
  <1>2. /\ Loaded(p, file, "setup") \in Process /\ Loaded(p, file, "setup").pc = "setup"
        /\ Loaded(p, file, "setup").then = "none"
    BY <1>1, LoadedTyped
  <1>3. Shape(Loaded(p, file, "setup")) BY <1>2 DEF Shape
  <1> QED BY <1>2, <1>3, StartTyped DEF StartSetup

\* What a setup goes on as, once its secret is stored.
SettingUp(p, e) == [proc[p] EXCEPT !.email = e, !.pc = "reload"]

LEMMA SettingUpTyped ==
    ASSUME Typed, NEW p \in Proc, NEW e \in Email
    PROVE  /\ SettingUp(p, e) \in Process /\ Shape(SettingUp(p, e))
           /\ SettingUp(p, e).pc = "reload" /\ SettingUp(p, e).email = e
           /\ SettingUp(p, e).then = proc[p].then
           /\ SettingUp(p, e).stale = proc[p].stale
  <1>1. proc[p] \in Process BY DEF Typed, TypeOK
  <1>2. /\ SettingUp(p, e) \in Process
        /\ SettingUp(p, e).pc = "reload" /\ SettingUp(p, e).email = e
        /\ SettingUp(p, e).then = proc[p].then
        /\ SettingUp(p, e).stale = proc[p].stale
    BY <1>1 DEF SettingUp, Process
  <1> QED BY <1>2 DEF Shape

LEMMA SetupTyped ==
    ASSUME Typed, NEW p \in Proc, Setup(p) PROVE Typed'
  <1>1. PICK e \in Email : SetSecret(p, e, SettingUp(p, e)) BY DEF Setup, SettingUp
  <1> QED BY <1>1, SettingUpTyped, SecretTyped

LEMMA SetupReloadTyped ==
    ASSUME Typed, NEW p \in Proc, SetupReload(p) PROVE Typed'
  <1>1. proc[p].pc = "reload" BY DEF SetupReload
  <1>2. proc' = [proc EXCEPT ![p] = SetupSaving(p)] BY DEF SetupReload, SetupSaving
  <1> QED BY <1>1, <1>2, SetupSavingTyped, OnlyProcTyped DEF SetupReload

\* Making an account the default leaves the accounts as they are.
LEMMA DefaultConf ==
    ASSUME Typed, NEW e \in Email
    PROVE  LET c == [file EXCEPT !.default = e] IN
           c \in Config /\ c.accounts = file.accounts
  BY DEF Typed, TypeOK, Config

LEMMA StartDefaultTyped ==
    ASSUME Typed, NEW p \in Proc, StartDefault(p) PROVE Typed'
  <1>1. PICK e \in ToSet(file.accounts) : Start(p, Saving(p, [file EXCEPT !.default = e], "none"))
    BY DEF StartDefault
  <1>2. e \in Email BY <1>1 DEF Typed, TypeOK, Config, ToSet
  <1> DEFINE c == [file EXCEPT !.default = e]
  <1>3. c \in Config BY <1>2, DefaultConf
  <1>4. Start(p, Saving(p, c, "none")) BY <1>1
  <1> HIDE DEF c
  <1>5. Saving(p, c, "none") \in Process /\ Shape(Saving(p, c, "none")) BY <1>3, SavingShape
  <1> QED BY <1>4, <1>5, StartTyped

LEMMA StartPasswordTyped ==
    ASSUME Typed, NEW p \in Proc, StartPassword(p) PROVE Typed'
  <1> DEFINE c == Loaded(p, file, "password")
  <1>1. PICK e \in ToSet(file.accounts) : Start(p, [c EXCEPT !.email = e])
    BY DEF StartPassword
  <1>2. e \in Email BY <1>1 DEF Typed, TypeOK, Config, ToSet
  <1>3. proc[p].pc = "none" BY <1>1 DEF Start
  <1>4. c \in Process /\ c.pc = "password" /\ c.then = "none" BY <1>3, LoadedTyped
  <1> DEFINE d == [c EXCEPT !.email = e]
  <1> HIDE DEF c
  <1>5. d \in Process /\ d.pc = "password" /\ d.then = "none" /\ d.email = e
    BY <1>2, <1>4 DEF Process
  <1>6. Start(p, d) BY <1>1
  <1> HIDE DEF d
  <1>7. Shape(d) BY <1>2, <1>5 DEF Shape
  <1> QED BY <1>5, <1>6, <1>7, StartTyped

LEMMA SetPasswordTyped ==
    ASSUME Typed, NEW p \in Proc, SetPassword(p) PROVE Typed'
  <1>1. proc[p].email \in Email BY DEF SetPassword, Typed, Shape
  <1>2. SetSecret(p, proc[p].email, NoProc) BY DEF SetPassword
  <1> QED BY <1>1, <1>2, NoProcType, NoProcShape, SecretTyped

LEMMA StartRemoveTyped ==
    ASSUME Typed, NEW p \in Proc, StartRemove(p) PROVE Typed'
  <1>1. PICK i \in DOMAIN file.accounts : Start(p, Removal(p, i)) BY DEF StartRemove
  <1>2. Removal(p, i) \in Process /\ Shape(Removal(p, i)) BY RemovalTyped
  <1> QED BY <1>1, <1>2, StartTyped

LEMMA DeleteSecretTyped ==
    ASSUME Typed, NEW p \in Proc, DeleteSecret(p) PROVE Typed'
  <1> DEFINE c == [proc[p] EXCEPT !.pc = "find"]
  <1>1. proc[p].email \in Email BY DEF DeleteSecret, Typed, Shape
  <1>2. c \in Process /\ Shape(c) BY <1>1, GoesTyped
  <1>3. Changes(p, c) BY DEF DeleteSecret
  <1>4. keyring' \subseteq Email BY DEF DeleteSecret, Typed, TypeOK
  <1> HIDE DEF c
  <1> QED BY <1>2, <1>3, <1>4, ChangesTyped DEF DeleteSecret, Typed, TypeOK

LEMMA SecretStaysTyped ==
    ASSUME Typed, NEW p \in Proc, SecretStays(p) PROVE Typed'
  <1> DEFINE c == [proc[p] EXCEPT !.pc = "find"]
  <1>1. proc[p].email \in Email BY DEF SecretStays, Typed, Shape
  <1>2. c \in Process /\ Shape(c) BY <1>1, GoesTyped
  <1>3. proc[p] \in Process /\ proc \in [Proc -> Process] BY DEF Typed, TypeOK
  <1>4. proc' = [proc EXCEPT ![p] = c] BY <1>3 DEF SecretStays, To
  <1>5. cut' \subseteq Email BY <1>1 DEF SecretStays, Typed, TypeOK
  <1> HIDE DEF c
  <1> QED BY <1>2, <1>4, <1>5, StepTyped DEF SecretStays, Typed, TypeOK

LEMMA FindRowTyped ==
    ASSUME Typed, NEW p \in Proc, FindRow(p) PROVE Typed'
  <1> DEFINE id == IdOf(proc[p].email, rows')
             c == [proc[p] EXCEPT !.id = id, !.pc = "delete"]
  <1>1. proc[p] \in Process /\ proc \in [Proc -> Process] /\ TypeOK BY DEF Typed, TypeOK
  <1>2. proc[p].email \in Email BY DEF FindRow, Typed, Shape
  <1>3. /\ rows' \subseteq Account
        /\ \A r, s \in rows' : r.email = s.email \/ r.id = s.id => r = s
        /\ id \in 1..MaxId
    BY <1>1, <1>2, UpsertType DEF FindRow
  <1>4. proc' = [proc EXCEPT ![p] = c] BY <1>1 DEF FindRow
  <1> HIDE DEF id
  <1>5. /\ c \in Process /\ c.pc = "delete" /\ c.email = proc[p].email
        /\ c.then = proc[p].then
    <2>1. id \in 0..MaxId BY <1>3, ConstantTypes
    <2> QED BY <1>1, <2>1 DEF Process
  <1> HIDE DEF c
  <1>6. Shape(c) BY <1>2, <1>5 DEF Shape
  <1>7. cut' \subseteq Email BY <1>2 DEF FindRow, Typed, TypeOK
  <1> QED BY <1>3, <1>4, <1>5, <1>6, <1>7, StepTyped DEF FindRow, Typed, TypeOK

LEMMA DeleteRowTyped ==
    ASSUME Typed, NEW p \in Proc, DeleteRow(p) PROVE Typed'
  <1> DEFINE c == [proc[p] EXCEPT !.pc = "files"]
  <1>1. proc[p].email \in Email BY DEF DeleteRow, Typed, Shape
  <1>2. c \in Process /\ Shape(c) BY <1>1, GoesTyped
  <1>3. proc \in [Proc -> Process] BY DEF Typed, TypeOK
  <1>4. proc' = [proc EXCEPT ![p] = c] BY <1>3 DEF DeleteRow, To
  <1>5. rows' \subseteq rows BY DEF DeleteRow
  <1>6. cut' \subseteq Email
    <2>1. rows \subseteq Account /\ cut \subseteq Email BY DEF Typed, TypeOK
    <2>2. \A r \in rows : r.email \in Email BY <2>1 DEF Account
    <2> QED BY <2>1, <2>2 DEF DeleteRow
  <1> HIDE DEF c
  <1> QED BY <1>2, <1>4, <1>5, <1>6, StepTyped DEF DeleteRow, Typed, TypeOK

LEMMA RemoveFilesTyped ==
    ASSUME Typed, NEW p \in Proc, RemoveFiles(p) PROVE Typed'
  <1>1. dirs' \subseteq dirs BY DEF RemoveFiles
  <1> QED BY <1>1, EndTyped DEF RemoveFiles, Typed, TypeOK

LEMMA FilesStayTyped ==
    ASSUME Typed, NEW p \in Proc, FilesStay(p) PROVE Typed'
  <1>1. proc[p].email \in Email BY DEF FilesStay, Typed, Shape
  <1>2. cut' \subseteq Email BY <1>1 DEF FilesStay, Typed, TypeOK
  <1> QED BY <1>2, EndTyped DEF FilesStay, Typed, TypeOK

LEMMA RemoveFailsTyped ==
    ASSUME Typed, NEW p \in Proc, RemoveFails(p) PROVE Typed'
  <1>1. proc[p].email \in Email BY DEF RemoveFails, Typed, Shape
  <1>2. cut' \subseteq Email BY <1>1 DEF RemoveFails, Typed, TypeOK
  <1> QED BY <1>2, EndTyped DEF RemoveFails, Typed, TypeOK

LEMMA LaunchTyped ==
    ASSUME Typed, NEW p \in Proc, Launch(p) PROVE Typed'
  <1> DEFINE c == [NoProc EXCEPT !.pc = "open", !.todo = file.accounts]
  <1>1. file.accounts \in Seq(Email) BY DEF Typed, TypeOK, Config
  <1>2. c \in Process /\ c.pc = "open" /\ c.then = "none"
    BY <1>1, NoProcType DEF Process, NoProc
  <1>3. Start(p, c) BY DEF Launch
  <1> HIDE DEF c
  <1>4. Shape(c) BY <1>2 DEF Shape
  <1> QED BY <1>2, <1>3, <1>4, StartTyped

LEMMA OpenAccountTyped ==
    ASSUME Typed, NEW p \in Proc, OpenAccount(p) PROVE Typed'
  <1> DEFINE e == Head(proc[p].todo)
             a == [email |-> e, id |-> IdOf(e, rows')]
             list == Append(proc[p].list, a)
             c == [proc[p] EXCEPT !.todo = Tail(@), !.list = list]
  <1>1. proc[p] \in Process /\ proc \in [Proc -> Process] /\ TypeOK /\ Shape(proc[p])
    BY DEF Typed, TypeOK
  <1>2. proc[p].todo \in Seq(Email) /\ proc[p].list \in Seq(Account) BY <1>1 DEF Process
  <1>3. e \in Email /\ Tail(proc[p].todo) \in Seq(Email) BY <1>2 DEF OpenAccount
  <1>4. HasRoom(e) /\ rows' = Upsert(e) BY DEF OpenAccount
  <1>5. proc' = [proc EXCEPT ![p] = c] BY <1>1 DEF OpenAccount
  <1>6. cut' = cut \/ cut' = cut \cup {e} BY DEF OpenAccount, Stored
  <1> HIDE DEF e
  <1>7. /\ rows' \subseteq Account
        /\ \A r, s \in rows' : r.email = s.email \/ r.id = s.id => r = s
        /\ a \in Account
    BY <1>1, <1>3, <1>4, UpsertType DEF Account
  <1> HIDE DEF a
  <1>8. list \in Seq(Account) BY <1>2, <1>7, AppendType
  <1> HIDE DEF list
  <1>9. /\ c \in Process /\ c.pc = proc[p].pc /\ c.email = proc[p].email
        /\ c.then = proc[p].then
    BY <1>1, <1>3, <1>8 DEF Process
  <1>10. proc[p].pc = "open" BY DEF OpenAccount
  <1> HIDE DEF c
  <1>11. Shape(c) BY <1>1, <1>9, <1>10 DEF Shape
  <1>12. cut' \subseteq Email BY <1>3, <1>6 DEF Typed, TypeOK
  <1> QED BY <1>5, <1>7, <1>9, <1>11, <1>12, StepTyped DEF OpenAccount, Typed, TypeOK

LEMMA OpenFailsTyped ==
    ASSUME Typed, NEW p \in Proc, OpenFails(p) PROVE Typed'
  BY EndTyped DEF OpenFails, Typed, TypeOK

LEMMA OpenedTyped ==
    ASSUME Typed, NEW p \in Proc, Opened(p) PROVE Typed'
  <1> DEFINE c == [proc[p] EXCEPT !.pc = "run"]
  <1>1. c \in Process /\ Shape(c) BY GoesTyped
  <1>2. proc' = [proc EXCEPT ![p] = c] BY DEF Opened, To, Typed, TypeOK
  <1> HIDE DEF c
  <1> QED BY <1>1, <1>2, OnlyProcTyped DEF Opened

\* The accounts of a session.
LEMMA MineType ==
    ASSUME Typed, NEW p \in Proc PROVE Mine(p) \subseteq Account
  <1>1. proc[p].list \in Seq(Account) BY DEF Typed, TypeOK, Process
  <1> QED BY <1>1 DEF Mine, ToSet

LEMMA SyncTyped ==
    ASSUME Typed, NEW p \in Proc, Sync(p) PROVE Typed'
  <1>1. PICK a \in Mine(p) : /\ HasRoom(a.email) /\ rows' = Upsert(a.email)
                             /\ Stored(a.email, IdOf(a.email, rows'), rows')
    BY DEF Sync
  <1>2. a.email \in Email BY MineType DEF Account
  <1>3. cut' \subseteq Email BY <1>1, <1>2 DEF Stored, Typed, TypeOK
  <1>4. /\ rows' \subseteq Account
        /\ \A r, s \in rows' : r.email = s.email \/ r.id = s.id => r = s
    BY <1>1, <1>2, UpsertType DEF Typed
  <1> QED BY <1>3, <1>4 DEF Sync, Typed, TypeOK

LEMMA FetchBodyTyped ==
    ASSUME Typed, NEW p \in Proc, FetchBody(p) PROVE Typed'
  <1>1. PICK a \in Mine(p) : /\ dirs' = dirs \cup {<<a.id, a.email>>}
                             /\ Stored(a.email, a.id, rows)
    BY DEF FetchBody
  <1>2. a.email \in Email /\ a.id \in 1..MaxId BY MineType DEF Account
  <1>3. cut' \subseteq Email BY <1>1, <1>2 DEF Stored, Typed, TypeOK
  <1>4. dirs' \subseteq (1..MaxId) \X Email BY <1>1, <1>2 DEF Typed, TypeOK
  <1> QED BY <1>3, <1>4 DEF FetchBody, Typed, TypeOK

LEMMA SetDefaultTyped ==
    ASSUME Typed, NEW p \in Proc, SetDefault(p) PROVE Typed'
  <1>1. PICK a \in Mine(p) :
            proc' = [proc EXCEPT ![p] = Saving(p, [file EXCEPT !.default = a.email], "run")]
    BY DEF SetDefault
  <1>2. a.email \in Email BY MineType DEF Account
  <1> DEFINE c == [file EXCEPT !.default = a.email]
  <1>3. c \in Config BY <1>2, DefaultConf
  <1>4. proc' = [proc EXCEPT ![p] = Saving(p, c, "run")] BY <1>1
  <1> HIDE DEF c
  <1>5. Saving(p, c, "run") \in Process /\ Shape(Saving(p, c, "run")) BY <1>3, SavingShape
  <1> QED BY <1>4, <1>5, OnlyProcTyped DEF SetDefault

LEMMA QuitTyped ==
    ASSUME Typed, NEW p \in Proc, Quit(p) PROVE Typed'
  BY EndTyped DEF Quit, Typed, TypeOK

LEMMA CrashTyped ==
    ASSUME Typed, NEW p \in Proc, Crash(p) PROVE Typed'
  <1>1. Removing(p) => proc[p].email \in Email BY DEF Removing, Typed, Shape
  <1>2. cut' \subseteq Email BY <1>1 DEF Crash, Typed, TypeOK
  <1> QED BY <1>2, EndTyped DEF Crash, Typed, TypeOK

LEMMA InitTyped == Init => Typed
  <1> SUFFICES ASSUME Init PROVE Typed OBVIOUS
  <1>1. proc \in [Proc -> Process] /\ \A p \in Proc : proc[p] = NoProc
    BY NoProcType DEF Init
  <1>2. file \in Config /\ starts \in 0..MaxStarts BY NoProcType, ConstantTypes DEF Init
  <1>3. TypeOK BY <1>1, <1>2 DEF Init, TypeOK
  <1> QED BY <1>1, <1>3, NoProcShape DEF Typed

LEMMA NextTyped == Typed /\ [Next]_vars => Typed'
  <1> SUFFICES ASSUME Typed, [Next]_vars PROVE Typed'
    OBVIOUS
  <1>1. CASE UNCHANGED vars BY <1>1 DEF vars, Typed, TypeOK
  <1>2. ASSUME NEW p \in Proc,
               \/ Empty(p) \/ Write(p) \/ SaveFails(p)
               \/ StartAdd(p) \/ Add(p) \/ SecretFails(p)
               \/ StartSetup(p) \/ Setup(p) \/ SetupReload(p)
               \/ StartDefault(p) \/ StartPassword(p) \/ SetPassword(p)
        PROVE  Typed'
    BY <1>2, EmptyTyped, WriteTyped, SaveFailsTyped, StartAddTyped, AddTyped,
       SecretFailsTyped, StartSetupTyped, SetupTyped, SetupReloadTyped, StartDefaultTyped,
       StartPasswordTyped, SetPasswordTyped
  <1>3. ASSUME NEW p \in Proc,
               \/ StartRemove(p) \/ DeleteSecret(p) \/ SecretStays(p) \/ FindRow(p) \/ DeleteRow(p)
               \/ RemoveFiles(p) \/ FilesStay(p) \/ RemoveFails(p)
        PROVE  Typed'
    BY <1>3, StartRemoveTyped, DeleteSecretTyped, SecretStaysTyped, FindRowTyped,
       DeleteRowTyped, RemoveFilesTyped, FilesStayTyped, RemoveFailsTyped
  <1>4. ASSUME NEW p \in Proc,
               \/ Launch(p) \/ OpenAccount(p) \/ OpenFails(p) \/ Opened(p)
               \/ Sync(p) \/ FetchBody(p) \/ SetDefault(p) \/ Quit(p)
               \/ Crash(p)
        PROVE  Typed'
    BY <1>4, LaunchTyped, OpenAccountTyped, OpenFailsTyped, OpenedTyped, SyncTyped,
       FetchBodyTyped, SetDefaultTyped, QuitTyped, CrashTyped
  <1> QED BY <1>1, <1>2, <1>3, <1>4 DEF Next

LEMMA SpecTyped == Spec => []Typed
  BY InitTyped, NextTyped, PTL DEF Spec

\* For any number of accounts and processes, and whatever fails: an account
\* has one row, under an id that no other has, and every step of every command
\* and session keeps to the accounts it knows.
THEOREM SpecTypeOK == Spec => []TypeOK
  <1>1. Typed => TypeOK BY DEF Typed
  <1> QED BY <1>1, SpecTyped, PTL

----------------------------------------------------------------------------
(* What the configuration and each command know of the secrets.  Neither   *)
(* ConfiguredHasSecret nor OthersKept is inductive: that a file written is *)
(* backed by secrets rests on what was read before, and on nobody having   *)
(* changed anything since (`stale`).                                       *)

\* Each of these accounts is there once, and has a secret.
Backed(accounts, keys) == ToSet(accounts) \subseteq keys /\ IsInjective(accounts)

\* What a command that is not stale relies on, of the file f and the keyring.
SoundProc(c, f, keys) ==
    ~c.stale =>
        /\ c.pc \in {"add", "setup"} => c.conf = f
        /\ c.pc \in {"setup", "reload"} => f.accounts = <<>>
        /\ c.pc = "reload" => c.email \in keys
        /\ c.pc \in {"save", "write"} =>
            /\ Backed(c.conf.accounts, keys)
            /\ c.then = "secret" => ~Has(c.conf, c.email)
        /\ c.pc = "save" => \A e \in ToSet(f.accounts) :
            Has(c.conf, e) \/ (c.then = "secret" /\ c.email = e)
        /\ c.pc = "write" => f = NoConfig
        /\ c.pc = "secret" => ~Has(f, c.email)

Sound ==
    ~clashed =>
        /\ Backed(file.accounts, keyring)
        /\ \A p \in Proc : SoundProc(proc[p], file, keyring)

LEMMA AppendBacked ==
    ASSUME NEW s \in Seq(Email), NEW e \in Email, NEW keys, NEW more,
           Backed(s, keys), e \notin ToSet(s), keys \cup {e} \subseteq more
    PROVE  Backed(Append(s, e), more)
  <1>1. ToSet(Append(s, e)) = ToSet(s) \cup {e} BY AppendType
  <1>2. /\ DOMAIN Append(s, e) = 1..Len(s) + 1 /\ Append(s, e)[Len(s) + 1] = e
        /\ \A i \in 1..Len(s) : Append(s, e)[i] = s[i]
    OBVIOUS
  <1>3. DOMAIN s = 1..Len(s) /\ Len(s) \in Nat OBVIOUS
  <1>4. \A i \in 1..Len(s) + 1 : i \in 1..Len(s) \/ i = Len(s) + 1 BY <1>3
  <1>5. \A i \in 1..Len(s) : s[i] # e BY <1>3 DEF ToSet
  <1>6. IsInjective(Append(s, e))
    BY <1>2, <1>3, <1>4, <1>5 DEF IsInjective, Backed
  <1> QED BY <1>1, <1>6 DEF Backed

\* Removing an entry that is there once.
LEMMA RemoveAtBacked ==
    ASSUME NEW s \in Seq(Email), NEW i \in 1..Len(s), NEW keys, Backed(s, keys)
    PROVE  /\ Backed(RemoveAt(s, i), keys)
           /\ s[i] \notin ToSet(RemoveAt(s, i))
           /\ ToSet(s) \subseteq ToSet(RemoveAt(s, i)) \cup {s[i]}
  <1> DEFINE r == RemoveAt(s, i)
             m == Len(s) - 1
             from(j) == IF j < i THEN j ELSE j + 1
  <1>1. r \in Seq(Email) /\ Len(r) = m /\ \A j \in 1..m : r[j] = s[from(j)]
    <2>1. /\ r \in Seq(Email) /\ Len(r) = m
          /\ \A j \in 1..m : r[j] = IF j < i THEN s[j] ELSE s[j + 1]
      BY RemoveAtType
    <2> QED BY <2>1
  <1>2. Len(s) \in Nat /\ DOMAIN s = 1..Len(s) OBVIOUS
  <1>3. \A j \in 1..m : from(j) \in 1..Len(s) /\ from(j) # i BY <1>2
  <1>4. \A j, k \in 1..m : from(j) = from(k) => j = k BY <1>2
  <1>5. \A j \in 1..Len(s) : j # i => \E k \in 1..m : from(k) = j
    <2> SUFFICES ASSUME NEW j \in 1..Len(s), j # i PROVE \E k \in 1..m : from(k) = j
      OBVIOUS
    <2>1. CASE j < i BY <1>2, <2>1
    <2>2. CASE j > i
      <3>1. j - 1 \in 1..m /\ from(j - 1) = j BY <1>2, <2>2
      <3> QED BY <3>1
    <2> QED BY <2>1, <2>2
  <1> HIDE DEF r, from
  <1>6. DOMAIN r = 1..m BY <1>1
  <1> HIDE DEF m
  <1>7. \A a, b \in 1..Len(s) : s[a] = s[b] => a = b BY <1>2 DEF Backed, IsInjective
  <1>8. IsInjective(r) BY <1>1, <1>3, <1>4, <1>6, <1>7 DEF IsInjective
  <1>9. ToSet(r) \subseteq ToSet(s) BY <1>1, <1>2, <1>3, <1>6 DEF ToSet
  <1>10. s[i] \notin ToSet(r) BY <1>1, <1>3, <1>6, <1>7 DEF ToSet
  <1>11. ToSet(s) \subseteq ToSet(r) \cup {s[i]}
    <2> SUFFICES ASSUME NEW j \in 1..Len(s), j # i PROVE s[j] \in ToSet(r)
      BY <1>2 DEF ToSet
    <2>1. PICK k \in 1..m : from(k) = j BY <1>5
    <2>2. r[k] = s[j] BY <1>1, <2>1
    <2> QED BY <1>6, <2>2 DEF ToSet
  <1> QED BY <1>8, <1>9, <1>10, <1>11 DEF Backed, r

\* What relies on nothing.
LEMMA RestSound ==
    ASSUME NEW c, NEW f, NEW keys,
           c.pc \in {"none", "password", "find", "delete", "files", "open", "run"}
    PROVE  SoundProc(c, f, keys)
  BY DEF SoundProc

\* A step of one process that changes neither the file nor the keyring.
LEMMA QuietSound ==
    ASSUME Typed, Sound, NEW p \in Proc, NEW to,
           \A q \in Proc : proc'[q] = IF q = p THEN to ELSE proc[q],
           UNCHANGED <<file, keyring, clashed>>,
           ~clashed => SoundProc(to, file, keyring)
    PROVE  Sound'
  BY DEF Sound

\* A step that changes them: what it relied on is true.
LEMMA ChangeSound ==
    ASSUME Typed, Sound, NEW p \in Proc, NEW to \in Process, Changes(p, to),
           (/\ ~clashed /\ ~proc[p].stale /\ Backed(file.accounts, keyring)
            /\ SoundProc(proc[p], file, keyring))
              => Backed(file'.accounts, keyring') /\ SoundProc(to, file', keyring')
    PROVE  Sound'
  <1> SUFFICES ASSUME ~clashed'
               PROVE  /\ Backed(file'.accounts, keyring')
                      /\ \A q \in Proc : SoundProc(proc'[q], file', keyring')
    BY DEF Sound
  <1>1. /\ proc'[p] = to /\ ~clashed /\ ~proc[p].stale
        /\ \A q \in Proc : q # p =>
             \/ proc'[q] = proc[q] /\ proc[q].pc \in {"none", "open", "run"}
             \/ proc'[q].stale
    BY ChangesType DEF Typed
  <1>2. Backed(file.accounts, keyring) /\ SoundProc(proc[p], file, keyring)
    BY <1>1 DEF Sound
  <1>3. Backed(file'.accounts, keyring') /\ SoundProc(to, file', keyring')
    BY <1>1, <1>2
  <1>4. ASSUME NEW q \in Proc, q # p PROVE SoundProc(proc'[q], file', keyring')
    <2>1. CASE proc'[q].pc \in {"none", "open", "run"} BY <2>1, RestSound
    <2>2. CASE proc'[q].stale BY <2>2 DEF SoundProc
    <2> QED BY <1>1, <1>4, <2>1, <2>2
  <1> QED BY <1>1, <1>3, <1>4

LEMMA EmptySound ==
    ASSUME Typed, Sound, NEW p \in Proc, Empty(p) PROVE Sound'
  <1> DEFINE c == [proc[p] EXCEPT !.pc = "write"]
  <1>1. /\ c \in Process /\ c.pc = "write" /\ c.email = proc[p].email
        /\ c.conf = proc[p].conf /\ c.then = proc[p].then /\ c.stale = proc[p].stale
    BY GoesTyped
  <1>2. Changes(p, c) /\ file' = NoConfig /\ keyring' = keyring /\ proc[p].pc = "save"
    BY DEF Empty
  <1> HIDE DEF c
  <1>3. Backed(file'.accounts, keyring')
    <2>1. file'.accounts = <<>> BY <1>2 DEF NoConfig
    <2> QED BY <2>1 DEF Backed, ToSet, IsInjective
  <1>4. SoundProc(proc[p], file, keyring) /\ ~proc[p].stale => SoundProc(c, file', keyring')
    BY <1>1, <1>2 DEF SoundProc
  <1> QED BY <1>1, <1>2, <1>3, <1>4, ChangeSound

LEMMA WriteSound ==
    ASSUME Typed, Sound, NEW p \in Proc, Write(p) PROVE Sound'
  <1>1. /\ Changes(p, AfterSave(p)) /\ file' = proc[p].conf /\ keyring' = keyring
        /\ proc[p].pc = "write"
    BY DEF Write
  <1>2. AfterSave(p) \in Process /\ AfterSave(p).pc = proc[p].then
    BY AfterSaveType DEF Typed
  <1>3. proc[p].then \in {"none", "open", "secret", "run"} BY DEF Typed, TypeOK, Process
  <1>4. ASSUME SoundProc(proc[p], file, keyring), ~proc[p].stale
        PROVE  Backed(file'.accounts, keyring') /\ SoundProc(AfterSave(p), file', keyring')
    <2>1. /\ Backed(file'.accounts, keyring')
          /\ proc[p].then = "secret" => ~Has(proc[p].conf, proc[p].email)
      BY <1>1, <1>4 DEF SoundProc
    <2>2. CASE proc[p].then = "secret"
      <3>1. AfterSave(p).email = proc[p].email BY <2>2, AfterSaveType DEF Typed
      <3>2. ~Has(file', AfterSave(p).email) BY <1>1, <2>1, <2>2, <3>1 DEF Has
      <3> QED BY <1>2, <2>1, <2>2, <3>2 DEF SoundProc
    <2>3. CASE proc[p].then # "secret"
      BY <1>2, <1>3, <2>1, <2>3, RestSound
    <2> QED BY <2>2, <2>3
  <1> QED BY <1>1, <1>2, <1>4, ChangeSound

LEMMA SaveFailsSound ==
    ASSUME Typed, Sound, NEW p \in Proc, SaveFails(p) PROVE Sound'
  <1> DEFINE to == IF proc[p].then = "run" THEN AfterSave(p) ELSE NoProc
  <1>1. to \in Process /\ to.pc \in {"none", "run"}
    BY AfterSaveType, NoProcType DEF Typed, NoProc
  <1>2. proc' = [proc EXCEPT ![p] = to] /\ UNCHANGED <<file, keyring, clashed>>
    BY DEF SaveFails
  <1> HIDE DEF to
  <1>3. \A q \in Proc : proc'[q] = IF q = p THEN to ELSE proc[q]
    BY <1>1, <1>2, StepType DEF Typed
  <1> QED BY <1>1, <1>2, <1>3, RestSound, QuietSound

\* A process that starts.
LEMMA StartSound ==
    ASSUME Typed, Sound, NEW p \in Proc, NEW to \in Process, Start(p, to),
           ~clashed /\ Backed(file.accounts, keyring) => SoundProc(to, file, keyring)
    PROVE  Sound'
  <1>1. \A q \in Proc : proc'[q] = IF q = p THEN to ELSE proc[q]
    BY StepType DEF Start, Typed
  <1>2. ~clashed => SoundProc(to, file, keyring) BY DEF Sound
  <1> QED BY <1>1, <1>2, QuietSound DEF Start

LEMMA StartAddSound ==
    ASSUME Typed, Sound, NEW p \in Proc, StartAdd(p) PROVE Sound'
  <1> DEFINE c == Loaded(p, file, "add")
  <1>1. c \in Process /\ c.conf = file /\ c.pc = "add" /\ Start(p, c)
    BY LoadedTyped DEF StartAdd, Start
  <1> HIDE DEF c
  <1> QED BY <1>1, StartSound DEF SoundProc

LEMMA StartSetupSound ==
    ASSUME Typed, Sound, NEW p \in Proc, StartSetup(p) PROVE Sound'
  <1> DEFINE c == Loaded(p, file, "setup")
  <1>1. /\ c \in Process /\ c.conf = file /\ c.pc = "setup" /\ Start(p, c)
        /\ file.accounts = <<>>
    BY LoadedTyped DEF StartSetup, Start
  <1> HIDE DEF c
  <1> QED BY <1>1, StartSound DEF SoundProc

LEMMA StartPasswordSound ==
    ASSUME Typed, Sound, NEW p \in Proc, StartPassword(p) PROVE Sound'
  <1> DEFINE c == Loaded(p, file, "password")
  <1>1. PICK e \in ToSet(file.accounts) : Start(p, [c EXCEPT !.email = e])
    BY DEF StartPassword
  <1>2. e \in Email BY <1>1 DEF Typed, TypeOK, Config, ToSet
  <1>3. c \in Process /\ c.pc = "password" BY <1>1, LoadedTyped DEF Start
  <1> DEFINE d == [c EXCEPT !.email = e]
  <1> HIDE DEF c
  <1>4. d \in Process /\ d.pc = "password" BY <1>2, <1>3 DEF Process
  <1>5. Start(p, d) BY <1>1
  <1> HIDE DEF d
  <1> QED BY <1>4, <1>5, RestSound, StartSound

LEMMA LaunchSound ==
    ASSUME Typed, Sound, NEW p \in Proc, Launch(p) PROVE Sound'
  <1> DEFINE c == [NoProc EXCEPT !.pc = "open", !.todo = file.accounts]
  <1>1. file.accounts \in Seq(Email) BY DEF Typed, TypeOK, Config
  <1>2. c \in Process /\ c.pc = "open" BY <1>1, NoProcType DEF Process
  <1>3. Start(p, c) BY DEF Launch
  <1> HIDE DEF c
  <1> QED BY <1>2, <1>3, RestSound, StartSound

\* Saving the accounts of the file again, with another default.
LEMMA SaveSameSound ==
    ASSUME Typed, NEW p \in Proc, NEW e \in Email, NEW then \in {"none", "run"},
           Backed(file.accounts, keyring)
    PROVE  LET c == Saving(p, [file EXCEPT !.default = e], then) IN
           c \in Process /\ SoundProc(c, file, keyring)
  <1> DEFINE conf == [file EXCEPT !.default = e]
             c == Saving(p, conf, then)
  <1>1. conf \in Config /\ conf.accounts = file.accounts BY DefaultConf
  <1> HIDE DEF conf
  <1>2. TypeOK BY DEF Typed
  <1>6. conf \in Config /\ then \in {"none", "open", "secret", "run"} BY <1>1
  <1>3. c \in Process /\ c.conf = conf /\ c.pc = "save" /\ c.then = then
    <2>1. c \in Process BY <1>2, <1>6, SavingType, Zenon
    <2>2. c.conf = conf BY <1>2, <1>6, SavingType, Zenon
    <2>3. c.pc = "save" BY <1>2, <1>6, SavingType, Zenon
    <2>4. c.then = then BY <1>2, <1>6, SavingType, Zenon
    <2> QED BY <2>1, <2>2, <2>3, <2>4
  <1>5. then # "secret" OBVIOUS
  <1> HIDE DEF c
  <1>4. SoundProc(c, file, keyring)
    BY <1>1, <1>3, <1>5 DEF SoundProc, Has
  <1> QED BY <1>3, <1>4 DEF c, conf

LEMMA StartDefaultSound ==
    ASSUME Typed, Sound, NEW p \in Proc, StartDefault(p) PROVE Sound'
  <1>1. PICK e \in ToSet(file.accounts) : Start(p, Saving(p, [file EXCEPT !.default = e], "none"))
    BY DEF StartDefault
  <1>2. e \in Email BY <1>1 DEF Typed, TypeOK, Config, ToSet
  <1> DEFINE c == [file EXCEPT !.default = e]
  <1>3. c \in Config BY <1>2, DefaultConf
  <1>4. Backed(file.accounts, keyring) => SoundProc(Saving(p, c, "none"), file, keyring)
    BY <1>2, SaveSameSound
  <1>5. Start(p, Saving(p, c, "none")) BY <1>1
  <1> HIDE DEF c
  <1>6. Saving(p, c, "none") \in Process BY <1>3, SavingShape
  <1> QED BY <1>4, <1>5, <1>6, StartSound

LEMMA SetDefaultSound ==
    ASSUME Typed, Sound, NEW p \in Proc, SetDefault(p) PROVE Sound'
  <1>1. PICK a \in Mine(p) :
            proc' = [proc EXCEPT ![p] = Saving(p, [file EXCEPT !.default = a.email], "run")]
    BY DEF SetDefault
  <1>2. a.email \in Email BY MineType DEF Account
  <1> DEFINE c == [file EXCEPT !.default = a.email]
  <1>3. c \in Config BY <1>2, DefaultConf
  <1>4. Backed(file.accounts, keyring) => SoundProc(Saving(p, c, "run"), file, keyring)
    BY <1>2, SaveSameSound
  <1>5. proc' = [proc EXCEPT ![p] = Saving(p, c, "run")] BY <1>1
  <1> HIDE DEF c
  <1>6. Saving(p, c, "run") \in Process BY <1>3, SavingShape
  <1>7. \A q \in Proc : proc'[q] = IF q = p THEN Saving(p, c, "run") ELSE proc[q]
    BY <1>5, <1>6, StepType DEF Typed
  <1>8. ~clashed => SoundProc(Saving(p, c, "run"), file, keyring) BY <1>4 DEF Sound
  <1> QED BY <1>7, <1>8, QuietSound DEF SetDefault

\* The entry removed has no other of its account beside it.
LEMMA StartRemoveSound ==
    ASSUME Typed, Sound, NEW p \in Proc, StartRemove(p) PROVE Sound'
  <1>1. PICK i \in DOMAIN file.accounts : Start(p, Removal(p, i)) BY DEF StartRemove
  <1> DEFINE c == Removal(p, i)
             s == file.accounts
             r == RemoveAt(s, i)
  <1>2. /\ c \in Process /\ c.pc = "save" /\ c.then = "secret"
        /\ c.conf = Without(file, i) /\ c.email = s[i]
    BY RemovalTyped
  <1>3. Without(file, i).accounts = r BY DEF Without
  <1>4. s \in Seq(Email) /\ i \in 1..Len(s) BY DEF Typed, TypeOK, Config
  <1>5. Start(p, c) BY <1>1
  <1> HIDE DEF c, s, r
  <1>6. ASSUME Backed(s, keyring)
        PROVE  Backed(r, keyring) /\ s[i] \notin ToSet(r) /\ ToSet(s) \subseteq ToSet(r) \cup {s[i]}
    BY <1>4, <1>6, RemoveAtBacked DEF r
  <1>7. Backed(s, keyring) => SoundProc(c, file, keyring)
    BY <1>2, <1>3, <1>6 DEF SoundProc, Has, s
  <1> QED BY <1>2, <1>5, <1>7, StartSound DEF s

\* --add-account: the password is stored before the entry is saved.
LEMMA AddSound ==
    ASSUME Typed, Sound, NEW p \in Proc, Add(p) PROVE Sound'
  <1>1. PICK e \in Email : ~Has(proc[p].conf, e) /\ SetSecret(p, e, Adding(p, e))
    BY DEF Add, Adding
  <1> DEFINE c == Adding(p, e)
             s == proc[p].conf.accounts
  <1>2. proc[p].pc = "add" BY DEF Add
  <1>3. /\ c \in Process /\ c.pc = "save" /\ c.then = "none"
        /\ c.conf.accounts = Append(s, e)
    BY <1>2, AddingTyped
  <1>4. Changes(p, c) /\ file' = file /\ keyring' = keyring \cup {e}
    BY <1>1 DEF SetSecret
  <1>5. s \in Seq(Email) BY DEF Typed, TypeOK, Process, Config
  <1> HIDE DEF c
  <1>6. ASSUME ~proc[p].stale, Backed(file.accounts, keyring),
               SoundProc(proc[p], file, keyring)
        PROVE  Backed(file'.accounts, keyring') /\ SoundProc(c, file', keyring')
    <2>1. proc[p].conf = file BY <1>2, <1>6 DEF SoundProc
    <2>2. s = file.accounts /\ e \notin ToSet(s) BY <1>1, <2>1 DEF Has
    <2>3. Backed(Append(s, e), keyring') BY <1>4, <1>5, <1>6, <2>2, AppendBacked
    <2>4. ToSet(s) \subseteq ToSet(Append(s, e)) BY <1>5, AppendType
    <2>5. Backed(file'.accounts, keyring') BY <1>4, <1>6 DEF Backed
    <2>6. \A d \in ToSet(file'.accounts) : Has(c.conf, d)
      BY <1>3, <1>4, <2>2, <2>4 DEF Has
    <2> QED BY <1>3, <2>3, <2>5, <2>6 DEF SoundProc
  <1> QED BY <1>3, <1>4, <1>6, ChangeSound

\* The first run.
LEMMA SetupSound ==
    ASSUME Typed, Sound, NEW p \in Proc, Setup(p) PROVE Sound'
  <1>1. PICK e \in Email : SetSecret(p, e, SettingUp(p, e)) BY DEF Setup, SettingUp
  <1> DEFINE c == SettingUp(p, e)
  <1>2. c \in Process /\ c.pc = "reload" /\ c.email = e BY SettingUpTyped
  <1>3. Changes(p, c) /\ file' = file /\ keyring' = keyring \cup {e}
    BY <1>1 DEF SetSecret
  <1>4. proc[p].pc = "setup" BY DEF Setup
  <1> HIDE DEF c
  <1>5. ASSUME ~proc[p].stale, Backed(file.accounts, keyring),
               SoundProc(proc[p], file, keyring)
        PROVE  Backed(file'.accounts, keyring') /\ SoundProc(c, file', keyring')
    <2>1. file'.accounts = <<>> BY <1>3, <1>4, <1>5 DEF SoundProc
    <2>2. Backed(file'.accounts, keyring') BY <1>3, <1>5 DEF Backed
    <2> QED BY <1>2, <1>3, <2>1, <2>2 DEF SoundProc
  <1> QED BY <1>2, <1>3, <1>5, ChangeSound

LEMMA SetupReloadSound ==
    ASSUME Typed, Sound, NEW p \in Proc, SetupReload(p) PROVE Sound'
  <1> DEFINE c == SetupSaving(p)
             s == file.accounts
             e == proc[p].email
  <1>1. proc[p].pc = "reload" /\ UNCHANGED <<file, keyring, clashed>> BY DEF SetupReload
  <1>2. /\ c \in Process /\ c.pc = "save" /\ c.then = "open" /\ c.stale = proc[p].stale
        /\ c.conf.accounts = Append(s, e)
    BY <1>1, SetupSavingTyped
  <1>3. proc' = [proc EXCEPT ![p] = c] BY DEF SetupReload, SetupSaving
  <1>4. e \in Email BY <1>1 DEF Typed, Shape
  <1>5. s \in Seq(Email) BY DEF Typed, TypeOK, Config
  <1> HIDE DEF c
  <1>6. \A q \in Proc : proc'[q] = IF q = p THEN c ELSE proc[q]
    BY <1>2, <1>3, StepType DEF Typed
  <1>7. ASSUME ~clashed PROVE SoundProc(c, file, keyring)
    <2> SUFFICES ASSUME ~c.stale PROVE SoundProc(c, file, keyring)
      BY DEF SoundProc
    <2>1. SoundProc(proc[p], file, keyring) /\ Backed(s, keyring) BY <1>7 DEF Sound
    <2>2. s = <<>> /\ e \in keyring BY <1>1, <1>2, <2>1 DEF SoundProc
    <2>3. ToSet(s) = {} BY <2>2 DEF ToSet
    <2>4. e \notin ToSet(s) /\ keyring \cup {e} \subseteq keyring BY <2>2, <2>3
    <2> HIDE DEF s, e
    <2>5. Backed(Append(s, e), keyring) BY <1>4, <1>5, <2>1, <2>4, AppendBacked
    <2>6. \A d \in ToSet(file.accounts) : Has(c.conf, d) BY <2>3 DEF s
    <2> QED BY <1>2, <2>5, <2>6 DEF SoundProc
  <1> QED BY <1>1, <1>6, <1>7, QuietSound

LEMMA SetPasswordSound ==
    ASSUME Typed, Sound, NEW p \in Proc, SetPassword(p) PROVE Sound'
  <1>1. /\ Changes(p, NoProc) /\ file' = file
        /\ keyring' = keyring \cup {proc[p].email}
    BY DEF SetPassword, SetSecret
  <1>2. NoProc \in Process /\ NoProc.pc = "none" BY NoProcType DEF NoProc
  <1>3. SoundProc(NoProc, file', keyring') BY <1>2, RestSound
  <1>4. Backed(file.accounts, keyring) => Backed(file'.accounts, keyring')
    BY <1>1 DEF Backed
  <1> QED BY <1>1, <1>2, <1>3, <1>4, ChangeSound

\* --remove-account: the entry is gone before its secret.
LEMMA DeleteSecretSound ==
    ASSUME Typed, Sound, NEW p \in Proc, DeleteSecret(p) PROVE Sound'
  <1> DEFINE c == [proc[p] EXCEPT !.pc = "find"]
  <1>1. proc[p].email \in Email BY DEF DeleteSecret, Typed, Shape
  <1>2. c \in Process /\ c.pc = "find" BY <1>1, GoesTyped
  <1>3. /\ Changes(p, c) /\ file' = file /\ keyring' = keyring \ {proc[p].email}
        /\ proc[p].pc = "secret"
    BY DEF DeleteSecret
  <1> HIDE DEF c
  <1>4. SoundProc(c, file', keyring') BY <1>2, RestSound
  <1>5. ASSUME ~proc[p].stale, Backed(file.accounts, keyring),
               SoundProc(proc[p], file, keyring)
        PROVE  Backed(file'.accounts, keyring')
    <2>1. proc[p].email \notin ToSet(file.accounts) BY <1>3, <1>5 DEF SoundProc, Has
    <2> QED BY <1>3, <1>5, <2>1 DEF Backed
  <1> QED BY <1>2, <1>3, <1>4, <1>5, ChangeSound

\* A step after which a process relies on nothing.
LEMMA RestStepSound ==
    ASSUME Typed, Sound, NEW p \in Proc,
           proc'[p].pc \in {"none", "password", "find", "delete", "files", "open", "run"},
           \A q \in Proc : q # p => proc'[q] = proc[q],
           UNCHANGED <<file, keyring, clashed>>
    PROVE  Sound'
  <1>1. SoundProc(proc'[p], file, keyring) BY RestSound
  <1>2. \A q \in Proc : proc'[q] = IF q = p THEN proc'[p] ELSE proc[q] OBVIOUS
  <1> QED BY <1>1, <1>2, QuietSound

LEMMA EndSound ==
    ASSUME Typed, Sound, NEW p \in Proc, End(p), UNCHANGED <<file, keyring, clashed>>
    PROVE  Sound'
  <1>1. proc'[p].pc = "none" BY EndTyped DEF NoProc
  <1> QED BY <1>1, EndTyped, RestStepSound

LEMMA GoesSound ==
    ASSUME Typed, Sound, NEW p \in Proc, NEW pc \in {"find", "files", "run"}, To(p, pc),
           UNCHANGED <<file, keyring, clashed>>
    PROVE  Sound'
  <1>1. proc \in [Proc -> Process] /\ proc[p] \in Process BY DEF Typed, TypeOK
  <1>2. proc'[p].pc = pc /\ \A q \in Proc : q # p => proc'[q] = proc[q]
    BY <1>1 DEF To, Process
  <1> QED BY <1>2, RestStepSound

LEMMA FindRowSound ==
    ASSUME Typed, Sound, NEW p \in Proc, FindRow(p) PROVE Sound'
  <1>1. proc \in [Proc -> Process] /\ proc[p] \in Process BY DEF Typed, TypeOK
  <1>2. proc'[p].pc = "delete" /\ \A q \in Proc : q # p => proc'[q] = proc[q]
    BY <1>1 DEF FindRow, Process
  <1> QED BY <1>2, RestStepSound DEF FindRow

LEMMA OpenAccountSound ==
    ASSUME Typed, Sound, NEW p \in Proc, OpenAccount(p) PROVE Sound'
  <1>1. proc \in [Proc -> Process] /\ proc[p] \in Process BY DEF Typed, TypeOK
  <1>2. proc'[p].pc = proc[p].pc /\ \A q \in Proc : q # p => proc'[q] = proc[q]
    BY <1>1 DEF OpenAccount, Process
  <1> QED BY <1>2, RestStepSound DEF OpenAccount

LEMMA InitSound == Init => Sound
  <1> SUFFICES ASSUME Init PROVE Sound OBVIOUS
  <1>1. \A p \in Proc : proc[p].pc = "none" BY DEF Init, NoProc
  <1>2. Backed(file.accounts, keyring)
    BY DEF Init, NoConfig, Backed, ToSet, IsInjective
  <1> QED BY <1>1, <1>2, RestSound DEF Sound

LEMMA NextSound == Typed /\ Sound /\ [Next]_vars => Sound'
  <1> SUFFICES ASSUME Typed, Sound, [Next]_vars PROVE Sound'
    OBVIOUS
  <1>1. CASE UNCHANGED vars BY <1>1 DEF vars, Sound
  <1>2. ASSUME NEW p \in Proc,
               \/ Empty(p) \/ Write(p) \/ SaveFails(p)
               \/ StartAdd(p) \/ Add(p)
               \/ StartSetup(p) \/ Setup(p) \/ SetupReload(p)
               \/ StartDefault(p) \/ StartPassword(p) \/ SetPassword(p)
               \/ StartRemove(p) \/ DeleteSecret(p)
        PROVE  Sound'
    BY <1>2, EmptySound, WriteSound, SaveFailsSound, StartAddSound, AddSound,
       StartSetupSound, SetupSound, SetupReloadSound, StartDefaultSound,
       StartPasswordSound, SetPasswordSound, StartRemoveSound, DeleteSecretSound
  <1>3. ASSUME NEW p \in Proc,
               \/ SecretStays(p) \/ FindRow(p) \/ DeleteRow(p)
               \/ Launch(p) \/ OpenAccount(p) \/ Opened(p)
               \/ SetDefault(p)
        PROVE  Sound'
    <2>1. CASE SecretStays(p) BY <2>1, GoesSound DEF SecretStays
    <2>2. CASE DeleteRow(p) BY <2>2, GoesSound DEF DeleteRow
    <2>3. CASE Opened(p) BY <2>3, GoesSound DEF Opened
    <2> QED BY <1>3, <2>1, <2>2, <2>3, FindRowSound, LaunchSound, OpenAccountSound,
            SetDefaultSound
  <1>4. ASSUME NEW p \in Proc,
               \/ SecretFails(p) \/ RemoveFiles(p) \/ FilesStay(p) \/ RemoveFails(p)
               \/ OpenFails(p) \/ Quit(p) \/ Crash(p)
        PROVE  Sound'
    <2>1. End(p) /\ UNCHANGED <<file, keyring, clashed>>
      BY <1>4 DEF SecretFails, RemoveFiles, FilesStay, RemoveFails, OpenFails, Quit, Crash
    <2> QED BY <2>1, EndSound
  <1>5. ASSUME NEW p \in Proc, Sync(p) \/ FetchBody(p) PROVE Sound'
    BY <1>5 DEF Sync, FetchBody, Sound
  <1> QED BY <1>1, <1>2, <1>3, <1>4, <1>5 DEF Next

LEMMA SpecSound == Spec => [](Typed /\ Sound)
  <1>1. Init => Typed /\ Sound BY InitTyped, InitSound
  <1>2. Typed /\ Sound /\ [Next]_vars => (Typed /\ Sound)' BY NextTyped, NextSound
  <1> QED BY <1>1, <1>2, PTL DEF Spec

\* For any number of accounts and processes, and whatever fails or ends at
\* whichever step: unless one process has acted on what another had changed
\* meanwhile, every configured account has its secret.
THEOREM SpecConfiguredHasSecret == Spec => []ConfiguredHasSecret
  <1>1. Typed /\ Sound => ConfiguredHasSecret BY DEF Sound, Backed, ConfiguredHasSecret
  <1> QED BY <1>1, SpecSound, PTL

\* The step of OthersKept.
KeepsOthers ==
    \A e \in Email : Has(file, e) /\ ~Has(file', e) =>
        \/ clashed'
        \/ \E p \in Proc :
            /\ Empty(p)
            /\ Has(proc[p].conf, e) \/ (Removing(p) /\ proc[p].email = e)

\* Only a save takes entries from the file: when it empties the file it has
\* all of them in hand, and when it writes there are none.
LEMMA NextKeepsOthers == Typed /\ Sound /\ [Next]_vars => KeepsOthers
  <1> SUFFICES ASSUME Typed, Sound, [Next]_vars, NEW e \in Email,
                      Has(file, e), ~Has(file', e), ~clashed'
               PROVE  \E p \in Proc :
                        /\ Empty(p)
                        /\ Has(proc[p].conf, e) \/ (Removing(p) /\ proc[p].email = e)
    BY DEF KeepsOthers
  <1>1. PICK p \in Proc : Empty(p) \/ Write(p)
    <2>1. file' # file OBVIOUS
    <2> QED
      BY <2>1 DEF Next, vars, Start, SaveFails, StartAdd, Add, SetSecret, SecretFails,
         StartSetup, Setup, SetupReload, StartDefault, StartPassword, SetPassword,
         StartRemove, DeleteSecret, SecretStays, FindRow, DeleteRow, RemoveFiles,
         FilesStay, RemoveFails, Launch, OpenAccount, OpenFails, Opened, Sync,
         FetchBody, SetDefault, Quit, Crash
  <1>2. ~clashed /\ ~proc[p].stale BY <1>1 DEF Empty, Write, Changes
  <1>3. SoundProc(proc[p], file, keyring) BY <1>2 DEF Sound
  <1>4. ~Write(p)
    <2> SUFFICES ASSUME Write(p) PROVE FALSE OBVIOUS
    <2>1. file = NoConfig BY <1>2, <1>3 DEF Write, SoundProc
    <2> QED BY <2>1 DEF NoConfig, Has, ToSet
  <1>5. Empty(p) BY <1>1, <1>4
  <1>6. Has(proc[p].conf, e) \/ (proc[p].then = "secret" /\ proc[p].email = e)
    BY <1>2, <1>3, <1>5 DEF Empty, SoundProc, Has
  <1> QED BY <1>5, <1>6 DEF Removing

\* For any number of accounts and processes: an entry is lost from the file
\* only by its removal, or when the file is emptied to be written with it,
\* unless one process has acted on what another had changed meanwhile.
THEOREM SpecOthersKept == Spec => OthersKept
  <1>1. OthersKept <=> [][KeepsOthers]_vars BY DEF OthersKept, KeepsOthers
  <1>2. Typed /\ Sound /\ [Next]_vars => [KeepsOthers]_vars BY NextKeepsOthers
  <1> QED BY <1>1, <1>2, SpecSound, PTL DEF Spec

----------------------------------------------------------------------------
(* What a removal leaves.  RemovedIsGone is about the end of a removal;    *)
(* that nothing is left then was settled by each of its steps, as long as  *)
(* no other process has undone it (`stale`) or the history `cut` tells.    *)

\* A removal that has taken the entry from the file, which has not changed since.
Leaving(c) == ~c.stale /\ c.pc \in {"secret", "find", "delete", "files"}

\* What it has done away with already.
CleanProc(c, f, keys, table, done) ==
    Leaving(c) /\ c.email \notin done =>
        /\ ~Has(f, c.email)
        /\ c.pc # "secret" => c.email \notin keys
        /\ c.pc = "delete" => \A r \in table : r.email = c.email => r.id = c.id
        /\ c.pc = "files" => \A r \in table : r.email # c.email

Clean ==
    ~clashed =>
        /\ \A p, q \in Proc : Leaving(proc[p]) /\ Leaving(proc[q]) => p = q
        /\ \A p \in Proc : CleanProc(proc[p], file, keyring, rows, cut)

\* A directory is that of its account's row, or will be removed.
Placed ==
    \A d \in dirs : d[2] \notin cut =>
        \/ [email |-> d[2], id |-> d[1]] \in rows
        \/ \E q \in Proc : proc[q].pc = "files" /\ proc[q].email = d[2] /\ proc[q].id = d[1]

Gone == Typed /\ Sound /\ Clean /\ Placed

\* A step that leaves the file and the keyring: no row is added of an account
\* that another process removes, unless the history tells.
LEMMA QuietClean ==
    ASSUME Clean, NEW p \in Proc, UNCHANGED <<file, keyring, clashed>>, cut \subseteq cut',
           \A q \in Proc : q # p => proc'[q] = proc[q],
           ~clashed => \A q \in Proc, r \in rows' \ rows :
               q # p /\ Leaving(proc[q]) /\ r.email = proc[q].email => r.email \in cut',
           ~clashed /\ Leaving(proc'[p]) =>
               Leaving(proc[p]) /\ CleanProc(proc'[p], file, keyring, rows', cut')
    PROVE  Clean'
  <1> SUFFICES ASSUME ~clashed
               PROVE  /\ \A q, s \in Proc : Leaving(proc'[q]) /\ Leaving(proc'[s]) => q = s
                      /\ \A q \in Proc : CleanProc(proc'[q], file, keyring, rows', cut')
    BY DEF Clean, CleanProc, Leaving
  <1>1. \A q \in Proc : Leaving(proc'[q]) => Leaving(proc[q]) OBVIOUS
  <1>2. \A q, s \in Proc : Leaving(proc'[q]) /\ Leaving(proc'[s]) => q = s BY <1>1 DEF Clean
  <1>3. ASSUME NEW q \in Proc, q # p PROVE CleanProc(proc'[q], file, keyring, rows', cut')
    <2>1. proc'[q] = proc[q] /\ CleanProc(proc[q], file, keyring, rows, cut)
      BY <1>3 DEF Clean
    <2>2. \A r \in rows' : Leaving(proc[q]) /\ r.email = proc[q].email
                             => r \in rows \/ r.email \in cut'
      BY <1>3
    <2> QED BY <2>1, <2>2 DEF CleanProc
  <1>4. CleanProc(proc'[p], file, keyring, rows', cut') BY DEF CleanProc
  <1> QED BY <1>2, <1>3, <1>4

\* A step that changes them makes the other processes stale.
LEMMA ChangeClean ==
    ASSUME Typed, Clean, NEW p \in Proc, NEW to \in Process, Changes(p, to),
           UNCHANGED <<rows, cut>>,
           ~clashed /\ ~proc[p].stale /\ Leaving(to) =>
               CleanProc(to, file', keyring', rows, cut)
    PROVE  Clean'
  <1> SUFFICES ASSUME ~clashed'
               PROVE  /\ \A q, s \in Proc : Leaving(proc'[q]) /\ Leaving(proc'[s]) => q = s
                      /\ \A q \in Proc : CleanProc(proc'[q], file', keyring', rows', cut')
    BY DEF Clean, CleanProc, Leaving
  <1>1. /\ proc'[p] = to /\ ~clashed /\ ~proc[p].stale
        /\ \A q \in Proc : q # p =>
             \/ proc'[q] = proc[q] /\ proc[q].pc \in {"none", "open", "run"}
             \/ proc'[q].stale
    BY ChangesType DEF Typed
  <1>2. \A q \in Proc : q # p => ~Leaving(proc'[q]) BY <1>1 DEF Leaving
  <1>3. CleanProc(to, file', keyring', rows, cut) BY <1>1 DEF CleanProc
  <1> QED BY <1>1, <1>2, <1>3 DEF CleanProc

\* Directories whose row, or whose removal, is still there.
LEMMA PlacedKept ==
    ASSUME Placed, dirs' = dirs, rows \subseteq rows', cut \subseteq cut',
           \A q \in Proc : proc[q].pc = "files" =>
               /\ proc'[q].pc = "files" /\ proc'[q].email = proc[q].email
               /\ proc'[q].id = proc[q].id
    PROVE  Placed'
  <1> SUFFICES ASSUME NEW d \in dirs, d[2] \notin cut'
               PROVE  \/ [email |-> d[2], id |-> d[1]] \in rows'
                      \/ \E q \in Proc : /\ proc'[q].pc = "files" /\ proc'[q].email = d[2]
                                         /\ proc'[q].id = d[1]
    BY DEF Placed
  <1> QED BY DEF Placed

\* A step of a process that is not at the end of a removal, nor on the way.
LEMMA IdleGone ==
    ASSUME Typed, Clean, Placed, NEW p \in Proc,
           UNCHANGED <<file, keyring, rows, dirs, clashed>>, cut \subseteq cut',
           \A q \in Proc : q # p => proc'[q] = proc[q],
           proc[p].pc # "files", ~Leaving(proc'[p])
    PROVE  Clean' /\ Placed'
  <1>1. Clean' BY QuietClean
  <1>2. Placed' BY PlacedKept
  <1> QED BY <1>1, <1>2

LEMMA ChangeGone ==
    ASSUME Typed, Clean, Placed, NEW p \in Proc, NEW to \in Process, Changes(p, to),
           UNCHANGED <<rows, dirs, cut>>, proc[p].pc # "files",
           ~clashed /\ ~proc[p].stale /\ Leaving(to) =>
               CleanProc(to, file', keyring', rows, cut)
    PROVE  Clean' /\ Placed'
  <1>1. Clean' BY ChangeClean
  <1>2. ASSUME NEW q \in Proc, proc[q].pc = "files"
        PROVE  /\ proc'[q].pc = "files" /\ proc'[q].email = proc[q].email
               /\ proc'[q].id = proc[q].id
    <2>1. q # p BY <1>2
    <2>2. proc'[q] = proc[q] \/ proc'[q] = [proc[q] EXCEPT !.stale = TRUE]
      BY <2>1, ChangesType DEF Typed
    <2>3. proc[q] \in Process BY DEF Typed, TypeOK
    <2> QED BY <1>2, <2>2, <2>3 DEF Process
  <1>3. Placed' BY <1>2, PlacedKept
  <1> QED BY <1>1, <1>3

\* A process that ends, short of the files.
LEMMA EndGone ==
    ASSUME Typed, Clean, Placed, NEW p \in Proc, End(p),
           UNCHANGED <<file, keyring, rows, dirs, clashed>>, cut \subseteq cut',
           proc[p].pc # "files"
    PROVE  Clean' /\ Placed'
  <1>1. proc'[p] = NoProc /\ \A q \in Proc : q # p => proc'[q] = proc[q] BY EndTyped
  <1>2. ~Leaving(proc'[p]) BY <1>1 DEF Leaving, NoProc
  <1> QED BY <1>1, <1>2, IdleGone

\* A process that starts is not on the way yet.
LEMMA StartGone ==
    ASSUME Typed, Clean, Placed, NEW p \in Proc, NEW to \in Process, Start(p, to),
           to.pc \in {"add", "setup", "save", "password", "open"}
    PROVE  Clean' /\ Placed'
  <1>1. /\ proc' = [proc EXCEPT ![p] = to] /\ proc[p].pc = "none"
        /\ UNCHANGED <<file, keyring, rows, dirs, cut, clashed>>
    BY DEF Start
  <1>2. proc'[p] = to /\ \A q \in Proc : q # p => proc'[q] = proc[q]
    BY <1>1, StepType DEF Typed
  <1>3. ~Leaving(proc'[p]) BY <1>2 DEF Leaving
  <1> QED BY <1>1, <1>2, <1>3, IdleGone

LEMMA InitGone == Init => Clean /\ Placed
  <1> SUFFICES ASSUME Init PROVE Clean /\ Placed OBVIOUS
  <1>1. \A p \in Proc : ~Leaving(proc[p]) BY DEF Init, NoProc, Leaving
  <1>2. Clean BY <1>1 DEF Clean, CleanProc
  <1>3. Placed BY DEF Init, Placed
  <1> QED BY <1>2, <1>3

LEMMA StartsGone ==
    ASSUME Typed, Clean, Placed, NEW p \in Proc,
           \/ StartAdd(p) \/ StartSetup(p) \/ StartDefault(p)
           \/ StartPassword(p) \/ StartRemove(p) \/ Launch(p)
    PROVE  Clean' /\ Placed'
  <1> SUFFICES \E to \in Process : /\ Start(p, to)
                                   /\ to.pc \in {"add", "setup", "save", "password", "open"}
    BY StartGone
  <1>1. CASE StartAdd(p)
    <2> DEFINE c == Loaded(p, file, "add")
    <2>1. Start(p, c) BY <1>1 DEF StartAdd
    <2>2. c \in Process /\ c.pc = "add" BY <2>1, LoadedTyped DEF Start
    <2> QED BY <2>1, <2>2
  <1>2. CASE StartSetup(p)
    <2> DEFINE c == Loaded(p, file, "setup")
    <2>1. Start(p, c) BY <1>2 DEF StartSetup
    <2>2. c \in Process /\ c.pc = "setup" BY <2>1, LoadedTyped DEF Start
    <2> QED BY <2>1, <2>2
  <1>3. CASE StartDefault(p)
    <2>1. PICK e \in ToSet(file.accounts) :
                Start(p, Saving(p, [file EXCEPT !.default = e], "none"))
      BY <1>3 DEF StartDefault
    <2>2. e \in Email BY <2>1 DEF Typed, TypeOK, Config, ToSet
    <2> DEFINE c == [file EXCEPT !.default = e]
    <2>3. c \in Config BY <2>2, DefaultConf
    <2>4. Start(p, Saving(p, c, "none")) BY <2>1
    <2> HIDE DEF c
    <2>5. Saving(p, c, "none") \in Process /\ Saving(p, c, "none").pc = "save"
      BY <2>3, SavingType DEF Typed
    <2> QED BY <2>4, <2>5
  <1>4. CASE StartPassword(p)
    <2> DEFINE c == Loaded(p, file, "password")
    <2>1. PICK e \in ToSet(file.accounts) : Start(p, [c EXCEPT !.email = e])
      BY <1>4 DEF StartPassword
    <2>2. e \in Email BY <2>1 DEF Typed, TypeOK, Config, ToSet
    <2>3. c \in Process /\ c.pc = "password" BY <2>1, LoadedTyped DEF Start
    <2> DEFINE d == [c EXCEPT !.email = e]
    <2> HIDE DEF c
    <2>4. d \in Process /\ d.pc = "password" BY <2>2, <2>3 DEF Process
    <2> QED BY <2>1, <2>4
  <1>5. CASE StartRemove(p)
    <2>1. PICK i \in DOMAIN file.accounts : Start(p, Removal(p, i)) BY <1>5 DEF StartRemove
    <2>2. Removal(p, i) \in Process /\ Removal(p, i).pc = "save" BY RemovalTyped
    <2> QED BY <2>1, <2>2
  <1>6. CASE Launch(p)
    <2> DEFINE c == [NoProc EXCEPT !.pc = "open", !.todo = file.accounts]
    <2>1. file.accounts \in Seq(Email) BY DEF Typed, TypeOK, Config
    <2>2. c \in Process /\ c.pc = "open" BY <2>1, NoProcType DEF Process, NoProc
    <2>3. Start(p, c) BY <1>6 DEF Launch
    <2> QED BY <2>2, <2>3
  <1> QED BY <1>1, <1>2, <1>3, <1>4, <1>5, <1>6

LEMMA EmptyGone ==
    ASSUME Typed, Clean, Placed, NEW p \in Proc, Empty(p) PROVE Clean' /\ Placed'
  <1> DEFINE c == [proc[p] EXCEPT !.pc = "write"]
  <1>1. c \in Process /\ c.pc = "write" BY GoesTyped
  <1>2. Changes(p, c) /\ proc[p].pc = "save" /\ UNCHANGED <<rows, dirs, cut>> BY DEF Empty
  <1> HIDE DEF c
  <1>3. ~Leaving(c) BY <1>1 DEF Leaving
  <1> QED BY <1>1, <1>2, <1>3, ChangeGone

\* A removal that has saved has taken the entry from the file.
LEMMA WriteGone ==
    ASSUME Typed, Sound, Clean, Placed, NEW p \in Proc, Write(p) PROVE Clean' /\ Placed'
  <1> DEFINE c == AfterSave(p)
  <1>1. /\ c \in Process /\ c.pc = proc[p].then
        /\ proc[p].then # "none" => c.email = proc[p].email
    BY AfterSaveType DEF Typed
  <1>2. /\ Changes(p, c) /\ proc[p].pc = "write" /\ file' = proc[p].conf
        /\ UNCHANGED <<rows, dirs, cut>>
    BY DEF Write
  <1>3. proc[p].then \in {"none", "open", "secret", "run"} BY DEF Typed, TypeOK, Process
  <1> HIDE DEF c
  <1>4. ASSUME ~clashed, ~proc[p].stale, Leaving(c)
        PROVE  CleanProc(c, file', keyring', rows, cut)
    <2>1. c.pc = "secret" /\ proc[p].then = "secret" BY <1>1, <1>3, <1>4 DEF Leaving
    <2>2. ~Has(proc[p].conf, proc[p].email) BY <1>2, <1>4, <2>1 DEF Sound, SoundProc
    <2>3. ~Has(file', c.email) BY <1>1, <1>2, <2>1, <2>2 DEF Has
    <2> QED BY <2>1, <2>3 DEF CleanProc
  <1>5. proc[p].pc # "files" BY <1>2
  <1> QED BY <1>1, <1>2, <1>4, <1>5, ChangeGone

\* A secret is stored by a command that is not a removal.
LEMMA SecretGone ==
    ASSUME Typed, Clean, Placed, NEW p \in Proc, Add(p) \/ Setup(p) \/ SetPassword(p)
    PROVE  Clean' /\ Placed'
  <1>1. \E to \in Process : /\ Changes(p, to) /\ to.pc \in {"save", "reload", "none"}
                            /\ UNCHANGED <<rows, dirs, cut>>
    <2>1. CASE Add(p)
      <3>1. PICK e \in Email : SetSecret(p, e, Adding(p, e)) BY <2>1 DEF Add, Adding
      <3>2. proc[p].pc = "add" BY <2>1 DEF Add
      <3>3. Adding(p, e) \in Process /\ Adding(p, e).pc = "save" BY <3>2, AddingTyped
      <3> QED BY <3>1, <3>3 DEF SetSecret
    <2>2. CASE Setup(p)
      <3>1. PICK e \in Email : SetSecret(p, e, SettingUp(p, e)) BY <2>2 DEF Setup, SettingUp
      <3>2. SettingUp(p, e) \in Process /\ SettingUp(p, e).pc = "reload" BY SettingUpTyped
      <3> QED BY <3>1, <3>2 DEF SetSecret
    <2>3. CASE SetPassword(p)
      <3>1. NoProc \in Process /\ NoProc.pc = "none" BY NoProcType DEF NoProc
      <3> QED BY <2>3, <3>1 DEF SetPassword, SetSecret
    <2> QED BY <2>1, <2>2, <2>3
  <1>2. proc[p].pc # "files" BY DEF Add, Setup, SetPassword
  <1>3. PICK to \in Process : /\ Changes(p, to) /\ to.pc \in {"save", "reload", "none"}
                              /\ UNCHANGED <<rows, dirs, cut>>
    BY <1>1
  <1>4. ~Leaving(to) BY <1>3 DEF Leaving
  <1> QED BY <1>2, <1>3, <1>4, ChangeGone

LEMMA DeleteSecretGone ==
    ASSUME Typed, Clean, Placed, NEW p \in Proc, DeleteSecret(p) PROVE Clean' /\ Placed'
  <1> DEFINE c == [proc[p] EXCEPT !.pc = "find"]
  <1>1. proc[p].email \in Email BY DEF DeleteSecret, Typed, Shape
  <1>2. /\ c \in Process /\ c.pc = "find" /\ c.email = proc[p].email
        /\ c.stale = proc[p].stale
    BY <1>1, GoesTyped
  <1>3. /\ Changes(p, c) /\ proc[p].pc = "secret" /\ file' = file
        /\ keyring' = keyring \ {proc[p].email} /\ UNCHANGED <<rows, dirs, cut>>
    BY DEF DeleteSecret
  <1> HIDE DEF c
  <1>4. ASSUME ~clashed, ~proc[p].stale PROVE CleanProc(c, file', keyring', rows, cut)
    <2>1. CleanProc(proc[p], file, keyring, rows, cut) /\ Leaving(proc[p])
      BY <1>3, <1>4 DEF Clean, Leaving
    <2> QED BY <1>2, <1>3, <2>1 DEF CleanProc
  <1> QED BY <1>2, <1>3, <1>4, ChangeGone

LEMMA SecretStaysGone ==
    ASSUME Typed, Clean, Placed, NEW p \in Proc, SecretStays(p) PROVE Clean' /\ Placed'
  <1> DEFINE c == [proc[p] EXCEPT !.pc = "find"]
  <1>1. proc[p].email \in Email BY DEF SecretStays, Typed, Shape
  <1>2. /\ c \in Process /\ c.pc = "find" /\ c.email = proc[p].email
        /\ c.stale = proc[p].stale
    BY <1>1, GoesTyped
  <1>3. proc' = [proc EXCEPT ![p] = c] BY DEF SecretStays, To, Typed, TypeOK
  <1> HIDE DEF c
  <1>4. proc'[p] = c /\ \A q \in Proc : q # p => proc'[q] = proc[q]
    BY <1>2, <1>3, StepType DEF Typed
  <1>5. /\ proc[p].pc = "secret" /\ cut' = cut \cup {proc[p].email}
        /\ UNCHANGED <<file, keyring, rows, dirs, clashed>>
    BY DEF SecretStays
  <1>6. CleanProc(c, file, keyring, rows', cut') BY <1>2, <1>5 DEF CleanProc
  <1>7. Leaving(c) => Leaving(proc[p]) BY <1>2, <1>5 DEF Leaving
  <1>8. Clean' BY <1>4, <1>5, <1>6, <1>7, QuietClean
  <1>9. Placed' BY <1>4, <1>5, PlacedKept
  <1> QED BY <1>8, <1>9

\* What an upsert adds is of its account.
LEMMA UpsertAdds ==
    ASSUME NEW e
    PROVE  rows \subseteq Upsert(e) /\ \A r \in Upsert(e) \ rows : r.email = e
  BY DEF Upsert

\* Only one removal can be on the way that no process has overtaken; a stale
\* one that makes a row is told by the history.
LEMMA FindRowGone ==
    ASSUME Typed, Clean, Placed, NEW p \in Proc, FindRow(p) PROVE Clean' /\ Placed'
  <1> DEFINE e == proc[p].email
             id == IdOf(e, rows')
             c == [proc[p] EXCEPT !.id = id, !.pc = "delete"]
  <1>1. proc[p] \in Process /\ proc \in [Proc -> Process] /\ TypeOK BY DEF Typed, TypeOK
  <1>2. /\ e \in Email /\ HasRoom(e) /\ rows' = Upsert(e) /\ proc[p].pc = "find"
        /\ cut' = IF proc[p].stale THEN cut \cup {e} ELSE cut
        /\ UNCHANGED <<file, keyring, dirs, clashed>>
    BY DEF FindRow, Typed, Shape
  <1>3. /\ \A r, s \in rows' : r.email = s.email \/ r.id = s.id => r = s
        /\ [email |-> e, id |-> id] \in rows'
    BY <1>1, <1>2, UpsertType
  <1>4. /\ proc'[p] = c /\ \A q \in Proc : q # p => proc'[q] = proc[q]
    BY <1>1 DEF FindRow
  <1>5. c.pc = "delete" /\ c.email = e /\ c.stale = proc[p].stale /\ c.id = id
    BY <1>1 DEF Process
  <1> HIDE DEF c
  <1>6. rows \subseteq rows' /\ \A r \in rows' \ rows : r.email = e BY <1>2, UpsertAdds
  <1>7. cut \subseteq cut' BY <1>2
  <1>8. ASSUME ~clashed, NEW q \in Proc, q # p, Leaving(proc[q]), proc[q].email = e
        PROVE  e \in cut'
    <2>1. ~Leaving(proc[p]) BY <1>8 DEF Clean
    <2>2. proc[p].stale BY <1>2, <2>1 DEF Leaving
    <2> QED BY <1>2, <2>2
  <1>9. ASSUME ~clashed, Leaving(c)
        PROVE  Leaving(proc[p]) /\ CleanProc(c, file, keyring, rows', cut')
    <2>1. Leaving(proc[p]) BY <1>2, <1>5, <1>9 DEF Leaving
    <2>2. CleanProc(proc[p], file, keyring, rows, cut) BY <1>9 DEF Clean
    <2>3. \A r \in rows' : r.email = e => r.id = id BY <1>3
    <2> HIDE DEF id
    <2> QED BY <1>2, <1>5, <1>7, <2>1, <2>2, <2>3 DEF CleanProc
  <1> HIDE DEF e, id
  <1>10. \A q \in Proc, r \in rows' \ rows :
            ~clashed /\ q # p /\ Leaving(proc[q]) /\ r.email = proc[q].email => r.email \in cut'
    BY <1>6, <1>8
  <1>11. Clean' BY <1>2, <1>4, <1>7, <1>9, <1>10, QuietClean
  <1>12. Placed' BY <1>2, <1>4, <1>6, <1>7, PlacedKept
  <1> QED BY <1>11, <1>12

\* A session that enters an account which is not in the file is told by the
\* history.
LEMMA EntersGone ==
    ASSUME Typed, Clean, Placed, NEW p \in Proc, NEW e, rows' = Upsert(e), NEW id,
           Stored(e, id, rows'), proc[p].pc \in {"open", "run"},
           UNCHANGED <<file, keyring, dirs, clashed>>,
           \A q \in Proc : q # p => proc'[q] = proc[q], ~Leaving(proc'[p])
    PROVE  Clean' /\ Placed'
  <1>1. rows \subseteq rows' /\ \A r \in rows' \ rows : r.email = e BY UpsertAdds
  <1>2. cut \subseteq cut' /\ (Has(file, e) \/ e \in cut') BY DEF Stored
  <1>3. ASSUME ~clashed, NEW q \in Proc, Leaving(proc[q]), proc[q].email = e
        PROVE  e \in cut'
    <2>1. CleanProc(proc[q], file, keyring, rows, cut) BY <1>3 DEF Clean
    <2> QED BY <1>2, <1>3, <2>1 DEF CleanProc
  <1>4. ~clashed => \A q \in Proc, r \in rows' \ rows :
            q # p /\ Leaving(proc[q]) /\ r.email = proc[q].email => r.email \in cut'
    BY <1>1, <1>3
  <1>5. Clean' BY <1>2, <1>4, QuietClean
  <1>6. Placed' BY <1>1, <1>2, PlacedKept
  <1> QED BY <1>5, <1>6

LEMMA OpenAccountGone ==
    ASSUME Typed, Clean, Placed, NEW p \in Proc, OpenAccount(p) PROVE Clean' /\ Placed'
  <1> DEFINE e == Head(proc[p].todo)
  <1>1. proc \in [Proc -> Process] /\ proc[p] \in Process BY DEF Typed, TypeOK
  <1>2. proc'[p].pc = proc[p].pc /\ \A q \in Proc : q # p => proc'[q] = proc[q]
    BY <1>1 DEF OpenAccount, Process
  <1>3. /\ proc[p].pc = "open" /\ rows' = Upsert(e) /\ Stored(e, IdOf(e, rows'), rows')
        /\ UNCHANGED <<file, keyring, dirs, clashed>>
    BY DEF OpenAccount
  <1>4. ~Leaving(proc'[p]) BY <1>2, <1>3 DEF Leaving
  <1> HIDE DEF e
  <1> QED BY <1>2, <1>3, <1>4, EntersGone

LEMMA SyncGone ==
    ASSUME Typed, Clean, Placed, NEW p \in Proc, Sync(p) PROVE Clean' /\ Placed'
  <1>1. PICK a \in Mine(p) : /\ rows' = Upsert(a.email)
                             /\ Stored(a.email, IdOf(a.email, rows'), rows')
    BY DEF Sync
  <1>2. proc[p].pc = "run" /\ UNCHANGED <<file, keyring, dirs, proc, clashed>> BY DEF Sync
  <1>3. ~Leaving(proc'[p]) BY <1>2 DEF Leaving
  <1>4. \A q \in Proc : q # p => proc'[q] = proc[q] BY <1>2
  <1> QED BY <1>1, <1>2, <1>3, <1>4, EntersGone

\* Mail is stored under the id of the account's row, or the history tells.
LEMMA FetchBodyGone ==
    ASSUME Typed, Clean, Placed, NEW p \in Proc, FetchBody(p) PROVE Clean' /\ Placed'
  <1>1. PICK a \in Mine(p) : dirs' = dirs \cup {<<a.id, a.email>>} /\ Stored(a.email, a.id, rows)
    BY DEF FetchBody
  <1>2. proc[p].pc = "run" /\ UNCHANGED <<file, keyring, rows, proc, clashed>>
    BY DEF FetchBody
  <1>3. cut \subseteq cut' /\ ([email |-> a.email, id |-> a.id] \in rows \/ a.email \in cut')
    BY <1>1 DEF Stored
  <1>4. ~Leaving(proc'[p]) BY <1>2 DEF Leaving
  <1>5. Clean' BY <1>2, <1>3, <1>4, QuietClean
  <1>6. Placed'
    <2> SUFFICES ASSUME NEW d \in dirs', d[2] \notin cut'
                 PROVE  \/ [email |-> d[2], id |-> d[1]] \in rows
                        \/ \E q \in Proc : /\ proc[q].pc = "files" /\ proc[q].email = d[2]
                                           /\ proc[q].id = d[1]
      BY <1>2 DEF Placed
    <2>1. CASE d \in dirs BY <1>3, <2>1 DEF Placed
    <2>2. CASE d = <<a.id, a.email>> BY <1>3, <2>2
    <2> QED BY <1>1, <2>1, <2>2
  <1> QED BY <1>5, <1>6

\* The row that is deleted is the removal's own, or the history tells.
LEMMA DeleteRowGone ==
    ASSUME Typed, Clean, Placed, NEW p \in Proc, DeleteRow(p) PROVE Clean' /\ Placed'
  <1> DEFINE e == proc[p].email
             c == [proc[p] EXCEPT !.pc = "files"]
  <1>1. e \in Email BY DEF DeleteRow, Typed, Shape
  <1>2. proc \in [Proc -> Process] /\ proc[p] \in Process BY DEF Typed, TypeOK
  <1>3. /\ c.pc = "files" /\ c.email = e /\ c.stale = proc[p].stale /\ c.id = proc[p].id
    BY <1>2 DEF Process
  <1>4. proc'[p] = c /\ \A q \in Proc : q # p => proc'[q] = proc[q]
    BY <1>2 DEF DeleteRow, To
  <1> HIDE DEF c
  <1>5. /\ proc[p].pc = "delete" /\ rows' = {r \in rows : r.id # proc[p].id}
        /\ cut' = cut \cup ({r.email : r \in rows \ rows'} \ {e})
        /\ UNCHANGED <<file, keyring, dirs, clashed>>
    BY DEF DeleteRow
  <1> HIDE DEF e
  <1>6. ASSUME ~clashed, Leaving(c)
        PROVE  Leaving(proc[p]) /\ CleanProc(c, file, keyring, rows', cut')
    <2>1. Leaving(proc[p]) BY <1>3, <1>5, <1>6 DEF Leaving
    <2>2. CleanProc(proc[p], file, keyring, rows, cut) BY <1>6 DEF Clean
    <2>3. e \notin cut' => \A r \in rows : r.email = e => r.id = proc[p].id
      BY <1>5, <2>1, <2>2 DEF CleanProc, e
    <2>4. e \notin cut' => \A r \in rows' : r.email # e BY <1>5, <2>3
    <2> QED BY <1>3, <1>5, <2>1, <2>2, <2>4 DEF CleanProc, e
  <1>7. Clean' BY <1>4, <1>5, <1>6, QuietClean
  <1>8. Placed'
    <2> SUFFICES ASSUME NEW d \in dirs, d[2] \notin cut'
                 PROVE  \/ [email |-> d[2], id |-> d[1]] \in rows'
                        \/ \E q \in Proc : /\ proc'[q].pc = "files" /\ proc'[q].email = d[2]
                                           /\ proc'[q].id = d[1]
      BY <1>5 DEF Placed
    <2>1. CASE \E q \in Proc : /\ proc[q].pc = "files" /\ proc[q].email = d[2]
                               /\ proc[q].id = d[1]
      BY <1>4, <1>5, <2>1
    <2>2. CASE [email |-> d[2], id |-> d[1]] \in rows'
      BY <2>2
    <2>3. CASE [email |-> d[2], id |-> d[1]] \in rows \ rows'
      <3>1. d[1] = proc[p].id BY <1>5, <2>3
      <3>2. d[2] \in {r.email : r \in rows \ rows'} BY <2>3
      <3>3. d[2] = e BY <1>5, <3>2
      <3> QED BY <1>3, <1>4, <3>1, <3>3
    <2> QED BY <1>5, <2>1, <2>2, <2>3 DEF Placed
  <1> QED BY <1>7, <1>8

\* A removal ends: its directories are removed, or the history tells that
\* they were not.
LEMMA RemoveFilesGone ==
    ASSUME Typed, Clean, Placed, NEW p \in Proc, RemoveFiles(p) PROVE Clean' /\ Placed'
  <1>1. /\ proc'[p] = NoProc /\ \A q \in Proc : q # p => proc'[q] = proc[q]
    BY EndTyped DEF RemoveFiles
  <1>2. /\ dirs' = {d \in dirs : d[1] # proc[p].id}
        /\ UNCHANGED <<file, keyring, rows, cut, clashed>>
    BY DEF RemoveFiles
  <1>3. ~Leaving(proc'[p]) BY <1>1 DEF Leaving, NoProc
  <1>4. Clean' BY <1>1, <1>2, <1>3, QuietClean
  <1>5. Placed'
    <2> SUFFICES ASSUME NEW d \in dirs, d[1] # proc[p].id, d[2] \notin cut
                 PROVE  \/ [email |-> d[2], id |-> d[1]] \in rows
                        \/ \E q \in Proc : /\ proc'[q].pc = "files" /\ proc'[q].email = d[2]
                                           /\ proc'[q].id = d[1]
      BY <1>2 DEF Placed
    <2> QED BY <1>1 DEF Placed
  <1> QED BY <1>4, <1>5

LEMMA LostGone ==
    ASSUME Typed, Clean, Placed, NEW p \in Proc, End(p), cut \subseteq cut',
           proc[p].pc = "files" => proc[p].email \in cut',
           UNCHANGED <<file, keyring, rows, dirs, clashed>>
    PROVE  Clean' /\ Placed'
  <1>1. /\ proc'[p] = NoProc /\ \A q \in Proc : q # p => proc'[q] = proc[q] BY EndTyped
  <1>2. ~Leaving(proc'[p]) BY <1>1 DEF Leaving, NoProc
  <1>3. Clean' BY <1>1, <1>2, QuietClean
  <1>4. Placed'
    <2> SUFFICES ASSUME NEW d \in dirs, d[2] \notin cut'
                 PROVE  \/ [email |-> d[2], id |-> d[1]] \in rows
                        \/ \E q \in Proc : /\ proc'[q].pc = "files" /\ proc'[q].email = d[2]
                                           /\ proc'[q].id = d[1]
      BY DEF Placed
    <2> QED BY <1>1 DEF Placed
  <1> QED BY <1>3, <1>4

LEMMA EndsGone ==
    ASSUME Typed, Clean, Placed, NEW p \in Proc,
           \/ SecretFails(p) \/ FilesStay(p) \/ RemoveFails(p)
           \/ OpenFails(p) \/ Quit(p) \/ Crash(p)
    PROVE  Clean' /\ Placed'
  <1>1. /\ End(p) /\ cut \subseteq cut' /\ UNCHANGED <<file, keyring, rows, dirs, clashed>>
        /\ proc[p].pc = "files" => proc[p].email \in cut'
    BY DEF SecretFails, FilesStay, RemoveFails, OpenFails, Quit, Crash, Removing
  <1> QED BY <1>1, LostGone

\* Steps of a command or session on the way to something else.
LEMMA OthersGone ==
    ASSUME Typed, Clean, Placed, NEW p \in Proc,
           SaveFails(p) \/ SetupReload(p) \/ SetDefault(p) \/ Opened(p)
    PROVE  Clean' /\ Placed'
  <1> SUFFICES /\ \A q \in Proc : q # p => proc'[q] = proc[q]
               /\ proc[p].pc # "files" /\ ~Leaving(proc'[p])
    BY IdleGone DEF SaveFails, SetupReload, SetDefault, Opened
  <1>1. proc \in [Proc -> Process] /\ proc[p] \in Process BY DEF Typed, TypeOK
  <1>2. \A q \in Proc : q # p => proc'[q] = proc[q]
    BY <1>1 DEF SaveFails, SetupReload, SetDefault, Opened, To
  <1>3. proc[p].pc # "files" BY DEF SaveFails, SetupReload, SetDefault, Opened
  <1>4. ~Leaving(proc'[p])
    <2>1. CASE SaveFails(p)
      <3> DEFINE to == IF proc[p].then = "run" THEN AfterSave(p) ELSE NoProc
      <3>1. to \in Process /\ to.pc \in {"none", "run"}
        BY AfterSaveType, NoProcType DEF Typed, NoProc
      <3>2. proc'[p] = to BY <1>1, <2>1 DEF SaveFails
      <3> QED BY <3>1, <3>2 DEF Leaving
    <2>2. CASE SetupReload(p)
      <3>1. proc[p].pc = "reload" BY <2>2 DEF SetupReload
      <3>2. proc'[p] = SetupSaving(p) BY <1>1, <2>2 DEF SetupReload, SetupSaving
      <3>3. SetupSaving(p).pc = "save" BY <3>1, SetupSavingTyped
      <3> QED BY <3>2, <3>3 DEF Leaving
    <2>3. CASE SetDefault(p)
      <3>1. PICK a \in Mine(p) :
                proc' = [proc EXCEPT ![p] = Saving(p, [file EXCEPT !.default = a.email], "run")]
        BY <2>3 DEF SetDefault
      <3>2. a.email \in Email BY MineType DEF Account
      <3> DEFINE f == [file EXCEPT !.default = a.email]
      <3>3. f \in Config BY <3>2, DefaultConf
      <3>4. proc'[p] = Saving(p, f, "run") BY <1>1, <3>1
      <3> HIDE DEF f
      <3>5. Saving(p, f, "run").pc = "save" BY <3>3, SavingType DEF Typed
      <3> QED BY <3>4, <3>5 DEF Leaving
    <2>4. CASE Opened(p)
      <3>1. proc'[p].pc = "run" BY <1>1, <2>4 DEF Opened, To, Process
      <3> QED BY <3>1 DEF Leaving
    <2> QED BY <2>1, <2>2, <2>3, <2>4
  <1> QED BY <1>2, <1>3, <1>4

LEMMA NextGone == Gone /\ [Next]_vars => Gone'
  <1> SUFFICES ASSUME Gone, [Next]_vars PROVE Clean' /\ Placed'
    BY NextTyped, NextSound DEF Gone
  <1> USE DEF Gone
  <1>1. CASE UNCHANGED vars
    BY <1>1 DEF vars, Clean, CleanProc, Placed
  <1>2. ASSUME NEW p \in Proc,
               \/ Empty(p) \/ Write(p) \/ SaveFails(p)
               \/ StartAdd(p) \/ Add(p) \/ SecretFails(p)
               \/ StartSetup(p) \/ Setup(p) \/ SetupReload(p)
               \/ StartDefault(p) \/ StartPassword(p) \/ SetPassword(p)
        PROVE  Clean' /\ Placed'
    BY <1>2, EmptyGone, WriteGone, OthersGone, StartsGone, SecretGone, EndsGone
  <1>3. ASSUME NEW p \in Proc,
               \/ StartRemove(p) \/ DeleteSecret(p) \/ SecretStays(p) \/ FindRow(p) \/ DeleteRow(p)
               \/ RemoveFiles(p) \/ FilesStay(p) \/ RemoveFails(p)
        PROVE  Clean' /\ Placed'
    BY <1>3, StartsGone, DeleteSecretGone, SecretStaysGone, FindRowGone, DeleteRowGone,
       RemoveFilesGone, EndsGone
  <1>4. ASSUME NEW p \in Proc,
               \/ Launch(p) \/ OpenAccount(p) \/ OpenFails(p) \/ Opened(p)
               \/ Sync(p) \/ FetchBody(p) \/ SetDefault(p) \/ Quit(p)
               \/ Crash(p)
        PROVE  Clean' /\ Placed'
    BY <1>4, StartsGone, OpenAccountGone, EndsGone, OthersGone, SyncGone, FetchBodyGone
  <1> QED BY <1>1, <1>2, <1>3, <1>4 DEF Next

LEMMA SpecGone == Spec => []Gone
  <1>1. Init => Gone BY InitTyped, InitSound, InitGone DEF Gone
  <1> QED BY <1>1, NextGone, PTL DEF Spec

\* The step of RemovedIsGone.
LeavesNothing ==
    \A p \in Proc : RemoveFiles(p) =>
        LET e == proc[p].email IN
        \/ e \in cut \/ clashed \/ proc[p].stale
        \/ \E q \in Proc \ {p} : proc[q].pc = "files" /\ proc[q].email = e
        \/ /\ ~Has(file, e) /\ e \notin keyring
           /\ \A r \in rows : r.email # e
           /\ \A d \in dirs' : d[2] # e

LEMMA GoneLeavesNothing == Gone => LeavesNothing
  <1> SUFFICES ASSUME Gone, NEW p \in Proc, RemoveFiles(p),
                      proc[p].email \notin cut, ~clashed, ~proc[p].stale,
                      \A q \in Proc \ {p} : ~(proc[q].pc = "files" /\ proc[q].email = proc[p].email)
               PROVE  /\ ~Has(file, proc[p].email) /\ proc[p].email \notin keyring
                      /\ \A r \in rows : r.email # proc[p].email
                      /\ \A d \in dirs' : d[2] # proc[p].email
    BY DEF LeavesNothing
  <1>1. proc[p].pc = "files" /\ dirs' = {d \in dirs : d[1] # proc[p].id} BY DEF RemoveFiles
  <1>2. CleanProc(proc[p], file, keyring, rows, cut) /\ Leaving(proc[p])
    BY <1>1 DEF Gone, Clean, Leaving
  <1>3. /\ ~Has(file, proc[p].email) /\ proc[p].email \notin keyring
        /\ \A r \in rows : r.email # proc[p].email
    BY <1>1, <1>2 DEF CleanProc
  <1>4. ASSUME NEW d \in dirs, d[1] # proc[p].id, d[2] = proc[p].email PROVE FALSE
    <2>1. \/ [email |-> d[2], id |-> d[1]] \in rows
          \/ \E q \in Proc : proc[q].pc = "files" /\ proc[q].email = d[2] /\ proc[q].id = d[1]
      BY <1>4 DEF Gone, Placed
    <2> QED BY <1>3, <1>4, <2>1
  <1> QED BY <1>1, <1>3, <1>4

\* For any number of accounts, of processes and of starts, and whatever fails
\* or ends at whichever step: when a removal is done, neither the file, the
\* keyring, the database nor a directory has anything of the account, unless
\* the history tells that another process or a removal cut short has left it.
THEOREM SpecRemovedIsGone == Spec => RemovedIsGone
  <1>1. RemovedIsGone <=> [][LeavesNothing]_vars BY DEF RemovedIsGone, LeavesNothing
  <1>2. Gone /\ [Next]_vars => [LeavesNothing]_vars BY GoneLeavesNothing
  <1> QED BY <1>1, <1>2, SpecGone, PTL DEF Spec
=============================================================================
