----------------------------- MODULE Recipients -----------------------------
(***************************************************************************)
(* The text of a recipient field: what is suggested for it (fuzzy.rs,      *)
(* known_senders of store/queries.rs), how a suggestion is put into it     *)
(* (app.rs), and whom the mail is sent to (smtp.rs).  A text is a sequence *)
(* of characters, of which an e-mail address, in angle brackets or not, is *)
(* one.  Upper and lower case are the same.                                *)
(***************************************************************************)
EXTENDS Integers, Sequences, FiniteSets, SequencesExt

CONSTANTS
    Letter,               \* characters of names
    Comma, Quote, Blank,
    Email,
    Spelling,             \* e-mail address -> the letters it is written with
    NoReply,              \* the addresses is_no_reply_address tells
    Alphabetical,         \* the addresses by the names they go by, in order
    MAX_RECIPIENT_SUGGESTIONS

Char == Letter \cup {Comma, Quote, Blank} \cup Email
Text == Seq(Char)

ASSUME RecipientsAssumption ==
    /\ Letter \cap ({Comma, Quote, Blank} \cup Email) = {}
    /\ {Comma, Quote, Blank} \cap Email = {}
    /\ Comma # Quote /\ Comma # Blank /\ Quote # Blank
    /\ Spelling \in [Email -> Seq(Letter)]
    /\ Alphabetical \in Seq(Email)
    /\ ToSet(Alphabetical) = Email /\ Len(Alphabetical) = Cardinality(Email)
    /\ MAX_RECIPIENT_SUGGESTIONS \in Nat

----------------------------------------------------------------------------
(* Addresses: an e-mail address and a name, <<>> if there is none *)

\* Address::fmt
Display(a) == Append(a.name, a.email)

Spelled(text) ==
    FoldLeft(LAMBDA t, c : t \o (IF c \in Email THEN Spelling[c] ELSE <<c>>), <<>>, text)

\* label
Label(a) == Spelled(IF a.name = <<>> THEN <<a.email>> ELSE a.name \o <<Blank, a.email>>)

\* known_senders: one address for each e-mail address in the From fields of
\* what is cached, with the last name it had there.
KnownSenders(from) ==
    LET named(m) == {i \in DOMAIN from : from[i].email = m /\ from[i].name # <<>>}
        known(m) == \E i \in DOMAIN from : from[i].email = m /\ m \notin NoReply
        as(m)    == [email |-> m, name |-> IF named(m) = {} THEN <<>> ELSE from[Max(named(m))].name]
        found    == FoldLeft(LAMBDA f, m : IF known(m) THEN Append(f, m) ELSE f, <<>>, Alphabetical)
    IN  [i \in DOMAIN found |-> as(found[i])]

----------------------------------------------------------------------------
(* Fuzzy matching *)

\* Where the letter c is next, and what it adds.  A run of letters that
\* follow one another counts the more, the longer it is.
NextLetter(hay, s, c) ==
    LET places == {i \in s.at + 1..Len(hay) : hay[i] = c}
        run    == IF Min(places) = s.at + 1 THEN s.run + 1 ELSE 1
    IN  IF ~s.matches \/ places = {} THEN [s EXCEPT !.matches = FALSE]
        ELSE [matches |-> TRUE, at |-> Min(places), run |-> run, total |-> s.total + 1 + run,
              first |-> IF s.first = 0 THEN Min(places) ELSE s.first]

\* score, or -1 if the needle is empty or not in the haystack.
Score(needle, hay) ==
    LET s == FoldLeft(LAMBDA t, c : NextLetter(hay, t, c),
                      [matches |-> TRUE, at |-> 0, run |-> 0, total |-> 0, first |-> 0], needle)
    IN  IF needle = <<>> \/ ~s.matches THEN -1 ELSE s.total + 20 - Min({s.first - 1, 20})

\* best_matches: the best first, and as in the list where they score the same.
BestMatches(query, senders) ==
    LET score == [i \in DOMAIN senders |-> Score(Spelled(query), Label(senders[i]))]
        found == {i \in DOMAIN senders : score[i] >= 0}
        n     == Cardinality(found)
        best  == CHOOSE p \in [1..n -> found] : \A j, k \in 1..n : j < k =>
                    \/ score[p[j]] > score[p[k]]
                    \/ score[p[j]] = score[p[k]] /\ p[j] < p[k]
    IN  [k \in 1..Min({n, MAX_RECIPIENT_SUGGESTIONS}) |-> senders[best[k]]]

----------------------------------------------------------------------------
(* A field *)

Trim(text) ==
    LET at == {i \in DOMAIN text : text[i] # Blank} IN
    IF at = {} THEN <<>> ELSE SubSeq(text, Min(at), Max(at))

Quotes(text, i) == Cardinality({j \in 1..i : text[j] = Quote})

\* last_recipient_separator: the last comma outside quotes; 0 for none.
Separator(text) ==
    Max({0} \cup {i \in DOMAIN text : text[i] = Comma /\ Quotes(text, i) % 2 = 0})

\* What suggestions are looked for.
Query(text) == Trim(SubSeq(text, Separator(text) + 1, Len(text)))

\* Plausible bug: the suggestion replaces all that is in the field.
AcceptedAlone(text, a) == Display(a) \o <<Comma, Blank>>
\* accept_suggestion
Accepted(text, a) ==
    LET kept == SubSeq(text, 1, Separator(text)) IN
    (IF kept = <<>> THEN <<>> ELSE Append(kept, Blank)) \o Display(a) \o <<Comma, Blank>>

----------------------------------------------------------------------------
(* What is sent *)

\* parse_mailboxes: split at every comma, trimmed, without what is empty.
Mailboxes(text) ==
    LET pieces == FoldLeft(LAMBDA ps, c : IF c = Comma THEN Append(ps, <<>>)
                                          ELSE Append(Front(ps), Append(Last(ps), c)),
                           << <<>> >>, text)
    IN  FoldLeft(LAMBDA ms, p : IF Trim(p) = <<>> THEN ms ELSE Append(ms, Trim(p)), <<>>, pieces)

\* What parses as a mailbox: an e-mail address, or a name and one.
IsMailbox(piece) ==
    /\ Last(piece) \in Email
    /\ \A i \in 1..Len(piece) - 1 : piece[i] \notin Email
    /\ Quotes(piece, Len(piece)) % 2 = 0

=============================================================================
