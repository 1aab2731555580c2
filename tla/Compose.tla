------------------------------ MODULE Compose -------------------------------
(***************************************************************************)
(* The compose window (ComposeState in app.rs, handle_compose_key in       *)
(* main.rs): its fields and their focus, the suggestions for recipients,   *)
(* and sending, with the handlers of SendDone and KnownSenders.  One       *)
(* action is one key or one message of the event loop.  The list of        *)
(* attachments is in Attachments, the misspelt words in SpellCheck, and    *)
(* what a send does until it answers in Outbox.                            *)
(***************************************************************************)
EXTENDS Recipients

CONSTANTS
    NL,
    Account,
    Cached,      \* account -> the senders of the mail it has in the cache
    TypedName, TypedText, \* the characters typed into a recipient field, into
                 \* the subject and the body
    Subject,     \* the subject of a reply
    TypedInto,   \* the fields typed into, as a bound
    MaxInput, MaxBody, \* bounds on the texts typed into a field and the body,
    MaxAccepted, \* on those a suggestion is accepted into,
    MaxFilled    \* and on how many of them are not empty

Addr == [name : Seq(Letter \cup {Comma, Quote}), email : Email]
SubjectText == Seq(Char \cup {Subject})
Area == INSTANCE Editable

ASSUME ComposeAssumption ==
    /\ Cached \in [Account -> Seq(Addr)]
    /\ TypedName \subseteq Char /\ TypedText \subseteq Char
    /\ NL \notin Char
    /\ {MaxInput, MaxBody, MaxAccepted, MaxFilled} \subseteq Nat

VARIABLES
    current,   \* the account shown
    known,     \* known_senders
    asked,     \* the accounts whose senders have been asked for, once or more,
               \* and an answer is still to come
    window,    \* the compose window
    send       \* the send under way: a set of at most one draft

vars == <<current, known, asked, window, send>>

----------------------------------------------------------------------------
(* The window *)

Recipient == {"to", "cc", "bcc"}
Input == Recipient \cup {"subject"}
Focus == <<"to", "cc", "bcc", "subject", "attachments", "body">>

NoSuggestions == [items |-> <<>>, selected |-> 0]
Blanks == [open |-> FALSE, input |-> [f \in Input |-> Area!EmptyInput],
           body |-> Area!EmptyArea, focus |-> "to", suggestions |-> NoSuggestions,
           sending |-> FALSE]

Turn(focus, by) ==
    LET i == CHOOSE i \in 1..6 : Focus[i] = focus IN Focus[((i + by - 1) % 6) + 1]

\* to_draft
Draft(w) == [value |-> [f \in Input |-> w.input[f].value], body |-> Area!AreaText(w.body)]

\* refresh_suggestions
Refresh(w) ==
    [w EXCEPT !.suggestions = [selected |-> 0,
        items |-> IF w.focus \in Recipient
                    THEN BestMatches(Query(w.input[w.focus].value), known) ELSE <<>>]]

----------------------------------------------------------------------------
(* Outside the window *)

\* switch_account
SwitchAccount ==
    /\ ~window.open
    /\ current' \in Account \ {current}
    /\ known' = <<>>
    /\ asked' = asked \cup {current'}
    /\ UNCHANGED <<window, send>>

\* A sync of the account shown is done, or its IDLE loop has new mail.
AskAgain ==
    /\ asked' = asked \cup {current}
    /\ UNCHANGED <<current, known, window, send>>

\* Plausible bug: whichever account is shown takes the answer.
TakeSendersOfAny(a) == known' = KnownSenders(Cached[a])
\* An answer for another account is dropped.
TakeSenders(a) == known' = IF a = current THEN KnownSenders(Cached[a]) ELSE known

KnownSendersDone ==
    /\ \E a \in asked :
        /\ asked' \in {asked \ {a}, asked}
        /\ TakeSenders(a) \/ UNCHANGED known    \* Ok, or an error
    /\ UNCHANGED <<current, window, send>>

\* `c`
StartBlank ==
    /\ ~window.open
    /\ window' = [Blanks EXCEPT !.open = TRUE]
    /\ UNCHANGED <<current, known, asked, send>>

\* `r`, to the first sender of the message, if it names any.
Reply ==
    /\ ~window.open
    /\ \E to \in {<<>>} \cup {<<Cached[current][i].email>> : i \in DOMAIN Cached[current]} :
        window' = [Blanks EXCEPT !.open = TRUE, !.focus = "body",
                     !.input["to"] = Area!WithValue(to),
                     !.input["subject"] = Area!WithValue(<<Subject>>)]
    /\ UNCHANGED <<current, known, asked, send>>

----------------------------------------------------------------------------
(* Keys in the window.  A key is what it makes of the window. *)

\* Plausible bug: keys work while the mail is being sent.
KeyWhileSending(w) == window.open /\ window' = w /\ UNCHANGED <<current, known, asked, send>>
Key(w) ==
    /\ window.open
    /\ ~window.sending
    /\ window' = w
    /\ UNCHANGED <<current, known, asked, send>>

Dropdown == window.focus \in Recipient /\ window.suggestions.items # <<>>

\* Up and down in the dropdown.
Choose ==
    /\ Dropdown
    /\ \E i \in {window.suggestions.selected - 1, window.suggestions.selected + 1} :
        /\ i \in 0..Len(window.suggestions.items) - 1
        /\ Key([window EXCEPT !.suggestions.selected = i])

Chosen == window.suggestions.items[window.suggestions.selected + 1]

\* Enter or Tab: accept_suggestion.
Accept ==
    /\ Dropdown
    /\ LET text == Accepted(window.input[window.focus].value, Chosen) IN
        /\ Len(text) <= MaxAccepted
        /\ Key([window EXCEPT !.suggestions = NoSuggestions,
                  !.input[window.focus] = Area!WithValue(text)])

\* Esc
Dismiss == Dropdown /\ Key([window EXCEPT !.suggestions = NoSuggestions])
Discard == ~Dropdown /\ Key(Blanks)

\* Tab (and Enter, but in the body) and shift-Tab.
MoveFocus(by) == Key(Refresh([window EXCEPT !.focus = Turn(@, by)]))
NextField == ~Dropdown /\ MoveFocus(1)
PrevField == MoveFocus(5)

Written(w) == Len(Area!AreaText(w.body))
Filled(w)  == {f \in Input : w.input[f].value # <<>>} \cup (IF Written(w) > 0 THEN {"body"} ELSE {})
HasRoom(w) ==
    /\ \A f \in Input : Len(w.input[f].value) <= MaxInput
    /\ Written(w) <= MaxBody
    /\ Cardinality(Filled(w)) <= MaxFilled

\* edit_field: the field typed into comes to be `f`, or the body `a`.
Field == window.input[window.focus]
Edited(f, a) ==
    CASE window.focus \in Input -> [window EXCEPT !.input[window.focus] = f]
      [] window.focus = "body"  -> [window EXCEPT !.body = a]
      [] OTHER                  -> window

Insert ==
    window.focus \in TypedInto /\ \E c \in IF window.focus \in Recipient THEN TypedName ELSE TypedText :
        LET w == Edited(Area!InputInsert(Field, c), Area!AreaInsert(window.body, c))
        IN  HasRoom(w) /\ Key(Refresh(w))

Backspace == Key(Refresh(Edited(Area!InputBackspace(Field), Area!AreaBackspace(window.body))))

Newline ==
    LET w == [window EXCEPT !.body = Area!AreaNewline(@)] IN
    window.focus = "body" /\ HasRoom(w) /\ Key(Refresh(w))

\* None of these looks for suggestions anew.
MoveCursor ==
    \/ Key(Edited(Area!InputLeft(Field), Area!AreaLeft(window.body)))
    \/ Key(Edited(Area!InputRight(Field), Area!AreaRight(window.body)))
    \/ window.focus = "body" /\ Key([window EXCEPT !.body = Area!AreaUp(@)])
    \/ window.focus = "body" /\ Key([window EXCEPT !.body = Area!AreaDown(@)])

\* Ctrl-S
Send ==
    /\ window.open
    /\ ~window.sending
    /\ window' = [window EXCEPT !.sending = TRUE]
    /\ send' = {Draft(window)}
    /\ UNCHANGED <<current, known, asked>>

----------------------------------------------------------------------------
(* The answer of the send *)

\* smtp::build: whom it goes to, or that it fails.
To(d) == Mailboxes(d.value["to"]) \o Mailboxes(d.value["cc"]) \o Mailboxes(d.value["bcc"])
Builds(d) == To(d) # <<>> /\ \A i \in DOMAIN To(d) : IsMailbox(To(d)[i])

\* Sent, or queued.
SendOk ==
    /\ \E d \in send : Builds(d)
    /\ send' = {}
    /\ window' = Blanks
    /\ UNCHANGED <<current, known, asked>>

\* Plausible bug: the window is closed whatever the answer.
SendFailsAndCloses == send # {} /\ send' = {} /\ window' = Blanks /\ UNCHANGED <<current, known, asked>>
\* Whether the draft cannot be built, or something fails later.
SendFails ==
    /\ send # {}
    /\ send' = {}
    /\ window' = IF window.open THEN [window EXCEPT !.sending = FALSE] ELSE window
    /\ UNCHANGED <<current, known, asked>>

----------------------------------------------------------------------------
(* The specification *)

Init ==
    /\ current \in Account
    /\ known = <<>>
    /\ asked = {current}
    /\ window = Blanks
    /\ send = {}

Next ==
    \/ SwitchAccount \/ AskAgain \/ KnownSendersDone \/ StartBlank \/ Reply
    \/ Choose \/ Accept \/ Dismiss \/ Discard \/ NextField \/ PrevField
    \/ Insert \/ Backspace \/ Newline \/ MoveCursor
    \/ Send \/ SendOk \/ SendFails

Spec == Init /\ [][Next]_vars

----------------------------------------------------------------------------
(* Properties *)

\* Cursors and selections stay inside their texts and lists, where the code
\* indexes with them.
TypeOK ==
    /\ current \in Account
    /\ asked \subseteq Account
    /\ known \in Seq(Addr)
    /\ \A f \in Recipient : Area!InputOK(window.input[f], Char)
    /\ Area!InputOK(window.input["subject"], Char \cup {Subject})
    /\ Area!AreaOK(window.body, Char)
    /\ window.focus \in ToSet(Focus)
    /\ LET s == window.suggestions IN
        /\ s.items \in Seq(Addr)
        /\ s.selected \in 0..Max({0, Len(s.items) - 1})

\* The dropdown is about what is typed now, in the field that has the focus:
\* each address in it matches that, and is one of the account the mail will
\* be sent from -- however the focus moved, whatever was deleted, and
\* whenever the answers about this and other accounts arrived.
SuggestionsFit ==
    \A i \in DOMAIN window.suggestions.items :
        LET a == window.suggestions.items[i] IN
        /\ window.focus \in Recipient
        /\ Score(Spelled(Query(window.input[window.focus].value)), Label(a)) >= 0
        /\ \E j \in DOMAIN Cached[current] : Cached[current][j].email = a.email
        /\ a.email \notin NoReply

\* While a mail is being sent its window stays as it was sent: the answer
\* closes, or gives back, the text that it is the answer about.
SendingFrozen ==
    /\ send # {} <=> window.sending
    /\ \A d \in send : window.open /\ Draft(window) = d

\* An accepted suggestion is one recipient more, as smtp.rs reads the field,
\* in place of the one that was being typed: earlier ones are kept, whichever
\* way the two sides split the text.  Of names without a comma or a quote,
\* and in a field without a quote.
Plain(a) == \A i \in DOMAIN a.name : a.name[i] \notin {Comma, Quote}
AcceptAppends ==
    [][\A f \in Recipient :
        LET old == window.input[f].value
            new == window'.input[f].value
        IN  Accept /\ window.focus = f /\ Plain(Chosen) /\ Quotes(old, Len(old)) = 0 =>
                Mailboxes(new) = Append(Front(Mailboxes(old)), Display(Chosen))]_vars

\* A text that was typed is only given up by Esc, or when it was sent, to
\* someone, and each of the recipients shown could be read.
KeptUntilSent ==
    [][window.open /\ ~window'.open =>
        \/ ~window.sending
        \/ send = {Draft(window)} /\ Builds(Draft(window))]_vars

\* The body is one text with a cursor, whatever lines it is kept in.
TypesPlainText ==
    INSTANCE PlainText WITH text <- Area!AreaText(window.body), pos <- Area!AreaPos(window.body)

\* Every key does to the lines what it would do to the text they make up.
ImplementsPlainText == TypesPlainText!Spec

=============================================================================
