----------------------------- MODULE SpellCheck -----------------------------
(***************************************************************************)
(* Spell checking of the message body while it is typed (spellcheck.rs,    *)
(* the workers of spawn_spellchecker and the handlers of their answers in  *)
(* mail-tui/src/main.rs, misspelled_by_line of app.rs, TextArea of         *)
(* editable.rs).                                                           *)
(*                                                                         *)
(* A worker owns one hunspell process.  Requests reach it over a channel   *)
(* that keeps the latest value only; its answers and the handles of new    *)
(* workers reach the event loop over the channel all background tasks      *)
(* share.  Every opening of the compose window starts a task that looks    *)
(* for the dictionary of the keyboard layout and starts a worker for it;   *)
(* the worker before is let go when the new handle arrives.  hunspell,     *)
(* hyprctl and the dictionaries are external.                              *)
(***************************************************************************)
EXTENDS Editable, FiniteSets

CONSTANTS
    Letter, Other,  \* characters of words, and characters that are neither
    Blank,          \* in a word nor a blank; the blank
    Layouts,        \* what hyprctl may tell of the keyboards: a sequence of them,
                    \* each with `main` and `keymap`, empty if there is no answer
    LanguageOf,     \* keymap -> language code, or "" if the table has none
    Env,            \* LC_ALL, LC_MESSAGES and LANG, or "" for one without a language
    Code,           \* locale or name of a dictionary -> language code
    Installed,      \* the dictionaries, in the order they are searched for,
    ByPath,         \* and in the order of their paths
    Name, File,     \* dictionary -> its name; the file it is, by any path
    Misspelt,       \* dictionary -> the words it does not know
    MaxWindows, MaxEdits, \* bounds on windows opened and on edits in all of them
    Capacity,       \* of the channel to the event loop
    Faults          \* a subset of {"hunspell"}: a hunspell process may exit

Char == Letter \cup Other \cup {Blank}
Dict == ToSet(Installed)
Keyboard == [main : BOOLEAN, keymap : DOMAIN LanguageOf]
NoDict == "none"

ASSUME SpellCheckAssumption ==
    /\ {NL, Blank} \cap (Letter \cup Other) = {} /\ NL # Blank
    /\ NoDict \notin Dict /\ ByPath \in Seq(Dict) /\ ToSet(ByPath) = Dict
    /\ Name \in [Dict -> DOMAIN Code] /\ Dict \subseteq DOMAIN File
    /\ Layouts \subseteq Seq(Keyboard)
    /\ ToSet(Env) \subseteq DOMAIN Code \cup {""} /\ "en_US" \in DOMAIN Code
    /\ MaxWindows \in Nat /\ MaxEdits \in Nat /\ Capacity \in Nat \ {0}
    /\ Faults \subseteq {"hunspell"}

\* hunspell speaks of words only.
ASSUME MisspeltAssumption == \A d \in Dict : Misspelt[d] \subseteq Seq(Letter) \ {<<>>}

VARIABLES
    layout,    \* the keyboards and the layouts in use
    window,    \* the compose window
    nextId,    \* NEXT_COMPOSE_ID
    edits,     \* the edits made, for their bound
    handle,    \* session.spellcheck: a worker, or NoWorker
    worker,    \* the workers, by the window whose opening started them
    inbox      \* the spelling messages in the event loop's channel

vars == <<layout, window, nextId, edits, handle, worker, inbox>>

----------------------------------------------------------------------------
(* Words *)

\* The tokens of a line, as the places before their first and at their last
\* character.
Tokens(line) ==
    {t \in (0..Len(line)) \X (1..Len(line)) :
        /\ t[1] < t[2]
        /\ \A k \in t[1] + 1..t[2] : line[k] # Blank
        /\ t[1] > 0 => line[t[1]] = Blank
        /\ t[2] < Len(line) => line[t[2] + 1] = Blank}

\* normalize_word: without what is not a letter at either end.
Normalize(word) ==
    LET at == {k \in 1..Len(word) : word[k] \in Letter} IN
    IF at = {} THEN <<>> ELSE SubSeq(word, Min(at), Max(at))

Word(line, t) == Normalize(SubSeq(line, t[1] + 1, t[2]))

\* The words hunspell tells apart, and those of them dictionary d does not
\* know: check_one_line.  A full stop it may leave at the end of one is
\* normalised away.
Runs(line) ==
    {SubSeq(line, t[1] + 1, t[2]) : t \in
        {u \in (0..Len(line)) \X (1..Len(line)) :
            /\ u[1] < u[2]
            /\ \A k \in u[1] + 1..u[2] : line[k] \in Letter
            /\ u[1] > 0 => line[u[1]] \notin Letter
            /\ u[2] < Len(line) => line[u[2] + 1] \notin Letter}}
Flagged(d, line) == Runs(line) \cap Misspelt[d]

\* word_at_cursor: the first token the cursor is in, or next to.
WordAt(line, col) ==
    LET near == {t \in Tokens(line) : t[1] <= col /\ col <= t[2]} IN
    IF near = {} THEN <<>>
    ELSE Word(line, CHOOSE t \in near : \A u \in near : t[1] <= u[1])

----------------------------------------------------------------------------
(* Dictionaries *)

\* detect_locale: of the variables, the first that tells.
Locale ==
    LET set == {i \in DOMAIN Env : Env[i] # ""} IN IF set = {} THEN "en_US" ELSE Env[Min(set)]

\* active_keyboard_language: of the main keyboard, or of the first one.
KeyboardLanguage(keyboards) ==
    LET main == {i \in DOMAIN keyboards : keyboards[i].main}
    IN  CASE main # {} -> LanguageOf[keyboards[Min(main)].keymap]
          [] main = {} /\ keyboards # <<>> -> LanguageOf[Head(keyboards).keymap]
          [] OTHER -> ""

\* active_language
ActiveLanguage(keyboards) ==
    LET code == KeyboardLanguage(keyboards) IN IF code # "" THEN code ELSE Code[Locale]

\* find_dictionaries: no file twice.
Found ==
    FoldLeft(LAMBDA found, d : IF \E i \in DOMAIN found : File[found[i]] = File[d]
                                 THEN found ELSE Append(found, d),
             <<>>, Installed)

\* best_dictionary_for_language: the locale's own, or the first one.
DictionaryFor(language) ==
    LET matching == {i \in DOMAIN ByPath :
                        ByPath[i] \in ToSet(Found) /\ Code[Name[ByPath[i]]] = language}
        own      == {i \in matching : Name[ByPath[i]] = Locale}
    IN  CASE matching = {} -> NoDict
          [] own # {}      -> ByPath[Min(own)]
          [] OTHER         -> ByPath[Min(matching)]

----------------------------------------------------------------------------
(* Windows, workers and messages *)

NoWorker == -1
Workers == 0..MaxWindows

NoRequest == [kind |-> "none", id |-> 0, row |-> 0, lines |-> <<>>]
LineRequest(w) ==
    [kind |-> "line", id |-> w.id, row |-> w.body.row, lines |-> <<Line(w.body)>>]
FullRequest(w) == [kind |-> "full", id |-> w.id, row |-> 1, lines |-> w.body.lines]

\* `req` is the channel's value, `unseen` whether the worker has yet to take
\* it, `job` what it is at work on, `up` whether hunspell is still running.
NotStarted == [pc |-> "none", dict |-> NoDict, req |-> NoRequest, unseen |-> FALSE,
               job |-> NoRequest, up |-> FALSE]

\* `flags` is misspelled_by_line.  History: `typed`, the words the lines of
\* this window have had; `last`, the worker asked by the last edit, or
\* NoWorker if there was none or an older worker was still to answer, and
\* `at`, the row of that edit; `kept`, whether no other dictionary was being
\* looked for when it was opened and the layout has not changed since.
Shut == [open |-> FALSE, id |-> 0, body |-> EmptyArea, flags |-> <<>>, typed |-> {},
         last |-> NoWorker, at |-> 1, kept |-> FALSE]

Looking(k) == worker[k].pc \in {"detect", "spawn"}
Answers(k) == {i \in DOMAIN inbox : inbox[i].from = k /\ inbox[i].kind \in {"line", "full"}}
Owes(k)    == worker[k].unseen \/ worker[k].pc = "busy" \/ Answers(k) # {}

AllWords(a) == UNION {Runs(a.lines[i]) : i \in DOMAIN a.lines}

----------------------------------------------------------------------------
(* Keys.  The compose window has the focus on its body. *)

\* Plausible bug: The keyboard layout is looked up at launch only.
OpenWindowNoReload ==
    /\ ~window.open
    /\ nextId <= MaxWindows
    /\ window' = [Shut EXCEPT !.open = TRUE, !.id = nextId,
                              !.kept = \A k \in Workers : ~Looking(k)]
    /\ nextId' = nextId + 1
    /\ UNCHANGED <<layout, edits, handle, worker, inbox>>

OpenWindow ==
    /\ ~window.open
    /\ nextId <= MaxWindows
    /\ window' = [Shut EXCEPT !.open = TRUE, !.id = nextId,
                              !.kept = \A k \in Workers : ~Looking(k)]
    /\ nextId' = nextId + 1
    /\ worker' = [worker EXCEPT ![nextId].pc = "detect"]
    /\ UNCHANGED <<layout, edits, handle, inbox>>

\* Esc, or the answer of a send.
CloseWindow ==
    /\ window.open
    /\ window' = Shut
    /\ UNCHANGED <<layout, nextId, edits, handle, worker, inbox>>

\* Plausible bug: A queue of one: a request is dropped while another one waits.
AskOrDrop(req) ==
    IF handle # NoWorker /\ worker[handle].pc \in {"idle", "busy"} /\ ~worker[handle].unseen
      THEN worker' = [worker EXCEPT ![handle].req = req, ![handle].unseen = TRUE]
      ELSE UNCHANGED worker

\* request_line, request_full: a request not taken yet is replaced; one to a
\* worker that has ended is lost.
Ask(req) ==
    IF handle # NoWorker /\ worker[handle].pc \in {"idle", "busy"}
      THEN worker' = [worker EXCEPT ![handle].req = req, ![handle].unseen = TRUE]
      ELSE UNCHANGED worker

\* An edit that leaves the body `a`; one that changes the number of lines has
\* them all checked, any other the line it was made in.
Edit(a, structural) ==
    LET w == [window EXCEPT !.body = a, !.typed = @ \cup AllWords(a), !.at = a.row,
                 !.last = IF \E k \in Workers \ {handle} : Owes(k) THEN NoWorker ELSE handle]
    IN  /\ window.open
        /\ edits < MaxEdits
        /\ edits' = edits + 1
        /\ window' = w
        /\ Ask(IF structural THEN FullRequest(w) ELSE LineRequest(w))
        /\ UNCHANGED <<layout, nextId, handle, inbox>>

Insert(c) == Edit(AreaInsert(window.body, c), FALSE)
Newline   == Edit(AreaNewline(window.body), TRUE)
Backspace == Edit(AreaBackspace(window.body), Joins(window.body))

MoveCursor ==
    /\ window.open
    /\ \E a \in {AreaLeft(window.body), AreaRight(window.body),
                 AreaUp(window.body), AreaDown(window.body)} :
            /\ a # window.body
            /\ window' = [window EXCEPT !.body = a]
    /\ UNCHANGED <<layout, nextId, edits, handle, worker, inbox>>

\* Outside the program, and between two messages only.
SwitchLayout(l) ==
    /\ ~window.open
    /\ l # layout
    /\ layout' = l
    /\ UNCHANGED <<window, nextId, edits, handle, worker, inbox>>

----------------------------------------------------------------------------
(* spawn_spellchecker_reload, and the worker it starts *)

Detect(k) ==
    /\ worker[k].pc = "detect"
    /\ worker' = [worker EXCEPT ![k].pc = "spawn", ![k].dict = DictionaryFor(ActiveLanguage(layout))]
    /\ UNCHANGED <<layout, window, nextId, edits, handle, inbox>>

Send(msg) == Len(inbox) < Capacity /\ inbox' = Append(inbox, msg)
Ready(k, ok) ==
    [kind |-> "ready", from |-> IF ok THEN k ELSE NoWorker, id |-> 0, row |-> 0, flags |-> <<>>]

\* hunspell is started, or is not there; SpellCheckerReady.
Spawn(k) ==
    /\ worker[k].pc = "spawn"
    /\ \E ok \in BOOLEAN :
        /\ ok => worker[k].dict # NoDict
        /\ ~ok => worker[k].dict = NoDict \/ "hunspell" \in Faults
        /\ Send(Ready(k, ok))
        /\ worker' = [worker EXCEPT ![k].pc = IF ok THEN "idle" ELSE "ended", ![k].up = ok]
    /\ UNCHANGED <<layout, window, nextId, edits, handle>>

Take(k) ==
    /\ worker[k].pc = "idle"
    /\ worker[k].unseen
    /\ worker' = [worker EXCEPT ![k].pc = "busy", ![k].job = worker[k].req,
                                 ![k].req = NoRequest, ![k].unseen = FALSE]
    /\ UNCHANGED <<layout, window, nextId, edits, handle, inbox>>

Checked(k) == [i \in DOMAIN worker[k].job.lines |-> Flagged(worker[k].dict, worker[k].job.lines[i])]

\* hunspell gone while the last line was checked: what it had said by then is
\* taken for the whole.
Cut(found) == {[found EXCEPT ![Len(found)] = s] : s \in SUBSET Last(found)}

Answer(k) ==
    /\ worker[k].pc = "busy"
    /\ \E flags \in IF worker[k].up THEN {Checked(k)} ELSE Cut(Checked(k)) :
            Send([kind |-> worker[k].job.kind, from |-> k, id |-> worker[k].job.id,
                  row |-> worker[k].job.row, flags |-> flags])
    /\ worker' = [worker EXCEPT ![k].pc = "idle", ![k].job = NoRequest]
    /\ UNCHANGED <<layout, window, nextId, edits, handle>>

HunspellExits(k) ==
    /\ "hunspell" \in Faults
    /\ worker[k].up
    /\ worker' = [worker EXCEPT ![k].up = FALSE]
    /\ UNCHANGED <<layout, window, nextId, edits, handle, inbox>>

Ended(k) == [NotStarted EXCEPT !.pc = "ended", !.dict = worker[k].dict]

\* A write to a hunspell that is gone: the worker ends.
Fail(k) ==
    /\ worker[k].pc = "busy"
    /\ ~worker[k].up
    /\ worker' = [worker EXCEPT ![k] = Ended(k)]
    /\ UNCHANGED <<layout, window, nextId, edits, handle, inbox>>

\* Its handle has been dropped, and there is nothing left to take.
LetGo(k) ==
    /\ worker[k].pc = "idle"
    /\ ~worker[k].unseen
    /\ handle # k
    /\ \A i \in DOMAIN inbox : inbox[i].kind = "ready" => inbox[i].from # k
    /\ worker' = [worker EXCEPT ![k] = Ended(k)]
    /\ UNCHANGED <<layout, window, nextId, edits, handle, inbox>>

----------------------------------------------------------------------------
(* The event loop takes a message *)

\* set_line_misspellings
SetLine(flags, row, words) ==
    [i \in 1..Max({row, Len(flags)}) |->
        IF i = row THEN words ELSE IF i \in DOMAIN flags THEN flags[i] ELSE {}]

\* Plausible bug: Whatever window is open takes the answer.
IsForAny(msg, w) == w.open

\* Whether the answer is for the window now open.
IsFor(msg, w) == w.open /\ msg.id = w.id

Apply ==
    /\ inbox # <<>>
    /\ inbox' = Tail(inbox)
    /\ LET msg == Head(inbox) IN
        \/ /\ msg.kind = "ready"
           /\ handle' = msg.from
           /\ UNCHANGED window
        \/ /\ msg.kind \in {"line", "full"}
           /\ ~IsFor(msg, window)
           /\ UNCHANGED <<handle, window>>
        \/ /\ msg.kind = "line"
           /\ IsFor(msg, window)
           /\ window' = [window EXCEPT !.flags = SetLine(@, msg.row, msg.flags[1])]
           /\ UNCHANGED handle
        \/ /\ msg.kind = "full"
           /\ IsFor(msg, window)
           /\ window' = [window EXCEPT !.flags = msg.flags]
           /\ UNCHANGED handle
    /\ UNCHANGED <<layout, nextId, edits, worker>>

----------------------------------------------------------------------------
(* The specification *)

\* Spell checking is set up before the event loop starts: worker 0.
Init ==
    /\ layout \in Layouts
    /\ window = Shut
    /\ nextId = 1
    /\ edits = 0
    /\ handle = IF DictionaryFor(ActiveLanguage(layout)) = NoDict THEN NoWorker ELSE 0
    /\ worker = [k \in Workers |->
            IF k = handle
              THEN [NotStarted EXCEPT !.pc = "idle", !.up = TRUE,
                                      !.dict = DictionaryFor(ActiveLanguage(layout))]
              ELSE NotStarted]
    /\ inbox = <<>>

Key ==
    \/ OpenWindow \/ CloseWindow
    \/ \E c \in Char : Insert(c)
    \/ Newline \/ Backspace \/ MoveCursor
    \/ \E l \in Layouts : SwitchLayout(l)

Background ==
    \E k \in Workers :
        \/ Detect(k) \/ Spawn(k) \/ Take(k) \/ Answer(k)
        \/ HunspellExits(k) \/ Fail(k) \/ LetGo(k)

Next == Key \/ Background \/ Apply

Spec == Init /\ [][Next]_vars

----------------------------------------------------------------------------
(* Properties *)

Row == 1..MaxEdits + 1
RequestOK(r) ==
    /\ r.kind \in {"none", "line", "full"} /\ r.id \in 0..MaxWindows
    /\ r.row \in 0..MaxEdits + 1 /\ r.lines \in Seq(Seq(Char))

\* Rows and columns stay inside the text, where the code indexes with them.
TypeOK ==
    /\ layout \in Layouts
    /\ AreaOK(window.body, Char)
    /\ \A i \in DOMAIN window.flags : window.flags[i] \subseteq Seq(Letter)
    /\ Len(window.flags) <= MaxEdits + 1
    /\ window.last \in Workers \cup {NoWorker}
    /\ nextId \in 1..MaxWindows + 1
    /\ handle \in Workers \cup {NoWorker}
    /\ \A k \in Workers :
        /\ worker[k].pc \in {"none", "detect", "spawn", "idle", "busy", "ended"}
        /\ worker[k].dict \in Dict \cup {NoDict}
        /\ RequestOK(worker[k].req) /\ RequestOK(worker[k].job)
        /\ worker[k].pc = "busy" => worker[k].job.row \in Row
    /\ Len(inbox) <= Capacity

\* A window only ever shows words as misspelt that were typed in it, however
\* late an answer for a window before it arrives, and from whichever worker:
\* "silently patching text the user never typed" (BgMsg::SpellCheckLine).
OwnWords == \A i \in DOMAIN window.flags : window.flags[i] \subseteq window.typed

Quiet == inbox = <<>> /\ \A k \in Workers : ~Owes(k) /\ ~Looking(k)

\* misspelled_word_at_cursor
Popup ==
    LET a == window.body
        word == WordAt(Line(a), a.col)
    IN  IF a.row \in DOMAIN window.flags /\ word \in window.flags[a.row] THEN word ELSE <<>>

\* spellcheck_line of ui/compose.rs: the tokens of a line that are underlined.
Underlined(i) ==
    {t \in Tokens(window.body.lines[i]) :
        i \in DOMAIN window.flags /\ Word(window.body.lines[i], t) \in window.flags[i]}

\* Once all is answered, what is underlined in the line last edited are the
\* words the dictionary does not know, and the popup tells the truth about
\* each of them -- unless an older worker still had an answer to give, or
\* hunspell has exited.  No answer is lost to a replaced request, to a full
\* channel or to a worker that has been replaced meanwhile.
LastEditChecked ==
    LET k       == window.last
        line    == window.body.lines[window.at]
        word    == WordAt(line, window.body.col)
        wrong   == Misspelt[worker[k].dict]
    IN  Quiet /\ window.open /\ k # NoWorker /\ worker[k].up =>
            /\ Underlined(window.at) = {t \in Tokens(line) : Word(line, t) \in wrong}
            /\ window.at = window.body.row => Popup = IF word \in wrong THEN word ELSE <<>>

\* "switching layout before writing a new email is picked up" (main.rs): once
\* the task of its opening is done, a window is checked with the dictionary
\* of the layout it was opened under, and not at all if there is none --
\* unless the task of an earlier opening was still under way.
PicksUpLayout ==
    LET d == DictionaryFor(ActiveLanguage(layout)) IN
    Quiet /\ window.open /\ window.kept =>
        \/ handle # NoWorker /\ worker[handle].dict = d
        \/ handle = NoWorker /\ (d = NoDict \/ "hunspell" \in Faults)

=============================================================================
