------------------------------ MODULE MailList ------------------------------
(***************************************************************************)
(* The event loop of mail-tui (main.rs) and the part of App (app.rs) it    *)
(* works on outside the compose window: the list of messages with its      *)
(* cursor, the reading pane, the search box, the account switch, deletion  *)
(* and load-more.                                                          *)
(*                                                                         *)
(* One action is one turn of the loop: a key, a BgMsg or a NewMail event.  *)
(* Background calls answer over a channel in whatever order they end, and  *)
(* from whatever the cache held when they read it, so a pending request    *)
(* may be answered at any time with any list of messages of its account.   *)
(* What the calls do to cache and server is InboxSync's subject.  While a  *)
(* compose window or file browser is open no key reaches what is modelled  *)
(* here; the sender list, which only the compose window uses, is left out. *)
(***************************************************************************)
EXTENDS Integers, Sequences, FiniteSets, SequencesExt

CONSTANTS
    Account,
    MaxUid,
    Text,         \* what may be in the search box
    Trim,         \* a text without the blanks around it
    BlankText,    \* the texts that are nothing but blanks
    Hits,         \* text -> UIDs whose subject or sender contains it
    DISPLAY_LIMIT,
    PAGE_JUMP,
    MaxPending    \* bound on the requests pending at a time

Uid == 1..MaxUid

ASSUME MailListAssumption ==
    /\ Trim \in [Text -> Text]
    /\ Hits \in [Text -> SUBSET Uid]
    /\ BlankText \subseteq Text /\ "" \in BlankText
    /\ {MaxUid, DISPLAY_LIMIT, PAGE_JUMP, MaxPending} \subseteq Nat

\* What spawn_bg is given; its answer carries the same tags.
Request ==
    [kind : {"sync", "list", "older"}, acct : Account]
    \cup [kind : {"body", "delete"}, acct : Account, uid : Uid]
    \cup [kind : {"search"}, acct : Account, query : Text]

On(kind, a) == [kind |-> kind, acct |-> a]
OnMessage(kind, a, u) == [kind |-> kind, acct |-> a, uid |-> u]
SearchFor(a, q) == [kind |-> "search", acct |-> a, query |-> q]

Message == [acct : Account, uid : Uid]
Newer(m, n) == m.uid > n.uid

\* The two operators on lists are defined here, as the provers know nothing
\* of the library's SortSeq and SelectSeq.

\* The rows of a list sorted by their UIDs.
NewestFirst(l) ==
    LET order == CHOOSE p \in Bijection(DOMAIN l, DOMAIN l) :
                    \A i, j \in DOMAIN l : i < j => ~Newer(l[p[j]], l[p[i]])
    IN  [i \in DOMAIN l |-> l[order[i]]]

\* The rows of a list at the places K, in the order of the list.
RowsAt(l, K) ==
    LET order == CHOOSE p \in [1..Cardinality(K) -> K] :
                    \A i, j \in 1..Cardinality(K) : i < j => p[i] < p[j]
    IN  [i \in 1..Cardinality(K) |-> l[order[i]]]

\* What list_envelopes may return: messages of one account, newest first.
Listings(a) ==
    {NewestFirst(SetToSeq({[acct |-> a, uid |-> u] : u \in S})) :
        S \in {T \in SUBSET Uid : Cardinality(T) <= DISPLAY_LIMIT}}

VARIABLES
    current,  \* the account shown
    view,     \* what is on the screen: see Views
    older,    \* has_more_older and loading_more
    confirm,  \* the message of "delete this message? [y/N]"; the code keeps
              \* its UID only, the account is the one shown when it was asked
    pending   \* how many of each request have not been answered

vars == <<current, view, older, confirm, pending>>

\* Optional values are sets of at most one element.  `selected` counts from
\* 0 among the visible rows, as in the code.
Option(S) == {{}} \cup {{x} : x \in S}
Body == [state : {"empty", "loading", "loaded", "error"}, msg : Option(Message)]
NoBody == [state |-> "empty", msg |-> {}]

Blank == [envelopes |-> <<>>, state |-> "loading", selected |-> 0, body |-> NoBody,
          search |-> {}, editing |-> FALSE]
AnyOlder == [more |-> TRUE, loading |-> FALSE]

\* visible_indices, as the messages themselves.
Visible(v) ==
    IF v.search \subseteq BlankText THEN v.envelopes
    ELSE RowsAt(v.envelopes, {i \in DOMAIN v.envelopes :
                                \E q \in v.search : v.envelopes[i].uid \in Hits[q]})

\* selected_envelope
Selected(v) ==
    IF v.selected < Len(Visible(v)) THEN {Visible(v)[v.selected + 1]} ELSE {}

AtEnd(v) == Visible(v) # <<>> /\ v.selected + 1 >= Len(Visible(v))

Least(i, j) == IF i < j THEN i ELSE j
\* Plausible bug: `selected - 1` as it stands.
MinusUnchecked(i, j) == i - j
\* saturating_sub
Minus(i, j) == IF i < j THEN 0 ELSE i - j

----------------------------------------------------------------------------
(* Background requests *)

InFlight == {p \in Request \X (1..MaxPending) : p[2] <= pending[p[1]]}

Spawn(R) ==
    /\ Cardinality(InFlight) + Cardinality(R) <= MaxPending
    /\ pending' = [r \in Request |-> IF r \in R THEN pending[r] + 1 ELSE pending[r]]

Answered(r) ==
    /\ pending[r] > 0
    /\ pending' = [pending EXCEPT ![r] = @ - 1]

AtLaunch == {On("sync", a) : a \in Account}

----------------------------------------------------------------------------
(* The program starts, with the cached list of its default account, or an  *)
(* error; every account is synchronised.                                   *)

FirstViews(a) ==
    {[Blank EXCEPT !.envelopes = l, !.state = IF l = <<>> THEN "loading" ELSE "loaded"] :
        l \in Listings(a)}
    \cup {[Blank EXCEPT !.state = "error"]}

Init ==
    /\ current \in Account
    /\ view \in FirstViews(current)
    /\ older = AnyOlder
    /\ confirm = {}
    /\ pending = [r \in Request |-> IF r \in AtLaunch THEN 1 ELSE 0]

\* Plausible bug: the question does not take the next key.
NormalWhileAsking == ~view.editing
\* Keys that are not typed into the search box, and do not answer a question.
Normal == ~view.editing /\ confirm = {}

\* `q`, or Esc without a search; the next run of the program begins.
Quit ==
    /\ Normal
    /\ current' \in Account
    /\ view' \in FirstViews(current')
    /\ older' = AnyOlder
    /\ confirm' = {}
    /\ pending' = [r \in Request |-> IF r \in AtLaunch THEN 1 ELSE 0]

----------------------------------------------------------------------------
(* Keys *)

\* maybe_load_more, once the cursor is where v has it.
MaybeLoadMore(v) ==
    IF v.search = {} /\ older.more /\ ~older.loading /\ AtEnd(v)
    THEN /\ older' = [older EXCEPT !.loading = TRUE]
         /\ Spawn({On("older", current)})
    ELSE UNCHANGED <<older, pending>>

MoveDown(i) ==
    /\ Normal
    /\ view' = [view EXCEPT !.selected = i]
    /\ MaybeLoadMore(view')
    /\ UNCHANGED <<current, confirm>>

MoveUp(i) ==
    /\ Normal
    /\ view' = [view EXCEPT !.selected = i]
    /\ UNCHANGED <<current, older, confirm, pending>>

SelectNext ==
    Visible(view) # <<>> /\ MoveDown(Least(view.selected + 1, Len(Visible(view)) - 1))
SelectPageDown ==
    Visible(view) # <<>> /\ MoveDown(Least(view.selected + PAGE_JUMP, Len(Visible(view)) - 1))
SelectBottom == MoveDown(Minus(Len(Visible(view)), 1))
SelectPrev == MoveUp(Minus(view.selected, 1))
SelectPageUp == MoveUp(Minus(view.selected, PAGE_JUMP))
SelectTop == MoveUp(0)

StartSearch ==
    /\ Normal
    /\ view' = [view EXCEPT !.search = {""}, !.editing = TRUE, !.selected = 0]
    /\ UNCHANGED <<current, older, confirm, pending>>

\* A character or Backspace in the search box; q is what it then holds.
TypeSearch(q) ==
    /\ view.editing
    /\ view' = [view EXCEPT !.search = {q}, !.selected = 0]
    /\ UNCHANGED <<current, older, confirm, pending>>

NoSearch(v) == [v EXCEPT !.search = {}, !.editing = FALSE, !.selected = 0]

\* Esc, in the search box or with a filter showing.
ClearSearch ==
    /\ view.search # {}
    /\ confirm = {}
    /\ view' = NoSearch(view)
    /\ UNCHANGED <<current, older, confirm, pending>>

\* Enter in the search box: the server is asked if nothing in the list matches.
ConfirmSearch ==
    /\ view.editing
    /\ view' = [view EXCEPT !.editing = FALSE]
    /\ IF ~view.search \subseteq BlankText /\ Visible(view) = <<>>
       THEN Spawn({SearchFor(current, Trim[q]) : q \in view.search})
       ELSE UNCHANGED pending
    /\ UNCHANGED <<current, older, confirm>>

\* `S`
Refresh ==
    /\ Normal
    /\ view' = [view EXCEPT !.state = "loading"]
    /\ Spawn({On("sync", current)})
    /\ UNCHANGED <<current, older, confirm>>

\* Enter
OpenMessage ==
    /\ Normal
    /\ \E m \in Selected(view) :
        /\ view' = [view EXCEPT !.body = [state |-> "loading", msg |-> {}]]
        /\ Spawn({OnMessage("body", current, m.uid)})
    /\ UNCHANGED <<current, older, confirm>>

\* `d`
AskDelete ==
    /\ Normal
    /\ Selected(view) # {}
    /\ confirm' = {[acct |-> current, uid |-> m.uid] : m \in Selected(view)}
    /\ UNCHANGED <<current, view, older, pending>>

\* `y`, or any other key, which is not used for anything else.
ConfirmDelete ==
    /\ ~view.editing
    /\ \E m \in confirm : Spawn({OnMessage("delete", current, m.uid)})
    /\ confirm' = {}
    /\ UNCHANGED <<current, view, older>>

CancelDelete ==
    /\ ~view.editing
    /\ confirm # {}
    /\ confirm' = {}
    /\ UNCHANGED <<current, view, older, pending>>

\* Plausible bug: reset_for_account_switch forgets loading_more.
SwitchAccountKeepsGuard(a) ==
    /\ Normal
    /\ a # current
    /\ current' = a
    /\ view' = Blank
    /\ older' = [older EXCEPT !.more = TRUE]
    /\ Spawn({On("list", a), On("sync", a)})
    /\ UNCHANGED confirm

\* Tab, BackTab or a digit: switch_account with reset_for_account_switch.
SwitchAccount(a) ==
    /\ Normal
    /\ a # current
    /\ current' = a
    /\ view' = Blank
    /\ older' = AnyOlder
    /\ Spawn({On("list", a), On("sync", a)})
    /\ UNCHANGED confirm

----------------------------------------------------------------------------
(* Answers *)

\* Plausible bug: a body is told by its UID alone.
ConcernsByUid(r) == r.kind = "body" \/ r.acct = current

Concerns(r) == r.acct = current

\* An answer about an account that is not shown, to a search the box no
\* longer holds, or with the body of a message not under the cursor.
Asked(r) ==
    CASE r.kind = "search" -> \E q \in view.search : Trim[q] = r.query
      [] r.kind = "body" -> Selected(view) # {} /\ \A m \in Selected(view) : m.uid = r.uid
      [] OTHER -> TRUE

Ignored(r) ==
    /\ ~(Concerns(r) /\ Asked(r))
    /\ Answered(r)
    /\ UNCHANGED <<current, view, older, confirm>>

Failed(r) ==
    /\ Concerns(r) /\ Asked(r)
    /\ Answered(r)
    /\ view' = CASE r.kind \in {"sync", "list"} -> [view EXCEPT !.state = "error"]
                 [] r.kind = "body" -> [view EXCEPT !.body = [state |-> "error", msg |-> {}]]
                 [] OTHER -> view
    /\ older' = IF r.kind = "older" THEN [older EXCEPT !.loading = FALSE] ELSE older
    /\ UNCHANGED <<current, confirm>>

\* Plausible bug: the row is kept, not the message.
SameRow(l) == IF view.selected < Len(l) THEN view.selected ELSE 0

\* Where the message under the cursor is in the new list, or the top.
Cursor(l) ==
    LET at == {i \in DOMAIN l : \E m \in Selected(view) : l[i].uid = m.uid}
    IN  IF at = {} THEN 0 ELSE Min(at) - 1

SyncDone(r, l) ==
    /\ r.kind = "sync" /\ Concerns(r)
    /\ Answered(r)
    /\ view' = [view EXCEPT !.envelopes = l, !.state = "loaded", !.selected = Cursor(l)]
    /\ UNCHANGED <<current, older, confirm>>

AccountEnvelopes(r, l) ==
    /\ r.kind = "list" /\ Concerns(r)
    /\ Answered(r)
    /\ view' = [view EXCEPT !.envelopes = l,
                            !.state = IF l = <<>> THEN "loading" ELSE "loaded"]
    /\ UNCHANGED <<current, older, confirm>>

BodyLoaded(r) ==
    /\ r.kind = "body" /\ Concerns(r) /\ Asked(r)
    /\ Answered(r)
    /\ view' = [view EXCEPT !.body = [state |-> "loaded",
                                      msg |-> {[acct |-> r.acct, uid |-> r.uid]}]]
    /\ UNCHANGED <<current, older, confirm>>

\* remove_envelope
Without(v, u) ==
    LET w == [v EXCEPT !.envelopes = RowsAt(@, {i \in DOMAIN @ : @[i].uid # u})]
    IN  [w EXCEPT
          !.selected = IF @ >= Len(Visible(w)) THEN Minus(Len(Visible(w)), 1) ELSE @,
          !.body = IF \E m \in @.msg : m.uid = u THEN NoBody ELSE @]

MessageDeleted(r) ==
    /\ r.kind = "delete" /\ Concerns(r)
    /\ Answered(r)
    /\ view' = Without(view, r.uid)
    /\ UNCHANGED <<current, older, confirm>>

FetchedOlder(r, any) ==
    /\ r.kind = "older" /\ Concerns(r)
    /\ pending[r] > 0
    /\ pending' = [s \in Request |->
                      CASE s = r -> pending[s] - 1
                        [] any /\ s = On("list", current) -> pending[s] + 1
                        [] OTHER -> pending[s]]
    /\ older' = [more |-> older.more /\ any, loading |-> FALSE]
    /\ UNCHANGED <<current, view, confirm>>

\* Plausible bug: the matches are taken to be new, as no row showed them.
AllFound(found) == found

\* The server's matches, without those in the list.
NotListed(found) ==
    RowsAt(found, {j \in DOMAIN found :
                     \A i \in DOMAIN view.envelopes : view.envelopes[i].uid # found[j].uid})

RemoteSearchDone(r, found) ==
    /\ r.kind = "search" /\ Concerns(r) /\ Asked(r)
    /\ Answered(r)
    /\ view' = [view EXCEPT !.envelopes = NewestFirst(@ \o NotListed(found))]
    /\ UNCHANGED <<current, older, confirm>>

\* An event of an account's IDLE loop; of another account it changes nothing.
NewMail ==
    /\ Spawn({On("list", current)})
    /\ UNCHANGED <<current, view, older, confirm>>

----------------------------------------------------------------------------

Key ==
    \/ Quit \/ SelectNext \/ SelectPageDown \/ SelectBottom
    \/ SelectPrev \/ SelectPageUp \/ SelectTop
    \/ StartSearch \/ (\E q \in Text : TypeSearch(q)) \/ ClearSearch \/ ConfirmSearch
    \/ Refresh \/ OpenMessage \/ AskDelete \/ ConfirmDelete \/ CancelDelete
    \/ \E a \in Account : SwitchAccount(a)

BgMsg ==
    \E r \in {s \in Request : pending[s] > 0} :
        \/ Ignored(r) \/ Failed(r)
        \/ \E l \in Listings(r.acct) :
            SyncDone(r, l) \/ AccountEnvelopes(r, l) \/ RemoteSearchDone(r, l)
        \/ BodyLoaded(r) \/ MessageDeleted(r)
        \/ \E any \in BOOLEAN : FetchedOlder(r, any)

Next == Key \/ BgMsg \/ NewMail

Spec == Init /\ [][Next]_vars

----------------------------------------------------------------------------
(* Properties *)

Views ==
    [envelopes : Seq(Message), state : {"loading", "loaded", "error"},
     selected : Nat, body : Body, search : Option(Text), editing : BOOLEAN]

TypeOK ==
    /\ current \in Account
    /\ view \in Views
    /\ older \in [more : BOOLEAN, loading : BOOLEAN]
    /\ confirm \in Option(Message)
    /\ pending \in [Request -> Nat]

\* Whatever the order of answers and switches, list, reading pane
\* and the delete question are of the account shown; the accounts'
\* UIDs overlap, so a wrong one would be acted upon.
ShownOfCurrent ==
    /\ \A i \in DOMAIN view.envelopes : view.envelopes[i].acct = current
    /\ \A m \in view.body.msg \cup confirm : m.acct = current

\* The list is newest first and shows no message twice, whichever of cached
\* lists, server matches and deletions came in between.
ListSorted ==
    \A i \in 1..Len(view.envelopes) - 1 : Newer(view.envelopes[i], view.envelopes[i + 1])

\* loading_more never sticks: while it stops further requests, one whose
\* answer will clear it is under way for the account shown.
LoadingMoreHasRequest == older.loading => pending[On("older", current)] > 0

Asks(r) == pending'[r] > pending[r]

\* A message is deleted only if it is the one the question was about.
DeletesWhatWasAsked ==
    [][\A r \in Request : r.kind = "delete" /\ Asks(r) =>
        confirm = {[acct |-> r.acct, uid |-> r.uid]}]_vars

Resynced == \E l \in Listings(current) : SyncDone(On("sync", current), l)

\* "Keep the cursor on the same message across a resync instead of snapping
\* back to the top" (main.rs:338): after a sync's answer the message that was
\* under the cursor still is, if it is among the rows shown.  Without a search
\* filter: with one, the code takes an index among all messages for one among
\* the rows.
CursorKeptUnfiltered ==
    [][Resynced /\ view.search \subseteq BlankText =>
        \A m \in Selected(view) \cap ToSet(Visible(view')) : Selected(view') = {m}]_vars

=============================================================================
