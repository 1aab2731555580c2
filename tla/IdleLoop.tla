------------------------------ MODULE IdleLoop ------------------------------
(***************************************************************************)
(* New mail without being asked for: one account's IDLE loop (idle.rs),    *)
(* the NewMail events it sends (events.rs), the desktop notifications made *)
(* of them (desktop_notify.rs), and how the list on the screen follows     *)
(* (main.rs), beside the synchronisations and deletions the user starts.   *)
(* The other accounts are seen only in that one of them may be shown.      *)
(*                                                                         *)
(* What a synchronisation does is InboxSync's subject: this is its course  *)
(* under one UIDVALIDITY, without flags, searches and load-more.  The list *)
(* is a set here, its order and cursor are MailList's.                     *)
(***************************************************************************)
EXTENDS Integers, Sequences, FiniteSets, SequencesExt

CONSTANTS
    Slot,          \* a bound on the calls pending beside the loop
    MaxUid,        \* a bound on the messages there ever are
    FetchLimit,    \* config fetch_limit; no more than these arrive in a session
    DISPLAY_LIMIT,
    MaxEvents,     \* bounds on the events waiting,
    MaxKeys,       \* on the keys pressed,
    MaxErrors      \* and on the network and store errors of a session

LoopId == "loop"

ASSUME IdleAssumption ==
    /\ Slot # {} /\ LoopId \notin Slot
    /\ {MaxUid, FetchLimit, DISPLAY_LIMIT, MaxEvents, MaxKeys, MaxErrors} \subseteq Nat
    /\ FetchLimit <= DISPLAY_LIMIT

VARIABLES
    inbox, given,    \* the server's messages, and the last UID it gave
    marked,          \* those marked \Deleted
    told,            \* it has told something to the loop's connection
    cache, recorded, \* the messages table, and whether UIDVALIDITY is recorded
    loop,            \* the IDLE loop; `pc` is the await it is about to take
    calls,           \* slot -> a call of the TUI, and what it will answer
    events,          \* the NewMail events sent: their new_envelopes
    screen,
    keys, errors,    \* how many there were, for their bounds
    first,           \* history: the last UID given before the session
    notified,        \* history: how often a message has been notified, and
    survived         \* how often it lost its row though EXPUNGE had left it

server == <<inbox, given, marked, told>>
store  == <<cache, recorded>>
bounds == <<keys, errors, first>>
past   == <<notified, survived>>
vars   == <<server, store, loop, calls, events, screen, bounds, past>>

Uid == 1..MaxUid
Task == Slot \cup {LoopId}

\* `here`: this account is the one shown.
Screen == [here : BOOLEAN, shown : SUBSET Uid, state : {"loading", "loaded", "error"}]

Newest(n, S) == {u \in S : Cardinality({v \in S : v > u}) < n}
CachedList == Newest(DISPLAY_LIMIT, cache)

\* `want`: the UIDs the next command names; `batch`: what it returned, or the
\* list a call has read; `next`: mailbox.uid_next; `left`: what of `want` a
\* deletion has left in the inbox, which the call itself does not know.
Free == [kind |-> "none", pc |-> "free", next |-> 0, want |-> {}, batch |-> {},
         left |-> {}, ok |-> TRUE]
Call(kind, pc) == [Free EXCEPT !.kind = kind, !.pc = pc]

At(t, pc) == IF t = LoopId THEN loop.pc = pc ELSE calls[t].pc = pc
Locals(t) == IF t = LoopId THEN loop ELSE calls[t]
Become(t, c) ==
    IF t = LoopId THEN loop' = c /\ UNCHANGED calls
    ELSE calls' = [calls EXCEPT ![t] = c] /\ UNCHANGED loop

----------------------------------------------------------------------------
(* The server (external).  It tells of new mail while the connection is in *)
(* IDLE; what came before has to be asked for.                             *)

Arrive ==
    /\ given < MaxUid
    /\ given < first + FetchLimit
    /\ given' = given + 1
    /\ inbox' = inbox \cup {given'}
    /\ told' = (told \/ loop.pc = "idle")
    /\ UNCHANGED <<marked, store, loop, calls, events, screen, bounds, past>>

----------------------------------------------------------------------------
(* sync_inbox, of the loop or of a call *)

\* The folder's row is read.
Look(t) ==
    /\ At(t, "look")
    /\ Become(t, [Locals(t) EXCEPT !.pc = IF recorded THEN "select" ELSE "first"])
    /\ UNCHANGED <<server, store, events, screen, bounds, past>>

\* SELECT: for a sync of what is new; for a first one, which takes the last
\* messages there are; or once more, to take them all.
Select(t) ==
    /\ \/ At(t, "select") /\ Become(t, [Locals(t) EXCEPT !.pc = "max", !.next = given + 1])
       \/ At(t, "first") /\ Become(t, [Locals(t) EXCEPT !.pc = "fetch",
                                                       !.want = Newest(FetchLimit, inbox)])
       \/ At(t, "again") /\ Become(t, [Locals(t) EXCEPT !.pc = "fetch", !.want = inbox])
    /\ UNCHANGED <<server, store, events, screen, bounds, past>>

\* Plausible bug: uid_next is taken for the last UID.
WantedThroughNext(S, next) == {u \in 1..MaxUid + 1 : u > Max(S) /\ u <= next}

\* Plausible bug: the newest cached message is asked for again.
WantedFromMax(S, next) == {u \in Uid : u >= Max(S) /\ u < next}

\* Above what is cached.
Wanted(S, next) == {u \in Uid : u < next /\ \A v \in S : v < u}

\* If nothing is cached, everything is asked for.
ReadMax(t) ==
    /\ At(t, "max")
    /\ Become(t, IF cache = {}
                 THEN [Locals(t) EXCEPT !.pc = "again", !.next = 0]
                 ELSE [Locals(t) EXCEPT !.pc = "fetch", !.next = 0,
                                        !.want = Wanted(cache, Locals(t).next)])
    /\ UNCHANGED <<server, store, events, screen, bounds, past>>

Fetch(t) ==
    /\ At(t, "fetch")
    /\ Become(t, [Locals(t) EXCEPT !.pc = "store", !.want = {},
                               !.batch = Locals(t).want \cap inbox])
    /\ UNCHANGED <<server, store, events, screen, bounds, past>>

Store(t) ==
    /\ At(t, "store")
    /\ cache' = cache \cup Locals(t).batch
    /\ Become(t, [Locals(t) EXCEPT !.pc = "record"])
    /\ UNCHANGED <<server, recorded, events, screen, bounds, past>>

\* A call goes on to read the list, the loop to tell of what is new.
Record(t) ==
    /\ At(t, "record")
    /\ recorded' = TRUE
    /\ Become(t, IF t = LoopId THEN [loop EXCEPT !.pc = "send"] ELSE Call("sync", "read"))
    /\ UNCHANGED <<server, cache, events, screen, bounds, past>>

SyncStep(t) == Look(t) \/ Select(t) \/ ReadMax(t) \/ Fetch(t) \/ Store(t) \/ Record(t)

----------------------------------------------------------------------------
(* idle::run.  Its first connection is made at once, a later one after the *)
(* backoff.                                                                *)

LoopGoes(from, to) == loop.pc = from /\ loop' = Call("idle", to)

Open == LoopGoes("open", "init") /\ UNCHANGED <<server, store, calls, events, screen, bounds, past>>

\* handle.init
EnterIdle == LoopGoes("init", "idle") /\ UNCHANGED <<server, store, calls, events, screen, bounds, past>>

\* Plausible bug: IDLE is issued again after IDLE_RENEW, without a sync.
WakeAndRenew ==
    /\ told' = FALSE
    /\ LoopGoes("idle", IF told THEN "look" ELSE "init")
    /\ UNCHANGED <<inbox, given, marked, store, calls, events, screen, bounds, past>>

\* wait_with_timeout ends, as the server has told something or IDLE_RENEW is
\* over, and handle.done.
Wake ==
    /\ told' = FALSE
    /\ LoopGoes("idle", "look")
    /\ UNCHANGED <<inbox, given, marked, store, calls, events, screen, bounds, past>>

SendNewMail ==
    /\ Len(events) < MaxEvents
    /\ LoopGoes("send", "init")
    /\ events' = Append(events, loop.batch)
    /\ UNCHANGED <<server, store, calls, screen, bounds, past>>

Dropped ==
    /\ errors < MaxErrors
    /\ loop.pc \notin {"open", "send"}
    /\ loop' = Call("idle", "open")
    /\ errors' = errors + 1
    /\ told' = FALSE
    /\ UNCHANGED <<inbox, given, marked, store, calls, events, screen, keys, first, past>>

----------------------------------------------------------------------------
(* Calls of the TUI: spawn_sync, spawn_account_envelopes and               *)
(* spawn_delete_message                                                    *)

\* The calls are put into free slots; which, does not matter.
Spawn(C) ==
    LET places == Injection(C, {s \in Slot : calls[s] = Free})
        place  == CHOOSE f \in places : TRUE
    IN  /\ places # {}
        /\ calls' = [s \in Slot |-> IF \E c \in C : place[c] = s
                                     THEN CHOOSE c \in C : place[c] = s ELSE calls[s]]

SyncCall == Call("sync", "look")
ListCall == Call("list", "read")

\* list_envelopes
ReadList(s) ==
    /\ At(s, "read")
    /\ calls' = [calls EXCEPT ![s] = [Call(@.kind, "answer") EXCEPT !.batch = CachedList]]
    /\ UNCHANGED <<server, store, loop, events, screen, bounds, past>>

\* Plausible bug: the row is dropped before the server has removed the message.
DeleteAtServerLast(s) ==
    /\ At(s, "expunge")
    /\ cache' = cache \ calls[s].want
    /\ calls' = [calls EXCEPT ![s].pc = "drop"]
    /\ UNCHANGED <<server, recorded, loop, events, screen, bounds, past>>

\* delete_message at the server: MOVE or UID EXPUNGE takes the message away,
\* a blind EXPUNGE with it all that are marked.
DeleteAtServer(s) ==
    /\ At(s, "expunge")
    /\ \E gone \in {calls[s].want, calls[s].want \cup marked} :
        inbox' = inbox \ gone /\ marked' = marked \ gone
    /\ calls' = [calls EXCEPT ![s].pc = "drop"]
    /\ UNCHANGED <<given, told, store, loop, events, screen, bounds, past>>

\* The message is marked, and neither EXPUNGE works: their errors are
\* ignored, and the deletion goes on.
DeleteOnlyMarks(s) ==
    /\ At(s, "expunge")
    /\ marked' = marked \cup (calls[s].want \cap inbox)
    /\ calls' = [calls EXCEPT ![s].pc = "drop", ![s].left = calls[s].want \cap inbox]
    /\ UNCHANGED <<inbox, given, told, store, loop, events, screen, bounds, past>>

Fails(s) ==
    /\ errors < MaxErrors
    /\ errors' = errors + 1
    /\ calls' = [calls EXCEPT ![s] = [Call(@.kind, "answer") EXCEPT !.ok = FALSE]]

\* MOVE or STORE takes effect, but the connection is lost before its reply.
DeleteReplyLost(s) ==
    /\ At(s, "expunge")
    /\ \/ inbox' = inbox \ calls[s].want /\ marked' = marked \ calls[s].want
       \/ inbox' = inbox /\ marked' = marked \cup (calls[s].want \cap inbox)
    /\ Fails(s)
    /\ UNCHANGED <<given, told, store, loop, events, screen, keys, first, past>>

\* Then from the cache.
DeleteRow(s) ==
    /\ At(s, "drop")
    /\ cache' = cache \ calls[s].want
    /\ survived' = [u \in Uid |->
                        survived[u] + (IF u \in calls[s].left \cap cache THEN 1 ELSE 0)]
    /\ calls' = [calls EXCEPT ![s].pc = "answer", ![s].left = {}]
    /\ UNCHANGED <<server, recorded, loop, events, screen, bounds, notified>>

CallFails(s) ==
    /\ calls[s].pc \notin {"free", "answer"}
    /\ Fails(s)
    /\ UNCHANGED <<server, store, loop, events, screen, keys, first, past>>

----------------------------------------------------------------------------
(* The event loop of the TUI *)

\* The list on the screen after the answer c; an answer about an account that
\* is not shown is ignored.
Answer(c) ==
    CASE screen.here /\ c.kind = "delete" /\ c.ok -> [screen EXCEPT !.shown = @ \ c.want]
      [] screen.here /\ c.kind # "delete" /\ ~c.ok -> [screen EXCEPT !.state = "error"]
      [] screen.here /\ c.kind # "delete" /\ c.ok ->
            [screen EXCEPT !.shown = c.batch,
                !.state = IF c.kind = "list" /\ c.batch = {} THEN "loading" ELSE "loaded"]
      [] OTHER -> screen

Answered(s) ==
    /\ At(s, "answer")
    /\ screen' = Answer(calls[s])
    /\ calls' = [calls EXCEPT ![s] = Free]
    /\ UNCHANGED <<server, store, loop, events, bounds, past>>

\* The list is read again if it is this account's; the notification is shown
\* in any case.
NewMail ==
    /\ events # <<>>
    /\ events' = Tail(events)
    /\ IF screen.here THEN Spawn({ListCall}) ELSE UNCHANGED calls
    /\ notified' = [u \in Uid |-> notified[u] + (IF u \in Head(events) THEN 1 ELSE 0)]
    /\ UNCHANGED <<server, store, loop, screen, bounds, survived>>

Key == keys < MaxKeys /\ keys' = keys + 1

\* `S`
Refresh ==
    /\ Key
    /\ screen.here
    /\ screen' = [screen EXCEPT !.state = "loading"]
    /\ Spawn({SyncCall})
    /\ UNCHANGED <<server, store, loop, events, errors, first, past>>

\* `d` and `y`
Delete ==
    /\ Key
    /\ screen.here
    /\ \E u \in screen.shown : Spawn({[Call("delete", "expunge") EXCEPT !.want = {u}]})
    /\ UNCHANGED <<server, store, loop, events, screen, errors, first, past>>

\* switch_account, to another account or to this one.  The calls about the
\* other account are not this module's.
SwitchAway ==
    /\ Key
    /\ screen.here
    /\ screen' = [here |-> FALSE, shown |-> {}, state |-> "loading"]
    /\ UNCHANGED <<server, store, loop, calls, events, errors, first, past>>

SwitchTo ==
    /\ Key
    /\ ~screen.here
    /\ screen' = [here |-> TRUE, shown |-> {}, state |-> "loading"]
    /\ Spawn({ListCall, SyncCall})
    /\ UNCHANGED <<server, store, loop, events, errors, first, past>>

----------------------------------------------------------------------------
(* The specification *)

\* The program is launched: some of the mail may be cached already, or the
\* account may never have been synchronised.
Init ==
    /\ first \in 0..MaxUid
    /\ given = first /\ inbox = 1..first /\ marked = {} /\ told = FALSE
    /\ recorded \in BOOLEAN
    /\ \E n \in 0..first : cache = IF recorded THEN 1..n ELSE {}
    /\ loop = Call("idle", "open")
    /\ calls = [s \in Slot |-> IF s = CHOOSE x \in Slot : TRUE THEN SyncCall ELSE Free]
    /\ events = <<>>
    /\ \E here \in BOOLEAN :
        screen = [here |-> here, shown |-> IF here THEN CachedList ELSE {},
                  state |-> IF here /\ cache # {} THEN "loaded" ELSE "loading"]
    /\ keys = 0 /\ errors = 0
    /\ notified = [u \in Uid |-> 0] /\ survived = [u \in Uid |-> 0]

LoopStep == SyncStep(LoopId) \/ Open \/ EnterIdle \/ Wake \/ SendNewMail
CallStep(s) ==
    \/ SyncStep(s) \/ ReadList(s)
    \/ DeleteAtServer(s) \/ DeleteOnlyMarks(s) \/ DeleteRow(s)
    \/ Answered(s)

Next ==
    \/ Arrive
    \/ LoopStep \/ Dropped
    \/ \E s \in Slot : CallStep(s) \/ CallFails(s) \/ DeleteReplyLost(s)
    \/ NewMail
    \/ Refresh \/ Delete \/ SwitchAway \/ SwitchTo

Spec == Init /\ [][Next]_vars

\* Tasks run, commands end -- the loop's wait after 29 minutes at the latest --
\* and the event loop takes each of its channels' messages in turn.  Mail need
\* not come, nor keys or errors.
Fairness ==
    /\ WF_vars(LoopStep)
    /\ \A s \in Slot : WF_vars(CallStep(s))
    /\ WF_vars(NewMail)
LiveSpec == Spec /\ Fairness

----------------------------------------------------------------------------
(* Properties *)

CallRecord ==
    [kind : {"none", "idle", "sync", "list", "delete"},
     pc : {"free", "open", "init", "idle", "look", "select", "first", "max", "again",
           "fetch", "store", "record", "send", "read", "expunge", "drop", "answer"},
     next : 0..MaxUid + 1, want : SUBSET Uid, batch : SUBSET Uid, left : SUBSET Uid,
     ok : BOOLEAN]

TypeOK ==
    /\ inbox \subseteq Uid /\ marked \subseteq inbox /\ cache \subseteq Uid
    /\ given \in 0..MaxUid /\ first \in 0..given
    /\ told \in BOOLEAN /\ recorded \in BOOLEAN
    /\ loop \in CallRecord
    /\ calls \in [Slot -> CallRecord]
    /\ events \in Seq(SUBSET Uid) /\ Len(events) <= MaxEvents
    /\ screen \in Screen
    /\ keys \in 0..MaxKeys /\ errors \in 0..MaxErrors
    /\ notified \in [Uid -> Nat] /\ survived \in [Uid -> Nat]

\* How often a message has been announced: notified, or in an event that waits.
Announced(u) == notified[u] + Cardinality({i \in DOMAIN events : u \in events[i]})

\* "Treat the local cache as the source of truth for what to display"
\* (events.rs): what an event announces can be read from the cache when it is
\* received, unless the message is gone from the server; or, where it is still
\* there, unless delete_message has dropped its row after an EXPUNGE that
\* failed, once for each time it was announced.
AnnouncedIsCached == \A u \in inbox \ cache : Announced(u) <= survived[u]

\* A message is notified once: not again when syncs of the user fetch the
\* same mail at the same time, nor when the newest message is deleted, and with
\* it the mark above which mail counts as new.  Only where delete_message has
\* ignored a failed EXPUNGE and dropped the row of a message that stays on the
\* server does the loop find it new again, once for each such deletion.
NotifiedOnce == \A u \in Uid : notified[u] <= 1 + survived[u]

\* All mail that comes in a session gets to the screen by itself -- when it
\* comes while the loop is not in IDLE, when its sync fails or its connection
\* is lost, when a list read earlier is answered later -- and stays there as
\* long as it is in the inbox, a deletion that EXPUNGE has left undone apart.
\* What the screen shows is in the end what the cache holds (a row that a sync
\* has put back after its deletion included), and no error is shown for ever.
ListCatchesUp ==
    <>[](screen.here =>
            /\ screen.shown = CachedList
            /\ {u \in inbox : u > first /\ survived[u] = 0} \subseteq screen.shown
            /\ screen.state = IF cache = {} THEN "loading" ELSE "loaded")

=============================================================================
