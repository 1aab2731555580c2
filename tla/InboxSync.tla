----------------------------- MODULE InboxSync -----------------------------
(***************************************************************************)
(* INBOX synchronisation (sync.rs, imap/client.rs): an account's mailbox   *)
(* on the IMAP server, its cache in SQLite and on disk, and the tasks that *)
(* copy the one into the other.                                            *)
(*                                                                         *)
(* A task is one call of sync_inbox, fetch_older, search_remote,           *)
(* fetch_body or delete_message, spawned by the TUI or by the IDLE loop.   *)
(* Tasks run concurrently; between two of its `.await`s a task keeps what  *)
(* it has read, while the server, the cache and the other tasks move on.   *)
(* One action is one await: a store job, a network command or a file       *)
(* operation.  Consecutive network commands that read nothing shared are   *)
(* one action (connect + login + SELECT; SELECT + UID SEARCH).             *)
(*                                                                         *)
(* The server is external.  A session is bound to the mailbox it SELECTed: *)
(* once UIDVALIDITY has changed, a FETCH of an older session only fails.   *)
(***************************************************************************)
EXTENDS MessageStore

CONSTANTS
    Task,          \* slots for concurrent calls
    Kinds,         \* the calls that are made, a subset of AllKinds
    MaxUid,        \* largest UID the server gives (2^32 - 1 in the protocol)
    MaxValidity,   \* largest UIDVALIDITY, from 1; each change increments it
    FetchLimit,    \* config fetch_limit: messages of an initial sync
    OlderBatch,    \* LOAD_MORE_BATCH: messages of one fetch_older
    SearchLimit,   \* REMOTE_SEARCH_LIMIT: matches kept by search_remote
    FlagWindow,    \* FLAG_REFRESH_WINDOW: rows whose flags a sync re-checks
    Events,        \* what happens at the server by itself, a subset of AllEvents
    Faults         \* what may go wrong, a subset of AllFaults

AllKinds  == {"sync", "older", "search", "body", "delete"}
\* New mail, another client's expunges and flag changes, a new UIDVALIDITY.
AllEvents == {"arrive", "expunge", "flag", "renumber"}
\* "net": any network command may fail.  "reply": a command may take effect
\* and its reply be lost.  "expunge": the EXPUNGE after STORE \Deleted may
\* fail.  "db": a store job may fail, and is rolled back.  "disk": a file may
\* fail to be written.  "crash": the process may end (or be quit) at any
\* moment and be started again.
AllFaults == {"net", "reply", "expunge", "db", "disk", "crash"}

ASSUME ConstantAssumption ==
    /\ Kinds \subseteq AllKinds
    /\ Events \subseteq AllEvents
    /\ Faults \subseteq AllFaults
    /\ {MaxUid, FetchLimit, OlderBatch, SearchLimit, FlagWindow} \subseteq Nat
    /\ MaxValidity \in Nat \ {0}

VARIABLES
    validity, uidNext,  \* the server's UIDVALIDITY and UIDNEXT
    inbox,              \* the server's messages: UID -> flag
    cachedValidity,     \* folders.uidvalidity; NoValidity is NULL
    cachedUidNext,      \* folders.uidnext; NoUid is NULL
    rows,               \* the messages table of the folder
    disk,               \* UID -> the `gen` of the message held by <uid>.eml
    task

server == <<validity, uidNext, inbox>>
folder == <<cachedValidity, cachedUidNext>>
cache  == <<folder, rows, disk>>
vars   == <<server, cache, task>>

NoValidity == 0
NoFile     == 0
Uid  == 1..MaxUid
\* Only three flag states matter here: as delivered, changed by the user
\* (here or from another client), and marked \Deleted.
Flag == {"unseen", "seen", "deleted"}

\* A call's local variables:
\*   kind, pc     which call, and the await it is about to take
\*   known        the UIDVALIDITY the cache held when the call read it; for
\*                body and delete, the `gen` of the row there is when the user
\*                picks the message (0: it is on the screen only)
\*   from         the UIDNEXT the cache held when a sync read it
\*   val          mailbox.uid_validity of the first SELECT (0: none yet); for
\*                body, the `gen` of the message that is returned
\*   ses          the UIDVALIDITY of the mailbox the session has selected
\*   nxt          mailbox.uid_next of the first SELECT
\*   uid          fetch_older's min_uid; for body and delete, the message
\*   uids         the UIDs the next command names
\*   batch        the envelopes, or flags, the last FETCH returned
\*   out          the UIDs of the envelopes the call returns
\*   ok           Ok or Err
Idle == [kind |-> "none", pc |-> "idle", known |-> 0, from |-> 0, val |-> 0,
         ses |-> 0, nxt |-> 0, uid |-> 0, uids |-> {}, batch |-> NoRows, out |-> {},
         ok |-> TRUE]

PC == {"idle", "select", "clear", "max", "reselect", "fetch", "store",
       "recent", "flags", "apply", "record", "search", "path", "get",
       "write", "link", "remove", "drop", "unlink", "done"}
NetworkPC == {"select", "reselect", "fetch", "flags", "search", "get", "remove"}
StorePC   == {"clear", "max", "store", "recent", "apply", "record", "path", "drop"}

At(t, kinds, pc) == task[t].kind \in kinds /\ task[t].pc = pc
Goto(t, pc)      == task' = [task EXCEPT ![t].pc = pc]

\* Ok: what the caller gets is kept, the other locals are gone.
Returning(tk, out) ==
    [tk EXCEPT !.pc = "done", !.out = out, !.uids = {}, !.batch = NoRows]
Return(t) == task' = [task EXCEPT ![t] = Returning(@, @.out)]

----------------------------------------------------------------------------
(* The server (external) *)

\* New mail.
Arrive ==
    /\ "arrive" \in Events
    /\ uidNext <= MaxUid
    /\ inbox' = [u \in DOMAIN inbox \cup {uidNext} |->
                    IF u = uidNext THEN "unseen" ELSE inbox[u]]
    /\ uidNext' = uidNext + 1
    /\ UNCHANGED <<validity, cache, task>>

\* Another client expunges or moves a message away.
Expunge ==
    /\ "expunge" \in Events
    /\ \E u \in DOMAIN inbox : inbox' = [v \in DOMAIN inbox \ {u} |-> inbox[v]]
    /\ UNCHANGED <<validity, uidNext, cache, task>>

\* Another client changes a message's flags.
ChangeFlag ==
    /\ "flag" \in Events
    /\ \E u \in DOMAIN inbox, f \in Flag :
          f # inbox[u] /\ inbox' = [inbox EXCEPT ![u] = f]
    /\ UNCHANGED <<validity, uidNext, cache, task>>

\* The mailbox is rebuilt: a new UIDVALIDITY, and UIDs given afresh from 1.
Renumber ==
    /\ "renumber" \in Events
    /\ validity < MaxValidity
    /\ validity' = validity + 1
    /\ \E n \in 0..MaxUid : /\ inbox' = [u \in 1..n |-> "unseen"]
                            /\ uidNext' = n + 1
    /\ UNCHANGED <<cache, task>>

Server == Arrive \/ Expunge \/ ChangeFlag \/ Renumber

----------------------------------------------------------------------------
(* Steps shared by the calls *)

\* What a FETCH of some UIDs returns now: the ones that exist, with the
\* envelope and the flags they have now.
Envelopes(uids) ==
    [u \in uids \cap DOMAIN inbox |-> [gen |-> validity, flag |-> inbox[u]]]

\* A network command or a store job fails, and with it the call; nothing else
\* changes.
CallFails(t) ==
    /\ \/ "net" \in Faults /\ task[t].pc \in NetworkPC
       \/ "db" \in Faults /\ task[t].pc \in StorePC
    /\ task' = [task EXCEPT ![t] = [Returning(@, {}) EXCEPT !.ok = FALSE]]
    /\ UNCHANGED <<server, cache>>

\* A session of a mailbox that no longer exists answers no more.
SessionLost(t) ==
    /\ task[t].pc \in {"fetch", "flags"}
    /\ task[t].ses # validity
    /\ task' = [task EXCEPT ![t] = [Returning(@, {}) EXCEPT !.ok = FALSE]]
    /\ UNCHANGED <<server, cache>>

\* fetch_envelope_seq_range, fetch_envelopes_by_uid.  Sequence numbers stay
\* those of the SELECT for as long as the session runs no other command, so
\* a range of them is a set of UIDs too.
Fetch(t) ==
    /\ task[t].pc = "fetch"
    /\ task[t].ses = validity
    /\ task' = [task EXCEPT ![t] = [@ EXCEPT !.pc = "store", !.uids = {},
                                             !.batch = Envelopes(task[t].uids)]]
    /\ UNCHANGED <<server, cache>>

\* store.upsert_envelopes; a sync that matched the cache's UIDVALIDITY goes
\* on to the flags, one that did not to the folder's UID state.
AfterStore(tk) ==
    IF tk.kind # "sync"
      THEN Returning(tk, DOMAIN tk.batch)
      ELSE [tk EXCEPT !.pc = IF tk.known = tk.val THEN "recent" ELSE "record",
                      !.out = DOMAIN tk.batch, !.batch = NoRows]
StoreBatch(t) ==
    /\ task[t].pc = "store"
    /\ rows' = UpsertEnvelopes(rows, task[t].batch)
    /\ task' = [task EXCEPT ![t] = AfterStore(@)]
    /\ UNCHANGED <<server, folder, disk>>

\* The caller takes the result.
Finish(t) ==
    /\ task[t].pc = "done"
    /\ task' = [task EXCEPT ![t] = Idle]
    /\ UNCHANGED <<server, cache>>

\* The process ends, by a crash or because the user quits, with calls under
\* way: the server, the database and the files are what they were.
Crash ==
    /\ "crash" \in Faults
    /\ \E t \in Task : task[t].pc # "idle"
    /\ task' = [t \in Task |-> Idle]
    /\ UNCHANGED <<server, cache>>

----------------------------------------------------------------------------
(* sync_inbox *)

\* upsert_account and get_or_create_folder, whose row is read once, here.
StartSync(t) ==
    /\ "sync" \in Kinds
    /\ task[t].pc = "idle"
    /\ task' = [task EXCEPT ![t] = [Idle EXCEPT !.kind = "sync", !.pc = "select",
                                               !.known = cachedValidity,
                                               !.from = cachedUidNext]]
    /\ UNCHANGED <<server, cache>>

\* `start..=end` of initial_sync: the last messages by sequence number, at
\* least one whatever the limit (saturating_sub), none in an empty mailbox.
LastMessages(limit) ==
    Newest(DOMAIN inbox, IF limit = 0 THEN 1 ELSE limit)

\* Plausible bug: the cached messages are kept when UIDVALIDITY changes.
AfterSelectNoClear(tk, uids) ==
    CASE tk.known = validity -> "max"
      [] OTHER -> IF uids = {} THEN "record" ELSE "fetch"
\* uidvalidity_changed and had_prior_sync.
AfterSelect(tk, uids) ==
    CASE tk.known = validity   -> "max"
      [] tk.known = NoValidity -> IF uids = {} THEN "record" ELSE "fetch"
      [] OTHER                 -> "clear"

\* open_session and select_inbox.
Select(t) ==
    /\ At(t, {"sync"}, "select")
    /\ LET uids == IF task[t].known = validity THEN {}
                   ELSE LastMessages(FetchLimit)
       IN  task' = [task EXCEPT ![t] =
                      [@ EXCEPT !.pc = AfterSelect(task[t], uids), !.uids = uids,
                                !.val = validity, !.ses = validity,
                                !.nxt = uidNext]]
    /\ UNCHANGED <<server, cache>>

\* clear_folder_messages.
Clear(t) ==
    /\ At(t, {"sync"}, "clear")
    /\ rows' = NoRows
    /\ Goto(t, IF task[t].uids = {} THEN "record" ELSE "fetch")
    /\ UNCHANGED <<server, folder, disk>>

\* Plausible bug: the first new message is taken for the last cached one.
NewUidsOffByOne(max, nxt) == (max + 2)..(nxt - 1)
\* Plausible bug: the range runs up to UIDNEXT itself.
NewUidsToNext(max, nxt) == IF nxt > max + 1 THEN (max + 1)..nxt ELSE {}
\* `{cached_max + 1}:{server_uid_next - 1}`, nothing unless
\* server_uid_next > cached_max + 1.
NewUids(max, nxt) == IF nxt > max + 1 THEN (max + 1)..(nxt - 1) ELSE {}

\* incremental_sync: max_uid, and the range it leads to.
ReadMax(t) ==
    /\ At(t, {"sync"}, "max")
    /\ LET max  == MaxUidOf(rows)
           uids == NewUids(max, task[t].nxt)
       IN  IF max = NoUid
             THEN Goto(t, "reselect")
             ELSE task' = [task EXCEPT ![t] =
                             [@ EXCEPT !.pc = IF uids = {} THEN "recent" ELSE "fetch",
                                       !.uids = uids]]
    /\ UNCHANGED <<server, cache>>

\* Nothing cached: SELECT again, then everything (a limit of u32::MAX).  The
\* UIDVALIDITY and UIDNEXT of this second SELECT are dropped.
Reselect(t) ==
    /\ At(t, {"sync"}, "reselect")
    /\ task' = [task EXCEPT ![t] =
                  [@ EXCEPT !.pc = IF DOMAIN inbox = {} THEN "recent" ELSE "fetch",
                            !.ses = validity, !.uids = DOMAIN inbox]]
    /\ UNCHANGED <<server, cache>>

\* recent_uids.
ReadRecent(t) ==
    /\ At(t, {"sync"}, "recent")
    /\ LET uids == Newest(DOMAIN rows, FlagWindow)
       IN  task' = [task EXCEPT ![t] =
                      [@ EXCEPT !.pc = IF uids = {} THEN "record" ELSE "flags",
                                !.uids = uids]]
    /\ UNCHANGED <<server, cache>>

\* fetch_flags_by_uid.
FetchFlags(t) ==
    /\ At(t, {"sync"}, "flags")
    /\ task[t].ses = validity
    /\ task' = [task EXCEPT ![t] = [@ EXCEPT !.pc = "apply", !.uids = {},
                                             !.batch = Envelopes(task[t].uids)]]
    /\ UNCHANGED <<server, cache>>

\* update_message_flags_batch.
ApplyFlags(t) ==
    /\ At(t, {"sync"}, "apply")
    /\ rows' = UpdateFlags(rows, task[t].batch)
    /\ task' = [task EXCEPT ![t] = [@ EXCEPT !.pc = "record", !.batch = NoRows]]
    /\ UNCHANGED <<server, folder, disk>>

\* Plausible bug: the folder's UID state is left to the next sync.
RecordNever(t) ==
    /\ At(t, {"sync"}, "record")
    /\ Return(t)
    /\ UNCHANGED <<server, cache>>
\* logout, whose errors are ignored, and update_folder_uid_state.
Record(t) ==
    /\ At(t, {"sync"}, "record")
    /\ cachedValidity' = task[t].val
    /\ cachedUidNext' = task[t].nxt
    /\ Return(t)
    /\ UNCHANGED <<server, rows, disk>>

Sync(t) == \/ StartSync(t) \/ Select(t) \/ Clear(t) \/ ReadMax(t) \/ Reselect(t)
           \/ ReadRecent(t) \/ FetchFlags(t) \/ ApplyFlags(t) \/ Record(t)

----------------------------------------------------------------------------
(* fetch_older *)

\* min_uid; Ok(0) at once if nothing is cached or UID 1 is.
StartOlder(t) ==
    /\ "older" \in Kinds
    /\ task[t].pc = "idle"
    /\ task' = [task EXCEPT ![t] =
                  [Idle EXCEPT !.kind = "older", !.uid = MinUidOf(rows),
                               !.pc = IF MinUidOf(rows) <= 1 THEN "done" ELSE "search"]]
    /\ UNCHANGED <<server, cache>>

\* Plausible bug: the candidates are not reversed before the truncation.
OlderOldestFirst(min) ==
    NewestOldestFirst({u \in DOMAIN inbox : u < min}, OlderBatch)
\* `UID 1:{min_uid - 1}`, newest first, truncated to the batch size.
OlderCandidates(min) == Newest({u \in DOMAIN inbox : u < min}, OlderBatch)

\* The UIDs a UID SEARCH found are fetched, if there are any.
FetchFound(t, uids) ==
    task' = [task EXCEPT ![t] =
              IF uids = {} THEN Returning(@, {})
                           ELSE [@ EXCEPT !.pc = "fetch", !.ses = validity,
                                          !.uids = uids]]

SearchOlder(t) ==
    /\ At(t, {"older"}, "search")
    /\ FetchFound(t, OlderCandidates(task[t].uid))
    /\ UNCHANGED <<server, cache>>

----------------------------------------------------------------------------
(* search_remote *)

StartSearch(t) ==
    /\ "search" \in Kinds
    /\ task[t].pc = "idle"
    /\ task' = [task EXCEPT ![t] = [Idle EXCEPT !.kind = "search", !.pc = "search"]]
    /\ UNCHANGED <<server, cache>>

\* Which messages the query matches is up to the user.
SearchText(t) ==
    /\ At(t, {"search"}, "search")
    /\ \E matches \in SUBSET DOMAIN inbox : FetchFound(t, Newest(matches, SearchLimit))
    /\ UNCHANGED <<server, cache>>

----------------------------------------------------------------------------
(* fetch_body *)

\* The list on the screen may be older than the rows, as it is replaced by an
\* answer: a message picked from it can be any the server has given a UID so
\* far, and of an earlier UIDVALIDITY any at all.
OnScreen  == {u \in Uid : validity > 1 \/ u < uidNext}
RowGen(u) == IF u \in DOMAIN rows THEN rows[u].gen ELSE NoValidity

\* The user opens a message of the list.
StartBody(t) ==
    /\ "body" \in Kinds
    /\ task[t].pc = "idle"
    /\ \E u \in OnScreen :
          task' = [task EXCEPT ![t] = [Idle EXCEPT !.kind = "body", !.pc = "path",
                                             !.uid = u, !.known = RowGen(u)]]
    /\ UNCHANGED <<server, cache>>

\* get_message_raw_path and the file it names; a file that is missing (or
\* does not parse) counts as not cached.
ReadPath(t) ==
    /\ At(t, {"body"}, "path")
    /\ LET u == task[t].uid
       IN  IF HasRawPath(rows, u) /\ disk[u] # NoFile
             THEN task' = [task EXCEPT ![t] =
                             [Returning(@, {}) EXCEPT !.val = disk[u]]]
             ELSE Goto(t, "get")
    /\ UNCHANGED <<server, cache>>

\* fetch_message_raw, in a session of its own.
GetRaw(t) ==
    /\ At(t, {"body"}, "get")
    /\ task' = [task EXCEPT ![t] =
                  IF task[t].uid \in DOMAIN inbox
                    THEN [@ EXCEPT !.pc = "write", !.val = validity]
                    ELSE [Returning(@, {}) EXCEPT !.ok = FALSE]]
    /\ UNCHANGED <<server, cache>>

\* cache_raw_message writes <uid>.eml ...
WriteFile(t) ==
    /\ At(t, {"body"}, "write")
    /\ disk' = [disk EXCEPT ![task[t].uid] = task[t].val]
    /\ Goto(t, "link")
    /\ UNCHANGED <<server, folder, rows>>

\* ... or fails to, or to record it, which only loses the cached copy ...
CacheFails(t) ==
    /\ \/ "disk" \in Faults /\ At(t, {"body"}, "write")
       \/ "db" \in Faults /\ At(t, {"body"}, "link")
    /\ Return(t)
    /\ UNCHANGED <<server, cache>>

\* ... and then set_message_raw_path.
Link(t) ==
    /\ At(t, {"body"}, "link")
    /\ rows' = SetRawPath(rows, task[t].uid)
    /\ Return(t)
    /\ UNCHANGED <<server, folder, disk>>

Body(t) == \/ StartBody(t) \/ ReadPath(t) \/ GetRaw(t) \/ WriteFile(t)
           \/ CacheFails(t) \/ Link(t)

----------------------------------------------------------------------------
(* delete_message *)

\* Plausible bug: the row goes before the server has been asked.
StartDeleteCacheFirst(t) ==
    /\ "delete" \in Kinds
    /\ task[t].pc = "idle"
    /\ \E u \in OnScreen :
          task' = [task EXCEPT ![t] = [Idle EXCEPT !.kind = "delete", !.pc = "drop",
                                             !.uid = u, !.known = RowGen(u)]]
    /\ UNCHANGED <<server, cache>>

\* The user confirms the deletion of a message of the list.
StartDelete(t) ==
    /\ "delete" \in Kinds
    /\ task[t].pc = "idle"
    /\ \E u \in OnScreen :
          task' = [task EXCEPT ![t] = [Idle EXCEPT !.kind = "delete", !.pc = "remove",
                                             !.uid = u, !.known = RowGen(u)]]
    /\ UNCHANGED <<server, cache>>

\* STORE +FLAGS (\Deleted).
Marked(uid) == [u \in DOMAIN inbox |-> IF u = uid THEN "deleted" ELSE inbox[u]]
\* MOVE to a trash folder and UID EXPUNGE take the one message; the blind
\* EXPUNGE of the last resort takes every message marked \Deleted.
Removed(uid, blind) ==
    [u \in {v \in DOMAIN inbox : v # uid /\ ~(blind /\ inbox[v] = "deleted")} |->
        inbox[u]]

\* client::delete_message.
Remove(t) ==
    /\ At(t, {"delete"}, "remove")
    /\ \E blind \in BOOLEAN : inbox' = Removed(task[t].uid, blind)
    /\ Goto(t, "drop")
    /\ UNCHANGED <<validity, uidNext, cache>>

\* Neither EXPUNGE works; their errors are ignored and the call is Ok.
RemoveMarksOnly(t) ==
    /\ "expunge" \in Faults
    /\ At(t, {"delete"}, "remove")
    /\ inbox' = Marked(task[t].uid)
    /\ Goto(t, "drop")
    /\ UNCHANGED <<validity, uidNext, cache>>

\* The connection breaks after the server has moved, or marked, the message.
RemoveReplyLost(t) ==
    /\ "reply" \in Faults
    /\ At(t, {"delete"}, "remove")
    /\ inbox' \in {Removed(task[t].uid, FALSE), Marked(task[t].uid)}
    /\ task' = [task EXCEPT ![t] = [Returning(@, {}) EXCEPT !.ok = FALSE]]
    /\ UNCHANGED <<validity, uidNext, cache>>

\* store.delete_message: the row goes, its raw_path is returned.
Drop(t) ==
    /\ At(t, {"delete"}, "drop")
    /\ rows' = DeleteRow(rows, task[t].uid)
    /\ IF HasRawPath(rows, task[t].uid) THEN Goto(t, "unlink") ELSE Return(t)
    /\ UNCHANGED <<server, folder, disk>>

\* remove_file, whose errors are ignored.
Unlink(t) ==
    /\ At(t, {"delete"}, "unlink")
    /\ disk' = [disk EXCEPT ![task[t].uid] = NoFile]
    /\ Return(t)
    /\ UNCHANGED <<server, folder, rows>>

Delete(t) == \/ StartDelete(t) \/ Remove(t) \/ RemoveMarksOnly(t)
             \/ RemoveReplyLost(t) \/ Drop(t) \/ Unlink(t)

----------------------------------------------------------------------------
(* Specifications *)

Shared(t) == CallFails(t) \/ SessionLost(t) \/ Fetch(t) \/ StoreBatch(t) \/ Finish(t)

Next ==
    \/ Server
    \/ Crash
    \/ \E t \in Task : \/ Sync(t) \/ StartOlder(t) \/ SearchOlder(t)
                       \/ StartSearch(t) \/ SearchText(t)
                       \/ Body(t) \/ Delete(t) \/ Shared(t)

\* A mailbox of n messages, and nothing cached yet.
ServerInit == \E n \in 0..MaxUid : /\ inbox = [u \in 1..n |-> "unseen"]
                                  /\ uidNext = n + 1
                                  /\ validity = 1
Init ==
    /\ ServerInit
    /\ cachedValidity = NoValidity
    /\ cachedUidNext = NoUid
    /\ rows = NoRows
    /\ disk = [u \in Uid |-> NoFile]
    /\ task = [t \in Task |-> Idle]

\* A launch on a cache whose first sync has completed: the last messages of
\* the mailbox, from UID w on, are cached.
InitSynced ==
    /\ ServerInit
    /\ cachedValidity = validity
    /\ cachedUidNext = uidNext
    /\ \E w \in 1..uidNext :
          rows = [u \in w..(uidNext - 1) |->
                     [gen |-> validity, flag |-> "unseen", raw |-> FALSE]]
    /\ disk = [u \in Uid |-> NoFile]
    /\ task = [t \in Task |-> Idle]

Spec       == Init /\ [][Next]_vars
SyncedSpec == InitSynced /\ [][Next]_vars

\* The runtime polls every task that is ready, the IDLE loop (idle.rs:27-54)
\* asks for another sync each time one has ended (after a notification, the
\* 29-minute renewal or the back-off of a lost connection), and a network
\* command that is tried again and again succeeds at last.
Fairness ==
    \A t \in Task :
        /\ SF_vars(StartSync(t))
        /\ SF_vars(Select(t)) /\ SF_vars(Reselect(t))
        /\ SF_vars(Fetch(t))  /\ SF_vars(FetchFlags(t))
        /\ SF_vars(SearchOlder(t))
        /\ WF_vars(SessionLost(t)) /\ WF_vars(Clear(t)) /\ WF_vars(ReadMax(t))
        /\ WF_vars(StoreBatch(t)) /\ WF_vars(ReadRecent(t))
        /\ WF_vars(ApplyFlags(t)) /\ WF_vars(Record(t)) /\ WF_vars(Finish(t))
LiveSpec == Spec /\ Fairness

----------------------------------------------------------------------------
(* Properties *)

Table(values) == UNION {[uids -> values] : uids \in SUBSET Uid}
Envelope == [gen : 1..MaxValidity, flag : Flag]
Row      == [gen : 1..MaxValidity, flag : Flag, raw : BOOLEAN]
Call     == [kind : Kinds \cup {"none"}, pc : PC,
             known : 0..MaxValidity, val : 0..MaxValidity, ses : 0..MaxValidity,
             from : 0..(MaxUid + 1), nxt : 0..(MaxUid + 1), uid : 0..MaxUid,
             uids : SUBSET Uid, batch : Table(Envelope), out : SUBSET Uid,
             ok : BOOLEAN]

\* Every variable has its type.  UIDs and UIDVALIDITYs stay in the range the
\* server gives them from, and so do the ones a command names.
TypeOK ==
    /\ validity \in 1..MaxValidity
    /\ uidNext \in 1..(MaxUid + 1)
    /\ inbox \in Table(Flag)
    /\ cachedValidity \in 0..MaxValidity
    /\ cachedUidNext \in 0..(MaxUid + 1)
    /\ rows \in Table(Row)
    /\ disk \in [Uid -> 0..MaxValidity]
    /\ task \in [Task -> Call]

\* While UIDVALIDITY lasts and nothing is searched on the server, the cache is
\* a contiguous window of the mailbox: no message of the server lies between
\* two cached ones without being cached itself.  Incremental syncs (sync.rs:
\* 100-109) only ever extend the window from its newest message and "load
\* more" (sync.rs:148-173) from its oldest, so a message that is stepped over
\* once is never fetched.
Contiguous ==
    \A u \in DOMAIN inbox :
        ~ \E lo, hi \in DOMAIN rows : lo < u /\ u < hi /\ u \notin DOMAIN rows

\* An incremental sync that returns Ok has pulled down "mail that arrived since
\* the last sync" (client.rs:108-110): what the server gave a UID after the
\* UIDNEXT the last sync recorded and before this call's SELECT is cached, or
\* has left the mailbox.
FetchesNewMail ==
    \A t \in Task :
        At(t, {"sync"}, "done") /\ task[t].ok /\ task[t].known = validity =>
            \A u \in DOMAIN inbox :
                task[t].from <= u /\ u < task[t].nxt => u \in DOMAIN rows

\* While the cache is of the server's UIDVALIDITY, a row only leaves it once
\* the server no longer has the message (sync.rs:244-249: the server-side
\* delete happens first, "so the message stays visible and the user can
\* retry").
DropsOnlyGone ==
    [][cachedValidity = validity =>
          \A u \in DOMAIN rows \ DOMAIN rows' : u \notin DOMAIN inbox]_vars

Quiet == \A t \in Task : task[t].pc \in {"idle", "done"}

\* With no call under way and the folder's UIDVALIDITY the server's, no row is
\* left from an earlier UIDVALIDITY: the next sync would see no change, so a
\* row that is stale now stays for good, under a UID that is another
\* message's (queries.rs:72-77, sync.rs:46-58).
NoStaleRows ==
    Quiet /\ cachedValidity = validity =>
        \A u \in DOMAIN rows : rows[u].gen = validity

\* The body shown is the one of the row there was when the user opened the
\* message, whatever raw_path and <uid>.eml went through before, as long as the
\* cache is of the server's UIDVALIDITY (sync.rs:217-242, 259-276).  A list on
\* the screen that is older than its rows is not spoken of.
BodyIsPicked ==
    \A t \in Task :
        /\ At(t, {"body"}, "done") /\ task[t].ok /\ cachedValidity = validity
        /\ task[t].known # NoValidity
        => task[t].val = task[t].known

\* The cache mirrors the mailbox: it is of the server's UIDVALIDITY, no message
\* newer than its oldest is missing, it is not empty unless the mailbox is, and
\* the flags inside the refresh window are the server's.
InStep ==
    /\ cachedValidity = validity
    /\ \A u \in DOMAIN rows : rows[u].gen = validity
    /\ \A u \in DOMAIN inbox \ DOMAIN rows :
          DOMAIN rows # {} /\ u < Min(DOMAIN rows)
    /\ \A u \in Newest(DOMAIN rows, FlagWindow) \cap DOMAIN inbox :
          rows[u].flag = inbox[u]

\* Once the mailbox stops changing, the cache is brought in step with it and
\* stays so, even if every network command fails any number of times before it
\* succeeds and UIDVALIDITY changed in the middle of a sync (idle.rs:13-26:
\* "a periodic safety-net sync").
Converges == <>[][FALSE]_server => <>[]InStep
=============================================================================
