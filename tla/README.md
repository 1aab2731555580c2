# Verification of terminal-mail-client

TLA+ models of the mail client's core, TLC configurations that check them on
small instances, and proofs that TLAPS checks for every value of the constants.
Paths below are relative to `src/crates/`; *sync.rs* is `mail-core/src/sync.rs`.

## 1. The system

Two crates. `mail-core` talks IMAP and SMTP and keeps a local cache (one SQLite
database, and raw messages in files); `mail-tui` is the terminal program around
it. One process, a tokio runtime, one task per background call, one OS thread
that owns the database.

| component | state it keeps | operations | interacts with |
|---|---|---|---|
| store actor (`store/db.rs`) | the SQLite connection, a FIFO of jobs | `run(job)` | every task awaits its jobs; one job is atomic |
| message cache (`store/queries.rs`, `store/mod.rs`) | tables `folders` (UIDVALIDITY, UIDNEXT) and `messages` (UID, envelope, flags, `raw_path`) | upsert, flags, clear, min/max/recent UIDs, raw path, delete | sync calls; the TUI lists envelopes and known senders |
| IMAP client (`imap/client.rs`) | one session per call | connect, SELECT, FETCH, UID SEARCH, MOVE/STORE/EXPUNGE, APPEND | the server |
| synchronisation (`sync.rs`) | locals of each call, kept across `.await`s | `sync_inbox`, `fetch_older`, `search_remote`, `fetch_body`, `delete_message` | IMAP client, cache, `<uid>.eml` files |
| sending (`send.rs`, `smtp.rs`) | table `outbox`, files `outbox/<time>.eml` | `send_message`, `queue_outbox`, `flush_outbox` | SMTP server, IMAP APPEND, cache |
| IDLE (`idle.rs`, `events.rs`, `desktop_notify.rs`) | one connection per account | wait, sync, emit `NewMail`, back off | sync; the event loop |
| TUI event loop (`main.rs`, `app.rs`) | list, cursor, body, search, compose window, guards (`loading_more`, `has_more_older`, `sending`) | keys, `BgMsg` results, `NewMail` | spawns the calls above, takes their results over a channel of 8 |
| spell checking (`spellcheck.rs`) | a hunspell process, a latest-value request channel, the dictionaries found | `request_line`, `request_full`, detection of language and dictionary | results tagged with the compose window's id |
| text (`editable.rs`, `fuzzy.rs`), files (`filebrowser.rs`, `attach.rs`) | buffers, cursors, attachment list | edit, match, browse, validate | compose window |
| configuration (`config.rs`, `account.rs`, `setup.rs`) | `config.toml`, keyring entries | load, save, add, remove, set default, set password | running program and setup commands |
| theme (`theme/`), rendering (`ui/`) | current palette | watch, debounce, draw | event loop |

What is hard here, and what makes each part correct:

* **Synchronisation.** A call reads the cache, goes to the network, and writes
  the cache by what it read; meanwhile the server, other calls and crashes move
  everything else. Correct means: the cache is a gap-free window of the mailbox
  (incremental syncs only look above its top, load-more only below its bottom,
  so a gap would never be filled), no new mail is stepped over, nothing of an
  earlier UIDVALIDITY is taken for current, nothing disappears that the server
  still has, and the cache catches up in the end.
* **Sending.** Three places can disagree: the SMTP server, the outbox and what
  the user was told. Correct means: nothing queued is lost, nothing is sent
  twice without need, one bad message does not hold up the rest.
* **Event loop.** Results come back in any order and belong to an account,
  a search or a compose window that may no longer be the shown one.
* **IDLE.** Mail can arrive at any step of a loop that listens at one of them
  only, and other calls fetch the same mail at the same time. Correct means: it
  gets to the screen by itself, is notified once, and is in the cache by then.
* **Compose window.** An editor of lines, recipients that two parsers split each
  in its own way, suggestions of the right account, attachments that change on
  disk, and a send during which nothing may change what it is the answer about.
* **Spelling.** Requests replace one another, workers are replaced, hunspell
  exits; an answer may be about a window, a line or a dictionary of before.
* **Accounts.** A file, a keyring, a database and directories that no
  transaction spans, changed by processes that do not know of each other.

`PROJECT.json` lists all components and, under `hazards`, each hard spot with its
line and the property that covers it, or why none does.

## 2. Modules

| module | models |
|---|---|
| `MessageStore` | the queries on one folder's `messages` table, as operators on a function UID -> row |
| `InboxSync` | server mailbox, cache, `<uid>.eml` files, and any number of concurrent calls of sync.rs |
| `Postbox` | abstract: what sending promises of each message |
| `Outbox` | compose-and-send, queueing, flushing, over sessions of the program; implements `Postbox` |
| `MailList` | the event loop outside the compose window: list, cursor, reading pane, search box, account switch, deletion, load-more, and the answers of background calls |
| `IdleLoop` | one account's IDLE loop, its events and notifications, and the list that follows them, beside the user's syncs and deletions |
| `PlainText` | abstract: a text with a cursor |
| `Editable` | the text widgets: a line with a cursor, and lines with a row and a column |
| `Recipients` | known senders, fuzzy matching, accepting a suggestion, and the mailboxes a field is sent to |
| `Compose` | the compose window: fields, focus, suggestions, sending; its body implements `PlainText` |
| `Attachments` | the file browser, the list of attachments, reading them for a send, saving a received one |
| `SpellCheck` | the choice of a dictionary, workers and their hunspell, requests, answers, what is underlined |
| `Accounts` | the setup commands and sessions as processes over config.toml, keyring, accounts table, directories |
| `InboxSyncProofs` | types of InboxSync; the window invariant and the three properties it gives; the UIDVALIDITYs |
| `MailListProofs` | all that is checked of MailList |
| `IdleLoopProofs` | the announcements of IdleLoop |
| `OutboxProofs` | all of Outbox's safety, and that it implements Postbox |
| `AttachmentsProofs` | all that is checked of Attachments |
| `SpellCheckProofs` | all that is checked of SpellCheck |
| `AccountsProofs` | all that is checked of Accounts, any number of processes |
| `ComposeProofs` | all that is checked of Compose, and so of Recipients and Editable, with the refinement of PlainText |

The `MC...` modules instantiate the one of the rest of their name: `MCInboxSync`, `MCMailList`
and `MCAccounts` with symmetry sets, `MCCompose`, `MCAttachments` and `MCSpellCheck` with the
senders, files and dictionaries of the instance. `Compose` extends `Recipients` and instances
`Editable`, which `SpellCheck` extends.

### InboxSync and the code

*State.* `validity`, `uidNext`, `inbox` are the server; `cachedValidity`,
`cachedUidNext` the `folders` row; `rows` the `messages` table; `disk` the
`.eml` files by UID; `task[t]` the locals of one call (`kind`, `pc`, and the
variables of the Rust function that live across an `.await`). A message is
named by `gen` (the UIDVALIDITY it was seen under) and its UID; flags are three
values; envelopes and bodies carry nothing else.

*Actions.* One per `.await`, in the code's order, with what follows it up to
the next `.await`; commands in a row that read nothing shared are one
action (connect, login, SELECT; SELECT and UID SEARCH; the whole chain of
`client::delete_message`, with an action for each way it can end). What the
user opens or deletes is picked from the list on the screen (`OnScreen`),
which may be older than the rows.

| code | actions |
|---|---|
| `sync_inbox`, `initial_sync`, `incremental_sync` | `StartSync`, `Select`, `Clear`, `ReadMax`, `Reselect`, `Fetch`, `StoreBatch`, `ReadRecent`, `FetchFlags`, `ApplyFlags`, `Record` |
| `fetch_older` | `StartOlder`, `SearchOlder`, `Fetch`, `StoreBatch` |
| `search_remote` | `StartSearch`, `SearchText`, `Fetch`, `StoreBatch` |
| `fetch_body`, `cache_raw_message` | `StartBody`, `ReadPath`, `GetRaw`, `WriteFile`, `CacheFails`, `Link` |
| `delete_message` (both) | `StartDelete`, `Remove`, `RemoveMarksOnly`, `RemoveReplyLost`, `Drop`, `Unlink` |
| any `?` on a network command or a store job | `CallFails`, `SessionLost` |
| end of the process | `Crash` |
| the server (external) | `Arrive`, `Expunge`, `ChangeFlag`, `Renumber` |

*Assumptions on the server.* UIDs grow and are not reused at one UIDVALIDITY;
UIDVALIDITY grows (RFC 3501); a session that SELECTed a mailbox since rebuilt
gets errors, not the new mailbox's messages; sequence numbers are those of the
SELECT until the session's next command.

### Outbox and the code

*State.* `compose[p]` is the compose window with its send task (at most one:
`sending` swallows every key, main.rs:735), `flush[p]` the flush task of the
launch with the rows it has listed, `outbox` the table with SQLite's ids,
`files` the complete `.eml`s (never removed by the code), `told` what a
`SendDone` reported, `given` the messages whose row was deleted because the
file was not readable. `copies` counts what the SMTP server accepted and
`doubt` how often a delivery or a queueing went unreported: its answer was
lost, or the program ended or the store failed before it was recorded.

*Actions.* `send_message`: `Rejected`, `SmtpOk`, `SmtpReplyLost`, `SmtpFails`,
`AppendToSent`, `WriteFile`, `WriteFails`, `InsertRow`, `InsertFails`;
`flush_outbox`: `List`, `Read`, `Unreadable`, `FlushSmtpOk`, `FlushReplyLost`,
`FlushSmtpFails`, `FlushAppendToSent`, `DeleteRow`, `RecordFailure`,
`FlushDbFails`; the program: `Launch`, `Quit`, `Crash`, `StartCompose`,
`Discard`, `Send`, `SendDone`. `Postbox` sees a message as a draft, kept,
given up on or delivered; the refinement mapping is `PlaceOf`.

### MailList and the code

*State.* `current` is the account shown; `view` the fields of `App` on the screen
(`envelopes`, `list_state`, `selected`, `body`, `search`, `search_editing`);
`older` the pair `has_more_older`, `loading_more`; `confirm` is `confirm_delete`.
`pending` counts the background calls not yet answered, by what `spawn_bg` was
given. A message is an account and a UID: accounts' UIDs overlap. A text in the search
box is known by its trimmed form and by the UIDs it matches.

*Actions.* One per turn of the loop. Keys: `SelectNext`, `SelectPageDown`,
`SelectBottom` (with `maybe_load_more`), `SelectPrev`, `SelectPageUp`, `SelectTop`,
`StartSearch`, `TypeSearch`, `ClearSearch`, `ConfirmSearch`, `Refresh`,
`OpenMessage`, `AskDelete`, `ConfirmDelete`, `CancelDelete`, `SwitchAccount`, `Quit`
(followed by the next launch). Answers: `SyncDone`, `AccountEnvelopes`,
`BodyLoaded`, `MessageDeleted`, `FetchedOlder`, `RemoteSearchDone`, `Failed` for
their errors, `Ignored` for those the guards of the `match` drop; and `NewMail`.

*What an answer brings.* A call reads the cache at one time and its answer is
taken at another, after other answers: the channel keeps the order in which tasks
send, which is not the one in which they read. So an answer may come at any
time after the request, with any list of messages of its account. How the cache comes
to hold them is InboxSync's subject. The first `g` of `gg`, the marked
attachment, the status line and `known_senders` are left out.

### IdleLoop and the code

*State.* `inbox`, `given` are the server's mail and the last UID it gave; `told` that
it has notified the loop's connection, `marked` the messages marked \Deleted; `cache`, `recorded` the messages table and
whether the folder's UIDVALIDITY is stored; `loop` and `calls[s]` the locals of the IDLE
task and of the TUI's background calls, `pc` the await each is about to take; `events`
the mpsc channel of `NewMail`; `screen` the list shown and its state. Of the histories,
`notified` counts the desktop notifications a message was in, and `survived` how often a deletion dropped its row
while a failed EXPUNGE had left it in the inbox (`left` is what such a call has left).

*Actions.* `idle::run`: `Open`, `EnterIdle`, `Wake` (a notification, or 29 minutes),
`SendNewMail`, `Dropped` (any error: back-off, then a new connection). `sync_inbox` of loop and
calls: `Look`, `Select`, `ReadMax`, `Fetch`, `Store`, `Record`. The other calls: `ReadList`;
`delete_message` with the ways its chain of commands can end, `DeleteAtServer` (MOVE, UID EXPUNGE, or the blind EXPUNGE
that takes all marked messages), `DeleteOnlyMarks` (no EXPUNGE works, and the call goes on as if one had) and
`DeleteReplyLost`, then `DeleteRow`; and `CallFails`. The event loop: `NewMail`, `Answered`, `Refresh`,
`Delete`, `SwitchAway`, `SwitchTo`. The server: `Arrive`, which only tells a connection that is
in IDLE; mail that comes while the loop syncs is found after the next renewal.

### Compose, Recipients, Editable and the code

*State.* `window` is `ComposeState`: the `TextInput`s (a text and a cursor), the `TextArea` (lines,
row, column), `focus`, `suggestions`, `sending`. `known` is `known_senders` of `current`, `asked` the
accounts it was asked for and not yet told (once or more often). `send` is the draft under way. A text is a sequence of
characters, of which an e-mail address is one, which has a spelling for fuzzy matching.

*Actions.* One per key, in what it makes of the window: `Choose`, `Accept`, `Dismiss` in the
suggestions, `Discard`, `NextField`, `PrevField`, `Insert`, `Backspace`, `Newline`, `MoveCursor`, each with
the `refresh_suggestions` the code ends the key with, or without; `Send`. Outside: `StartBlank`,
`Reply`, `SwitchAccount`, `AskAgain` (after a sync and new mail); answers: `KnownSendersDone`, `SendOk`, `SendFails`. `Mailboxes` is
`parse_mailboxes` of smtp.rs (every comma separates), `Separator` is the TUI's own rule (commas in
quotes do not). What a send does until it answers is Outbox's subject.

### Attachments and the code

*State.* `disk` the files, which other programs change; `pane` the mail shown with the attachment
selected; `compose.attachments` the `Selectable` list, with the size each file had when picked;
`browser` the `FileBrowser` with its `BrowserPurpose`; `reading` how far `send_with_attachments` has
got.

*Actions.* Keys: `Compose`, `Discard`, `Attach`, `EditItems`, `Send`, `SelectAttachment`, `Download`;
in the browser `Cancel`, `ToggleFocus`, `MoveInList`, `Descend`, `PickToAttach` (with `validate`),
`PickToReplace`, `EditFilename`, `ConfirmSave`. The send task: `ReadFile` for each file,
`ReadFails`, `Sent`. `BodyLoaded` replaces the pane at any time, an open browser or not.

### SpellCheck and the code

*State.* `layout` is what hyprctl tells; `window` the compose window with `misspelled_by_line`;
`handle` the `SpellCheckHandle` of the session; `worker[k]` the task started by the k-th
opening (0: at launch), with its dictionary, the value of its watch channel (`req`,
`unseen`), what it is checking, and whether its hunspell is `up`; `inbox` the messages in
the event loop's channel.

*Actions.* Keys: `OpenWindow` (which starts a task that looks for a dictionary), `CloseWindow`,
`Insert`, `Newline`, `Backspace`, `MoveCursor`, each edit with the request `handle_compose_key` makes
of it. Tasks: `Detect`, `Spawn`, `Take`, `Answer`, `Fail`, `LetGo`. The event loop: `Apply`. Outside:
`SwitchLayout`, `HunspellExits`. `Tokens`, `Normalize`, `Runs`, `WordAt` say which parts of a line
hunspell, the underlining and the popup each take for a word.

### Accounts and the code

*State.* `file` is config.toml as it would be read (emptied: no accounts), `keyring` the accounts
with a secret, `rows` the accounts table with its ids, `dirs` the data directories, by id, and whose
mail is in them; `proc[p]` a running command or session with the `Config` it has loaded.

*Actions.* `Config::save` is `Empty` then `Write`, as `fs::write` is, or `SaveFails`. Commands:
`StartAdd`, `Add`, `SecretFails`; `StartSetup`, `Setup`, `SetupReload`; `StartDefault`; `StartPassword`,
`SetPassword`; `StartRemove`, `DeleteSecret` or `SecretStays`, `FindRow`, `DeleteRow`, `RemoveFiles` or
`FilesStay`, `RemoveFails`. A session: `Launch`, `OpenAccount`, `OpenFails`, `Opened`, `Sync`,
`FetchBody`, `SetDefault`, `Quit`. Any process: `Crash`.

## 3. Runs

| run | instance | shows |
|---|---|---|
| `InboxSteady` | 2 calls, UIDs to 3, one UIDVALIDITY, arrivals, foreign expunges, errors, crashes | `TypeOK`, `Contiguous`, `FetchesNewMail`, `DropsOnlyGone` |
| `InboxEpochs` | 1 call at a time of all five kinds, UIDs to 2, two UIDVALIDITY changes, every fault | `NoStaleRows`, `BodyIsPicked` |
| `InboxLive` | 1 call at a time, new account, every server event, network errors | `Converges` |
| `Outbox` | one session at a time, two messages of which one is never accepted, every fault | `TypeOK`, `KeptUntilDelivered`, `NoNeedlessCopy`, `ImplementsPostbox`, `LeavesOutbox` |
| `MailList` | two accounts with the same two UIDs, three calls under way | `TypeOK`, `ShownOfCurrent`, `ListSorted`, `LoadingMoreHasRequest`, `DeletesWhatWasAsked`, `CursorKeptUnfiltered` |
| `IdleLoop` | two calls beside the loop, two messages of which one arrives, one key, one error | `TypeOK`, `AnnouncedIsCached`, `NotifiedOnce`, `ListCatchesUp` |
| `Compose` | two accounts with overlapping senders, one field written at a time | `TypeOK`, `SuggestionsFit`, `SendingFrozen`, `AcceptAppends`, `KeptUntilSent`, `ImplementsPlainText` |
| `Attachments` | three directories, files of two sizes, two listed, one foreign change | `TypeOK`, `AttachesToWindow`, `SentAsListed`, `SavedIsWanted` |
| `SpellCheck` | two windows, two edits, four dictionaries, hunspell may exit | `TypeOK`, `OwnWords`, `LastEditChecked`, `PicksUpLayout` |
| `Accounts` | two accounts, four starts of processes, two at a time, every fault | `TypeOK`, `ConfiguredHasSecret`, `OthersKept`, `RemovedIsGone` |
| `SearchSkips` | 1 call, searches and syncs | violates `FetchesNewMail` |
| `StaleRows` | 2 syncs across a UIDVALIDITY change | violates `NoStaleRows` |

The two violations are disagreements between the code and what its comments
say of it; `PROJECT.json`, `findings`, gives the quotation and the scenario of each.
They also mark where the passing runs' properties stop to hold: `Contiguous`
and `FetchesNewMail` without server-side searches, `NoStaleRows` one call at a
time. Other conditions in the properties are there for the same reason, without a run
of their own:

* `DropsOnlyGone` holds if EXPUNGE works: a failed one drops the row although the
  message is still there (client.rs:342-344; sync.rs:246-249 says otherwise).
* A deletion whose EXPUNGE failed also shows in the IDLE loop: the message stays in the inbox without its row, and if it was
  the newest, the loop's next sync finds and notifies it again. `NotifiedOnce` allows one notification more for each
  time that happened (`survived`), `AnnouncedIsCached` one announcement, and `ListCatchesUp` does not claim such a
  message for the screen, as nothing fetches it again if it was not the newest.
* A row that a sync has put back after its deletion stays in the cache, and `ListCatchesUp` then wants it on the
  screen: nothing takes out rows the server no longer has (sync.rs:253).
* `BodyIsPicked` speaks of the row there was when the message was opened. If the list on the screen was older, and
  had it no row, the message of that UID is fetched, whichever it is by then.
* After a server-side search, load-more may return 0 although older mail is missing
  from the cache (sync.rs:140-141).
* `KeptUntilDelivered` holds with one session at a time: with two, a flush deletes by an id
  SQLite has given out again (send.rs:87, schema.rs:71).
* `CursorKeptUnfiltered` is without a search filter: the index is kept from the unfiltered
  list (main.rs:338-343).
* `NotifiedOnce` counts the mail that was waiting when the program started too: the first
  sync of the loop, and every one after a reconnection, may announce a backlog
  (desktop_notify.rs:3-5 speaks of mail that arrives).
* `AcceptAppends` is of names without a comma or a quote, in a field without a quote: smtp.rs:157 splits at every
  comma, app.rs not at those in quotes.
* `ConfiguredHasSecret`, `OthersKept` and `RemovedIsGone` are about processes that have not
  acted on a file or keyring another had changed since they read it (`clashed`): nothing
  locks config.toml. A session that is running stores an account again after it has been removed.
* `RemovedIsGone` has two more exceptions, which the proof asked for: the run's four starts
  do not reach them. A removal that waits before the directories lets the account be added, used and
  removed a second time, and what that one leaves to the first is not its own; and a row deleted by an
  id found before may by then be another account's (setup.rs:60-84, config.rs:104).
* `LastEditChecked` is about a worker whose hunspell is running, and no older worker that still
  owes an answer: the answers of both would be shown.

Each property of a passing run has a mutant, a plausible slip in the
code, that breaks it (the operators commented "Plausible bug").

**Bounds.** Windows have a bottom, a top and an inside, so 3 UIDs are needed to
have a gap; limits of 1 message make every batch boundary occur at these sizes.
Two calls are enough for every pairwise race; the theorems of section 4
remove the bound on calls and UIDs. Three UIDVALIDITYs let a file, a row and a
folder record each be of a different one. In `Outbox`, one acceptable and one
unacceptable message show every interplay of one message being held up by
another; `MaxDoubt = 1` allows one unreported delivery of each, hence a second row
and a second copy, and `MaxCopies` is one above what `NoNeedlessCopy` permits, so
that it never stands in the way. In `MailList`, three calls at a time let an old
one be answered after a switch away and back, beside the two each switch starts;
two messages are enough for a filter to hide one, for a list to be out of order
and for a UID to be mistaken for another account's.

In `IdleLoop`, two calls let one of the user's be answered after another, and race the
loop; two messages let one be deleted while it marks what is new. One key is enough for a deletion whose EXPUNGE fails and
for the loop to announce its message again; that a blind EXPUNGE also takes what another deletion has left marked
needs two, and is covered by the theorems only. `FetchLimit` and
`DISPLAY_LIMIT` are no smaller than what arrives, as a longer backlog is not meant to be
loaded at once. The events' channel is unbounded in the code; one event
in it (`MaxEvents`) and one that the loop is about to send are two that wait.
In `Compose`, 3 typed characters hold an address, a comma and the start of the next one,
and `MaxAccepted` lets a second suggestion follow; `MaxFilled` 1 keeps the fields, which do not
depend on one another, from being multiplied; a body of 4 has two lines of different
lengths, where columns are clamped. In `Attachments`, the cap is the size of a large
file, so that two files fit or not by which they are. In `SpellCheck`, two openings give three
workers, a current one and two that may be late; two edits let one request replace another;
`Capacity` 1 (main.rs:247 has 8) makes a worker wait at the slightest delay. In `Accounts`,
two processes show every pairwise race; four starts allow to add, remove, add again and use an
account; one id more than accounts lets an id be given to another account (SQLite re-uses the
highest one).

**Start states.** `InboxSteady` and `InboxEpochs` start at a launch after the first
sync has completed (`InitSynced`); `InboxLive` starts with an empty cache. The
first sync under crashes is not covered: there the code has known gaps (see the
hazards at sync.rs:65). `IdleLoop` starts at a launch, with any part of the mail cached
from the oldest up, or none and no UIDVALIDITY. `Compose`, `Attachments` and `SpellCheck` start
with no window open, `Accounts` before the first run.

**Fairness.** `InboxLive`: the runtime polls ready tasks (weak fairness of store
steps), a network command tried again and again succeeds at last (strong
fairness of those), and a sync is asked for again and again, which the IDLE
loop does (idle.rs:27-54: after each notification, each 29 minutes, and 15
seconds after each lost connection). `Outbox`: tasks are polled, a user ends
a session some time and starts another, a message handed over again and again
is accepted at last unless the server never accepts it. `LeavesOutbox` assumes
further that from some point on sessions last until their flush is through
and the store does not fail under it: the outbox is flushed at launch only, so
a program that is killed each time before the flush gets to a message does
not send it. `IdleLoop`: weak fairness of the loop's steps (its wait ends after 29
minutes at the latest, idle.rs), of each call and of the event loop's `NewMail`; nothing
is assumed of mail, keys and errors but that a session has finitely many.

**Deadlock** is checked in every run but `Accounts`, where the starts of processes are bounded
and all may have ended. Elsewhere a call that has ended is taken and another one may start, a
session that has ended may be followed by another, a window may be opened or closed.

## 4. Theorems

All in modules ending in `Proofs`, all for any number of calls, any UIDs and limits, any accounts, addresses and texts.
Each module begins with the facts it needs on the data of its model: minimum and maximum, lists with an element put in
or taken out, sums, orders, folds. The library defines these by CHOOSE or recursion; where one would do an
induction, the least counterexample is taken instead, so nothing rests on an operator parameter.

* `SpecTypeOK`, `SyncedSpecTypeOK`: `TypeOK` is inductive as it stands; one lemma
  per kind of call, over the queries' types.
* `SteadyInvariant`: with `SteadyCase` (no UIDVALIDITY change, no server-side search,
  EXPUNGE works), `Steady` is an invariant. None of the three properties
  is inductive: a gap is not made by the step that stores a batch but by an
  earlier one that chose it. `Steady` says there is a mark `w`, no higher than the
  UIDNEXT the cache has recorded, that tells apart what is missing: a message of the server
  that is not cached lies above the whole cache if it is at `w` or above, and
  below the whole cache otherwise. Of each call it says that what it is about
  to add keeps to the same rule (`Spared`), that a sync will have left out nothing
  from `w` to its UIDNEXT, and that a deletion about to drop its row has
  removed the message. One `w` serves a whole behaviour: new mail is
  above it, load-more only ever fills below it.
* `SteadyContiguous`, `SteadyFetchesNewMail`, `SteadyDropsOnlyGone`: the three
  properties of the `InboxSteady` run, from that invariant.
* `EpochNoStaleRows`, `EpochBodyIsPicked`: from a launch after the first sync, for any number of
  UIDVALIDITY changes and with every fault, under the assumption `Sequential` that there is one call at a time.
  It is needed: the `StaleRows` run is two syncs that break the first. `Epochs` says that the
  recorded UIDVALIDITY is at most the server's, and that when they are equal every row is of it, and so is every file a
  row names (`RowsOf`). Of a sync that has found another one it says that the cache is cleared and its own
  until it records it (`FreshSync`), of `fetch_body` that what it holds is of the row picked (`FreshBody`).

* `SpecLoadingMore`: `LoadingMoreHasRequest` with the types it needs is inductive. A
  step either leaves guard, account and that request alone, or sets the guard with
  a new request, or opens it (`GuardKept`, `MoveDownGuard`, `GuardOpen`).
* `SpecDeletesWhatWasAsked`: the invariant is that the question's account is the one
  shown (`ConfirmInv`); then only `ConfirmDelete` spawns a deletion, and of that
  message.
* `SpecTypeOK`, `SpecShownOfCurrent`, `SpecListSorted`, `SpecCursorKeptUnfiltered` (of `MailListProofs`): the invariant
  `ListInv` says that the list is of the account shown, strictly newest first (`List`), and so is what the pane
  and the question hold. A filter or a deletion takes rows out in order, a merge sorts rows of which no
  two have a UID; `NewestFirst` and `RowsAt` are defined in `MailList` by what they return, because the provers
  know nothing of the library's `SortSeq` and `SelectSeq`. The cursor is kept because a message is at one place of a
  list only.

* `SpecNotifiedOnce`, `SpecAnnouncedIsCached`: the invariant (`Inv`) is `TypeOK`, that no UID
  above `given` is anywhere (`GivenInv`), and `AnnounceInv`, which keeps books: of a message that is still in the inbox,
  the notifications, the events that wait and what the loop is about to send come to `survived` at most if it has
  no row, and to one more if it has one; of one that is gone, to one more. The loop only
  asks for what is above the cache, so what it fetches while its call lasts was announced only as often as it had lost
  its row; and a deletion that drops the row of a message it has left behind adds what it takes away to
  `survived` (`left` misses nothing of what it has left behind). Without that count the invariant fails: a failed EXPUNGE
  and the deletion of the newest message make the loop announce it again.

The theorems about `Outbox` but for its types assume `SingleSession`: `Process` has one element at most,
which starts and ends any number of times. With two, a flush may delete by an id that has been
given to another message since, and the second theorem is false.

* `SpecTypeOK` (of `OutboxProofs`): `TypeOK` with a bound on the ids in the table (`Bounded`), without which
  the next one would not be a number above them.
* `SpecKeptUntilDelivered`, `SpecImplementsPostbox`: from `Truth`, which says that the rows a flush
  has listed and not done with are in the table as they were (`FlushTrue`), that a row about to be
  deleted as delivered is of a delivered message, and that what a send is about to tell, or
  has told, is so (`SendTrue`, `ToldTrue`). `PlacedKept` is the step they share: no step takes a
  message from where it is safe.
* `SpecNoNeedlessCopy`: by keeping books (`Balance`). For each message, the copies delivered, the
  rows still to be delivered (`Waiting`: a row whose delivery is not noted yet is not one) and the draft that may still be sent
  come to 1 plus `doubt` at most. Every action moves from one account to another, or adds to `doubt` what
  it adds to the sum.

* `AttachmentsProofs`: `Sound` joins what each of browser, window and send knows: a browser that attaches has its
  window open under it and not sending (`BrowserSound`), the window's list has passed the cap (`ComposeSound`), and a
  send under way reads the list in order (`ReadSound`), so what it has read agrees with what the window, which nobody
  changes meanwhile, still lists. The cap is a statement on sums, of which the module shows what it needs first.
* `SpellCheckProofs`: `Own` says of each request and answer under way for the window that is open that its words
  were typed in it, which rests on ids not being given twice (`Fresh`); `Current` follows the handle: of the workers
  and messages that may still change it, the last to do so is of the layout's dictionary. `AreaOK` is kept by every key
  (`AreaInsertOK` and the like).
* `SpecLastEditChecked`: `Settled` says that the last the worker of the last edit has to say is about that line as
  it is (`Final`: a request, else an answer, else what is shown), and that no other worker owes an answer. The request
  of an edit tells of the line edited (`Covers`), and all it may replace is older; a worker that is running has been
  started with a dictionary (`Running`). What an answer flags is then compared with what is drawn: what is typed between two
  blanks, without what is around its letters, is one of the words hunspell tells apart (`TokenIsRun`). It assumes
  `MisspeltAssumption`, that what a dictionary does not know are words: non-empty and of letters.

* `SpecTypeOK` (of `AccountsProofs`): `Typed` adds which account a process works on (`Shape`); that ids differ rests on
  `NextId` being above all there are (`UpsertType`).
* `SpecConfiguredHasSecret`, `SpecOthersKept`: `Sound` says, as long as nothing has clashed, that the file's accounts
  are there once each with a secret (`Backed`), and of each command that is not stale what it still relies on from its
  reading of the file: what it is about to write is backed and has all entries but the one it removes, and a secret
  about to be deleted is of no account. A step that changes the file or the keyring makes the other commands stale, so
  only its own process and the file remain to be shown (`ChangeSound`). That entries are there once matters: removing
  one of two would delete the secret of the other.
* `SpecRemovedIsGone`: `Gone` adds what a removal has done away with at each of its steps (`CleanProc`), as long as it
  is the last to have changed the file (`Leaving`: there is one such removal at most) and `cut` does not tell otherwise; and that a
  directory is that of its account's row or will be removed (`Placed`). The attempt to prove it showed the two
  exceptions of section 3.

The theorems about `Compose` assume what `Recipients` and `Compose` do of their constants: that comma,
quote, blank, letters and addresses differ, and that `Alphabetical` lists the addresses once each. The bounds on lengths and
on accepted suggestions may be any numbers. The invariant is `IInv`:

* `StateOK`, the types; `KnownFits`, that the senders known are of the account shown (an account switch empties them, and an
  answer for another account is dropped); `ClosedIsBlank`, that a closed window keeps nothing of what was written;
  `Fits`, that what is listed is known to the account and matches what is typed; `SendingFrozen`. `SuggestionsFit` is not
  inductive without the second and third: a list made from another account's senders, or one left in a closed window when the
  account is switched, would break it one step later.
* `SpecTypeOK`, `SpecSuggestionsFit`, `SpecSendingFrozen` follow, and `SpecKeptUntilSent`: while a mail is being sent no key closes
  its window, and an answer that does is about what it still shows, which rests on `SendingFrozen`.
* `SpecImplementsPlainText`: each key is written as what it does to a `Spot`, that is the lines above the cursor, what is
  before and after it in its line, and the lines below. In the joined text (`J`) that is a place, and
  the key one of `PlainText`'s actions or a stutter (`BodyStep`). That Up and Down keep the column as far as the line
  reaches is shown from where the text has its last line break
  before the place and its first one after it (`TextLineStart`, `TextLineEnd`).
* `SpecAcceptAppends`: what smtp.rs reads is the field cut into `Pieces` of which the non-blank ones are `Kept`. A
  suggestion is accepted when something is typed that it matches (`QueryGiven`), and
  where the field has no quote the cut before it is the last comma both parsers see (`SeparatorCuts`); so the piece being typed is
  replaced by the one accepted and all before it stays.
* What these rest on: a fold is shown to be the last value of a function on the places of its sequence
  (`FoldExists`, `FoldValue`, `FoldUnique`), which gives scores, spellings, known senders, joined
  lines and recipients their types and one law per element; a best ranking exists (`RankingExists`), so the CHOOSE in
  `BestMatches` has what it promises. The provers lose themselves in nested `\o`, `Len` and `Seq`, so the
  section on sequences gives these names of their own (`Str`, `Size`, `None`, `One`, `Cat`) and later proofs use its laws only.

Every invariant and every action property of the passing runs is a theorem in this sense, and so are the two refinements, of
`Postbox` and of `PlainText`. Some theorems have assumptions the runs share: one call, or one session, at a time, or
`SteadyCase`; the list above says which. Only model-checked: liveness (`Converges`, `LeavesOutbox`,
`ListCatchesUp`), which is out of the prover's reach.

## 5. Not modelled

Parsing and building of messages, header decoding, TLS and authentication; the
text of searches (any set of messages may match). How hunspell's output is
parsed; the fuzzy filter of the file browser; the status line and its timer;
the text a reply starts with. Opening and migrating the database. Themes and
rendering, but for which words are underlined. A UID near 2^32 and servers that
leave out UIDNEXT. Several accounts in one call of sync.rs or send.rs: each
account has its own folder, files, tasks and outbox rows, and no call touches another's.

## 6. Plan

1. done: `MessageStore`, `InboxSync`, its runs and theorems; `Postbox`, `Outbox`;
   `MailList`, `IdleLoop`, `Attachments`, `SpellCheck`, `Accounts`, `Editable`, `Recipients`,
   `Compose` and their theorems.
2. `Mailbox`, an abstract window of a mailbox (extend up, extend down, drop what is
   gone), refined by `InboxSync` in the steady case and by `IdleLoop`.
3. The first sync under crashes; the theme watcher's debounce.
