------------------------------- MODULE Outbox -------------------------------
(***************************************************************************)
(* Sending mail (send.rs, smtp.rs, the outbox queries of store/queries.rs, *)
(* and the compose key handler, spawn_send, SendDone and spawn_flush_outbox *)
(* of mail-tui/src/main.rs), for one account.                              *)
(*                                                                         *)
(* Each run of the program has at most one send under way (the compose     *)
(* window swallows every key while it is sending) and one flush of the     *)
(* outbox, started at launch; both run concurrently, and one action is one *)
(* await of either.  The SMTP server is external: it accepts a message or  *)
(* not, and its answer may be lost.  Filing a copy in Sent is a step       *)
(* whose outcome the code ignores.                                         *)
(***************************************************************************)
EXTENDS Integers, FiniteSets, FiniteSetsExt

CONSTANTS
    Process,    \* concurrent runs of the program on the same data directory
    Message,
    Unsendable, \* messages the SMTP server refuses each time
    MaxDoubt,   \* bound on `doubt`
    MaxCopies,  \* bound on `copies`
    Faults      \* what may go wrong, a subset of AllFaults

\* "net": a send may fail.  "reply": the message may be accepted and the
\* answer lost.  "file": a file may fail to be written, or to be read back.
\* "db": a store job may fail.  "crash": the program may be killed at any
\* moment.
AllFaults == {"net", "reply", "file", "db", "crash"}

ASSUME OutboxAssumption ==
    /\ Unsendable \subseteq Message
    /\ Faults \subseteq AllFaults
    /\ {MaxDoubt, MaxCopies} \subseteq Nat

VARIABLES
    up,       \* which runs of the program are under way
    compose,  \* the compose window and its send
    flush,    \* the flush_outbox task
    outbox,   \* the outbox table: id -> message
    files,    \* messages with a complete .eml in the outbox directory
    given,    \* messages given up on because their file was not readable
    told,     \* what the user was told of each message by a SendDone
    copies,   \* how many times the SMTP server has accepted each message
    doubt     \* how many times a delivery or a queuing went unreported:
              \* the answer was lost, or the program ended before it had
              \* recorded it or told the user

vars == <<up, compose, flush, outbox, files, given, told, copies, doubt>>
server == <<copies, doubt>>

\* A compose window: no message while it is closed; `res` is the result the
\* send task hands to the event loop.
Closed == [pc |-> "closed", msg |-> {}, res |-> "none"]
\* A flush: the rows of list_outbox it has not finished yet.
NoItems == [id \in {} |-> 0]
Idle    == [pc |-> "idle", left |-> NoItems]

Draft(p) == CHOOSE m \in Message : compose[p].msg = {m}
Item(p)  == Min(DOMAIN flush[p].left)
Mail(p)  == flush[p].left[Item(p)]
Handling(p, m) == DOMAIN flush[p].left # {} /\ Mail(p) = m

SendGoto(p, pc)  == compose' = [compose EXCEPT ![p].pc = pc]
SendReturn(p, res) ==
    compose' = [compose EXCEPT ![p].pc = "done", ![p].res = res]
FlushGoto(p, pc) == flush' = [flush EXCEPT ![p].pc = pc]

----------------------------------------------------------------------------
(* The program starts and ends *)

\* The outbox of every account is flushed at launch, and only then.
Launch(p) ==
    /\ ~up[p]
    /\ up' = [up EXCEPT ![p] = TRUE]
    /\ FlushGoto(p, "list")
    /\ UNCHANGED <<compose, outbox, files, given, told, server>>

\* What p has done for m and neither recorded nor told.
Unreported(p, m) ==
    (IF compose[p].msg = {m}
        /\ (compose[p].pc = "append" \/ compose[p].res \in {"sent", "queued"})
       THEN 1 ELSE 0)
    + (IF flush[p].pc \in {"append", "delete"} /\ Mail(p) = m THEN 1 ELSE 0)

\* The tasks end with the program, wherever they are.
End(p) ==
    /\ up[p]
    /\ \A m \in Message : doubt[m] + Unreported(p, m) <= MaxDoubt
    /\ up' = [up EXCEPT ![p] = FALSE]
    /\ compose' = [compose EXCEPT ![p] = Closed]
    /\ flush' = [flush EXCEPT ![p] = Idle]
    /\ doubt' = [m \in Message |-> doubt[m] + Unreported(p, m)]
    /\ UNCHANGED <<outbox, files, given, told, copies>>

\* `q`, which an open compose window takes for itself.
Quit(p)  == compose[p] = Closed /\ End(p)
Crash(p) == "crash" \in Faults /\ End(p)

----------------------------------------------------------------------------
(* Sending *)

StartCompose(p, m) ==
    /\ up[p]
    /\ compose[p] = Closed
    /\ told[m] = "nothing"
    /\ \A q \in Process : compose[q].msg # {m}
    /\ compose' = [compose EXCEPT ![p] = [Closed EXCEPT !.pc = "edit", !.msg = {m}]]
    /\ UNCHANGED <<up, flush, outbox, files, given, told, server>>

Discard(p) ==
    /\ compose[p].pc = "edit"
    /\ compose' = [compose EXCEPT ![p] = Closed]
    /\ UNCHANGED <<up, flush, outbox, files, given, told, server>>

\* Ctrl-S: spawn_send.
Send(p) ==
    /\ compose[p].pc = "edit"
    /\ SendGoto(p, "smtp")
    /\ UNCHANGED <<up, flush, outbox, files, given, told, server>>

\* An attachment that cannot be read, or an address that does not parse: the
\* call returns before anything is sent.
Rejected(p) ==
    /\ compose[p].pc = "smtp"
    /\ SendReturn(p, "failed")
    /\ UNCHANGED <<up, flush, outbox, files, given, told, server>>

Accepted(m) ==
    /\ m \notin Unsendable
    /\ copies[m] < MaxCopies
    /\ copies' = [copies EXCEPT ![m] = @ + 1]

SmtpOk(p) ==
    /\ compose[p].pc = "smtp"
    /\ Accepted(Draft(p))
    /\ SendGoto(p, "append")
    /\ UNCHANGED <<up, flush, outbox, files, given, told, doubt>>

\* Accepted, and the answer lost.
ReplyLost(m) ==
    /\ "reply" \in Faults
    /\ doubt[m] < MaxDoubt
    /\ Accepted(m)
    /\ doubt' = [doubt EXCEPT ![m] = @ + 1]
SmtpReplyLost(p) ==
    /\ compose[p].pc = "smtp"
    /\ ReplyLost(Draft(p))
    /\ SendGoto(p, "write")
    /\ UNCHANGED <<up, flush, outbox, files, given, told>>

\* Any other error: not accepted.
MayFail(m) == "net" \in Faults \/ m \in Unsendable
SmtpFails(p) ==
    /\ compose[p].pc = "smtp"
    /\ MayFail(Draft(p))
    /\ SendGoto(p, "write")
    /\ UNCHANGED <<up, flush, outbox, files, given, told, server>>

\* Plausible bug: a message that was sent but not filed is queued again.
AppendToSentOrQueue(p) ==
    /\ compose[p].pc = "append"
    /\ SendReturn(p, "sent") \/ SendGoto(p, "write")
    /\ UNCHANGED <<up, flush, outbox, files, given, told, server>>
\* append_to_sent, whose errors are only logged.
AppendToSent(p) ==
    /\ compose[p].pc = "append"
    /\ SendReturn(p, "sent")
    /\ UNCHANGED <<up, flush, outbox, files, given, told, server>>

\* queue_outbox writes <time>.eml, a new file each time ...
WriteFile(p) ==
    /\ compose[p].pc = "write"
    /\ files' = files \cup compose[p].msg
    /\ SendGoto(p, "row")
    /\ UNCHANGED <<up, flush, outbox, given, told, server>>

\* ... or fails to, and the user keeps the draft ...
WriteFails(p) ==
    /\ "file" \in Faults
    /\ compose[p].pc = "write"
    /\ SendReturn(p, "failed")
    /\ UNCHANGED <<up, flush, outbox, files, given, told, server>>

\* INTEGER PRIMARY KEY without AUTOINCREMENT: one more than the largest id of
\* the table, so the ids of deleted rows at its end are given again.
NextId(table) == IF DOMAIN table = {} THEN 1 ELSE Max(DOMAIN table) + 1

\* ... and then insert_outbox ...
InsertRow(p) ==
    /\ compose[p].pc = "row"
    /\ LET id == NextId(outbox)
       IN  outbox' = [i \in DOMAIN outbox \cup {id} |->
                        IF i = id THEN Draft(p) ELSE outbox[i]]
    /\ SendReturn(p, "queued")
    /\ UNCHANGED <<up, flush, files, given, told, server>>

\* Plausible bug: the error of insert_outbox is not looked at.
InsertFailsUnseen(p) ==
    /\ "db" \in Faults
    /\ compose[p].pc = "row"
    /\ SendReturn(p, "queued")
    /\ UNCHANGED <<up, flush, outbox, files, given, told, server>>
\* ... which may fail too, and leave the file behind.
InsertFails(p) ==
    /\ "db" \in Faults
    /\ compose[p].pc = "row"
    /\ SendReturn(p, "failed")
    /\ UNCHANGED <<up, flush, outbox, files, given, told, server>>

\* The event loop takes SendDone: Ok closes the window, Err keeps the draft.
SendDone(p) ==
    /\ compose[p].pc = "done"
    /\ IF compose[p].res = "failed"
         THEN /\ compose' = [compose EXCEPT ![p].pc = "edit", ![p].res = "none"]
              /\ UNCHANGED told
         ELSE /\ compose' = [compose EXCEPT ![p] = Closed]
              /\ told' = [told EXCEPT ![Draft(p)] = compose[p].res]
    /\ UNCHANGED <<up, flush, outbox, files, given, server>>

----------------------------------------------------------------------------
(* flush_outbox *)

\* Plausible bug: the end of the list is not looked for.
ContinueBlindly(p, left) ==
    flush' = [flush EXCEPT ![p] = [pc |-> "read", left |-> left]]
\* On to the next row of the list, or to the end of it.
Continue(p, left) ==
    flush' = [flush EXCEPT ![p] =
                IF DOMAIN left = {} THEN Idle ELSE [pc |-> "read", left |-> left]]
NextItem(p) ==
    Continue(p, [i \in DOMAIN flush[p].left \ {Item(p)} |-> flush[p].left[i]])

\* list_outbox.
List(p) ==
    /\ flush[p].pc = "list"
    /\ Continue(p, outbox)
    /\ UNCHANGED <<up, compose, outbox, files, given, told, server>>

Read(p) ==
    /\ flush[p].pc = "read"
    /\ Mail(p) \in files
    /\ FlushGoto(p, "smtp")
    /\ UNCHANGED <<up, compose, outbox, files, given, told, server>>

\* "outbox item unreadable, giving up on it".
Unreadable(p) ==
    /\ flush[p].pc = "read"
    /\ "file" \in Faults \/ Mail(p) \notin files
    /\ FlushGoto(p, "drop")
    /\ UNCHANGED <<up, compose, outbox, files, given, told, server>>

FlushSmtpOk(p) ==
    /\ flush[p].pc = "smtp"
    /\ Accepted(Mail(p))
    /\ FlushGoto(p, "append")
    /\ UNCHANGED <<up, compose, outbox, files, given, told, doubt>>

FlushReplyLost(p) ==
    /\ flush[p].pc = "smtp"
    /\ ReplyLost(Mail(p))
    /\ FlushGoto(p, "failure")
    /\ UNCHANGED <<up, compose, outbox, files, given, told>>

\* Plausible bug: the first failure ends the flush.
FlushSmtpFailsAndStops(p) ==
    /\ flush[p].pc = "smtp"
    /\ MayFail(Mail(p))
    /\ flush' = [flush EXCEPT ![p] = Idle]
    /\ UNCHANGED <<up, compose, outbox, files, given, told, server>>
FlushSmtpFails(p) ==
    /\ flush[p].pc = "smtp"
    /\ MayFail(Mail(p))
    /\ FlushGoto(p, "failure")
    /\ UNCHANGED <<up, compose, outbox, files, given, told, server>>

FlushAppendToSent(p) ==
    /\ flush[p].pc = "append"
    /\ FlushGoto(p, "delete")
    /\ UNCHANGED <<up, compose, outbox, files, given, told, server>>

\* delete_outbox, by id; the file stays.
DeleteRow(p) ==
    /\ flush[p].pc \in {"drop", "delete"}
    /\ outbox' = [i \in DOMAIN outbox \ {Item(p)} |-> outbox[i]]
    /\ given' = IF flush[p].pc = "drop" THEN given \cup {Mail(p)} ELSE given
    /\ NextItem(p)
    /\ UNCHANGED <<up, compose, files, told, server>>

\* Plausible bug: an item that failed is taken off the outbox.
RecordFailureAndForget(p) ==
    /\ flush[p].pc = "failure"
    /\ outbox' = [i \in DOMAIN outbox \ {Item(p)} |-> outbox[i]]
    /\ NextItem(p)
    /\ UNCHANGED <<up, compose, files, given, told, server>>
\* record_outbox_failure, whose count and message nothing reads.
RecordFailure(p) ==
    /\ flush[p].pc = "failure"
    /\ NextItem(p)
    /\ UNCHANGED <<up, compose, outbox, files, given, told, server>>

\* A store job fails, and the flush with it.
FlushDbFails(p) ==
    /\ "db" \in Faults
    /\ flush[p].pc \in {"list", "drop", "delete", "failure"}
    /\ IF flush[p].pc = "delete"
         THEN /\ doubt[Mail(p)] < MaxDoubt
              /\ doubt' = [doubt EXCEPT ![Mail(p)] = @ + 1]
         ELSE UNCHANGED doubt
    /\ flush' = [flush EXCEPT ![p] = Idle]
    /\ UNCHANGED <<up, compose, outbox, files, given, told, copies>>

----------------------------------------------------------------------------
(* Specifications *)

Compose(p) ==
    \/ \E m \in Message : StartCompose(p, m)
    \/ Discard(p) \/ Send(p) \/ Rejected(p)
    \/ SmtpOk(p) \/ SmtpReplyLost(p) \/ SmtpFails(p) \/ AppendToSent(p)
    \/ WriteFile(p) \/ WriteFails(p) \/ InsertRow(p) \/ InsertFails(p)
    \/ SendDone(p)

Flush(p) ==
    \/ List(p) \/ Read(p) \/ Unreadable(p)
    \/ FlushSmtpOk(p) \/ FlushReplyLost(p) \/ FlushSmtpFails(p)
    \/ FlushAppendToSent(p) \/ DeleteRow(p) \/ RecordFailure(p)
    \/ FlushDbFails(p)

Next == \E p \in Process : Launch(p) \/ Quit(p) \/ Crash(p) \/ Compose(p) \/ Flush(p)

Init ==
    /\ up = [p \in Process |-> FALSE]
    /\ compose = [p \in Process |-> Closed]
    /\ flush = [p \in Process |-> Idle]
    /\ outbox = NoItems
    /\ files = {}
    /\ given = {}
    /\ told = [m \in Message |-> "nothing"]
    /\ copies = [m \in Message |-> 0]
    /\ doubt = [m \in Message |-> 0]

Spec == Init /\ [][Next]_vars

\* The runtime polls the tasks whenever they are ready, and what they ask of
\* the network and the disk is answered some time, if only by an error.  A
\* user closes a compose window and ends a session some time, and starts
\* another.  A file that is read again and again is read at last, and a
\* message that is handed over again and again is accepted at last, if the
\* server will have it at all.
SendStep(p)  == \/ Rejected(p) \/ AppendToSent(p) \/ WriteFile(p) \/ InsertRow(p)
                \/ SendDone(p)
FlushStep(p) == \/ List(p) \/ Read(p) \/ FlushSmtpOk(p) \/ FlushSmtpFails(p)
                \/ FlushAppendToSent(p) \/ DeleteRow(p) \/ RecordFailure(p)
Fairness ==
    \A p \in Process :
        /\ WF_vars(Launch(p)) /\ SF_vars(Quit(p))
        /\ WF_vars(SendStep(p)) /\ SF_vars(Discard(p))
        /\ WF_vars(FlushStep(p))
        /\ \A m \in Message : /\ SF_vars(Handling(p, m) /\ Read(p))
                              /\ SF_vars(Handling(p, m) /\ FlushSmtpOk(p))
LiveSpec == Spec /\ Fairness

----------------------------------------------------------------------------
(* Properties *)

ComposePC == {"closed", "edit", "smtp", "append", "write", "row", "done"}
FlushPC   == {"idle", "list", "read", "smtp", "append", "delete", "drop", "failure"}

Window == [pc : ComposePC, msg : {{}} \cup {{m} : m \in Message},
           res : {"none", "sent", "queued", "failed"}]
WindowOK(w) ==
    /\ w \in Window
    /\ (w.msg = {}) <=> (w = Closed)
    /\ (w.res # "none") <=> (w.pc = "done")
TableOK(table) ==
    /\ DOMAIN table \subseteq Nat
    /\ \A id \in DOMAIN table : table[id] \in Message
FlushOK(f) ==
    /\ f \in [pc : FlushPC, left : {f.left}]
    /\ TableOK(f.left)
    /\ (DOMAIN f.left = {}) <=> (f.pc \in {"idle", "list"})

\* Every variable has its type; a run that has ended has no task left, a send
\* has a result exactly when it is over, and a flush holds a row exactly
\* while it works on one.
TypeOK ==
    /\ up \in [Process -> BOOLEAN]
    /\ compose \in [Process -> Window]
    /\ flush = [p \in Process |-> flush[p]]
    /\ \A p \in Process :
          /\ WindowOK(compose[p]) /\ FlushOK(flush[p])
          /\ ~up[p] => compose[p] = Closed /\ flush[p] = Idle
    /\ TableOK(outbox)
    /\ files \subseteq Message
    /\ given \subseteq Message
    /\ told \in [Message -> {"nothing", "sent", "queued"}]
    /\ copies \in [Message -> 0..MaxCopies]
    /\ doubt \in [Message -> 0..MaxDoubt]

Queued(m) == \E id \in DOMAIN outbox : outbox[id] = m

\* A message the user was told is queued is in the outbox until the SMTP
\* server has accepted it, or until its file turned out not to be readable
\* (send.rs:1-3: "queues the message in the local outbox instead of losing
\* it"); whatever fails, whenever the program is killed and started again.
KeptUntilDelivered ==
    \A m \in Message :
        told[m] = "queued" => copies[m] > 0 \/ Queued(m) \/ m \in given

\* A recipient gets a message once, and once more for each time the program
\* could not know, or ended before it had noted, that the message was
\* delivered or queued: never because filing the Sent copy failed, because a
\* flush runs while a send is queueing, or because a flush is repeated
\* (send.rs:29-41, 84-90).
NoNeedlessCopy == \A m \in Message : copies[m] <= 1 + doubt[m]

\* What the postbox promises, of this outbox.
PlaceOf == [m \in Message |-> IF copies[m] > 0 THEN "delivered"
                              ELSE IF Queued(m) THEN "kept"
                              ELSE IF m \in given THEN "given"
                              ELSE "draft"]
Promised == INSTANCE Postbox WITH place <- PlaceOf

\* Sending implements the postbox: a message only leaves the outbox by being
\* delivered or given up on, and the user is told "sent" or "queued" only
\* once it has been (send.rs:18-97, main.rs:378-391).
ImplementsPostbox == Promised!Spec

\* From some point on sessions last until their flush is through, and the
\* store does not fail under one.
FlushesUndisturbed ==
    <>[][\A p \in Process : /\ End(p) => flush[p] = Idle
                            /\ ~FlushDbFails(p)]_vars

\* A queued message that the server would accept is delivered at last (or its
\* row given up on), however often the network fails and whatever other
\* messages of the outbox keep failing ahead of it: "Non-fatal on individual
\* failures" (send.rs:66-67).
LeavesOutbox == FlushesUndisturbed => Promised!Leaves
=============================================================================
