------------------------------ MODULE Accounts ------------------------------
(***************************************************************************)
(* Which accounts there are, and what the program keeps of each: an entry  *)
(* of config.toml (config.rs), a secret in the keyring (account.rs), a row *)
(* of the database with all that refers to it (upsert_account and          *)
(* delete_account of queries.rs), and a directory for its mail, named by   *)
(* the id of the row.  The commands of setup.rs and the sessions of the    *)
(* program (main.rs) are processes; nothing keeps them from running at the *)
(* same time.  An action is a step no other process can be seen in the     *)
(* middle of: one call of the file system, the keyring or the database.    *)
(***************************************************************************)
EXTENDS Integers, Sequences, FiniteSets, SequencesExt

CONSTANTS
    Email, NoEmail,
    Proc,      \* the processes
    MaxId,     \* a bound on the ids of rows
    MaxStarts, \* and on the processes started
    Faults     \* a subset of {"crash", "disk", "keyring", "db"}

ASSUME AccountsAssumption ==
    /\ NoEmail \notin Email
    /\ {MaxId, MaxStarts} \subseteq Nat
    /\ Faults \subseteq {"crash", "disk", "keyring", "db"}

VARIABLES
    file,     \* config.toml
    keyring,  \* the accounts that have a secret
    rows,     \* the accounts table
    dirs,     \* the directories with mail: <<id, whose mail it is>>
    proc,
    starts,   \* processes started, for their bound
    cut,      \* history: accounts of which a removal was not completed, of which
              \* a process has stored something again since it, or whose row was
              \* deleted in place of another's
    clashed   \* history: a process has acted on what another has changed

vars == <<file, keyring, rows, dirs, proc, starts, cut, clashed>>

----------------------------------------------------------------------------
(* Configuration, and processes *)

\* Config.  A file that is missing, or empty as fs::write leaves it before it
\* has written, is read as this.
NoConfig == [accounts |-> <<>>, default |-> NoEmail]

Has(conf, e) == e \in ToSet(conf.accounts)

\* `then` is where save returns to; `list` are the accounts of a session,
\* each with its id.  History: `stale`, whether another process has changed
\* the file or the keyring since this command has read the file.
NoProc == [pc |-> "none", conf |-> NoConfig, email |-> NoEmail, id |-> 0, then |-> "none",
           todo |-> <<>>, list |-> <<>>, stale |-> FALSE]

To(p, pc) == proc' = [proc EXCEPT ![p].pc = pc]
End(p)    == proc' = [proc EXCEPT ![p] = NoProc]
Loaded(p, conf, pc) == [proc[p] EXCEPT !.conf = conf, !.pc = pc, !.stale = FALSE]

\* History of a change of the file or the keyring, by p, which goes on as `to`.
Changes(p, to) ==
    /\ clashed' = (clashed \/ proc[p].stale)
    /\ proc' = [q \in Proc |->
            IF q = p THEN to
            ELSE [proc[q] EXCEPT !.stale = @ \/ proc[q].pc \notin {"none", "open", "run"}]]

Start(p, to) ==
    /\ proc[p].pc = "none"
    /\ starts < MaxStarts
    /\ starts' = starts + 1
    /\ proc' = [proc EXCEPT ![p] = to]
    /\ UNCHANGED <<file, keyring, rows, dirs, cut, clashed>>

----------------------------------------------------------------------------
(* Config::save, fs::write: the file is emptied, then written. *)

Saving(p, conf, then) == [Loaded(p, conf, "save") EXCEPT !.then = then]

Empty(p) ==
    /\ proc[p].pc = "save"
    /\ file' = NoConfig
    /\ Changes(p, [proc[p] EXCEPT !.pc = "write"])
    /\ UNCHANGED <<keyring, rows, dirs, starts, cut>>

\* A command ends after it has saved, unless it has more to do.
AfterSave(p) ==
    IF proc[p].then = "none" THEN NoProc
    ELSE [proc[p] EXCEPT !.pc = proc[p].then, !.conf = NoConfig, !.then = "none"]

Write(p) ==
    /\ proc[p].pc = "write"
    /\ file' = proc[p].conf
    /\ Changes(p, AfterSave(p))
    /\ UNCHANGED <<keyring, rows, dirs, starts, cut>>

\* An error ends a command and is shown by a session.
SaveFails(p) ==
    /\ "disk" \in Faults
    /\ proc[p].pc \in {"save", "write"}
    /\ proc' = [proc EXCEPT ![p] = IF proc[p].then = "run" THEN AfterSave(p) ELSE NoProc]
    /\ UNCHANGED <<file, keyring, rows, dirs, starts, cut, clashed>>

----------------------------------------------------------------------------
(* --add-account, and the first run *)

StartAdd(p) == Start(p, Loaded(p, file, "add"))

SetSecret(p, e, to) ==
    /\ keyring' = keyring \cup {e}
    /\ Changes(p, to)
    /\ UNCHANGED <<file, rows, dirs, starts, cut>>

\* What is asked for has been typed in; the password is stored first.
Add(p) ==
    /\ proc[p].pc = "add"
    /\ \E e \in Email :
        /\ ~Has(proc[p].conf, e)
        /\ SetSecret(p, e, [proc[p] EXCEPT !.conf.accounts = Append(@, e),
                                           !.email = e, !.pc = "save"])

\* Of an account there is already, or the keyring does not answer.
SecretFails(p) ==
    /\ proc[p].pc \in {"add", "setup", "password"}
    /\ \/ proc[p].pc = "add" /\ \E e \in Email : Has(proc[p].conf, e)
       \/ "keyring" \in Faults
    /\ End(p)
    /\ UNCHANGED <<file, keyring, rows, dirs, starts, cut, clashed>>

\* load_or_setup_accounts, run: the configuration is loaded again after the
\* questions.
StartSetup(p) == file.accounts = <<>> /\ Start(p, Loaded(p, file, "setup"))

Setup(p) ==
    /\ proc[p].pc = "setup"
    /\ \E e \in Email : SetSecret(p, e, [proc[p] EXCEPT !.email = e, !.pc = "reload"])

SetupReload(p) ==
    /\ proc[p].pc = "reload"
    /\ proc' = [proc EXCEPT ![p] =
            [Saving(p, [file EXCEPT !.accounts = Append(@, proc[p].email)], "open")
                EXCEPT !.todo = <<proc[p].email>>, !.stale = proc[p].stale]]
    /\ UNCHANGED <<file, keyring, rows, dirs, starts, cut, clashed>>

----------------------------------------------------------------------------
(* --set-default-account and --set-password *)

StartDefault(p) ==
    \E e \in ToSet(file.accounts) : Start(p, Saving(p, [file EXCEPT !.default = e], "none"))

StartPassword(p) ==
    \E e \in ToSet(file.accounts) : Start(p, [Loaded(p, file, "password") EXCEPT !.email = e])

SetPassword(p) ==
    /\ proc[p].pc = "password"
    /\ SetSecret(p, proc[p].email, NoProc)

----------------------------------------------------------------------------
(* The database *)

NextId == 1 + Max({0} \cup {r.id : r \in rows})

\* Plausible bug: a new id counts the accounts there are.
UpsertCounting(e) ==
    IF \E r \in rows : r.email = e THEN rows
    ELSE rows \cup {[email |-> e, id |-> 1 + Cardinality(rows)]}

\* upsert_account: the table after it, and the id it returns.
Upsert(e) == IF \E r \in rows : r.email = e THEN rows ELSE rows \cup {[email |-> e, id |-> NextId]}
IdOf(e, table) == (CHOOSE r \in table : r.email = e).id

HasRoom(e) == NextId <= MaxId \/ \E r \in rows : r.email = e

----------------------------------------------------------------------------
(* --remove-account *)

\* Plausible bug: the first entry is removed, not the one picked.
WithoutFirst(conf, i) ==
    [accounts |-> Tail(conf.accounts),
     default  |-> IF conf.default = conf.accounts[i] THEN NoEmail ELSE conf.default]

\* Of an account that is listed twice, the entry picked is removed.
Without(conf, i) ==
    [accounts |-> RemoveAt(conf.accounts, i),
     default  |-> IF conf.default = conf.accounts[i] THEN NoEmail ELSE conf.default]

Removal(p, i) == [Saving(p, Without(file, i), "secret") EXCEPT !.email = file.accounts[i]]

\* Plausible bug: the secret is deleted before the file is saved.
StartRemoveSecretFirst(p) ==
    \E i \in DOMAIN file.accounts :
        /\ proc[p].pc = "none"
        /\ starts < MaxStarts
        /\ starts' = starts + 1
        /\ keyring' = keyring \ {file.accounts[i]}
        /\ Changes(p, Removal(p, i))
        /\ UNCHANGED <<file, rows, dirs, cut>>

StartRemove(p) == \E i \in DOMAIN file.accounts : Start(p, Removal(p, i))

\* delete_password; if it fails, there is a warning.
DeleteSecret(p) ==
    /\ proc[p].pc = "secret"
    /\ keyring' = keyring \ {proc[p].email}
    /\ Changes(p, [proc[p] EXCEPT !.pc = "find"])
    /\ UNCHANGED <<file, rows, dirs, starts, cut>>

SecretStays(p) ==
    /\ "keyring" \in Faults
    /\ proc[p].pc = "secret"
    /\ To(p, "find")
    /\ cut' = cut \cup {proc[p].email}
    /\ UNCHANGED <<file, keyring, rows, dirs, starts, clashed>>

\* The id is found by an upsert: a row is made if there was none.
FindRow(p) ==
    /\ proc[p].pc = "find"
    /\ HasRoom(proc[p].email)
    /\ rows' = Upsert(proc[p].email)
    /\ proc' = [proc EXCEPT ![p].id = IdOf(proc[p].email, rows'), ![p].pc = "delete"]
    /\ cut' = IF proc[p].stale THEN cut \cup {proc[p].email} ELSE cut
    /\ UNCHANGED <<file, keyring, dirs, starts, clashed>>

\* delete_account, by the id, which may have been given to another account
\* since it was found.
DeleteRow(p) ==
    /\ proc[p].pc = "delete"
    /\ rows' = {r \in rows : r.id # proc[p].id}
    /\ To(p, "files")
    /\ cut' = cut \cup ({r.email : r \in rows \ rows'} \ {proc[p].email})
    /\ UNCHANGED <<file, keyring, dirs, starts, clashed>>

\* Plausible bug: the directories are looked for by a new id.
RemoveFilesOfNext(p) ==
    /\ proc[p].pc = "files"
    /\ dirs' = {d \in dirs : d[1] # NextId}
    /\ End(p)
    /\ UNCHANGED <<file, keyring, rows, starts, cut, clashed>>

RemoveFiles(p) ==
    /\ proc[p].pc = "files"
    /\ dirs' = {d \in dirs : d[1] # proc[p].id}
    /\ End(p)
    /\ UNCHANGED <<file, keyring, rows, starts, cut, clashed>>

\* An error of remove_dir_all is not even told.
FilesStay(p) ==
    /\ "disk" \in Faults
    /\ proc[p].pc = "files"
    /\ cut' = cut \cup {proc[p].email}
    /\ End(p)
    /\ UNCHANGED <<file, keyring, rows, dirs, starts, clashed>>

\* The database does not open, or fails: the command ends with an error.
RemoveFails(p) ==
    /\ "db" \in Faults
    /\ proc[p].pc \in {"find", "delete"}
    /\ cut' = cut \cup {proc[p].email}
    /\ End(p)
    /\ UNCHANGED <<file, keyring, rows, dirs, starts, clashed>>

----------------------------------------------------------------------------
(* A session *)

Launch(p) ==
    /\ file.accounts # <<>>
    /\ Start(p, [NoProc EXCEPT !.pc = "open", !.todo = file.accounts])

\* History of storing something for account e, under an id: it has been
\* removed, or has another id.
Stored(e, id, table) ==
    cut' = IF Has(file, e) /\ [email |-> e, id |-> id] \in table THEN cut ELSE cut \cup {e}

\* The accounts are entered into the database in their order.
OpenAccount(p) ==
    /\ proc[p].pc = "open"
    /\ proc[p].todo # <<>>
    /\ LET e == Head(proc[p].todo) IN
        /\ HasRoom(e)
        /\ rows' = Upsert(e)
        /\ proc' = [proc EXCEPT ![p].todo = Tail(@),
                        ![p].list = Append(@, [email |-> e, id |-> IdOf(e, rows')])]
        /\ Stored(e, IdOf(e, rows'), rows')
    /\ UNCHANGED <<file, keyring, dirs, starts, clashed>>

OpenFails(p) ==
    /\ "db" \in Faults
    /\ proc[p].pc = "open"
    /\ End(p)
    /\ UNCHANGED <<file, keyring, rows, dirs, starts, cut, clashed>>

Opened(p) ==
    /\ proc[p].pc = "open"
    /\ proc[p].todo = <<>>
    /\ To(p, "run")
    /\ UNCHANGED <<file, keyring, rows, dirs, starts, cut, clashed>>

Mine(p) == ToSet(proc[p].list)

\* sync_inbox enters the account again.
Sync(p) ==
    /\ proc[p].pc = "run"
    /\ \E a \in Mine(p) :
        /\ HasRoom(a.email)
        /\ rows' = Upsert(a.email)
        /\ Stored(a.email, IdOf(a.email, rows'), rows')
    /\ UNCHANGED <<file, keyring, dirs, proc, starts, clashed>>

\* fetch_body writes a message to the directory of the id it was launched
\* with.
FetchBody(p) ==
    /\ proc[p].pc = "run"
    /\ \E a \in Mine(p) :
        /\ dirs' = dirs \cup {<<a.id, a.email>>}
        /\ Stored(a.email, a.id, rows)
    /\ UNCHANGED <<file, keyring, rows, proc, starts, clashed>>

\* `D`: set_default_account, of the account shown.
SetDefault(p) ==
    /\ proc[p].pc = "run"
    /\ \E a \in Mine(p) :
        proc' = [proc EXCEPT ![p] = Saving(p, [file EXCEPT !.default = a.email], "run")]
    /\ UNCHANGED <<file, keyring, rows, dirs, starts, cut, clashed>>

Quit(p) ==
    /\ proc[p].pc = "run"
    /\ End(p)
    /\ UNCHANGED <<file, keyring, rows, dirs, starts, cut, clashed>>

----------------------------------------------------------------------------
(* The specification *)

Removing(p) == "secret" \in {proc[p].pc, proc[p].then} \/ proc[p].pc \in {"find", "delete", "files"}

Crash(p) ==
    /\ "crash" \in Faults
    /\ proc[p].pc # "none"
    /\ cut' = IF Removing(p) THEN cut \cup {proc[p].email} ELSE cut
    /\ End(p)
    /\ UNCHANGED <<file, keyring, rows, dirs, starts, clashed>>

Init ==
    /\ file = NoConfig
    /\ keyring = {} /\ rows = {} /\ dirs = {} /\ cut = {}
    /\ proc = [p \in Proc |-> NoProc]
    /\ starts = 0
    /\ clashed = FALSE

Next ==
    \E p \in Proc :
        \/ Empty(p) \/ Write(p) \/ SaveFails(p)
        \/ StartAdd(p) \/ Add(p) \/ SecretFails(p)
        \/ StartSetup(p) \/ Setup(p) \/ SetupReload(p)
        \/ StartDefault(p) \/ StartPassword(p) \/ SetPassword(p)
        \/ StartRemove(p) \/ DeleteSecret(p) \/ SecretStays(p) \/ FindRow(p) \/ DeleteRow(p)
        \/ RemoveFiles(p) \/ FilesStay(p) \/ RemoveFails(p)
        \/ Launch(p) \/ OpenAccount(p) \/ OpenFails(p) \/ Opened(p)
        \/ Sync(p) \/ FetchBody(p) \/ SetDefault(p) \/ Quit(p)
        \/ Crash(p)

Spec == Init /\ [][Next]_vars

----------------------------------------------------------------------------
(* Properties *)

Config == [accounts : Seq(Email), default : Email \cup {NoEmail}]
Account == [email : Email, id : 1..MaxId]
Process ==
    [pc : {"none", "save", "write", "add", "setup", "reload", "password", "secret", "find",
           "delete", "files", "open", "run"},
     conf : Config, email : Email \cup {NoEmail}, id : 0..MaxId,
     then : {"none", "open", "secret", "run"},
     todo : Seq(Email), list : Seq(Account), stale : BOOLEAN]

TypeOK ==
    /\ file \in Config
    /\ keyring \subseteq Email /\ cut \subseteq Email
    /\ rows \subseteq Account
    /\ \A r, s \in rows : r.email = s.email \/ r.id = s.id => r = s
    /\ dirs \subseteq (1..MaxId) \X Email
    /\ starts \in 0..MaxStarts
    /\ proc \in [Proc -> Process]
    /\ clashed \in BOOLEAN

\* Every configured account has its secret, at every moment and whichever
\* step of adding or removing it failed or was the last before a crash: the
\* program never starts into an account it cannot log in to.  Unless one
\* process has acted on what another had changed meanwhile.
ConfiguredHasSecret == ~clashed => ToSet(file.accounts) \subseteq keyring

\* An account's entry is only lost by its removal, or when the file is emptied
\* to be written again with that entry: another account's being added, removed
\* or made the default takes none along, be it in another process, unless one
\* has acted on what another had changed meanwhile.  (A save that is cut short
\* between the two loses all entries.)
OthersKept ==
    [][\A e \in Email : Has(file, e) /\ ~Has(file', e) =>
        \/ clashed'
        \/ \E p \in Proc :
            /\ Empty(p)
            /\ Has(proc[p].conf, e) \/ (Removing(p) /\ proc[p].email = e)]_vars

\* When --remove-account says "Removed", nothing of the account is left, as
\* its documentation promises (setup.rs): not even of what a session that was
\* running stored before it.  Unless that or an earlier removal was cut short
\* or has yet to come to the files, a session, or a second removal, has stored
\* something since the account has gone from the file, another process has
\* added it again meanwhile, or a removal of another account has hit its row.
RemovedIsGone ==
    [][\A p \in Proc : RemoveFiles(p) =>
        LET e == proc[p].email IN
        \/ e \in cut \/ clashed \/ proc[p].stale
        \/ \E q \in Proc \ {p} : proc[q].pc = "files" /\ proc[q].email = e
        \/ /\ ~Has(file, e) /\ e \notin keyring
           /\ \A r \in rows : r.email # e
           /\ \A d \in dirs' : d[2] # e]_vars

=============================================================================
