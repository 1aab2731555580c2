---------------------------- MODULE Attachments ----------------------------
(***************************************************************************)
(* Files in mail-tui: the file browser (filebrowser.rs), picking files to  *)
(* attach (attach.rs, finish_attach in main.rs), reading them when the     *)
(* mail is sent (send_with_attachments), and saving an attachment of the   *)
(* mail in the reading pane (start_download, confirm_save).  The browser   *)
(* takes every key while it is open.  Other programs change files at any   *)
(* time; dot files are left out, and which order the names of a directory  *)
(* have is left to SetToSeq.                                               *)
(***************************************************************************)
EXTENDS Integers, Sequences, FiniteSets, SequencesExt

CONSTANTS
    Dir, Home,    \* directories, and the one the browser starts in
    Parent,       \* directory -> the one it is in, or NoDir
    NoDir,
    Name,         \* file names
    Bytes, NoFile, \* contents, and that there is no such file
    Size,         \* contents -> size
    Partial,      \* what a write that fails may leave in a file
    Disk,         \* the files at the start
    Received,     \* the mails that may be shown, each as its attachments
    Unloaded,     \* of these, one too large to be loaded
    Cap,          \* MAX_TOTAL_ATTACHMENT_BYTES
    MaxChanges,   \* bounds on changes to files by other programs
    MaxItems,     \* and on attachments listed
    Faults        \* a subset of {"dir", "file"}: directories and files that
                  \* cannot be read or written

Path == Dir \X Name
Up == ".."

ASSUME AttachmentsAssumption ==
    /\ IsFiniteSet(Dir) /\ IsFiniteSet(Name)
    /\ Home \in Dir /\ NoDir \notin Dir /\ Parent \in [Dir -> Dir \cup {NoDir}]
    /\ Size \in [Bytes -> Nat] /\ Partial \in Bytes /\ NoFile \notin Bytes /\ Unloaded \notin Bytes
    /\ Disk \in [Path -> Bytes \cup {NoFile}]
    /\ Received \subseteq Seq(Bytes \cup {Unloaded})
    /\ {Cap, MaxChanges, MaxItems} \subseteq Nat
    /\ Up \notin Dir \cup Name /\ Dir \cap Name = {}
    /\ Faults \subseteq {"dir", "file"}

VARIABLES
    disk,      \* the files
    changes,   \* changes by other programs, for their bound
    pane,      \* the mail in the reading pane, and the attachment selected
    compose,   \* the compose window: open, sending, its attachments
    browser,   \* the file browser
    reading,   \* the attachments of the mail being sent, as far as read
    wanted     \* history: what the attachment held that is to be saved

vars == <<disk, changes, pane, compose, browser, reading, wanted>>

\* Selections count from 0, as in the code.
NoItems == [items |-> <<>>, selected |-> 0]
Shut == [open |-> FALSE, sending |-> FALSE, attachments |-> NoItems]

\* `purpose` is what the browser is open for, or "none"; `filename` is the
\* text of its field, "" if it is blank.
Closed == [purpose |-> "none", bytes |-> NoFile, dir |-> Home, entries |-> <<>>,
           selected |-> 0, filename |-> "", focused |-> FALSE]

\* BrowserPurpose
Attaching == browser.purpose = "attach"
Saving    == browser.purpose = "save"
NoBrowser == browser.purpose = "none"

----------------------------------------------------------------------------
(* Selectable, and the browser's list *)

UpOne(i) == Max({0, i - 1})
DownOne(i, n) == IF n = 0 THEN i ELSE Min({i + 1, n - 1})

\* Plausible bug: the selection stays where it was.
RemoveSelectedOnly(s) ==
    IF s.items = <<>> THEN s ELSE [s EXCEPT !.items = RemoveAt(@, s.selected + 1)]
\* remove_selected
RemoveSelected(s) ==
    IF s.items = <<>> THEN s
    ELSE [items |-> RemoveAt(s.items, s.selected + 1),
          selected |-> Max({0, Min({s.selected, Len(s.items) - 2})})]

\* reload: `..`, the directories, the files.
Listing(d) ==
    LET up    == IF Parent[d] = NoDir THEN <<>> ELSE <<Up>>
        dirs  == SetToSeq({e \in Dir : Parent[e] = d})
        files == SetToSeq({n \in Name : disk[<<d, n>>] # NoFile})
    IN  {up \o dirs \o files} \cup (IF "dir" \in Faults THEN {up} ELSE {})

\* The browser, in directory d.
In(b, d, entries) == [b EXCEPT !.dir = d, !.entries = entries, !.selected = 0]

----------------------------------------------------------------------------
(* Other programs, and the reading pane *)

Change(p, b) ==
    /\ changes < MaxChanges
    /\ b # disk[p]
    /\ changes' = changes + 1
    /\ disk' = [disk EXCEPT ![p] = b]
    /\ UNCHANGED <<pane, compose, browser, reading, wanted>>

\* Body, the answer about a mail that was asked for before; with another
\* mail under the cursor it may come while a browser is open.
BodyLoaded(m) ==
    /\ pane' = [mail |-> m, selected |-> 0]
    /\ UNCHANGED <<disk, changes, compose, browser, reading, wanted>>

Normal == ~compose.open /\ NoBrowser

\* `[` and `]`
SelectAttachment ==
    /\ Normal
    /\ pane.mail # <<>>
    /\ \E i \in {UpOne(pane.selected), DownOne(pane.selected, Len(pane.mail))} :
        pane' = [pane EXCEPT !.selected = i]
    /\ UNCHANGED <<disk, changes, compose, browser, reading, wanted>>

\* `a`: start_download.  One that was not loaded is not saved.
Download ==
    /\ Normal
    /\ pane.selected < Len(pane.mail)
    /\ LET bytes == pane.mail[pane.selected + 1] IN
        /\ bytes # Unloaded
        /\ wanted' = bytes
        /\ \E entries \in Listing(Home), n \in Name :
            browser' = In([Closed EXCEPT !.purpose = "save", !.bytes = bytes, !.filename = n],
                          Home, entries)
    /\ UNCHANGED <<disk, changes, pane, compose, reading>>

----------------------------------------------------------------------------
(* The compose window *)

Compose ==
    /\ Normal
    /\ compose' = [Shut EXCEPT !.open = TRUE]
    /\ UNCHANGED <<disk, changes, pane, browser, reading, wanted>>

\* Plausible bug: Ctrl-A works while the mail is being sent.
OpenNow == compose.open /\ NoBrowser
\* handle_compose_key ignores keys while sending.
Editing == compose.open /\ ~compose.sending /\ NoBrowser

Discard ==
    /\ Editing
    /\ compose' = Shut
    /\ UNCHANGED <<disk, changes, pane, browser, reading, wanted>>

\* Ctrl-A
Attach ==
    /\ Editing
    /\ \E entries \in Listing(Home) :
        browser' = In([Closed EXCEPT !.purpose = "attach"], Home, entries)
    /\ UNCHANGED <<disk, changes, pane, compose, reading, wanted>>

\* Backspace, up and down, with the focus on the attachments.
EditItems ==
    /\ Editing
    /\ \E s \in {RemoveSelected(compose.attachments),
                 [compose.attachments EXCEPT !.selected = UpOne(@)],
                 [compose.attachments EXCEPT !.selected = DownOne(@, Len(compose.attachments.items))]} :
        compose' = [compose EXCEPT !.attachments = s]
    /\ UNCHANGED <<disk, changes, pane, browser, reading, wanted>>

\* Ctrl-S
Send ==
    /\ Editing
    /\ compose' = [compose EXCEPT !.sending = TRUE]
    /\ reading' = [todo |-> compose.attachments.items, files |-> <<>>]
    /\ UNCHANGED <<disk, changes, pane, browser, wanted>>

----------------------------------------------------------------------------
(* send_with_attachments *)

\* The next file, by its path now.
ReadFile ==
    /\ compose.sending
    /\ reading.todo # <<>>
    /\ LET item == Head(reading.todo) IN
        /\ disk[item.path] # NoFile
        /\ reading' = [todo |-> Tail(reading.todo),
                       files |-> Append(reading.files, [path |-> item.path, bytes |-> disk[item.path]])]
    /\ UNCHANGED <<disk, changes, pane, compose, browser, wanted>>

NotReading == [todo |-> <<>>, files |-> <<>>]

\* A file that cannot be read: the answer is an error, and nothing is sent.
ReadFails ==
    /\ compose.sending
    /\ reading.todo # <<>>
    /\ disk[Head(reading.todo).path] = NoFile \/ "file" \in Faults
    /\ compose' = [compose EXCEPT !.sending = FALSE]
    /\ reading' = NotReading
    /\ UNCHANGED <<disk, changes, pane, browser, wanted>>

\* Plausible bug: what could be read is sent.
AnyRead == reading.files # <<>> \/ reading.todo = <<>>
AllRead == reading.todo = <<>>

\* send_message has all files; it succeeds, or it fails.
Sent ==
    /\ compose.sending
    /\ AllRead
    /\ compose' \in {Shut, [compose EXCEPT !.sending = FALSE]}
    /\ reading' = NotReading
    /\ UNCHANGED <<disk, changes, pane, browser, wanted>>

----------------------------------------------------------------------------
(* handle_browser_key *)

Keep(b) == browser' = b /\ UNCHANGED <<disk, changes, pane, compose, reading, wanted>>

Cancel == ~NoBrowser /\ Keep(Closed)

\* Tab: there is a field for the file's name when saving only.
ToggleFocus == Saving /\ Keep([browser EXCEPT !.focused = ~@])

MoveInList ==
    /\ ~NoBrowser /\ ~browser.focused
    /\ \E i \in {UpOne(browser.selected), DownOne(browser.selected, Len(browser.entries))} :
        Keep([browser EXCEPT !.selected = i])

\* The entry Enter is pressed on.
Entry == browser.entries[browser.selected + 1]
OnEntry == ~NoBrowser /\ ~browser.focused /\ browser.selected < Len(browser.entries)

\* activate, on a directory.
Descend ==
    /\ OnEntry
    /\ Entry \in Dir \cup {Up}
    /\ LET d == IF Entry = Up THEN Parent[browser.dir] ELSE Entry IN
        \E entries \in Listing(d) : Keep(In(browser, d, entries))

RecordedSize(items) == FoldLeft(LAMBDA n, i : n + i.size, 0, items)

\* validate
Fits(items, size) == RecordedSize(items) + size <= Cap

\* handle_browser_pick, finish_attach.  Only its error is shown when a file
\* is gone by now, or too large.
PickToAttach ==
    /\ OnEntry
    /\ Attaching /\ Entry \in Name
    /\ LET items == compose.attachments.items
           p     == <<browser.dir, Entry>>
       IN   /\ Len(items) < MaxItems
            /\ disk[p] # NoFile
            /\ Fits(items, Size[disk[p]])
            /\ compose' = [compose EXCEPT !.attachments =
                   [items |-> Append(items, [path |-> p, size |-> Size[disk[p]], then |-> changes]),
                    selected |-> Len(items)]]
    /\ browser' = Closed
    /\ UNCHANGED <<disk, changes, pane, reading, wanted>>

PickToReplace ==
    /\ OnEntry
    /\ Saving /\ Entry \in Name
    /\ Keep([browser EXCEPT !.filename = Entry, !.focused = TRUE])

\* Some characters typed into the name, or deleted from it.
EditFilename ==
    /\ browser.focused
    /\ \E n \in Name \cup {""} : Keep([browser EXCEPT !.filename = n])

\* Plausible bug: what is written is looked up when it is.
SelectedNow == IF pane.selected < Len(pane.mail) THEN pane.mail[pane.selected + 1] ELSE browser.bytes
\* BrowserPurpose::SaveAttachment
ToSave == browser.bytes

\* confirm_save; if the write fails, the browser stays open, and what was in
\* the file may be gone.
ConfirmSave ==
    /\ Saving /\ browser.focused
    /\ browser.filename # ""
    /\ LET p == <<browser.dir, browser.filename>> IN
        \/ disk' = [disk EXCEPT ![p] = ToSave] /\ browser' = Closed
        \/ /\ "file" \in Faults
           /\ disk' \in {disk, [disk EXCEPT ![p] = Partial]}
           /\ UNCHANGED browser
    /\ UNCHANGED <<changes, pane, compose, reading, wanted>>

----------------------------------------------------------------------------
(* The specification *)

Init ==
    /\ disk = Disk
    /\ changes = 0
    /\ pane = [mail |-> <<>>, selected |-> 0]
    /\ compose = Shut
    /\ browser = Closed
    /\ reading = NotReading
    /\ wanted = NoFile

Next ==
    \/ \E p \in Path, b \in Bytes \cup {NoFile} : Change(p, b)
    \/ \E m \in Received : BodyLoaded(m)
    \/ SelectAttachment \/ Download
    \/ Compose \/ Discard \/ Attach \/ EditItems \/ Send
    \/ ReadFile \/ ReadFails \/ Sent
    \/ Cancel \/ ToggleFocus \/ MoveInList \/ Descend
    \/ PickToAttach \/ PickToReplace \/ EditFilename \/ ConfirmSave

Spec == Init /\ [][Next]_vars

----------------------------------------------------------------------------
(* Properties *)

Item == [path : Path, size : Nat, then : 0..MaxChanges]
InRange(i, s) == i \in 0..Max({0, Len(s) - 1})

\* Selections stay inside their lists, from which the code removes by them.
TypeOK ==
    /\ disk \in [Path -> Bytes \cup {NoFile}]
    /\ changes \in 0..MaxChanges
    /\ pane.mail \in Received \cup {<<>>} /\ InRange(pane.selected, pane.mail)
    /\ compose.attachments.items \in Seq(Item)
    /\ InRange(compose.attachments.selected, compose.attachments.items)
    /\ browser.purpose \in {"none", "attach", "save"}
    /\ browser.dir \in Dir
    /\ browser.entries \in Seq({Up} \cup Dir \cup Name)
    /\ InRange(browser.selected, browser.entries)
    /\ browser.filename \in Name \cup {""}
    /\ reading.todo \in Seq(Item)
    /\ reading.files \in Seq([path : Path, bytes : Bytes])

\* A browser opened to attach a file is open over the window it was opened
\* from, which is not being sent: what is picked is neither lost nor added to
\* a mail that is under way.
AttachesToWindow == Attaching => compose.open /\ ~compose.sending

\* What is handed to send_message is, file by file, what the window lists,
\* however files came and went meanwhile, and no more than the cap if none
\* has been changed since it was picked.
SentAsListed ==
    [][Sent =>
        LET items == compose.attachments.items IN
        /\ Len(reading.files) = Len(items)
        /\ \A i \in DOMAIN items : reading.files[i].path = items[i].path
        /\ (\A i \in DOMAIN items : items[i].then = changes) =>
               FoldLeft(LAMBDA n, f : n + Size[f.bytes], 0, reading.files) <= Cap]_vars

\* What is saved is the attachment on which `a` was pressed, with what it
\* held then, whatever mail the pane shows by the time it is confirmed.
SavedIsWanted ==
    [][ConfirmSave /\ browser' = Closed =>
        disk'[<<browser.dir, browser.filename>>] = wanted]_vars

=============================================================================
