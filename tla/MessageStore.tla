---------------------------- MODULE MessageStore ----------------------------
(***************************************************************************)
(* The `messages` table of one folder in the local SQLite cache, as the    *)
(* queries of store/queries.rs see it.  A table is a function from the     *)
(* cached UIDs (the UNIQUE(folder_id, uid) key) to rows.  A row keeps what *)
(* tells two messages apart: `gen`, the UIDVALIDITY under which the server *)
(* gave this UID (UIDVALIDITY and UID together name a message), `flag`,    *)
(* the flags last seen, and `raw`, whether raw_path is set.  The path      *)
(* itself is determined by the UID (<uid>.eml in the account's directory). *)
(* Every query runs alone on the store's one thread, so each operator      *)
(* below is one atomic step of whoever calls it.                           *)
(***************************************************************************)
EXTENDS Integers, FiniteSets, FiniteSetsExt

\* What SELECT MAX(uid) and SELECT MIN(uid) return over no rows.
NoUid == 0

\* ORDER BY uid DESC LIMIT n: the n highest UIDs of a set.
Newest(uids, n) == {u \in uids : Cardinality({v \in uids : v > u}) < n}

\* Plausible bug: the sort left ascending, so that LIMIT keeps the lowest.
NewestOldestFirst(uids, n) ==
    {u \in uids : Cardinality({v \in uids : v < u}) < n}

\* A table without rows.
NoRows == [u \in {} |-> 0]

MaxUidOf(rows) == IF DOMAIN rows = {} THEN NoUid ELSE Max(DOMAIN rows)

MinUidOf(rows) == IF DOMAIN rows = {} THEN NoUid ELSE Min(DOMAIN rows)

\* INSERT ... ON CONFLICT(folder_id, uid) DO UPDATE for every envelope of a
\* batch, in one transaction: a conflicting row is overwritten except for its
\* raw_path, which the UPDATE does not mention.
UpsertEnvelopes(rows, batch) ==
    [u \in DOMAIN rows \cup DOMAIN batch |->
        IF u \in DOMAIN batch
          THEN [gen  |-> batch[u].gen,
                flag |-> batch[u].flag,
                raw  |-> u \in DOMAIN rows /\ rows[u].raw]
          ELSE rows[u]]

\* UPDATE messages SET flags: only the rows that exist; no row is inserted.
UpdateFlags(rows, flags) ==
    [u \in DOMAIN rows |->
        IF u \in DOMAIN flags THEN [rows[u] EXCEPT !.flag = flags[u].flag]
                              ELSE rows[u]]

SetRawPath(rows, uid) ==
    [u \in DOMAIN rows |->
        IF u = uid THEN [rows[u] EXCEPT !.raw = TRUE] ELSE rows[u]]

\* Plausible bug: any <uid>.eml of the directory is taken for the row's.
HasRawPathAnyFile(rows, uid) == uid \in DOMAIN rows
\* The row's raw_path, if there is a row and it has one.
HasRawPath(rows, uid) == uid \in DOMAIN rows /\ rows[uid].raw

DeleteRow(rows, uid) == [u \in DOMAIN rows \ {uid} |-> rows[u]]
=============================================================================
