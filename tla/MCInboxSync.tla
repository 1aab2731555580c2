---------------------------- MODULE MCInboxSync ----------------------------
(* TLC's instances of InboxSync: the calls' slots are interchangeable. *)
EXTENDS InboxSync, TLC

Symmetry == Permutations(Task)
=============================================================================
