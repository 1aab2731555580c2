----------------------------- MODULE MCAccounts -----------------------------
(* A small instance of Accounts.  Processes are alike, and so are accounts.  *)
EXTENDS Accounts, TLC

Alike == Permutations(Proc) \cup Permutations(Email)

=============================================================================
