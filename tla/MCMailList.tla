---------------------------- MODULE MCMailList ----------------------------
(* MailList for TLC: two texts that match something, of which one is the   *)
(* other with a blank after it, and accounts as a symmetry set.            *)
EXTENDS MailList, TLC

MCText == {"", "a", "a "}
MCBlankText == {""}
MCTrim == [t \in MCText |-> IF t = "a " THEN "a" ELSE t]
MCHits == [t \in MCText |-> CASE t = "" -> Uid [] t = "a" -> {1} [] t = "a " -> {}]

Perms == Permutations(Account)

=============================================================================
