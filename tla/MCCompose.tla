----------------------------- MODULE MCCompose -----------------------------
(* Compose for TLC: two accounts, one of which has had mail from an        *)
(* automatic sender, one whose name has a comma, and one that came with    *)
(* and without a name; "b" is in the names of both accounts' senders.      *)
EXTENDS Compose

MCEmail == {"ann@", "bob@", "noreply@"}
MCAlphabetical == <<"ann@", "bob@", "noreply@">>
MCSpelling == [m \in MCEmail |->
    CASE m = "ann@" -> <<"b">> [] m = "bob@" -> <<"b">> [] m = "noreply@" -> <<"b", "a">>]

Ann == [name |-> <<"a">>, email |-> "ann@"]
Bob == [name |-> <<",">>, email |-> "bob@"]
Nameless(m) == [name |-> <<>>, email |-> m]
MCCached == [home |-> <<Ann, Nameless("ann@"), Bob>>,
             work |-> <<Nameless("noreply@"), Nameless("bob@")>>]

=============================================================================
