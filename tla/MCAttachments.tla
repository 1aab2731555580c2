--------------------------- MODULE MCAttachments ---------------------------
(* Attachments for TLC: a directory in the home directory, files of two    *)
(* sizes of which any two together are more than the cap, if one is large. *)
EXTENDS Attachments, TLC

MCParent == [home |-> "/", sub |-> "home"] @@ ("/" :> NoDir)
MCSize == [small |-> 1, large |-> 2]
MCDisk == [p \in Path |-> CASE p = <<"home", "f">> -> "small"
                            [] p = <<"sub", "g">>  -> "large"
                            [] OTHER               -> NoFile]
MCReceived == {<<"small", "large">>, <<"large", Unloaded>>}

=============================================================================
