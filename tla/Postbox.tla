------------------------------ MODULE Postbox ------------------------------
(***************************************************************************)
(* What the program promises to do with a message the user sends (the      *)
(* module comment of send.rs): it is handed to the SMTP server, or kept    *)
(* until it can be, and what the user is told agrees with that.            *)
(***************************************************************************)
CONSTANTS
    Message,
    Unsendable  \* messages the SMTP server never accepts

VARIABLES
    place,  \* where a message is
    told    \* what the user has been told of it

\* "given": a kept message whose file cannot be read back is given up on.
Place == {"draft", "kept", "given", "delivered"}

Init ==
    /\ place = [m \in Message |-> "draft"]
    /\ told = [m \in Message |-> "nothing"]

\* The SMTP server has the message, from the user or out of the outbox.
Deliver(m) ==
    /\ place[m] # "delivered"
    /\ m \notin Unsendable
    /\ place' = [place EXCEPT ![m] = "delivered"]
    /\ UNCHANGED told

Keep(m) ==
    /\ place[m] \in {"draft", "given"}
    /\ place' = [place EXCEPT ![m] = "kept"]
    /\ UNCHANGED told

GiveUp(m) ==
    /\ place[m] = "kept"
    /\ place' = [place EXCEPT ![m] = "given"]
    /\ UNCHANGED told

TellSent(m) ==
    /\ told[m] = "nothing" /\ place[m] = "delivered"
    /\ told' = [told EXCEPT ![m] = "sent"]
    /\ UNCHANGED place

TellQueued(m) ==
    /\ told[m] = "nothing" /\ place[m] # "draft"
    /\ told' = [told EXCEPT ![m] = "queued"]
    /\ UNCHANGED place

Next == \E m \in Message : \/ Deliver(m) \/ Keep(m) \/ GiveUp(m)
                           \/ TellSent(m) \/ TellQueued(m)

Spec == Init /\ [][Next]_<<place, told>>

\* A kept message that the server would accept does not stay in the outbox.
Leaves == \A m \in Message \ Unsendable : place[m] = "kept" ~> place[m] # "kept"
=============================================================================
