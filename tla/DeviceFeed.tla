----------------------------- MODULE DeviceFeed -----------------------------
(***************************************************************************)
(* What the Monitor promises to whoever reads its messages: a device is    *)
(* described in full before it is merely mentioned, and a description is   *)
(* not repeated until the device has been forgotten.                       *)
(***************************************************************************)
CONSTANT Devices

VARIABLES
    known,      \* devices described and not forgotten
    out         \* the message of this step, if any

feedVars == <<known, out>>

NoMessage == [kind |-> "none"]
Full(d) == [kind |-> "full", device |-> d]
Slim(d) == [kind |-> "slim", device |-> d]

Init == known = {} /\ out = NoMessage

Describe(d) ==
    /\ d \notin known
    /\ known' = known \cup {d}
    /\ out' = Full(d)

Mention(d) ==
    /\ d \in known
    /\ out' = Slim(d)
    /\ UNCHANGED known

\* Nothing is said, and any devices may be forgotten.
Forget ==
    /\ known' \in SUBSET known
    /\ out' = NoMessage

Next ==
    \/ \E d \in Devices : Describe(d) \/ Mention(d)
    \/ Forget

Spec == Init /\ [][Next]_feedVars
=============================================================================
