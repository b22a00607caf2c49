---------------------------- MODULE NetworkView -----------------------------
(***************************************************************************)
(* What the WiFi controller promises about the networks it offers to the   *)
(* platform: each access point in range once, under its latest profile.    *)
(***************************************************************************)
CONSTANTS
    Addresses,      \* access points, by hardware address
    Profiles        \* what a network may look like: its name, its encryption

VARIABLE view       \* the networks on offer

Network(a, p) == [address |-> a, profile |-> p]
Networks == {Network(a, p) : a \in Addresses, p \in Profiles}

Seen(a) == \E n \in view : n.address = a
Without(a) == {n \in view : n.address # a}

Init == view = {}

Appear(a, p) == ~Seen(a) /\ view' = view \cup {Network(a, p)}
Change(a, p) == Seen(a) /\ view' = Without(a) \cup {Network(a, p)}
Vanish(a) == Seen(a) /\ view' = Without(a)

Next ==
    \E a \in Addresses :
        \/ Vanish(a)
        \/ \E p \in Profiles : Appear(a, p) \/ Change(a, p)

Spec == Init /\ [][Next]_view
=============================================================================
