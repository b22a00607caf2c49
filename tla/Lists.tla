------------------------------- MODULE Lists --------------------------------
(***************************************************************************)
(* Array.prototype.filter, on which the WiFi controller and the parsers    *)
(* rest, as a recursive function, so that it can be reasoned about.        *)
(***************************************************************************)
EXTENDS Naturals, Sequences, SequencesExt

\* What is kept of the first n entries of the list, for every n.
Kept(list, S) ==
    LET kept[n \in 0 .. Len(list)] ==
            IF n = 0 THEN <<>>
            ELSE IF list[n] \in S THEN Append(kept[n - 1], list[n])
            ELSE kept[n - 1]
    IN  kept

\* The entries of the list that are in S, in their order.
Filter(list, S) == Kept(list, S)[Len(list)]
=============================================================================
