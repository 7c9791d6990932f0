---------------------------- MODULE RecentWindow ----------------------------
(***************************************************************************)
(* What RingBuffer promises its reader: the last values that were added,    *)
(* oldest first, as many of them as fit.                                    *)
(***************************************************************************)
EXTENDS Integers, Sequences

CONSTANTS Value, Capacity

VARIABLE window

Init == window = << >>

Add(v) ==
    LET all == Append(window, v)
    IN  window' = IF Len(all) > Capacity THEN Tail(all) ELSE all

Next == \E v \in Value : Add(v)

Spec == Init /\ [][Next]_window
=============================================================================
