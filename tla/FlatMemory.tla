----------------------------- MODULE FlatMemory -----------------------------
(***************************************************************************)
(* What an initiator may expect of a memory behind a router: one word for   *)
(* each address of the bus, whatever way an access takes.                   *)
(***************************************************************************)
CONSTANTS Address, Word

VARIABLES
    flat,    \* the word at each address
    shown    \* the last access and the word it read or wrote

Init == flat \in [Address -> Word] /\ shown = << >>

Write(a, w) ==
    /\ flat' = [flat EXCEPT ![a] = w]
    /\ shown' = [cmd |-> "W", at |-> a, data |-> w]

Read(a) == UNCHANGED flat /\ shown' = [cmd |-> "R", at |-> a, data |-> flat[a]]

Next == \E a \in Address : Read(a) \/ \E w \in Word : Write(a, w)

Spec == Init /\ [][Next]_<<flat, shown>>
=============================================================================
