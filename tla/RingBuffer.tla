----------------------------- MODULE RingBuffer -----------------------------
(***************************************************************************)
(* The ring of cp_model/ringbuffer.h: a vector of ringbuffer_size slots with *)
(* a head and a tail.  A value is a 64-bit word whose low half is a count   *)
(* and whose high half is an address.                                       *)
(***************************************************************************)
EXTENDS Integers, Sequences

CONSTANTS
    Size,     \* ringbuffer_size
    Value     \* the words added, as records of their halves

ASSUME SizeAssumption == Size \in Nat \ {0}
ASSUME ValueAssumption == \A v \in Value : v = [count |-> v.count, addr |-> v.addr]

VARIABLES buffer, ringbuffer_head, ringbuffer_tail

vars == <<buffer, ringbuffer_head, ringbuffer_tail>>

Slots == 0 .. Size - 1
Zero == [count |-> 0, addr |-> 0]     \* buffer.resize(size)

Init ==
    /\ buffer = [i \in Slots |-> Zero]
    /\ ringbuffer_head = 0
    /\ ringbuffer_tail = 0

\* Mutant: the place after the last slot is outside the vector.
SuccUnwrapped(i) == i + 1

Succ(i) == (i + 1) % Size

\* Mutant: a full ring does not give up its oldest value.
AddKeepHead(v) ==
    /\ buffer' = [buffer EXCEPT ![ringbuffer_tail] = v]
    /\ ringbuffer_tail' = Succ(ringbuffer_tail)
    /\ UNCHANGED ringbuffer_head

\* add: the slot at the tail is overwritten; when the tail meets the head, the
\* head moves too, so that one slot is always unused.
add(v) ==
    /\ buffer' = [buffer EXCEPT ![ringbuffer_tail] = v]
    /\ ringbuffer_tail' = Succ(ringbuffer_tail)
    /\ ringbuffer_head' = IF ringbuffer_tail' = ringbuffer_head
                          THEN Succ(ringbuffer_head) ELSE ringbuffer_head

Next == \E v \in Value : add(v)

Spec == Init /\ [][Next]_vars

Empty == ringbuffer_head = ringbuffer_tail

Slot(index) == (ringbuffer_head + index) % Size

\* The getters: an empty ring answers 0, and an index is never compared with the
\* number of values the ring holds.
get_count(index) == IF Empty THEN 0 ELSE buffer[Slot(index)].count
get_addr(index) == IF Empty THEN 0 ELSE buffer[Slot(index)].addr
-----------------------------------------------------------------------------
\* Type invariant.
TypeOK ==
    /\ buffer \in [Slots -> Value \cup {Zero}]
    /\ ringbuffer_head \in Slots
    /\ ringbuffer_tail \in Slots

Held == (ringbuffer_tail - ringbuffer_head + Size) % Size

\* What the getters show of the values the ring holds.
Shown == [i \in 1 .. Held |-> [count |-> get_count(i - 1), addr |-> get_addr(i - 1)]]

Window == INSTANCE RecentWindow WITH window <- Shown, Capacity <- Size - 1

\* Through get_count and get_addr the ring shows the last Size - 1 values that were
\* added, oldest first, however often the tail has passed the end of the vector.
ShowsRecentValues == Window!Spec
=============================================================================
