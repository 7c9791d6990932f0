-------------------------- MODULE RingBufferProofs --------------------------
(***************************************************************************)
(* Proofs about RingBuffer, for every size of the ring and every value.     *)
(***************************************************************************)
EXTENDS RingBuffer, SequenceTheorems, TLAPS

\* The places of the ring, counted from any of them, without the remainder.
LEMMA Wrap == \A a \in 0 .. 2 * Size - 1 : a % Size = IF a < Size THEN a ELSE a - Size
<1> TAKE a \in 0 .. 2 * Size - 1
<1>1. CASE a < Size
  BY <1>1, SizeAssumption
<1>2. CASE ~(a < Size)
  BY <1>2, SizeAssumption
<1> QED  BY <1>1, <1>2

LEMMA SuccWraps == \A i \in Slots : Succ(i) = (IF i = Size - 1 THEN 0 ELSE i + 1) /\ Succ(i) \in Slots
  BY Wrap, SizeAssumption DEF Succ, Slots

LEMMA InitTyped == Init => TypeOK
  BY SizeAssumption DEF Init, TypeOK, Slots

LEMMA AddTyped == ASSUME TypeOK, NEW v \in Value, add(v) PROVE TypeOK'
  BY SuccWraps DEF TypeOK, add

\* Type correctness: head and tail never leave the vector.
THEOREM TypeCorrect == Spec => []TypeOK
<1>1. TypeOK /\ [Next]_vars => TypeOK'
  <2> SUFFICES ASSUME TypeOK, [Next]_vars PROVE TypeOK'
    OBVIOUS
  <2>1. CASE Next
    BY <2>1, AddTyped DEF Next
  <2>2. CASE UNCHANGED vars
    BY <2>2 DEF vars, TypeOK
  <2> QED  BY <2>1, <2>2
<1> QED  BY <1>1, InitTyped, PTL DEF Spec
-----------------------------------------------------------------------------
(* What the getters show. *)

Word == Value \cup {Zero}

LEMMA WordsAreRecords == \A v \in Word : v = [count |-> v.count, addr |-> v.addr]
  BY ValueAssumption DEF Word, Zero

HeldWrapped ==
    /\ Held = IF ringbuffer_tail >= ringbuffer_head THEN ringbuffer_tail - ringbuffer_head
              ELSE ringbuffer_tail - ringbuffer_head + Size
    /\ Held \in 0 .. Size - 1

LEMMA HeldWraps == TypeOK => HeldWrapped
<1> SUFFICES ASSUME TypeOK PROVE HeldWrapped
  OBVIOUS
<1> DEFINE a == ringbuffer_tail - ringbuffer_head + Size
<1>1. a \in 0 .. 2 * Size - 1
  BY SizeAssumption DEF TypeOK, Slots
<1>2. Held = a % Size
  BY DEF Held
<1> HIDE DEF a
<1>3. a % Size = IF a < Size THEN a ELSE a - Size
  BY <1>1, Wrap
<1> USE DEF a
<1> QED  BY <1>2, <1>3, SizeAssumption DEF TypeOK, Slots, HeldWrapped

SlotWrapped ==
    \A k \in 0 .. Size - 1 :
        /\ Slot(k) = IF ringbuffer_head + k < Size THEN ringbuffer_head + k
                     ELSE ringbuffer_head + k - Size
        /\ Slot(k) \in Slots

LEMMA SlotWraps == TypeOK => SlotWrapped
<1> SUFFICES ASSUME TypeOK, NEW k \in 0 .. Size - 1
             PROVE  /\ Slot(k) = IF ringbuffer_head + k < Size THEN ringbuffer_head + k
                                 ELSE ringbuffer_head + k - Size
                    /\ Slot(k) \in Slots
  BY DEF SlotWrapped
<1> DEFINE a == ringbuffer_head + k
<1>1. a \in 0 .. 2 * Size - 1
  BY SizeAssumption DEF TypeOK, Slots
<1>2. Slot(k) = a % Size
  BY DEF Slot
<1> HIDE DEF a
<1>3. a % Size = IF a < Size THEN a ELSE a - Size
  BY <1>1, Wrap
<1> USE DEF a
<1> QED  BY <1>1, <1>2, <1>3, SizeAssumption DEF TypeOK, Slots

\* Every word held is shown as it stands in its slot.
ShowsSlots ==
    /\ Shown \in Seq(Word) /\ Len(Shown) = Held
    /\ \A i \in 1 .. Held : Shown[i] = buffer[Slot(i - 1)]

LEMMA ShownIs == TypeOK => ShowsSlots
<1> SUFFICES ASSUME TypeOK PROVE ShowsSlots
  OBVIOUS
<1>1. Held \in 0 .. Size - 1 /\ Held \in Nat
  BY HeldWraps, SizeAssumption DEF HeldWrapped
<1>2. ASSUME NEW i \in 1 .. Held
      PROVE  /\ [count |-> get_count(i - 1), addr |-> get_addr(i - 1)] = buffer[Slot(i - 1)]
             /\ buffer[Slot(i - 1)] \in Word
  <2>1. ~Empty
    BY <1>1, <1>2, HeldWraps DEF Empty, TypeOK, Slots, HeldWrapped
  <2>2. Slot(i - 1) \in Slots
    BY <1>1, SlotWraps, SizeAssumption DEF SlotWrapped
  <2>3. buffer[Slot(i - 1)] \in Word
    BY <2>2 DEF TypeOK, Word
  <2> QED  BY <2>1, <2>3, WordsAreRecords DEF get_count, get_addr
<1>3. Shown \in [1 .. Held -> Word]
  BY <1>2 DEF Shown
<1>4. Shown \in Seq(Word) /\ Len(Shown) = Held
  BY <1>1, <1>3
<1>5. \A i \in 1 .. Held : Shown[i] = buffer[Slot(i - 1)]
  BY <1>2 DEF Shown
<1> QED  BY <1>4, <1>5 DEF ShowsSlots

\* The same of the next state.
LEMMA WrapsNext == TypeOK' => HeldWrapped' /\ SlotWrapped'
  BY HeldWraps, SlotWraps, PTL

LEMMA ShownIsNext == TypeOK' => ShowsSlots'
  BY ShownIs, PTL

\* While one more value fits, the head stays and the value becomes the last one shown.
LEMMA AddsBehind ==
  ASSUME TypeOK, NEW v \in Value, add(v), Held < Size - 1
  PROVE  Shown' = Append(Shown, v)
<1>0. TypeOK' /\ v \in Word
  BY AddTyped DEF Word
<1>1. /\ ringbuffer_head' = ringbuffer_head /\ Held' = Held + 1 /\ Held \in Nat
      /\ Slot(Held) = ringbuffer_tail
  <2>1. /\ ringbuffer_tail' = IF ringbuffer_tail = Size - 1 THEN 0 ELSE ringbuffer_tail + 1
    BY SuccWraps DEF add, TypeOK
  <2>2. ringbuffer_tail' # ringbuffer_head
    BY <2>1, HeldWraps, SizeAssumption DEF TypeOK, Slots, HeldWrapped
  <2>3. ringbuffer_head' = ringbuffer_head
    BY <2>2 DEF add
  <2>4. Held' = IF ringbuffer_tail' >= ringbuffer_head'
                THEN ringbuffer_tail' - ringbuffer_head'
                ELSE ringbuffer_tail' - ringbuffer_head' + Size
    BY <1>0, WrapsNext DEF HeldWrapped
  <2>5. Held' = Held + 1 /\ Held \in Nat
    BY <2>1, <2>2, <2>3, <2>4, HeldWraps, SizeAssumption DEF TypeOK, Slots, HeldWrapped
  <2>6. Slot(Held) = ringbuffer_tail
    <3>1. Slot(Held) = IF ringbuffer_head + Held < Size THEN ringbuffer_head + Held
                       ELSE ringbuffer_head + Held - Size
      BY HeldWraps, SlotWraps DEF HeldWrapped, SlotWrapped
    <3> QED  BY <3>1, HeldWraps, SizeAssumption DEF TypeOK, Slots, HeldWrapped
  <2> QED  BY <2>3, <2>5, <2>6
<1>2. /\ Append(Shown, v) \in Seq(Word) /\ Len(Append(Shown, v)) = Held + 1
      /\ \A i \in 1 .. Held : Append(Shown, v)[i] = buffer[Slot(i - 1)]
      /\ Append(Shown, v)[Held + 1] = v
  BY <1>0, ShownIs, AppendProperties DEF ShowsSlots
<1>3. /\ Shown' \in Seq(Word) /\ Len(Shown') = Held + 1
      /\ \A i \in 1 .. Held + 1 : Shown'[i] = buffer'[Slot(i - 1)']
  BY <1>0, <1>1, ShownIsNext DEF ShowsSlots
<1>4. ASSUME NEW i \in 1 .. Held + 1 PROVE Shown'[i] = Append(Shown, v)[i]
  <2>1. Slot(i - 1)' = Slot(i - 1)
    BY <1>1 DEF Slot
  <2>2. buffer' = [buffer EXCEPT ![ringbuffer_tail] = v] /\ ringbuffer_tail \in Slots
        /\ buffer \in [Slots -> Word]
    BY DEF add, TypeOK, Word
  <2>3. CASE i = Held + 1
    BY <1>1, <1>2, <1>3, <2>1, <2>2, <2>3
  <2>4. CASE i \in 1 .. Held
    <3>1. Held \in 0 .. Size - 1 /\ i - 1 \in 0 .. Size - 1
      BY <1>1, <2>4, HeldWraps, SizeAssumption DEF HeldWrapped
    <3>2. /\ Slot(i - 1) = IF ringbuffer_head + (i - 1) < Size THEN ringbuffer_head + (i - 1)
                           ELSE ringbuffer_head + (i - 1) - Size
          /\ Slot(i - 1) \in Slots
      BY <3>1, SlotWraps DEF SlotWrapped
    <3>3. Slot(i - 1) # ringbuffer_tail
      BY <1>1, <2>4, <3>1, <3>2, HeldWraps, SizeAssumption DEF TypeOK, Slots, HeldWrapped
    <3> QED  BY <1>1, <1>2, <1>3, <2>1, <2>2, <2>4, <3>2, <3>3
  <2>5. i = Held + 1 \/ i \in 1 .. Held
    BY <1>1
  <2> QED  BY <2>3, <2>4, <2>5, Zenon
<1> QED  BY <1>2, <1>3, <1>4, SeqEqual

\* In a full ring the oldest value gives way.
LEMMA AddsOver ==
  ASSUME TypeOK, NEW v \in Value, add(v), Held = Size - 1
  PROVE  Shown' = Tail(Append(Shown, v))
<1>0. TypeOK' /\ v \in Word
  BY AddTyped DEF Word
<1>1. /\ ringbuffer_head' = IF ringbuffer_head = Size - 1 THEN 0 ELSE ringbuffer_head + 1
      /\ Held' = Size - 1 /\ Slot(Size - 1) = ringbuffer_tail
  <2>1. ringbuffer_tail' = IF ringbuffer_tail = Size - 1 THEN 0 ELSE ringbuffer_tail + 1
    BY SuccWraps DEF add, TypeOK
  <2>2. ringbuffer_tail' = ringbuffer_head
    BY <2>1, HeldWraps, SizeAssumption DEF TypeOK, Slots, HeldWrapped
  <2>3. ringbuffer_head' = IF ringbuffer_head = Size - 1 THEN 0 ELSE ringbuffer_head + 1
    BY <2>2, SuccWraps DEF add, TypeOK
  <2>4. Held' = IF ringbuffer_tail' >= ringbuffer_head'
                THEN ringbuffer_tail' - ringbuffer_head'
                ELSE ringbuffer_tail' - ringbuffer_head' + Size
    BY <1>0, WrapsNext DEF HeldWrapped
  <2>5. Held' = Size - 1
    BY <2>2, <2>3, <2>4, SizeAssumption DEF TypeOK, Slots
  <2>6. Slot(Size - 1) = ringbuffer_tail
    BY HeldWraps, SlotWraps, SizeAssumption DEF TypeOK, Slots, HeldWrapped, SlotWrapped
  <2> QED  BY <2>3, <2>5, <2>6
<1>2. /\ Append(Shown, v) \in Seq(Word) /\ Len(Append(Shown, v)) = Size
      /\ \A i \in 1 .. Size - 1 : Append(Shown, v)[i] = buffer[Slot(i - 1)]
      /\ Append(Shown, v)[Size] = v
  BY <1>0, ShownIs, AppendProperties, SizeAssumption DEF ShowsSlots
<1>3. Append(Shown, v) # << >>
  BY <1>2, SizeAssumption, EmptySeq
<1>4. /\ Tail(Append(Shown, v)) \in Seq(Word) /\ Len(Tail(Append(Shown, v))) = Size - 1
      /\ \A i \in 1 .. Size - 1 : Tail(Append(Shown, v))[i] = Append(Shown, v)[i + 1]
  BY <1>2, <1>3, HeadTailProperties, SizeAssumption
<1>5. /\ Shown' \in Seq(Word) /\ Len(Shown') = Size - 1
      /\ \A i \in 1 .. Size - 1 : Shown'[i] = buffer'[Slot(i - 1)']
  BY <1>0, <1>1, ShownIsNext DEF ShowsSlots
<1>6. ASSUME NEW i \in 1 .. Size - 1 PROVE Shown'[i] = Tail(Append(Shown, v))[i]
  <2>1. Slot(i - 1)' = Slot(i)
    <3>1. /\ Slot(i - 1)' = IF ringbuffer_head' + (i - 1) < Size THEN ringbuffer_head' + (i - 1)
                            ELSE ringbuffer_head' + (i - 1) - Size
      BY <1>0, WrapsNext, SizeAssumption DEF SlotWrapped
    <3>2. Slot(i) = IF ringbuffer_head + i < Size THEN ringbuffer_head + i
                    ELSE ringbuffer_head + i - Size
      BY SlotWraps, SizeAssumption DEF SlotWrapped
    <3> QED  BY <1>1, <3>1, <3>2, SizeAssumption DEF TypeOK, Slots
  <2>2. buffer' = [buffer EXCEPT ![ringbuffer_tail] = v] /\ ringbuffer_tail \in Slots
        /\ buffer \in [Slots -> Word]
    BY DEF add, TypeOK, Word
  <2>3. CASE i = Size - 1
    BY <1>1, <1>2, <1>4, <1>5, <2>1, <2>2, <2>3, SizeAssumption
  <2>4. CASE i < Size - 1
    <3>0. /\ Slot(i) = IF ringbuffer_head + i < Size THEN ringbuffer_head + i
                       ELSE ringbuffer_head + i - Size
          /\ Slot(i) \in Slots
      BY SlotWraps, SizeAssumption DEF SlotWrapped
    <3>1. Slot(i) # ringbuffer_tail
      BY <2>4, <3>0, HeldWraps, SizeAssumption DEF TypeOK, Slots, HeldWrapped
    <3>2. Shown'[i] = buffer[Slot(i)]
      BY <1>5, <2>1, <2>2, <3>0, <3>1
    <3>3. Append(Shown, v)[i + 1] = buffer[Slot(i)]
      BY <1>2, <2>4, SizeAssumption
    <3> QED  BY <1>4, <3>2, <3>3
  <2>5. i = Size - 1 \/ i < Size - 1
    BY SizeAssumption
  <2> QED  BY <2>3, <2>4, <2>5, Zenon
<1> QED  BY <1>4, <1>5, <1>6, SeqEqual

\* The ring of any size shows, through get_count and get_addr, the last Size - 1 values
\* that were added, oldest first (lines 18 to 42 of ringbuffer.h).
THEOREM RingShowsRecent == Spec => ShowsRecentValues
<1>1. Init => Window!Init
  <2> SUFFICES ASSUME Init PROVE Shown = << >>
    BY DEF Window!Init
  <2>1. TypeOK
    BY InitTyped
  <2>2. Held = 0
    BY <2>1, HeldWraps DEF Init, HeldWrapped
  <2> QED  BY <2>1, <2>2, ShownIs, EmptySeq, SeqEqual DEF ShowsSlots
<1>2. TypeOK /\ [Next]_vars => [Window!Next]_Shown
  <2> SUFFICES ASSUME TypeOK, [Next]_vars PROVE [Window!Next]_Shown
    OBVIOUS
  <2>1. ASSUME NEW v \in Value, add(v) PROVE Window!Add(v)
    <3>1. Len(Append(Shown, v)) = Held + 1 /\ Held \in 0 .. Size - 1
      BY ShownIs, HeldWraps, AppendProperties DEF Word, ShowsSlots, HeldWrapped
    <3>2. CASE Held < Size - 1
      BY <2>1, <3>1, <3>2, AddsBehind, SizeAssumption DEF Window!Add
    <3>3. CASE Held = Size - 1
      BY <2>1, <3>1, <3>3, AddsOver, SizeAssumption DEF Window!Add
    <3> QED  BY <3>1, <3>2, <3>3, SizeAssumption
  <2>2. CASE Next
    BY <2>1, <2>2 DEF Next, Window!Next
  <2>3. CASE UNCHANGED vars
    BY <2>3 DEF vars, Shown, Held, get_count, get_addr, Slot, Empty
  <2> QED  BY <2>2, <2>3
<1> QED  BY <1>1, <1>2, TypeCorrect, PTL DEF Spec, ShowsRecentValues, Window!Spec
=============================================================================
