-------------------------- MODULE ExercisesProofs ---------------------------
(***************************************************************************)
(* The five sorts sort every vector, and what the other six exercises      *)
(* answer is right, for inputs of every size.  First the sorts, then the   *)
(* others one after the other.                                             *)
(***************************************************************************)
EXTENDS Exercises, FiniteSetTheorems, FunctionTheorems, SequenceTheorems, TLAPS

Ascending(d, S) == \A k, l \in S : k < l => d[k] <= d[l]

\* bubbleSort: the greatest of the elements up to j is at j.
BubbleInv ==
    pc = "bubble" =>
        /\ i <= size
        /\ j = 0 \/ j <= size - i - 1
        /\ \A k, l \in Places : k < l /\ l >= size - i => datas[k] <= datas[l]
        /\ \A k \in 0 .. j - 1 : datas[k] <= datas[j]

\* selectSort: the smallest elements are in their places.
SelectInv ==
    pc = "select" => i <= size /\ \A k, l \in Places : k < l /\ k < i => datas[k] <= datas[l]

\* insertSort: the elements before i are in order.
InsertInv ==
    pc = "insert" => i >= 1 /\ \A k, l \in Places : k < l /\ l < i => datas[k] <= datas[l]

\* Two places that a call has still to bring into order: those of a call that has not
\* begun, and those of two sorted halves.
Holds(c, k) == c.begin <= k /\ k <= c.end
Crosses(c, k, l) == c.sorted /\ Holds(c, k) /\ Holds(c, l) /\ k <= Mid(c) /\ Mid(c) < l
Open(c, k, l) == (~c.sorted /\ Holds(c, k) /\ Holds(c, l)) \/ Crosses(c, k, l)
Orders(d, cs) ==
    \A k, l \in Places : k < l => d[k] <= d[l] \/ \E p \in DOMAIN cs : Open(cs[p], k, l)

\* The calls of quickSort stand from left to right.
LeftOf(c, d) == c.end < d.begin
LeftToRight(cs) == \A p, q \in DOMAIN cs : p < q => LeftOf(cs[p], cs[q])
NoneSorted(cs) == \A p \in DOMAIN cs : ~cs[p].sorted

\* The vector with the key where it was taken from.
Filled == [datas EXCEPT ![low] = key]

QuickInv ==
    pc \in {"quick", "partition"} =>
        /\ LeftToRight(calls) /\ NoneSorted(calls)
        /\ pc = "quick" => Orders(datas, calls)
        /\ pc = "partition" =>
               /\ calls # << >>
               /\ Head(calls).begin <= low /\ low <= high /\ high <= Head(calls).end
               /\ Orders(Filled, calls)
               /\ Permutes(Filled)
               /\ \A k \in Head(calls).begin .. low - 1 : datas[k] <= key
               /\ \A k \in high + 1 .. Head(calls).end : datas[k] >= key

\* A call of mergeSort is on the left of a later one, or inside one half of it.
Inside(c, d) ==
    /\ d.sorted /\ d.begin <= c.begin /\ c.end <= d.end
    /\ c.end <= Mid(d) \/ Mid(d) < c.begin
Nested(cs) == \A p, q \in DOMAIN cs : p < q => LeftOf(cs[p], cs[q]) \/ Inside(cs[p], cs[q])

\* What is in a call and what is not is brought into order by one around it.
Merges(cs) ==
    \A p \in DOMAIN cs : \A k, l \in Places :
        k < l /\ ~(Holds(cs[p], k) <=> Holds(cs[p], l)) => \E q \in DOMAIN cs : Crosses(cs[q], k, l)
Wide(cs) == \A p \in DOMAIN cs : cs[p].sorted => cs[p].begin < cs[p].end

\* The part of dataTemp that is merged, what is left of the first half, and the others.
Merged ==
    [k \in Places |->
        IF k \in Head(calls).begin .. index - 1 THEN dataTemp[k]
        ELSE IF k \in index .. begin2 - 1 THEN datas[begin1 + k - index]
        ELSE datas[k]]

MergeInv ==
    pc \in {"merge", "merging"} =>
        /\ Nested(calls) /\ Merges(calls) /\ Wide(calls)
        /\ Orders(datas, calls)

MergingInv ==
    pc = "merging" =>
        /\ calls # << >> /\ Head(calls).sorted
        /\ begin1 \in Head(calls).begin .. Mid(Head(calls)) + 1
        /\ begin2 \in Mid(Head(calls)) + 1 .. Head(calls).end + 1
        /\ index = begin1 + begin2 - Mid(Head(calls)) - 1
        /\ \A k, l \in Head(calls).begin .. index - 1 : k < l => dataTemp[k] <= dataTemp[l]
        /\ \A k \in Head(calls).begin .. index - 1 :
              \A l \in begin1 .. Mid(Head(calls)) \cup begin2 .. Head(calls).end :
                 dataTemp[k] <= datas[l]
        /\ Permutes(Merged)

DoneInv ==
    /\ pc # "partition" => Permutes(datas)
    /\ pc = "returned" => Ascending(datas, Places)

Types ==
    /\ input \in Vectors
    /\ datas \in [Places -> Int] /\ dataTemp \in [Places -> Int]
    /\ pc \in Loops \cup {"returned"}
    /\ i \in 0 .. size + 1 /\ j \in 0 .. size /\ key \in Int
    /\ low \in 0 .. size /\ high \in 0 .. size
    /\ begin1 \in 0 .. size /\ begin2 \in 0 .. size /\ index \in 0 .. size
    /\ calls \in Seq([begin : 0 .. size, end : -1 .. size - 1, sorted : BOOLEAN])

IInv == Types /\ BubbleInv /\ SelectInv /\ InsertInv /\ QuickInv /\ MergeInv /\ MergingInv /\ DoneInv
-----------------------------------------------------------------------------
(***************************************************************************)
(* The vector and its permutations.                                         *)
(***************************************************************************)
LEMMA PlacesAre ==
    ASSUME Types
    PROVE  /\ size \in Nat /\ Places = 0 .. size - 1 /\ DOMAIN datas = Places
           /\ \A k \in Places : datas[k] \in Int /\ dataTemp[k] \in Int
<1>1. DOMAIN datas = Places
  BY DEF Types, Places
<1>2. IsFiniteSet(Places) /\ Places = 0 .. Cardinality(Places) - 1
  BY ExercisesAssumption DEF Types, Places, ExercisesAssumption, IsVector, Indices, Size
<1>3. Cardinality(Places) \in Nat
  BY <1>2, FS_CardinalityType
<1>4. \A k \in Places : datas[k] \in Int /\ dataTemp[k] \in Int
  BY DEF Types
<1> QED
  BY <1>1, <1>2, <1>3, <1>4 DEF size

LEMMA PermutesItself ==
    ASSUME input \in Vectors
    PROVE  Permutes(input)
<1> DEFINE p == [k \in Places |-> k]
<1>1. p \in Bijection(Places, Places)
  BY Fun_IsBij
<1>2. input = [k \in Places |-> input[p[k]]]
  BY ExercisesAssumption DEF ExercisesAssumption, Places, IsVector, Indices, Size
<1> QED
  BY <1>1, <1>2 DEF Permutes

LEMMA PermutesMoved ==
    ASSUME NEW d, Permutes(d), NEW f \in Bijection(Places, Places)
    PROVE  Permutes([k \in Places |-> d[f[k]]])
<1>1. PICK p \in Bijection(Places, Places) : d = [k \in Places |-> input[p[k]]]
  BY DEF Permutes
<1> DEFINE q == [k \in Places |-> p[f[k]]]
<1>2. q \in Bijection(Places, Places)
  BY Fun_BijTransitive
<1>3. \A k \in Places : f[k] \in Places
  BY Fun_BijectionProperties
<1>4. [k \in Places |-> d[f[k]]] = [k \in Places |-> input[q[k]]]
  BY <1>1, <1>3
<1> QED
  BY <1>2, <1>4 DEF Permutes

LEMMA PermutesSwapped ==
    ASSUME NEW d \in [Places -> Int], Permutes(d), NEW a \in Places, NEW b \in Places
    PROVE  Permutes(swap(d, a, b))
<1> DEFINE f == [k \in Places |-> IF k = a THEN b ELSE IF k = b THEN a ELSE k]
<1>1. f \in [Places -> Places] /\ \A k, l \in Places : f[k] = f[l] => k = l
  OBVIOUS
<1>2. \A l \in Places : f[f[l]] = l
  OBVIOUS
<1>3. f \in Bijection(Places, Places)
  BY <1>1, <1>2, Fun_IsBij
<1>4. swap(d, a, b) = [k \in Places |-> d[f[k]]]
  BY DEF swap
<1> QED
  BY <1>3, <1>4, PermutesMoved

\* The element at a place goes to one before it, and those between move up.
Rotated(d, to, from) ==
    [k \in Places |-> IF k = to THEN d[from] ELSE IF k \in to + 1 .. from THEN d[k - 1] ELSE d[k]]

LEMMA PermutesRotated ==
    ASSUME NEW d \in [Places -> Int], Permutes(d), NEW n \in Nat, Places = 0 .. n - 1,
           NEW to \in Places, NEW from \in Places, to <= from
    PROVE  Permutes(Rotated(d, to, from))
<1> DEFINE f == [k \in Places |-> IF k = to THEN from ELSE IF k \in to + 1 .. from THEN k - 1 ELSE k]
<1> DEFINE g == [k \in Places |-> IF k = from THEN to ELSE IF k \in to .. from - 1 THEN k + 1 ELSE k]
<1>1. f \in [Places -> Places] /\ g \in [Places -> Places]
  OBVIOUS
<1>2. \A k \in Places : g[f[k]] = k /\ f[g[k]] = k
  OBVIOUS
<1>3. f \in Bijection(Places, Places)
  <2>1. \A k, l \in Places : f[k] = f[l] => k = l
    BY <1>2
  <2>2. \A l \in Places : \E k \in Places : f[k] = l
    BY <1>1, <1>2
  <2> HIDE DEF f, g
  <2> QED
    BY <1>1, <2>1, <2>2, Fun_IsBij
<1>4. Rotated(d, to, from) = [k \in Places |-> d[f[k]]]
  BY DEF Rotated
<1> HIDE DEF f
<1>5. Permutes([k \in Places |-> d[f[k]]])
  BY <1>3, PermutesMoved
<1> QED
  BY <1>4, <1>5
-----------------------------------------------------------------------------
(***************************************************************************)
(* The sorts without calls.                                                 *)
(***************************************************************************)
LEMMA SizeKept ==
    ASSUME Types, input' = input, datas' \in [Places -> Int]
    PROVE  Places' = Places /\ size' = size
BY DEF Types, Places, size

LEMMA Begins ==
    ASSUME Init, exercise = "sort"
    PROVE  IInv
<1>0. SortCalled
  BY DEF Init, ExerciseCalled
<1>1. PICK n \in Nat : Places = 0 .. n - 1 /\ input \in [Places -> Int] /\ size = n
  <2>1. IsFiniteSet(Places) /\ input \in [0 .. Cardinality(Places) - 1 -> Int]
    BY <1>0, ExercisesAssumption DEF Init, SortCalled, ExercisesAssumption, IsVector, Indices, Size, Places
  <2>2. Cardinality(Places) \in Nat /\ Places = 0 .. Cardinality(Places) - 1
    BY <2>1, FS_CardinalityType DEF Places
  <2> QED
    BY <1>0, <2>1, <2>2 DEF Init, SortCalled, size, Places
<1>2. calls \in Seq([begin : 0 .. size, end : -1 .. size - 1, sorted : BOOLEAN])
  <2>1. [begin |-> 0, end |-> size - 1, sorted |-> FALSE]
          \in [begin : 0 .. size, end : -1 .. size - 1, sorted : BOOLEAN]
    BY <1>1
  <2>2. CASE calls = << >>
    BY <2>2
  <2>3. CASE calls = <<Call(0, size - 1)>>
    BY <2>1, <2>3 DEF Call
  <2> QED
    BY <1>0, <2>2, <2>3 DEF Init, SortCalled
<1>3. Types
  BY <1>0, <1>1, <1>2 DEF Init, SortCalled, Types, Places, Loops
<1>4. Permutes(datas)
  BY <1>0, PermutesItself DEF Init, SortCalled
<1>5. BubbleInv /\ SelectInv /\ InsertInv
  BY <1>0, <1>1 DEF Init, SortCalled, BubbleInv, SelectInv, InsertInv
<1>6. pc \in {"quick", "merge"} =>
        /\ DOMAIN calls = {1} /\ calls[1] = Call(0, size - 1)
        /\ \A k \in Places : Holds(calls[1], k)
  BY <1>0, <1>1 DEF Init, SortCalled, Call, Holds
<1>7. pc \in {"quick", "merge"} => Orders(datas, calls)
  BY <1>6 DEF Orders, Open, Call
<1>8. QuickInv
  BY <1>0, <1>6, <1>7, <1>1 DEF Init, SortCalled, QuickInv, LeftToRight, NoneSorted, Call
<1>9. MergeInv /\ MergingInv
  <2>1. pc = "merge" => Nested(calls) /\ Wide(calls)
    BY <1>6 DEF Nested, Wide, Call
  <2>2. pc = "merge" => Merges(calls)
    BY <1>6 DEF Merges
  <2>3. pc # "merging"
    BY <1>0 DEF Init, SortCalled
  <2> QED
    BY <1>7, <2>1, <2>2, <2>3 DEF MergeInv, MergingInv
<1>10. DoneInv
  BY <1>0, <1>4 DEF Init, SortCalled, DoneInv
<1> QED
  BY <1>3, <1>5, <1>8, <1>9, <1>10 DEF IInv

LEMMA BubbleStep ==
    ASSUME IInv, BubbleCompare \/ BubbleTurn
    PROVE  IInv'
<1> USE DEF IInv
<1>1. /\ size \in Nat /\ Places = 0 .. size - 1 /\ DOMAIN datas = Places
      /\ \A k \in Places : datas[k] \in Int
  BY PlacesAre
<1>2. /\ pc = "bubble" /\ pc' = "bubble" /\ input' = input /\ i \in 0 .. size - 1 /\ j \in 0 .. size
      /\ UNCHANGED <<calls, partition, merging>>
  BY <1>1 DEF BubbleCompare, BubbleTurn, Types
<1>3. datas' \in [Places -> Int] /\ Permutes(datas')
  <2>1. CASE BubbleCompare
    <3>1. j \in Places /\ j + 1 \in Places
      BY <1>1, <1>2, <2>1 DEF BubbleCompare
    <3>2. Permutes(swap(datas, j + 1, j)) /\ swap(datas, j + 1, j) \in [Places -> Int]
      BY <1>1, <1>2, <3>1, PermutesSwapped DEF Types, DoneInv, swap
    <3> QED
      BY <1>2, <2>1, <3>2 DEF BubbleCompare, Types, DoneInv
  <2>2. CASE BubbleTurn
    BY <1>2, <2>2 DEF BubbleTurn, Types, DoneInv
  <2> QED
    BY <2>1, <2>2
<1>4. Places' = Places /\ size' = size
  BY <1>2, <1>3, SizeKept
<1>5. Types'
  <2>1. i' \in 0 .. size + 1 /\ j' \in 0 .. size
    BY <1>1, <1>2 DEF BubbleCompare, BubbleTurn
  <2> QED
    BY <1>2, <1>3, <1>4, <2>1 DEF Types, partition, merging
<1>6. DoneInv'
  BY <1>2, <1>3, <1>4 DEF DoneInv, Permutes
<1>7. SelectInv' /\ InsertInv' /\ QuickInv' /\ MergeInv' /\ MergingInv'
  BY <1>2 DEF SelectInv, InsertInv, QuickInv, MergeInv, MergingInv
<1>8. BubbleInv'
  <2>1. /\ j = 0 \/ j <= size - i - 1
        /\ \A k, l \in Places : k < l /\ l >= size - i => datas[k] <= datas[l]
        /\ \A k \in 0 .. j - 1 : datas[k] <= datas[j]
    BY <1>2 DEF BubbleInv
  <2>2. CASE BubbleCompare
    <3>1. j \in Places /\ j + 1 \in Places /\ j < size - i - 1 /\ j' = j + 1 /\ i' = i
      BY <1>1, <1>2, <2>2 DEF BubbleCompare
    <3>2. /\ \A k \in Places : k # j /\ k # j + 1 => datas'[k] = datas[k]
          /\ datas'[j] <= datas'[j + 1]
          /\ datas'[j + 1] >= datas[j]
          /\ \A k, l \in Places : k < l /\ l >= size - i /\ k \in {j, j + 1} => datas'[k] <= datas[l]
      <4>1. CASE datas[j] > datas[j + 1]
        BY <1>1, <2>1, <3>1, <2>2, <4>1 DEF BubbleCompare, swap
      <4>2. CASE datas[j] <= datas[j + 1]
        BY <1>1, <2>1, <3>1, <2>2, <4>2 DEF BubbleCompare, swap
      <4> QED
        BY <1>1, <3>1, <4>1, <4>2
    <3>3. \A k, l \in Places : k < l /\ l >= size - i => datas'[k] <= datas'[l]
      BY <1>1, <1>2, <2>1, <3>1, <3>2
    <3>4. ASSUME NEW k \in 0 .. j
          PROVE  datas'[k] <= datas'[j + 1]
      <4>1. k \in Places /\ datas'[k] \in Int /\ datas'[j + 1] \in Int
        BY <1>1, <1>2, <1>3, <3>1
      <4>2. CASE k = j
        BY <3>2, <4>2
      <4>3. CASE k < j
        <5>1. datas'[k] = datas[k] /\ datas[k] <= datas[j]
          BY <1>1, <1>2, <2>1, <3>1, <3>2, <4>1, <4>3
        <5> QED
          BY <1>1, <3>1, <3>2, <4>1, <5>1
      <4> QED
        BY <1>2, <4>2, <4>3
    <3> QED
      BY <1>1, <1>2, <1>4, <3>1, <3>3, <3>4 DEF BubbleInv
  <2>3. CASE BubbleTurn
    <3>1. i' = i + 1 /\ j' = 0 /\ datas' = datas /\ j >= size - i - 1
      BY <2>3 DEF BubbleTurn
    <3>2. j = size - i - 1
      BY <1>1, <1>2, <2>1, <3>1
    <3>3. \A k, l \in Places : k < l /\ l >= size - i - 1 => datas[k] <= datas[l]
      BY <1>1, <1>2, <2>1, <3>2
    <3> QED
      BY <1>1, <1>2, <1>4, <3>1, <3>3 DEF BubbleInv
  <2> QED
    BY <2>2, <2>3
<1> QED
  BY <1>5, <1>6, <1>7, <1>8

LEMMA SelectStep ==
    ASSUME IInv, SelectTurn
    PROVE  IInv'
<1> USE DEF IInv
<1>1. /\ size \in Nat /\ Places = 0 .. size - 1 /\ DOMAIN datas = Places
      /\ \A k \in Places : datas[k] \in Int
  BY PlacesAre
<1>2. /\ pc = "select" /\ pc' = "select" /\ input' = input /\ i \in 0 .. size - 1 /\ i' = i + 1
      /\ UNCHANGED <<j, calls, partition, merging>>
  BY <1>1 DEF SelectTurn, Types
<1>3. PICK cs \in i .. size - 1 :
        /\ \A k \in i .. size - 1 : datas[cs] <= datas[k]
        /\ datas' = swap(datas, cs, i)
  BY DEF SelectTurn
<1>4. cs \in Places /\ i \in Places
  BY <1>1, <1>2
<1>5. datas' \in [Places -> Int] /\ Permutes(datas')
  BY <1>2, <1>3, <1>4, PermutesSwapped DEF Types, DoneInv, swap
<1>6. Places' = Places /\ size' = size
  BY <1>2, <1>5, SizeKept
<1>7. Types'
  BY <1>1, <1>2, <1>5, <1>6 DEF Types, partition, merging
<1>8. DoneInv'
  BY <1>2, <1>5, <1>6 DEF DoneInv, Permutes
<1>9. BubbleInv' /\ InsertInv' /\ QuickInv' /\ MergeInv' /\ MergingInv'
  BY <1>2 DEF BubbleInv, InsertInv, QuickInv, MergeInv, MergingInv
<1>10. SelectInv'
  <2>1. \A k, l \in Places : k < l /\ k < i => datas[k] <= datas[l]
    BY <1>2 DEF SelectInv
  <2>2. /\ \A k \in Places : k # cs /\ k # i => datas'[k] = datas[k]
        /\ datas'[i] = datas[cs] /\ datas'[cs] = datas[i]
    BY <1>1, <1>3, <1>4 DEF swap
  <2>3. \A k, l \in Places : k < l /\ k < i => datas'[k] <= datas'[l]
    BY <1>1, <1>2, <1>4, <2>1, <2>2
  <2>4. \A l \in Places : i < l => datas'[i] <= datas'[l]
    BY <1>1, <1>2, <1>3, <1>4, <2>2
  <2>5. \A k, l \in Places : k < l /\ k < i + 1 => datas'[k] <= datas'[l]
    BY <1>1, <1>2, <2>3, <2>4
  <2> QED
    BY <1>1, <1>2, <1>6, <2>5 DEF SelectInv
<1> QED
  BY <1>7, <1>8, <1>9, <1>10

LEMMA InsertStep ==
    ASSUME IInv, InsertTurn
    PROVE  IInv'
<1> USE DEF IInv
<1>1. /\ size \in Nat /\ Places = 0 .. size - 1 /\ DOMAIN datas = Places
      /\ \A k \in Places : datas[k] \in Int
  BY PlacesAre
<1>2. /\ pc = "insert" /\ pc' = "insert" /\ input' = input /\ i \in 1 .. size - 1 /\ i' = i + 1
      /\ UNCHANGED <<j, calls, partition, merging>>
  BY <1>1 DEF InsertTurn, Types, InsertInv
<1>3. i \in Places /\ i - 1 \in Places
  BY <1>1, <1>2
<1>4. \A k, l \in Places : k < l /\ l < i => datas[k] <= datas[l]
  BY <1>2 DEF InsertInv
<1>5. /\ datas' \in [Places -> Int] /\ Permutes(datas')
      /\ \A k, l \in Places : k < l /\ l <= i => datas'[k] <= datas'[l]
  <2>1. CASE datas[i] >= datas[i - 1]
    <3>1. datas' = datas
      BY <2>1 DEF InsertTurn
    <3>2. \A k \in Places : k < i => datas[k] <= datas[i]
      BY <1>1, <1>2, <1>3, <1>4, <2>1
    <3> QED
      BY <1>1, <1>2, <1>3, <1>4, <3>1, <3>2 DEF Types, DoneInv
  <2>2. CASE ~(datas[i] >= datas[i - 1])
    <3>1. PICK stop \in -1 .. i - 2 :
            /\ stop # -1 => datas[stop] <= datas[i]
            /\ \A k \in stop + 1 .. i - 1 : datas[k] > datas[i]
            /\ datas' = [k \in DOMAIN datas |-> CASE k = stop + 1 -> datas[i]
                                                  [] k \in stop + 2 .. i -> datas[k - 1]
                                                  [] OTHER -> datas[k]]
      BY <2>2 DEF InsertTurn
    <3>2. /\ stop \in Int /\ -1 <= stop /\ stop <= i - 2
          /\ stop + 1 \in Places /\ stop + 1 <= i
          /\ stop # -1 => stop \in Places
      BY <1>1, <1>2
    <3>3. datas' = Rotated(datas, stop + 1, i)
      <4>1. ASSUME NEW k \in Places
            PROVE  (CASE k = stop + 1 -> datas[i] [] k \in stop + 2 .. i -> datas[k - 1]
                      [] OTHER -> datas[k])
                   = (IF k = stop + 1 THEN datas[i]
                      ELSE IF k \in stop + 1 + 1 .. i THEN datas[k - 1] ELSE datas[k])
        <5>1. stop + 1 + 1 = stop + 2
          BY <3>2
        <5>2. CASE k = stop + 1
          BY <3>2, <5>2
        <5>3. CASE k # stop + 1 /\ k \in stop + 2 .. i
          BY <5>1, <5>3
        <5>4. CASE k # stop + 1 /\ k \notin stop + 2 .. i
          BY <5>1, <5>4
        <5> QED
          BY <5>2, <5>3, <5>4
      <4> QED
        BY <1>1, <3>1, <4>1 DEF Rotated
    <3>4. Permutes(datas')
      BY <1>1, <1>2, <1>3, <3>2, <3>3, PermutesRotated DEF Types, DoneInv
    <3>5. /\ \A k \in Places : k < stop + 1 \/ k > i => datas'[k] = datas[k]
          /\ datas'[stop + 1] = datas[i]
          /\ \A k \in stop + 2 .. i : datas'[k] = datas[k - 1] /\ k - 1 \in Places
      BY <1>1, <1>2, <1>3, <3>2, <3>3 DEF Rotated
    <3>6. datas' \in [Places -> Int]
      BY <1>1, <1>2, <1>3, <3>2, <3>3 DEF Rotated
    <3>7. ASSUME NEW k \in Places, k <= stop
          PROVE  datas[k] <= datas[i]
      <4>1. stop \in Places /\ datas[stop] <= datas[i]
        BY <1>1, <3>1, <3>2, <3>7
      <4>2. k = stop \/ datas[k] <= datas[stop]
        BY <1>1, <1>2, <1>4, <3>2, <3>7, <4>1
      <4> QED
        BY <1>1, <1>3, <4>1, <4>2
    <3>8. ASSUME NEW k \in Places, NEW l \in Places, k < l, l <= i
          PROVE  datas'[k] <= datas'[l]
      <4>1. CASE l <= stop
        BY <1>1, <1>2, <1>4, <3>5, <3>8, <4>1
      <4>2. CASE l = stop + 1
        BY <1>1, <1>2, <3>5, <3>7, <3>8, <4>2
      <4>3. CASE l >= stop + 2
        <5>1. datas'[l] = datas[l - 1] /\ l - 1 \in stop + 1 .. i - 1 /\ l - 1 \in Places
          <6>1. l \in stop + 2 .. i /\ l - 1 \in stop + 1 .. i - 1
            BY <1>1, <1>2, <3>2, <3>8, <4>3
          <6> QED
            BY <3>5, <6>1
        <5>2. CASE k <= stop
          BY <1>1, <1>2, <1>4, <3>5, <3>8, <5>1, <5>2
        <5>3. CASE k = stop + 1
          <6>1. datas'[k] = datas[i] /\ datas[l - 1] > datas[i]
            BY <3>1, <3>5, <5>1, <5>3
          <6> QED
            BY <1>1, <1>3, <5>1, <6>1
        <5>4. CASE k >= stop + 2
          BY <1>1, <1>2, <1>4, <3>5, <3>8, <5>1, <5>4
        <5> QED
          BY <1>1, <5>2, <5>3, <5>4
      <4> QED
        BY <1>1, <4>1, <4>2, <4>3
    <3> QED
      BY <3>4, <3>6, <3>8
  <2> QED
    BY <2>1, <2>2
<1>6. Places' = Places /\ size' = size
  BY <1>2, <1>5, SizeKept
<1>7. Types'
  BY <1>1, <1>2, <1>5, <1>6 DEF Types, partition, merging
<1>8. DoneInv'
  BY <1>2, <1>5, <1>6 DEF DoneInv, Permutes
<1>9. BubbleInv' /\ SelectInv' /\ QuickInv' /\ MergeInv' /\ MergingInv'
  BY <1>2 DEF BubbleInv, SelectInv, QuickInv, MergeInv, MergingInv
<1>10. InsertInv'
  BY <1>1, <1>2, <1>5, <1>6 DEF InsertInv
<1> QED
  BY <1>7, <1>8, <1>9, <1>10
-----------------------------------------------------------------------------
(***************************************************************************)
(* What is left of the calls.                                               *)
(***************************************************************************)
LEMMA Popped ==
    ASSUME NEW R, NEW cs \in Seq(R), cs # << >>
    PROVE  /\ 1 \in DOMAIN cs /\ Head(cs) = cs[1] /\ Head(cs) \in R /\ Tail(cs) \in Seq(R)
           /\ \A p \in DOMAIN Tail(cs) :
                 p \in Nat /\ p >= 1 /\ p + 1 \in DOMAIN cs /\ Tail(cs)[p] = cs[p + 1]
           /\ \A p \in DOMAIN cs :
                 p \in Nat /\ p >= 1
                 /\ (p # 1 => p - 1 \in DOMAIN Tail(cs) /\ Tail(cs)[p - 1] = cs[p])
<1>1. /\ Tail(cs) \in Seq(R) /\ Head(cs) \in R /\ Len(Tail(cs)) = Len(cs) - 1
      /\ \A p \in 1 .. Len(Tail(cs)) : Tail(cs)[p] = cs[p + 1]
  BY HeadTailProperties
<1>2. DOMAIN cs = 1 .. Len(cs) /\ DOMAIN Tail(cs) = 1 .. Len(Tail(cs)) /\ Len(cs) \in Nat
  BY <1>1, LenProperties
<1>3. Len(cs) # 0
  BY EmptySeq
<1>4. Head(cs) = cs[1]
  BY <1>2, <1>3
<1> QED
  BY <1>1, <1>2, <1>3, <1>4

LEMMA Pushed2 ==
    ASSUME NEW R, NEW cs \in Seq(R), cs # << >>, NEW a \in R, NEW b \in R,
           NEW t, t = <<a, b>> \o Tail(cs)
    PROVE  /\ t \in Seq(R)
           /\ 1 \in DOMAIN t /\ 2 \in DOMAIN t /\ t[1] = a /\ t[2] = b
           /\ \A p \in DOMAIN t :
                 p \in Nat /\ (p = 1 \/ p = 2 \/ (p > 2 /\ p - 1 \in DOMAIN cs /\ t[p] = cs[p - 1]))
           /\ \A p \in DOMAIN cs :
                 p \in Nat /\ (p # 1 => p > 1 /\ p + 1 \in DOMAIN t /\ t[p + 1] = cs[p])
<1>1. /\ Tail(cs) \in Seq(R) /\ Len(Tail(cs)) = Len(cs) - 1
      /\ \A p \in 1 .. Len(Tail(cs)) : Tail(cs)[p] = cs[p + 1]
  BY HeadTailProperties
<1>2. DOMAIN cs = 1 .. Len(cs) /\ Len(cs) \in Nat /\ Len(cs) # 0
  BY LenProperties, EmptySeq
<1>3. <<a, b>> \in Seq(R) /\ Len(<<a, b>>) = 2 /\ <<a, b>>[1] = a /\ <<a, b>>[2] = b
  OBVIOUS
<1>4. /\ t \in Seq(R) /\ Len(t) = 2 + Len(Tail(cs))
      /\ \A p \in 1 .. 2 + Len(Tail(cs)) : t[p] = IF p <= 2 THEN <<a, b>>[p] ELSE Tail(cs)[p - 2]
  BY <1>1, <1>3, ConcatProperties
<1>5. DOMAIN t = 1 .. Len(cs) + 1
  BY <1>1, <1>2, <1>4, LenProperties
<1>6. \A p \in 3 .. Len(cs) + 1 : t[p] = cs[p - 1]
  BY <1>1, <1>2, <1>4
<1> QED
  <2>1. t \in Seq(R)
    BY <1>4
  <2>2. 1 \in DOMAIN t /\ 2 \in DOMAIN t
    BY <1>2, <1>5
  <2>3. t[1] = a /\ t[2] = b
    BY <1>1, <1>2, <1>3, <1>4
  <2>4. ASSUME NEW p \in DOMAIN t
        PROVE  p \in Nat /\ (p = 1 \/ p = 2 \/ (p > 2 /\ p - 1 \in DOMAIN cs /\ t[p] = cs[p - 1]))
    <3>1. p \in Nat /\ 1 <= p /\ p <= Len(cs) + 1
      BY <1>2, <1>5
    <3>2. p > 2 => p - 1 \in DOMAIN cs /\ p \in 3 .. Len(cs) + 1
      BY <1>2, <3>1
    <3>3. p = 1 \/ p = 2 \/ p > 2
      BY <3>1
    <3> QED
      BY <1>6, <3>1, <3>2, <3>3
  <2>5. ASSUME NEW p \in DOMAIN cs
        PROVE  p \in Nat /\ (p # 1 => p > 1 /\ p + 1 \in DOMAIN t /\ t[p + 1] = cs[p])
    <3>1. p \in Nat /\ 1 <= p /\ p <= Len(cs)
      BY <1>2
    <3>2. p # 1 => p > 1 /\ p + 1 \in DOMAIN t /\ p + 1 \in 3 .. Len(cs) + 1 /\ (p + 1) - 1 = p
      BY <1>2, <1>5, <3>1
    <3> QED
      BY <1>6, <3>1, <3>2
  <2> QED
    BY <2>1, <2>2, <2>3, <2>4, <2>5

LEMMA Pushed3 ==
    ASSUME NEW R, NEW cs \in Seq(R), cs # << >>, NEW a \in R, NEW b \in R, NEW c \in R,
           NEW t, t = <<a, b, c>> \o Tail(cs)
    PROVE  /\ t \in Seq(R)
           /\ 1 \in DOMAIN t /\ 2 \in DOMAIN t /\ 3 \in DOMAIN t /\ t[1] = a /\ t[2] = b /\ t[3] = c
           /\ \A p \in DOMAIN t :
                 /\ p \in Nat
                 /\ p = 1 \/ p = 2 \/ p = 3 \/ (p > 3 /\ p - 2 \in DOMAIN cs /\ t[p] = cs[p - 2])
           /\ \A p \in DOMAIN cs :
                 p \in Nat /\ (p # 1 => p > 1 /\ p + 2 \in DOMAIN t /\ t[p + 2] = cs[p])
<1>1. /\ Tail(cs) \in Seq(R) /\ Len(Tail(cs)) = Len(cs) - 1
      /\ \A p \in 1 .. Len(Tail(cs)) : Tail(cs)[p] = cs[p + 1]
  BY HeadTailProperties
<1>2. DOMAIN cs = 1 .. Len(cs) /\ Len(cs) \in Nat /\ Len(cs) # 0
  BY LenProperties, EmptySeq
<1>3. /\ <<a, b, c>> \in Seq(R) /\ Len(<<a, b, c>>) = 3
      /\ <<a, b, c>>[1] = a /\ <<a, b, c>>[2] = b /\ <<a, b, c>>[3] = c
  OBVIOUS
<1>4. /\ t \in Seq(R) /\ Len(t) = 3 + Len(Tail(cs))
      /\ \A p \in 1 .. 3 + Len(Tail(cs)) :
            t[p] = IF p <= 3 THEN <<a, b, c>>[p] ELSE Tail(cs)[p - 3]
  BY <1>1, <1>3, ConcatProperties
<1>5. DOMAIN t = 1 .. Len(cs) + 2
  BY <1>1, <1>2, <1>4, LenProperties
<1>6. \A p \in 4 .. Len(cs) + 2 : t[p] = cs[p - 2]
  BY <1>1, <1>2, <1>4
<1>7. \A p \in DOMAIN t : p \in Nat /\ (p <= 3 \/ (p > 3 /\ p - 2 \in DOMAIN cs /\ t[p] = cs[p - 2]))
  BY <1>2, <1>5, <1>6
<1>8. \A p \in DOMAIN cs : p \in Nat /\ (p # 1 => p > 1 /\ p + 2 \in DOMAIN t /\ t[p + 2] = cs[p])
  BY <1>2, <1>5, <1>6
<1>9. {1, 2, 3} \subseteq DOMAIN t /\ t[1] = a /\ t[2] = b /\ t[3] = c
  BY <1>1, <1>2, <1>3, <1>4, <1>5
<1>10. \A p \in DOMAIN t : p <= 3 => p = 1 \/ p = 2 \/ p = 3
  BY <1>2, <1>5
<1> QED
  BY <1>4, <1>7, <1>8, <1>9, <1>10

CallSet == [begin : 0 .. size, end : -1 .. size - 1, sorted : BOOLEAN]

\* The fields of the calls are numbers.
LEMMA CallTypes ==
    ASSUME size \in Nat, NEW cs \in Seq(CallSet), NEW p \in DOMAIN cs
    PROVE  /\ cs[p] \in CallSet
           /\ cs[p].begin \in 0 .. size /\ cs[p].end \in -1 .. size - 1 /\ cs[p].sorted \in BOOLEAN
<1>1. p \in 1 .. Len(cs)
  BY LenProperties
<1>2. cs[p] \in CallSet
  BY <1>1, ElementOfSeq
<1> QED
  BY <1>2 DEF CallSet
-----------------------------------------------------------------------------
(***************************************************************************)
(* quickSort                                                                *)
(***************************************************************************)

LEMMA OutsideInterval ==
    \A x, y, k, l \in Int : k < l =>
        /\ x <= k /\ k <= y /\ ~(x <= l /\ l <= y) => y < l
        /\ x <= l /\ l <= y /\ ~(x <= k /\ k <= y) => k < x
OBVIOUS

\* Elements of one call may change places.
LEMMA OrdersSwapped ==
    ASSUME NEW n \in Nat, Places = 0 .. n - 1,
           NEW d \in [Places -> Int], size \in Nat, NEW cs \in Seq(CallSet),
           LeftToRight(cs), NoneSorted(cs), Orders(d, cs),
           NEW p \in DOMAIN cs, NEW a \in Places, NEW b \in Places,
           Holds(cs[p], a), Holds(cs[p], b)
    PROVE  Orders(swap(d, a, b), cs)
<1> DEFINE e == swap(d, a, b)
<1>1. /\ \A k \in Places : k # a /\ k # b => e[k] = d[k]
      /\ e[a] = d[b] /\ e[b] = d[a]
  BY DEF swap
<1>2. \A q \in DOMAIN cs : q \in Nat /\ cs[q].begin \in Int /\ cs[q].end \in Int
  <2>1. \A q \in DOMAIN cs : q \in Nat
    BY LenProperties
  <2> QED
    BY <2>1, CallTypes
<1>3. \A q \in DOMAIN cs : q # p => LeftOf(cs[p], cs[q]) \/ LeftOf(cs[q], cs[p])
  BY <1>2 DEF LeftToRight
<1>4. \A q \in DOMAIN cs, k, l \in Places : Open(cs[q], k, l) <=> Holds(cs[q], k) /\ Holds(cs[q], l)
  BY DEF Open, Crosses, NoneSorted
<1>5. \A k, l \in Places :
        k < l => d[k] <= d[l] \/ \E q \in DOMAIN cs : Holds(cs[q], k) /\ Holds(cs[q], l)
  BY <1>4 DEF Orders
<1>6. ASSUME NEW q \in DOMAIN cs, NEW k \in Places, Holds(cs[q], k), Holds(cs[p], k)
      PROVE  q = p
  <2>1. cs[p].begin \in Int /\ cs[p].end \in Int /\ cs[q].begin \in Int /\ cs[q].end \in Int
    BY <1>2, Zenon
  <2>3. k \in Int
    OBVIOUS
  <2>2. ~LeftOf(cs[p], cs[q]) /\ ~LeftOf(cs[q], cs[p])
    BY <1>6, <2>1, <2>3, SMTT(30) DEF Holds, LeftOf
  <2> QED
    BY <1>3, <2>2
<1>7. ASSUME NEW k \in Places, NEW l \in Places, k < l,
             ~\E q \in DOMAIN cs : Holds(cs[q], k) /\ Holds(cs[q], l)
      PROVE  e[k] <= e[l]
  <2>1. ~(Holds(cs[p], k) /\ Holds(cs[p], l))
    BY <1>7
  <2>2. CASE Holds(cs[p], k)
    <3>1. l # a /\ l # b /\ cs[p].end < l
      <4>1. cs[p].begin \in Int /\ cs[p].end \in Int /\ k \in Int /\ l \in Int
        BY <1>2
      <4>2. PICK x \in Int, y \in Int : x = cs[p].begin /\ y = cs[p].end
        BY <4>1
      <4>3. x <= k /\ k <= y /\ ~(x <= l /\ l <= y)
        BY <2>1, <2>2, <4>2 DEF Holds
      <4>4. y < l
        <5>1. k < l
          BY <1>7
        <5>2. k \in Int /\ l \in Int /\ x \in Int /\ y \in Int
          BY <4>1, <4>2
        <5> QED
          BY <4>3, <5>1, <5>2, OutsideInterval, Zenon
      <4>5. ~Holds(cs[p], l)
        BY <2>1, <2>2
      <4> QED
        BY <4>2, <4>4, <4>5
    <3>2. a < l /\ b < l
      <4>1. cs[p].end \in Int /\ a \in Int /\ b \in Int /\ l \in Int
        BY <1>2
      <4>2. a <= cs[p].end /\ b <= cs[p].end
        BY DEF Holds
      <4> QED
        BY <3>1, <4>1, <4>2
    <3>3. d[a] <= d[l] /\ d[b] <= d[l] /\ d[k] <= d[l]
      <4>1. ~\E q \in DOMAIN cs : Holds(cs[q], a) /\ Holds(cs[q], l)
        BY <1>6, <2>1, <2>2
      <4>2. ~\E q \in DOMAIN cs : Holds(cs[q], b) /\ Holds(cs[q], l)
        BY <1>6, <2>1, <2>2
      <4> QED
        BY <1>5, <1>7, <3>2, <4>1, <4>2
    <3> QED
      BY <1>1, <3>1, <3>3
  <2>3. CASE Holds(cs[p], l)
    <3>1. k # a /\ k # b /\ k < cs[p].begin
      <4>1. cs[p].begin \in Int /\ cs[p].end \in Int /\ k \in Int /\ l \in Int
        BY <1>2
      <4>2. PICK x \in Int, y \in Int : x = cs[p].begin /\ y = cs[p].end
        BY <4>1
      <4>3. x <= l /\ l <= y /\ ~(x <= k /\ k <= y)
        BY <2>1, <2>3, <4>2 DEF Holds
      <4>4. k < x
        <5>1. k < l
          BY <1>7
        <5>2. k \in Int /\ l \in Int /\ x \in Int /\ y \in Int
          BY <4>1, <4>2
        <5> QED
          BY <4>3, <5>1, <5>2, OutsideInterval, Zenon
      <4>5. ~Holds(cs[p], k)
        BY <2>1, <2>3
      <4> QED
        BY <4>2, <4>4, <4>5
    <3>2. k < a /\ k < b
      <4>1. cs[p].begin \in Int /\ a \in Int /\ b \in Int /\ k \in Int
        BY <1>2
      <4>2. cs[p].begin <= a /\ cs[p].begin <= b
        BY DEF Holds
      <4> QED
        BY <3>1, <4>1, <4>2
    <3>3. d[k] <= d[a] /\ d[k] <= d[b] /\ d[k] <= d[l]
      <4>1. ~\E q \in DOMAIN cs : Holds(cs[q], k) /\ Holds(cs[q], a)
        BY <1>6, <2>1, <2>3
      <4>2. ~\E q \in DOMAIN cs : Holds(cs[q], k) /\ Holds(cs[q], b)
        BY <1>6, <2>1, <2>3
      <4> QED
        BY <1>5, <1>7, <3>2, <4>1, <4>2
    <3> QED
      BY <1>1, <3>1, <3>3
  <2>4. CASE ~Holds(cs[p], k) /\ ~Holds(cs[p], l)
    <3>1. k # a /\ k # b /\ l # a /\ l # b
      BY <2>4
    <3> QED
      BY <1>1, <1>5, <1>7, <3>1
  <2> QED
    BY <2>1, <2>2, <2>3, <2>4
<1> HIDE DEF e
<1>8. Orders(e, cs)
  BY <1>4, <1>7 DEF Orders
<1> QED
  BY <1>8 DEF e

LEMMA QuickCallStep ==
    ASSUME IInv, QuickCall
    PROVE  IInv'
<1> USE DEF IInv
<1>1. /\ size \in Nat /\ Places = 0 .. size - 1 /\ DOMAIN datas = Places
      /\ \A k \in Places : datas[k] \in Int
  BY PlacesAre
<1>2. /\ pc = "quick" /\ calls # << >> /\ calls \in Seq(CallSet)
      /\ UNCHANGED <<input, datas, i, j, dataTemp, begin1, begin2, index>>
  BY DEF QuickCall, Types, CallSet, loops, merging
<1>3. Places' = Places /\ size' = size
  BY <1>2, SizeKept DEF Types
<1>4. LeftToRight(calls) /\ NoneSorted(calls) /\ Orders(datas, calls)
  BY <1>2 DEF QuickInv
<1> DEFINE c == Head(calls)
<1>5. c = calls[1] /\ 1 \in DOMAIN calls
  BY <1>2, Popped
<1>6. c.begin \in 0 .. size /\ c.end \in -1 .. size - 1
  BY <1>1, <1>2, <1>5, CallTypes
<1>7. CASE c.begin >= c.end
  <2>1. calls' = Tail(calls) /\ UNCHANGED <<pc, low, high, key>>
    BY <1>7 DEF QuickCall, partition
  <2> DEFINE t == Tail(calls)
  <2>2. /\ t \in Seq(CallSet)
        /\ \A p \in DOMAIN t : p \in Nat /\ p + 1 \in DOMAIN calls /\ t[p] = calls[p + 1]
        /\ \A p \in DOMAIN calls : p \in Nat /\ (p # 1 => p - 1 \in DOMAIN t /\ t[p - 1] = calls[p])
    BY <1>2, Popped
  <2> HIDE DEF t
  <2>3. LeftToRight(t) /\ NoneSorted(t)
    BY <1>4, <2>2 DEF LeftToRight, NoneSorted
  <2>4. ASSUME NEW k \in Places, NEW l \in Places, k < l, ~(datas[k] <= datas[l])
        PROVE  \E p \in DOMAIN t : Open(t[p], k, l)
    <3>1. PICK p \in DOMAIN calls : Open(calls[p], k, l)
      BY <1>4, <2>4 DEF Orders
    <3>2. k \in Int /\ l \in Int
      BY <1>1
    <3>3. ~(Holds(c, k) /\ Holds(c, l))
      BY <1>6, <1>7, <2>4, <3>2 DEF Holds
    <3>4. p # 1
      BY <1>5, <3>1, <3>3 DEF Open, Crosses
    <3> QED
      BY <2>2, <3>1, <3>4
  <2>5. Orders(datas, t)
    BY <2>4 DEF Orders
  <2>6. Types'
    BY <1>2, <1>3, <2>1, <2>2 DEF Types, CallSet, t
  <2>7. QuickInv'
    BY <1>2, <1>3, <2>1, <2>3, <2>5 DEF QuickInv, Orders, LeftToRight, NoneSorted, t
  <2>8. DoneInv'
    BY <1>2, <1>3, <2>1 DEF DoneInv, Permutes
  <2>9. BubbleInv' /\ SelectInv' /\ InsertInv' /\ MergeInv' /\ MergingInv'
    BY <1>2, <2>1 DEF BubbleInv, SelectInv, InsertInv, MergeInv, MergingInv
  <2> QED
    BY <2>6, <2>7, <2>8, <2>9
<1>8. CASE ~(c.begin >= c.end)
  <2>1. /\ low' = c.begin /\ high' = c.end /\ key' = datas[c.begin]
        /\ pc' = "partition" /\ calls' = calls
    BY <1>8 DEF QuickCall
  <2>2. c.begin \in Places /\ c.begin < c.end
    BY <1>1, <1>6, <1>8
  <2>3. Filled' = datas
    BY <1>1, <1>2, <2>1, <2>2 DEF Filled, Types
  <2>4. Permutes(datas)
    BY <1>2 DEF DoneInv
  <2>5. Types'
    <3>1. low' \in 0 .. size /\ high' \in 0 .. size /\ key' \in Int
      BY <1>1, <1>6, <2>1, <2>2
    <3> QED
      BY <1>2, <1>3, <2>1, <3>1 DEF Types, Loops
  <2>6. Orders(Filled', calls') /\ Permutes(Filled')
    BY <1>4, <2>1, <2>3, <2>4
  <2>7. QuickInv'
    <3>1. /\ Orders(Filled, calls)' /\ Permutes(Filled)'
      BY <1>2, <1>3, <2>6 DEF Orders, Permutes
    <3>2. LeftToRight(calls)' /\ NoneSorted(calls)'
      BY <1>4, <2>1
    <3>3. \A k \in (Head(calls).begin .. low - 1)' : FALSE
      BY <1>6, <2>1
    <3>4. \A k \in (high + 1 .. Head(calls).end)' : FALSE
      BY <1>6, <2>1
    <3>5. calls' # << >> /\ (Head(calls).begin <= low /\ low <= high /\ high <= Head(calls).end)'
      BY <1>2, <1>6, <2>1, <2>2
    <3> QED
      BY <2>1, <3>1, <3>2, <3>3, <3>4, <3>5 DEF QuickInv
  <2>8. DoneInv' /\ BubbleInv' /\ SelectInv' /\ InsertInv' /\ MergeInv' /\ MergingInv'
    BY <2>1 DEF DoneInv, BubbleInv, SelectInv, InsertInv, MergeInv, MergingInv
  <2> QED
    BY <2>5, <2>7, <2>8
<1> QED
  BY <1>7, <1>8

LEMMA PartitionStep ==
    ASSUME IInv, PartitionTurn
    PROVE  IInv'
<1> USE DEF IInv
<1>1. /\ size \in Nat /\ Places = 0 .. size - 1 /\ DOMAIN datas = Places
      /\ \A k \in Places : datas[k] \in Int
  BY PlacesAre
<1>2. /\ pc = "partition" /\ pc' = "partition" /\ calls \in Seq(CallSet)
      /\ UNCHANGED <<input, i, j, calls, key, dataTemp, begin1, begin2, index>>
      /\ low < high /\ key \in Int
  BY DEF PartitionTurn, Types, CallSet, loops, merging
<1> DEFINE c == Head(calls)
<1>3. /\ LeftToRight(calls) /\ NoneSorted(calls) /\ calls # << >>
      /\ c.begin <= low /\ high <= c.end
      /\ Orders(Filled, calls) /\ Permutes(Filled)
      /\ \A k \in c.begin .. low - 1 : datas[k] <= key
      /\ \A k \in high + 1 .. c.end : datas[k] >= key
  BY <1>2 DEF QuickInv
<1>4. c = calls[1] /\ 1 \in DOMAIN calls
  BY <1>2, <1>3, Popped
<1>5. c.begin \in 0 .. size /\ c.end \in -1 .. size - 1
  BY <1>1, <1>2, <1>4, CallTypes
<1> HIDE DEF c
<1>6. PICK down \in low .. high :
        /\ down # low => datas[down] < key
        /\ \A k \in down + 1 .. high : datas[k] >= key
        /\ LET moved == [datas EXCEPT ![low] = datas[down]]
               from == IF low < down THEN low + 1 ELSE low
           IN  \E up \in from .. down :
                   /\ up # down => moved[up] > key
                   /\ \A k \in from .. up - 1 : moved[k] <= key
                   /\ datas' = [moved EXCEPT ![down] = moved[up]]
                   /\ low' = up
                   /\ high' = IF up < down THEN down - 1 ELSE down
  BY DEF PartitionTurn
<1> DEFINE moved == [datas EXCEPT ![low] = datas[down]]
           from == IF low < down THEN low + 1 ELSE low
<1>7. PICK up \in from .. down :
        /\ up # down => moved[up] > key
        /\ \A k \in from .. up - 1 : moved[k] <= key
        /\ datas' = [moved EXCEPT ![down] = moved[up]]
        /\ low' = up
        /\ high' = IF up < down THEN down - 1 ELSE down
  BY <1>6
<1>8. low \in Int /\ high \in Int /\ c.begin \in Int /\ c.end \in Int
  BY <1>5 DEF Types
<1>9. /\ down \in Int /\ up \in Int /\ low <= up /\ up <= down /\ down <= high
      /\ low \in Places /\ up \in Places /\ down \in Places
      /\ Holds(c, low) /\ Holds(c, up) /\ Holds(c, down)
      /\ low < down => low < up
  <2>1. down \in Int /\ low <= down /\ down <= high
    BY <1>8
  <2>2. from \in Int /\ low <= from /\ (low < down => from = low + 1)
    BY <1>8
  <2>3. up \in Int /\ from <= up /\ up <= down
    BY <2>1, <2>2
  <2>4. low <= up /\ (low < down => low < up)
    BY <1>8, <2>2, <2>3
  <2> HIDE DEF from
  <2>5. 0 <= low /\ high <= size - 1
    BY <1>1, <1>3, <1>5, <1>8
  <2>6. low \in Places /\ up \in Places /\ down \in Places
    BY <1>1, <1>8, <2>1, <2>3, <2>4, <2>5
  <2>7. c.begin <= low /\ high <= c.end
    BY <1>3
  <2>8. Holds(c, low) /\ Holds(c, up) /\ Holds(c, down)
    BY <1>8, <2>1, <2>3, <2>4, <2>7 DEF Holds
  <2> QED
    BY <2>1, <2>3, <2>4, <2>6, <2>8
<1>10. /\ \A k \in Places : k # low => moved[k] = datas[k]
       /\ moved[low] = datas[down] /\ moved \in [Places -> Int]
  BY <1>1, <1>9 DEF Types
<1>11. /\ \A k \in Places : k # down => datas'[k] = moved[k]
       /\ datas'[down] = moved[up] /\ datas' \in [Places -> Int]
  BY <1>7, <1>9, <1>10
<1>12. Filled \in [Places -> Int] /\ low' = up
  BY <1>1, <1>2, <1>7 DEF Filled, Types
<1> DEFINE between == swap(Filled, low, down)
<1>13. between \in [Places -> Int] /\ Orders(between, calls) /\ Permutes(between)
  <2>1. between \in [Places -> Int]
    BY <1>9, <1>12 DEF swap
  <2>2. Orders(between, calls)
    BY <1>1, <1>2, <1>3, <1>4, <1>9, <1>12, OrdersSwapped
  <2>3. Permutes(between)
    BY <1>3, <1>9, <1>12, PermutesSwapped
  <2> QED
    BY <2>1, <2>2, <2>3
<1>14. between = [moved EXCEPT ![down] = key]
  <2>1. ASSUME NEW k \in Places
        PROVE  between[k] = [moved EXCEPT ![down] = key][k]
    BY <1>1, <1>9, <1>10, <1>12 DEF Filled, swap, Types
  <2> QED
    BY <1>10, <1>13, <2>1
<1>15. Filled' = swap(between, down, up)
  <2>1. Filled' = [datas' EXCEPT ![up] = key]
    BY <1>2, <1>12 DEF Filled
  <2>2. ASSUME NEW k \in Places
        PROVE  Filled'[k] = swap(between, down, up)[k]
    BY <1>9, <1>10, <1>11, <1>13, <1>14, <2>1 DEF swap
  <2>3. Filled' \in [Places -> Int] /\ swap(between, down, up) \in [Places -> Int]
    BY <1>2, <1>9, <1>11, <1>13, <2>1 DEF swap
  <2> QED
    BY <2>2, <2>3
<1> HIDE DEF between, moved, from
<1>16. Orders(Filled', calls) /\ Permutes(Filled')
  <2>1. Orders(swap(between, down, up), calls)
    BY <1>1, <1>2, <1>3, <1>4, <1>9, <1>13, OrdersSwapped
  <2>2. Permutes(swap(between, down, up))
    BY <1>9, <1>13, PermutesSwapped
  <2> QED
    BY <1>15, <2>1, <2>2
<1>17. Places' = Places /\ size' = size
  BY <1>2, <1>11, SizeKept
<1>18. /\ high' \in Int /\ low' <= high' /\ high' <= c.end /\ c.begin <= low' /\ high' >= 0
  BY <1>1, <1>3, <1>5, <1>7, <1>8, <1>9, SMTT(60)
<1>19. ASSUME NEW k \in c.begin .. up - 1
       PROVE  datas'[k] <= key
  <2>1. k \in Places /\ k # down
    BY <1>1, <1>5, <1>9
  <2>2. CASE k < low
    BY <1>3, <1>8, <1>10, <1>11, <2>1, <2>2
  <2>3. CASE k = low
    <3>1. datas'[k] = datas[down] /\ down # low
      BY <1>10, <1>11, <2>1, <2>3
    <3> QED
      BY <1>1, <1>2, <1>6, <1>9, <3>1
  <2>4. CASE k > low
    <3>1. k \in from .. up - 1
      BY <1>8, <1>9, <2>4 DEF from
    <3> QED
      BY <1>7, <1>11, <2>1, <3>1
  <2> QED
    BY <1>8, <2>2, <2>3, <2>4
<1>20. ASSUME NEW k \in high' + 1 .. c.end
       PROVE  datas'[k] >= key
  <2>1. k \in Places /\ k >= down
    BY <1>1, <1>5, <1>7, <1>8, <1>9, <1>18, SMTT(60)
  <2>2. CASE k = down
    <3>1. up # down
      BY <1>7, <1>8, <1>9, <1>18, <2>2
    <3> QED
      BY <1>2, <1>7, <1>9, <1>10, <1>11, <2>2, <3>1
  <2>3. CASE k > down
    <3>1. datas'[k] = datas[k]
      BY <1>9, <1>10, <1>11, <2>1, <2>3
    <3> QED
      BY <1>3, <1>6, <1>8, <1>9, <2>3, <3>1
  <2> QED
    BY <1>9, <2>1, <2>2, <2>3
<1>21. Types'
  <2>1. low' \in 0 .. size /\ high' \in 0 .. size
    BY <1>1, <1>5, <1>9, <1>12, <1>18
  <2> QED
    BY <1>2, <1>11, <1>17, <2>1 DEF Types
<1>22. QuickInv'
  <2>1. Orders(Filled, calls)' /\ Permutes(Filled)'
    BY <1>2, <1>16, <1>17 DEF Orders, Permutes
  <2>2. LeftToRight(calls)' /\ NoneSorted(calls)'
    BY <1>2, <1>3
  <2> QED
    BY <1>2, <1>3, <1>12, <1>18, <1>19, <1>20, <2>1, <2>2 DEF QuickInv, c
<1>23. DoneInv' /\ BubbleInv' /\ SelectInv' /\ InsertInv' /\ MergeInv' /\ MergingInv'
  BY <1>2 DEF DoneInv, BubbleInv, SelectInv, InsertInv, MergeInv, MergingInv
<1> QED
  BY <1>21, <1>22, <1>23

LEMMA PlaceStep ==
    ASSUME IInv, PlaceKey
    PROVE  IInv'
<1> USE DEF IInv
<1>1. /\ size \in Nat /\ Places = 0 .. size - 1 /\ DOMAIN datas = Places
      /\ \A k \in Places : datas[k] \in Int
  BY PlacesAre
<1>2. /\ pc = "partition" /\ pc' = "quick" /\ calls \in Seq(CallSet)
      /\ UNCHANGED <<input, i, j, low, high, key, dataTemp, begin1, begin2, index>>
      /\ low >= high /\ key \in Int /\ low \in Int /\ high \in Int
      /\ datas' = Filled
  BY DEF PlaceKey, Types, CallSet, loops, partition, merging, Filled
<1> DEFINE c == Head(calls)
<1>3. /\ LeftToRight(calls) /\ NoneSorted(calls) /\ calls # << >>
      /\ c.begin <= low /\ low <= high /\ high <= c.end
      /\ Orders(Filled, calls) /\ Permutes(Filled)
      /\ \A k \in c.begin .. low - 1 : datas[k] <= key
      /\ \A k \in high + 1 .. c.end : datas[k] >= key
  BY <1>2 DEF QuickInv
<1>4. c = calls[1] /\ 1 \in DOMAIN calls /\ c \in CallSet
  BY <1>2, <1>3, Popped
<1>5. c.begin \in 0 .. size /\ c.end \in -1 .. size - 1
  BY <1>1, <1>2, <1>4, CallTypes
<1> DEFINE a == Call(c.begin, low - 1)
           b == Call(low + 1, c.end)
           t == <<a, b>> \o Tail(calls)
<1>6. /\ calls' = t
      /\ low = high /\ low \in Places
      /\ a \in CallSet /\ b \in CallSet
      /\ a.begin = c.begin /\ a.end = low - 1 /\ b.begin = low + 1 /\ b.end = c.end
      /\ ~a.sorted /\ ~b.sorted
  <2>1. low = high
    BY <1>2, <1>3
  <2>2. low \in Places
    BY <1>1, <1>2, <1>3, <1>5, <2>1
  <2>3. low - 1 \in -1 .. size - 1 /\ low + 1 \in 0 .. size
    BY <1>1, <2>2
  <2> QED
    BY <1>5, <2>1, <2>2, <2>3 DEF PlaceKey, Call, CallSet
<1> HIDE DEF c, a, b
<1>7. /\ t \in Seq(CallSet)
      /\ 1 \in DOMAIN t /\ 2 \in DOMAIN t /\ t[1] = a /\ t[2] = b
      /\ \A p \in DOMAIN t :
            p \in Nat /\ (p = 1 \/ p = 2 \/ (p > 2 /\ p - 1 \in DOMAIN calls /\ t[p] = calls[p - 1]))
      /\ \A p \in DOMAIN calls :
            p \in Nat /\ (p # 1 => p > 1 /\ p + 1 \in DOMAIN t /\ t[p + 1] = calls[p])
  <2>1. t = <<a, b>> \o Tail(calls)
    OBVIOUS
  <2> HIDE DEF t
  <2> QED
    BY <1>2, <1>3, <1>6, <2>1, Pushed2, SMTT(60)
<1> HIDE DEF t
<1>8. NoneSorted(t)
  BY <1>3, <1>6, <1>7 DEF NoneSorted
<1>9. ASSUME NEW p \in DOMAIN calls, p # 1
      PROVE  LeftOf(c, calls[p]) /\ LeftOf(a, calls[p]) /\ LeftOf(b, calls[p])
  <2>1. LeftOf(c, calls[p])
    BY <1>3, <1>4, <1>7, <1>9 DEF LeftToRight
  <2>2. calls[p].begin \in Int
    BY <1>1, <1>2, CallTypes
  <2> QED
    BY <1>2, <1>3, <1>5, <1>6, <2>1, <2>2 DEF LeftOf
<1>10. LeftToRight(t)
  <2>1. ASSUME NEW p \in DOMAIN t, NEW q \in DOMAIN t, p < q
        PROVE  LeftOf(t[p], t[q])
    <3>1. CASE p = 1 /\ q = 2
      BY <1>2, <1>6, <1>7, <3>1 DEF LeftOf
    <3>2. CASE p \in {1, 2} /\ q > 2
      BY <1>7, <1>9, <3>2
    <3>3. CASE p > 2
      BY <1>3, <1>7, <2>1, <3>3 DEF LeftToRight
    <3> QED
      BY <1>7, <2>1, <3>1, <3>2, <3>3
  <2> QED
    BY <2>1 DEF LeftToRight
<1>11. /\ \A k \in Places : k # low => Filled[k] = datas[k]
       /\ Filled[low] = key /\ Filled \in [Places -> Int]
  BY <1>1, <1>2, <1>6 DEF Filled, Types
<1>12. Orders(Filled, t)
  <2>1. ASSUME NEW k \in Places, NEW l \in Places, k < l, ~(Filled[k] <= Filled[l])
        PROVE  \E p \in DOMAIN t : Open(t[p], k, l)
    <3>1. PICK p \in DOMAIN calls : Open(calls[p], k, l)
      BY <1>3, <2>1 DEF Orders
    <3>2. CASE p # 1
      BY <1>7, <3>1, <3>2
    <3>3. CASE p = 1
      <4>1. Holds(c, k) /\ Holds(c, l)
        BY <1>4, <3>1, <3>3 DEF Open, Crosses
      <4>2. k \in Int /\ l \in Int /\ c.begin \in Int /\ c.end \in Int
        BY <1>1, <1>5
      <4>3. CASE l < low
        <5>1. Open(a, k, l)
          BY <1>2, <1>6, <2>1, <4>1, <4>2, <4>3 DEF Open, Holds
        <5> QED
          BY <1>7, <5>1
      <4>4. CASE k > low
        <5>1. Open(b, k, l)
          BY <1>2, <1>6, <2>1, <4>1, <4>2, <4>4 DEF Open, Holds
        <5> QED
          BY <1>7, <5>1
      <4>5. CASE k <= low /\ low <= l
        <5>1. Filled[k] <= key
          <6>1. k # low => k \in c.begin .. low - 1
            BY <1>2, <4>1, <4>2, <4>5 DEF Holds
          <6> QED
            BY <1>2, <1>3, <1>11, <6>1
        <5>2. key <= Filled[l]
          <6>1. l # low => l \in high + 1 .. c.end
            BY <1>2, <1>6, <4>1, <4>2, <4>5 DEF Holds
          <6> QED
            BY <1>1, <1>2, <1>3, <1>11, <6>1
        <5> QED
          BY <1>2, <1>11, <2>1, <5>1, <5>2
      <4> QED
        BY <1>2, <4>2, <4>3, <4>4, <4>5
    <3> QED
      BY <3>2, <3>3
  <2> QED
    BY <2>1 DEF Orders
<1>13. Places' = Places /\ size' = size
  BY <1>2, <1>11, SizeKept
<1>14. Types'
  BY <1>2, <1>6, <1>7, <1>11, <1>13 DEF Types, CallSet, Loops
<1>15. QuickInv'
  <2>1. Orders(datas, calls)' /\ LeftToRight(calls)' /\ NoneSorted(calls)'
    BY <1>2, <1>6, <1>8, <1>10, <1>12, <1>13 DEF Orders
  <2> QED
    BY <1>2, <2>1 DEF QuickInv
<1>16. DoneInv'
  BY <1>2, <1>3, <1>13 DEF DoneInv, Permutes
<1>17. BubbleInv' /\ SelectInv' /\ InsertInv' /\ MergeInv' /\ MergingInv'
  BY <1>2 DEF BubbleInv, SelectInv, InsertInv, MergeInv, MergingInv
<1> QED
  BY <1>14, <1>15, <1>16, <1>17
-----------------------------------------------------------------------------
(***************************************************************************)
(* mergeSort                                                                *)
(***************************************************************************)
LEMMA MidInside ==
    ASSUME NEW c, c.begin \in Int, c.end \in Int
    PROVE  Mid(c) \in Int /\ (c.begin < c.end => c.begin <= Mid(c) /\ Mid(c) < c.end)
<1>1. \A a, b \in Int : a + (b - a) \div 2 \in Int
                          /\ (a < b => a <= a + (b - a) \div 2 /\ a + (b - a) \div 2 < b)
  OBVIOUS
<1> QED
  BY <1>1 DEF Mid

\* Two halves are on both sides of the middle of their call.
LEMMA HalvesOfCall ==
    ASSUME size \in Nat, NEW c \in CallSet, c.begin < c.end, ~c.sorted
    PROVE  LET a == Call(c.begin, Mid(c))
               b == Call(Mid(c) + 1, c.end)
               h == Halves(c.begin, c.end)
           IN  /\ a \in CallSet /\ b \in CallSet /\ h \in CallSet
               /\ ~a.sorted /\ ~b.sorted /\ h.sorted
               /\ h.begin = c.begin /\ h.end = c.end /\ Mid(h) = Mid(c)
               /\ LeftOf(a, b) /\ Inside(a, h) /\ Inside(b, h)
               /\ \A k \in Int : /\ Holds(h, k) <=> Holds(c, k)
                                 /\ Holds(c, k) <=> (Holds(a, k) \/ Holds(b, k))
                                 /\ Holds(a, k) <=> (Holds(c, k) /\ k <= Mid(c))
                                 /\ Holds(b, k) <=> (Holds(c, k) /\ Mid(c) < k)
<1>1. c.begin \in 0 .. size /\ c.end \in -1 .. size - 1
  BY DEF CallSet
<1>2. Mid(c) \in Int /\ c.begin <= Mid(c) /\ Mid(c) < c.end
  BY <1>1, MidInside
<1> DEFINE a == Call(c.begin, Mid(c))
           b == Call(Mid(c) + 1, c.end)
           h == Halves(c.begin, c.end)
<1>3. /\ a.begin = c.begin /\ a.end = Mid(c) /\ b.begin = Mid(c) + 1 /\ b.end = c.end
      /\ h.begin = c.begin /\ h.end = c.end
      /\ ~a.sorted /\ ~b.sorted /\ h.sorted
  BY DEF Call, Halves
<1>4. a \in CallSet /\ b \in CallSet /\ h \in CallSet
  BY <1>1, <1>2 DEF Call, Halves, CallSet
<1>5. Mid(h) = Mid(c)
  BY <1>3 DEF Mid
<1> HIDE DEF a, b, h
<1>6. LeftOf(a, b) /\ Inside(a, h) /\ Inside(b, h)
  BY <1>1, <1>2, <1>3, <1>5 DEF LeftOf, Inside
<1>7. ASSUME NEW k \in Int
      PROVE  /\ Holds(h, k) <=> Holds(c, k)
             /\ Holds(c, k) <=> (Holds(a, k) \/ Holds(b, k))
             /\ Holds(a, k) <=> (Holds(c, k) /\ k <= Mid(c))
             /\ Holds(b, k) <=> (Holds(c, k) /\ Mid(c) < k)
  BY <1>1, <1>2, <1>3 DEF Holds
<1> QED
  BY <1>3, <1>4, <1>5, <1>6, <1>7 DEF a, b, h

\* A call without two elements has nothing to order.
LEMMA MergePops ==
    ASSUME size \in Nat, Places = 0 .. size - 1, NEW cs \in Seq(CallSet), cs # << >>,
           ~cs[1].sorted, cs[1].begin >= cs[1].end,
           NEW d, Nested(cs), Merges(cs), Wide(cs), Orders(d, cs)
    PROVE  LET t == Tail(cs) IN
           t \in Seq(CallSet) /\ Nested(t) /\ Merges(t) /\ Wide(t) /\ Orders(d, t)
<1> DEFINE t == Tail(cs)
<1>1. /\ t \in Seq(CallSet) /\ 1 \in DOMAIN cs
      /\ \A p \in DOMAIN t : p \in Nat /\ p + 1 \in DOMAIN cs /\ t[p] = cs[p + 1]
      /\ \A p \in DOMAIN cs : p \in Nat /\ (p # 1 => p - 1 \in DOMAIN t /\ t[p - 1] = cs[p])
  BY Popped
<1> HIDE DEF t
<1>2. Nested(t) /\ Wide(t)
  BY <1>1 DEF Nested, Wide
<1>3. ASSUME NEW k \in Places, NEW l \in Places, k < l
      PROVE  ~Open(cs[1], k, l)
  <2>1. cs[1].begin \in Int /\ cs[1].end \in Int /\ k \in Int /\ l \in Int
    BY <1>1, CallTypes
  <2> QED
    BY <1>3, <2>1 DEF Open, Crosses, Holds
<1>4. Orders(d, t)
  BY <1>1, <1>3 DEF Orders
<1>5. ASSUME NEW p \in DOMAIN t, NEW k \in Places, NEW l \in Places, k < l,
             ~(Holds(t[p], k) <=> Holds(t[p], l))
      PROVE  \E q \in DOMAIN t : Crosses(t[q], k, l)
  <2>1. PICK q \in DOMAIN cs : Crosses(cs[q], k, l)
    BY <1>1, <1>5 DEF Merges
  <2>2. q # 1
    BY <2>1 DEF Crosses
  <2> QED
    BY <1>1, <2>1, <2>2
<1>6. Merges(t)
  BY <1>5 DEF Merges
<1> QED
  BY <1>1, <1>2, <1>4, <1>6 DEF t

\* A call that is not one element is to sort its halves and to merge them.
LEMMA MergeSplits ==
    ASSUME size \in Nat, Places = 0 .. size - 1, NEW cs \in Seq(CallSet), cs # << >>,
           ~cs[1].sorted, cs[1].begin < cs[1].end,
           NEW d, Nested(cs), Merges(cs), Wide(cs), Orders(d, cs),
           NEW t,
           t = <<Call(cs[1].begin, Mid(cs[1])), Call(Mid(cs[1]) + 1, cs[1].end),
                 Halves(cs[1].begin, cs[1].end)>> \o Tail(cs)
    PROVE  t \in Seq(CallSet) /\ Nested(t) /\ Merges(t) /\ Wide(t) /\ Orders(d, t)
<1>1. PICK c : c = cs[1]
  OBVIOUS
<1>2. 1 \in DOMAIN cs /\ c \in CallSet /\ c.begin < c.end /\ ~c.sorted
  BY <1>1, Popped
<1> DEFINE a == Call(c.begin, Mid(c))
           b == Call(Mid(c) + 1, c.end)
           h == Halves(c.begin, c.end)
<1>3. /\ a \in CallSet /\ b \in CallSet /\ h \in CallSet
      /\ ~a.sorted /\ ~b.sorted /\ h.sorted
      /\ h.begin = c.begin /\ h.end = c.end /\ Mid(h) = Mid(c)
      /\ LeftOf(a, b) /\ Inside(a, h) /\ Inside(b, h)
      /\ \A k \in Int : /\ Holds(h, k) <=> Holds(c, k)
                        /\ Holds(c, k) <=> (Holds(a, k) \/ Holds(b, k))
                        /\ Holds(a, k) <=> (Holds(c, k) /\ k <= Mid(c))
                        /\ Holds(b, k) <=> (Holds(c, k) /\ Mid(c) < k)
  BY <1>2, HalvesOfCall
<1>4. /\ a.begin = c.begin /\ a.end = Mid(c) /\ b.begin = Mid(c) + 1 /\ b.end = c.end
  BY DEF Call
<1>5. /\ c.begin \in Int /\ c.end \in Int /\ Mid(c) \in Int /\ c.begin <= Mid(c) /\ Mid(c) < c.end
  <2>1. c.begin \in 0 .. size /\ c.end \in -1 .. size - 1
    BY <1>2 DEF CallSet
  <2> QED
    BY <1>2, <2>1, MidInside
<1>6. t = <<a, b, h>> \o Tail(cs)
  BY <1>1
<1> HIDE DEF a, b, h
<1>7. /\ t \in Seq(CallSet)
      /\ 1 \in DOMAIN t /\ 2 \in DOMAIN t /\ 3 \in DOMAIN t /\ t[1] = a /\ t[2] = b /\ t[3] = h
      /\ \A p \in DOMAIN t :
            /\ p \in Nat
            /\ p = 1 \/ p = 2 \/ p = 3 \/ (p > 3 /\ p - 2 \in DOMAIN cs /\ t[p] = cs[p - 2])
      /\ \A p \in DOMAIN cs :
            p \in Nat /\ (p # 1 => p > 1 /\ p + 2 \in DOMAIN t /\ t[p + 2] = cs[p])
  <2>1. a \in CallSet /\ b \in CallSet /\ h \in CallSet
    BY <1>3
  <2>2. /\ t \in Seq(CallSet)
        /\ 1 \in DOMAIN t /\ 2 \in DOMAIN t /\ 3 \in DOMAIN t /\ t[1] = a /\ t[2] = b /\ t[3] = h
    BY <1>6, <2>1, Pushed3
  <2>3. \A p \in DOMAIN t :
          /\ p \in Nat
          /\ p = 1 \/ p = 2 \/ p = 3 \/ (p > 3 /\ p - 2 \in DOMAIN cs /\ t[p] = cs[p - 2])
    BY <1>6, <2>1, Pushed3
  <2>4. \A p \in DOMAIN cs : p \in Nat /\ (p # 1 => p > 1 /\ p + 2 \in DOMAIN t /\ t[p + 2] = cs[p])
    BY <1>6, <2>1, Pushed3
  <2> QED
    BY <2>2, <2>3, <2>4
<1>8. ASSUME NEW p \in DOMAIN cs, p # 1
      PROVE  /\ LeftOf(a, cs[p]) \/ Inside(a, cs[p])
             /\ LeftOf(b, cs[p]) \/ Inside(b, cs[p])
             /\ LeftOf(h, cs[p]) \/ Inside(h, cs[p])
  <2>1. LeftOf(c, cs[p]) \/ Inside(c, cs[p])
    BY <1>1, <1>2, <1>7, <1>8 DEF Nested
  <2>2. PICK e : e = cs[p]
    OBVIOUS
  <2>3. e.begin \in Int /\ e.end \in Int /\ Mid(e) \in Int
    BY <2>2, CallTypes, MidInside
  <2>4. LeftOf(c, e) => LeftOf(a, e) /\ LeftOf(b, e) /\ LeftOf(h, e)
    BY <1>3, <1>4, <1>5, <2>3 DEF LeftOf
  <2>5. ASSUME Inside(c, e)
        PROVE  Inside(a, e) /\ Inside(b, e) /\ Inside(h, e)
    <3>1. /\ e.sorted /\ e.begin <= c.begin /\ c.end <= e.end
          /\ c.end <= Mid(e) \/ Mid(e) < c.begin
      BY <2>5 DEF Inside
    <3>2. Inside(a, e)
      BY <1>4, <1>5, <2>3, <3>1 DEF Inside
    <3>3. Inside(b, e)
      BY <1>4, <1>5, <2>3, <3>1 DEF Inside
    <3>4. Inside(h, e)
      BY <1>3, <3>1 DEF Inside
    <3> QED
      BY <3>2, <3>3, <3>4
  <2> QED
    BY <2>1, <2>2, <2>4, <2>5
<1>9. Nested(t)
  <2>1. ASSUME NEW p \in DOMAIN t, NEW q \in DOMAIN t, p < q
        PROVE  LeftOf(t[p], t[q]) \/ Inside(t[p], t[q])
    <3>1. CASE q <= 3
      BY <1>3, <1>7, <2>1, <3>1
    <3>2. CASE q > 3 /\ p <= 3
      BY <1>7, <1>8, <3>2
    <3>3. CASE p > 3
      <4>1. p \in Nat /\ q \in Nat /\ p > 3 /\ q > 3 /\ p - 2 < q - 2
        BY <1>7, <2>1, <3>3
      <4>2. p - 2 \in DOMAIN cs /\ t[p] = cs[p - 2]
        BY <1>7, <4>1
      <4>3. q - 2 \in DOMAIN cs /\ t[q] = cs[q - 2]
        BY <1>7, <4>1
      <4> QED
        BY <4>1, <4>2, <4>3 DEF Nested
    <3> QED
      <4>1. p \in Nat /\ q \in Nat
        BY <1>7
      <4>2. q <= 3 \/ (q > 3 /\ p <= 3) \/ p > 3
        BY <4>1
      <4> QED
        BY <3>1, <3>2, <3>3, <4>2
  <2> QED
    BY <2>1 DEF Nested
<1>10. Wide(t)
  BY <1>2, <1>3, <1>7 DEF Wide
<1>11. ASSUME NEW k \in Places, NEW l \in Places, NEW q \in DOMAIN cs, Crosses(cs[q], k, l)
       PROVE  \E r \in DOMAIN t : Crosses(t[r], k, l)
  <2>1. q # 1
    BY <1>11 DEF Crosses
  <2> QED
    BY <1>7, <1>11, <2>1
<1>12. Orders(d, t)
  <2>1. ASSUME NEW k \in Places, NEW l \in Places, k < l, ~(d[k] <= d[l])
        PROVE  \E r \in DOMAIN t : Open(t[r], k, l)
    <3>1. PICK p \in DOMAIN cs : Open(cs[p], k, l)
      BY <2>1 DEF Orders
    <3>2. CASE p # 1
      BY <1>7, <3>1, <3>2
    <3>3. CASE p = 1
      <4>1. Holds(c, k) /\ Holds(c, l) /\ k \in Int /\ l \in Int
        BY <1>1, <3>1, <3>3 DEF Open, Crosses
      <4>2. (Holds(a, k) /\ Holds(a, l)) \/ (Holds(b, k) /\ Holds(b, l)) \/ Crosses(h, k, l)
        BY <1>3, <1>5, <2>1, <4>1 DEF Crosses
      <4>3. Open(a, k, l) \/ Open(b, k, l) \/ Open(h, k, l)
        BY <1>3, <4>2 DEF Open
      <4> QED
        BY <1>7, <4>3
    <3> QED
      BY <3>2, <3>3
  <2> QED
    BY <2>1 DEF Orders
<1>13. Merges(t)
  <2>1. ASSUME NEW p \in DOMAIN t, NEW k \in Places, NEW l \in Places, k < l,
               ~(Holds(t[p], k) <=> Holds(t[p], l))
        PROVE  \E r \in DOMAIN t : Crosses(t[r], k, l)
    <3>1. k \in Int /\ l \in Int
      OBVIOUS
    <3>2. CASE p > 3
      <4>1. PICK q \in DOMAIN cs : Crosses(cs[q], k, l)
        BY <1>7, <2>1, <3>2 DEF Merges
      <4> QED
        BY <1>11, <4>1
    <3>3. CASE p <= 3 /\ ~(Holds(c, k) <=> Holds(c, l))
      <4>1. PICK q \in DOMAIN cs : Crosses(cs[q], k, l)
        BY <1>1, <1>2, <2>1, <3>3 DEF Merges
      <4> QED
        BY <1>11, <4>1
    <3>4. CASE p <= 3 /\ Holds(c, k) /\ Holds(c, l)
      <4>1. t[p] = a \/ t[p] = b
        BY <1>3, <1>7, <2>1, <3>1, <3>4
      <4>2. k <= Mid(c) /\ Mid(c) < l
        BY <1>3, <1>5, <2>1, <3>1, <3>4, <4>1
      <4>3. Crosses(h, k, l)
        BY <1>3, <3>1, <3>4, <4>2 DEF Crosses
      <4> QED
        BY <1>7, <4>3
    <3>5. CASE p <= 3 /\ ~Holds(c, k) /\ ~Holds(c, l)
      <4>1. t[p] = a \/ t[p] = b \/ t[p] = h
        BY <1>7, <3>5
      <4> QED
        BY <1>3, <2>1, <3>1, <3>5, <4>1
    <3>6. p > 3 \/ p <= 3
      BY <1>7
    <3> QED
      BY <3>2, <3>3, <3>4, <3>5, <3>6
  <2> QED
    BY <2>1 DEF Merges
<1> QED
  BY <1>7, <1>9, <1>10, <1>12, <1>13

LEMMA MergeCallStep ==
    ASSUME IInv, MergeCall
    PROVE  IInv'
<1> USE DEF IInv
<1>1. size \in Nat /\ Places = 0 .. size - 1
  BY PlacesAre
<1>2. /\ pc = "merge" /\ pc' = "merge" /\ calls # << >> /\ calls \in Seq(CallSet)
      /\ UNCHANGED <<input, datas, i, j, low, high, key, dataTemp, begin1, begin2, index>>
  BY DEF MergeCall, Types, CallSet, loops, partition, merging
<1>3. Places' = Places /\ size' = size
  BY <1>2, SizeKept DEF Types
<1>4. Nested(calls) /\ Merges(calls) /\ Wide(calls) /\ Orders(datas, calls)
  BY <1>2 DEF MergeInv
<1>5. Head(calls) = calls[1] /\ 1 \in DOMAIN calls
  BY <1>2, Popped
<1>6. ~calls[1].sorted
  BY <1>5 DEF MergeCall
<1>7. calls[1].begin \in Int /\ calls[1].end \in Int
  BY <1>1, <1>2, <1>5, CallTypes
<1>8. calls' \in Seq(CallSet) /\ Nested(calls') /\ Merges(calls') /\ Wide(calls') /\ Orders(datas, calls')
  <2>1. CASE calls[1].begin >= calls[1].end
    <3>1. calls' = Tail(calls)
      BY <1>5, <2>1 DEF MergeCall
    <3> QED
      BY <1>1, <1>2, <1>4, <1>6, <2>1, <3>1, MergePops
  <2>2. CASE calls[1].begin < calls[1].end
    <3>1. calls' = <<Call(calls[1].begin, Mid(calls[1])), Call(Mid(calls[1]) + 1, calls[1].end),
                     Halves(calls[1].begin, calls[1].end)>> \o Tail(calls)
      BY <1>5, <1>7, <2>2 DEF MergeCall
    <3> QED
      BY <1>1, <1>2, <1>4, <1>6, <2>2, <3>1, MergeSplits
  <2> QED
    BY <1>7, <2>1, <2>2
<1>9. Types'
  BY <1>2, <1>3, <1>8 DEF Types, CallSet
<1>10. MergeInv'
  <2>1. Nested(calls)' /\ Merges(calls)' /\ Wide(calls)' /\ Orders(datas, calls)'
    BY <1>2, <1>3, <1>8 DEF Orders, Merges
  <2> QED
    BY <2>1 DEF MergeInv
<1>11. DoneInv'
  BY <1>2, <1>3 DEF DoneInv, Permutes
<1>12. BubbleInv' /\ SelectInv' /\ InsertInv' /\ QuickInv' /\ MergingInv'
  BY <1>2 DEF BubbleInv, SelectInv, InsertInv, QuickInv, MergingInv
<1> QED
  BY <1>9, <1>10, <1>11, <1>12

\* Each half of a call that is about to merge them is in order.
LEMMA HalvesOrdered ==
    ASSUME size \in Nat, Places = 0 .. size - 1, NEW cs \in Seq(CallSet), cs # << >>, cs[1].sorted,
           NEW d, Nested(cs), Orders(d, cs),
           NEW k \in Places, NEW l \in Places, k < l, Holds(cs[1], k), Holds(cs[1], l),
           ~(k <= Mid(cs[1]) /\ Mid(cs[1]) < l)
    PROVE  d[k] <= d[l]
<1>1. 1 \in DOMAIN cs /\ \A q \in DOMAIN cs : q \in Nat /\ q >= 1
  BY Popped
<1>2. ASSUME NEW q \in DOMAIN cs, Open(cs[q], k, l)
      PROVE  FALSE
  <2>1. q # 1
    BY <1>2 DEF Open, Crosses
  <2>2. LeftOf(cs[1], cs[q]) \/ Inside(cs[1], cs[q])
    BY <1>1, <2>1 DEF Nested
  <2>3. PICK e, c : e = cs[q] /\ c = cs[1]
    OBVIOUS
  <2>4. e.begin \in Int /\ e.end \in Int /\ Mid(e) \in Int
    BY <2>3, CallTypes, MidInside
  <2>5. c.begin \in Int /\ c.end \in Int
    BY <1>1, <2>3, CallTypes
  <2>6. Holds(c, k) /\ Holds(c, l) /\ Holds(e, k) /\ Holds(e, l) /\ k \in Int /\ l \in Int
    BY <1>2, <2>3 DEF Open, Crosses
  <2>7. CASE LeftOf(c, e)
    BY <2>4, <2>5, <2>6, <2>7 DEF LeftOf, Holds
  <2>8. CASE Inside(c, e)
    <3>1. k <= Mid(e) /\ Mid(e) < l
      BY <1>2, <2>3, <2>8 DEF Inside, Open, Crosses
    <3> QED
      BY <2>4, <2>5, <2>6, <2>8, <3>1 DEF Inside, Holds
  <2> QED
    BY <2>2, <2>3, <2>7, <2>8
<1> QED
  BY <1>2 DEF Orders

LEMMA MergeBeginStep ==
    ASSUME IInv, MergeBegin
    PROVE  IInv'
<1> USE DEF IInv
<1>1. size \in Nat /\ Places = 0 .. size - 1 /\ DOMAIN datas = Places
  BY PlacesAre
<1>2. /\ pc = "merge" /\ pc' = "merging" /\ calls # << >> /\ calls \in Seq(CallSet)
      /\ UNCHANGED <<input, datas, i, j, calls, low, high, key, dataTemp>>
  BY DEF MergeBegin, Types, CallSet, loops, partition
<1>3. Places' = Places /\ size' = size
  BY <1>2, SizeKept DEF Types
<1>4. Nested(calls) /\ Merges(calls) /\ Wide(calls) /\ Orders(datas, calls) /\ Permutes(datas)
  BY <1>2 DEF MergeInv, DoneInv
<1>5. PICK c : c = Head(calls)
  OBVIOUS
<1>6. c = calls[1] /\ 1 \in DOMAIN calls /\ c \in CallSet
  BY <1>2, <1>5, Popped
<1>7. c.sorted /\ begin1' = c.begin /\ begin2' = Mid(c) + 1 /\ index' = c.begin
  BY <1>5 DEF MergeBegin
<1>8. c.begin \in 0 .. size /\ c.end \in -1 .. size - 1 /\ c.begin < c.end
  BY <1>4, <1>6, <1>7 DEF Wide, CallSet
<1>9. Mid(c) \in Int /\ c.begin <= Mid(c) /\ Mid(c) < c.end
  BY <1>8, MidInside
<1>10. Types'
  <2>1. begin1' \in 0 .. size /\ begin2' \in 0 .. size /\ index' \in 0 .. size
    BY <1>1, <1>7, <1>8, <1>9
  <2> QED
    BY <1>2, <1>3, <2>1 DEF Types, Loops
<1>11. MergeInv'
  <2>1. Nested(calls)' /\ Merges(calls)' /\ Wide(calls)' /\ Orders(datas, calls)'
    BY <1>2, <1>3, <1>4 DEF Orders, Merges
  <2> QED
    BY <2>1 DEF MergeInv
<1>12. MergingInv'
  <2>1. Merged' = datas
    <3>1. Merged' = [k \in Places |->
                       IF k \in c.begin .. index' - 1 THEN dataTemp[k]
                       ELSE IF k \in index' .. begin2' - 1 THEN datas[begin1' + k - index']
                       ELSE datas[k]]
      BY <1>2, <1>3, <1>5 DEF Merged
    <3>2. ASSUME NEW k \in Places
          PROVE  k \notin c.begin .. index' - 1 /\ begin1' + k - index' = k
      BY <1>1, <1>7, <1>8
    <3> QED
      BY <1>1, <3>1, <3>2 DEF Types
  <2>2. Permutes(Merged)'
    BY <1>2, <1>3, <1>4, <2>1 DEF Permutes
  <2>3. \A k \in c.begin .. index' - 1 : FALSE
    BY <1>7, <1>8
  <2>4. /\ begin1' \in c.begin .. Mid(c) + 1 /\ begin2' \in Mid(c) + 1 .. c.end + 1
        /\ index' = begin1' + begin2' - Mid(c) - 1
    BY <1>7, <1>8, <1>9
  <2>5. Head(calls)' = c /\ Mid(Head(calls))' = Mid(c) /\ calls' # << >>
    BY <1>2, <1>5 DEF Mid
  <2> QED
    BY <1>7, <2>2, <2>3, <2>4, <2>5 DEF MergingInv
<1>13. DoneInv'
  BY <1>2, <1>3 DEF DoneInv, Permutes
<1>14. BubbleInv' /\ SelectInv' /\ InsertInv' /\ QuickInv'
  BY <1>2 DEF BubbleInv, SelectInv, InsertInv, QuickInv
<1> QED
  BY <1>10, <1>11, <1>12, <1>13, <1>14

\* What the merge knows of the call it runs.
LEMMA MergeKnows ==
    ASSUME IInv, pc = "merging"
    PROVE  \E c \in CallSet :
             /\ c = Head(calls) /\ c = calls[1] /\ calls # << >> /\ c.sorted
             /\ c.begin \in Nat /\ c.end \in Int /\ c.end < size /\ Mid(c) \in Int
             /\ c.begin <= Mid(c) /\ Mid(c) < c.end
             /\ begin1 \in c.begin .. Mid(c) + 1 /\ begin2 \in Mid(c) + 1 .. c.end + 1
             /\ index = begin1 + begin2 - Mid(c) - 1
             /\ index \in Int /\ c.begin <= index /\ index <= begin2
             /\ \A k, l \in c.begin .. index - 1 : k < l => dataTemp[k] <= dataTemp[l]
             /\ \A k \in c.begin .. index - 1 : \A l \in begin1 .. Mid(c) \cup begin2 .. c.end :
                   dataTemp[k] <= datas[l]
             /\ \A k, l \in Places :
                   k < l /\ Holds(c, k) /\ Holds(c, l) /\ ~(k <= Mid(c) /\ Mid(c) < l)
                   => datas[k] <= datas[l]
<1> USE DEF IInv
<1>1. size \in Nat /\ Places = 0 .. size - 1
  BY PlacesAre
<1>2. calls \in Seq(CallSet)
  BY DEF Types, CallSet
<1>3. Nested(calls) /\ Wide(calls) /\ Orders(datas, calls)
  BY DEF MergeInv
<1>4. PICK c : c = Head(calls)
  OBVIOUS
<1>5. /\ calls # << >> /\ c.sorted
      /\ begin1 \in c.begin .. Mid(c) + 1 /\ begin2 \in Mid(c) + 1 .. c.end + 1
      /\ index = begin1 + begin2 - Mid(c) - 1
      /\ \A k, l \in c.begin .. index - 1 : k < l => dataTemp[k] <= dataTemp[l]
      /\ \A k \in c.begin .. index - 1 : \A l \in begin1 .. Mid(c) \cup begin2 .. c.end :
            dataTemp[k] <= datas[l]
  BY <1>4 DEF MergingInv
<1>6. c = calls[1] /\ 1 \in DOMAIN calls /\ c \in CallSet
  BY <1>2, <1>4, <1>5, Popped
<1>7. c.begin \in 0 .. size /\ c.end \in -1 .. size - 1 /\ c.begin < c.end
  BY <1>3, <1>5, <1>6 DEF Wide, CallSet
<1>8. Mid(c) \in Int /\ c.begin <= Mid(c) /\ Mid(c) < c.end
  BY <1>7, MidInside
<1>9. index \in Int /\ c.begin <= index /\ index <= begin2
  BY <1>5, <1>7, <1>8
<1>10. ASSUME NEW k \in Places, NEW l \in Places, k < l, Holds(c, k), Holds(c, l),
              ~(k <= Mid(c) /\ Mid(c) < l)
       PROVE  datas[k] <= datas[l]
  BY <1>1, <1>2, <1>3, <1>5, <1>6, <1>10, HalvesOrdered
<1>11. c.begin \in Nat /\ c.end \in Int /\ c.end < size
  BY <1>1, <1>7
<1> QED
  BY <1>4, <1>5, <1>6, <1>8, <1>9, <1>10, <1>11

LEMMA MergeTakeStep ==
    ASSUME IInv, MergeTake
    PROVE  IInv'
<1> USE DEF IInv
<1>1. /\ size \in Nat /\ Places = 0 .. size - 1 /\ DOMAIN datas = Places
      /\ \A k \in Places : datas[k] \in Int /\ dataTemp[k] \in Int
  BY PlacesAre
<1>2. /\ pc = "merging" /\ pc' = "merging" /\ index' = index + 1
      /\ UNCHANGED <<input, datas, i, j, calls, low, high, key>>
  BY DEF MergeTake, loops, partition
<1>3. Places' = Places /\ size' = size
  BY <1>2, SizeKept DEF Types
<1>4. Nested(calls) /\ Merges(calls) /\ Wide(calls) /\ Orders(datas, calls)
  BY <1>2 DEF MergeInv
<1>5. PICK c \in CallSet :
        /\ c = Head(calls) /\ calls # << >> /\ c.sorted
        /\ c.begin \in Nat /\ c.end \in Int /\ c.end < size /\ Mid(c) \in Int
        /\ c.begin <= Mid(c) /\ Mid(c) < c.end
        /\ begin1 \in c.begin .. Mid(c) + 1 /\ begin2 \in Mid(c) + 1 .. c.end + 1
        /\ index = begin1 + begin2 - Mid(c) - 1
        /\ index \in Int /\ c.begin <= index /\ index <= begin2
        /\ \A k, l \in c.begin .. index - 1 : k < l => dataTemp[k] <= dataTemp[l]
        /\ \A k \in c.begin .. index - 1 : \A l \in begin1 .. Mid(c) \cup begin2 .. c.end :
              dataTemp[k] <= datas[l]
        /\ \A k, l \in Places :
              k < l /\ Holds(c, k) /\ Holds(c, l) /\ ~(k <= Mid(c) /\ Mid(c) < l)
              => datas[k] <= datas[l]
  BY <1>2, MergeKnows
<1>6. PICK m : m = Mid(c)
  OBVIOUS
<1>7. /\ m \in Int /\ c.begin \in Int /\ c.end \in Int /\ begin1 \in Int /\ begin2 \in Int
      /\ 0 <= c.begin /\ c.begin <= m /\ m < c.end /\ c.end < size
      /\ c.begin <= begin1 /\ begin1 <= m + 1 /\ m + 1 <= begin2 /\ begin2 <= c.end + 1
      /\ index = begin1 + begin2 - m - 1 /\ index \in Int /\ c.begin <= index /\ index <= begin2
  BY <1>5, <1>6
<1>8. /\ \A k \in Places : k \in Int /\ 0 <= k /\ k < size
      /\ \A k \in Int : 0 <= k /\ k < size => k \in Places
  BY <1>1
<1>9. PICK from :
        /\ from \in begin1 .. m \cup begin2 .. c.end
        /\ dataTemp' = [dataTemp EXCEPT ![index] = datas[from]]
        /\ \/ from = begin1 /\ begin1' = begin1 + 1 /\ begin2' = begin2 /\ begin1 <= m
           \/ from = begin2 /\ begin2' = begin2 + 1 /\ begin1' = begin1 /\ begin2 <= c.end
        /\ \A l \in begin1 .. m \cup begin2 .. c.end : datas[from] <= datas[l]
  <2>1. \A k \in begin1 .. m \cup begin2 .. c.end : k \in Places /\ Holds(c, k)
    <3>1. ASSUME NEW k \in begin1 .. m \cup begin2 .. c.end
          PROVE  k \in Int /\ c.begin <= k /\ k <= c.end
      <4>1. CASE k \in begin1 .. m
        BY <1>7, <4>1
      <4>2. CASE k \in begin2 .. c.end
        BY <1>7, <4>2
      <4> QED
        BY <3>1, <4>1, <4>2
    <3>2. ASSUME NEW k \in Int, c.begin <= k, k <= c.end
          PROVE  k \in Places
      BY <1>1, <1>7, <1>8, <3>2
    <3> QED
      BY <3>1, <3>2 DEF Holds
  <2>2. begin1 <= m => \A l \in begin1 .. m : datas[begin1] <= datas[l]
    <3>1. ASSUME begin1 <= m, NEW l \in begin1 .. m
          PROVE  datas[begin1] <= datas[l]
      <4>1. begin1 \in begin1 .. m /\ l \in Int
        BY <1>7, <3>1
      <4>2. begin1 \in Places /\ l \in Places /\ Holds(c, begin1) /\ Holds(c, l)
        BY <2>1, <3>1, <4>1
      <4>3. CASE l = begin1
        BY <1>1, <4>2, <4>3
      <4>4. CASE begin1 < l
        <5>1. ~(m < l)
          BY <1>7, <3>1
        <5> QED
          BY <1>5, <1>6, <4>2, <4>4, <5>1
      <4> QED
        BY <1>7, <3>1, <4>3, <4>4
    <3> QED
      BY <3>1
  <2>3. begin2 <= c.end => \A l \in begin2 .. c.end : datas[begin2] <= datas[l]
    <3>1. ASSUME begin2 <= c.end, NEW l \in begin2 .. c.end
          PROVE  datas[begin2] <= datas[l]
      <4>1. begin2 \in begin2 .. c.end /\ l \in Int
        BY <1>7, <3>1
      <4>2. begin2 \in Places /\ l \in Places /\ Holds(c, begin2) /\ Holds(c, l)
        BY <2>1, <3>1, <4>1
      <4>3. CASE l = begin2
        BY <1>1, <4>2, <4>3
      <4>4. CASE begin2 < l
        <5>1. ~(begin2 <= m)
          BY <1>7
        <5> QED
          BY <1>5, <1>6, <4>2, <4>4, <5>1
      <4> QED
        BY <1>7, <3>1, <4>3, <4>4
    <3> QED
      BY <3>1
  <2>4. begin1 <= m \/ begin2 <= c.end
    BY <1>5, <1>6 DEF MergeTake
  <2>5. CASE TakesFirst(c)
    <3>1. /\ begin1 <= m /\ (begin2 <= c.end => datas[begin1] < datas[begin2])
          /\ dataTemp' = [dataTemp EXCEPT ![index] = datas[begin1]]
          /\ begin1' = begin1 + 1 /\ begin2' = begin2
      BY <1>5, <1>6, <2>5 DEF MergeTake, TakesFirst
    <3>2. \A l \in begin2 .. c.end : datas[begin1] <= datas[l]
      <4>1. ASSUME NEW l \in begin2 .. c.end
            PROVE  datas[begin1] <= datas[l]
        <5>1. begin2 <= c.end /\ begin2 \in begin2 .. c.end /\ begin1 \in begin1 .. m
          BY <1>7, <3>1, <4>1
        <5>2. datas[begin1] \in Int /\ datas[begin2] \in Int /\ datas[l] \in Int
          BY <1>1, <2>1, <4>1, <5>1
        <5> QED
          BY <2>3, <3>1, <4>1, <5>1, <5>2
      <4> QED
        BY <4>1
    <3>3. begin1 \in begin1 .. m
      BY <1>7, <3>1
    <3> QED
      BY <2>2, <3>1, <3>2, <3>3
  <2>6. CASE ~TakesFirst(c)
    <3>1. /\ ~(begin1 <= m /\ (begin2 <= c.end => datas[begin1] < datas[begin2]))
          /\ dataTemp' = [dataTemp EXCEPT ![index] = datas[begin2]]
          /\ begin2' = begin2 + 1 /\ begin1' = begin1
      BY <1>5, <1>6, <2>6 DEF MergeTake, TakesFirst
    <3>2. begin2 <= c.end /\ (begin1 <= m => ~(datas[begin1] < datas[begin2]))
      BY <2>4, <3>1
    <3>3. \A l \in begin1 .. m : datas[begin2] <= datas[l]
      <4>1. ASSUME NEW l \in begin1 .. m
            PROVE  datas[begin2] <= datas[l]
        <5>1. begin1 <= m /\ begin1 \in begin1 .. m /\ begin2 \in begin2 .. c.end
          BY <1>7, <3>2, <4>1
        <5>2. datas[begin1] \in Int /\ datas[begin2] \in Int /\ datas[l] \in Int
          BY <1>1, <2>1, <4>1, <5>1
        <5> QED
          BY <2>2, <3>2, <4>1, <5>1, <5>2
      <4> QED
        BY <4>1
    <3>4. begin2 \in begin2 .. c.end
      BY <1>7, <3>2
    <3> QED
      BY <2>3, <3>1, <3>2, <3>3, <3>4
  <2> QED
    BY <2>5, <2>6
<1>10. /\ from \in Int /\ from \in Places /\ index \in Places /\ index <= c.end /\ Holds(c, from)
      /\ begin1' \in c.begin .. m + 1 /\ begin2' \in m + 1 .. c.end + 1
      /\ index' = begin1' + begin2' - m - 1
      /\ begin1' \in Int /\ begin2' \in Int
  <2>1. CASE from = begin1 /\ begin1' = begin1 + 1 /\ begin2' = begin2 /\ begin1 <= m
    <3>1. 0 <= index /\ index <= c.end /\ index < size /\ 0 <= begin1 /\ begin1 < size
      BY <1>1, <1>7, <2>1, SMTT(60)
    <3>2. /\ begin1' \in c.begin .. m + 1 /\ begin2' \in m + 1 .. c.end + 1
          /\ index' = begin1' + begin2' - m - 1
      BY <1>2, <1>7, <2>1
    <3>3. c.begin <= from /\ from <= c.end
      BY <1>7, <2>1
    <3>4. from \in Int /\ index \in Int /\ begin1 \in Int
      BY <1>7, <2>1
    <3>5. begin1 \in Places /\ index \in Places
      BY <1>1, <3>1, <3>4
    <3>6. begin1' \in Int /\ begin2' \in Int
      BY <1>7, <2>1
    <3> QED
      BY <2>1, <3>1, <3>2, <3>3, <3>4, <3>5, <3>6 DEF Holds
  <2>2. CASE from = begin2 /\ begin2' = begin2 + 1 /\ begin1' = begin1 /\ begin2 <= c.end
    <3>1. 0 <= index /\ index <= c.end /\ index < size /\ 0 <= begin2 /\ begin2 < size
      BY <1>1, <1>7, <2>2, SMTT(60)
    <3>2. /\ begin1' \in c.begin .. m + 1 /\ begin2' \in m + 1 .. c.end + 1
          /\ index' = begin1' + begin2' - m - 1
      BY <1>2, <1>7, <2>2
    <3>3. c.begin <= from /\ from <= c.end
      BY <1>7, <2>2
    <3>4. from \in Int /\ index \in Int /\ begin2 \in Int
      BY <1>7, <2>2
    <3>5. begin2 \in Places /\ index \in Places
      BY <1>1, <3>1, <3>4
    <3>6. begin1' \in Int /\ begin2' \in Int
      BY <1>7, <2>2
    <3> QED
      BY <2>2, <3>1, <3>2, <3>3, <3>4, <3>5, <3>6 DEF Holds
  <2> QED
    BY <1>9, <2>1, <2>2
<1>11. PICK b1, b2, x : b1 = begin1' /\ b2 = begin2' /\ x = index'
  OBVIOUS
<1>12. /\ b1 \in Int /\ b2 \in Int /\ x \in Int /\ x = index + 1 /\ x = b1 + b2 - m - 1
       /\ c.begin <= b1 /\ b1 <= m + 1 /\ m + 1 <= b2 /\ b2 <= c.end + 1 /\ x <= b2
  <2>1. x = index + 1 /\ x = b1 + b2 - m - 1 /\ b1 \in Int /\ b2 \in Int
    BY <1>2, <1>10, <1>11
  <2>2. b1 \in c.begin .. m + 1 /\ b2 \in m + 1 .. c.end + 1
    BY <1>10, <1>11
  <2>3. c.begin <= b1 /\ b1 <= m + 1 /\ m + 1 <= b2 /\ b2 <= c.end + 1
    BY <1>7, <2>1, <2>2
  <2> QED
    BY <1>7, <2>1, <2>3
<1>13. /\ \A k \in Places : k # index => dataTemp'[k] = dataTemp[k]
       /\ dataTemp'[index] = datas[from] /\ dataTemp' \in [Places -> Int]
  BY <1>1, <1>9, <1>10 DEF Types
<1>14. ASSUME NEW k \in c.begin .. index, NEW l \in begin1' .. m \cup begin2' .. c.end
       PROVE  dataTemp'[k] <= datas[l]
  <2>1. l \in begin1 .. m \cup begin2 .. c.end
    BY <1>7, <1>9
  <2>2. CASE k = index
    BY <1>9, <1>13, <2>1, <2>2
  <2>3. CASE k # index
    <3>1. k \in c.begin .. index - 1 /\ k \in Places
      BY <1>1, <1>7, <1>10, <2>3, SMTT(60)
    <3> QED
      BY <1>5, <1>6, <1>13, <2>1, <2>3, <3>1
  <2> QED
    BY <2>2, <2>3
<1>15. ASSUME NEW k \in c.begin .. index, NEW l \in c.begin .. index, k < l
       PROVE  dataTemp'[k] <= dataTemp'[l]
  <2>1. k \in Int /\ l \in Int /\ c.begin <= k /\ k <= index - 1 /\ l <= index /\ k # index /\ k < l
    BY <1>7, <1>15
  <2>2. k \in c.begin .. index - 1 /\ k \in Places /\ l \in Places /\ k # index
    <3>1. size \in Int /\ index <= c.end
      BY <1>1, <1>10
    <3>2. 0 <= k /\ k < size /\ 0 <= l /\ l < size
      BY <1>7, <2>1, <3>1
    <3>3. k \in Places /\ l \in Places
      BY <1>1, <2>1, <3>2
    <3>4. k \in c.begin .. index - 1
      BY <1>7, <2>1
    <3> QED
      BY <2>1, <3>3, <3>4
  <2>3. CASE l = index
    <3>1. dataTemp[k] <= datas[from]
      BY <1>5, <1>6, <1>9, <2>2
    <3> QED
      BY <1>13, <2>2, <2>3, <3>1
  <2>4. CASE l # index
    <3>1. l \in c.begin .. index - 1
      BY <1>7, <2>4
    <3> QED
      BY <1>5, <1>13, <1>15, <2>2, <2>4, <3>1
  <2> QED
    BY <2>3, <2>4
<1>16. Permutes(Merged')
  <2>1. Merged = [k \in Places |-> IF k \in c.begin .. index - 1 THEN dataTemp[k]
                                   ELSE IF k \in index .. begin2 - 1 THEN datas[begin1 + k - index]
                                   ELSE datas[k]]
    BY <1>5 DEF Merged
  <2>2. Merged' = [k \in Places |-> IF k \in c.begin .. x - 1 THEN dataTemp'[k]
                                    ELSE IF k \in x .. b2 - 1
                                         THEN datas[b1 + k - x] ELSE datas[k]]
    BY <1>2, <1>3, <1>5, <1>11 DEF Merged
  <2>3. Merged \in [Places -> Int] /\ Permutes(Merged)
    <3>1. Permutes(Merged)
      BY <1>2 DEF MergingInv
    <3>2. ASSUME NEW k \in Places, k \in index .. begin2 - 1
          PROVE  begin1 + k - index \in Places
      BY <1>1, <1>7, <3>2
    <3> QED
      BY <1>1, <2>1, <3>1, <3>2
  <2>4. CASE from = begin1 /\ b1 = begin1 + 1 /\ b2 = begin2 /\ begin1 <= m
    <3>1. ASSUME NEW k \in Places
          PROVE  Merged'[k] = Merged[k]
      <4>1. CASE k < index
        <5>1. k \notin index .. begin2 - 1 /\ k \notin x .. b2 - 1
          BY <1>7, <1>8, <1>12, <4>1
        <5>2. k \in c.begin .. x - 1 <=> k \in c.begin .. index - 1
          BY <1>7, <1>8, <1>12, <4>1
        <5>3. dataTemp'[k] = dataTemp[k]
          BY <1>7, <1>13, <1>8, <4>1
        <5> QED
          BY <2>1, <2>2, <5>1, <5>2, <5>3
      <4>2. CASE k = index
        <5>1. k \in c.begin .. x - 1 /\ k \in index .. begin2 - 1 /\ k \notin c.begin .. index - 1
          BY <1>7, <1>12, <2>4, <4>2
        <5>2. begin1 + k - index = begin1
          BY <1>7, <4>2
        <5> QED
          BY <1>13, <2>1, <2>2, <2>4, <4>2, <5>1, <5>2
      <4>3. CASE k > index
        <5>1. k \notin c.begin .. x - 1 /\ k \notin c.begin .. index - 1
          BY <1>7, <1>8, <1>12, <4>3
        <5>2. k \in x .. b2 - 1 <=> k \in index .. begin2 - 1
          BY <1>7, <1>8, <1>12, <2>4, <4>3
        <5>3. b1 + k - x = begin1 + k - index
          BY <1>7, <1>8, <1>12, <2>4
        <5> QED
          BY <2>1, <2>2, <5>1, <5>2, <5>3
      <4> QED
        BY <1>7, <1>8, <4>1, <4>2, <4>3
    <3>2. Merged' = Merged
      BY <2>1, <2>2, <3>1
    <3> QED
      BY <2>3, <3>2
  <2>5. CASE from = begin2 /\ b2 = begin2 + 1 /\ b1 = begin1 /\ begin2 <= c.end
    <3>1. ASSUME NEW k \in Places
          PROVE  Merged'[k] = Rotated(Merged, index, begin2)[k]
      <4>1. CASE k < index
        <5>1. Rotated(Merged, index, begin2)[k] = Merged[k]
          BY <1>1, <1>7, <4>1 DEF Rotated
        <5> QED
          <6>1. k \notin index .. begin2 - 1 /\ k \notin x .. b2 - 1
            BY <1>7, <1>8, <1>12, <4>1
          <6>2. k \in c.begin .. x - 1 <=> k \in c.begin .. index - 1
            BY <1>7, <1>8, <1>12, <4>1
          <6>3. dataTemp'[k] = dataTemp[k]
            BY <1>7, <1>13, <1>8, <4>1
          <6> QED
            BY <2>1, <2>2, <5>1, <6>1, <6>2, <6>3
      <4>2. CASE k = index
        <5>1. Rotated(Merged, index, begin2)[k] = Merged[begin2]
          BY <4>2 DEF Rotated
        <5>2. k \in c.begin .. x - 1
          BY <1>7, <1>12, <4>2
        <5>3. begin2 \in Places /\ begin2 \notin c.begin .. index - 1 /\ begin2 \notin index .. begin2 - 1
          BY <1>7, <1>10, <2>5
        <5> QED
          BY <1>13, <2>1, <2>2, <2>5, <4>2, <5>1, <5>2, <5>3
      <4>3. CASE k > index /\ k <= begin2
        <5>1. Rotated(Merged, index, begin2)[k] = Merged[k - 1]
          BY <1>1, <1>7, <4>3 DEF Rotated
        <5>2. k - 1 \in Places /\ k - 1 \notin c.begin .. index - 1 /\ k - 1 \in index .. begin2 - 1
          BY <1>1, <1>7, <1>10, <4>3
        <5>3. k \notin c.begin .. x - 1 /\ k \in x .. b2 - 1
          BY <1>7, <1>8, <1>12, <2>5, <4>3
        <5>4. b1 + k - x = begin1 + (k - 1) - index
          BY <1>7, <1>8, <1>12, <2>5
        <5> QED
          BY <2>1, <2>2, <5>1, <5>2, <5>3, <5>4
      <4>4. CASE k > begin2
        <5>1. Rotated(Merged, index, begin2)[k] = Merged[k]
          BY <1>1, <1>7, <4>4 DEF Rotated
        <5>2. /\ k \notin c.begin .. x - 1 /\ k \notin x .. b2 - 1
              /\ k \notin c.begin .. index - 1 /\ k \notin index .. begin2 - 1
          BY <1>7, <1>8, <1>12, <2>5, <4>4
        <5> QED
          BY <2>1, <2>2, <5>1, <5>2
      <4> QED
        BY <1>1, <1>7, <4>1, <4>2, <4>3, <4>4
    <3>2. Merged' = Rotated(Merged, index, begin2)
      BY <2>2, <3>1 DEF Rotated
    <3> QED
      BY <1>1, <1>7, <1>10, <2>3, <2>5, <3>2, PermutesRotated
  <2> QED
    BY <1>9, <1>11, <2>4, <2>5
<1>17. Types'
  <2>1. begin1' \in 0 .. size /\ begin2' \in 0 .. size /\ index' \in 0 .. size
    <3>1. size \in Int
      BY <1>1
    <3>2. b1 \in 0 .. size /\ b2 \in 0 .. size /\ x \in 0 .. size
      BY <1>7, <1>12, <3>1
    <3> QED
      BY <1>11, <3>2
  <2> QED
    BY <1>2, <1>3, <1>13, <2>1 DEF Types, Loops
<1>18. MergeInv'
  <2>1. Nested(calls)' /\ Merges(calls)' /\ Wide(calls)' /\ Orders(datas, calls)'
    BY <1>2, <1>3, <1>4 DEF Orders, Merges
  <2> QED
    BY <2>1 DEF MergeInv
<1>19. MergingInv'
  <2>1. Head(calls)' = c /\ Mid(Head(calls))' = m /\ calls' # << >>
    BY <1>2, <1>5, <1>6 DEF Mid
  <2>2. Permutes(Merged)'
    BY <1>2, <1>3, <1>16 DEF Permutes
  <2>3. index' - 1 = index
    BY <1>2, <1>7
  <2> QED
    BY <1>2, <1>5, <1>10, <1>14, <1>15, <2>1, <2>2, <2>3 DEF MergingInv
<1>20. DoneInv'
  BY <1>2, <1>3 DEF DoneInv, Permutes
<1>21. BubbleInv' /\ SelectInv' /\ InsertInv' /\ QuickInv'
  BY <1>2 DEF BubbleInv, SelectInv, InsertInv, QuickInv
<1> QED
  BY <1>17, <1>18, <1>19, <1>20, <1>21

\* A call whose halves are merged has nothing left to order.
LEMMA HalvesMerged ==
    ASSUME size \in Nat, Places = 0 .. size - 1, NEW cs \in Seq(CallSet), cs # << >>, cs[1].sorted,
           NEW d, NEW e, Nested(cs), Merges(cs), Wide(cs), Orders(d, cs),
           \A k, l \in Places : k < l /\ Holds(cs[1], k) /\ Holds(cs[1], l) => e[k] <= e[l],
           \A k \in Places : ~Holds(cs[1], k) => e[k] = d[k]
    PROVE  LET t == Tail(cs) IN
           t \in Seq(CallSet) /\ Nested(t) /\ Merges(t) /\ Wide(t) /\ Orders(e, t)
<1> DEFINE t == Tail(cs)
<1>1. /\ t \in Seq(CallSet) /\ 1 \in DOMAIN cs
      /\ \A p \in DOMAIN t : p \in Nat /\ p >= 1 /\ p + 1 \in DOMAIN cs /\ t[p] = cs[p + 1]
      /\ \A p \in DOMAIN cs : p \in Nat /\ (p # 1 => p - 1 \in DOMAIN t /\ t[p - 1] = cs[p])
  BY Popped
<1> HIDE DEF t
<1>2. Nested(t) /\ Wide(t)
  BY <1>1 DEF Nested, Wide
<1>3. ASSUME NEW k \in Places, NEW l \in Places, k < l, ~(e[k] <= e[l])
      PROVE  \E q \in DOMAIN t : Open(t[q], k, l)
  <2>1. CASE ~(Holds(cs[1], k) <=> Holds(cs[1], l))
    <3>1. PICK q \in DOMAIN cs : Crosses(cs[q], k, l)
      BY <1>1, <1>3, <2>1 DEF Merges
    <3>2. q # 1
      BY <2>1, <3>1 DEF Crosses
    <3> QED
      BY <1>1, <3>1, <3>2 DEF Open
  <2>2. CASE ~Holds(cs[1], k) /\ ~Holds(cs[1], l)
    <3>1. ~(d[k] <= d[l])
      BY <1>3, <2>2
    <3>2. PICK q \in DOMAIN cs : Open(cs[q], k, l)
      BY <1>3, <3>1 DEF Orders
    <3>3. q # 1
      BY <2>2, <3>2 DEF Open, Crosses
    <3> QED
      BY <1>1, <3>2, <3>3
  <2> QED
    BY <1>3, <2>1, <2>2
<1>4. Orders(e, t)
  BY <1>3 DEF Orders
<1>5. ASSUME NEW p \in DOMAIN t, NEW k \in Places, NEW l \in Places, k < l,
             ~(Holds(t[p], k) <=> Holds(t[p], l))
      PROVE  \E q \in DOMAIN t : Crosses(t[q], k, l)
  <2>1. PICK q \in DOMAIN cs : Crosses(cs[q], k, l)
    BY <1>1, <1>5 DEF Merges
  <2>2. ASSUME q = 1
        PROVE  FALSE
    <3>1. PICK c, f : c = cs[1] /\ f = t[p]
      OBVIOUS
    <3>2. LeftOf(c, f) \/ Inside(c, f)
      <4>1. p + 1 \in DOMAIN cs /\ 1 < p + 1 /\ f = cs[p + 1]
        BY <1>1, <3>1
      <4> QED
        BY <1>1, <3>1, <4>1 DEF Nested
    <3>3. c.begin \in Int /\ c.end \in Int /\ f.begin \in Int /\ f.end \in Int
      <4>1. 1 \in DOMAIN cs /\ p + 1 \in DOMAIN cs /\ f = cs[p + 1]
        BY <1>1, <3>1
      <4>2. c.begin \in Int /\ c.end \in Int
        BY <3>1, <4>1, CallTypes
      <4>3. f.begin \in Int /\ f.end \in Int
        BY <4>1, CallTypes
      <4> QED
        BY <4>2, <4>3
    <3>4. Holds(c, k) /\ Holds(c, l) /\ k \in Int /\ l \in Int
      BY <2>1, <2>2, <3>1 DEF Crosses
    <3>5. CASE LeftOf(c, f)
      BY <1>5, <3>1, <3>3, <3>4, <3>5 DEF LeftOf, Holds
    <3>6. CASE Inside(c, f)
      BY <1>5, <3>1, <3>3, <3>4, <3>6 DEF Inside, Holds
    <3> QED
      BY <3>2, <3>5, <3>6
  <2> QED
    BY <1>1, <2>1, <2>2
<1>6. Merges(t)
  BY <1>5 DEF Merges
<1> QED
  BY <1>1, <1>2, <1>4, <1>6 DEF t

LEMMA MergeReturnStep ==
    ASSUME IInv, MergeReturn
    PROVE  IInv'
<1> USE DEF IInv
<1>1. /\ size \in Nat /\ Places = 0 .. size - 1 /\ DOMAIN datas = Places
      /\ \A k \in Places : datas[k] \in Int /\ dataTemp[k] \in Int
  BY PlacesAre
<1>2. /\ pc = "merging" /\ pc' = "merge" /\ calls \in Seq(CallSet) /\ calls' = Tail(calls)
      /\ UNCHANGED <<input, i, j, low, high, key, dataTemp, begin1, begin2, index>>
  BY DEF MergeReturn, Types, CallSet, loops, partition, merging
<1>3. Nested(calls) /\ Merges(calls) /\ Wide(calls) /\ Orders(datas, calls)
  BY <1>2 DEF MergeInv
<1>4. PICK c \in CallSet :
        /\ c = Head(calls) /\ c = calls[1] /\ calls # << >> /\ c.sorted
        /\ c.begin \in Nat /\ c.end \in Int /\ c.end < size /\ Mid(c) \in Int
        /\ c.begin <= Mid(c) /\ Mid(c) < c.end
        /\ begin1 \in c.begin .. Mid(c) + 1 /\ begin2 \in Mid(c) + 1 .. c.end + 1
        /\ index = begin1 + begin2 - Mid(c) - 1
        /\ \A k, l \in c.begin .. index - 1 : k < l => dataTemp[k] <= dataTemp[l]
  BY <1>2, MergeKnows
<1>5. index = c.end + 1 /\ begin2 = c.end + 1
  <2>1. begin1 > Mid(c) /\ begin2 > c.end
    BY <1>4 DEF MergeReturn
  <2>2. PICK m, lo, hi : m = Mid(c) /\ lo = c.begin /\ hi = c.end
    OBVIOUS
  <2>3. m \in Int /\ lo \in Int /\ hi \in Int /\ begin1 \in lo .. m + 1 /\ begin2 \in m + 1 .. hi + 1
    BY <1>4, <2>2
  <2>4. begin1 > m /\ begin2 > hi /\ index = begin1 + begin2 - m - 1
    BY <1>4, <2>1, <2>2
  <2>5. begin1 = m + 1 /\ begin2 = hi + 1
    BY <2>3, <2>4
  <2>6. index = hi + 1
    BY <2>3, <2>4, <2>5
  <2> QED
    BY <2>2, <2>5, <2>6
<1>6. datas' = [k \in Places |-> IF k \in c.begin .. c.end THEN dataTemp[k] ELSE datas[k]]
  BY <1>1, <1>4 DEF MergeReturn
<1>7. datas' \in [Places -> Int]
  BY <1>1, <1>6
<1>8. Places' = Places /\ size' = size
  BY <1>2, <1>7, SizeKept DEF Types
<1>9. \A k \in Places : k \in Int /\ (Holds(c, k) <=> k \in c.begin .. c.end)
  BY <1>1, <1>4 DEF Holds
<1>10. Permutes(datas')
  <2>1. Permutes(Merged)
    BY <1>2 DEF MergingInv
  <2>2. c.begin .. index - 1 = c.begin .. c.end /\ \A k \in Places : k \notin index .. begin2 - 1
    <3>1. index - 1 = c.end /\ index = begin2 /\ index \in Int
      BY <1>4, <1>5
    <3> QED
      BY <1>9, <3>1
  <2>3. datas' = Merged
    BY <1>4, <1>6, <2>2 DEF Merged
  <2> QED
    BY <2>1, <2>3
<1>11. calls' \in Seq(CallSet) /\ Nested(calls') /\ Merges(calls') /\ Wide(calls') /\ Orders(datas', calls')
  <2>1. ASSUME NEW k \in Places, NEW l \in Places, k < l, Holds(c, k), Holds(c, l)
        PROVE  datas'[k] <= datas'[l]
    <3>1. k \in c.begin .. index - 1 /\ l \in c.begin .. index - 1
      <4>1. index - 1 = c.end
        BY <1>4, <1>5
      <4> QED
        BY <1>9, <2>1, <4>1
    <3>2. dataTemp[k] <= dataTemp[l]
      BY <1>4, <2>1, <3>1
    <3> QED
      BY <1>6, <1>9, <2>1, <3>2
  <2>2. \A k \in Places : ~Holds(c, k) => datas'[k] = datas[k]
    BY <1>6, <1>9
  <2>3. \A k, l \in Places :
           k < l /\ Holds(calls[1], k) /\ Holds(calls[1], l) => datas'[k] <= datas'[l]
    BY <1>4, <2>1
  <2>4. \A k \in Places : ~Holds(calls[1], k) => datas'[k] = datas[k]
    BY <1>4, <2>2
  <2>5. PICK e : e = datas'
    OBVIOUS
  <2>6. calls[1].sorted /\ calls # << >>
    BY <1>4
  <2>7. LET t == Tail(calls) IN
        t \in Seq(CallSet) /\ Nested(t) /\ Merges(t) /\ Wide(t) /\ Orders(e, t)
    BY <1>1, <1>2, <1>3, <2>3, <2>4, <2>5, <2>6, HalvesMerged
  <2> QED
    BY <1>2, <2>5, <2>7
<1>12. Types'
  BY <1>2, <1>7, <1>8, <1>11 DEF Types, CallSet, Loops
<1>13. MergeInv'
  <2>1. Nested(calls)' /\ Merges(calls)' /\ Wide(calls)' /\ Orders(datas, calls)'
    BY <1>8, <1>11 DEF Orders, Merges
  <2> QED
    BY <2>1 DEF MergeInv
<1>14. DoneInv'
  BY <1>2, <1>8, <1>10 DEF DoneInv, Permutes
<1>15. BubbleInv' /\ SelectInv' /\ InsertInv' /\ QuickInv' /\ MergingInv'
  BY <1>2 DEF BubbleInv, SelectInv, InsertInv, QuickInv, MergingInv
<1> QED
  BY <1>12, <1>13, <1>14, <1>15
-----------------------------------------------------------------------------
(***************************************************************************)
(* All of them.                                                             *)
(***************************************************************************)
LEMMA ReturnStep ==
    ASSUME IInv, SortReturns
    PROVE  IInv'
<1> USE DEF IInv
<1>1. size \in Nat /\ Places = 0 .. size - 1
  BY PlacesAre
<1>2. /\ pc \in {"bubble", "select", "insert", "quick", "merge"} /\ pc' = "returned"
      /\ UNCHANGED <<input, datas, i, j, calls, low, high, key, dataTemp, begin1, begin2, index>>
  BY DEF SortReturns, arguments, loops, sorting, partition, merging
<1>3. Places' = Places /\ size' = size
  BY <1>2, SizeKept DEF Types
<1>4. Types'
  BY <1>2, <1>3 DEF Types, Loops
<1>5. Ascending(datas, Places)
  <2>1. CASE pc \in {"bubble", "select", "insert"}
    <3>1. i >= size /\ i \in Int
      BY <1>1, <2>1, SMTT(60) DEF SortReturns, Types
    <3>2. ASSUME NEW k \in Places, NEW l \in Places, k < l
          PROVE  datas[k] <= datas[l]
      <4>1. k \in Int /\ l \in Int /\ 0 <= k /\ k < size /\ 0 <= l /\ l < size
        BY <1>1
      <4>2. pc = "bubble" => l >= size - i
        BY <1>1, <3>1, <4>1
      <4>3. k < i /\ l < i
        BY <1>1, <3>1, <4>1
      <4> QED
        BY <2>1, <3>2, <4>2, <4>3 DEF BubbleInv, SelectInv, InsertInv
    <3> QED
      BY <3>2 DEF Ascending
  <2>2. CASE pc \in {"quick", "merge"}
    <3>1. calls = << >> /\ Orders(datas, calls)
      BY <2>2 DEF SortReturns, QuickInv, MergeInv
    <3>2. DOMAIN calls = {}
      BY <3>1
    <3> QED
      BY <3>1, <3>2 DEF Orders, Ascending
  <2> QED
    BY <1>2, <2>1, <2>2
<1>6. DoneInv'
  BY <1>2, <1>3, <1>5 DEF DoneInv, Permutes, Ascending
<1>7. BubbleInv' /\ SelectInv' /\ InsertInv' /\ QuickInv' /\ MergeInv' /\ MergingInv'
  BY <1>2 DEF BubbleInv, SelectInv, InsertInv, QuickInv, MergeInv, MergingInv
<1> QED
  BY <1>4, <1>6, <1>7

LEMMA NothingDone ==
    ASSUME IInv, UNCHANGED vars
    PROVE  IInv'
<1>1. UNCHANGED <<input, datas, pc, i, j, calls, low, high, key, dataTemp, begin1, begin2, index>>
  BY DEF vars, arguments, loops, sorting, partition, merging
<1>2. Places' = Places /\ size' = size /\ Merged' = Merged /\ Filled' = Filled
  BY <1>1 DEF Places, size, Merged, Filled
<1>3. Types'
  BY <1>1, <1>2 DEF IInv, Types
<1>4. BubbleInv' /\ SelectInv' /\ InsertInv' /\ DoneInv'
  BY <1>1, <1>2 DEF IInv, BubbleInv, SelectInv, InsertInv, DoneInv, Permutes, Ascending
<1>5. QuickInv'
  BY <1>1, <1>2 DEF IInv, QuickInv, LeftToRight, NoneSorted, Orders, Permutes
<1>6. MergeInv'
  BY <1>1, <1>2 DEF IInv, MergeInv, Nested, Merges, Wide, Orders
<1>7. MergingInv'
  <2>1. Mid(Head(calls))' = Mid(Head(calls)) /\ Permutes(Merged)' = Permutes(Merged)
    BY <1>1, <1>2 DEF Mid, Permutes
  <2> QED
    BY <1>1, <2>1 DEF IInv, MergingInv
<1> QED
  BY <1>3, <1>4, <1>5, <1>6, <1>7 DEF IInv

\* IInv is inductive as long as a sort runs.
THEOREM Invariance == Spec => [](exercise = "sort" => IInv)
<1> DEFINE SortInv == exercise = "sort" => IInv
<1>1. Init => SortInv
  BY Begins
<1>2. SortInv /\ [Next]_vars => SortInv'
  <2> SUFFICES ASSUME SortInv, [Next]_vars, exercise' = "sort"
               PROVE  IInv'
    OBVIOUS
  <2>1. CASE SortNext
    <3>1. exercise = "sort" /\ IInv
      BY <2>1 DEF SortNext, BubbleCompare, BubbleTurn, SelectTurn, InsertTurn, QuickCall, PartitionTurn,
                  PlaceKey, MergeCall, MergeBegin, MergeTake, MergeReturn, SortReturns, others
    <3> QED
      BY <2>1, <3>1, BubbleStep, SelectStep, InsertStep, QuickCallStep, PartitionStep, PlaceStep,
         MergeCallStep, MergeBeginStep, MergeTakeStep, MergeReturnStep, ReturnStep DEF SortNext
  <2>2. CASE ExerciseNext
    BY <2>2 DEF ExerciseNext, SearchTurn, Visit, MatrixCall, MatrixTurn, ListCall, ReverseTurn,
                ReverseReturns, Walk, TreeCall, ReplaceCall, ReplaceTurn, Return, arguments
  <2>3. CASE UNCHANGED vars
    <3>1. exercise = "sort" /\ IInv
      BY <2>3 DEF vars, arguments
    <3> QED
      BY <2>3, <3>1, NothingDone
  <2> QED
    BY <2>1, <2>2, <2>3 DEF Next, Ended
<1> QED
  BY <1>1, <1>2, PTL DEF Spec

\* The indices that the sorts keep from turn to turn, of their part of the vector.
IndicesInside ==
    exercise = "sort" =>
        /\ i \in 0 .. size + 1 /\ j \in 0 .. size
        /\ pc = "partition" =>
               Head(calls).begin <= low /\ low <= high /\ high <= Head(calls).end
        /\ pc = "merging" =>
               /\ begin1 \in Head(calls).begin .. Mid(Head(calls)) + 1
               /\ begin2 \in Mid(Head(calls)) + 1 .. Head(calls).end + 1
               /\ index \in Head(calls).begin .. Head(calls).end + 1

\* For every vector: no loop of bubbleSort, quickSort or mergeSort leaves its part of the vector.
THEOREM PlacesInside == Spec => []IndicesInside
<1>1. (exercise = "sort" => IInv) => IndicesInside
  <2> SUFFICES ASSUME exercise = "sort", IInv
               PROVE  IndicesInside
    BY DEF IndicesInside
  <2>1. pc = "merging" =>
           /\ calls # << >>
           /\ begin1 \in Head(calls).begin .. Mid(Head(calls)) + 1
           /\ begin2 \in Mid(Head(calls)) + 1 .. Head(calls).end + 1
           /\ index \in Head(calls).begin .. Head(calls).end + 1
    <3>1. ASSUME pc = "merging"
          PROVE  index \in Head(calls).begin .. Head(calls).end + 1
      <4>1. PICK c \in CallSet :
              /\ c = Head(calls) /\ c.begin \in Nat /\ c.end \in Int /\ Mid(c) \in Int
              /\ begin1 \in c.begin .. Mid(c) + 1 /\ begin2 \in Mid(c) + 1 .. c.end + 1
              /\ index \in Int /\ c.begin <= index /\ index <= begin2
        BY <3>1, MergeKnows
      <4>2. index <= c.end + 1
        BY <4>1
      <4> QED
        BY <4>1, <4>2
    <3> QED
      BY <3>1 DEF IInv, MergingInv
  <2> QED
    BY <2>1 DEF IInv, Types, QuickInv, IndicesInside
<1> QED
  BY <1>1, Invariance, PTL

\* For every vector: the five sorts of bubbleSort.cpp give its numbers in ascending order.
THEOREM SortsAreRight == Spec => []SortsSort
<1>1. (exercise = "sort" => IInv) => SortsSort
  BY DEF IInv, DoneInv, SortsSort, Returned, Ascending
<1> QED
  BY <1>1, Invariance, PTL

\* What bubbleSort has left behind is in its place (the comment of line 8 of bubbleSort.cpp).
BehindIsSorted ==
    exercise = "sort" /\ pc = "bubble" =>
        \A k, l \in Places : k < l /\ l >= size - i => datas[k] <= datas[l]

\* For every vector: what bubbleSort leaves behind is in its place, as line 8 says.
THEOREM BehindSorted == Spec => []BehindIsSorted
<1>1. (exercise = "sort" => IInv) => BehindIsSorted
  BY DEF IInv, BubbleInv, BehindIsSorted
<1> QED
  BY <1>1, Invariance, PTL
-----------------------------------------------------------------------------
(***************************************************************************)
(* Every step is one of the exercise that was called.                       *)
(***************************************************************************)
LEMMA ArgumentsKept ==
    ASSUME [Next]_vars
    PROVE  exercise' = exercise /\ input' = input /\ target' = target
<1>1. CASE SortNext
  BY <1>1 DEF SortNext, BubbleCompare, BubbleTurn, SelectTurn, InsertTurn, QuickCall, PartitionTurn,
              PlaceKey, MergeCall, MergeBegin, MergeTake, MergeReturn, SortReturns, others, arguments
<1>2. CASE ExerciseNext
  BY <1>2 DEF ExerciseNext, SearchTurn, Visit, MatrixCall, MatrixTurn, ListCall, ReverseTurn,
              ReverseReturns, Walk, TreeCall, ReplaceCall, ReplaceTurn, Return, arguments
<1>3. CASE UNCHANGED vars
  BY <1>3 DEF vars, arguments
<1> QED
  BY <1>1, <1>2, <1>3 DEF Next, Ended

LEMMA Steps ==
    ASSUME [Next]_vars, exercise # "sort",
           pc \in {"call", "turn", "print", "delete", "returned", "thrown"}
    PROVE  \/ UNCHANGED vars
           \/ Return
           \/ exercise = "binarySearch" /\ SearchTurn
           \/ exercise = "findDuplicates" /\ Visit
           \/ exercise = "searchMatrix" /\ (MatrixCall \/ MatrixTurn)
           \/ exercise = "list" /\ (ListCall \/ ReverseTurn \/ ReverseReturns \/ Walk)
           \/ exercise = "deduceTree" /\ TreeCall
           \/ exercise = "replaceSpace" /\ (ReplaceCall \/ ReplaceTurn)
<1>1. ~SortNext
  BY DEF SortNext, BubbleCompare, BubbleTurn, SelectTurn, InsertTurn, QuickCall, PartitionTurn,
         PlaceKey, MergeCall, MergeBegin, MergeTake, MergeReturn, SortReturns
<1>2. CASE ExerciseNext
  <2>1. (SearchTurn => exercise = "binarySearch") /\ (Visit => exercise = "findDuplicates")
    BY DEF SearchTurn, Visit
  <2>2. MatrixCall \/ MatrixTurn => exercise = "searchMatrix"
    BY DEF MatrixCall, MatrixTurn
  <2>3. ListCall \/ ReverseTurn \/ ReverseReturns \/ Walk => exercise = "list"
    BY DEF ListCall, ReverseTurn, ReverseReturns, Walk
  <2>4. (TreeCall => exercise = "deduceTree")
    BY DEF TreeCall
  <2>5. ReplaceCall \/ ReplaceTurn => exercise = "replaceSpace"
    BY DEF ReplaceCall, ReplaceTurn
  <2> QED
    BY <1>2, <2>1, <2>2, <2>3, <2>4, <2>5 DEF ExerciseNext
<1> QED
  BY <1>1, <1>2 DEF Next, Ended
-----------------------------------------------------------------------------
(***************************************************************************)
(* Vectors                                                                  *)
(***************************************************************************)
LEMMA VectorIs ==
    ASSUME NEW d, NEW S, IsVector(d, S)
    PROVE  /\ Size(d) \in Nat /\ DOMAIN d = Indices(d) /\ d \in [Indices(d) -> S]
           /\ \A k \in Indices(d) : d[k] \in S /\ k \in Int /\ 0 <= k /\ k < Size(d)
<1>1. IsFiniteSet(DOMAIN d) /\ d \in [Indices(d) -> S]
  BY DEF IsVector
<1>2. Size(d) \in Nat
  BY <1>1, FS_CardinalityType DEF Size
<1> QED
  BY <1>1, <1>2 DEF Indices
-----------------------------------------------------------------------------
(***************************************************************************)
(* binarySearch                                                             *)
(***************************************************************************)
\* binarySearch: in a descending vector the target is between left and right; the middle
\* element is looked at first.
BinaryTypes ==
    exercise = "binarySearch" =>
        /\ input \in Vectors /\ target \in Int /\ pc \in {"turn", "returned"}
        /\ left \in 0 .. Size(input) /\ right \in -1 .. Size(input) - 1
        /\ place \in -1 .. Size(input) - 1
BinaryKnows ==
    exercise = "binarySearch" =>
        /\ pc = "turn" => place = -1
        /\ place # -1 => input[place] = target
        /\ pc = "returned" /\ place = -1 => left > right
        /\ place = -1 => \A k \in Indices(input) : input[k] = target =>
               /\ Descends(input) => left <= k /\ k <= right
               /\ k = (Size(input) - 1) \div 2 => left = 0 /\ right = Size(input) - 1
BinaryInv == BinaryTypes /\ BinaryKnows

LEMMA SearchStep ==
    ASSUME BinaryInv, SearchTurn
    PROVE  BinaryInv'
<1> USE DEF BinaryInv
<1>1. /\ exercise = "binarySearch" /\ pc = "turn" /\ left <= right /\ exercise' = exercise
      /\ input' = input /\ target' = target
  BY DEF SearchTurn, Between, arguments
<1>2. /\ input \in Vectors /\ target \in Int /\ left \in 0 .. Size(input)
      /\ right \in -1 .. Size(input) - 1
  BY <1>1 DEF BinaryTypes
<1>3. IsVector(input, Int)
  BY <1>2, ExercisesAssumption DEF ExercisesAssumption
<1>4. PICK n \in Nat :
        /\ n = Size(input) /\ Indices(input) = 0 .. n - 1
        /\ \A k \in Indices(input) : input[k] \in Int
  BY <1>3, VectorIs DEF Indices
<1>5. PICK mid : mid = left + (right - left) \div 2
  OBVIOUS
<1>6. /\ left \in Int /\ right \in Int /\ mid \in Int /\ 0 <= left /\ right <= n - 1
      /\ left <= mid /\ mid <= right
  BY <1>1, <1>2, <1>4, <1>5
<1>7. mid \in Indices(input) /\ input[mid] \in Int
  BY <1>4, <1>6
<1>8. /\ place = -1
      /\ \A k \in Indices(input) : input[k] = target =>
            /\ Descends(input) => left <= k /\ k <= right
            /\ k = (Size(input) - 1) \div 2 => left = 0 /\ right = Size(input) - 1
  BY <1>1 DEF BinaryKnows
<1>10. left = 0 /\ right = Size(input) - 1 => mid = (Size(input) - 1) \div 2
  BY <1>4, <1>5
<1>11. CASE input[mid] = target /\ place' = mid /\ pc' = "returned" /\ UNCHANGED <<left, right>>
  <2>1. place' \in -1 .. Size(input) - 1 /\ place' # -1
    BY <1>4, <1>6, <1>11
  <2>2. BinaryTypes'
    BY <1>1, <1>2, <1>11, <2>1 DEF BinaryTypes
  <2> QED
    BY <1>1, <1>11, <2>1, <2>2 DEF BinaryKnows
<1>12. CASE input[mid] > target /\ left' = mid + 1 /\ UNCHANGED <<pc, right, place>>
  <2>1. left' \in 0 .. Size(input)
    BY <1>4, <1>6, <1>12
  <2>2. BinaryTypes'
    BY <1>1, <1>2, <1>8, <1>12, <2>1 DEF BinaryTypes
  <2>3. ASSUME NEW k \in Indices(input), input[k] = target
        PROVE  /\ Descends(input) => left' <= k /\ k <= right
               /\ k # (Size(input) - 1) \div 2
    <3>1. k \in Int
      BY <1>4
    <3>2. k # mid
      BY <1>2, <1>7, <1>12, <2>3
    <3>3. Descends(input) => ~(k < mid)
      BY <1>2, <1>4, <1>7, <1>12, <2>3 DEF Descends
    <3>4. Descends(input) => mid + 1 <= k
      BY <1>6, <3>1, <3>2, <3>3
    <3> QED
      BY <1>8, <1>10, <1>12, <2>3, <3>2, <3>4
  <2> QED
    BY <1>1, <1>8, <1>12, <2>2, <2>3 DEF BinaryKnows, Descends
<1>13. CASE input[mid] < target /\ right' = mid - 1 /\ UNCHANGED <<pc, left, place>>
  <2>1. right' \in -1 .. Size(input) - 1
    BY <1>4, <1>6, <1>13
  <2>2. BinaryTypes'
    BY <1>1, <1>2, <1>8, <1>13, <2>1 DEF BinaryTypes
  <2>3. ASSUME NEW k \in Indices(input), input[k] = target
        PROVE  /\ Descends(input) => left <= k /\ k <= right'
               /\ k # (Size(input) - 1) \div 2
    <3>1. k \in Int
      BY <1>4
    <3>2. k # mid
      BY <1>2, <1>7, <1>13, <2>3
    <3>3. Descends(input) => ~(mid < k)
      BY <1>2, <1>4, <1>7, <1>13, <2>3 DEF Descends
    <3>4. Descends(input) => k <= mid - 1
      BY <1>6, <3>1, <3>2, <3>3
    <3> QED
      BY <1>8, <1>10, <1>13, <2>3, <3>2, <3>4
  <2> QED
    BY <1>1, <1>8, <1>13, <2>2, <2>3 DEF BinaryKnows, Descends
<1> QED
  BY <1>5, <1>11, <1>12, <1>13 DEF SearchTurn

LEMMA BinaryBegins ==
    ASSUME Init
    PROVE  BinaryInv
<1> SUFFICES ASSUME exercise = "binarySearch"
             PROVE  BinaryInv
  BY DEF BinaryInv, BinaryTypes, BinaryKnows
<1>1. /\ input \in Vectors /\ target \in Targets /\ pc = "turn"
      /\ left = 0 /\ right = Size(input) - 1 /\ place = -1
  BY DEF Init, SortCalled, ExerciseCalled
<1>2. IsVector(input, Int) /\ target \in Int
  BY <1>1, ExercisesAssumption DEF ExercisesAssumption
<1>3. Size(input) \in Nat /\ \A k \in Indices(input) : k \in Int /\ 0 <= k /\ k < Size(input)
  BY <1>2, VectorIs
<1>4. BinaryTypes
  BY <1>1, <1>2, <1>3 DEF BinaryTypes
<1>5. \A k \in Indices(input) : left <= k /\ k <= right
  BY <1>1, <1>3
<1> QED
  BY <1>1, <1>4, <1>5 DEF BinaryInv, BinaryKnows

LEMMA BinaryKept ==
    ASSUME BinaryInv, [Next]_vars
    PROVE  BinaryInv'
<1> SUFFICES ASSUME exercise = "binarySearch"
             PROVE  BinaryInv'
  BY ArgumentsKept DEF BinaryInv, BinaryTypes, BinaryKnows
<1>1. SearchTurn \/ Return \/ UNCHANGED vars
  BY Steps DEF BinaryInv, BinaryTypes
<1>2. CASE Return
  <2>1. /\ pc = "turn" /\ pc' = "returned" /\ ~(left <= right)
        /\ UNCHANGED <<exercise, input, target, left, right, place>>
    BY <1>2 DEF Return, Between, arguments, searching, binary
  <2>2. left \in Int /\ right \in Int
    BY DEF BinaryInv, BinaryTypes
  <2>3. left > right
    BY <2>1, <2>2
  <2> QED
    BY <2>1, <2>3 DEF BinaryInv, BinaryTypes, BinaryKnows, Descends
<1>3. CASE UNCHANGED vars
  <2>1. UNCHANGED <<exercise, input, target, pc, left, right, place>>
    BY <1>3 DEF vars, arguments, searching, binary
  <2> QED
    BY <2>1 DEF BinaryInv, BinaryTypes, BinaryKnows, Descends
<1> QED
  BY <1>1, <1>2, <1>3, SearchStep

\* For every vector and target: binarySearch names no wrong place, and misses the target
\* neither in a descending vector nor in the middle of any.
THEOREM BinaryFinds == Spec => []SearchFinds
<1>1. BinaryInv => SearchFinds
  <2> SUFFICES ASSUME BinaryInv, exercise = "binarySearch", pc = "returned", place = -1,
                      NEW k \in Indices(input), input[k] = target
               PROVE  k # (Size(input) - 1) \div 2 /\ ~Descends(input)
    BY DEF SearchFinds, Returned, BinaryInv, BinaryKnows
  <2>1. IsVector(input, Int)
    BY ExercisesAssumption DEF BinaryInv, BinaryTypes, ExercisesAssumption
  <2>2. Size(input) \in Nat /\ k \in Int /\ 0 <= k /\ k < Size(input)
    BY <2>1, VectorIs
  <2>3. left \in Int /\ right \in Int /\ left > right
    BY <2>2 DEF BinaryInv, BinaryTypes, BinaryKnows
  <2>4. /\ Descends(input) => left <= k /\ k <= right
        /\ k = (Size(input) - 1) \div 2 => left = 0 /\ right = Size(input) - 1
    BY DEF BinaryInv, BinaryKnows
  <2> QED
    BY <2>2, <2>3, <2>4
<1> QED
  BY <1>1, BinaryBegins, BinaryKept, PTL DEF Spec
-----------------------------------------------------------------------------
(***************************************************************************)
(* findDuplicates                                                           *)
(***************************************************************************)
\* findDuplicates: the sign at k tells whether k + 1 was there, and res holds those that
\* came again.
DuplicatesTypes ==
    exercise = "findDuplicates" =>
        /\ input \in Numbers /\ pc \in {"turn", "returned"}
        /\ nums \in [Indices(input) -> Int] /\ i \in 0 .. Size(input)
        /\ res \in Seq(1 .. Size(input))
DuplicatesKnows ==
    exercise = "findDuplicates" =>
        /\ pc = "returned" => i >= Size(input)
        /\ \A k \in Indices(input) : nums[k] = input[k] \/ nums[k] = -input[k]
        /\ \A k \in Indices(input) : nums[k] < 0 <=> \E l \in 0 .. i - 1 : input[l] = k + 1
        /\ \A k \in 0 .. i - 1 : Again(k) => \E p \in DOMAIN res : res[p] = input[k]
        /\ \A p \in DOMAIN res : \E k \in 0 .. i - 1 : Again(k) /\ res[p] = input[k]
        /\ \A p, q \in DOMAIN res : p < q =>
              /\ res[p] # res[q]
              /\ \A k, l \in Indices(input) :
                    Again(k) /\ Again(l) /\ res[p] = input[k] /\ res[q] = input[l] => k < l
DuplicatesInv == DuplicatesTypes /\ DuplicatesKnows

\* No number is there three times: it comes again at one place only.
LEMMA AgainOnce ==
    ASSUME OnceOrTwice(input), NEW k \in Indices(input), NEW l \in Indices(input),
           Again(k), Again(l), input[k] = input[l]
    PROVE  k = l
<1>1. Size(input) \in Nat
  BY VectorIs DEF OnceOrTwice
<1>2. ASSUME NEW a \in Indices(input), NEW b \in Indices(input), a < b, Again(a), input[a] = input[b]
      PROVE  FALSE
  <2>1. PICK m \in 0 .. a - 1 : input[m] = input[a]
    BY <1>2 DEF Again
  <2>2. m \in Indices(input) /\ m < a
    BY <1>1, <1>2, <2>1 DEF Indices
  <2> QED
    BY <1>2, <2>1, <2>2 DEF OnceOrTwice
<1>3. k < l \/ l < k \/ k = l
  BY <1>1 DEF Indices
<1> QED
  BY <1>2, <1>3

LEMMA VisitStep ==
    ASSUME DuplicatesInv, Visit
    PROVE  DuplicatesInv'
<1> USE DEF DuplicatesInv
<1>1. /\ exercise = "findDuplicates" /\ pc = "turn" /\ pc' = pc /\ exercise' = exercise
      /\ input' = input /\ target' = target /\ i' = i + 1 /\ i < Size(nums)
  BY DEF Visit, arguments
<1>2. /\ input \in Numbers /\ i \in 0 .. Size(input)
      /\ nums \in [Indices(input) -> Int] /\ res \in Seq(1 .. Size(input))
  BY <1>1 DEF DuplicatesTypes
<1>3. OnceOrTwice(input)
  BY <1>2, ExercisesAssumption DEF ExercisesAssumption
<1>4. PICK n \in Nat :
        /\ n = Size(input) /\ DOMAIN input = Indices(input) /\ Indices(input) = 0 .. n - 1
        /\ \A k \in Indices(input) : input[k] \in 1 .. n
  BY <1>3, VectorIs DEF OnceOrTwice, Indices
<1>5. Size(nums) = n
  BY <1>2, <1>4 DEF Size
<1>6. i \in Indices(input) /\ i \in Int /\ input[i] \in 1 .. n /\ nums[i] \in Int
  BY <1>1, <1>2, <1>4, <1>5
<1>7. /\ \A k \in Indices(input) : nums[k] = input[k] \/ nums[k] = -input[k]
      /\ \A k \in Indices(input) : nums[k] < 0 <=> \E l \in 0 .. i - 1 : input[l] = k + 1
      /\ \A k \in 0 .. i - 1 : Again(k) => \E p \in DOMAIN res : res[p] = input[k]
      /\ \A p \in DOMAIN res : \E k \in 0 .. i - 1 : Again(k) /\ res[p] = input[k]
      /\ \A p, q \in DOMAIN res : p < q =>
            /\ res[p] # res[q]
            /\ \A k, l \in Indices(input) :
                  Again(k) /\ Again(l) /\ res[p] = input[k] /\ res[q] = input[l] => k < l
  BY <1>1 DEF DuplicatesKnows
<1>8. PICK x \in 1 .. n : x = input[i]
  BY <1>6
<1>9. Abs(nums[i]) = x
  <2>1. nums[i] = x \/ nums[i] = -x
    BY <1>6, <1>7, <1>8
  <2> QED
    BY <1>4, <1>8, <2>1 DEF Abs
<1>10. x \in Int /\ x - 1 \in Indices(input) /\ nums[x - 1] \in Int
  BY <1>2, <1>4, <1>8
<1>11. PICK y \in Int : y = nums[x - 1]
  BY <1>10
<1>12. y # 0 /\ (y < 0 <=> Again(i))
  <2>1. input[x - 1] \in 1 .. n /\ (y = input[x - 1] \/ y = -input[x - 1])
    BY <1>4, <1>7, <1>10, <1>11
  <2>2. y # 0
    BY <1>4, <2>1
  <2>3. y < 0 <=> \E l \in 0 .. i - 1 : input[l] = x
    BY <1>7, <1>10, <1>11
  <2> QED
    BY <1>8, <2>2, <2>3 DEF Again
<1>14. Indices(input)' = Indices(input) /\ Size(input)' = Size(input)
  BY <1>1 DEF Indices, Size
<1>15. i' \in 0 .. Size(input) /\ \A k \in 0 .. i' - 1 : k = i \/ k \in 0 .. i - 1
  BY <1>1, <1>2, <1>4, <1>5, <1>6
<1>16. CASE y > 0 /\ nums' = [nums EXCEPT ![x - 1] = -y] /\ res' = res
  <2>1. nums' \in [Indices(input) -> Int]
    BY <1>2, <1>10, <1>16
  <2>2. DuplicatesTypes'
    BY <1>1, <1>2, <1>14, <1>15, <1>16, <2>1 DEF DuplicatesTypes
  <2>3. ASSUME NEW k \in Indices(input)
        PROVE  nums'[k] = input[k] \/ nums'[k] = -input[k]
    <3>1. CASE k = x - 1
      <4>1. y = input[k] \/ y = -input[k]
        BY <1>7, <1>11, <3>1
      <4>2. nums'[k] = -y /\ input[k] \in Int
        BY <1>2, <1>4, <1>10, <1>16, <3>1
      <4> QED
        BY <4>1, <4>2
    <3>2. CASE k # x - 1
      BY <1>2, <1>7, <1>16, <3>2
    <3> QED
      BY <3>1, <3>2
  <2>4. ASSUME NEW k \in Indices(input)
        PROVE  nums'[k] < 0 <=> \E l \in 0 .. i' - 1 : input[l] = k + 1
    <3>1. k \in Int
      BY <1>4
    <3>2. (\E l \in 0 .. i' - 1 : input[l] = k + 1)
             <=> (\E l \in 0 .. i - 1 : input[l] = k + 1) \/ input[i] = k + 1
      BY <1>1, <1>2, <1>6, <1>15
    <3>3. CASE k = x - 1
      BY <1>2, <1>8, <1>10, <1>16, <3>2, <3>3
    <3>4. CASE k # x - 1
      <4>1. nums'[k] = nums[k] /\ input[i] # k + 1
        BY <1>2, <1>8, <1>10, <1>16, <3>1, <3>4
      <4> QED
        BY <1>7, <3>2, <4>1
    <3> QED
      BY <3>3, <3>4
  <2>5. ~Again(i)
    BY <1>12, <1>16
  <2>6. \A k \in 0 .. i' - 1 : Again(k) => \E p \in DOMAIN res : res[p] = input[k]
    BY <1>7, <1>15, <2>5
  <2>7. \A p \in DOMAIN res : \E k \in 0 .. i' - 1 : Again(k) /\ res[p] = input[k]
    <3>1. \A k \in 0 .. i - 1 : k \in 0 .. i' - 1
      BY <1>1, <1>6
    <3> QED
      BY <1>7, <3>1
  <2>8. DuplicatesKnows'
    BY <1>1, <1>7, <1>14, <1>16, <2>3, <2>4, <2>6, <2>7 DEF DuplicatesKnows, Again
  <2> QED
    BY <2>2, <2>8
<1>17. CASE y <= 0 /\ res' = Append(res, x) /\ nums' = nums
  <2>1. Again(i)
    BY <1>11, <1>12, <1>17
  <2>2. PICK m \in Nat :
          /\ DOMAIN res = 1 .. m /\ DOMAIN res' = 1 .. m + 1 /\ res' \in Seq(1 .. Size(input))
          /\ res'[m + 1] = x /\ \A p \in 1 .. m : res'[p] = res[p]
    <3>1. x \in 1 .. Size(input)
      BY <1>4, <1>8
    <3>2. /\ res' \in Seq(1 .. Size(input)) /\ Len(res') = Len(res) + 1
          /\ res'[Len(res) + 1] = x /\ \A p \in 1 .. Len(res) : res'[p] = res[p]
      BY <1>2, <1>17, <3>1, AppendProperties
    <3>3. Len(res) \in Nat /\ DOMAIN res = 1 .. Len(res) /\ DOMAIN res' = 1 .. Len(res')
      BY <1>2, <3>2, LenProperties
    <3> QED
      BY <3>2, <3>3
  <2>3. DuplicatesTypes'
    BY <1>1, <1>2, <1>14, <1>15, <1>17, <2>2 DEF DuplicatesTypes
  <2>4. \A k \in Indices(input) : nums'[k] < 0 <=> \E l \in 0 .. i' - 1 : input[l] = k + 1
    <3>1. ASSUME NEW k \in Indices(input)
          PROVE  nums'[k] < 0 <=> \E l \in 0 .. i' - 1 : input[l] = k + 1
      <4>1. (\E l \in 0 .. i' - 1 : input[l] = k + 1)
               <=> (\E l \in 0 .. i - 1 : input[l] = k + 1) \/ input[i] = k + 1
        BY <1>1, <1>2, <1>6, <1>15
      <4>2. input[i] = k + 1 => \E l \in 0 .. i - 1 : input[l] = k + 1
        BY <2>1 DEF Again
      <4> QED
        BY <1>7, <1>17, <4>1, <4>2
    <3> QED
      BY <3>1
  <2>5. ASSUME NEW k \in 0 .. i' - 1, Again(k)
        PROVE  \E p \in DOMAIN res' : res'[p] = input[k]
    <3>1. CASE k = i
      BY <1>8, <2>2, <3>1
    <3>2. CASE k \in 0 .. i - 1
      <4>1. PICK p \in DOMAIN res : res[p] = input[k]
        BY <1>7, <2>5, <3>2
      <4> QED
        BY <2>2, <4>1
    <3> QED
      BY <1>15, <3>1, <3>2
  <2>6. ASSUME NEW p \in DOMAIN res'
        PROVE  \E k \in 0 .. i' - 1 : Again(k) /\ res'[p] = input[k]
    <3>1. CASE p = m + 1
      <4>1. i \in 0 .. i' - 1
        BY <1>1, <1>2, <1>6
      <4> QED
        BY <1>8, <2>1, <2>2, <3>1, <4>1
    <3>2. CASE p # m + 1
      <4>1. p \in DOMAIN res /\ res'[p] = res[p]
        BY <2>2, <3>2
      <4>2. PICK k \in 0 .. i - 1 : Again(k) /\ res[p] = input[k]
        BY <1>7, <4>1
      <4>3. k \in 0 .. i' - 1
        BY <1>1, <1>6
      <4> QED
        BY <4>1, <4>2, <4>3
    <3> QED
      BY <3>1, <3>2
  <2>7. ASSUME NEW p \in DOMAIN res', NEW q \in DOMAIN res', p < q
        PROVE  /\ res'[p] # res'[q]
               /\ \A k, l \in Indices(input) :
                     Again(k) /\ Again(l) /\ res'[p] = input[k] /\ res'[q] = input[l] => k < l
    <3>1. p \in DOMAIN res /\ res'[p] = res[p]
      BY <2>2, <2>7
    <3>2. CASE q # m + 1
      <4>1. q \in DOMAIN res /\ res'[q] = res[q]
        BY <2>2, <3>2
      <4> QED
        BY <1>7, <2>7, <3>1, <4>1
    <3>3. CASE q = m + 1
      <4>1. PICK h \in 0 .. i - 1 : Again(h) /\ res[p] = input[h]
        BY <1>7, <3>1
      <4>2. h \in Indices(input) /\ h < i /\ h # i
        BY <1>2, <1>4, <1>6
      <4>3. res'[q] = input[i]
        BY <1>8, <2>2, <3>3
      <4>4. input[h] # input[i]
        BY <1>3, <1>6, <2>1, <4>1, <4>2, AgainOnce
      <4>5. ASSUME NEW k \in Indices(input), NEW l \in Indices(input),
                   Again(k), Again(l), res'[p] = input[k], res'[q] = input[l]
            PROVE  k < l
        <5>1. k = h
          BY <1>3, <3>1, <4>1, <4>2, <4>5, AgainOnce
        <5>2. l = i
          BY <1>3, <1>6, <2>1, <4>3, <4>5, AgainOnce
        <5> QED
          BY <4>2, <5>1, <5>2
      <4> QED
        BY <3>1, <4>1, <4>3, <4>4, <4>5
    <3> QED
      BY <3>2, <3>3
  <2>8. DuplicatesKnows'
    <3>1. \A k : Again(k)' <=> Again(k)
      BY <1>1 DEF Again
    <3>2. \A k \in 0 .. i' - 1 : Again(k) => \E p \in DOMAIN res' : res'[p] = input[k]
      BY <2>5
    <3>3. \A p \in DOMAIN res' : \E k \in 0 .. i' - 1 : Again(k) /\ res'[p] = input[k]
      BY <2>6
    <3>4. \A p, q \in DOMAIN res' : p < q =>
             /\ res'[p] # res'[q]
             /\ \A k, l \in Indices(input) :
                   Again(k) /\ Again(l) /\ res'[p] = input[k] /\ res'[q] = input[l] => k < l
      BY <2>7
    <3>5. \A k \in Indices(input) : nums'[k] = input[k] \/ nums'[k] = -input[k]
      BY <1>7, <1>17
    <3> QED
      BY <1>1, <1>14, <2>4, <3>1, <3>2, <3>3, <3>4, <3>5 DEF DuplicatesKnows
  <2> QED
    BY <2>3, <2>8
<1> QED
  BY <1>9, <1>11, <1>12, <1>16, <1>17 DEF Visit

LEMMA DuplicatesBegin ==
    ASSUME Init
    PROVE  DuplicatesInv
<1> SUFFICES ASSUME exercise = "findDuplicates"
             PROVE  DuplicatesInv
  BY DEF DuplicatesInv, DuplicatesTypes, DuplicatesKnows
<1>1. input \in Numbers /\ pc = "turn" /\ nums = input /\ i = 0 /\ res = << >>
  BY DEF Init, SortCalled, ExerciseCalled
<1>2. IsVector(input, 1 .. Size(input))
  BY <1>1, ExercisesAssumption DEF ExercisesAssumption, OnceOrTwice
<1>3. /\ Size(input) \in Nat /\ input \in [Indices(input) -> 1 .. Size(input)]
      /\ \A k \in Indices(input) : input[k] \in 1 .. Size(input)
  BY <1>2, VectorIs
<1>4. DuplicatesTypes
  BY <1>1, <1>3 DEF DuplicatesTypes
<1>5. \A k \in Indices(input) : ~(nums[k] < 0)
  BY <1>1, <1>3
<1>6. DOMAIN res = {} /\ \A k \in 0 .. i - 1 : FALSE
  BY <1>1
<1> QED
  BY <1>1, <1>4, <1>5, <1>6 DEF DuplicatesInv, DuplicatesKnows

LEMMA DuplicatesKept ==
    ASSUME DuplicatesInv, [Next]_vars
    PROVE  DuplicatesInv'
<1> SUFFICES ASSUME exercise = "findDuplicates"
             PROVE  DuplicatesInv'
  BY ArgumentsKept DEF DuplicatesInv, DuplicatesTypes, DuplicatesKnows
<1>1. Visit \/ Return \/ UNCHANGED vars
  BY Steps DEF DuplicatesInv, DuplicatesTypes
<1>2. UNCHANGED <<exercise, input, nums, i, res>>
         /\ (pc' = pc \/ (pc' = "returned" /\ i >= Size(input))) => DuplicatesInv'
  <2>1. ASSUME UNCHANGED <<exercise, input, nums, i, res>>,
               pc' = pc \/ (pc' = "returned" /\ i >= Size(input))
        PROVE  DuplicatesInv'
    <3>1. Size(input)' = Size(input) /\ Indices(input)' = Indices(input)
      BY <2>1 DEF Size, Indices
    <3>2. \A k : Again(k)' <=> Again(k)
      BY <2>1 DEF Again
    <3>3. DuplicatesTypes'
      BY <2>1, <3>1 DEF DuplicatesInv, DuplicatesTypes
    <3>4. pc' = "returned" => i >= Size(input)
      BY <2>1 DEF DuplicatesInv, DuplicatesKnows
    <3>5. DuplicatesKnows'
      BY <2>1, <3>1, <3>2, <3>4 DEF DuplicatesInv, DuplicatesKnows
    <3> QED
      BY <3>3, <3>5 DEF DuplicatesInv
  <2> QED
    BY <2>1
<1>3. CASE Return
  <2>1. /\ pc = "turn" /\ pc' = "returned" /\ i >= Size(nums)
        /\ UNCHANGED <<exercise, input, nums, i, res>>
    BY <1>3 DEF Return, arguments, loops, searching, duplicates
  <2>2. OnceOrTwice(input)
    BY ExercisesAssumption DEF DuplicatesInv, DuplicatesTypes, ExercisesAssumption
  <2>3. DOMAIN nums = DOMAIN input
    BY <2>2, VectorIs DEF DuplicatesInv, DuplicatesTypes, OnceOrTwice
  <2> QED
    BY <1>2, <2>1, <2>3 DEF Size
<1>4. CASE UNCHANGED vars
  <2>1. UNCHANGED <<exercise, input, pc, nums, i, res>>
    BY <1>4 DEF vars, arguments, loops, searching, duplicates
  <2> QED
    BY <1>2, <2>1
<1> QED
  BY <1>1, <1>3, <1>4, VisitStep

\* For every vector of the numbers that line 14 of vectors.cpp allows: findDuplicates
\* returns those that are there twice, each once.
THEOREM DuplicatesRight == Spec => []DuplicatesFound
<1>1. DuplicatesInv => DuplicatesFound
  <2> SUFFICES ASSUME DuplicatesInv, exercise = "findDuplicates", pc = "returned"
               PROVE  DuplicatesFound
    BY DEF DuplicatesFound, Returned
  <2>1. Size(input) \in Nat
    BY ExercisesAssumption, VectorIs DEF DuplicatesInv, DuplicatesTypes, ExercisesAssumption, OnceOrTwice
  <2>2. i \in 0 .. Size(input) /\ i >= Size(input)
    BY DEF DuplicatesInv, DuplicatesTypes, DuplicatesKnows
  <2>3. Indices(input) = 0 .. i - 1
    BY <2>1, <2>2 DEF Indices
  <2> QED
    BY <2>3 DEF DuplicatesInv, DuplicatesKnows, DuplicatesFound
<1> QED
  BY <1>1, DuplicatesBegin, DuplicatesKept, PTL DEF Spec
-----------------------------------------------------------------------------
(***************************************************************************)
(* searchMatrix                                                             *)
(***************************************************************************)
\* searchMatrix: the target is neither in a row that was left nor in a column that was left.
MatrixTypes ==
    exercise = "searchMatrix" =>
        /\ input \in Matrices /\ target \in Int /\ pc \in {"call", "turn", "returned", "thrown"}
        /\ found \in BOOLEAN /\ index_m \in 0 .. Size(input)
        /\ index_n \in -1 .. IF Size(input) = 0 THEN -1 ELSE Size(input[0]) - 1
        /\ pc = "thrown" => Size(input) = 0
MatrixKnows ==
    exercise = "searchMatrix" =>
        /\ pc \in {"turn", "returned"} => Size(input) > 0
        /\ pc = "call" => index_m = 0
        /\ found => Present
        /\ pc = "returned" /\ ~found => ~Within
        /\ pc \in {"turn", "returned"} /\ Ascends =>
              \A r \in Indices(input) : \A c \in Indices(input[0]) :
                 input[r][c] = target => index_m <= r /\ c <= index_n
MatrixInv == MatrixTypes /\ MatrixKnows

\* A matrix with rows has elements at its rows and columns.
LEMMA MatrixIs ==
    ASSUME IsMatrix(input)
    PROVE  /\ Size(input) \in Nat
           /\ Size(input) # 0 => Size(input[0]) \in Nat
           /\ \A r \in Indices(input) : \A c \in Indices(input[0]) : input[r][c] \in Int
<1>1. Size(input) \in Nat
  BY VectorIs DEF IsMatrix
<1>2. Size(input) # 0 => 0 \in Indices(input)
  BY <1>1 DEF Indices
<1>3. Size(input) # 0 => Size(input[0]) \in Nat
  BY <1>2, VectorIs DEF IsMatrix
<1>4. ASSUME NEW r \in Indices(input), NEW c \in Indices(input[0])
      PROVE  input[r][c] \in Int
  <2>1. 0 \in Indices(input)
    BY <1>1 DEF Indices
  <2>2. IsVector(input[r], Int) /\ IsVector(input[0], Int) /\ DOMAIN input[r] = DOMAIN input[0]
    BY <2>1 DEF IsMatrix
  <2>3. DOMAIN input[0] = Indices(input[0]) /\ DOMAIN input[r] = Indices(input[r])
    BY <2>2, VectorIs
  <2>4. c \in Indices(input[r])
    BY <2>2, <2>3
  <2> QED
    BY <2>2, <2>4, VectorIs
<1> QED
  BY <1>1, <1>3, <1>4

LEMMA MatrixCallStep ==
    ASSUME MatrixInv, MatrixCall
    PROVE  MatrixInv'
<1> USE DEF MatrixInv
<1>1. /\ exercise = "searchMatrix" /\ pc = "call" /\ exercise' = exercise /\ input' = input
      /\ target' = target /\ index_m' = index_m /\ found' = found
  BY DEF MatrixCall, arguments
<1>2. /\ input \in Matrices /\ target \in Int /\ found \in BOOLEAN /\ index_m \in 0 .. Size(input)
      /\ index_n \in -1 .. IF Size(input) = 0 THEN -1 ELSE Size(input[0]) - 1
  BY <1>1 DEF MatrixTypes
<1>3. IsMatrix(input)
  BY <1>2, ExercisesAssumption DEF ExercisesAssumption
<1>5. CASE Size(input) = 0 /\ pc' = "thrown" /\ UNCHANGED index_n
  <2>1. MatrixTypes'
    BY <1>1, <1>2, <1>5 DEF MatrixTypes
  <2>2. MatrixKnows'
    BY <1>1, <1>5 DEF MatrixKnows, Present
  <2> QED
    BY <2>1, <2>2
<1>6. CASE Size(input) # 0 /\ pc' = "turn" /\ index_n' = Size(input[0]) - 1
  <2>1. Size(input) \in Nat /\ Size(input[0]) \in Nat
    BY <1>3, <1>6, MatrixIs
  <2>2. index_n' \in -1 .. IF Size(input) = 0 THEN -1 ELSE Size(input[0]) - 1
    BY <1>6, <2>1
  <2>3. MatrixTypes'
    BY <1>1, <1>2, <1>6, <2>2 DEF MatrixTypes
  <2>4. ASSUME NEW r \in Indices(input), NEW c \in Indices(input[0])
        PROVE  index_m <= r /\ c <= index_n'
    <3>1. index_m = 0
      BY <1>1 DEF MatrixKnows
    <3> QED
      BY <1>6, <2>1, <3>1 DEF Indices
  <2>5. MatrixKnows'
    BY <1>1, <1>6, <2>1, <2>4 DEF MatrixKnows, Present
  <2> QED
    BY <2>3, <2>5
<1> QED
  BY <1>5, <1>6 DEF MatrixCall

LEMMA MatrixTurnStep ==
    ASSUME MatrixInv, MatrixTurn
    PROVE  MatrixInv'
<1> USE DEF MatrixInv
<1>1. /\ exercise = "searchMatrix" /\ pc = "turn" /\ index_m < Size(input) /\ index_n >= 0
      /\ exercise' = exercise /\ input' = input /\ target' = target
  BY DEF MatrixTurn, Within, arguments
<1>2. /\ input \in Matrices /\ target \in Int /\ found \in BOOLEAN /\ index_m \in 0 .. Size(input)
      /\ index_n \in -1 .. IF Size(input) = 0 THEN -1 ELSE Size(input[0]) - 1
  BY <1>1 DEF MatrixTypes
<1>3. IsMatrix(input)
  BY <1>2, ExercisesAssumption DEF ExercisesAssumption
<1>4. PICK m, n : m = Size(input) /\ n = Size(input[0])
  OBVIOUS
<1>5. /\ m \in Nat /\ m > 0 /\ n \in Nat /\ Indices(input) = 0 .. m - 1 /\ Indices(input[0]) = 0 .. n - 1
      /\ \A r \in Indices(input) : \A c \in Indices(input[0]) : input[r][c] \in Int
  <2>1. m > 0
    BY <1>1, <1>4 DEF MatrixKnows
  <2> QED
    BY <1>3, <1>4, <2>1, MatrixIs DEF Indices
<1>6. index_m \in Int /\ index_n \in Int /\ index_m \in Indices(input) /\ index_n \in Indices(input[0])
  <2>1. index_n \in -1 .. n - 1
    BY <1>2, <1>4, <1>5
  <2>2. index_n \in Indices(input[0])
    BY <1>1, <1>5, <2>1
  <2>3. index_m \in Indices(input)
    BY <1>1, <1>2, <1>4, <1>5
  <2> QED
    BY <1>5, <2>2, <2>3
<1>7. PICK here \in Int : here = input[index_m][index_n]
  BY <1>5, <1>6
<1>8. Ascends => \A r \in Indices(input) : \A c \in Indices(input[0]) :
                    input[r][c] = target => index_m <= r /\ c <= index_n
  BY <1>1 DEF MatrixKnows
<1>9. found => Present
  BY <1>1 DEF MatrixKnows
<1>11. CASE here = target /\ found' = TRUE /\ pc' = "returned" /\ UNCHANGED <<index_m, index_n>>
  <2>1. MatrixTypes'
    BY <1>1, <1>2, <1>11 DEF MatrixTypes
  <2>2. Present
    BY <1>6, <1>7, <1>11 DEF Present
  <2>3. MatrixKnows'
    BY <1>1, <1>4, <1>5, <1>8, <1>11, <2>2 DEF MatrixKnows, Present, Ascends
  <2> QED
    BY <2>1, <2>3
<1>12. CASE here > target /\ index_n' = index_n - 1 /\ UNCHANGED <<pc, index_m, found>>
  <2>1. index_n' \in -1 .. IF Size(input) = 0 THEN -1 ELSE Size(input[0]) - 1
    <3>1. index_n' \in -1 .. n - 1
      BY <1>5, <1>6, <1>12
    <3> QED
      BY <1>4, <1>5, <3>1
  <2>2. MatrixTypes'
    BY <1>1, <1>2, <1>12, <2>1 DEF MatrixTypes
  <2>3. ASSUME Ascends, NEW r \in Indices(input), NEW c \in Indices(input[0]), input[r][c] = target
        PROVE  index_m <= r /\ c <= index_n'
    <3>1. index_m <= r /\ c <= index_n /\ r \in Int /\ c \in Int
      BY <1>5, <1>8, <2>3
    <3>2. c # index_n
      <4>1. ASSUME c = index_n
            PROVE  FALSE
        <5>1. here <= input[r][c]
          <6>1. CASE r = index_m
            BY <1>7, <4>1, <6>1
          <6>2. CASE index_m < r
            BY <1>6, <1>7, <2>3, <4>1, <6>2 DEF Ascends
          <6> QED
            BY <1>6, <3>1, <6>1, <6>2
        <5> QED
          BY <1>2, <1>7, <1>12, <2>3, <5>1
      <4> QED
        BY <4>1
    <3> QED
      BY <1>6, <1>12, <3>1, <3>2
  <2>4. MatrixKnows'
    BY <1>1, <1>4, <1>5, <1>9, <1>12, <2>3 DEF MatrixKnows, Present, Ascends
  <2> QED
    BY <2>2, <2>4
<1>13. CASE here < target /\ index_m' = index_m + 1 /\ UNCHANGED <<pc, index_n, found>>
  <2>1. index_m' \in 0 .. Size(input)
    BY <1>4, <1>5, <1>6, <1>13
  <2>2. MatrixTypes'
    BY <1>1, <1>2, <1>13, <2>1 DEF MatrixTypes
  <2>3. ASSUME Ascends, NEW r \in Indices(input), NEW c \in Indices(input[0]), input[r][c] = target
        PROVE  index_m' <= r /\ c <= index_n
    <3>1. index_m <= r /\ c <= index_n /\ r \in Int /\ c \in Int
      BY <1>5, <1>8, <2>3
    <3>2. r # index_m
      <4>1. ASSUME r = index_m
            PROVE  FALSE
        <5>1. input[r][c] <= here
          <6>1. CASE c = index_n
            BY <1>7, <4>1, <6>1, <1>5, <1>6
          <6>2. CASE c < index_n
            BY <1>6, <1>7, <2>3, <4>1, <6>2 DEF Ascends
          <6> QED
            BY <1>6, <3>1, <6>1, <6>2
        <5> QED
          BY <1>2, <1>7, <1>13, <2>3, <5>1
      <4> QED
        BY <4>1
    <3> QED
      BY <1>6, <1>13, <3>1, <3>2
  <2>4. MatrixKnows'
    BY <1>1, <1>4, <1>5, <1>9, <1>13, <2>3 DEF MatrixKnows, Present, Ascends
  <2> QED
    BY <2>2, <2>4
<1> QED
  BY <1>7, <1>11, <1>12, <1>13 DEF MatrixTurn

LEMMA MatrixBegins ==
    ASSUME Init
    PROVE  MatrixInv
<1> SUFFICES ASSUME exercise = "searchMatrix"
             PROVE  MatrixInv
  BY DEF MatrixInv, MatrixTypes, MatrixKnows
<1>1. /\ input \in Matrices /\ target \in Targets /\ pc = "call"
      /\ index_m = 0 /\ index_n = -1 /\ found = FALSE
  BY DEF Init, SortCalled, ExerciseCalled
<1>2. IsMatrix(input) /\ target \in Int
  BY <1>1, ExercisesAssumption DEF ExercisesAssumption
<1>3. Size(input) \in Nat /\ (Size(input) # 0 => Size(input[0]) \in Nat)
  BY <1>2, MatrixIs
<1>4. index_n \in -1 .. IF Size(input) = 0 THEN -1 ELSE Size(input[0]) - 1
  BY <1>1, <1>3
<1>5. index_m \in 0 .. Size(input)
  BY <1>1, <1>3
<1> QED
  BY <1>1, <1>2, <1>4, <1>5 DEF MatrixInv, MatrixTypes, MatrixKnows

LEMMA MatrixKept ==
    ASSUME MatrixInv, [Next]_vars
    PROVE  MatrixInv'
<1> SUFFICES ASSUME exercise = "searchMatrix"
             PROVE  MatrixInv'
  BY ArgumentsKept DEF MatrixInv, MatrixTypes, MatrixKnows
<1>1. MatrixCall \/ MatrixTurn \/ Return \/ UNCHANGED vars
  BY Steps DEF MatrixInv, MatrixTypes
<1>2. UNCHANGED <<exercise, input, target, index_m, index_n, found>>
         /\ (pc' = pc \/ (pc = "turn" /\ pc' = "returned" /\ ~Within)) => MatrixInv'
  BY DEF MatrixInv, MatrixTypes, MatrixKnows, Within, Present, Ascends
<1>3. CASE Return
  BY <1>2, <1>3 DEF Return, arguments, searching, matrix
<1>4. CASE UNCHANGED vars
  <2>1. UNCHANGED <<exercise, input, target, pc, index_m, index_n, found>>
    BY <1>4 DEF vars, arguments, searching, matrix
  <2> QED
    BY <1>2, <2>1
<1> QED
  BY <1>1, <1>3, <1>4, MatrixCallStep, MatrixTurnStep

\* For every matrix and target: what searchMatrix finds is there, and in rows and columns
\* in ascending order it finds what is there.
THEOREM MatrixRight == Spec => []MatrixFinds
<1>1. MatrixInv => MatrixFinds
  <2> SUFFICES ASSUME MatrixInv, exercise = "searchMatrix", pc = "returned"
               PROVE  (found => Present) /\ (Ascends /\ Present => found)
    BY DEF MatrixFinds, Returned
  <2>1. found => Present
    BY DEF MatrixInv, MatrixKnows
  <2>2. ASSUME Ascends, Present, ~found
        PROVE  FALSE
    <3>1. PICK r \in Indices(input) : \E c \in Indices(input[0]) : input[r][c] = target
      BY <2>2 DEF Present
    <3>2. PICK c \in Indices(input[0]) : input[r][c] = target
      BY <3>1
    <3>3. IsMatrix(input) /\ Size(input) > 0 /\ ~Within /\ index_m <= r /\ c <= index_n
      BY <2>2, <3>2, ExercisesAssumption DEF MatrixInv, MatrixTypes, MatrixKnows, ExercisesAssumption
    <3>4. PICK m, n : m = Size(input) /\ n = Size(input[0])
      OBVIOUS
    <3>5. m \in Nat /\ n \in Nat /\ r \in 0 .. m - 1 /\ c \in 0 .. n - 1
      BY <3>3, <3>4, MatrixIs DEF Indices
    <3>6. index_m \in 0 .. m /\ index_n \in -1 .. n - 1
      BY <3>3, <3>4, <3>5 DEF MatrixInv, MatrixTypes
    <3>7. ~(index_m < m /\ index_n >= 0) /\ index_m <= r /\ c <= index_n
      BY <3>3, <3>4 DEF Within
    <3> QED
      BY <3>5, <3>6, <3>7
  <2> QED
    BY <2>1, <2>2 DEF MatrixInv, MatrixTypes
<1> QED
  BY <1>1, MatrixBegins, MatrixKept, PTL DEF Spec
-----------------------------------------------------------------------------
(***************************************************************************)
(* list.cpp                                                                 *)
(***************************************************************************)
\* The list as main links it, and from back to front up to a node.
Linked(k) == IF k = input THEN nullptr ELSE k + 1
Reversed(n) == next = [k \in 1 .. input |-> IF k <= n THEN k - 1 ELSE Linked(k)]

\* The numbers of the nodes down to one.
From(n) == [k \in 1 .. input - n |-> input + 1 - k]

\* list.cpp: pre is the last node that is turned round, and printing goes down the nodes.
ListInv ==
    exercise = "list" =>
        /\ input \in Lengths /\ pc \in {"call", "turn", "print", "delete", "returned"}
        /\ pc = "call" => Reversed(0) /\ pre = nullptr /\ cur = head
        /\ pc = "turn" => /\ pre \in 0 .. input /\ Reversed(pre)
                          /\ cur = IF pre = input THEN nullptr ELSE pre + 1
        /\ pc \in {"print", "delete", "returned"} => Reversed(input)
        /\ pc = "print" => cur \in 0 .. input /\ printed = From(cur)
        /\ pc \in {"call", "turn"} => printed = << >>
        /\ pc \in {"delete", "returned"} => printed = From(0)
        /\ pc \in {"call", "turn", "print"} => deleted = << >>
        /\ pc \in {"delete", "returned"} =>
              \/ pc = "delete" /\ cur = head /\ deleted = << >>
              \/ cur = nullptr /\ deleted = IF input = 0 THEN << >> ELSE <<1>>

LEMMA ListBegins ==
    ASSUME Init
    PROVE  ListInv
<1> SUFFICES ASSUME exercise = "list"
             PROVE  ListInv
  BY DEF ListInv
<1>1. /\ input \in Lengths /\ pc = "call" /\ pre = nullptr /\ cur = head
      /\ next = [k \in 1 .. input |-> IF k = input THEN nullptr ELSE k + 1]
      /\ printed = << >> /\ deleted = << >>
  BY DEF Init, SortCalled, ExerciseCalled
<1>2. input \in Nat
  BY <1>1, ExercisesAssumption DEF ExercisesAssumption
<1>3. Reversed(0)
  BY <1>1, <1>2 DEF Reversed, Linked
<1> QED
  BY <1>1, <1>3 DEF ListInv

\* The nodes after the list is reversed up to n or whole.
LEMMA NextIs ==
    ASSUME input \in Nat, NEW n \in 0 .. input, Reversed(n)
    PROVE  /\ \A k \in 1 .. n : next[k] = k - 1
           /\ \A k \in n + 1 .. input : next[k] = IF k = input THEN 0 ELSE k + 1
  BY DEF Reversed, Linked, nullptr

LEMMA ListCallStep ==
    ASSUME ListInv, exercise = "list", ListCall
    PROVE  ListInv'
<1>1. /\ pc = "call" /\ UNCHANGED <<exercise, input, next, pre, cur, printed, deleted>>
      /\ pc' = IF head = nullptr \/ next[head] = nullptr THEN "print" ELSE "turn"
  BY DEF ListCall, arguments, links, linked
<1>2. /\ input \in Lengths /\ Reversed(0) /\ pre = nullptr /\ cur = head
      /\ printed = << >> /\ deleted = << >>
  BY <1>1 DEF ListInv
<1>3. PICK n \in Nat : n = input
  BY <1>2, ExercisesAssumption DEF ExercisesAssumption
<1>4. CASE n > 1
  <2>1. next[1] = 2
    BY <1>2, <1>3, <1>4, NextIs
  <2>2. pc' = "turn"
    BY <1>1, <1>3, <1>4, <2>1 DEF head, nullptr
  <2>3. pre' \in 0 .. input' /\ cur' = IF pre' = input' THEN nullptr ELSE pre' + 1
    BY <1>1, <1>2, <1>3, <1>4 DEF head, nullptr
  <2> QED
    BY <1>1, <1>2, <2>2, <2>3 DEF ListInv, Reversed, Linked, nullptr
<1>5. CASE n <= 1
  <2>1. n = 0 \/ n = 1
    BY <1>5
  <2>2. n = 1 => next[1] = 0
    BY <1>2, <1>3, NextIs
  <2>3. pc' = "print"
    BY <1>1, <1>3, <2>1, <2>2 DEF head, nullptr
  <2>4. cur' = input /\ cur' \in 0 .. input
    BY <1>1, <1>2, <1>3, <2>1 DEF head, nullptr
  <2>5. Reversed(0) => Reversed(input)
    BY <1>3, <2>1 DEF Reversed, Linked, nullptr
  <2>6. From(input) = << >>
    BY <1>3 DEF From
  <2> QED
    BY <1>1, <1>2, <2>3, <2>4, <2>5, <2>6 DEF ListInv, Reversed, Linked, From
<1> QED
  BY <1>3, <1>4, <1>5

LEMMA ReverseStep ==
    ASSUME ListInv, exercise = "list", ReverseTurn \/ ReverseReturns
    PROVE  ListInv'
<1>1. pc = "turn" /\ UNCHANGED <<exercise, input, printed, deleted>>
  BY DEF ReverseTurn, ReverseReturns, arguments
<1>2. /\ input \in Lengths /\ pre \in 0 .. input /\ Reversed(pre)
      /\ cur = (IF pre = input THEN nullptr ELSE pre + 1) /\ printed = << >> /\ deleted = << >>
  BY <1>1 DEF ListInv
<1>3. PICK n \in Nat : n = input
  BY <1>2, ExercisesAssumption DEF ExercisesAssumption
<1>4. CASE ReverseTurn
  <2>1. /\ cur # nullptr /\ pc' = pc /\ next' = [next EXCEPT ![cur] = pre] /\ pre' = cur
        /\ cur' = next[cur]
    BY <1>4 DEF ReverseTurn
  <2>2. cur = pre + 1 /\ pre # input /\ cur \in 1 .. n
    BY <1>2, <1>3, <2>1
  <2>3. cur' = IF cur = input THEN nullptr ELSE cur + 1
    BY <1>2, <1>3, <2>1, <2>2, NextIs DEF nullptr
  <2>4. next' = [k \in 1 .. input |-> IF k <= cur THEN k - 1 ELSE Linked(k)]
    <3>1. PICK a, b \in Int : a = cur /\ b = pre /\ a = b + 1
      BY <1>2, <1>3, <2>2
    <3>2. next = [k \in 1 .. n |-> IF k <= b THEN k - 1 ELSE Linked(k)]
      BY <1>2, <1>3, <3>1 DEF Reversed
    <3>3. next' = [next EXCEPT ![a] = b]
      BY <2>1, <3>1
    <3>4. \A k \in 1 .. n : next'[k] = IF k <= a THEN k - 1 ELSE Linked(k)
      BY <3>1, <3>2, <3>3
    <3>5. next' = [k \in 1 .. n |-> next'[k]]
      BY <3>2, <3>3
    <3> QED
      BY <1>3, <3>1, <3>4, <3>5
  <2>5. pre' \in 0 .. input' /\ pre' = cur
    BY <1>1, <1>3, <2>1, <2>2
  <2>6. Reversed(pre)'
    BY <1>1, <2>1, <2>4 DEF Reversed, Linked
  <2>7. cur' = IF pre' = input' THEN nullptr ELSE pre' + 1
    BY <1>1, <2>1, <2>3
  <2> QED
    BY <1>1, <1>2, <2>1, <2>5, <2>6, <2>7 DEF ListInv
<1>5. CASE ReverseReturns
  <2>1. cur = nullptr /\ pc' = "print" /\ cur' = pre /\ next' = next
    BY <1>5 DEF ReverseReturns
  <2>2. pre = input
    BY <1>2, <1>3, <2>1 DEF nullptr
  <2>3. From(input) = << >> /\ input \in 0 .. input
    BY <1>3 DEF From
  <2> QED
    BY <1>1, <1>2, <2>1, <2>2, <2>3 DEF ListInv, Reversed, Linked, From
<1> QED
  BY <1>4, <1>5

LEMMA WalkStep ==
    ASSUME ListInv, exercise = "list", Walk
    PROVE  ListInv'
<1>1. pc \in {"print", "delete"} /\ UNCHANGED <<exercise, input, next>>
  BY DEF Walk, arguments
<1>2. input \in Lengths /\ Reversed(input)
  BY <1>1 DEF ListInv
<1>3. PICK n \in Nat : n = input
  BY <1>2, ExercisesAssumption DEF ExercisesAssumption
<1>4. Reversed(input)'
  BY <1>1, <1>2 DEF Reversed, Linked
<1>5. CASE pc = "print"
  <2>1. cur \in 0 .. n /\ printed = From(cur) /\ deleted = << >>
    BY <1>3, <1>5 DEF ListInv
  <2>2. CASE cur # nullptr
    <3>1. pc' = pc /\ deleted' = deleted /\ printed' = Append(printed, cur) /\ cur' = next[cur]
      BY <1>5, <2>2 DEF Walk
    <3>2. cur \in 1 .. n
      BY <2>1, <2>2 DEF nullptr
    <3>3. cur' = cur - 1 /\ cur' \in 0 .. n
      BY <1>2, <1>3, <3>1, <3>2, NextIs
    <3>4. Append(From(cur), cur) = From(cur - 1)
      <4>1. PICK m \in Nat : m = n - cur
        BY <3>2
      <4>2. From(cur) = [k \in 1 .. m |-> n + 1 - k]
        BY <1>3, <4>1 DEF From
      <4>3. From(cur - 1) = [k \in 1 .. m + 1 |-> n + 1 - k]
        <5>1. n - (cur - 1) = m + 1
          BY <3>2, <4>1
        <5> QED
          BY <1>3, <5>1 DEF From
      <4>4. cur = n + 1 - (m + 1)
        BY <3>2, <4>1
      <4>5. From(cur) \in Seq(Int) /\ Len(From(cur)) = m
        BY <4>2
      <4> QED
        BY <4>2, <4>3, <4>4, <4>5
    <3> QED
      BY <1>1, <1>2, <1>3, <1>4, <1>5, <2>1, <3>1, <3>3, <3>4 DEF ListInv, From
  <2>3. CASE cur = nullptr
    <3>1. pc' = "delete" /\ cur' = head /\ printed' = printed /\ deleted' = deleted
      BY <1>5, <2>3 DEF Walk
    <3> QED
      BY <1>1, <1>2, <1>4, <2>1, <2>3, <3>1 DEF ListInv, From, nullptr, head
  <2> QED
    BY <2>2, <2>3
<1>6. CASE pc = "delete"
  <2>1. /\ cur # nullptr /\ pc' = pc /\ deleted' = Append(deleted, cur) /\ cur' = next[cur]
        /\ printed' = printed
    BY <1>6 DEF Walk
  <2>2. cur = head /\ deleted = << >> /\ printed = From(0)
    BY <1>6, <2>1 DEF ListInv
  <2>3. n # 0 /\ cur = 1
    BY <1>3, <2>1, <2>2 DEF head, nullptr
  <2>4. cur' = nullptr
    BY <1>2, <1>3, <2>1, <2>3, NextIs DEF nullptr
  <2>5. deleted' = <<1>>
    BY <2>1, <2>2, <2>3
  <2> QED
    BY <1>1, <1>2, <1>3, <1>4, <1>6, <2>1, <2>2, <2>3, <2>4, <2>5 DEF ListInv, From
<1> QED
  BY <1>1, <1>5, <1>6

LEMMA ListKept ==
    ASSUME ListInv, [Next]_vars
    PROVE  ListInv'
<1> SUFFICES ASSUME exercise = "list"
             PROVE  ListInv'
  BY ArgumentsKept DEF ListInv
<1>1. ListCall \/ ReverseTurn \/ ReverseReturns \/ Walk \/ Return \/ UNCHANGED vars
  BY Steps DEF ListInv
<1>2. CASE Return
  <2>1. /\ pc = "delete" /\ cur = nullptr /\ pc' = "returned"
        /\ UNCHANGED <<exercise, input, next, pre, cur, printed, deleted>>
    BY <1>2 DEF Return, arguments, links, linked
  <2>2. deleted = IF input = 0 THEN << >> ELSE <<1>>
    BY <2>1 DEF ListInv, head, nullptr
  <2> QED
    BY <2>1, <2>2 DEF ListInv, Reversed, Linked, From
<1>3. CASE UNCHANGED vars
  <2>1. UNCHANGED <<exercise, input, pc, next, pre, cur, printed, deleted>>
    BY <1>3 DEF vars, arguments, links, linked
  <2> QED
    BY <2>1 DEF ListInv, Reversed, Linked, From, head
<1> QED
  BY <1>1, <1>2, <1>3, ListCallStep, ReverseStep, WalkStep

\* For lists of every length: the list is printed from back to front, and no node is
\* released twice, because only its old head is released.
THEOREM ListRight == Spec => []ListReversed
<1>1. ListInv => ListReversed
  <2> SUFFICES ASSUME ListInv, exercise = "list", pc = "returned"
               PROVE  ListReversed
    BY DEF ListReversed, Returned
  <2>1. printed = From(0) /\ deleted = IF input = 0 THEN << >> ELSE <<1>>
    BY DEF ListInv
  <2>2. input \in Nat
    BY ExercisesAssumption DEF ListInv, ExercisesAssumption
  <2>3. input - 0 = input
    BY <2>2
  <2>4. \A k, l \in DOMAIN deleted : k = l
    BY <2>1
  <2> QED
    BY <2>1, <2>3, <2>4 DEF ListReversed, From
<1> QED
  BY <1>1, ListBegins, ListKept, PTL DEF Spec
-----------------------------------------------------------------------------
(***************************************************************************)
(* deduceTree                                                               *)
(***************************************************************************)
Ways == Seq({"left", "right"})
nodes == DOMAIN input.number
Deductions ==
    LET numbers == Seq({input.number[p] : p \in nodes})
    IN  [preorder : numbers, inorder : numbers, at : Ways]

\* The nodes of a subtree.
Under(at) == {p \in nodes : Len(at) <= Len(p) /\ \A k \in 1 .. Len(at) : p[k] = at[k]}

\* A sequence holds the numbers of nodes.
NumbersOf(seq, q) == seq = [k \in DOMAIN q |-> input.number[q[k]]]

\* A call has the preorder of its subtree, and an inorder that begins with that of it.
PreorderRight(preorder, at) ==
    \E q \in Seq(nodes) :
        /\ NumbersOf(preorder, q)
        /\ \A k, l \in DOMAIN q : k < l => PreorderBefore(q[k], q[l])
        /\ \A k \in DOMAIN q : q[k] \in Under(at)
        /\ \A p \in Under(at) : \E k \in DOMAIN q : q[k] = p
InorderRight(inorder, at) ==
    \E q \in Seq(nodes) :
        /\ NumbersOf(inorder, q)
        /\ \A k, l \in DOMAIN q : k < l => InorderBefore(q[k], q[l])
        /\ \A k, l \in DOMAIN q : k < l /\ q[l] \in Under(at) => q[k] \in Under(at)
        /\ \A p \in Under(at) : \E k \in DOMAIN q : q[k] = p

CallRight(c) == PreorderRight(c.preorder, c.at) /\ InorderRight(c.inorder, c.at)

\* deduceTree: every node is in the tree or in the subtree of a call that is left.
TreeInv ==
    exercise = "deduceTree" =>
        /\ input \in Trees /\ pc \in {"turn", "returned"}
        /\ waiting \in Seq(Deductions)
        /\ \A x \in DOMAIN waiting : CallRight(waiting[x])
        /\ tree \subseteq {<<p, input.number[p]>> : p \in nodes}
        /\ \A p \in nodes :
              <<p, input.number[p]>> \in tree \/ \E x \in DOMAIN waiting : p \in Under(waiting[x].at)
        /\ pc = "returned" => waiting = << >>
-----------------------------------------------------------------------------
(***************************************************************************)
(* The orders of nodes.                                                     *)
(***************************************************************************)
LEMMA TreeIs ==
    ASSUME input \in Trees
    PROVE  /\ nodes \subseteq Ways
           /\ \A p \in nodes : \A k \in 0 .. Len(p) : SubSeq(p, 1, k) \in nodes
           /\ \A p, q \in nodes : input.number[p] = input.number[q] => p = q
           /\ input.preorder \in Seq(nodes) /\ input.inorder \in Seq(nodes)
           /\ \A p \in nodes : \E k \in DOMAIN input.preorder, l \in DOMAIN input.inorder :
                  p = input.preorder[k] /\ p = input.inorder[l]
           /\ \A k, l \in DOMAIN input.preorder :
                  k < l => PreorderBefore(input.preorder[k], input.preorder[l])
           /\ \A k, l \in DOMAIN input.inorder :
                  k < l => InorderBefore(input.inorder[k], input.inorder[l])
<1>1. IsTree(input)
  BY ExercisesAssumption DEF ExercisesAssumption
<1> QED
  BY <1>1 DEF IsTree, nodes, Ways

LEMMA WayIs ==
    ASSUME NEW p \in Ways
    PROVE  Len(p) \in Nat /\ DOMAIN p = 1 .. Len(p)
  BY LenProperties DEF Ways

LEMMA Turned ==
    ASSUME NEW at \in Ways, NEW way \in {"left", "right"}
    PROVE  /\ Append(at, way) \in Ways /\ Len(Append(at, way)) = Len(at) + 1
           /\ Append(at, way)[Len(at) + 1] = way
           /\ \A k \in 1 .. Len(at) : Append(at, way)[k] = at[k]
  BY AppendProperties DEF Ways

\* The subtree on one side of a node.
LEMMA OneSide ==
    ASSUME input \in Trees, NEW at \in Ways, NEW way \in {"left", "right"}, NEW p
    PROVE  p \in Under(Append(at, way)) <=>
               p \in Under(at) /\ Len(at) < Len(p) /\ p[Len(at) + 1] = way
<1> SUFFICES ASSUME p \in nodes
             PROVE  p \in Under(Append(at, way)) <=>
                        p \in Under(at) /\ Len(at) < Len(p) /\ p[Len(at) + 1] = way
  BY DEF Under
<1>1. PICK n \in Nat : n = Len(at)
  BY WayIs
<1>2. PICK m \in Nat : m = Len(p)
  BY TreeIs, WayIs
<1>3. PICK a : a = Append(at, way)
  OBVIOUS
<1>4. Len(a) = n + 1 /\ a[n + 1] = way /\ \A k \in 1 .. n : a[k] = at[k]
  BY <1>1, <1>3, Turned
<1>5. p \in Under(a) <=> n + 1 <= m /\ \A k \in 1 .. n + 1 : p[k] = a[k]
  BY <1>2, <1>4 DEF Under
<1>6. (\A k \in 1 .. n + 1 : p[k] = a[k]) <=> (\A k \in 1 .. n : p[k] = at[k]) /\ p[n + 1] = way
  <2>1. \A k : k \in 1 .. n + 1 <=> k \in 1 .. n \/ k = n + 1
    OBVIOUS
  <2> QED
    BY <1>4, <2>1
<1>7. p \in Under(at) <=> n <= m /\ \A k \in 1 .. n : p[k] = at[k]
  BY <1>1, <1>2 DEF Under
<1>8. n + 1 <= m <=> n <= m /\ n < m
  OBVIOUS
<1> QED
  BY <1>1, <1>2, <1>3, <1>5, <1>6, <1>7, <1>8

\* What is under a node is the node, or on one of its sides.
LEMMA Sides ==
    ASSUME input \in Trees, NEW at \in Ways, NEW p \in Under(at)
    PROVE  /\ at \in nodes /\ at \in Under(at)
           /\ p = at \/ p \in Under(Append(at, "left")) \/ p \in Under(Append(at, "right"))
           /\ ~(p \in Under(Append(at, "left")) /\ p \in Under(Append(at, "right")))
           /\ at \notin Under(Append(at, "left")) /\ at \notin Under(Append(at, "right"))
<1>1. PICK n \in Nat : n = Len(at) /\ DOMAIN at = 1 .. n
  BY WayIs
<1>2. p \in nodes /\ p \in Ways /\ n <= Len(p) /\ \A k \in 1 .. n : p[k] = at[k]
  BY <1>1, TreeIs DEF Under
<1>3. PICK m \in Nat : m = Len(p) /\ DOMAIN p = 1 .. m
  BY <1>2, WayIs
<1>4. SubSeq(p, 1, n) = at
  <2>1. \A k \in 1 .. n : p[k] \in {"left", "right"}
    BY <1>1, <1>2, ElementOfSeq DEF Ways
  <2>2. /\ SubSeq(p, 1, n) \in Ways /\ Len(SubSeq(p, 1, n)) = n
        /\ \A k \in 1 .. n : SubSeq(p, 1, n)[k] = p[k]
    <3>1. /\ SubSeq(p, 1, n) \in Seq({"left", "right"})
          /\ Len(SubSeq(p, 1, n)) = IF 1 <= n THEN n - 1 + 1 ELSE 0
          /\ \A k \in 1 .. n - 1 + 1 : SubSeq(p, 1, n)[k] = p[1 + k - 1]
      BY <2>1, SubSeqProperties
    <3>2. n - 1 + 1 = n /\ (~(1 <= n) => n = 0) /\ \A k \in 1 .. n : 1 + k - 1 = k
      OBVIOUS
    <3> QED
      BY <3>1, <3>2 DEF Ways
  <2> QED
    BY <1>1, <1>2, <2>2, SeqEqual DEF Ways
<1>5. at \in nodes
  <2>1. n \in 0 .. m
    BY <1>2, <1>3
  <2> QED
    BY <1>2, <1>3, <1>4, <2>1, TreeIs
<1>6. at \in Under(at)
  BY <1>1, <1>5 DEF Under
<1>7. p = at \/ (n < m /\ p[n + 1] \in {"left", "right"})
  <2>1. CASE n = m
    BY <1>1, <1>2, <1>3, <2>1, SeqEqual DEF Ways
  <2>2. CASE n < m
    <3>1. n + 1 \in 1 .. m
      BY <2>2
    <3> QED
      BY <1>2, <1>3, <2>2, <3>1, ElementOfSeq DEF Ways
  <2> QED
    BY <1>2, <1>3, <2>1, <2>2
<1>8. at \notin Under(Append(at, "left")) /\ at \notin Under(Append(at, "right"))
  BY <1>1, OneSide
<1>9. ~(p \in Under(Append(at, "left")) /\ p \in Under(Append(at, "right")))
  BY OneSide
<1> QED
  BY <1>1, <1>3, <1>5, <1>6, <1>7, <1>8, <1>9, OneSide

LEMMA OrdersStrict ==
    ASSUME NEW p \in Ways
    PROVE  ~PreorderBefore(p, p) /\ ~InorderBefore(p, p)
  BY WayIs DEF PreorderBefore, InorderBefore, Above, Beside

\* A node comes first in the preorder of its subtree, and then its left side.
LEMMA PreorderFirst ==
    ASSUME input \in Trees, NEW at \in Ways, NEW p \in Under(at)
    PROVE  ~PreorderBefore(p, at)
<1>1. PICK n \in Nat : n = Len(at) /\ DOMAIN at = 1 .. n
  BY WayIs
<1>2. PICK m \in Nat : m = Len(p)
  BY TreeIs, WayIs DEF Under
<1>3. n <= m /\ \A k \in 1 .. n : p[k] = at[k]
  BY <1>1, <1>2 DEF Under
<1>4. ~Above(p, at)
  BY <1>1, <1>2, <1>3 DEF Above
<1>5. ~Beside(p, at)
  BY <1>1, <1>3 DEF Beside
<1> QED
  BY <1>4, <1>5 DEF PreorderBefore

LEMMA PreorderSides ==
    ASSUME input \in Trees, NEW at \in Ways,
           NEW p \in Under(Append(at, "left")), NEW q \in Under(Append(at, "right"))
    PROVE  ~PreorderBefore(q, p)
<1>1. PICK n \in Nat : n = Len(at) /\ DOMAIN at = 1 .. n
  BY WayIs
<1>2. PICK m, o \in Nat : m = Len(p) /\ o = Len(q) /\ DOMAIN p = 1 .. m /\ DOMAIN q = 1 .. o
  BY TreeIs, WayIs DEF Under
<1>3. /\ n < m /\ n < o /\ p[n + 1] = "left" /\ q[n + 1] = "right"
      /\ \A k \in 1 .. n : p[k] = at[k] /\ q[k] = at[k]
  BY <1>1, <1>2, OneSide DEF Under
<1>4. n + 1 \in DOMAIN q
  BY <1>2, <1>3
<1>5. ~Above(q, p)
  BY <1>3, <1>4 DEF Above
<1>6. ASSUME NEW k \in DOMAIN p \cap DOMAIN q, q[k] = "left", p[k] = "right",
             \A l \in 1 .. k - 1 : q[l] = p[l]
      PROVE  FALSE
  <2>1. k \in Int /\ 1 <= k /\ (k <= n \/ k = n + 1 \/ n + 1 < k)
    BY <1>2, <1>6
  <2>2. CASE k <= n
    BY <1>3, <1>6, <2>1, <2>2
  <2>3. CASE k = n + 1
    BY <1>3, <1>6, <2>3
  <2>4. CASE n + 1 < k
    <3>1. n + 1 \in 1 .. k - 1
      BY <2>1, <2>4
    <3> QED
      BY <1>3, <1>6, <3>1
  <2> QED
    BY <2>1, <2>2, <2>3, <2>4
<1>7. ~Beside(q, p)
  BY <1>6 DEF Beside
<1> QED
  BY <1>5, <1>7 DEF PreorderBefore

\* The left side comes before a node in the inorder, and the right side after it.
LEMMA InorderSides ==
    ASSUME input \in Trees, NEW at \in Ways, NEW p \in Under(at)
    PROVE  /\ InorderBefore(p, at) => p \in Under(Append(at, "left"))
           /\ InorderBefore(at, p) => p \in Under(Append(at, "right"))
<1>1. PICK n \in Nat : n = Len(at) /\ DOMAIN at = 1 .. n
  BY WayIs
<1>2. PICK m \in Nat : m = Len(p)
  BY TreeIs, WayIs DEF Under
<1>3. n <= m /\ \A k \in 1 .. n : p[k] = at[k]
  BY <1>1, <1>2 DEF Under
<1>4. ~Above(p, at)
  BY <1>1, <1>2, <1>3 DEF Above
<1>5. ~Beside(p, at) /\ ~Beside(at, p)
  BY <1>1, <1>3 DEF Beside
<1>6. Above(at, p) => Len(at) < Len(p)
  BY DEF Above
<1> QED
  BY <1>4, <1>5, <1>6, OneSide DEF InorderBefore
-----------------------------------------------------------------------------
(***************************************************************************)
(* A call and its two calls.                                                *)
(***************************************************************************)

LEMMA PartIs ==
    ASSUME NEW S, NEW t, NEW o \in Nat, NEW a \in Int, a = o + 1, NEW b \in Int, o <= b,
           NEW m \in Nat, m = b - o, \A k \in a .. b : t[k] \in S
    PROVE  /\ SubSeq(t, a, b) \in Seq(S) /\ SubSeq(t, a, b) \in [1 .. m -> S]
           /\ DOMAIN SubSeq(t, a, b) = 1 .. m
           /\ \A k \in 1 .. m : SubSeq(t, a, b)[k] = t[k + o]
<1>1. /\ SubSeq(t, a, b) \in Seq(S) /\ Len(SubSeq(t, a, b)) = IF a <= b THEN b - a + 1 ELSE 0
      /\ \A k \in 1 .. b - a + 1 : SubSeq(t, a, b)[k] = t[a + k - 1]
  BY SubSeqProperties
<1>2. Len(SubSeq(t, a, b)) = m
  BY <1>1
<1>3. \A k \in 1 .. m : k \in 1 .. b - a + 1 /\ a + k - 1 = k + o
  OBVIOUS
<1>4. \A k \in 1 .. m : SubSeq(t, a, b)[k] = t[k + o]
  BY <1>1, <1>3
<1> QED
  BY <1>1, <1>2, <1>4, LenProperties

\* A part of a sequence of numbers is one of a part of the nodes.
LEMMA PartOf ==
    ASSUME NEW seq, NEW q \in Seq(nodes), NumbersOf(seq, q),
           NEW o \in Nat, NEW a \in Int, a = o + 1, NEW b \in Int, o <= b, b <= Len(q),
           NEW m \in Nat, m = b - o
    PROVE  \E r \in Seq(nodes) :
              /\ NumbersOf(SubSeq(seq, a, b), r) /\ DOMAIN r = 1 .. m
              /\ \A k \in 1 .. m : r[k] = q[k + o]
<1>1. PICK n \in Nat : n = Len(q) /\ q \in [1 .. n -> nodes] /\ DOMAIN q = 1 .. n
  BY LenProperties
<1> DEFINE N == {input.number[p] : p \in nodes}
<1>3. seq = [k \in 1 .. n |-> input.number[q[k]]]
  BY <1>1 DEF NumbersOf
<1>4. \A k \in a .. b : k \in 1 .. n /\ q[k] \in nodes /\ seq[k] = input.number[q[k]] /\ seq[k] \in N
  BY <1>1, <1>3
<1>6. /\ SubSeq(seq, a, b) \in [1 .. m -> N]
      /\ \A k \in 1 .. m : SubSeq(seq, a, b)[k] = seq[k + o]
  <2> HIDE DEF N
  <2>1. \A k \in a .. b : seq[k] \in N
    BY <1>4
  <2>2. SubSeq(seq, a, b) \in [1 .. m -> N]
    BY <2>1, PartIs
  <2>3. \A k \in 1 .. m : SubSeq(seq, a, b)[k] = seq[k + o]
    BY <2>1, PartIs
  <2> QED
    BY <2>2, <2>3
<1>7. /\ SubSeq(q, a, b) \in Seq(nodes) /\ DOMAIN SubSeq(q, a, b) = 1 .. m
      /\ \A k \in 1 .. m : SubSeq(q, a, b)[k] = q[k + o]
  BY <1>4, PartIs
<1>8. \A k \in 1 .. m : k + o \in a .. b
  OBVIOUS
<1>9. SubSeq(seq, a, b) = [k \in 1 .. m |-> input.number[SubSeq(q, a, b)[k]]]
  <2>1. \A k \in 1 .. m : SubSeq(seq, a, b)[k] = input.number[SubSeq(q, a, b)[k]]
    BY <1>4, <1>6, <1>7, <1>8
  <2>2. SubSeq(seq, a, b) = [k \in 1 .. m |-> SubSeq(seq, a, b)[k]]
    BY <1>6
  <2> QED
    BY <2>1, <2>2
<1>10. NumbersOf(SubSeq(seq, a, b), SubSeq(q, a, b))
  BY <1>7, <1>9 DEF NumbersOf
<1> QED
  BY <1>7, <1>10

\* The root is the first of the preorder.
LEMMA RootFirst ==
    ASSUME input \in Trees, NEW at \in Ways, NEW q \in Seq(nodes), q # << >>,
           \A k, l \in DOMAIN q : k < l => PreorderBefore(q[k], q[l]),
           \A k \in DOMAIN q : q[k] \in Under(at),
           \A p \in Under(at) : \E k \in DOMAIN q : q[k] = p
    PROVE  at \in nodes /\ at \in Under(at) /\ 1 \in DOMAIN q /\ q[1] = at
<1>1. PICK n \in Nat : n = Len(q) /\ n > 0 /\ DOMAIN q = 1 .. n
  BY LenProperties, EmptySeq
<1>2. 1 \in DOMAIN q /\ q[1] \in Under(at)
  BY <1>1
<1>3. at \in nodes /\ at \in Under(at)
  BY <1>2, Sides
<1>4. PICK k \in DOMAIN q : q[k] = at
  BY <1>3
<1>5. ~(1 < k)
  BY <1>2, <1>4, PreorderFirst
<1>6. k = 1
  BY <1>1, <1>5
<1> QED
  BY <1>2, <1>3, <1>4, <1>6

\* No node is twice in a sequence in one of the orders.
LEMMA NoneTwice ==
    ASSUME input \in Trees, NEW q \in Seq(nodes),
           \/ \A k, l \in DOMAIN q : k < l => PreorderBefore(q[k], q[l])
           \/ \A k, l \in DOMAIN q : k < l => InorderBefore(q[k], q[l]),
           NEW a \in DOMAIN q, NEW b \in DOMAIN q, q[a] = q[b]
    PROVE  a = b
<1>1. a \in Int /\ b \in Int
  BY LenProperties
<1>2. q[a] \in Ways
  BY TreeIs, LenProperties
<1>3. ~(a < b) /\ ~(b < a)
  BY <1>2, OrdersStrict
<1> QED
  BY <1>1, <1>3

\* Position is where a number is.
LEMMA PositionIs ==
    ASSUME input \in Trees, NEW seq, NEW q \in Seq(nodes), NumbersOf(seq, q),
           \A a, b \in DOMAIN q : q[a] = q[b] => a = b, NEW h \in DOMAIN q
    PROVE  Position(input.number[q[h]], seq) = h - 1
<1>1. PICK n \in Nat : n = Len(q) /\ q \in [1 .. n -> nodes] /\ DOMAIN q = 1 .. n
  BY LenProperties
<1>2. DOMAIN seq = 1 .. n /\ \A l \in 1 .. n : seq[l] = input.number[q[l]]
  BY <1>1 DEF NumbersOf
<1>3. \A l \in 1 .. n : seq[l] # input.number[q[h]] <=> l # h
  <2>1. ASSUME NEW l \in 1 .. n, seq[l] = input.number[q[h]]
        PROVE  l = h
    <3>1. q[l] \in nodes /\ q[h] \in nodes /\ input.number[q[l]] = input.number[q[h]]
      BY <1>1, <1>2, <2>1
    <3>2. q[l] = q[h]
      BY <3>1, TreeIs
    <3> QED
      BY <1>1, <3>2
  <2> QED
    BY <1>1, <1>2, <2>1
<1>4. h \in Int /\ 1 <= h /\ h <= n
  BY <1>1
<1>5. ASSUME NEW k \in 1 .. n
      PROVE  (\A l \in 1 .. k : seq[l] # input.number[q[h]]) <=> k \in 1 .. h - 1
  <2>1. \A l \in 1 .. k : l \in 1 .. n
    OBVIOUS
  <2>2. k >= h => h \in 1 .. k
    BY <1>4
  <2>3. k \in 1 .. h - 1 <=> k < h
    BY <1>4
  <2>4. k < h => \A l \in 1 .. k : l # h
    BY <1>4
  <2> QED
    BY <1>3, <1>4, <2>1, <2>2, <2>3, <2>4
<1>6. {k \in DOMAIN seq : \A l \in 1 .. k : seq[l] # input.number[q[h]]} = 1 .. h - 1
  <2>1. \A k \in 1 .. h - 1 : k \in 1 .. n
    BY <1>4
  <2> QED
    BY <1>2, <1>5, <2>1
<1>7. Cardinality(1 .. h - 1) = h - 1
  BY <1>4, FS_Interval
<1> QED
  BY <1>6, <1>7 DEF Position

\* The inorder has the left side before the root, and the right side after it.
LEMMA InorderCut ==
    ASSUME input \in Trees, NEW at \in Ways, NEW q \in Seq(nodes), NEW h \in DOMAIN q, q[h] = at,
           at \in Under(at),
           \A k, l \in DOMAIN q : k < l => InorderBefore(q[k], q[l]),
           \A k, l \in DOMAIN q : k < l /\ q[l] \in Under(at) => q[k] \in Under(at),
           \A p \in Under(at) : \E k \in DOMAIN q : q[k] = p
    PROVE  /\ \A k \in DOMAIN q : k < h => q[k] \in Under(Append(at, "left"))
           /\ \A k \in DOMAIN q : h < k /\ q[k] \in Under(at) => q[k] \in Under(Append(at, "right"))
           /\ \A p \in Under(Append(at, "left")) : \E k \in DOMAIN q : k < h /\ q[k] = p
           /\ \A p \in Under(Append(at, "right")) : \E k \in DOMAIN q : h < k /\ q[k] = p
<1>1. \A k \in DOMAIN q : k \in Int
  BY LenProperties
<1>2. ASSUME NEW k \in DOMAIN q, k < h
      PROVE  q[k] \in Under(Append(at, "left"))
  BY <1>2, InorderSides
<1>3. ASSUME NEW k \in DOMAIN q, h < k, q[k] \in Under(at)
      PROVE  q[k] \in Under(Append(at, "right"))
  BY <1>3, InorderSides
<1>4. ASSUME NEW p \in Under(Append(at, "left"))
      PROVE  \E k \in DOMAIN q : k < h /\ q[k] = p
  <2>1. p \in Under(at)
    BY OneSide
  <2>2. PICK k \in DOMAIN q : q[k] = p
    BY <2>1
  <2>3. k # h /\ ~(h < k)
    BY <1>3, <2>1, <2>2, Sides
  <2> QED
    BY <1>1, <2>2, <2>3
<1>5. ASSUME NEW p \in Under(Append(at, "right"))
      PROVE  \E k \in DOMAIN q : h < k /\ q[k] = p
  <2>1. p \in Under(at)
    BY OneSide
  <2>2. PICK k \in DOMAIN q : q[k] = p
    BY <2>1
  <2>3. k # h /\ ~(k < h)
    BY <1>2, <2>1, <2>2, Sides
  <2> QED
    BY <1>1, <2>2, <2>3
<1> QED
  BY <1>2, <1>3, <1>4, <1>5

LEMMA FromTwo ==
    ASSUME NEW n \in Nat, n >= 1
    PROVE  IsFiniteSet(2 .. n) /\ Cardinality(2 .. n) = n - 1
<1>1. IsFiniteSet(2 .. n) /\ Cardinality(2 .. n) = IF 2 > n THEN 0 ELSE n - 2 + 1
  BY FS_Interval
<1> QED
  BY <1>1

\* As many nodes follow the root in the preorder and are on its left side as stand before
\* it in the inorder.
LEMMA PreorderCut ==
    ASSUME input \in Trees, NEW at \in Ways, NEW q \in Seq(nodes), 1 \in DOMAIN q, q[1] = at,
           at \in Under(at),
           \A k, l \in DOMAIN q : k < l => PreorderBefore(q[k], q[l]),
           \A k \in DOMAIN q : q[k] \in Under(at),
           \A p \in Under(at) : \E k \in DOMAIN q : q[k] = p,
           NEW r \in Seq(nodes), NEW h \in DOMAIN r,
           \A a, b \in DOMAIN r : r[a] = r[b] => a = b,
           \A k \in DOMAIN r : k < h => r[k] \in Under(Append(at, "left")),
           \A p \in Under(Append(at, "left")) : \E k \in DOMAIN r : k < h /\ r[k] = p
    PROVE  /\ h \in DOMAIN q
           /\ \A k \in DOMAIN q : k \in 2 .. h => q[k] \in Under(Append(at, "left"))
           /\ \A k \in DOMAIN q : h < k => q[k] \in Under(Append(at, "right"))
<1>1. PICK n \in Nat : n = Len(q) /\ n > 0 /\ DOMAIN q = 1 .. n
  BY LenProperties
<1>2. PICK m \in Nat : m = Len(r) /\ DOMAIN r = 1 .. m
  BY LenProperties
<1>3. h \in Int /\ 1 <= h /\ h <= m /\ h - 1 \in Nat
  BY <1>2
<1>4. \A a, b \in DOMAIN q : q[a] = q[b] => a = b
  BY NoneTwice
<1> DEFINE L == Under(Append(at, "left"))
           A == {k \in 2 .. n : q[k] \in L}
           f == [k \in 1 .. h - 1 |-> CHOOSE l \in A : q[l] = r[k]]
<1>5. ASSUME NEW k \in 2 .. n
      PROVE  k \in DOMAIN q /\ q[k] # at /\ (q[k] \in L \/ q[k] \in Under(Append(at, "right")))
  <2>1. k \in DOMAIN q /\ k # 1
    BY <1>1
  <2>2. q[k] # at
    BY <1>4, <2>1
  <2> QED
    BY <2>1, <2>2, Sides
<1>6. ASSUME NEW k \in 1 .. h - 1
      PROVE  f[k] \in A /\ q[f[k]] = r[k]
  <2>1. k \in DOMAIN r /\ k < h
    BY <1>2, <1>3
  <2>2. r[k] \in L /\ r[k] \in Under(at) /\ r[k] # at
    BY <2>1, OneSide, Sides
  <2>3. PICK l \in DOMAIN q : q[l] = r[k]
    BY <2>2
  <2>4. l \in A
    BY <1>1, <2>2, <2>3
  <2> HIDE DEF A
  <2> QED
    BY <2>3, <2>4
<1>7. f \in [1 .. h - 1 -> A]
  BY <1>6
<1>8. \A a, b \in 1 .. h - 1 : f[a] = f[b] => a = b
  <2>1. \A a \in 1 .. h - 1 : a \in DOMAIN r
    BY <1>2, <1>3
  <2> HIDE DEF f
  <2> QED
    BY <1>6, <2>1, SMTT(60)
<1>9. ASSUME NEW l \in A
      PROVE  \E k \in 1 .. h - 1 : f[k] = l
  <2>1. l \in DOMAIN q /\ q[l] \in L
    BY <1>5
  <2>2. PICK k \in DOMAIN r : k < h /\ r[k] = q[l]
    BY <2>1
  <2>3. k \in 1 .. h - 1
    BY <1>2, <1>3, <2>2
  <2>4. f[k] \in A /\ q[f[k]] = q[l]
    BY <1>6, <2>2, <2>3
  <2>5. f[k] \in DOMAIN q
    BY <1>5, <2>4
  <2> HIDE DEF f
  <2> QED
    BY <1>4, <2>1, <2>3, <2>4, <2>5
<1>10. Cardinality(A) = h - 1
  <2>1. f \in Bijection(1 .. h - 1, A)
    <3> HIDE DEF f, A
    <3> QED
      BY <1>7, <1>8, <1>9, Fun_IsBij
  <2>2. ExistsBijection(1 .. h - 1, A)
    BY <2>1 DEF ExistsBijection
  <2> HIDE DEF A
  <2> QED
    BY <1>3, <2>2, FS_CountingElements
<1>11. IsFiniteSet(A)
  <2>1. A \in SUBSET (2 .. n)
    OBVIOUS
  <2> HIDE DEF A
  <2>2. IsFiniteSet(2 .. n)
    BY <1>1, FromTwo
  <2> QED
    BY <2>1, <2>2, FS_Subset
<1>12. ASSUME NEW k \in A, NEW l \in 2 .. k
       PROVE  l \in A
  <2>1. k \in 2 .. n /\ l \in 2 .. n /\ (l = k \/ l < k) /\ q[k] \in L
    OBVIOUS
  <2>2. CASE l < k
    <3>1. PreorderBefore(q[l], q[k])
      BY <1>5, <2>1, <2>2
    <3>2. q[l] \notin Under(Append(at, "right"))
      BY <2>1, <3>1, PreorderSides
    <3> QED
      BY <1>5, <2>1, <3>2
  <2> QED
    BY <2>1, <2>2
<1>13. A = 2 .. h
  <2>1. ASSUME NEW k \in A
        PROVE  k \in 2 .. h
    <3>1. k \in Int /\ 2 <= k
      OBVIOUS
    <3>2. Cardinality(2 .. k) = k - 1
      BY <3>1, FromTwo
    <3>3. 2 .. k \in SUBSET A
      BY <1>12
    <3>4. Cardinality(2 .. k) <= Cardinality(A)
      <4> HIDE DEF A
      <4> QED
        BY <1>11, <3>3, FS_Subset
    <3>5. k - 1 <= h - 1
      BY <1>10, <3>2, <3>4
    <3> QED
      BY <1>3, <3>1, <3>5
  <2>2. IsFiniteSet(2 .. h) /\ Cardinality(2 .. h) = h - 1
    BY <1>3, FromTwo
  <2>3. A \in SUBSET (2 .. h)
    BY <2>1
  <2> HIDE DEF A
  <2> QED
    BY <1>10, <2>2, <2>3, FS_Subset
<1>14. h <= n
  <2>1. h >= 2 => h \in A
    BY <1>3, <1>13
  <2>2. h >= 2 => h \in 2 .. n
    BY <2>1
  <2> QED
    BY <1>1, <1>3, <2>2
<1>15. ASSUME NEW k \in DOMAIN q, k \in 2 .. h
       PROVE  q[k] \in L
  <2>1. k \in A
    BY <1>13, <1>15
  <2> QED
    BY <2>1
<1>16. ASSUME NEW k \in DOMAIN q, h < k
       PROVE  q[k] \in Under(Append(at, "right"))
  <2>1. k \in 2 .. n /\ k \notin 2 .. h
    BY <1>1, <1>3, <1>16
  <2>2. q[k] \notin L
    BY <1>13, <2>1
  <2> QED
    BY <1>5, <2>1, <2>2
<1> QED
  BY <1>1, <1>3, <1>14, <1>15, <1>16

\* A call without a preorder or without an inorder has an empty subtree.
LEMMA CallEmpty ==
    ASSUME NEW c, CallRight(c), c.preorder = << >> \/ c.inorder = << >>
    PROVE  Under(c.at) = {}
<1>1. ASSUME NEW seq, NEW q \in Seq(nodes), NumbersOf(seq, q), seq = << >>
      PROVE  DOMAIN q = {}
  BY <1>1 DEF NumbersOf
<1>2. CASE c.preorder = << >>
  BY <1>1, <1>2 DEF CallRight, PreorderRight
<1>3. CASE c.inorder = << >>
  BY <1>1, <1>3 DEF CallRight, InorderRight
<1> QED
  BY <1>2, <1>3

\* The two calls of a call are right, and the node is that of the root.
LEMMA CallCut ==
    ASSUME input \in Trees, NEW at \in Ways, NEW preorder, NEW inorder,
           PreorderRight(preorder, at), InorderRight(inorder, at), preorder # << >>, inorder # << >>
    PROVE  /\ at \in nodes /\ preorder[1] = input.number[at]
           /\ \E h \in Nat :
                 /\ Position(input.number[at], inorder) = h - 1
                 /\ h >= 1 /\ h <= Len(preorder) /\ h <= Len(inorder)
                 /\ PreorderRight(SubSeq(preorder, 2, h), Append(at, "left"))
                 /\ InorderRight(SubSeq(inorder, 1, h), Append(at, "left"))
                 /\ PreorderRight(SubSeq(preorder, h + 1, Len(preorder)), Append(at, "right"))
                 /\ InorderRight(SubSeq(inorder, h + 1, Len(inorder)), Append(at, "right"))
<1> DEFINE L == Under(Append(at, "left"))
           R == Under(Append(at, "right"))
<1>1. PICK q \in Seq(nodes) :
        /\ NumbersOf(preorder, q)
        /\ \A k, l \in DOMAIN q : k < l => PreorderBefore(q[k], q[l])
        /\ \A k \in DOMAIN q : q[k] \in Under(at)
        /\ \A p \in Under(at) : \E k \in DOMAIN q : q[k] = p
  BY DEF PreorderRight
<1>2. PICK r \in Seq(nodes) :
        /\ NumbersOf(inorder, r)
        /\ \A k, l \in DOMAIN r : k < l => InorderBefore(r[k], r[l])
        /\ \A k, l \in DOMAIN r : k < l /\ r[l] \in Under(at) => r[k] \in Under(at)
        /\ \A p \in Under(at) : \E k \in DOMAIN r : r[k] = p
  BY DEF InorderRight
<1>3. PICK n \in Nat : n = Len(q) /\ n = Len(preorder) /\ DOMAIN q = 1 .. n
  <2>1. preorder = [k \in 1 .. Len(q) |-> input.number[q[k]]] /\ Len(q) \in Nat /\ DOMAIN q = 1 .. Len(q)
    BY <1>1, LenProperties DEF NumbersOf
  <2>2. Len(preorder) = Len(q)
    BY <2>1
  <2> QED
    BY <2>1, <2>2
<1>4. PICK m \in Nat : m = Len(r) /\ m = Len(inorder) /\ DOMAIN r = 1 .. m
  <2>1. inorder = [k \in 1 .. Len(r) |-> input.number[r[k]]] /\ Len(r) \in Nat /\ DOMAIN r = 1 .. Len(r)
    BY <1>2, LenProperties DEF NumbersOf
  <2>2. Len(inorder) = Len(r)
    BY <2>1
  <2> QED
    BY <2>1, <2>2
<1>5. at \in nodes /\ at \in Under(at) /\ 1 \in DOMAIN q /\ q[1] = at
  <2>1. q # << >>
    BY <1>1 DEF NumbersOf
  <2> QED
    BY <1>1, <2>1, RootFirst
<1>6. preorder[1] = input.number[at]
  BY <1>1, <1>5 DEF NumbersOf
<1>7. PICK h \in DOMAIN r : r[h] = at
  BY <1>2, <1>5
<1>8. h \in Nat /\ h >= 1 /\ h <= m
  BY <1>4, <1>7
<1>9. \A a, b \in DOMAIN r : r[a] = r[b] => a = b
  BY <1>2, NoneTwice
<1>10. Position(input.number[at], inorder) = h - 1
  BY <1>2, <1>7, <1>9, PositionIs
<1>11. /\ \A k \in DOMAIN r : k < h => r[k] \in L
       /\ \A k \in DOMAIN r : h < k /\ r[k] \in Under(at) => r[k] \in R
       /\ \A p \in L : \E k \in DOMAIN r : k < h /\ r[k] = p
       /\ \A p \in R : \E k \in DOMAIN r : h < k /\ r[k] = p
  BY <1>2, <1>5, <1>7, InorderCut
<1>12. /\ h \in DOMAIN q
       /\ \A k \in DOMAIN q : k \in 2 .. h => q[k] \in L
       /\ \A k \in DOMAIN q : h < k => q[k] \in R
  <2> HIDE DEF L
  <2>1. /\ \A k \in DOMAIN r : k < h => r[k] \in Under(Append(at, "left"))
        /\ \A p \in Under(Append(at, "left")) : \E k \in DOMAIN r : k < h /\ r[k] = p
    BY <1>11 DEF L
  <2> QED
    BY <1>1, <1>5, <1>7, <1>9, <2>1, PreorderCut DEF L
<1>13. h <= n
  BY <1>3, <1>12
<1>14. \A p : ~(p \in L /\ p \in R) /\ (p \in L \/ p \in R => p \in Under(at) /\ p # at)
  BY OneSide, Sides
<1>15. PreorderRight(SubSeq(preorder, 2, h), Append(at, "left"))
  <2>1. h \in Int /\ 1 <= h /\ h <= Len(q) /\ h - 1 \in Nat /\ h - 1 = h - 1
    BY <1>3, <1>8, <1>13
  <2>2. PICK w \in Seq(nodes) :
          /\ NumbersOf(SubSeq(preorder, 2, h), w) /\ DOMAIN w = 1 .. h - 1
          /\ \A k \in 1 .. h - 1 : w[k] = q[k + 1]
    <3>1. PICK z \in Nat : z = h - 1
      BY <2>1
    <3> DEFINE a == 2
               o == 1
    <3>2. a \in Int /\ o \in Nat /\ a = o + 1 /\ o <= h /\ h \in Int /\ h <= Len(q) /\ z = h - o
      BY <2>1, <3>1
    <3>3. NumbersOf(preorder, q)
      BY <1>1
    <3> HIDE DEF a, o
    <3>4. PICK w \in Seq(nodes) :
            /\ NumbersOf(SubSeq(preorder, a, h), w) /\ DOMAIN w = 1 .. z
            /\ \A k \in 1 .. z : w[k] = q[k + o]
      BY <3>2, <3>3, PartOf
    <3> QED
      BY <3>1, <3>4 DEF a, o
  <2>3. \A k \in DOMAIN w : k \in Int /\ k + 1 \in DOMAIN q /\ k + 1 \in 2 .. h /\ w[k] = q[k + 1]
    BY <1>3, <1>8, <1>13, <2>2
  <2>4. \A k, l \in DOMAIN w : k < l => k + 1 < l + 1
    BY <2>3
  <2>5. ASSUME NEW p \in L
        PROVE  \E k \in DOMAIN w : w[k] = p
    <3>1. PICK k \in DOMAIN q : q[k] = p
      BY <1>1, <1>14
    <3>2. k # 1 /\ ~(h < k)
      BY <1>5, <1>12, <1>14, <3>1
    <3>3. k - 1 \in 1 .. h - 1 /\ (k - 1) + 1 = k
      BY <1>3, <1>8, <3>2
    <3> QED
      BY <2>2, <3>1, <3>3
  <2>6. \A k \in DOMAIN w : w[k] \in L
    BY <1>12, <2>3
  <2>7. \A k, l \in DOMAIN w : k < l => PreorderBefore(w[k], w[l])
    BY <1>1, <2>3, <2>4
  <2> QED
    BY <2>2, <2>5, <2>6, <2>7 DEF PreorderRight
<1>16. PreorderRight(SubSeq(preorder, h + 1, Len(preorder)), Append(at, "right"))
  <2>1. h + 1 \in Int /\ n \in Int /\ h \in Nat /\ h + 1 = h + 1 /\ h <= n /\ n <= Len(q) /\ n - h \in Nat /\ n - h = n - h
    BY <1>3, <1>8, <1>13
  <2>2. PICK w \in Seq(nodes) :
          /\ NumbersOf(SubSeq(preorder, h + 1, n), w) /\ DOMAIN w = 1 .. n - h
          /\ \A k \in 1 .. n - h : w[k] = q[k + h]
    BY <1>1, <2>1, PartOf
  <2>3. \A k \in DOMAIN w : k \in Int /\ k + h \in DOMAIN q /\ h < k + h /\ w[k] = q[k + h]
    <3>1. ASSUME NEW k \in 1 .. n - h
          PROVE  k \in Int /\ k + h \in 1 .. n /\ h < k + h
      BY <1>8
    <3> QED
      BY <1>3, <2>2, <3>1
  <2>4. \A k, l \in DOMAIN w : k < l => k + h < l + h
    BY <1>8, <2>3
  <2>5. ASSUME NEW p \in R
        PROVE  \E k \in DOMAIN w : w[k] = p
    <3>1. PICK k \in DOMAIN q : q[k] = p
      BY <1>1, <1>14
    <3>2. k # 1 /\ k \notin 2 .. h
      BY <1>5, <1>12, <1>14, <3>1
    <3>3. k - h \in 1 .. n - h /\ (k - h) + h = k
      BY <1>3, <1>8, <3>2
    <3> QED
      BY <2>2, <3>1, <3>3
  <2>6. \A k \in DOMAIN w : w[k] \in R
    BY <1>12, <2>3
  <2>7. \A k, l \in DOMAIN w : k < l => PreorderBefore(w[k], w[l])
    BY <1>1, <2>3, <2>4
  <2> QED
    BY <1>3, <2>2, <2>5, <2>6, <2>7 DEF PreorderRight
<1>17. InorderRight(SubSeq(inorder, 1, h), Append(at, "left"))
  <2>1. h \in Int /\ 0 <= h /\ h <= Len(r) /\ h \in Nat /\ h = h - 0
    BY <1>4, <1>8
  <2>2. PICK w \in Seq(nodes) :
          /\ NumbersOf(SubSeq(inorder, 1, h), w) /\ DOMAIN w = 1 .. h
          /\ \A k \in 1 .. h : w[k] = r[k + 0]
    <3> DEFINE a == 1
               o == 0
    <3>2. a \in Int /\ o \in Nat /\ a = o + 1 /\ o <= h /\ h \in Int /\ h \in Nat /\ h <= Len(r) /\ h = h - o
      BY <2>1
    <3>3. NumbersOf(inorder, r)
      BY <1>2
    <3> HIDE DEF a, o
    <3>4. PICK w \in Seq(nodes) :
            /\ NumbersOf(SubSeq(inorder, a, h), w) /\ DOMAIN w = 1 .. h
            /\ \A k \in 1 .. h : w[k] = r[k + o]
      BY <3>2, <3>3, PartOf
    <3> QED
      BY <3>4 DEF a, o
  <2>3. \A k \in DOMAIN w : k \in Int /\ k \in DOMAIN r /\ k <= h /\ w[k] = r[k]
    BY <1>4, <1>8, <2>2
  <2>4. ASSUME NEW p \in L
        PROVE  \E k \in DOMAIN w : w[k] = p
    <3>1. PICK k \in DOMAIN r : k < h /\ r[k] = p
      BY <1>11
    <3>2. k \in 1 .. h
      BY <1>4, <1>8, <3>1
    <3> QED
      BY <2>2, <3>1, <3>2
  <2>5. \A k, l \in DOMAIN w : k < l => w[k] \in L
    <3>1. \A k, l \in DOMAIN w : k < l => k < h
      BY <1>8, <2>3
    <3> QED
      BY <1>11, <2>3, <3>1
  <2>6. \A k, l \in DOMAIN w : k < l => InorderBefore(w[k], w[l])
    BY <1>2, <2>3
  <2> QED
    BY <2>2, <2>4, <2>5, <2>6 DEF InorderRight
<1>18. InorderRight(SubSeq(inorder, h + 1, Len(inorder)), Append(at, "right"))
  <2>1. h + 1 \in Int /\ m \in Int /\ h \in Nat /\ h + 1 = h + 1 /\ h <= m /\ m <= Len(r) /\ m - h \in Nat /\ m - h = m - h
    BY <1>4, <1>8
  <2>2. PICK w \in Seq(nodes) :
          /\ NumbersOf(SubSeq(inorder, h + 1, m), w) /\ DOMAIN w = 1 .. m - h
          /\ \A k \in 1 .. m - h : w[k] = r[k + h]
    BY <1>2, <2>1, PartOf, SMTT(60)
  <2>3. \A k \in DOMAIN w : k \in Int /\ k + h \in DOMAIN r /\ h < k + h /\ w[k] = r[k + h]
    BY <1>4, <1>8, <2>2
  <2>4. \A k, l \in DOMAIN w : k < l => k + h < l + h
    BY <1>8, <2>3
  <2>5. ASSUME NEW p \in R
        PROVE  \E k \in DOMAIN w : w[k] = p
    <3>1. PICK k \in DOMAIN r : h < k /\ r[k] = p
      BY <1>11
    <3>2. k - h \in 1 .. m - h /\ (k - h) + h = k
      BY <1>4, <1>8, <3>1
    <3> QED
      BY <2>2, <3>1, <3>2
  <2>6. ASSUME NEW k \in DOMAIN w, NEW l \in DOMAIN w, k < l, w[l] \in R
        PROVE  w[k] \in R
    <3>1. r[l + h] \in Under(at)
      BY <1>14, <2>3, <2>6
    <3>2. r[k + h] \in Under(at)
      BY <1>2, <2>3, <2>4, <2>6, <3>1
    <3> QED
      BY <1>11, <2>3, <3>2
  <2>7. \A k, l \in DOMAIN w : k < l => InorderBefore(w[k], w[l])
    BY <1>2, <2>3, <2>4
  <2> QED
    BY <1>4, <2>2, <2>5, <2>6, <2>7 DEF InorderRight
<1> QED
  BY <1>3, <1>4, <1>5, <1>6, <1>8, <1>10, <1>13, <1>15, <1>16, <1>17, <1>18

LEMMA PartTyped ==
    ASSUME NEW S, NEW t \in Seq(S), NEW a \in Nat, NEW b \in Nat, 1 <= a, b <= Len(t)
    PROVE  SubSeq(t, a, b) \in Seq(S)
<1>1. PICK n \in Nat : n = Len(t) /\ t \in [1 .. n -> S]
  BY LenProperties
<1>2. \A k \in a .. b : t[k] \in S
  BY <1>1
<1> QED
  BY <1>2, SubSeqProperties

LEMMA Prepended ==
    ASSUME NEW S, NEW l \in S, NEW r \in S, NEW t \in Seq(S), NEW n \in Nat, DOMAIN t = 1 .. n - 1, n >= 1
    PROVE  /\ <<l, r>> \o t \in Seq(S) /\ DOMAIN (<<l, r>> \o t) = 1 .. n + 1
           /\ (<<l, r>> \o t)[1] = l /\ (<<l, r>> \o t)[2] = r
           /\ \A k \in 1 .. n - 1 : (<<l, r>> \o t)[k + 2] = t[k]
<1>1. PICK u \in Seq(S) : u = <<l, r>> /\ Len(u) = 2 /\ u[1] = l /\ u[2] = r
  <2>1. <<l, r>> \in Seq(S)
    OBVIOUS
  <2>2. Len(<<l, r>>) = 2 /\ <<l, r>>[1] = l /\ <<l, r>>[2] = r
    OBVIOUS
  <2> QED
    BY <2>1, <2>2
<1>2. Len(t) = n - 1
  <2>1. Len(t) \in Nat /\ DOMAIN t = 1 .. Len(t)
    BY LenProperties
  <2> QED
    BY <2>1
<1>3. /\ u \o t \in Seq(S) /\ Len(u \o t) = n + 1
      /\ \A k \in 1 .. n + 1 : (u \o t)[k] = IF k <= 2 THEN u[k] ELSE t[k - 2]
  <2>1. /\ u \o t \in Seq(S) /\ Len(u \o t) = Len(u) + Len(t)
        /\ \A k \in 1 .. Len(u) + Len(t) : (u \o t)[k] = IF k <= Len(u) THEN u[k] ELSE t[k - Len(u)]
    BY ConcatProperties
  <2>2. Len(u) + Len(t) = n + 1
    BY <1>1, <1>2
  <2> QED
    BY <1>1, <2>1, <2>2
<1>4. DOMAIN (u \o t) = 1 .. n + 1
  BY <1>3, LenProperties
<1>5. (u \o t)[1] = l /\ (u \o t)[2] = r
  BY <1>1, <1>3
<1>6. ASSUME NEW k \in 1 .. n - 1
      PROVE  (u \o t)[k + 2] = t[k]
  <2>1. k + 2 \in 1 .. n + 1 /\ ~(k + 2 <= 2) /\ (k + 2) - 2 = k
    OBVIOUS
  <2> QED
    BY <1>3, <2>1
<1> QED
  BY <1>1, <1>3, <1>4, <1>5, <1>6

\* The operators of the invariant read only the input.
LEMMA InputKept ==
    ASSUME input' = input
    PROVE  /\ nodes' = nodes /\ Deductions' = Deductions
           /\ \A at : Under(at)' = Under(at)
           /\ \A c : CallRight(c)' <=> CallRight(c)
<1>1. nodes' = nodes
  BY DEF nodes
<1>2. \A at : Under(at)' = Under(at)
  BY <1>1 DEF Under
<1>3. \A seq, q : NumbersOf(seq, q)' <=> NumbersOf(seq, q)
  BY DEF NumbersOf
<1>4. \A preorder, at : PreorderRight(preorder, at)' <=> PreorderRight(preorder, at)
  BY <1>1, <1>2, <1>3 DEF PreorderRight
<1>5. \A inorder, at : InorderRight(inorder, at)' <=> InorderRight(inorder, at)
  BY <1>1, <1>2, <1>3 DEF InorderRight
<1>6. \A c : CallRight(c)' <=> CallRight(c)
  BY <1>4, <1>5 DEF CallRight
<1>7. Deductions' = Deductions
  BY <1>1 DEF Deductions
<1> QED
  BY <1>1, <1>2, <1>6, <1>7

LEMMA TreeNext ==
    ASSUME exercise' = exercise, input' = input, pc' \in {"turn", "returned"},
           input \in Trees, waiting' \in Seq(Deductions), pc' = "returned" => waiting' = << >>,
           \A x \in DOMAIN (waiting') : CallRight((waiting')[x]),
           tree' \subseteq {<<p, input.number[p]>> : p \in nodes},
           \A p \in nodes : \/ <<p, input.number[p]>> \in tree'
                            \/ \E x \in DOMAIN (waiting') : p \in Under((waiting')[x].at)
    PROVE  TreeInv'
<1>1. (\A x \in DOMAIN waiting : CallRight(waiting[x]))'
  BY InputKept
<1>2. (\A p \in nodes : \/ <<p, input.number[p]>> \in tree
                        \/ \E x \in DOMAIN waiting : p \in Under(waiting[x].at))'
  BY InputKept
<1>3. (tree \subseteq {<<p, input.number[p]>> : p \in nodes})'
  BY InputKept
<1>4. (waiting \in Seq(Deductions))'
  BY InputKept
<1> QED
  BY <1>1, <1>2, <1>3, <1>4 DEF TreeInv

LEMMA NumbersTyped ==
    ASSUME NEW S, NEW q \in Seq(S), NEW T, NEW g, \A x \in S : g[x] \in T
    PROVE  [k \in DOMAIN q |-> g[q[k]]] \in Seq(T)
<1>1. PICK n \in Nat : n = Len(q) /\ q \in [1 .. n -> S] /\ DOMAIN q = 1 .. n
  BY LenProperties
<1>2. [k \in 1 .. n |-> g[q[k]]] \in [1 .. n -> T]
  BY <1>1
<1> QED
  BY <1>1, <1>2

LEMMA TreeBegins ==
    ASSUME Init
    PROVE  TreeInv
<1> SUFFICES ASSUME exercise = "deduceTree"
             PROVE  TreeInv
  BY DEF TreeInv
<1> DEFINE numbers == {input.number[p] : p \in nodes}
           preorder == [k \in DOMAIN input.preorder |-> input.number[input.preorder[k]]]
           inorder == [k \in DOMAIN input.inorder |-> input.number[input.inorder[k]]]
<1>1. input \in Trees /\ pc = "turn" /\ tree = {} /\ waiting = <<Deduce(preorder, inorder, << >>)>>
  BY DEF Init, SortCalled, ExerciseCalled
<1>2. input.preorder \in Seq(nodes) /\ input.inorder \in Seq(nodes)
  BY <1>1, TreeIs
<1>3. preorder \in Seq(numbers) /\ inorder \in Seq(numbers)
  <2>1. \A x \in nodes : input.number[x] \in numbers
    OBVIOUS
  <2> HIDE DEF numbers
  <2> QED
    BY <1>2, <2>1, NumbersTyped
<1>4. << >> \in Ways
  BY EmptySeq DEF Ways
<1>5. Under(<< >>) = nodes
  <2>1. Len(<< >>) = 0 /\ \A p \in nodes : 0 <= Len(p)
    BY <1>1, TreeIs, WayIs
  <2> QED
    BY <2>1 DEF Under
<1>6. PreorderRight(preorder, << >>)
  <2>1. \A k \in DOMAIN input.preorder : input.preorder[k] \in nodes
    BY <1>2, LenProperties
  <2>2. NumbersOf(preorder, input.preorder)
    BY DEF NumbersOf
  <2>3. \A k, l \in DOMAIN input.preorder : k < l => PreorderBefore(input.preorder[k], input.preorder[l])
    BY <1>1, TreeIs
  <2>4. \A p \in Under(<< >>) : \E k \in DOMAIN input.preorder : input.preorder[k] = p
    BY <1>1, <1>5, TreeIs
  <2>5. \A k \in DOMAIN input.preorder : input.preorder[k] \in Under(<< >>)
    BY <1>5, <2>1
  <2> HIDE DEF preorder
  <2> QED
    <3>1. PICK q : q = input.preorder
      OBVIOUS
    <3> QED
      BY <1>2, <2>2, <2>3, <2>4, <2>5, <3>1 DEF PreorderRight
<1>7. InorderRight(inorder, << >>)
  <2>1. \A k \in DOMAIN input.inorder : input.inorder[k] \in nodes
    BY <1>2, LenProperties
  <2>2. NumbersOf(inorder, input.inorder)
    BY DEF NumbersOf
  <2>3. \A k, l \in DOMAIN input.inorder : k < l => InorderBefore(input.inorder[k], input.inorder[l])
    BY <1>1, TreeIs
  <2>4. \A p \in Under(<< >>) : \E k \in DOMAIN input.inorder : input.inorder[k] = p
    BY <1>1, <1>5, TreeIs
  <2>5. \A k, l \in DOMAIN input.inorder :
           k < l /\ input.inorder[l] \in Under(<< >>) => input.inorder[k] \in Under(<< >>)
    BY <1>5, <2>1
  <2> HIDE DEF inorder
  <2> QED
    <3>1. PICK q : q = input.inorder
      OBVIOUS
    <3> QED
      BY <1>2, <2>2, <2>3, <2>4, <2>5, <3>1 DEF InorderRight
<1> HIDE DEF preorder, inorder
<1>8. /\ Deduce(preorder, inorder, << >>) \in Deductions
      /\ CallRight(Deduce(preorder, inorder, << >>))
      /\ Deduce(preorder, inorder, << >>).at = << >>
  BY <1>3, <1>4, <1>6, <1>7 DEF Deduce, Deductions, CallRight
<1>9. PICK c : c = Deduce(preorder, inorder, << >>)
  OBVIOUS
<1>10. waiting \in Seq(Deductions) /\ DOMAIN waiting = {1} /\ waiting[1] = c
  BY <1>1, <1>8, <1>9
<1> QED
  BY <1>1, <1>5, <1>8, <1>9, <1>10 DEF TreeInv

LEMMA TreeStep ==
    ASSUME TreeInv, exercise = "deduceTree", TreeCall
    PROVE  TreeInv'
<1> DEFINE numbers == {input.number[p] : p \in nodes}
           pairs == {<<p, input.number[p]>> : p \in nodes}
           rest == Tail(waiting)
<1>1. pc = "turn" /\ waiting # << >> /\ UNCHANGED <<exercise, input, pc>>
  BY DEF TreeCall, arguments
<1>2. /\ input \in Trees /\ waiting \in Seq(Deductions) /\ tree \subseteq pairs
      /\ \A x \in DOMAIN waiting : CallRight(waiting[x])
      /\ \A p \in nodes :
            <<p, input.number[p]>> \in tree \/ \E x \in DOMAIN waiting : p \in Under(waiting[x].at)
  BY DEF TreeInv
<1>3. PICK c \in Deductions : c = Head(waiting)
  BY <1>1, <1>2, HeadTailProperties
<1>4. PICK n \in Nat : n = Len(waiting) /\ DOMAIN waiting = 1 .. n /\ n >= 1
  BY <1>1, <1>2, LenProperties, EmptySeq
<1>5. waiting[1] = c /\ CallRight(c)
  BY <1>2, <1>3, <1>4
<1>6. c.preorder \in Seq(numbers) /\ c.inorder \in Seq(numbers) /\ c.at \in Ways
  BY DEF Deductions
<1>7. rest \in Seq(Deductions) /\ DOMAIN rest = 1 .. n - 1 /\ \A k \in 1 .. n - 1 : rest[k] = waiting[k + 1]
  <2>1. /\ rest \in Seq(Deductions) /\ Len(rest) = n - 1
        /\ \A k \in 1 .. Len(rest) : rest[k] = waiting[k + 1]
    BY <1>1, <1>2, <1>4, HeadTailProperties
  <2> QED
    BY <2>1, LenProperties
<1>8. \A x \in DOMAIN rest : CallRight(rest[x])
  BY <1>2, <1>4, <1>7
<1>9. ASSUME NEW p \in nodes, <<p, input.number[p]>> \notin tree, p \notin Under(c.at)
      PROVE  \E x \in DOMAIN rest : p \in Under(rest[x].at)
  <2>1. PICK x \in DOMAIN waiting : p \in Under(waiting[x].at)
    BY <1>2, <1>9
  <2>2. x # 1
    BY <1>5, <1>9, <2>1
  <2>3. PICK y \in 1 .. n - 1 : x = y + 1
    BY <1>4, <2>2
  <2> QED
    BY <1>7, <2>1, <2>3
<1>10. CASE c.preorder = << >> \/ c.inorder = << >>
  <2>1. waiting' = rest /\ tree' = tree
    BY <1>3, <1>10 DEF TreeCall
  <2>2. Under(c.at) = {}
    BY <1>5, <1>10, CallEmpty
  <2> HIDE DEF rest
  <2> QED
    BY <1>1, <1>2, <1>7, <1>8, <1>9, <2>1, <2>2, TreeNext
<1>11. CASE c.preorder # << >> /\ c.inorder # << >>
  <2>1. PICK pre1, ino1, at : pre1 = c.preorder /\ ino1 = c.inorder /\ at = c.at
    OBVIOUS
  <2>2. PreorderRight(pre1, at) /\ InorderRight(ino1, at) /\ at \in Ways
    BY <1>5, <1>6, <2>1 DEF CallRight
  <2>3. /\ at \in nodes /\ pre1[1] = input.number[at]
        /\ \E h \in Nat :
              /\ Position(input.number[at], ino1) = h - 1
              /\ h >= 1 /\ h <= Len(pre1) /\ h <= Len(ino1)
              /\ PreorderRight(SubSeq(pre1, 2, h), Append(at, "left"))
              /\ InorderRight(SubSeq(ino1, 1, h), Append(at, "left"))
              /\ PreorderRight(SubSeq(pre1, h + 1, Len(pre1)), Append(at, "right"))
              /\ InorderRight(SubSeq(ino1, h + 1, Len(ino1)), Append(at, "right"))
    BY <1>2, <1>11, <2>1, <2>2, CallCut
  <2>4. PICK h \in Nat :
              /\ Position(input.number[at], ino1) = h - 1
              /\ h >= 1 /\ h <= Len(pre1) /\ h <= Len(ino1)
              /\ PreorderRight(SubSeq(pre1, 2, h), Append(at, "left"))
              /\ InorderRight(SubSeq(ino1, 1, h), Append(at, "left"))
              /\ PreorderRight(SubSeq(pre1, h + 1, Len(pre1)), Append(at, "right"))
              /\ InorderRight(SubSeq(ino1, h + 1, Len(ino1)), Append(at, "right"))
    BY <2>3
  <2> DEFINE l == Deduce(SubSeq(pre1, 2, h), SubSeq(ino1, 1, h), Append(at, "left"))
             r == Deduce(SubSeq(pre1, h + 1, Len(pre1)), SubSeq(ino1, h + 1, Len(ino1)),
                         Append(at, "right"))
  <2>5. Head(c.preorder) = input.number[at]
    BY <2>1, <2>3
  <2>6. tree' = tree \cup {<<at, input.number[at]>>} /\ waiting' = <<l, r>> \o rest
    <3>1. PICK mid : mid = Position(input.number[at], ino1)
      OBVIOUS
    <3>2. mid + 1 = h /\ mid + 2 = h + 1
      BY <2>4, <3>1
    <3>3. /\ tree' = tree \cup {<<c.at, input.number[at]>>}
          /\ waiting' = <<Deduce(SubSeq(pre1, 2, mid + 1), SubSeq(ino1, 1, mid + 1),
                                 Append(at, "left")),
                          Deduce(SubSeq(pre1, mid + 2, Len(pre1)),
                                 SubSeq(ino1, mid + 2, Len(ino1)),
                                 Append(at, "right"))>> \o rest
      BY <1>3, <1>11, <2>1, <2>5, <3>1 DEF TreeCall
    <3> QED
      BY <2>1, <3>2, <3>3
  <2>7. l \in Deductions /\ r \in Deductions
    <3> HIDE DEF numbers
    <3>1. pre1 \in Seq(numbers) /\ ino1 \in Seq(numbers)
      BY <1>6, <2>1
    <3>2. SubSeq(pre1, 2, h) \in Seq(numbers) /\ SubSeq(pre1, h + 1, Len(pre1)) \in Seq(numbers)
      BY <2>4, <3>1, PartTyped
    <3>3. SubSeq(ino1, 1, h) \in Seq(numbers) /\ SubSeq(ino1, h + 1, Len(ino1)) \in Seq(numbers)
      BY <2>4, <3>1, PartTyped
    <3>4. Append(at, "left") \in Ways /\ Append(at, "right") \in Ways
      BY <2>2, Turned
    <3> QED
      BY <3>2, <3>3, <3>4 DEF Deduce, Deductions, numbers
  <2>8. /\ CallRight(l) /\ l.at = Append(at, "left")
        /\ CallRight(r) /\ r.at = Append(at, "right")
    BY <2>4 DEF Deduce, CallRight
  <2> HIDE DEF l, r, rest
  <2>9. /\ waiting' \in Seq(Deductions) /\ DOMAIN (waiting') = 1 .. n + 1
        /\ (waiting')[1] = l /\ (waiting')[2] = r
        /\ \A k \in 1 .. n - 1 : (waiting')[k + 2] = rest[k]
    BY <1>4, <1>7, <2>6, <2>7, Prepended
  <2>10. ASSUME NEW x \in DOMAIN (waiting')
         PROVE  CallRight((waiting')[x])
    <3>1. PICK y \in 1 .. n + 1 : y = x
      BY <2>9
    <3>2. CASE y = 1 \/ y = 2
      BY <2>8, <2>9, <3>1, <3>2
    <3>3. CASE y # 1 /\ y # 2
      <4>1. y - 2 \in 1 .. n - 1 /\ (y - 2) + 2 = y
        BY <1>4, <3>3
      <4>2. (waiting')[x] = rest[y - 2]
        BY <2>9, <3>1, <4>1
      <4> QED
        BY <1>7, <1>8, <4>1, <4>2
    <3> QED
      BY <3>2, <3>3
  <2>11. ASSUME NEW p \in nodes, <<p, input.number[p]>> \notin tree'
         PROVE  \E x \in DOMAIN (waiting') : p \in Under((waiting')[x].at)
    <3>1. <<p, input.number[p]>> \notin tree /\ p # at
      BY <2>6, <2>11
    <3>2. 1 \in DOMAIN (waiting') /\ 2 \in DOMAIN (waiting')
      BY <1>4, <2>9
    <3>3. CASE p \in Under(c.at)
      <4>1. p \in Under(Append(at, "left")) \/ p \in Under(Append(at, "right"))
        BY <1>2, <2>1, <2>2, <3>1, <3>3, Sides
      <4> QED
        BY <2>8, <2>9, <3>2, <4>1
    <3>4. CASE p \notin Under(c.at)
      <4>1. PICK x \in DOMAIN rest : p \in Under(rest[x].at)
        BY <1>9, <3>1, <3>4
      <4>2. x + 2 \in DOMAIN (waiting') /\ (waiting')[x + 2] = rest[x]
        BY <1>4, <1>7, <2>9, <4>1
      <4> QED
        BY <4>1, <4>2
    <3> QED
      BY <3>3, <3>4
  <2>12. tree' \subseteq pairs
    BY <1>2, <2>3, <2>6
  <2> QED
    BY <1>1, <1>2, <2>9, <2>10, <2>11, <2>12, TreeNext
<1> QED
  BY <1>10, <1>11

LEMMA TreeKept ==
    ASSUME TreeInv, [Next]_vars
    PROVE  TreeInv'
<1> SUFFICES ASSUME exercise = "deduceTree"
             PROVE  TreeInv'
  BY ArgumentsKept DEF TreeInv
<1>1. TreeCall \/ Return \/ UNCHANGED vars
  BY Steps DEF TreeInv
<1>2. CASE Return \/ UNCHANGED vars
  <2>1. /\ UNCHANGED <<exercise, input, waiting, tree>>
        /\ pc' = pc \/ (pc' = "returned" /\ waiting = << >>)
    BY <1>2 DEF Return, vars, arguments, links
  <2>2. /\ input \in Trees /\ pc \in {"turn", "returned"}
        /\ waiting \in Seq(Deductions)
        /\ \A x \in DOMAIN waiting : CallRight(waiting[x])
        /\ tree \subseteq {<<p, input.number[p]>> : p \in nodes}
        /\ \A p \in nodes :
              <<p, input.number[p]>> \in tree \/ \E x \in DOMAIN waiting : p \in Under(waiting[x].at)
        /\ pc = "returned" => waiting = << >>
    BY DEF TreeInv
  <2> QED
    BY <2>1, <2>2, TreeNext
<1> QED
  BY <1>1, <1>2, TreeStep

\* For trees of every shape: deduceTree gives the tree with the preorder and the inorder it
\* is given, although the inorder of a left side has the node itself behind it.
THEOREM TreeRight == Spec => []TreeDeduced
<1>1. TreeInv => TreeDeduced
  <2> SUFFICES ASSUME TreeInv, exercise = "deduceTree", pc = "returned"
               PROVE  TreeDeduced
    BY DEF TreeDeduced, Returned
  <2>1. /\ tree \subseteq {<<p, input.number[p]>> : p \in nodes}
        /\ \A p \in nodes : <<p, input.number[p]>> \in tree
    BY DEF TreeInv
  <2> QED
    BY <2>1 DEF TreeDeduced, nodes
<1> QED
  BY <1>1, TreeBegins, TreeKept, PTL DEF Spec
-----------------------------------------------------------------------------
(***************************************************************************)
(* replaceSpace                                                             *)
(***************************************************************************)
\* What replaceSpace writes for the character at k.
Written(k) ==
    IF input[k] = space
    THEN s[Moved(k)] = "%" /\ s[Moved(k) + 1] = "2" /\ s[Moved(k) + 2] = "0"
    ELSE s[Moved(k)] = input[k]

\* replaceSpace: what is behind i is written, and the rest is as it was.
SpacesInv ==
    exercise = "replaceSpace" =>
        /\ input \in Strings /\ pc \in {"call", "turn", "returned"}
        /\ pc \in {"turn", "returned"} =>
              /\ i \in -1 .. Size(input) - 1 /\ j = Moved(i + 1) - 1
              /\ DOMAIN s = 0 .. Moved(Size(input)) - 1
              /\ \A k \in 0 .. i : s[k] = input[k]
              /\ \A k \in i + 1 .. Size(input) - 1 : Written(k)
        /\ pc = "returned" => i >= j

LEMMA StringIs ==
    ASSUME input \in Strings
    PROVE  /\ Size(input) \in Nat /\ DOMAIN input = 0 .. Size(input) - 1
           /\ Indices(input) = 0 .. Size(input) - 1
<1>1. IsVector(input, {input[k] : k \in DOMAIN input})
  BY ExercisesAssumption DEF ExercisesAssumption
<1> QED
  BY <1>1, VectorIs DEF Indices

\* A character moves by two places for each space before it.
LEMMA SpacesCounted ==
    ASSUME NEW n \in Nat
    PROVE  /\ IsFiniteSet(Spaces(input, n)) /\ Cardinality(Spaces(input, n)) \in Nat
           /\ Moved(n) \in Int /\ n <= Moved(n)
           /\ Moved(n) = n => \A k \in 0 .. n - 1 : input[k] # space
<1>1. IsFiniteSet(0 .. n - 1)
  BY FS_Interval
<1>2. Spaces(input, n) \subseteq 0 .. n - 1
  BY DEF Spaces
<1>3. IsFiniteSet(Spaces(input, n)) /\ Cardinality(Spaces(input, n)) \in Nat
  BY <1>1, <1>2, FS_Subset, FS_CardinalityType
<1>4. PICK c \in Nat : c = Cardinality(Spaces(input, n))
  BY <1>3
<1>5. Moved(n) = n + 2 * c
  BY <1>4 DEF Moved
<1>6. c = 0 => Spaces(input, n) = {}
  BY <1>3, <1>4, FS_EmptySet
<1>7. Moved(n) = n => c = 0
  BY <1>5
<1>8. Spaces(input, n) = {} => \A k \in 0 .. n - 1 : input[k] # space
  BY DEF Spaces
<1>9. Moved(n) \in Int /\ n <= Moved(n)
  BY <1>5
<1>10. Moved(n) = n => \A k \in 0 .. n - 1 : input[k] # space
  BY <1>6, <1>7, <1>8
<1> QED
  BY <1>3, <1>9, <1>10

LEMMA SpacesGrow ==
    ASSUME NEW n \in Nat
    PROVE  /\ input[n] = space => Moved(n + 1) = Moved(n) + 3
           /\ input[n] # space => Moved(n + 1) = Moved(n) + 1
<1>1. IsFiniteSet(Spaces(input, n)) /\ Cardinality(Spaces(input, n)) \in Nat
  BY SpacesCounted
<1>2. n \notin Spaces(input, n)
  <2>1. n \notin 0 .. n - 1
    OBVIOUS
  <2> QED
    BY <2>1 DEF Spaces
<1>3. \A k : k \in 0 .. (n + 1) - 1 <=> k \in 0 .. n - 1 \/ k = n
  OBVIOUS
<1>6. PICK c \in Nat : c = Cardinality(Spaces(input, n))
  BY <1>1
<1>7. Moved(n) = n + 2 * c
  BY <1>6 DEF Moved
<1>4. CASE input[n] = space
  <2>1. Spaces(input, n + 1) = Spaces(input, n) \cup {n}
    BY <1>3, <1>4 DEF Spaces
  <2>2. Cardinality(Spaces(input, n + 1)) = Cardinality(Spaces(input, n)) + 1
    BY <1>1, <1>2, <2>1, FS_AddElement
  <2>3. Moved(n + 1) = n + 1 + 2 * (c + 1)
    BY <1>6, <2>2 DEF Moved
  <2>4. n + 1 + 2 * (c + 1) = n + 2 * c + 3
    OBVIOUS
  <2> QED
    BY <1>4, <1>7, <2>3, <2>4
<1>5. CASE input[n] # space
  <2>1. Spaces(input, n + 1) = Spaces(input, n)
    BY <1>3, <1>5 DEF Spaces
  <2>2. Moved(n + 1) = n + 1 + 2 * c
    BY <1>6, <2>1 DEF Moved
  <2>3. n + 1 + 2 * c = n + 2 * c + 1
    OBVIOUS
  <2> QED
    BY <1>5, <1>7, <2>2, <2>3
<1> QED
  BY <1>4, <1>5

LEMMA MovedAscends ==
    ASSUME NEW m \in Nat, NEW n \in Nat, m <= n
    PROVE  Moved(m) <= Moved(n)
<1>1. Spaces(input, m) \subseteq Spaces(input, n)
  <2>1. \A k \in 0 .. m - 1 : k \in 0 .. n - 1
    OBVIOUS
  <2> QED
    BY <2>1 DEF Spaces
<1>2. /\ IsFiniteSet(Spaces(input, n)) /\ Cardinality(Spaces(input, n)) \in Nat
      /\ Cardinality(Spaces(input, m)) \in Nat
  BY SpacesCounted
<1>3. Cardinality(Spaces(input, m)) <= Cardinality(Spaces(input, n))
  BY <1>1, <1>2, FS_Subset
<1>4. PICK c, d \in Nat : /\ c = Cardinality(Spaces(input, m)) /\ d = Cardinality(Spaces(input, n))
                          /\ c <= d
  BY <1>2, <1>3
<1>5. m + 2 * c <= n + 2 * d
  BY <1>4
<1> QED
  BY <1>4, <1>5 DEF Moved

LEMMA SpacesBegin ==
    ASSUME Init
    PROVE  SpacesInv
<1> SUFFICES ASSUME exercise = "replaceSpace"
             PROVE  SpacesInv
  BY DEF SpacesInv
<1>1. input \in Strings /\ pc = "call"
  BY DEF Init, SortCalled, ExerciseCalled
<1> QED
  BY <1>1 DEF SpacesInv

LEMMA ReplaceCallStep ==
    ASSUME SpacesInv, exercise = "replaceSpace", ReplaceCall
    PROVE  SpacesInv'
<1>1. /\ exercise' = exercise /\ input' = input /\ pc' = "turn" /\ i' = Size(input) - 1
      /\ j' = Moved(Size(input)) - 1
      /\ s' = [k \in 0 .. Moved(Size(input)) - 1 |-> IF k < Size(input) THEN input[k] ELSE "nul"]
  BY DEF ReplaceCall, Moved, arguments
<1>2. input \in Strings
  BY DEF SpacesInv
<1>3. PICK n \in Nat : n = Size(input)
  BY <1>2, StringIs
<1>4. n <= Moved(n) /\ Moved(n) \in Int
  BY SpacesCounted
<1>5. PICK e \in Int : e = Moved(n)
  BY <1>4
<1>6. i' \in -1 .. n - 1 /\ i' + 1 = n
  BY <1>1, <1>3
<1>7. s' = [k \in 0 .. e - 1 |-> IF k < n THEN input[k] ELSE "nul"]
  BY <1>1, <1>3, <1>5
<1>8. \A k \in 0 .. n - 1 : s'[k] = input[k]
  BY <1>4, <1>5, <1>7
<1>9. \A k : Moved(k)' = Moved(k)
  BY <1>1 DEF Moved, Spaces
<1>10. Size(input)' = Size(input)
  BY <1>1 DEF Size
<1>11. \A k \in n .. n - 1 : FALSE
  OBVIOUS
<1>12. \A k \in 0 .. i' : s'[k] = input'[k]
  BY <1>1, <1>3, <1>8
<1>13. \A k \in i' + 1 .. n - 1 : FALSE
  BY <1>6, <1>11
<1>14. DOMAIN s' = 0 .. Moved(n) - 1
  BY <1>5, <1>7
<1> QED
  BY <1>1, <1>2, <1>3, <1>6, <1>9, <1>10, <1>12, <1>13, <1>14 DEF SpacesInv

LEMMA ReplaceStep ==
    ASSUME SpacesInv, exercise = "replaceSpace", ReplaceTurn
    PROVE  SpacesInv'
<1>1. /\ pc = "turn" /\ pc' = pc /\ exercise' = exercise /\ input' = input /\ i < j /\ i' = i - 1
  BY DEF ReplaceTurn, arguments
<1>2. /\ input \in Strings /\ i \in -1 .. Size(input) - 1 /\ j = Moved(i + 1) - 1
      /\ DOMAIN s = 0 .. Moved(Size(input)) - 1
      /\ \A k \in 0 .. i : s[k] = input[k]
      /\ \A k \in i + 1 .. Size(input) - 1 : Written(k)
  BY <1>1 DEF SpacesInv
<1>3. PICK n \in Nat : n = Size(input)
  BY <1>2, StringIs
<1>4. PICK a \in Int : a = i /\ a \in -1 .. n - 1
  BY <1>2, <1>3
<1>5. PICK M \in [Nat -> Int] : \A k \in Nat : M[k] = Moved(k)
  <2>1. [k \in Nat |-> Moved(k)] \in [Nat -> Int]
    BY SpacesCounted
  <2> QED
    BY <2>1
<1>6. /\ \A k \in Nat : k <= M[k]
      /\ \A k \in Nat :
            (input[k] = space => M[k + 1] = M[k] + 3) /\ (input[k] # space => M[k + 1] = M[k] + 1)
      /\ \A k, l \in Nat : k <= l => M[k] <= M[l]
  <2>1. ASSUME NEW k \in Nat
        PROVE  /\ k <= M[k]
               /\ (input[k] = space => M[k + 1] = M[k] + 3) /\ (input[k] # space => M[k + 1] = M[k] + 1)
    <3>1. k + 1 \in Nat
      OBVIOUS
    <3> QED
      BY <1>5, <3>1, SpacesCounted, SpacesGrow
  <2>2. ASSUME NEW k \in Nat, NEW l \in Nat, k <= l
        PROVE  M[k] <= M[l]
    BY <1>5, <2>2, MovedAscends
  <2> QED
    BY <2>1, <2>2
<1>7. a >= 0
  <2>1. CASE a = -1
    <3>1. Moved(0) = 0
      <4>1. Spaces(input, 0) = {}
        BY DEF Spaces
      <4> QED
        BY <4>1, FS_EmptySet DEF Moved
    <3>2. j = -1
      BY <1>2, <1>4, <2>1, <3>1
    <3> QED
      BY <1>1, <1>4, <2>1, <3>2
  <2> QED
    BY <1>4, <2>1
<1>8. a \in Nat /\ a + 1 \in Nat /\ n \in Nat /\ j = M[a + 1] - 1 /\ j \in Int
  BY <1>2, <1>4, <1>5, <1>7
<1>9. PICK p \in Int : p = M[a]
  BY <1>5, <1>8
<1>17. PICK b \in Int : b = M[a + 1]
  BY <1>5, <1>8
<1>18. PICK e \in Int : e = M[n]
  BY <1>5, <1>8
<1>10. /\ a <= p /\ p < b /\ b <= e /\ j = b - 1
       /\ (input[a] = space => b = p + 3) /\ (input[a] # space => b = p + 1)
       /\ s[a] = input[a] /\ DOMAIN s = 0 .. e - 1
  <2>1. a + 1 <= n /\ a \in 0 .. i
    BY <1>4, <1>7
  <2>2. M[n] = Moved(Size(input))
    BY <1>3, <1>5
  <2>3. (input[a] = space => b = p + 3) /\ (input[a] # space => b = p + 1)
    BY <1>6, <1>8, <1>9, <1>17, <1>18
  <2>4. a <= p /\ b <= e
    BY <1>6, <1>8, <1>9, <1>17, <1>18, <2>1
  <2> QED
    BY <1>2, <1>4, <1>8, <1>9, <1>17, <1>18, <2>1, <2>2, <2>3, <2>4, SMTT(60)
<1>11. \A k : Moved(k)' = Moved(k)
  BY <1>1 DEF Moved, Spaces
<1>12. Size(input)' = Size(input)
  BY <1>1 DEF Size
<1>13. ASSUME NEW k \in a + 1 .. n - 1
       PROVE  k \in Nat /\ b <= M[k] /\ M[k + 1] <= e
  <2>1. k \in Nat /\ k + 1 \in Nat /\ a + 1 <= k /\ k + 1 <= n
    BY <1>8
  <2> QED
    BY <1>6, <1>8, <1>9, <1>17, <1>18, <2>1
<1>14. ASSUME NEW w, \A k \in a + 1 .. n - 1 : Written(k), DOMAIN w = DOMAIN s,
              \A k \in DOMAIN s : k < p \/ b <= k => w[k] = s[k],
              input[a] = space => w[p] = "%" /\ w[p + 1] = "2" /\ w[p + 2] = "0",
              input[a] # space => w[p] = input[a],
              s' = w, j' = p - 1
       PROVE  SpacesInv'
  <2>1. i' \in -1 .. n - 1 /\ i' = a - 1 /\ i' + 1 = a
    BY <1>1, <1>4, <1>7
  <2>2. j' = Moved(a) - 1
    BY <1>5, <1>8, <1>9, <1>17, <1>18, <1>14
  <2>3. \A k \in 0 .. a - 1 : s'[k] = input[k]
    <3>1. ASSUME NEW k \in 0 .. a - 1
          PROVE  s'[k] = input[k]
      <4>1. k < p /\ k \in 0 .. e - 1
        BY <1>8, <1>10
      <4>2. s[k] = input[k]
        BY <1>2, <1>4, <1>8
      <4> QED
        BY <1>10, <1>14, <4>1, <4>2
    <3> QED
      BY <3>1
  <2>4. ASSUME NEW k \in a .. n - 1
        PROVE  IF input[k] = space
               THEN w[M[k]] = "%" /\ w[M[k] + 1] = "2" /\ w[M[k] + 2] = "0"
               ELSE w[M[k]] = input[k]
    <3>1. CASE k = a
      BY <1>9, <1>14, <3>1
    <3>2. CASE k # a
      <4>1. k \in a + 1 .. n - 1
        BY <1>8, <3>2
      <4>2. PICK q \in Int : q = M[k]
        BY <1>5, <1>13, <4>1
      <4>3. b <= q /\ M[k + 1] <= e /\ k \in Nat
        BY <1>13, <4>1, <4>2
      <4>4. b >= 0
        BY <1>8, <1>10
      <4>5. (input[k] = space => q + 3 <= e) /\ (input[k] # space => q + 1 <= e)
        BY <1>6, <4>2, <4>3
      <4>6. Written(k) /\ Moved(k) = q
        BY <1>5, <1>13, <1>14, <4>1, <4>2
      <4>7. CASE input[k] = space
        <5>0. 0 <= q /\ q + 3 <= e
          BY <4>3, <4>4, <4>5, <4>7
        <5>1. q \in DOMAIN s /\ q + 1 \in DOMAIN s /\ q + 2 \in DOMAIN s
          <6>1. PICK x \in Int : x = e /\ DOMAIN s = 0 .. x - 1
            BY <1>10, <1>18
          <6> QED
            BY <5>0, <6>1
        <5>2. w[q] = s[q] /\ w[q + 1] = s[q + 1] /\ w[q + 2] = s[q + 2]
          BY <1>14, <4>3, <5>1
        <5> QED
          BY <4>2, <4>6, <4>7, <5>2 DEF Written
      <4>8. CASE input[k] # space
        <5>1. q \in DOMAIN s
          BY <1>10, <4>3, <4>4, <4>5, <4>8
        <5>2. w[q] = s[q]
          BY <1>14, <4>3, <5>1
        <5> QED
          BY <4>2, <4>6, <4>8, <5>2 DEF Written
      <4> QED
        BY <4>7, <4>8
    <3> QED
      BY <3>1, <3>2
  <2>5. \A k \in a .. n - 1 : Written(k)'
    <3>1. ASSUME NEW k \in a .. n - 1
          PROVE  Written(k)'
      <4>1. k \in Nat
        BY <1>8
      <4>2. Moved(k)' = M[k]
        BY <1>5, <1>11, <4>1
      <4> QED
        BY <1>1, <1>14, <2>4, <4>2 DEF Written
    <3> QED
      BY <3>1
  <2>6. DOMAIN s' = 0 .. Moved(n) - 1
    BY <1>5, <1>8, <1>10, <1>14, <1>18
  <2> QED
    BY <1>1, <1>2, <1>3, <1>11, <1>12, <2>1, <2>2, <2>3, <2>5, <2>6 DEF SpacesInv
<1>15. CASE input[a] # space
  <2>1. s' = [s EXCEPT ![j] = s[i]] /\ j' = j - 1
    BY <1>4, <1>10, <1>15 DEF ReplaceTurn
  <2>2. j = p /\ b = p + 1
    BY <1>10, <1>15
  <2>3. p \in DOMAIN s
    BY <1>8, <1>10, <2>2
  <2> DEFINE w == [s EXCEPT ![p] = input[a]]
  <2>4. DOMAIN w = DOMAIN s /\ w[p] = input[a] /\ \A k \in DOMAIN s : k # p => w[k] = s[k]
    BY <2>3
  <2>5. \A k \in DOMAIN s : k < p \/ b <= k => w[k] = s[k]
    BY <1>10, <2>2, <2>4
  <2>6. s' = w /\ j' = p - 1
    BY <1>4, <1>10, <2>1, <2>2
  <2> HIDE DEF w
  <2> QED
    BY <1>2, <1>3, <1>4, <1>14, <1>15, <2>4, <2>5, <2>6
<1>16. CASE input[a] = space
  <2>1. s' = [s EXCEPT ![j] = "0", ![j - 1] = "2", ![j - 2] = "%"] /\ j' = j - 3
    BY <1>4, <1>10, <1>16 DEF ReplaceTurn
  <2>2. j = p + 2 /\ b = p + 3
    BY <1>10, <1>16
  <2>3. p \in DOMAIN s /\ p + 1 \in DOMAIN s /\ p + 2 \in DOMAIN s
    BY <1>8, <1>10, <2>2
  <2> DEFINE w == [s EXCEPT ![p + 2] = "0", ![p + 1] = "2", ![p] = "%"]
  <2>4. /\ DOMAIN w = DOMAIN s /\ w[p] = "%" /\ w[p + 1] = "2" /\ w[p + 2] = "0"
        /\ \A k \in DOMAIN s : k # p /\ k # p + 1 /\ k # p + 2 => w[k] = s[k]
    BY <2>3
  <2>5. ASSUME NEW k \in DOMAIN s, k < p \/ b <= k
        PROVE  w[k] = s[k]
    <3>1. k \in Int
      BY <1>10
    <3>2. k # p /\ k # p + 1 /\ k # p + 2
      BY <2>2, <2>5, <3>1
    <3> QED
      BY <2>4, <3>2
  <2>6. s' = w /\ j' = p - 1
    <3>1. j - 1 = p + 1 /\ j - 2 = p /\ j - 3 = p - 1
      BY <2>2
    <3> QED
      BY <2>1, <2>2, <3>1
  <2> HIDE DEF w
  <2> QED
    BY <1>2, <1>3, <1>4, <1>14, <1>16, <2>4, <2>5, <2>6
<1> QED
  BY <1>15, <1>16

LEMMA SpacesKept ==
    ASSUME SpacesInv, [Next]_vars
    PROVE  SpacesInv'
<1> SUFFICES ASSUME exercise = "replaceSpace"
             PROVE  SpacesInv'
  BY ArgumentsKept DEF SpacesInv
<1>1. ReplaceCall \/ ReplaceTurn \/ Return \/ UNCHANGED vars
  BY Steps DEF SpacesInv
<1>2. UNCHANGED <<exercise, input, i, j, s>>
         /\ (pc' = pc \/ (pc = "turn" /\ pc' = "returned" /\ i >= j)) => SpacesInv'
  BY DEF SpacesInv, Written, Moved, Spaces, Size
<1>3. CASE Return
  <2>1. pc = "turn" /\ pc' = "returned" /\ i >= j /\ UNCHANGED <<exercise, input, i, j, s>>
    BY <1>3 DEF Return, arguments, loops, links
  <2> QED
    BY <1>2, <2>1
<1>4. CASE UNCHANGED vars
  <2>1. UNCHANGED <<exercise, input, pc, i, j, s>>
    BY <1>4 DEF vars, arguments, loops, links
  <2> QED
    BY <1>2, <2>1
<1> QED
  BY <1>1, <1>3, <1>4, ReplaceCallStep, ReplaceStep

\* For every string: replaceSpace returns it with %20 for every space.
THEOREM SpacesRight == Spec => []SpacesReplaced
<1>1. SpacesInv => SpacesReplaced
  <2> SUFFICES ASSUME SpacesInv, exercise = "replaceSpace", pc = "returned"
               PROVE  SpacesReplaced
    BY DEF SpacesReplaced, Returned
  <2>1. /\ input \in Strings /\ i \in -1 .. Size(input) - 1 /\ j = Moved(i + 1) - 1 /\ i >= j
        /\ DOMAIN s = 0 .. Moved(Size(input)) - 1
        /\ \A k \in 0 .. i : s[k] = input[k]
        /\ \A k \in i + 1 .. Size(input) - 1 : Written(k)
    BY DEF SpacesInv
  <2>2. PICK n \in Nat : n = Size(input) /\ Indices(input) = 0 .. n - 1
    BY <2>1, StringIs
  <2>3. PICK a \in -1 .. n - 1 : a = i
    BY <2>1, <2>2
  <2>9. a + 1 \in Nat
    BY <2>2, <2>3
  <2>4. a + 1 \in Nat /\ Moved(a + 1) \in Int /\ a + 1 <= Moved(a + 1)
    BY <2>9, SpacesCounted
  <2>5. Moved(a + 1) = a + 1
    BY <2>1, <2>3, <2>4
  <2>6. \A k \in 0 .. a : input[k] # space
    <3>1. PICK m \in Nat : m = a + 1 /\ m - 1 = a
      BY <2>3, <2>9
    <3>2. \A k \in 0 .. m - 1 : input[k] # space
      BY <2>5, <3>1, SpacesCounted
    <3> QED
      BY <3>1, <3>2
  <2>7. ASSUME NEW k \in 0 .. a
        PROVE  Written(k)
    <3>1. k \in Nat /\ \A l \in 0 .. k - 1 : l \in 0 .. a
      OBVIOUS
    <3>2. Spaces(input, k) = {}
      BY <2>6, <3>1 DEF Spaces
    <3>3. Moved(k) = k
      BY <3>1, <3>2, FS_EmptySet DEF Moved
    <3> QED
      BY <2>1, <2>3, <2>6, <2>7, <3>3 DEF Written
  <2>8. \A k \in Indices(input) : Written(k)
    <3>1. \A k \in 0 .. n - 1 : k \in 0 .. a \/ k \in a + 1 .. n - 1
      BY <2>3
    <3> QED
      BY <2>1, <2>2, <2>3, <2>7, <3>1
  <2> QED
    BY <2>1, <2>8 DEF SpacesReplaced, Written
<1> QED
  BY <1>1, SpacesBegin, SpacesKept, PTL DEF Spec
-----------------------------------------------------------------------------
(***************************************************************************)
(* All six                                                                  *)
(***************************************************************************)

\* For inputs of every size and targets of every value: what the six exercises return is
\* right for any input, and complete for an input that is in order.
THEOREM AnswersAreRight == Spec => []AnswersRight
<1>1. (SearchFinds /\ DuplicatesFound /\ MatrixFinds /\ ListReversed /\ TreeDeduced /\ SpacesReplaced)
        => AnswersRight
  BY DEF AnswersRight
<1> QED
  BY <1>1, BinaryFinds, DuplicatesRight, MatrixRight, ListRight, TreeRight, SpacesRight, PTL
=============================================================================
