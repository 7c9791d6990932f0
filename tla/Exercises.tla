------------------------------ MODULE Exercises ------------------------------
(***************************************************************************)
(* The exercises of lc/: five sorts and a search (bubbleSort.cpp),          *)
(* findDuplicates and searchMatrix (vectors.cpp), list.cpp, binaryTree.cpp  *)
(* and strings.cpp.  The initial state chooses one of them and its input,   *)
(* and an action is a turn of a loop or a call of a recursive function.     *)
(* A vector or a string is a function from 0 .. n - 1, a matrix a vector of *)
(* rows.                                                                    *)
(***************************************************************************)
EXTENDS Integers, FiniteSets, Sequences, Functions

CONSTANTS
    Vectors,    \* for the sorts and binarySearch
    Numbers,    \* for findDuplicates
    Matrices,   \* for searchMatrix
    Targets,    \* what the searches look for
    Lengths,    \* of the lists
    Trees,      \* for deduceTree
    Strings     \* for replaceSpace

Size(d) == Cardinality(DOMAIN d)
Indices(d) == 0 .. Size(d) - 1
IsVector(d, S) == IsFiniteSet(DOMAIN d) /\ d \in [Indices(d) -> S]

\* Lines 13 to 14 of vectors.cpp: numbers from 1 to n, each one once or twice.
OnceOrTwice(d) ==
    /\ IsVector(d, 1 .. Size(d))
    /\ \A k, l, m \in Indices(d) : k < l /\ l < m => ~(d[k] = d[l] /\ d[l] = d[m])

\* Every row has as many elements as the first.
IsMatrix(d) ==
    /\ IsVector(d, {d[r] : r \in DOMAIN d})
    /\ \A r \in Indices(d) : IsVector(d[r], Int) /\ DOMAIN d[r] = DOMAIN d[0]

\* A node of a tree is its way from the root, and the orders of nodes are those of lines 17
\* and 18 of binaryTree.cpp: a node, its left and its right; or the node between the two.
Above(p, q) == Len(p) < Len(q) /\ \A k \in DOMAIN p : p[k] = q[k]
Beside(p, q) ==
    \E k \in DOMAIN p \cap DOMAIN q :
        p[k] = "left" /\ q[k] = "right" /\ \A l \in 1 .. k - 1 : p[l] = q[l]
PreorderBefore(p, q) == Above(p, q) \/ Beside(p, q)
InorderBefore(p, q) ==
    \/ Beside(p, q)
    \/ Above(p, q) /\ q[Len(p) + 1] = "right"
    \/ Above(q, p) /\ p[Len(q) + 1] = "left"

\* A tree has a number at each node, no number twice, and comes with its traversals.
IsTree(d) ==
    LET nodes == DOMAIN d.number IN
    /\ \A p \in nodes : p \in Seq({"left", "right"}) /\ \A k \in 0 .. Len(p) : SubSeq(p, 1, k) \in nodes
    /\ \A p, q \in nodes : d.number[p] = d.number[q] => p = q
    /\ d.preorder \in Seq(nodes) /\ d.inorder \in Seq(nodes)
    /\ \A p \in nodes : \E k \in DOMAIN d.preorder, l \in DOMAIN d.inorder :
           p = d.preorder[k] /\ p = d.inorder[l]
    /\ \A k, l \in DOMAIN d.preorder : k < l => PreorderBefore(d.preorder[k], d.preorder[l])
    /\ \A k, l \in DOMAIN d.inorder : k < l => InorderBefore(d.inorder[k], d.inorder[l])

ExercisesAssumption ==
    /\ \A d \in Vectors : IsVector(d, Int)
    /\ \A d \in Numbers : OnceOrTwice(d)
    /\ \A d \in Matrices : IsMatrix(d)
    /\ Targets \subseteq Int
    /\ Lengths \subseteq Nat
    /\ \A d \in Trees : IsTree(d)
    /\ \A d \in Strings : IsVector(d, {d[k] : k \in DOMAIN d})
ASSUME ExercisesAssumption

VARIABLES
    exercise,           \* "sort" or the function that runs
    input, target,      \* its arguments; only searches have a target
    pc,                 \* the loop it is in, "call", "turn", "returned" or "thrown"
    i, j,               \* of the sorts, findDuplicates and replaceSpace
    datas,              \* the vector that is sorted
    calls,              \* of quickSort and mergeSort: what is left of all calls, in order
    low, high, key,     \* of the running call of quickSort
    dataTemp,           \* of mergeSort
    begin1, begin2, index,
    left, right, place, \* of binarySearch; it returns place
    nums, res,          \* of findDuplicates, which changes its vector; it returns res
    index_m, index_n, found,        \* of searchMatrix; it returns found
    next, pre, cur, printed, deleted,   \* of the list
    waiting, tree,      \* of deduceTree: what is left of all calls, and the tree it makes
    s                   \* of replaceSpace

arguments == <<exercise, input, target>>
loops == <<i, j>>
partition == <<low, high, key>>
merging == <<dataTemp, begin1, begin2, index>>
sorting == <<datas, calls, partition, merging>>
binary == <<left, right, place>>
duplicates == <<nums, res>>
matrix == <<index_m, index_n, found>>
linked == <<next, pre, cur, printed, deleted>>
links == <<linked, waiting, tree, s>>
searching == <<binary, duplicates, matrix>>
others == <<exercise, target, searching, links>>    \* not of the sorts
vars == <<arguments, pc, loops, sorting, searching, links>>

Loops == {"bubble", "select", "insert", "quick", "partition", "merge", "merging"}

size == Cardinality(DOMAIN datas)
swap(d, a, b) == [d EXCEPT ![a] = d[b], ![b] = d[a]]

\* A call that has not begun, and one of mergeSort that has sorted both halves.
Call(begin, end) == [begin |-> begin, end |-> end, sorted |-> FALSE]
Halves(begin, end) == [begin |-> begin, end |-> end, sorted |-> TRUE]

\* The nodes of the list are 1 .. input in the order in which main links them.
nullptr == 0
head == IF input = 0 THEN nullptr ELSE 1

\* A call of deduceTree for the node at a way from the root.
Deduce(preorder, inorder, at) == [preorder |-> preorder, inorder |-> inorder, at |-> at]

SortCalled ==
    /\ exercise = "sort" /\ input \in Vectors /\ target = 0
    /\ pc \in {"bubble", "select", "insert", "quick", "merge"}

ExerciseCalled ==
    \/ exercise = "binarySearch" /\ input \in Vectors /\ target \in Targets /\ pc = "turn"
    \/ exercise = "findDuplicates" /\ input \in Numbers /\ target = 0 /\ pc = "turn"
    \/ exercise = "searchMatrix" /\ input \in Matrices /\ target \in Targets /\ pc = "call"
    \/ exercise = "list" /\ input \in Lengths /\ target = 0 /\ pc = "call"
    \/ exercise = "deduceTree" /\ input \in Trees /\ target = 0 /\ pc = "turn"
    \/ exercise = "replaceSpace" /\ input \in Strings /\ target = 0 /\ pc = "call"

Init ==
    /\ SortCalled \/ ExerciseCalled
    /\ datas = IF exercise = "sort" THEN input ELSE << >>
    /\ i = IF pc = "insert" THEN 1 ELSE 0
    /\ calls = IF pc \in {"quick", "merge"} THEN <<Call(0, size - 1)>> ELSE << >>
    /\ j = 0 /\ low = 0 /\ high = 0 /\ key = 0 /\ begin1 = 0 /\ begin2 = 0 /\ index = 0
    /\ dataTemp = [k \in DOMAIN datas |-> 0]
    /\ left = 0 /\ right = (IF exercise = "binarySearch" THEN Size(input) - 1 ELSE -1)
    /\ place = -1
    /\ nums = (IF exercise = "findDuplicates" THEN input ELSE << >>) /\ res = << >>
    /\ index_m = 0 /\ index_n = -1 /\ found = FALSE
    /\ next = IF exercise = "list" THEN [k \in 1 .. input |-> IF k = input THEN nullptr ELSE k + 1]
              ELSE << >>
    /\ pre = nullptr /\ cur = (IF exercise = "list" THEN head ELSE nullptr)
    /\ printed = << >> /\ deleted = << >>
    /\ waiting = IF exercise # "deduceTree" THEN << >>
                 ELSE <<Deduce([k \in DOMAIN input.preorder |-> input.number[input.preorder[k]]],
                               [k \in DOMAIN input.inorder |-> input.number[input.inorder[k]]],
                               << >>)>>
    /\ tree = {}
    /\ s = << >>
-----------------------------------------------------------------------------
BubbleCompare ==
    /\ pc = "bubble" /\ i < size /\ j < size - i - 1
    /\ datas' = IF datas[j] > datas[j + 1] THEN swap(datas, j + 1, j) ELSE datas
    /\ j' = j + 1
    /\ UNCHANGED <<input, pc, i, calls, partition, merging, others>>

BubbleTurn ==
    /\ pc = "bubble" /\ i < size /\ j >= size - i - 1
    /\ i' = i + 1
    /\ j' = 0
    /\ UNCHANGED <<input, datas, pc, calls, partition, merging, others>>

\* The loop over j leaves selectIndex at the first of the smallest elements.
SelectTurn ==
    /\ pc = "select" /\ i < size
    /\ \E selectIndex \in i .. size - 1 :
           /\ \A k \in i .. size - 1 : datas[selectIndex] <= datas[k]
           /\ \A k \in i .. selectIndex - 1 : datas[selectIndex] < datas[k]
           /\ datas' = swap(datas, selectIndex, i)
    /\ i' = i + 1
    /\ UNCHANGED <<input, pc, j, calls, partition, merging, others>>

\* The while loop stops at the last element that is not greater than x, or at -1: there it
\* reads datas[-1] before it looks at the index, whatever it reads.
InsertTurn ==
    /\ pc = "insert" /\ i < size
    /\ IF datas[i] >= datas[i - 1] THEN datas' = datas
       ELSE \E stop \in -1 .. i - 2 :
                /\ stop # -1 => datas[stop] <= datas[i]
                /\ \A k \in stop + 1 .. i - 1 : datas[k] > datas[i]
                /\ datas' = [k \in DOMAIN datas |-> CASE k = stop + 1 -> datas[i]
                                                      [] k \in stop + 2 .. i -> datas[k - 1]
                                                      [] OTHER -> datas[k]]
    /\ i' = i + 1
    /\ UNCHANGED <<input, pc, j, calls, partition, merging, others>>
-----------------------------------------------------------------------------
(***************************************************************************)
(* quickSort.  A caller that waits for its first call still has the second  *)
(* to make: calls holds what is left, from left to right.                   *)
(***************************************************************************)
QuickCall ==
    /\ pc = "quick" /\ calls # << >>
    /\ LET c == Head(calls) IN
       IF c.begin >= c.end
       THEN calls' = Tail(calls) /\ UNCHANGED <<pc, partition>>
       ELSE /\ low' = c.begin /\ high' = c.end /\ key' = datas[c.begin]
            /\ pc' = "partition"
            /\ UNCHANGED calls
    /\ UNCHANGED <<input, datas, loops, merging, others>>

\* A smaller element from the right goes to low, then a greater one from the left to high.
PartitionTurn ==
    /\ pc = "partition" /\ low < high
    /\ \E down \in low .. high :
           /\ down # low => datas[down] < key
           /\ \A k \in down + 1 .. high : datas[k] >= key
           /\ LET moved == [datas EXCEPT ![low] = datas[down]]
                  from == IF low < down THEN low + 1 ELSE low
              IN  \E up \in from .. down :
                      /\ up # down => moved[up] > key
                      /\ \A k \in from .. up - 1 : moved[k] <= key
                      /\ datas' = [moved EXCEPT ![down] = moved[up]]
                      /\ low' = up
                      /\ high' = IF up < down THEN down - 1 ELSE down
    /\ UNCHANGED <<input, pc, loops, calls, key, merging, others>>

\* Mutant: the place of the key is sorted again.
PlaceKeyAgain ==
    /\ pc = "partition" /\ low >= high
    /\ datas' = [datas EXCEPT ![low] = key]
    /\ calls' = <<Call(Head(calls).begin, low - 1), Call(low, Head(calls).end)>> \o Tail(calls)
    /\ pc' = "quick"
    /\ UNCHANGED <<input, loops, partition, merging, others>>

PlaceKey ==
    /\ pc = "partition" /\ low >= high
    /\ datas' = [datas EXCEPT ![low] = key]
    /\ calls' = <<Call(Head(calls).begin, low - 1), Call(low + 1, Head(calls).end)>>
                  \o Tail(calls)
    /\ pc' = "quick"
    /\ UNCHANGED <<input, loops, partition, merging, others>>
-----------------------------------------------------------------------------
(***************************************************************************)
(* mergeSort                                                                *)
(***************************************************************************)
Mid(c) == c.begin + (c.end - c.begin) \div 2

MergeCall ==
    /\ pc = "merge" /\ calls # << >> /\ ~Head(calls).sorted
    /\ LET c == Head(calls) IN
       calls' = IF c.begin >= c.end THEN Tail(calls)
                ELSE <<Call(c.begin, Mid(c)), Call(Mid(c) + 1, c.end), Halves(c.begin, c.end)>>
                     \o Tail(calls)
    /\ UNCHANGED <<input, datas, pc, loops, partition, merging, others>>

MergeBegin ==
    /\ pc = "merge" /\ calls # << >> /\ Head(calls).sorted
    /\ LET c == Head(calls) IN begin1' = c.begin /\ begin2' = Mid(c) + 1 /\ index' = c.begin
    /\ pc' = "merging"
    /\ UNCHANGED <<input, datas, loops, calls, partition, dataTemp, others>>

\* Mutant: the greater element goes first.
TakesGreater(c) == begin1 <= Mid(c) /\ (begin2 <= c.end => datas[begin1] > datas[begin2])

\* The three loops over the halves; of two equal elements that of the second goes first.
TakesFirst(c) == begin1 <= Mid(c) /\ (begin2 <= c.end => datas[begin1] < datas[begin2])

MergeTake ==
    /\ pc = "merging"
    /\ LET c == Head(calls) IN
       /\ begin1 <= Mid(c) \/ begin2 <= c.end
       /\ IF TakesFirst(c)
          THEN /\ dataTemp' = [dataTemp EXCEPT ![index] = datas[begin1]]
               /\ begin1' = begin1 + 1 /\ UNCHANGED begin2
          ELSE /\ dataTemp' = [dataTemp EXCEPT ![index] = datas[begin2]]
               /\ begin2' = begin2 + 1 /\ UNCHANGED begin1
    /\ index' = index + 1
    /\ UNCHANGED <<input, datas, pc, loops, calls, partition, others>>

MergeReturn ==
    /\ pc = "merging"
    /\ LET c == Head(calls) IN
       /\ begin1 > Mid(c) /\ begin2 > c.end
       /\ datas' = [k \in DOMAIN datas |-> IF k \in c.begin .. c.end THEN dataTemp[k] ELSE datas[k]]
    /\ calls' = Tail(calls)
    /\ pc' = "merge"
    /\ UNCHANGED <<input, loops, partition, merging, others>>
-----------------------------------------------------------------------------
\* Mutant: the last element is not looked at.
BetweenOpen == left < right

Between == left <= right

\* The half with the smaller elements is where the code takes the greater ones to be.
SearchTurn ==
    /\ exercise = "binarySearch" /\ pc = "turn" /\ Between
    /\ LET mid == left + (right - left) \div 2 IN
       \/ input[mid] = target /\ place' = mid /\ pc' = "returned" /\ UNCHANGED <<left, right>>
       \/ input[mid] > target /\ left' = mid + 1 /\ UNCHANGED <<pc, right, place>>
       \/ input[mid] < target /\ right' = mid - 1 /\ UNCHANGED <<pc, left, place>>
    /\ UNCHANGED <<arguments, loops, sorting, duplicates, matrix, links>>
-----------------------------------------------------------------------------
Abs(n) == IF n < 0 THEN -n ELSE n

Visit ==
    /\ exercise = "findDuplicates" /\ pc = "turn" /\ i < Size(nums)
    /\ LET x == Abs(nums[i]) IN
       \/ nums[x - 1] > 0 /\ nums' = [nums EXCEPT ![x - 1] = -@] /\ UNCHANGED res
       \/ nums[x - 1] <= 0 /\ res' = Append(res, x) /\ UNCHANGED nums
    /\ i' = i + 1
    /\ UNCHANGED <<arguments, pc, j, sorting, binary, matrix, links>>
-----------------------------------------------------------------------------
\* A matrix without rows has no row 0: matrix.at(0) throws.
MatrixCall ==
    /\ exercise = "searchMatrix" /\ pc = "call"
    /\ IF Size(input) = 0 THEN pc' = "thrown" /\ UNCHANGED index_n
       ELSE pc' = "turn" /\ index_n' = Size(input[0]) - 1
    /\ UNCHANGED <<arguments, loops, sorting, binary, duplicates, index_m, found, links>>

Within == index_m < Size(input) /\ index_n >= 0

MatrixTurn ==
    /\ exercise = "searchMatrix" /\ pc = "turn" /\ Within
    /\ \/ /\ input[index_m][index_n] = target
          /\ found' = TRUE /\ pc' = "returned" /\ UNCHANGED <<index_m, index_n>>
       \/ /\ input[index_m][index_n] > target
          /\ index_n' = index_n - 1 /\ UNCHANGED <<pc, index_m, found>>
       \/ /\ input[index_m][index_n] < target
          /\ index_m' = index_m + 1 /\ UNCHANGED <<pc, index_n, found>>
    /\ UNCHANGED <<arguments, loops, sorting, binary, duplicates, links>>
-----------------------------------------------------------------------------
(***************************************************************************)
(* list.cpp: the list is reversed, printed and released.                    *)
(***************************************************************************)
ListCall ==
    /\ exercise = "list" /\ pc = "call"
    /\ pc' = IF head = nullptr \/ next[head] = nullptr THEN "print" ELSE "turn"
    /\ UNCHANGED <<arguments, loops, sorting, searching, links>>

ReverseTurn ==
    /\ exercise = "list" /\ pc = "turn" /\ cur # nullptr
    /\ next' = [next EXCEPT ![cur] = pre] /\ pre' = cur /\ cur' = next[cur]
    /\ UNCHANGED <<arguments, pc, loops, sorting, searching, printed, deleted, waiting, tree, s>>

ReverseReturns ==
    /\ exercise = "list" /\ pc = "turn" /\ cur = nullptr
    /\ cur' = pre /\ pc' = "print"
    /\ UNCHANGED <<arguments, loops, sorting, searching, next, pre, printed, deleted, waiting, tree, s>>

\* The nodes are deleted from the old head on.
Walk ==
    /\ exercise = "list"
    /\ \/ /\ pc = "print" /\ cur # nullptr
          /\ printed' = Append(printed, cur) /\ cur' = next[cur] /\ UNCHANGED <<pc, deleted>>
       \/ /\ pc = "print" /\ cur = nullptr
          /\ pc' = "delete" /\ cur' = head /\ UNCHANGED <<printed, deleted>>
       \/ /\ pc = "delete" /\ cur # nullptr
          /\ deleted' = Append(deleted, cur) /\ cur' = next[cur] /\ UNCHANGED <<pc, printed>>
    /\ UNCHANGED <<arguments, loops, sorting, searching, next, pre, waiting, tree, s>>
-----------------------------------------------------------------------------
(***************************************************************************)
(* binaryTree.cpp: the tree of its traversals.                              *)
(***************************************************************************)

\* The number of elements before the first v, or all of them.
Position(v, seq) == Cardinality({k \in DOMAIN seq : \A l \in 1 .. k : seq[l] # v})

\* The left call also gets the root itself in its inorder (i <= mid).
TreeCall ==
    /\ exercise = "deduceTree" /\ pc = "turn" /\ waiting # << >>
    /\ LET c == Head(waiting)
           root == Head(c.preorder)
           mid == Position(root, c.inorder)
       IN  IF c.preorder = << >> \/ c.inorder = << >> THEN waiting' = Tail(waiting) /\ UNCHANGED tree
           ELSE /\ tree' = tree \cup {<<c.at, root>>}
                /\ waiting' = <<Deduce(SubSeq(c.preorder, 2, mid + 1), SubSeq(c.inorder, 1, mid + 1),
                                       Append(c.at, "left")),
                                Deduce(SubSeq(c.preorder, mid + 2, Len(c.preorder)),
                                       SubSeq(c.inorder, mid + 2, Len(c.inorder)),
                                       Append(c.at, "right"))>> \o Tail(waiting)
    /\ UNCHANGED <<arguments, pc, loops, sorting, searching, linked, s>>
-----------------------------------------------------------------------------
(***************************************************************************)
(* strings.cpp: %20 for every space, from behind.                           *)
(***************************************************************************)
space == " "
Spaces(d, n) == {k \in 0 .. n - 1 : d[k] = space}

\* A resized string holds "nul" behind the old characters.
ReplaceCall ==
    /\ exercise = "replaceSpace" /\ pc = "call"
    /\ LET len == Size(input)
           new == len + 2 * Cardinality(Spaces(input, len))
       IN  /\ s' = [k \in 0 .. new - 1 |-> IF k < len THEN input[k] ELSE "nul"]
           /\ i' = len - 1 /\ j' = new - 1
    /\ pc' = "turn"
    /\ UNCHANGED <<arguments, sorting, searching, linked, waiting, tree>>

ReplaceTurn ==
    /\ exercise = "replaceSpace" /\ pc = "turn" /\ i < j
    /\ IF s[i] # space THEN s' = [s EXCEPT ![j] = s[i]] /\ j' = j - 1
       ELSE s' = [s EXCEPT ![j] = "0", ![j - 1] = "2", ![j - 2] = "%"] /\ j' = j - 3
    /\ i' = i - 1
    /\ UNCHANGED <<arguments, pc, sorting, searching, linked, waiting, tree>>
-----------------------------------------------------------------------------
SortReturns ==
    /\ exercise = "sort"
    /\ \/ pc \in {"bubble", "select", "insert"} /\ i >= size
       \/ pc \in {"quick", "merge"} /\ calls = << >>
    /\ pc' = "returned"
    /\ UNCHANGED <<arguments, loops, sorting, searching, links>>

Return ==
    /\ \/ exercise = "binarySearch" /\ pc = "turn" /\ ~Between
       \/ exercise = "findDuplicates" /\ pc = "turn" /\ i >= Size(nums)
       \/ exercise = "searchMatrix" /\ pc = "turn" /\ ~Within
       \/ exercise = "list" /\ pc = "delete" /\ cur = nullptr
       \/ exercise = "deduceTree" /\ pc = "turn" /\ waiting = << >>
       \/ exercise = "replaceSpace" /\ pc = "turn" /\ i >= j
    /\ pc' = "returned"
    /\ UNCHANGED <<arguments, loops, sorting, searching, links>>

Ended == pc \in {"returned", "thrown"} /\ UNCHANGED vars

SortNext ==
    \/ BubbleCompare \/ BubbleTurn \/ SelectTurn \/ InsertTurn
    \/ QuickCall \/ PartitionTurn \/ PlaceKey
    \/ MergeCall \/ MergeBegin \/ MergeTake \/ MergeReturn
    \/ SortReturns

ExerciseNext ==
    \/ SearchTurn \/ Visit \/ MatrixCall \/ MatrixTurn
    \/ ListCall \/ ReverseTurn \/ ReverseReturns \/ Walk
    \/ TreeCall \/ ReplaceCall \/ ReplaceTurn
    \/ Return

Next == SortNext \/ ExerciseNext \/ Ended

Spec == Init /\ [][Next]_vars /\ WF_vars(Next)
-----------------------------------------------------------------------------
Returned(x) == exercise = x /\ pc = "returned"

Places == DOMAIN input

\* The numbers of input, each as often.
Permutes(d) ==
    \E p \in Bijection(Places, Places) : d = [k \in Places |-> input[p[k]]]

\* All five sorts give the numbers of their input in ascending order, from the empty vector
\* on and with equal numbers: the loops of quickSort that meet, the mergeSort that
\* prefers the second half, the insertSort that stops in front of the vector.
SortsSort ==
    Returned("sort") => Permutes(datas) /\ \A k, l \in Places : k < l => datas[k] <= datas[l]

Descends(d) == \A k, l \in Indices(d) : k < l => d[k] >= d[l]

\* binarySearch never names a wrong place, and finds everything in a descending vector; in
\* another one the middle element for certain, which is what main looks for.
SearchFinds ==
    Returned("binarySearch") =>
        /\ place # -1 => input[place] = target
        /\ place = -1 => \A k \in Indices(input) : input[k] = target =>
               k # (Size(input) - 1) \div 2 /\ ~Descends(input)

\* The number at k was there before.
Again(k) == \E l \in 0 .. k - 1 : input[l] = input[k]

\* The numbers that are there twice, each once, in the order in which they come again.
DuplicatesFound ==
    Returned("findDuplicates") =>
        /\ \A k \in Indices(input) : Again(k) => \E p \in DOMAIN res : res[p] = input[k]
        /\ \A p \in DOMAIN res : \E k \in Indices(input) : Again(k) /\ res[p] = input[k]
        /\ \A p, q \in DOMAIN res : p < q =>
              /\ res[p] # res[q]
              /\ \A k, l \in Indices(input) :
                    Again(k) /\ Again(l) /\ res[p] = input[k] /\ res[q] = input[l] => k < l

Present == \E r \in Indices(input) : \E c \in Indices(input[0]) : input[r][c] = target
Ascends ==
    /\ \A r \in Indices(input) : \A c, d \in Indices(input[0]) : c < d => input[r][c] <= input[r][d]
    /\ \A r, q \in Indices(input) : \A c \in Indices(input[0]) : r < q => input[r][c] <= input[q][c]

\* searchMatrix needs rows and columns in ascending order to find what there is.
MatrixFinds ==
    Returned("searchMatrix") =>
        /\ found => Present
        /\ Ascends /\ Present => found

\* The list is printed whole and from back to front, and no node is released twice.
ListReversed ==
    Returned("list") =>
        /\ printed = [k \in 1 .. input |-> input + 1 - k]
        /\ \A k, l \in DOMAIN deleted : deleted[k] = deleted[l] => k = l

\* deduceTree gives the tree whose traversals it was given, although its calls for a left
\* side have one node too many.
TreeDeduced ==
    Returned("deduceTree") => tree = {<<p, input.number[p]>> : p \in DOMAIN input.number}

\* Where the character at n goes.
Moved(n) == n + 2 * Cardinality(Spaces(input, n))

\* Every space gives three characters, the others one, in their order.
SpacesReplaced ==
    Returned("replaceSpace") =>
        /\ DOMAIN s = 0 .. Moved(Size(input)) - 1
        /\ \A k \in Indices(input) :
              IF input[k] = space
              THEN s[Moved(k)] = "%" /\ s[Moved(k) + 1] = "2" /\ s[Moved(k) + 2] = "0"
              ELSE s[Moved(k)] = input[k]

\* What the six others return is true of any input they are called with, and all there is to find
\* in an input that is in order.
AnswersRight ==
    SearchFinds /\ DuplicatesFound /\ MatrixFinds /\ ListReversed /\ TreeDeduced /\ SpacesReplaced

\* No exercise runs for ever: low and high of quickSort that stay where they are when the
\* loops find nothing to move, a search in the wrong half, calls with a node too many.
ExercisesEnd == <>(pc \in {"returned", "thrown"})
=============================================================================
