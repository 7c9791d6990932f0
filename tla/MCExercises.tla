----------------------------- MODULE MCExercises -----------------------------
EXTENDS Exercises, SequencesExt

CONSTANTS
    MaxSize,    \* bound: elements of a vector, a string, a list or a tree
    Values      \* the numbers in a vector or a matrix

VectorsOf(S) == UNION {[0 .. n - 1 -> S] : n \in 0 .. MaxSize}

MCVectors == VectorsOf(Values)
MCNumbers == {d \in UNION {[0 .. n - 1 -> 1 .. n] : n \in 0 .. MaxSize} : OnceOrTwice(d)}
MCMatrices == UNION {[0 .. m - 1 -> [0 .. n - 1 -> Values]] : m \in 0 .. 2, n \in 0 .. 3}
MCLengths == 0 .. MaxSize
MCStrings == VectorsOf({space, "a"})

\* The sets of nodes that n nodes can be a tree of.
RECURSIVE Shapes(_)
Shapes(n) ==
    IF n = 0 THEN {{}}
    ELSE UNION {{{<< >>} \cup {<<"left">> \o p : p \in l} \cup {<<"right">> \o p : p \in r} :
                 l \in Shapes(k), r \in Shapes(n - 1 - k)} : k \in 0 .. n - 1}

\* deduceTree only compares its numbers for equality: those of the inorder will do.
TreeOf(shape) ==
    LET inorder == SetToSortSeq(shape, InorderBefore)
    IN  [number |-> [p \in shape |-> CHOOSE k \in DOMAIN inorder : inorder[k] = p],
         preorder |-> SetToSortSeq(shape, PreorderBefore), inorder |-> inorder]

MCTrees == {TreeOf(shape) : shape \in UNION {Shapes(n) : n \in 0 .. MaxSize}}
=============================================================================
