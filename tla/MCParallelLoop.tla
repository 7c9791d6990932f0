--------------------------- MODULE MCParallelLoop ---------------------------
(***************************************************************************)
(* ParallelLoop for TLC.                                                    *)
(***************************************************************************)
EXTENDS ParallelLoop

\* From an empty range to five indices, in as many blocks as threads, in one and in more
\* blocks than there are indices; a function that never throws, or throws at 0.
MCCalls ==
    {c \in [submit : BOOLEAN, sequence : BOOLEAN, first : {-1}, last : {-2, -1, 1, 2, 4},
            num_blocks : {0, 1, 3, 6}, function : {"lvalue", "copied", "emptied"},
            failing : {{}, {0}}] :
        c.sequence => c.num_blocks = 0}
=============================================================================
