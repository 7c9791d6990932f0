------------------------------- MODULE TaskPool -------------------------------
(***************************************************************************)
(* What a thread pool promises about tasks: they are numbered as they are   *)
(* submitted, they start in that order, each one once, no more of them at a *)
(* time than there are threads, and a purge drops only what has not started. *)
(***************************************************************************)
EXTENDS Integers, Sequences, FiniteSets, Functions

VARIABLES
    queue,     \* the tasks that wait
    running,
    ended,     \* the tasks that have ended or were dropped
    threads

poolVars == <<queue, running, ended, threads>>

Begin ==
    /\ queue = << >> /\ running = {} /\ ended = {}
    /\ threads \in Nat \ {0}

Submit ==
    /\ queue' = Append(queue, Len(queue) + Cardinality(running \cup ended) + 1)
    /\ UNCHANGED <<running, ended, threads>>

Start ==
    /\ queue # << >> /\ Cardinality(running) < threads
    /\ running' = running \cup {Head(queue)}
    /\ queue' = Tail(queue)
    /\ UNCHANGED <<ended, threads>>

End ==
    \E t \in running :
        /\ running' = running \ {t}
        /\ ended' = ended \cup {t}
        /\ UNCHANGED <<queue, threads>>

Drop ==
    /\ queue' = << >>
    /\ ended' = ended \cup Range(queue)
    /\ UNCHANGED <<running, threads>>

Resize ==
    /\ running = {}
    /\ threads' \in Nat \ {0}
    /\ UNCHANGED <<queue, running, ended>>

PoolSpec == Begin /\ [][Submit \/ Start \/ End \/ Drop \/ Resize]_poolVars
=============================================================================
