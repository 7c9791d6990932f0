---------------------------- MODULE MCRingBuffer ----------------------------
(***************************************************************************)
(* RingBuffer for TLC.                                                      *)
(***************************************************************************)
EXTENDS RingBuffer

\* Words with different halves, and one whose address half is zero.
MCValue == {[count |-> c, addr |-> a] : c \in {1, 2}, a \in {0, 3}}
=============================================================================
