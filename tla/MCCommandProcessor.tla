------------------------- MODULE MCCommandProcessor -------------------------
(***************************************************************************)
(* Instances of CommandProcessor for TLC.                                   *)
(***************************************************************************)
EXTENDS CommandProcessor

\* The ring data and the buffer of main.cpp: the words 5 to 9, five headers
\* without a body.
MainRBuf == 10
MainIbufs == {[i \in 0 .. 4 |-> i + 5]}

\* Every buffer of five words, each of them a header without a body (5), a header
\* with a body of one dword (64) or a device sync packet.
SyncWord == 3 * 2^28 + 2 * 2^24
AllIbufs == [0 .. 4 -> {5, 64, SyncWord}]
=============================================================================
