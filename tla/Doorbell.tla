------------------------------ MODULE Doorbell ------------------------------
(***************************************************************************)
(* What a host that moves the write pointer of the ring may expect of the   *)
(* command processor of cp_model (NotifyWptr in main.cpp, thread_process    *)
(* in cp.cpp): each update is served once, by the start of one queue, and   *)
(* before the time advances; or the command processor fails for good        *)
(* because it has no queue left.                                            *)
(***************************************************************************)
VARIABLE bell

Init == bell = "quiet"

Ring  == bell = "quiet" /\ bell' = "rung"
Serve == bell = "rung" /\ bell' = "served"
Fail  == bell = "rung" /\ bell' = "failed"
TimeAdvances == bell \in {"quiet", "served"} /\ bell' = "quiet"

Next == Ring \/ Serve \/ Fail \/ TimeAdvances

SafeSpec == Init /\ [][Next]_bell

Spec == SafeSpec /\ WF_bell(Serve \/ Fail)
=============================================================================
