------------------------ MODULE ExecutionLifecycle -------------------------
(***************************************************************************)
(* What an execution promises its manager, without workers, leases or      *)
(* calls: one session is prompted at most, the run is dispatched only      *)
(* after that, a requested cancellation is final, and an ended run stays   *)
(* ended.  (docs/G1_EXECUTION_LIFECYCLE.md; models.ExecutionRun.)          *)
(***************************************************************************)
CONSTANTS Session, NoSession
VARIABLES phase, cancel, target

vars == <<phase, cancel, target>>

Open == {"queued", "running"}

Init == phase = "queued" /\ cancel = FALSE /\ target = NoSession

\* Inference may be started in one session, while nothing forbids it.
Prompt(s) ==
    /\ phase = "queued" /\ ~cancel
    /\ target = NoSession /\ target' = s
    /\ UNCHANGED <<phase, cancel>>

Dispatch ==
    /\ phase = "queued" /\ ~cancel /\ target # NoSession
    /\ phase' = "running"
    /\ UNCHANGED <<cancel, target>>

RequestCancel ==
    /\ phase \in Open /\ ~cancel
    /\ cancel' = TRUE
    /\ UNCHANGED <<phase, target>>

\* The cancelled run's session may be removed before the run is stopped.
Forget ==
    /\ cancel /\ target' = NoSession
    /\ UNCHANGED <<phase, cancel>>

Complete ==
    /\ phase = "running" /\ ~cancel
    /\ phase' = "completed"
    /\ UNCHANGED <<cancel, target>>

Fail ==
    /\ phase \in Open /\ ~cancel
    /\ phase' = "failed"
    /\ UNCHANGED <<cancel, target>>

Stop ==
    /\ phase \in Open /\ cancel
    /\ phase' = "cancelled"
    /\ UNCHANGED <<cancel, target>>

Next ==
    \/ \E s \in Session : Prompt(s)
    \/ Dispatch \/ RequestCancel \/ Forget \/ Complete \/ Fail \/ Stop

Spec == Init /\ [][Next]_vars
=============================================================================
