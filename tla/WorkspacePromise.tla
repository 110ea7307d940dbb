-------------------------- MODULE WorkspacePromise -------------------------
(***************************************************************************)
(* What a managed workspace promises an execution and its reader, without  *)
(* leases, files or locks (docs/G2_TASK_WORKSPACES.md): a usable directory *)
(* is there from the moment the run is queued until it has ended; only a   *)
(* directory nobody changed is ever discarded; removed is for good.        *)
(***************************************************************************)
VARIABLES phase, tree

vars == <<phase, tree>>

Init == phase = "making" /\ tree = "absent"

\* A directory appears untouched; a publication that was overtaken is late.
Appear ==
    /\ phase \notin {"usable", "removed"}
    /\ tree = "absent" /\ tree' = "pristine"
    /\ UNCHANGED phase

Offer ==
    /\ phase = "making" /\ phase' = "usable"
    /\ tree = "pristine" /\ UNCHANGED tree

Edit ==
    /\ phase \in {"usable", "closing", "refused"}
    /\ tree = "pristine" /\ tree' = "edited"
    /\ UNCHANGED phase

Close == phase \in {"making", "usable"} /\ phase' = "closing" /\ UNCHANGED tree

Refuse ==
    /\ phase \in {"making", "usable", "closing"} /\ phase' = "refused"
    /\ UNCHANGED tree

Discard ==
    /\ phase \in {"making", "closing", "refused"}
    /\ tree = "pristine" /\ tree' = "absent"
    /\ UNCHANGED phase

Remove ==
    /\ phase = "closing" /\ phase' = "removed"
    /\ tree = "absent" /\ UNCHANGED tree

Next == Appear \/ Offer \/ Edit \/ Close \/ Refuse \/ Discard \/ Remove

Spec == Init /\ [][Next]_vars
=============================================================================
