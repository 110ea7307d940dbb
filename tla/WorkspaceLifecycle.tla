------------------------ MODULE WorkspaceLifecycle -------------------------
(***************************************************************************)
(* The managed Git workspace of one execution: the row that                *)
(* control_plane/app/workspace_manager.py leases, the directory it         *)
(* prepares, inspects and removes, and the transactions of the control     *)
(* plane and of the execution lanes that move the same row.                *)
(*                                                                         *)
(* Grain.  A step of a manager is a database transaction, or the           *)
(* filesystem effects between two points where the process may die and     *)
(* leave something behind.  A heartbeat belongs to the step before the     *)
(* effect it protects, so that the lease may be lost in between.           *)
(*                                                                         *)
(* Versions.  Every write of the row increments `version` (`generation`    *)
(* changes only together with it).  The only use of either is to compare   *)
(* it with the lease's own, so the model keeps `current`: the managers     *)
(* whose lease still names the row's version.                              *)
(*                                                                         *)
(* Time.  A lease is live until it expires, which may happen at any        *)
(* moment; retry delays are not modelled, a queued row may be due at once. *)
(***************************************************************************)
EXTENDS Integers, FiniteSets

CONSTANTS
    Manager,        \* manager processes
    NoManager,
    MaxFailures,    \* max_prepare_failures
    Disturbances,   \* external events that may happen in this instance
    MaxFaults       \* bound: crashes, leases that run out under a live manager, and
                    \* operations that fail transiently, together

Events == {"revoke",      \* the repository is disabled or found invalid
           "revalidate",  \* the repository goes through a new validation
           "unbind",      \* the rows no longer describe the same binding
           "tamper",      \* the directory is damaged from outside
           "oversize",    \* the commit breaks a limit: files, sizes, submodules
           "straggler",   \* something still edits after the run has ended
           "race"}        \* ... even between an inspection and its rename

ASSUME NullAssumption == NoManager \notin Manager
ASSUME FailureAssumption == MaxFailures \in Nat \ {0}
ASSUME EventAssumption == Disturbances \subseteq Events
ASSUME FaultAssumption == MaxFaults \in Nat

VARIABLES
    ws,       \* the task_workspaces row
    current,  \* managers whose lease names the row's version and generation
    run,      \* execution_runs.status of the bound execution
    package,  \* state of its result package
    overdue,  \* now >= deadline_at
    repo,     \* what assert_repository_ready would say
    bound,    \* the two rows describe the same binding
    final,    \* the workspace directory
    staging,  \* a .prepare directory is left or in use
    trash,    \* the .remove directory
    flock,    \* holder of the workspace's file lock
    pc,       \* pc[m]: where manager m is in process_workspace
    job,      \* job[m]: its operation, and the result it will report
    faults    \* how many faults have happened

rows == <<ws, current, run, package>>
env == <<overdue, repo, bound>>
disk == <<final, staging, trash, flock>>
local == <<pc, job>>
vars == <<rows, env, disk, local, faults>>

Terminal == {"completed", "failed", "cancelled"}
PrepareQueue == {"pending", "unavailable"}
Queue == PrepareQueue \cup {"inspection_pending", "cleanup_pending"}
Working == {"preparing", "inspecting", "cleaning"}
Settled == {"ready", "retained", "removed", "invalid"}

\* A broken directory has lost its manifest or .git; in an unreadable one git
\* cannot read HEAD, the tree or the status.
Tree == {"none", "clean", "changed", "broken", "unreadable"}

OperationFor(status) ==
    IF status \in PrepareQueue \cup {"preparing"} THEN "prepare"
    ELSE IF status \in {"inspection_pending", "inspecting"} THEN "inspect" ELSE "cleanup"
StatusOf == [prepare |-> "preparing", inspect |-> "inspecting", cleanup |-> "cleaning"]
QueueOf == [inspect |-> "inspection_pending", cleanup |-> "cleanup_pending"]

Row == [status : Queue \cup Working \cup Settled, owner : Manager \cup {NoManager},
        lease : {"none", "live", "expired"}, failures : 0..MaxFailures,
        verdict : {"none", "clean", "changed"}]
Place == {"idle", "start", "enter", "mkdir", "checkout", "rename", "verify", "look",
          "move", "shred", "commit", "fail"}
Job == [op : {"none", "prepare", "inspect", "cleanup"},
        result : {"none", "clean", "changed", "gone", "transient", "terminal"}]
Idle == [op |-> "none", result |-> "none"]

TypeOK ==
    /\ ws \in Row
    /\ current \in SUBSET Manager
    /\ run \in {"preparing", "queued", "running"} \cup Terminal
    /\ package \in {"none", "provisional", "final"}
    /\ overdue \in BOOLEAN /\ bound \in BOOLEAN
    /\ repo \in {"ready", "busy", "revoked"}
    /\ final \in Tree /\ trash \in Tree /\ staging \in BOOLEAN
    /\ flock \in Manager \cup {NoManager}
    /\ pc \in [Manager -> Place] /\ job \in [Manager -> Job]
    /\ faults \in 0..MaxFaults

-----------------------------------------------------------------------------
(* Shared pieces.                                                          *)

\* _locked_owned_workspace
Owned(m) ==
    /\ ws.status = StatusOf[job[m].op]
    /\ ws.owner = m /\ ws.lease = "live"
    /\ m \in current

\* Every write but a heartbeat releases the lease and takes a new version.
Move(status) == [ws EXCEPT !.status = status, !.owner = NoManager, !.lease = "none"]
Write(row) == ws' = row /\ current' = {}

\* materialize_terminal_result_package: a final package never changes again.
Packaged(status) ==
    IF package = "final" \/ status \notin {"inspection_pending", "inspecting"}
    THEN "final" ELSE "provisional"
Document(status) == package' = Packaged(status)

\* A run that is not terminal yet fails, and is documented.
FailRun(status) ==
    IF run \in Terminal THEN UNCHANGED <<run, package>>
    ELSE run' = "failed" /\ Document(status)

\* _invalidate_binding
Invalidate == Write(Move("invalid")) /\ FailRun("invalid")

\* _expire_preparing_execution
Expire == Write(Move("cleanup_pending")) /\ run' = "failed" /\ Document("cleanup_pending")

Goto(m, p) == pc' = [pc EXCEPT ![m] = p] /\ UNCHANGED job
Report(m, r) == pc' = [pc EXCEPT ![m] = "commit"] /\ job' = [job EXCEPT ![m].result = r]
Raise(m, e) == pc' = [pc EXCEPT ![m] = "fail"] /\ job' = [job EXCEPT ![m].result = e]
Leave(m) == pc' = [pc EXCEPT ![m] = "idle"] /\ job' = [job EXCEPT ![m] = Idle]

\* verify_runtime_workspace: manifest, HEAD, tree, branch and a clean status.
Intact == final = "clean"

Lock(m) == flock' = m
Unlock == flock' = NoManager

-----------------------------------------------------------------------------
(* Claims.                                                                 *)


Due == ws.status \in Queue \/ (ws.status \in Working /\ ws.lease = "expired")

\* The phase of the run that a claimed operation requires.
RunAllows(op) == IF op = "prepare" THEN run = "preparing" ELSE run \in Terminal

\* claim_available.  The order of the tests is the order of the code.
Claim(m) ==
    LET op == OperationFor(ws.status) IN
    /\ pc[m] = "idle" /\ Due
    /\ IF ~bound
       THEN Invalidate /\ UNCHANGED local
       ELSE IF op = "prepare" /\ run \in Terminal
       THEN Write(Move("cleanup_pending")) /\ UNCHANGED <<run, package, local>>
       ELSE IF ~RunAllows(op)
       THEN Invalidate /\ UNCHANGED local
       ELSE IF op = "prepare" /\ overdue
       THEN Expire /\ UNCHANGED local
       ELSE /\ ws' = [ws EXCEPT !.status = StatusOf[op], !.owner = m, !.lease = "live"]
            /\ current' = {m}
            /\ pc' = [pc EXCEPT ![m] = "start"]
            /\ job' = [job EXCEPT ![m] = [op |-> op, result |-> "none"]]
            /\ UNCHANGED <<run, package>>
    /\ UNCHANGED <<env, disk, faults>>

\* process_workspace: trust is checked before any effect of a preparation.
Start(m) ==
    /\ pc[m] = "start"
    /\ IF job[m].op = "prepare" /\ repo # "ready"
       THEN Raise(m, IF repo = "revoked" THEN "terminal" ELSE "transient")
       ELSE Goto(m, "enter")
    /\ UNCHANGED <<rows, env, disk, faults>>

\* _workspace_lock does not wait: a lock in use is a transient failure.
Busy(m) ==
    /\ pc[m] = "enter" /\ flock # NoManager
    /\ Raise(m, "transient")
    /\ UNCHANGED <<rows, env, disk, faults>>

Enters(m, op) == pc[m] = "enter" /\ job[m].op = op /\ flock = NoManager

-----------------------------------------------------------------------------
(* Preparation.                                                            *)

\* _prepared_from_existing: a directory that an earlier owner published.
Recover(m) ==
    /\ Enters(m, "prepare") /\ final # "none"
    /\ IF Intact THEN Report(m, "clean") ELSE Raise(m, "terminal")
    /\ UNCHANGED <<rows, env, disk, faults>>

\* Leftovers of earlier owners go first.
CleanupStaging == staging' = FALSE

\* A tree over the limits, or with a submodule, is refused for good.
TooLarge(m) == "oversize" \in Disturbances /\ Raise(m, "terminal")

\* The git reads of _preflight_tree heartbeat under the lock.
PreflightTree(m) ==
    /\ Enters(m, "prepare") /\ final = "none"
    /\ CleanupStaging
    /\ IF Owned(m) THEN Goto(m, "mkdir") /\ Lock(m) ELSE Leave(m) /\ UNCHANGED flock
    /\ UNCHANGED <<rows, env, final, trash, faults>>

MakeStaging(m) ==
    /\ pc[m] = "mkdir" /\ staging' = TRUE
    /\ Goto(m, "checkout")
    /\ UNCHANGED <<rows, env, final, trash, flock, faults>>

\* Fetch, checkout, configuration and manifest, up to the heartbeat before the
\* rename.  The `finally` clause removes what is not renamed.
Checkout(m) ==
    /\ pc[m] = "checkout"
    /\ \/ /\ Owned(m)
          /\ Goto(m, "rename") /\ UNCHANGED <<staging, flock>>
       \/ /\ ~Owned(m)
          /\ Leave(m) /\ staging' = FALSE /\ Unlock
       \/ TooLarge(m) /\ staging' = FALSE /\ Unlock
    /\ UNCHANGED <<rows, env, final, trash, faults>>

Publish(m) ==
    /\ pc[m] = "rename"
    /\ final' = "clean" /\ staging' = FALSE
    /\ Goto(m, "verify")
    /\ UNCHANGED <<rows, env, trash, flock, faults>>

\* verify_runtime_workspace; a directory that fails it is taken back.
Verify(m) ==
    /\ pc[m] = "verify" /\ Unlock
    /\ IF Intact THEN Report(m, "clean") /\ UNCHANGED final
       ELSE Raise(m, "terminal") /\ final' = "none"
    /\ UNCHANGED <<rows, env, staging, trash, faults>>

\* Mutant: the registry row is not read again before the run is queued.
CommitUntrusted(m) ==
    /\ pc[m] = "commit" /\ job[m].op = "prepare"
    /\ IF ~Owned(m) \/ run # "preparing"
       THEN UNCHANGED rows
       ELSE /\ Write([Move("ready") EXCEPT !.failures = 0, !.verdict = "clean"])
            /\ run' = "queued" /\ UNCHANGED package
    /\ Leave(m)
    /\ UNCHANGED <<env, disk, faults>>

\* mark_prepare_success
CommitPrepare(m) ==
    /\ pc[m] = "commit" /\ job[m].op = "prepare"
    /\ IF ~Owned(m)
       THEN Leave(m) /\ UNCHANGED rows
       ELSE IF ~bound
       THEN Leave(m) /\ Invalidate
       ELSE IF repo # "ready"
       THEN Raise(m, IF repo = "revoked" THEN "terminal" ELSE "transient") /\ UNCHANGED rows
       ELSE IF run # "preparing"
       THEN Leave(m) /\ UNCHANGED rows
       ELSE IF overdue
       THEN Leave(m) /\ Expire
       ELSE /\ Leave(m)
            /\ Write([Move("ready") EXCEPT !.failures = 0, !.verdict = "clean"])
            /\ run' = "queued" /\ UNCHANGED package
    /\ UNCHANGED <<env, disk, faults>>

-----------------------------------------------------------------------------
(* Inspection and cleanup.                                                 *)

EnterInspect(m) ==
    /\ Enters(m, "inspect")
    /\ IF Owned(m) THEN Goto(m, "look") /\ Lock(m) ELSE Leave(m) /\ UNCHANGED flock
    /\ UNCHANGED <<rows, env, final, staging, trash, faults>>

\* inspect_without_lock: what the directory looks like to the inspector.  Only a
\* manifest that is damaged or not the row's ends the operation; a git command that
\* fails (_run_git) is tried again.
Found == CASE final \in {"none", "unreadable"} -> "transient"
           [] final = "broken" -> "terminal"
           [] OTHER -> final

\* _artifact_provenance: a changed file that changes again while it is read.
Unsteady(m) ==
    /\ final = "changed" /\ "straggler" \in Disturbances
    /\ Raise(m, "terminal")

Inspect(m) ==
    /\ pc[m] = "look" /\ Unlock
    /\ \/ Unsteady(m)
       \/ final \in {"none", "broken", "unreadable"} /\ Raise(m, Found)
       \/ final \in {"clean", "changed"} /\ Owned(m) /\ Report(m, Found)
       \/ final \in {"clean", "changed", "unreadable"} /\ ~Owned(m) /\ Leave(m)
    /\ UNCHANGED <<rows, env, final, staging, trash, faults>>

\* Mutant: the package is not made final.
CommitUndocumented(m) ==
    /\ pc[m] = "commit" /\ job[m].op = "inspect"
    /\ IF ~Owned(m) THEN UNCHANGED rows
       ELSE /\ Write([Move("retained") EXCEPT !.failures = 0, !.verdict = job[m].result])
            /\ UNCHANGED <<run, package>>
    /\ Leave(m)
    /\ UNCHANGED <<env, disk, faults>>

\* mark_inspection_success
CommitInspect(m) ==
    /\ pc[m] = "commit" /\ job[m].op = "inspect"
    /\ IF ~Owned(m) THEN UNCHANGED rows
       ELSE IF ~bound THEN Invalidate
       ELSE /\ Write([Move("retained") EXCEPT !.failures = 0, !.verdict = job[m].result])
            /\ package' = "final" /\ UNCHANGED run
    /\ Leave(m)
    /\ UNCHANGED <<env, disk, faults>>

\* cleanup: nothing to keep, finish an earlier removal.
SweepTrash(m) ==
    /\ Enters(m, "cleanup") /\ final = "none"
    /\ trash' = "none"
    /\ Report(m, "gone")
    /\ UNCHANGED <<rows, env, final, staging, flock, faults>>

\* Mutant: the verdict of the earlier inspection is trusted.
CleanupTrusting(m) ==
    /\ Enters(m, "cleanup") /\ final # "none"
    /\ Goto(m, "move") /\ Lock(m)
    /\ UNCHANGED <<rows, env, final, staging, trash, faults>>

\* cleanup: the directory is inspected again, and moved only if it is clean.
EnterCleanup(m) ==
    /\ Enters(m, "cleanup") /\ final # "none"
    /\ \/ Unsteady(m) /\ UNCHANGED flock
       \/ final \in {"broken", "unreadable"} /\ Raise(m, Found) /\ UNCHANGED flock
       \/ final \in {"clean", "changed", "unreadable"} /\ ~Owned(m) /\ Leave(m)
          /\ UNCHANGED flock
       \/ final = "changed" /\ Owned(m) /\ Report(m, "changed") /\ UNCHANGED flock
       \/ final = "clean" /\ Owned(m) /\ Goto(m, "move") /\ Lock(m)
    /\ UNCHANGED <<rows, env, final, staging, trash, faults>>
MoveToTrash(m) ==
    /\ pc[m] = "move"
    /\ trash' = final /\ final' = "none"
    /\ Goto(m, "shred")
    /\ UNCHANGED <<rows, env, staging, flock, faults>>

Shred(m) ==
    /\ pc[m] = "shred" /\ Unlock
    /\ trash' = "none"
    /\ Report(m, "gone")
    /\ UNCHANGED <<rows, env, final, staging, faults>>

\* Mutant: every cleanup is recorded as a directory that was kept.
CommitKept(m) ==
    /\ pc[m] = "commit" /\ job[m].op = "cleanup"
    /\ IF ~Owned(m) THEN UNCHANGED rows
       ELSE /\ Write([Move("retained") EXCEPT !.verdict = job[m].result])
            /\ UNCHANGED <<run, package>>
    /\ Leave(m)
    /\ UNCHANGED <<env, disk, faults>>

\* mark_cleanup_success, mark_cleanup_retained
CommitCleanup(m) ==
    /\ pc[m] = "commit" /\ job[m].op = "cleanup"
    /\ IF ~Owned(m) THEN UNCHANGED rows
       ELSE IF ~bound THEN Invalidate
       ELSE /\ IF job[m].result = "gone" THEN Write(Move("removed"))
               ELSE Write([Move("retained") EXCEPT !.verdict = job[m].result])
            /\ UNCHANGED <<run, package>>
    /\ Leave(m)
    /\ UNCHANGED <<env, disk, faults>>

-----------------------------------------------------------------------------
(* Failures.                                                               *)

\* A preparation gives up; the other operations are retried without a limit.
GivesUp(m) ==
    \/ job[m].result = "terminal"
    \/ job[m].op = "prepare" /\ (ws.failures + 1 >= MaxFailures \/ overdue)
\* mark_failure
MarkFailure(m) ==
    LET failed == [Move("invalid") EXCEPT !.failures =
                     IF @ < MaxFailures THEN @ + 1 ELSE MaxFailures]
        retry == IF job[m].op = "prepare" THEN "unavailable" ELSE QueueOf[job[m].op]
    IN
    /\ pc[m] = "fail"
    /\ IF ~Owned(m) THEN UNCHANGED rows
       ELSE IF ~bound THEN Invalidate
       ELSE IF ~GivesUp(m)
       THEN Write([failed EXCEPT !.status = retry]) /\ UNCHANGED <<run, package>>
       ELSE /\ Write(failed)
            /\ IF job[m].op = "prepare" THEN FailRun("invalid")
               ELSE IF job[m].op = "inspect" THEN UNCHANGED run /\ Document("invalid")
               ELSE UNCHANGED <<run, package>>
    /\ Leave(m)
    /\ UNCHANGED <<env, disk, faults>>

Fault == faults < MaxFaults /\ faults' = faults + 1

\* Any step may fail for a reason that passes: git, the disk, the mirror's lock,
\* a deadlock victim's transaction.  The `finally` clauses run.
Hiccup(m) ==
    /\ Fault
    /\ pc[m] \notin {"idle", "fail"}
    /\ Raise(m, "transient")
    /\ staging' = (staging /\ pc[m] \notin {"checkout", "rename"})
    /\ flock' = IF flock = m THEN NoManager ELSE flock
    /\ UNCHANGED <<rows, env, final, trash>>

\* The process dies; its file lock goes with it, its directories stay.
Crash(m) ==
    /\ pc[m] # "idle"
    /\ Fault
    /\ flock' = IF flock = m THEN NoManager ELSE flock
    /\ Leave(m)
    /\ UNCHANGED <<rows, env, final, staging, trash>>

Held(m) == pc[m] # "idle" /\ m \in current

\* The owner is gone, or lives but was too slow.
LeaseExpires ==
    /\ ws.lease = "live"
    /\ IF \E m \in Manager : Held(m) THEN Fault ELSE UNCHANGED faults
    /\ ws' = [ws EXCEPT !.lease = "expired"]
    /\ UNCHANGED <<current, run, package, env, disk, local>>

-----------------------------------------------------------------------------
(* The control plane and the execution lanes.                              *)

\* Mutant: the abort leaves the workspace to whoever is preparing it.
AbortRunOnly ==
    /\ run = "preparing" /\ run' = "cancelled"
    /\ UNCHANGED <<ws, current, package, env, disk, local, faults>>

\* abort_execution on a preparing run
AbortPreparing ==
    /\ run = "preparing" /\ run' = "cancelled"
    /\ Write(Move("cleanup_pending"))
    /\ UNCHANGED <<package, env, disk, local, faults>>

\* request_workspace_cleanup, with the version its caller was shown
RequestCleanup ==
    /\ ws.status = "retained" /\ ws.verdict = "clean" /\ run \in Terminal
    /\ Write(Move("cleanup_pending"))
    /\ UNCHANGED <<run, package, env, disk, local, faults>>

\* A lane starts inference: mark_dispatched, or the Codex preflight.
StartRun ==
    /\ run = "queued" /\ run' = "running"
    /\ UNCHANGED <<ws, current, package, env, disk, local, faults>>

\* request_workspace_inspection, in a lane's terminal transaction.  From any
\* other status it raises, and the transaction is rolled back.
RequestInspection ==
    IF ws.status \in {"removed", "invalid", "inspection_pending", "inspecting"}
    THEN UNCHANGED <<ws, current>>
    ELSE ws.status = "ready" /\ Write(Move("inspection_pending"))
EndRun(status) ==
    /\ run \in {"queued", "running"} /\ run' = status
    /\ RequestInspection /\ Document(ws'.status)
    /\ UNCHANGED <<env, disk, local, faults>>

\* The worker finds the workspace or its binding changed before inference.
RejectBinding ==
    /\ run = "queued" /\ ~(bound /\ Intact)
    /\ Write(Move("invalid")) /\ FailRun("invalid")
    /\ UNCHANGED <<env, disk, local, faults>>

\* A queued run may infer too: the reply of its prompt was lost.  Only a workspace
\* that was ready once (it has a verdict) ever had an agent.
AgentEdits ==
    /\ ws.verdict # "none" /\ (run \in Terminal => "straggler" \in Disturbances)
    /\ "race" \in Disturbances \/ \A m \in Manager : pc[m] # "move"
    /\ final = "clean" /\ final' = "changed"
    /\ UNCHANGED <<rows, env, staging, trash, flock, local, faults>>

DeadlinePasses ==
    /\ ~overdue /\ overdue' = TRUE
    /\ UNCHANGED <<rows, repo, bound, disk, local, faults>>

TrustChanges ==
    /\ \/ repo # "revoked" /\ "revoke" \in Disturbances /\ repo' = "revoked"
       \/ repo = "ready" /\ "revalidate" \in Disturbances /\ repo' = "busy"
       \/ repo = "busy" /\ repo' = "ready"
    /\ UNCHANGED <<rows, overdue, bound, disk, local, faults>>

Unbind ==
    /\ "unbind" \in Disturbances /\ bound /\ bound' = FALSE
    /\ UNCHANGED <<rows, overdue, repo, disk, local, faults>>

Tamper ==
    /\ "tamper" \in Disturbances
    /\ final = "clean" /\ final' \in {"broken", "unreadable"}
    /\ UNCHANGED <<rows, env, staging, trash, flock, local, faults>>

-----------------------------------------------------------------------------

\* start_execution creates both rows in one transaction.
Init ==
    /\ ws = [status |-> "pending", owner |-> NoManager, lease |-> "none",
             failures |-> 0, verdict |-> "none"]
    /\ current = {} /\ run = "preparing" /\ package = "none"
    /\ overdue = FALSE /\ repo = "ready" /\ bound = TRUE
    /\ final = "none" /\ staging = FALSE /\ trash = "none" /\ flock = NoManager
    /\ pc = [m \in Manager |-> "idle"]
    /\ job = [m \in Manager |-> Idle]
    /\ faults = 0

Work(m) ==
    \/ Start(m) \/ Busy(m) \/ Recover(m) \/ PreflightTree(m) \/ MakeStaging(m)
    \/ Checkout(m) \/ Publish(m) \/ Verify(m) \/ CommitPrepare(m)
    \/ EnterInspect(m) \/ Inspect(m) \/ CommitInspect(m)
    \/ SweepTrash(m) \/ EnterCleanup(m) \/ MoveToTrash(m) \/ Shred(m) \/ CommitCleanup(m)
    \/ MarkFailure(m)

Lanes == StartRun \/ (\E status \in Terminal : EndRun(status)) \/ RejectBinding

Next ==
    \/ \E m \in Manager : Claim(m) \/ Work(m) \/ Hiccup(m) \/ Crash(m)
    \/ LeaseExpires \/ AbortPreparing \/ RequestCleanup \/ Lanes
    \/ AgentEdits \/ DeadlinePasses \/ TrustChanges \/ Unbind \/ Tamper

Spec == Init /\ [][Next]_vars

\* A manager that is up goes on with its work and polls for more; time passes.
Fairness ==
    /\ \A m \in Manager : WF_vars(Claim(m)) /\ WF_vars(Work(m))
    /\ WF_vars(LeaseExpires)
FairSpec == Spec /\ Fairness

-----------------------------------------------------------------------------
(* Properties.                                                             *)

\* The two rows move in step.  If they ever disagreed, a claim would invalidate
\* a sound workspace (claim_available), or the terminal transaction of a lane
\* would raise and be rolled back for ever (request_workspace_inspection).
PhasesAgree ==
    ws.status # "invalid" =>
      /\ run = "preparing" <=> ws.status \in PrepareQueue \cup {"preparing"}
      /\ run \in {"queued", "running"} <=> ws.status = "ready"

\* docs/G4_EVIDENCE_OBSERVABILITY.md: a result package is provisional only while
\* an inspection is pending.  (A binding broken from outside is the exception:
\* see NoPackageIsStuck.)
ProvisionalMeansPending ==
    package = "provisional" => ws.status \in {"inspection_pending", "inspecting"} \/ ~bound

\* A run is queued only by the manager that still owns the row and has verified the
\* directory, which is published and holds no edit of an agent, while the repository
\* is trusted and nobody has cancelled the run (mark_prepare_success).  Damage from
\* outside between that check and the transaction is left to the lanes to find.
QueuedOverCleanTree ==
    [][run = "preparing" /\ run' = "queued" =>
         /\ final \in {"clean", "broken", "unreadable"} /\ repo = "ready" /\ ~overdue
         /\ \E m \in current : pc[m] = "commit" /\ job[m].result = "clean"]_vars

\* The inspection or cleanup of a directory that git cannot read: mark_failure
\* queues it again for as long as the directory stays so.
RetriedForEver == final = "unreadable" /\ OperationFor(ws.status) # "prepare"


\* The abstract promise: a directory in the trash is not yet discarded.
Phase == CASE ws.status \in PrepareQueue \cup {"preparing"} -> "making"
           [] ws.status = "ready" -> "usable"
           [] ws.status = "removed" -> "removed"
           [] ws.status = "invalid" -> "refused"
           [] OTHER -> "closing"
TreeKept == CASE final = "none" /\ trash = "none" -> "absent"
              [] "changed" \in {final, trash} -> "edited"
              [] OTHER -> "pristine"
Promise == INSTANCE WorkspacePromise WITH phase <- Phase, tree <- TreeKept

\* Through crashes, overtaken managers and stragglers the lifecycle keeps the
\* promise of WorkspacePromise.
KeepsPromise == Promise!Spec

(* What the documents say of cases in which the code does not keep it; each is  *)
(* violated by a small instance of its own.                                     *)

\* docs/G4_EVIDENCE_OBSERVABILITY.md: every terminal execution has a package.
TerminalIsDocumented == run \in Terminal => package # "none"

\* docs/G2_TASK_WORKSPACES.md: a removal leaves no staging directory either.
NoStagingLeft == ws.status = "removed" => ~staging

\* docs/G4_EVIDENCE_OBSERVABILITY.md, whatever happens to the binding.
NoPackageIsStuck ==
    package = "provisional" => ws.status \in {"inspection_pending", "inspecting"}
=============================================================================
