----------------------- MODULE WorkspaceLifecycleProofs ----------------------
(***************************************************************************)
(* Theorems about WorkspaceLifecycle, for any managers and bounds.         *)
(***************************************************************************)
EXTENDS WorkspaceLifecycle, TLAPS

----------------------------------------------------------------------------
(* The inductive invariant                                                  *)

Building == {"mkdir", "checkout", "rename"}
Locked == Building \cup {"verify", "look", "move", "shred"}

\* What a manager does where it is, and what it may report.
Fits(op, result, at) ==
  /\ at # "idle" => op # "none"
  /\ at \in Building \cup {"verify"} => op = "prepare"
  /\ at = "look" => op = "inspect"
  /\ at \in {"move", "shred"} => op = "cleanup"
  /\ at = "commit" => \/ op = "prepare" /\ result = "clean"
                      \/ op = "inspect" /\ result \in {"clean", "changed"}
                      \/ op = "cleanup" /\ result \in {"gone", "changed"}
JobOK == \A m \in Manager : Fits(job[m].op, job[m].result, pc[m])

Does(op, status) ==
  \/ op = "prepare" /\ status = "preparing"
  \/ op = "inspect" /\ status = "inspecting"
  \/ op = "cleanup" /\ status = "cleaning"

\* A lease that names the row's version is the owner's, for the phase of its work.
OwnOK ==
  \A m \in current :
    /\ ws.owner = m /\ ws.status \in Working
    /\ pc[m] # "idle" => Does(job[m].op, ws.status)

\* A run is over when its workspace is refused; a preparation has no verdict.
RunOK ==
  /\ ws.status = "invalid" => run \in Terminal
  /\ run = "preparing" => ws.verdict = "none"

\* The file lock is held across the effects on the directory; nobody holds it when
\* the owner reports, nor when the directory is offered or gone.
LockOK ==
  /\ \A m \in Manager : pc[m] \in Locked => flock = m
  /\ \A m \in current : pc[m] = "commit" => flock = NoManager
  /\ ws.status \in {"ready", "removed"} => flock = NoManager

\* No agent ever had the directory that is being built.
FreshOK ==
  \A m \in Manager :
    /\ pc[m] \in Building \cup {"verify"} => ws.verdict = "none"
    /\ pc[m] \in Building \cup {"shred"} => final = "none"
    /\ pc[m] = "verify" => final \in {"clean", "broken", "unreadable"}

\* What the owner reports is still so, and stays so once it is recorded.
TreeOK ==
  /\ \A m \in current :
       pc[m] = "commit" =>
         /\ job[m].op = "prepare" => final \in {"clean", "broken", "unreadable"}
         /\ job[m].op = "cleanup" /\ job[m].result = "gone" => final = "none" /\ trash = "none"
  /\ ws.status = "ready" => final # "none"
  /\ ws.status = "removed" => final = "none" /\ trash = "none"

Sound ==
  /\ TypeOK /\ JobOK /\ OwnOK /\ RunOK /\ PhasesAgree
  /\ LockOK /\ FreshOK /\ TreeOK

\* Unless something edits between an inspection and its rename, what is discarded
\* is what the inspection saw.
MovedOK ==
  /\ \A m \in Manager : pc[m] = "move" => final \in {"clean", "broken", "unreadable"}
  /\ trash # "changed"

----------------------------------------------------------------------------
(* What the steps do                                                        *)

\* Only this manager's operation changes: it goes on, fails or ends.
Others(m) ==
  /\ pc' \in [Manager -> Place] /\ job' \in [Manager -> Job]
  /\ \A n \in Manager \ {m} : pc'[n] = pc[n] /\ job'[n] = job[n]
At(m, p) == Others(m) /\ pc'[m] = p /\ job'[m] = job[m]
Told(m, r) == Others(m) /\ pc'[m] = "commit" /\ job'[m].op = job[m].op /\ job'[m].result = r
Fails(m) == Others(m) /\ pc'[m] = "fail" /\ job'[m].op = job[m].op
Gone(m) == Others(m) /\ pc'[m] = "idle"

LEMMA GotoMoves ==
  ASSUME TypeOK, NEW m \in Manager, NEW p \in Place, Goto(m, p) PROVE At(m, p)
BY DEF TypeOK, Goto, At, Others

LEMMA OneJob ==
  ASSUME TypeOK, NEW m \in Manager, NEW p \in Place, NEW j \in Job,
         pc' = [pc EXCEPT ![m] = p], job' = [job EXCEPT ![m] = j]
  PROVE Others(m) /\ pc'[m] = p /\ job'[m] = j
BY DEF TypeOK, Others

\* A result is recorded beside the operation.
LEMMA OneResult ==
  ASSUME TypeOK, NEW m \in Manager, NEW p \in Place,
         NEW r \in {"clean", "changed", "gone", "transient", "terminal"},
         pc' = [pc EXCEPT ![m] = p], job' = [job EXCEPT ![m].result = r]
  PROVE Others(m) /\ pc'[m] = p /\ job'[m].op = job[m].op /\ job'[m].result = r
<1>1. job[m] \in Job /\ job \in [Manager -> Job]
  BY DEF TypeOK
<1>2. [job[m] EXCEPT !.result = r] \in Job
  BY <1>1 DEF Job
<1>3. PICK j \in Job : j = [job[m] EXCEPT !.result = r]
  BY <1>2
<1>4. j.op = job[m].op /\ j.result = r
  BY <1>1, <1>3 DEF Job
<1>5. job' = [job EXCEPT ![m] = j]
  BY <1>1, <1>3
<1>6. pc' = [pc EXCEPT ![m] = p]
  OBVIOUS
<1>7. Others(m) /\ pc'[m] = p /\ job'[m] = j
  BY <1>5, <1>6, OneJob
<1> QED BY <1>4, <1>7

LEMMA ReportTells ==
  ASSUME TypeOK, NEW m \in Manager, NEW r \in {"clean", "changed", "gone"}, Report(m, r)
  PROVE Told(m, r)
BY OneResult DEF Report, Told, Place

LEMMA RaiseFails ==
  ASSUME TypeOK, NEW m \in Manager, NEW e \in {"transient", "terminal"}, Raise(m, e)
  PROVE Fails(m)
BY OneResult DEF Raise, Fails, Place

LEMMA LeaveEnds == ASSUME TypeOK, NEW m \in Manager, Leave(m) PROVE Gone(m)
<1>1. Idle \in Job /\ "idle" \in Place
  BY DEF Idle, Job, Place
<1> QED BY <1>1, OneJob DEF Leave, Gone

\* The row is written, and every lease on it is void.
Wrote(status, verdict) ==
  /\ ws' \in Row /\ current' = {}
  /\ ws'.status = status /\ ws'.verdict = verdict

LEMMA MoveIsARow ==
  ASSUME TypeOK, NEW status \in Queue \cup Settled
  PROVE /\ Move(status) \in Row
        /\ Move(status).status = status /\ Move(status).verdict = ws.verdict
BY DEF TypeOK, Row, Move

LEMMA MoveWrites ==
  ASSUME TypeOK, NEW status \in Queue \cup Settled, Write(Move(status))
  PROVE Wrote(status, ws.verdict)
BY MoveIsARow DEF Write, Wrote

\* The run is failed and documented, unless it is over.
RunFails ==
  /\ run' \in Terminal /\ package' \in {"none", "provisional", "final"}
  /\ run \in Terminal => run' = run /\ package' = package
  /\ run \notin Terminal => package' = "final"
Refuses == Wrote("invalid", ws.verdict) /\ RunFails
Expires == Wrote("cleanup_pending", ws.verdict) /\ run' = "failed" /\ package' = "final"

LEMMA FailRunFails == ASSUME TypeOK, FailRun("invalid") PROVE RunFails
BY DEF TypeOK, FailRun, RunFails, Document, Packaged, Terminal

LEMMA InvalidateRefuses == ASSUME TypeOK, Invalidate PROVE Refuses
BY FailRunFails, MoveWrites DEF Invalidate, Refuses, Settled

LEMMA ExpireExpires == ASSUME TypeOK, Expire PROVE Expires
BY MoveWrites DEF Expire, Expires, Document, Packaged, Queue

\* The owner's row is in the phase of its operation.
Owns(m) == m \in current /\ Does(job[m].op, ws.status)

LEMMA OwnedOwns ==
  ASSUME TypeOK, JobOK, NEW m \in Manager, pc[m] # "idle", Owned(m) PROVE Owns(m)
<1>1. job[m].op \in {"prepare", "inspect", "cleanup"}
  BY DEF TypeOK, Job, JobOK, Fits
<1> QED BY <1>1 DEF Owned, Owns, Does, StatusOf

Preparing == ws.status \in PrepareQueue \cup {"preparing"}
ClaimDoes(m) ==
  /\ pc[m] = "idle" /\ UNCHANGED <<env, disk, faults>>
  /\ ws.status \in Queue \cup Working
  /\ \/ Refuses /\ (bound => run \notin Terminal) /\ UNCHANGED local
     \/ /\ Preparing /\ run \in Terminal
        /\ Wrote("cleanup_pending", ws.verdict) /\ UNCHANGED <<run, package, local>>
     \/ Preparing /\ run = "preparing" /\ Expires /\ UNCHANGED local
     \/ /\ ws' \in Row /\ ws'.verdict = ws.verdict /\ ws'.owner = m /\ current' = {m}
        /\ Others(m) /\ pc'[m] = "start" /\ Does(job'[m].op, ws'.status)
        /\ \/ Preparing /\ ws'.status = "preparing"
           \/ ws.status \in {"inspection_pending", "inspecting"} /\ ws'.status = "inspecting"
           \/ ws.status \in {"cleanup_pending", "cleaning"} /\ ws'.status = "cleaning"
        /\ UNCHANGED <<run, package>>

LEMMA ClaimEffect == ASSUME TypeOK, NEW m \in Manager, Claim(m) PROVE ClaimDoes(m)
<1> DEFINE op == OperationFor(ws.status)
<1>1. /\ pc[m] = "idle" /\ UNCHANGED <<env, disk, faults>>
      /\ ws.status \in Queue \cup Working
  BY DEF Claim, Due
<1>2. /\ op \in {"prepare", "inspect", "cleanup"} /\ (op = "prepare" <=> Preparing)
      /\ op = "inspect" <=> ws.status \in {"inspection_pending", "inspecting"}
      /\ op = "cleanup" <=> ws.status \in {"cleanup_pending", "cleaning"}
  BY <1>1 DEF OperationFor, Preparing, PrepareQueue, Queue, Working
<1>3. CASE ~bound
  BY <1>1, <1>3, InvalidateRefuses DEF Claim, ClaimDoes
<1>4. CASE bound /\ op = "prepare" /\ run \in Terminal
  BY <1>1, <1>2, <1>4, MoveWrites DEF Claim, ClaimDoes, Queue
<1>5. CASE bound /\ ~(op = "prepare" /\ run \in Terminal) /\ ~RunAllows(op)
  <2>1. run \notin Terminal
    BY <1>2, <1>5 DEF RunAllows
  <2> QED BY <1>1, <1>2, <1>5, <2>1, InvalidateRefuses DEF Claim, ClaimDoes
<1>6. CASE /\ bound /\ ~(op = "prepare" /\ run \in Terminal) /\ RunAllows(op)
           /\ op = "prepare" /\ overdue
  <2>1. run = "preparing" /\ Preparing
    BY <1>2, <1>6 DEF RunAllows
  <2> QED BY <1>1, <1>6, <2>1, ExpireExpires DEF Claim, ClaimDoes
<1>7. CASE /\ bound /\ ~(op = "prepare" /\ run \in Terminal) /\ RunAllows(op)
           /\ ~(op = "prepare" /\ overdue)
  <2>1. /\ ws' = [ws EXCEPT !.status = StatusOf[op], !.owner = m, !.lease = "live"]
        /\ current' = {m} /\ pc' = [pc EXCEPT ![m] = "start"]
        /\ job' = [job EXCEPT ![m] = [op |-> op, result |-> "none"]]
        /\ UNCHANGED <<run, package>>
    BY <1>7 DEF Claim
  <2>2. [op |-> op, result |-> "none"] \in Job
    BY <1>2 DEF Job
  <2>3. PICK j \in Job : j = [op |-> op, result |-> "none"]
    BY <2>2
  <2>4. Others(m) /\ pc'[m] = "start" /\ job'[m] = j
    BY <2>1, <2>3, OneJob DEF Place
  <2>5. StatusOf[op] \in Working /\ Does(op, StatusOf[op])
    BY <1>2 DEF StatusOf, Working, Does
  <2>6. /\ ws' \in Row /\ ws'.verdict = ws.verdict /\ ws'.owner = m
        /\ ws'.status = StatusOf[op]
    BY <2>1, <2>5 DEF TypeOK, Row
  <2>7. Does(job'[m].op, ws'.status)
    BY <2>3, <2>4, <2>5, <2>6
  <2>8. \/ Preparing /\ ws'.status = "preparing"
        \/ ws.status \in {"inspection_pending", "inspecting"} /\ ws'.status = "inspecting"
        \/ ws.status \in {"cleanup_pending", "cleaning"} /\ ws'.status = "cleaning"
    BY <1>2, <2>6 DEF StatusOf
  <2> QED BY <1>1, <2>1, <2>4, <2>6, <2>7, <2>8 DEF ClaimDoes
<1> QED BY <1>3, <1>4, <1>5, <1>6, <1>7

StartDoes(m) ==
  /\ pc[m] = "start" /\ UNCHANGED <<rows, env, disk, faults>>
  /\ Fails(m) \/ At(m, "enter")
LEMMA StartEffect == ASSUME TypeOK, NEW m \in Manager, Start(m) PROVE StartDoes(m)
BY GotoMoves, RaiseFails DEF Start, StartDoes, Place

BusyDoes(m) == pc[m] = "enter" /\ Fails(m) /\ UNCHANGED <<rows, env, disk, faults>>
LEMMA BusyEffect == ASSUME TypeOK, NEW m \in Manager, Busy(m) PROVE BusyDoes(m)
BY RaiseFails DEF Busy, BusyDoes

RecoverDoes(m) ==
  /\ Enters(m, "prepare") /\ UNCHANGED <<rows, env, disk, faults>>
  /\ (final = "clean" /\ Told(m, "clean")) \/ Fails(m)
LEMMA RecoverEffect == ASSUME TypeOK, NEW m \in Manager, Recover(m) PROVE RecoverDoes(m)
BY ReportTells, RaiseFails DEF Recover, RecoverDoes, Intact

PreflightDoes(m) ==
  /\ Enters(m, "prepare") /\ final = "none"
  /\ staging' = FALSE /\ UNCHANGED <<rows, env, final, trash, faults>>
  /\ \/ Owns(m) /\ At(m, "mkdir") /\ flock' = m
     \/ Gone(m) /\ UNCHANGED flock
LEMMA PreflightTreeEffect ==
  ASSUME TypeOK, JobOK, NEW m \in Manager, PreflightTree(m) PROVE PreflightDoes(m)
BY GotoMoves, LeaveEnds, OwnedOwns
   DEF PreflightTree, PreflightDoes, CleanupStaging, Enters, Lock, Place

MakeStagingDoes(m) ==
  /\ pc[m] = "mkdir" /\ At(m, "checkout")
  /\ staging' = TRUE /\ UNCHANGED <<rows, env, final, trash, flock, faults>>
LEMMA MakeStagingEffect ==
  ASSUME TypeOK, NEW m \in Manager, MakeStaging(m) PROVE MakeStagingDoes(m)
BY GotoMoves DEF MakeStaging, MakeStagingDoes, Place

CheckoutDoes(m) ==
  /\ pc[m] = "checkout" /\ UNCHANGED <<rows, env, final, trash, faults>>
  /\ \/ At(m, "rename") /\ UNCHANGED <<staging, flock>>
     \/ (Gone(m) \/ Fails(m)) /\ staging' = FALSE /\ flock' = NoManager
LEMMA CheckoutEffect == ASSUME TypeOK, NEW m \in Manager, Checkout(m) PROVE CheckoutDoes(m)
BY GotoMoves, LeaveEnds, RaiseFails DEF Checkout, CheckoutDoes, TooLarge, Unlock, Place

PublishDoes(m) ==
  /\ pc[m] = "rename" /\ At(m, "verify")
  /\ final' = "clean" /\ staging' = FALSE
  /\ UNCHANGED <<rows, env, trash, flock, faults>>
LEMMA PublishEffect == ASSUME TypeOK, NEW m \in Manager, Publish(m) PROVE PublishDoes(m)
BY GotoMoves DEF Publish, PublishDoes, Place

VerifyDoes(m) ==
  /\ pc[m] = "verify" /\ flock' = NoManager
  /\ UNCHANGED <<rows, env, staging, trash, faults>>
  /\ \/ final = "clean" /\ Told(m, "clean") /\ UNCHANGED final
     \/ final # "clean" /\ Fails(m) /\ final' = "none"
LEMMA VerifyEffect == ASSUME TypeOK, NEW m \in Manager, Verify(m) PROVE VerifyDoes(m)
BY ReportTells, RaiseFails DEF Verify, VerifyDoes, Intact, Unlock

CommitPrepareDoes(m) ==
  /\ pc[m] = "commit" /\ job[m].op = "prepare" /\ UNCHANGED <<env, disk, faults>>
  /\ \/ (Gone(m) \/ Fails(m)) /\ UNCHANGED rows
     \/ Owns(m) /\ ~bound /\ Gone(m) /\ Refuses
     \/ Owns(m) /\ run = "preparing" /\ Gone(m) /\ Expires
     \/ /\ Owns(m) /\ Gone(m) /\ repo = "ready" /\ ~overdue
        /\ Wrote("ready", "clean") /\ run' = "queued" /\ UNCHANGED package
LEMMA ReadyWrites ==
  ASSUME TypeOK, Write([Move("ready") EXCEPT !.failures = 0, !.verdict = "clean"])
  PROVE Wrote("ready", "clean")
<1>1. MaxFailures \in Nat /\ 0 \in 0..MaxFailures
  BY FailureAssumption
<1>2. PICK row \in Row : row = Move("ready")
  BY MoveIsARow DEF Settled
<1>3. row.status = "ready"
  BY <1>2, MoveIsARow DEF Settled
<1> QED BY <1>1, <1>2, <1>3 DEF Write, Wrote, Row
LEMMA CommitPrepareEffect ==
  ASSUME TypeOK, JobOK, NEW m \in Manager, CommitPrepare(m) PROVE CommitPrepareDoes(m)
<1>1. pc[m] = "commit" /\ job[m].op = "prepare" /\ UNCHANGED <<env, disk, faults>>
  BY DEF CommitPrepare
<1>2. Owned(m) => Owns(m)
  BY <1>1, OwnedOwns
<1>3. CASE ~Owned(m)
  BY <1>1, <1>3, LeaveEnds DEF CommitPrepare, CommitPrepareDoes
<1>4. CASE Owned(m) /\ ~bound
  BY <1>1, <1>2, <1>4, LeaveEnds, InvalidateRefuses DEF CommitPrepare, CommitPrepareDoes
<1>5. CASE Owned(m) /\ bound /\ (repo # "ready" \/ run # "preparing")
  BY <1>1, <1>5, LeaveEnds, RaiseFails DEF CommitPrepare, CommitPrepareDoes
<1>6. CASE Owned(m) /\ bound /\ repo = "ready" /\ run = "preparing" /\ overdue
  BY <1>1, <1>2, <1>6, LeaveEnds, ExpireExpires DEF CommitPrepare, CommitPrepareDoes
<1>7. CASE Owned(m) /\ bound /\ repo = "ready" /\ run = "preparing" /\ ~overdue
  BY <1>1, <1>2, <1>7, LeaveEnds, ReadyWrites DEF CommitPrepare, CommitPrepareDoes
<1> QED BY <1>3, <1>4, <1>5, <1>6, <1>7

EnterInspectDoes(m) ==
  /\ Enters(m, "inspect") /\ UNCHANGED <<rows, env, final, staging, trash, faults>>
  /\ \/ Owns(m) /\ At(m, "look") /\ flock' = m
     \/ Gone(m) /\ UNCHANGED flock
LEMMA EnterInspectEffect ==
  ASSUME TypeOK, JobOK, NEW m \in Manager, EnterInspect(m) PROVE EnterInspectDoes(m)
BY GotoMoves, LeaveEnds, OwnedOwns DEF EnterInspect, EnterInspectDoes, Enters, Lock, Place

InspectDoes(m) ==
  /\ pc[m] = "look" /\ flock' = NoManager
  /\ UNCHANGED <<rows, env, final, staging, trash, faults>>
  /\ \/ Fails(m) \/ Gone(m)
     \/ \E r \in {"clean", "changed"} : Told(m, r)
LEMMA InspectEffect == ASSUME TypeOK, NEW m \in Manager, Inspect(m) PROVE InspectDoes(m)
<1>1. /\ pc[m] = "look" /\ flock' = NoManager
      /\ UNCHANGED <<rows, env, final, staging, trash, faults>>
  BY DEF Inspect, Unlock
<1>2. ASSUME Unsteady(m) \/ (final \in {"none", "broken", "unreadable"} /\ Raise(m, Found))
      PROVE Fails(m)
  BY <1>2, RaiseFails DEF Unsteady, Found
<1>3. ASSUME final \in {"clean", "changed"}, Report(m, Found)
      PROVE \E r \in {"clean", "changed"} : Told(m, r)
  BY <1>3, ReportTells DEF Found
<1> QED BY <1>1, <1>2, <1>3, LeaveEnds DEF Inspect, InspectDoes

CommitInspectDoes(m) ==
  /\ pc[m] = "commit" /\ job[m].op = "inspect" /\ Gone(m) /\ UNCHANGED <<env, disk, faults>>
  /\ \/ UNCHANGED rows
     \/ Owns(m) /\ ~bound /\ Refuses
     \/ /\ Owns(m) /\ Wrote("retained", job[m].result)
        /\ package' = "final" /\ UNCHANGED run
LEMMA RetainedWrites ==
  ASSUME TypeOK, NEW r \in {"clean", "changed"},
         Write([Move("retained") EXCEPT !.verdict = r])
         \/ Write([Move("retained") EXCEPT !.failures = 0, !.verdict = r])
  PROVE Wrote("retained", r)
<1>1. MaxFailures \in Nat /\ 0 \in 0..MaxFailures
  BY FailureAssumption
<1>2. PICK row \in Row : row = Move("retained")
  BY MoveIsARow DEF Settled
<1>3. row.status = "retained"
  BY <1>2, MoveIsARow DEF Settled
<1> QED BY <1>1, <1>2, <1>3 DEF Write, Wrote, Row
LEMMA CommitInspectEffect ==
  ASSUME TypeOK, JobOK, NEW m \in Manager, CommitInspect(m) PROVE CommitInspectDoes(m)
<1>1. /\ pc[m] = "commit" /\ job[m].op = "inspect" /\ Gone(m)
      /\ UNCHANGED <<env, disk, faults>>
  BY LeaveEnds DEF CommitInspect
<1>2. job[m].result \in {"clean", "changed"}
  BY <1>1 DEF JobOK, Fits
<1> QED BY <1>1, <1>2, OwnedOwns, InvalidateRefuses, RetainedWrites
        DEF CommitInspect, CommitInspectDoes

SweepTrashDoes(m) ==
  /\ Enters(m, "cleanup") /\ final = "none" /\ trash' = "none" /\ Told(m, "gone")
  /\ UNCHANGED <<rows, env, final, staging, flock, faults>>
LEMMA SweepTrashEffect ==
  ASSUME TypeOK, NEW m \in Manager, SweepTrash(m) PROVE SweepTrashDoes(m)
BY ReportTells DEF SweepTrash, SweepTrashDoes

EnterCleanupDoes(m) ==
  /\ Enters(m, "cleanup") /\ final # "none"
  /\ UNCHANGED <<rows, env, final, staging, trash, faults>>
  /\ \/ (Fails(m) \/ Gone(m) \/ Told(m, "changed")) /\ UNCHANGED flock
     \/ final = "clean" /\ Owns(m) /\ At(m, "move") /\ flock' = m
LEMMA EnterCleanupEffect ==
  ASSUME TypeOK, JobOK, NEW m \in Manager, EnterCleanup(m) PROVE EnterCleanupDoes(m)
<1>1. /\ Enters(m, "cleanup") /\ final # "none" /\ pc[m] # "idle"
      /\ UNCHANGED <<rows, env, final, staging, trash, faults>>
  BY DEF EnterCleanup, Enters
<1>2. CASE Unsteady(m) /\ UNCHANGED flock
  BY <1>1, <1>2, RaiseFails DEF EnterCleanupDoes, Unsteady
<1>3. CASE final \in {"broken", "unreadable"} /\ Raise(m, Found) /\ UNCHANGED flock
  BY <1>1, <1>3, RaiseFails DEF EnterCleanupDoes, Found
<1>4. CASE Leave(m) /\ UNCHANGED flock
  BY <1>1, <1>4, LeaveEnds DEF EnterCleanupDoes
<1>5. CASE Report(m, "changed") /\ UNCHANGED flock
  BY <1>1, <1>5, ReportTells DEF EnterCleanupDoes
<1>6. CASE final = "clean" /\ Owned(m) /\ Goto(m, "move") /\ Lock(m)
  BY <1>1, <1>6, GotoMoves, OwnedOwns DEF EnterCleanupDoes, Lock, Place
<1> QED BY <1>2, <1>3, <1>4, <1>5, <1>6 DEF EnterCleanup

MoveToTrashDoes(m) ==
  /\ pc[m] = "move" /\ At(m, "shred") /\ trash' = final /\ final' = "none"
  /\ UNCHANGED <<rows, env, staging, flock, faults>>
LEMMA MoveToTrashEffect ==
  ASSUME TypeOK, NEW m \in Manager, MoveToTrash(m) PROVE MoveToTrashDoes(m)
BY GotoMoves DEF MoveToTrash, MoveToTrashDoes, Place

ShredDoes(m) ==
  /\ pc[m] = "shred" /\ flock' = NoManager /\ trash' = "none" /\ Told(m, "gone")
  /\ UNCHANGED <<rows, env, final, staging, faults>>
LEMMA ShredEffect == ASSUME TypeOK, NEW m \in Manager, Shred(m) PROVE ShredDoes(m)
BY ReportTells DEF Shred, ShredDoes, Unlock

CommitCleanupDoes(m) ==
  /\ pc[m] = "commit" /\ job[m].op = "cleanup" /\ Gone(m) /\ UNCHANGED <<env, disk, faults>>
  /\ \/ UNCHANGED rows
     \/ Owns(m) /\ ~bound /\ Refuses
     \/ /\ Owns(m) /\ UNCHANGED <<run, package>>
        /\ \/ job[m].result = "gone" /\ Wrote("removed", ws.verdict)
           \/ Wrote("retained", "changed")
LEMMA CommitCleanupEffect ==
  ASSUME TypeOK, JobOK, NEW m \in Manager, CommitCleanup(m) PROVE CommitCleanupDoes(m)
<1>1. /\ pc[m] = "commit" /\ job[m].op = "cleanup" /\ Gone(m)
      /\ UNCHANGED <<env, disk, faults>>
  BY LeaveEnds DEF CommitCleanup
<1>2. job[m].result \in {"gone", "changed"}
  BY <1>1 DEF JobOK, Fits
<1>3. CASE ~Owned(m) \/ ~bound
  BY <1>1, <1>3, OwnedOwns, InvalidateRefuses DEF CommitCleanup, CommitCleanupDoes
<1>4. CASE Owned(m) /\ bound /\ job[m].result = "gone"
  BY <1>1, <1>4, OwnedOwns, MoveWrites DEF CommitCleanup, CommitCleanupDoes, Settled
<1>5. CASE Owned(m) /\ bound /\ job[m].result = "changed"
  BY <1>1, <1>5, OwnedOwns, RetainedWrites DEF CommitCleanup, CommitCleanupDoes
<1> QED BY <1>2, <1>3, <1>4, <1>5

MarkFailureDoes(m) ==
  /\ pc[m] = "fail" /\ Gone(m) /\ UNCHANGED <<env, disk, faults>>
  /\ \/ UNCHANGED rows
     \/ Owns(m) /\ ~bound /\ Refuses
     \/ /\ Owns(m) /\ UNCHANGED <<run, package>>
        /\ \E status \in {"unavailable", "inspection_pending", "cleanup_pending"} :
             /\ job[m].op = "prepare" <=> status = "unavailable"
             /\ job[m].op = "inspect" <=> status = "inspection_pending"
             /\ Wrote(status, ws.verdict)
     \/ /\ Owns(m) /\ Wrote("invalid", ws.verdict)
        /\ job[m].op = "prepare" => RunFails
        /\ job[m].op = "inspect" => run' = run /\ package' = "final"
        /\ job[m].op = "cleanup" => run' = run /\ package' = package
LEMMA MarkFailureEffect ==
  ASSUME TypeOK, JobOK, NEW m \in Manager, MarkFailure(m) PROVE MarkFailureDoes(m)
<1> DEFINE failed == [Move("invalid") EXCEPT !.failures =
                        IF @ < MaxFailures THEN @ + 1 ELSE MaxFailures]
           retry == IF job[m].op = "prepare" THEN "unavailable" ELSE QueueOf[job[m].op]
<1>1. pc[m] = "fail" /\ Gone(m) /\ UNCHANGED <<env, disk, faults>>
  BY LeaveEnds DEF MarkFailure
<1>2. job[m].op \in {"prepare", "inspect", "cleanup"}
  BY <1>1 DEF TypeOK, Job, JobOK, Fits
<1>3. /\ retry \in {"unavailable", "inspection_pending", "cleanup_pending"}
      /\ job[m].op = "prepare" <=> retry = "unavailable"
      /\ job[m].op = "inspect" <=> retry = "inspection_pending"
  BY <1>2 DEF QueueOf
<1>4. /\ failed \in Row /\ failed.status = "invalid" /\ failed.verdict = ws.verdict
  <2>1. /\ Move("invalid") \in Row /\ Move("invalid").status = "invalid"
        /\ Move("invalid").verdict = ws.verdict
    BY MoveIsARow DEF Settled
  <2>2. MaxFailures \in Nat /\ \A n \in 0..MaxFailures :
          (IF n < MaxFailures THEN n + 1 ELSE MaxFailures) \in 0..MaxFailures
    BY FailureAssumption
  <2> QED BY <2>1, <2>2 DEF Row
<1>5. /\ [failed EXCEPT !.status = retry] \in Row
      /\ [failed EXCEPT !.status = retry].status = retry
      /\ [failed EXCEPT !.status = retry].verdict = ws.verdict
  BY <1>3, <1>4 DEF Row, Queue, PrepareQueue
<1>6. CASE ~Owned(m) \/ ~bound
  BY <1>1, <1>6, OwnedOwns, InvalidateRefuses DEF MarkFailure, MarkFailureDoes
<1>7. CASE Owned(m) /\ bound /\ ~GivesUp(m)
  <2>1. Write([failed EXCEPT !.status = retry]) /\ UNCHANGED <<run, package>>
    BY <1>7 DEF MarkFailure
  <2>2. Wrote(retry, ws.verdict)
    BY <1>5, <2>1 DEF Write, Wrote
  <2>3. Owns(m)
    BY <1>1, <1>7, OwnedOwns
  <2> HIDE DEF retry
  <2> QED BY <1>1, <1>3, <2>1, <2>2, <2>3 DEF MarkFailureDoes
<1>8. CASE Owned(m) /\ bound /\ GivesUp(m)
  <2>1. /\ Write(failed)
        /\ job[m].op = "prepare" => FailRun("invalid")
        /\ job[m].op = "inspect" => run' = run /\ Document("invalid")
        /\ job[m].op = "cleanup" => run' = run /\ package' = package
    BY <1>2, <1>8 DEF MarkFailure
  <2>2. Wrote("invalid", ws.verdict)
    BY <1>4, <2>1 DEF Write, Wrote
  <2>3. Owns(m)
    BY <1>1, <1>8, OwnedOwns
  <2>4. job[m].op = "inspect" => package' = "final"
    BY <2>1 DEF Document, Packaged
  <2> QED BY <1>1, <2>1, <2>2, <2>3, <2>4, FailRunFails DEF MarkFailureDoes
<1> QED BY <1>6, <1>7, <1>8

Counts == faults' \in 0..MaxFaults
LEMMA FaultCounts == ASSUME TypeOK, Fault PROVE Counts
BY FaultAssumption DEF TypeOK, Fault, Counts

HiccupDoes(m) ==
  /\ pc[m] # "idle" /\ Counts /\ Fails(m) /\ UNCHANGED <<rows, env, final, trash>>
  /\ staging' \in BOOLEAN
  /\ flock' = IF flock = m THEN NoManager ELSE flock
LEMMA HiccupEffect == ASSUME TypeOK, NEW m \in Manager, Hiccup(m) PROVE HiccupDoes(m)
<1>1. /\ pc[m] # "idle" /\ UNCHANGED <<rows, env, final, trash>>
      /\ flock' = IF flock = m THEN NoManager ELSE flock
  BY DEF Hiccup
<1>2. staging' \in BOOLEAN
  BY DEF Hiccup, TypeOK
<1>3. Counts /\ Fails(m)
  BY FaultCounts, RaiseFails DEF Hiccup
<1> QED BY <1>1, <1>2, <1>3 DEF HiccupDoes

CrashDoes(m) ==
  /\ pc[m] # "idle" /\ Counts /\ Gone(m) /\ UNCHANGED <<rows, env, final, staging, trash>>
  /\ flock' = IF flock = m THEN NoManager ELSE flock
LEMMA CrashEffect == ASSUME TypeOK, NEW m \in Manager, Crash(m) PROVE CrashDoes(m)
BY FaultCounts, LeaveEnds DEF Crash, CrashDoes

LeaseDoes ==
  /\ ws' \in Row /\ Counts
  /\ ws'.status = ws.status /\ ws'.owner = ws.owner /\ ws'.verdict = ws.verdict
  /\ UNCHANGED <<current, run, package, env, disk, local>>
LEMMA LeaseExpiresEffect == ASSUME TypeOK, LeaseExpires PROVE LeaseDoes
<1>1. Counts
  BY FaultCounts DEF LeaseExpires, TypeOK, Counts
<1> QED BY <1>1 DEF TypeOK, Row, LeaseExpires, LeaseDoes

AbortDoes ==
  /\ run = "preparing" /\ run' = "cancelled" /\ Wrote("cleanup_pending", ws.verdict)
  /\ UNCHANGED <<package, env, disk, local, faults>>
LEMMA AbortPreparingEffect == ASSUME TypeOK, AbortPreparing PROVE AbortDoes
BY MoveWrites DEF AbortPreparing, AbortDoes, Queue

RequestCleanupDoes ==
  /\ ws.status = "retained" /\ run \in Terminal /\ Wrote("cleanup_pending", ws.verdict)
  /\ UNCHANGED <<run, package, env, disk, local, faults>>
LEMMA RequestCleanupEffect == ASSUME TypeOK, RequestCleanup PROVE RequestCleanupDoes
BY MoveWrites DEF RequestCleanup, RequestCleanupDoes, Queue

EndRunDoes ==
  /\ run \in {"queued", "running"} /\ run' \in Terminal
  /\ UNCHANGED <<env, disk, local, faults>>
  /\ \/ ws.status # "ready" /\ UNCHANGED <<ws, current>>
     \/ ws.status = "ready" /\ Wrote("inspection_pending", ws.verdict)
  /\ \/ package' = "final"
     \/ package' = "provisional" /\ ws'.status \in {"inspection_pending", "inspecting"}
LEMMA EndRunEffect ==
  ASSUME TypeOK, NEW status \in Terminal, EndRun(status) PROVE EndRunDoes
<1>1. /\ run \in {"queued", "running"} /\ run' \in Terminal
      /\ UNCHANGED <<env, disk, local, faults>>
      /\ RequestInspection /\ package' = Packaged(ws'.status)
  BY DEF EndRun, Document
<1>2. \/ ws.status # "ready" /\ UNCHANGED <<ws, current>>
      \/ ws.status = "ready" /\ Wrote("inspection_pending", ws.verdict)
  BY <1>1, MoveWrites DEF RequestInspection, Queue
<1> QED BY <1>1, <1>2 DEF EndRunDoes, Packaged

RejectDoes ==
  /\ run = "queued" /\ Refuses /\ UNCHANGED <<env, disk, local, faults>>
LEMMA RejectBindingEffect == ASSUME TypeOK, RejectBinding PROVE RejectDoes
BY MoveWrites, FailRunFails DEF RejectBinding, RejectDoes, Refuses, Settled

----------------------------------------------------------------------------
(* The invariant is inductive                                               *)

\* Every step keeps the types.
LEMMA TypeStep ==
  ASSUME Sound, [Next]_vars PROVE TypeOK'
<1>1. ASSUME NEW m \in Manager, Claim(m) PROVE TypeOK'
  <2>1. ClaimDoes(m)
    BY <1>1, ClaimEffect DEF Sound
  <2> QED
    BY <2>1 DEF ClaimDoes, Others, At, Told, Fails, Gone, Enters, Wrote,
       Refuses, Expires, RunFails, Counts, Owns, rows, env, disk, local, Sound,
       TypeOK, Terminal, PrepareQueue, Tree
<1>2. ASSUME NEW m \in Manager, Start(m) PROVE TypeOK'
  <2>1. StartDoes(m)
    BY <1>2, StartEffect DEF Sound
  <2> QED
    BY <2>1 DEF StartDoes, Others, At, Told, Fails, Gone, Enters, Wrote,
       Refuses, Expires, RunFails, Counts, Owns, rows, env, disk, local, Sound,
       TypeOK, Terminal, PrepareQueue, Tree
<1>3. ASSUME NEW m \in Manager, Busy(m) PROVE TypeOK'
  <2>1. BusyDoes(m)
    BY <1>3, BusyEffect DEF Sound
  <2> QED
    BY <2>1 DEF BusyDoes, Others, At, Told, Fails, Gone, Enters, Wrote,
       Refuses, Expires, RunFails, Counts, Owns, rows, env, disk, local, Sound,
       TypeOK, Terminal, PrepareQueue, Tree
<1>4. ASSUME NEW m \in Manager, Recover(m) PROVE TypeOK'
  <2>1. RecoverDoes(m)
    BY <1>4, RecoverEffect DEF Sound
  <2> QED
    BY <2>1 DEF RecoverDoes, Others, At, Told, Fails, Gone, Enters, Wrote,
       Refuses, Expires, RunFails, Counts, Owns, rows, env, disk, local, Sound,
       TypeOK, Terminal, PrepareQueue, Tree
<1>5. ASSUME NEW m \in Manager, PreflightTree(m) PROVE TypeOK'
  <2>1. PreflightDoes(m)
    BY <1>5, PreflightTreeEffect DEF Sound
  <2> QED
    BY <2>1 DEF PreflightDoes, Others, At, Told, Fails, Gone, Enters, Wrote,
       Refuses, Expires, RunFails, Counts, Owns, rows, env, disk, local, Sound,
       TypeOK, Terminal, PrepareQueue, Tree
<1>6. ASSUME NEW m \in Manager, MakeStaging(m) PROVE TypeOK'
  <2>1. MakeStagingDoes(m)
    BY <1>6, MakeStagingEffect DEF Sound
  <2> QED
    BY <2>1 DEF MakeStagingDoes, Others, At, Told, Fails, Gone, Enters,
       Wrote, Refuses, Expires, RunFails, Counts, Owns, rows, env, disk, local,
       Sound, TypeOK, Terminal, PrepareQueue, Tree
<1>7. ASSUME NEW m \in Manager, Checkout(m) PROVE TypeOK'
  <2>1. CheckoutDoes(m)
    BY <1>7, CheckoutEffect DEF Sound
  <2>2. pc' \in [Manager -> Place] /\ job' \in [Manager -> Job]
    BY <2>1 DEF CheckoutDoes, At, Gone, Fails, Others
  <2>3. UNCHANGED <<rows, env, final, trash, faults>>
    BY <2>1 DEF CheckoutDoes
  <2>4. CASE UNCHANGED <<staging, flock>>
    BY <2>2, <2>3, <2>4 DEF Sound, TypeOK, rows, env
  <2>5. CASE staging' = FALSE /\ flock' = NoManager
    BY <2>2, <2>3, <2>5 DEF Sound, TypeOK, rows, env
  <2> QED
    BY <2>1, <2>4, <2>5 DEF CheckoutDoes
<1>8. ASSUME NEW m \in Manager, Publish(m) PROVE TypeOK'
  <2>1. PublishDoes(m)
    BY <1>8, PublishEffect DEF Sound
  <2> QED
    BY <2>1 DEF PublishDoes, Others, At, Told, Fails, Gone, Enters, Wrote,
       Refuses, Expires, RunFails, Counts, Owns, rows, env, disk, local, Sound,
       TypeOK, Terminal, PrepareQueue, Tree
<1>9. ASSUME NEW m \in Manager, Verify(m) PROVE TypeOK'
  <2>1. VerifyDoes(m)
    BY <1>9, VerifyEffect DEF Sound
  <2> QED
    BY <2>1 DEF VerifyDoes, Others, At, Told, Fails, Gone, Enters, Wrote,
       Refuses, Expires, RunFails, Counts, Owns, rows, env, disk, local, Sound,
       TypeOK, Terminal, PrepareQueue, Tree
<1>10. ASSUME NEW m \in Manager, CommitPrepare(m) PROVE TypeOK'
  <2>1. CommitPrepareDoes(m)
    BY <1>10, CommitPrepareEffect DEF Sound
  <2> QED
    BY <2>1 DEF CommitPrepareDoes, Others, At, Told, Fails, Gone, Enters,
       Wrote, Refuses, Expires, RunFails, Counts, Owns, rows, env, disk, local,
       Sound, TypeOK, Terminal, PrepareQueue, Tree
<1>11. ASSUME NEW m \in Manager, EnterInspect(m) PROVE TypeOK'
  <2>1. EnterInspectDoes(m)
    BY <1>11, EnterInspectEffect DEF Sound
  <2> QED
    BY <2>1 DEF EnterInspectDoes, Others, At, Told, Fails, Gone, Enters,
       Wrote, Refuses, Expires, RunFails, Counts, Owns, rows, env, disk, local,
       Sound, TypeOK, Terminal, PrepareQueue, Tree
<1>12. ASSUME NEW m \in Manager, Inspect(m) PROVE TypeOK'
  <2>1. InspectDoes(m)
    BY <1>12, InspectEffect DEF Sound
  <2> QED
    BY <2>1 DEF InspectDoes, Others, At, Told, Fails, Gone, Enters, Wrote,
       Refuses, Expires, RunFails, Counts, Owns, rows, env, disk, local, Sound,
       TypeOK, Terminal, PrepareQueue, Tree
<1>13. ASSUME NEW m \in Manager, CommitInspect(m) PROVE TypeOK'
  <2>1. CommitInspectDoes(m)
    BY <1>13, CommitInspectEffect DEF Sound
  <2> QED
    BY <2>1 DEF CommitInspectDoes, Others, At, Told, Fails, Gone, Enters,
       Wrote, Refuses, Expires, RunFails, Counts, Owns, rows, env, disk, local,
       Sound, TypeOK, Terminal, PrepareQueue, Tree
<1>14. ASSUME NEW m \in Manager, SweepTrash(m) PROVE TypeOK'
  <2>1. SweepTrashDoes(m)
    BY <1>14, SweepTrashEffect DEF Sound
  <2> QED
    BY <2>1 DEF SweepTrashDoes, Others, At, Told, Fails, Gone, Enters,
       Wrote, Refuses, Expires, RunFails, Counts, Owns, rows, env, disk, local,
       Sound, TypeOK, Terminal, PrepareQueue, Tree
<1>15. ASSUME NEW m \in Manager, EnterCleanup(m) PROVE TypeOK'
  <2>1. EnterCleanupDoes(m)
    BY <1>15, EnterCleanupEffect DEF Sound
  <2> QED
    BY <2>1 DEF EnterCleanupDoes, Others, At, Told, Fails, Gone, Enters,
       Wrote, Refuses, Expires, RunFails, Counts, Owns, rows, env, disk, local,
       Sound, TypeOK, Terminal, PrepareQueue, Tree
<1>16. ASSUME NEW m \in Manager, MoveToTrash(m) PROVE TypeOK'
  <2>1. MoveToTrashDoes(m)
    BY <1>16, MoveToTrashEffect DEF Sound
  <2> QED
    BY <2>1 DEF MoveToTrashDoes, Others, At, Told, Fails, Gone, Enters,
       Wrote, Refuses, Expires, RunFails, Counts, Owns, rows, env, disk, local,
       Sound, TypeOK, Terminal, PrepareQueue, Tree
<1>17. ASSUME NEW m \in Manager, Shred(m) PROVE TypeOK'
  <2>1. ShredDoes(m)
    BY <1>17, ShredEffect DEF Sound
  <2> QED
    BY <2>1 DEF ShredDoes, Others, At, Told, Fails, Gone, Enters, Wrote,
       Refuses, Expires, RunFails, Counts, Owns, rows, env, disk, local, Sound,
       TypeOK, Terminal, PrepareQueue, Tree
<1>18. ASSUME NEW m \in Manager, CommitCleanup(m) PROVE TypeOK'
  <2>1. CommitCleanupDoes(m)
    BY <1>18, CommitCleanupEffect DEF Sound
  <2> QED
    BY <2>1 DEF CommitCleanupDoes, Others, At, Told, Fails, Gone, Enters,
       Wrote, Refuses, Expires, RunFails, Counts, Owns, rows, env, disk, local,
       Sound, TypeOK, Terminal, PrepareQueue, Tree
<1>19. ASSUME NEW m \in Manager, MarkFailure(m) PROVE TypeOK'
  <2>1. MarkFailureDoes(m)
    BY <1>19, MarkFailureEffect DEF Sound
  <2>2. pc' \in [Manager -> Place] /\ job' \in [Manager -> Job]
    BY <2>1 DEF MarkFailureDoes, Gone, Others
  <2>3. UNCHANGED <<env, disk, faults>>
    BY <2>1 DEF MarkFailureDoes
  <2>4. /\ ws' \in Row /\ current' \in SUBSET Manager
        /\ run' \in {"preparing", "queued", "running"} \cup Terminal
        /\ package' \in {"none", "provisional", "final"}
    <3>1. job[m].op \in {"prepare", "inspect", "cleanup"}
      BY <2>1 DEF MarkFailureDoes, Sound, TypeOK, Job, JobOK, Fits
    <3> QED
      BY <2>1, <3>1 DEF MarkFailureDoes, Refuses, RunFails, Wrote, rows, Sound,
         TypeOK, Terminal
  <2> QED
    BY <2>2, <2>3, <2>4 DEF Sound, TypeOK, env, disk
<1>20. ASSUME NEW m \in Manager, Hiccup(m) PROVE TypeOK'
  <2>1. HiccupDoes(m)
    BY <1>20, HiccupEffect DEF Sound
  <2> QED
    BY <2>1 DEF HiccupDoes, Others, At, Told, Fails, Gone, Enters, Wrote,
       Refuses, Expires, RunFails, Counts, Owns, rows, env, disk, local, Sound,
       TypeOK, Terminal, PrepareQueue, Tree
<1>21. ASSUME NEW m \in Manager, Crash(m) PROVE TypeOK'
  <2>1. CrashDoes(m)
    BY <1>21, CrashEffect DEF Sound
  <2> QED
    BY <2>1 DEF CrashDoes, Others, At, Told, Fails, Gone, Enters, Wrote,
       Refuses, Expires, RunFails, Counts, Owns, rows, env, disk, local, Sound,
       TypeOK, Terminal, PrepareQueue, Tree
<1>22. ASSUME LeaseExpires PROVE TypeOK'
  <2>1. LeaseDoes
    BY <1>22, LeaseExpiresEffect DEF Sound
  <2> QED
    BY <2>1 DEF LeaseDoes, Others, At, Told, Fails, Gone, Enters, Wrote,
       Refuses, Expires, RunFails, Counts, Owns, rows, env, disk, local, Sound,
       TypeOK, Terminal, PrepareQueue, Tree
<1>23. ASSUME AbortPreparing PROVE TypeOK'
  <2>1. AbortDoes
    BY <1>23, AbortPreparingEffect DEF Sound
  <2> QED
    BY <2>1 DEF AbortDoes, Others, At, Told, Fails, Gone, Enters, Wrote,
       Refuses, Expires, RunFails, Counts, Owns, rows, env, disk, local, Sound,
       TypeOK, Terminal, PrepareQueue, Tree
<1>24. ASSUME RequestCleanup PROVE TypeOK'
  <2>1. RequestCleanupDoes
    BY <1>24, RequestCleanupEffect DEF Sound
  <2> QED
    BY <2>1 DEF RequestCleanupDoes, Others, At, Told, Fails, Gone, Enters,
       Wrote, Refuses, Expires, RunFails, Counts, Owns, rows, env, disk, local,
       Sound, TypeOK, Terminal, PrepareQueue, Tree
<1>25. ASSUME StartRun PROVE TypeOK'
  BY <1>25 DEF StartRun, rows, env, disk, local, Sound, TypeOK, Terminal,
     PrepareQueue, Tree
<1>26. ASSUME NEW status \in Terminal, EndRun(status) PROVE TypeOK'
  <2>1. EndRunDoes
    BY <1>26, EndRunEffect DEF Sound
  <2> QED
    BY <2>1 DEF EndRunDoes, Others, At, Told, Fails, Gone, Enters, Wrote,
       Refuses, Expires, RunFails, Counts, Owns, rows, env, disk, local, Sound,
       TypeOK, Terminal, PrepareQueue, Tree
<1>27. ASSUME RejectBinding PROVE TypeOK'
  <2>1. RejectDoes
    BY <1>27, RejectBindingEffect DEF Sound
  <2> QED
    BY <2>1 DEF RejectDoes, Others, At, Told, Fails, Gone, Enters, Wrote,
       Refuses, Expires, RunFails, Counts, Owns, rows, env, disk, local, Sound,
       TypeOK, Terminal, PrepareQueue, Tree
<1>28. ASSUME AgentEdits PROVE TypeOK'
  BY <1>28 DEF AgentEdits, rows, env, disk, local, Sound, TypeOK, Terminal,
     PrepareQueue, Tree
<1>29. ASSUME DeadlinePasses PROVE TypeOK'
  BY <1>29 DEF DeadlinePasses, rows, env, disk, local, Sound, TypeOK,
     Terminal, PrepareQueue, Tree
<1>30. ASSUME TrustChanges PROVE TypeOK'
  <2>1. repo' \in {"ready", "busy", "revoked"}
    BY <1>30 DEF TrustChanges
  <2>2. UNCHANGED <<rows, overdue, bound, disk, local, faults>>
    BY <1>30 DEF TrustChanges
  <2> QED
    BY <2>1, <2>2 DEF rows, disk, local, Sound, TypeOK
<1>31. ASSUME Unbind PROVE TypeOK'
  <2>1. bound' \in BOOLEAN
    BY <1>31 DEF Unbind
  <2>2. UNCHANGED <<rows, overdue, repo, disk, local, faults>>
    BY <1>31 DEF Unbind
  <2> QED
    BY <2>1, <2>2 DEF rows, disk, local, Sound, TypeOK
<1>32. ASSUME Tamper PROVE TypeOK'
  BY <1>32 DEF Tamper, rows, env, disk, local, Sound, TypeOK, Terminal,
     PrepareQueue, Tree
<1>33. ASSUME UNCHANGED vars PROVE TypeOK'
  BY <1>33 DEF vars, rows, env, disk, local, Sound, TypeOK, Terminal,
     PrepareQueue, Tree
<1> QED
  BY <1>1, <1>2, <1>3, <1>4, <1>5, <1>6, <1>7, <1>8, <1>9, <1>10, <1>11,
     <1>12, <1>13, <1>14, <1>15, <1>16, <1>17, <1>18, <1>19, <1>20, <1>21,
     <1>22, <1>23, <1>24, <1>25, <1>26, <1>27, <1>28, <1>29, <1>30, <1>31,
     <1>32, <1>33 DEF Next, Work, Lanes

\* A manager does only what it claimed, and reports only what it found.
LEMMA JobStep ==
  ASSUME Sound, [Next]_vars PROVE JobOK'
<1>1. ASSUME NEW m \in Manager, Claim(m) PROVE JobOK'
  <2>1. ClaimDoes(m)
    BY <1>1, ClaimEffect DEF Sound
  <2> QED
    BY <2>1 DEF ClaimDoes, Others, At, Told, Fails, Gone, Enters, Wrote,
       Refuses, Expires, RunFails, Counts, Owns, rows, env, disk, local, Sound,
       JobOK, Fits, Building, Does
<1>2. ASSUME NEW m \in Manager, Start(m) PROVE JobOK'
  <2>1. StartDoes(m)
    BY <1>2, StartEffect DEF Sound
  <2> QED
    BY <2>1 DEF StartDoes, Others, At, Told, Fails, Gone, Enters, Wrote,
       Refuses, Expires, RunFails, Counts, Owns, rows, env, disk, local, Sound,
       JobOK, Fits, Building, Does
<1>3. ASSUME NEW m \in Manager, Busy(m) PROVE JobOK'
  <2>1. BusyDoes(m)
    BY <1>3, BusyEffect DEF Sound
  <2> QED
    BY <2>1 DEF BusyDoes, Others, At, Told, Fails, Gone, Enters, Wrote,
       Refuses, Expires, RunFails, Counts, Owns, rows, env, disk, local, Sound,
       JobOK, Fits, Building, Does
<1>4. ASSUME NEW m \in Manager, Recover(m) PROVE JobOK'
  <2>1. RecoverDoes(m)
    BY <1>4, RecoverEffect DEF Sound
  <2> QED
    BY <2>1 DEF RecoverDoes, Others, At, Told, Fails, Gone, Enters, Wrote,
       Refuses, Expires, RunFails, Counts, Owns, rows, env, disk, local, Sound,
       JobOK, Fits, Building, Does
<1>5. ASSUME NEW m \in Manager, PreflightTree(m) PROVE JobOK'
  <2>1. PreflightDoes(m)
    BY <1>5, PreflightTreeEffect DEF Sound
  <2> QED
    BY <2>1 DEF PreflightDoes, Others, At, Told, Fails, Gone, Enters, Wrote,
       Refuses, Expires, RunFails, Counts, Owns, rows, env, disk, local, Sound,
       JobOK, Fits, Building, Does
<1>6. ASSUME NEW m \in Manager, MakeStaging(m) PROVE JobOK'
  <2>1. MakeStagingDoes(m)
    BY <1>6, MakeStagingEffect DEF Sound
  <2> QED
    BY <2>1 DEF MakeStagingDoes, Others, At, Told, Fails, Gone, Enters,
       Wrote, Refuses, Expires, RunFails, Counts, Owns, rows, env, disk, local,
       Sound, JobOK, Fits, Building, Does
<1>7. ASSUME NEW m \in Manager, Checkout(m) PROVE JobOK'
  <2>1. CheckoutDoes(m)
    BY <1>7, CheckoutEffect DEF Sound
  <2> QED
    BY <2>1 DEF CheckoutDoes, Others, At, Told, Fails, Gone, Enters, Wrote,
       Refuses, Expires, RunFails, Counts, Owns, rows, env, disk, local, Sound,
       JobOK, Fits, Building, Does
<1>8. ASSUME NEW m \in Manager, Publish(m) PROVE JobOK'
  <2>1. PublishDoes(m)
    BY <1>8, PublishEffect DEF Sound
  <2> QED
    BY <2>1 DEF PublishDoes, Others, At, Told, Fails, Gone, Enters, Wrote,
       Refuses, Expires, RunFails, Counts, Owns, rows, env, disk, local, Sound,
       JobOK, Fits, Building, Does
<1>9. ASSUME NEW m \in Manager, Verify(m) PROVE JobOK'
  <2>1. VerifyDoes(m)
    BY <1>9, VerifyEffect DEF Sound
  <2> QED
    BY <2>1 DEF VerifyDoes, Others, At, Told, Fails, Gone, Enters, Wrote,
       Refuses, Expires, RunFails, Counts, Owns, rows, env, disk, local, Sound,
       JobOK, Fits, Building, Does
<1>10. ASSUME NEW m \in Manager, CommitPrepare(m) PROVE JobOK'
  <2>1. CommitPrepareDoes(m)
    BY <1>10, CommitPrepareEffect DEF Sound
  <2> QED
    BY <2>1 DEF CommitPrepareDoes, Others, At, Told, Fails, Gone, Enters,
       Wrote, Refuses, Expires, RunFails, Counts, Owns, rows, env, disk, local,
       Sound, JobOK, Fits, Building, Does
<1>11. ASSUME NEW m \in Manager, EnterInspect(m) PROVE JobOK'
  <2>1. EnterInspectDoes(m)
    BY <1>11, EnterInspectEffect DEF Sound
  <2> QED
    BY <2>1 DEF EnterInspectDoes, Others, At, Told, Fails, Gone, Enters,
       Wrote, Refuses, Expires, RunFails, Counts, Owns, rows, env, disk, local,
       Sound, JobOK, Fits, Building, Does
<1>12. ASSUME NEW m \in Manager, Inspect(m) PROVE JobOK'
  <2>1. InspectDoes(m)
    BY <1>12, InspectEffect DEF Sound
  <2> QED
    BY <2>1 DEF InspectDoes, Others, At, Told, Fails, Gone, Enters, Wrote,
       Refuses, Expires, RunFails, Counts, Owns, rows, env, disk, local, Sound,
       JobOK, Fits, Building, Does
<1>13. ASSUME NEW m \in Manager, CommitInspect(m) PROVE JobOK'
  <2>1. CommitInspectDoes(m)
    BY <1>13, CommitInspectEffect DEF Sound
  <2> QED
    BY <2>1 DEF CommitInspectDoes, Others, At, Told, Fails, Gone, Enters,
       Wrote, Refuses, Expires, RunFails, Counts, Owns, rows, env, disk, local,
       Sound, JobOK, Fits, Building, Does
<1>14. ASSUME NEW m \in Manager, SweepTrash(m) PROVE JobOK'
  <2>1. SweepTrashDoes(m)
    BY <1>14, SweepTrashEffect DEF Sound
  <2> QED
    BY <2>1 DEF SweepTrashDoes, Others, At, Told, Fails, Gone, Enters,
       Wrote, Refuses, Expires, RunFails, Counts, Owns, rows, env, disk, local,
       Sound, JobOK, Fits, Building, Does
<1>15. ASSUME NEW m \in Manager, EnterCleanup(m) PROVE JobOK'
  <2>1. EnterCleanupDoes(m)
    BY <1>15, EnterCleanupEffect DEF Sound
  <2> QED
    BY <2>1 DEF EnterCleanupDoes, Others, At, Told, Fails, Gone, Enters,
       Wrote, Refuses, Expires, RunFails, Counts, Owns, rows, env, disk, local,
       Sound, JobOK, Fits, Building, Does
<1>16. ASSUME NEW m \in Manager, MoveToTrash(m) PROVE JobOK'
  <2>1. MoveToTrashDoes(m)
    BY <1>16, MoveToTrashEffect DEF Sound
  <2> QED
    BY <2>1 DEF MoveToTrashDoes, Others, At, Told, Fails, Gone, Enters,
       Wrote, Refuses, Expires, RunFails, Counts, Owns, rows, env, disk, local,
       Sound, JobOK, Fits, Building, Does
<1>17. ASSUME NEW m \in Manager, Shred(m) PROVE JobOK'
  <2>1. ShredDoes(m)
    BY <1>17, ShredEffect DEF Sound
  <2> QED
    BY <2>1 DEF ShredDoes, Others, At, Told, Fails, Gone, Enters, Wrote,
       Refuses, Expires, RunFails, Counts, Owns, rows, env, disk, local, Sound,
       JobOK, Fits, Building, Does
<1>18. ASSUME NEW m \in Manager, CommitCleanup(m) PROVE JobOK'
  <2>1. CommitCleanupDoes(m)
    BY <1>18, CommitCleanupEffect DEF Sound
  <2> QED
    BY <2>1 DEF CommitCleanupDoes, Others, At, Told, Fails, Gone, Enters,
       Wrote, Refuses, Expires, RunFails, Counts, Owns, rows, env, disk, local,
       Sound, JobOK, Fits, Building, Does
<1>19. ASSUME NEW m \in Manager, MarkFailure(m) PROVE JobOK'
  <2>1. MarkFailureDoes(m)
    BY <1>19, MarkFailureEffect DEF Sound
  <2> QED
    BY <2>1 DEF MarkFailureDoes, Others, At, Told, Fails, Gone, Enters,
       Wrote, Refuses, Expires, RunFails, Counts, Owns, rows, env, disk, local,
       Sound, JobOK, Fits, Building, Does
<1>20. ASSUME NEW m \in Manager, Hiccup(m) PROVE JobOK'
  <2>1. HiccupDoes(m)
    BY <1>20, HiccupEffect DEF Sound
  <2> QED
    BY <2>1 DEF HiccupDoes, Others, At, Told, Fails, Gone, Enters, Wrote,
       Refuses, Expires, RunFails, Counts, Owns, rows, env, disk, local, Sound,
       JobOK, Fits, Building, Does
<1>21. ASSUME NEW m \in Manager, Crash(m) PROVE JobOK'
  <2>1. CrashDoes(m)
    BY <1>21, CrashEffect DEF Sound
  <2> QED
    BY <2>1 DEF CrashDoes, Others, At, Told, Fails, Gone, Enters, Wrote,
       Refuses, Expires, RunFails, Counts, Owns, rows, env, disk, local, Sound,
       JobOK, Fits, Building, Does
<1>22. ASSUME LeaseExpires PROVE JobOK'
  <2>1. LeaseDoes
    BY <1>22, LeaseExpiresEffect DEF Sound
  <2> QED
    BY <2>1 DEF LeaseDoes, Others, At, Told, Fails, Gone, Enters, Wrote,
       Refuses, Expires, RunFails, Counts, Owns, rows, env, disk, local, Sound,
       JobOK, Fits, Building, Does
<1>23. ASSUME AbortPreparing PROVE JobOK'
  <2>1. AbortDoes
    BY <1>23, AbortPreparingEffect DEF Sound
  <2> QED
    BY <2>1 DEF AbortDoes, Others, At, Told, Fails, Gone, Enters, Wrote,
       Refuses, Expires, RunFails, Counts, Owns, rows, env, disk, local, Sound,
       JobOK, Fits, Building, Does
<1>24. ASSUME RequestCleanup PROVE JobOK'
  <2>1. RequestCleanupDoes
    BY <1>24, RequestCleanupEffect DEF Sound
  <2> QED
    BY <2>1 DEF RequestCleanupDoes, Others, At, Told, Fails, Gone, Enters,
       Wrote, Refuses, Expires, RunFails, Counts, Owns, rows, env, disk, local,
       Sound, JobOK, Fits, Building, Does
<1>25. ASSUME StartRun PROVE JobOK'
  BY <1>25 DEF StartRun, rows, env, disk, local, Sound, JobOK, Fits,
     Building, Does
<1>26. ASSUME NEW status \in Terminal, EndRun(status) PROVE JobOK'
  <2>1. EndRunDoes
    BY <1>26, EndRunEffect DEF Sound
  <2> QED
    BY <2>1 DEF EndRunDoes, Others, At, Told, Fails, Gone, Enters, Wrote,
       Refuses, Expires, RunFails, Counts, Owns, rows, env, disk, local, Sound,
       JobOK, Fits, Building, Does
<1>27. ASSUME RejectBinding PROVE JobOK'
  <2>1. RejectDoes
    BY <1>27, RejectBindingEffect DEF Sound
  <2> QED
    BY <2>1 DEF RejectDoes, Others, At, Told, Fails, Gone, Enters, Wrote,
       Refuses, Expires, RunFails, Counts, Owns, rows, env, disk, local, Sound,
       JobOK, Fits, Building, Does
<1>28. ASSUME AgentEdits PROVE JobOK'
  BY <1>28 DEF AgentEdits, rows, env, disk, local, Sound, JobOK, Fits,
     Building, Does
<1>29. ASSUME DeadlinePasses PROVE JobOK'
  BY <1>29 DEF DeadlinePasses, rows, env, disk, local, Sound, JobOK, Fits,
     Building, Does
<1>30. ASSUME TrustChanges PROVE JobOK'
  BY <1>30 DEF TrustChanges, rows, env, disk, local, Sound, JobOK, Fits,
     Building, Does
<1>31. ASSUME Unbind PROVE JobOK'
  BY <1>31 DEF Unbind, rows, env, disk, local, Sound, JobOK, Fits, Building,
     Does
<1>32. ASSUME Tamper PROVE JobOK'
  BY <1>32 DEF Tamper, rows, env, disk, local, Sound, JobOK, Fits, Building,
     Does
<1>33. ASSUME UNCHANGED vars PROVE JobOK'
  BY <1>33 DEF vars, rows, env, disk, local, Sound, JobOK, Fits, Building,
     Does
<1> QED
  BY <1>1, <1>2, <1>3, <1>4, <1>5, <1>6, <1>7, <1>8, <1>9, <1>10, <1>11,
     <1>12, <1>13, <1>14, <1>15, <1>16, <1>17, <1>18, <1>19, <1>20, <1>21,
     <1>22, <1>23, <1>24, <1>25, <1>26, <1>27, <1>28, <1>29, <1>30, <1>31,
     <1>32, <1>33 DEF Next, Work, Lanes

\* A lease that names the row stays its owner's until the row is written.
LEMMA OwnStep ==
  ASSUME Sound, [Next]_vars PROVE OwnOK'
<1>1. ASSUME NEW m \in Manager, Claim(m) PROVE OwnOK'
  <2>1. ClaimDoes(m)
    BY <1>1, ClaimEffect DEF Sound
  <2> QED
    BY <2>1 DEF ClaimDoes, Others, At, Told, Fails, Gone, Enters, Wrote,
       Refuses, Expires, RunFails, Counts, Owns, rows, env, disk, local, Sound,
       TypeOK, OwnOK, Does, Working, JobOK, Fits
<1>2. ASSUME NEW m \in Manager, Start(m) PROVE OwnOK'
  <2>1. StartDoes(m)
    BY <1>2, StartEffect DEF Sound
  <2> QED
    BY <2>1 DEF StartDoes, Others, At, Told, Fails, Gone, Enters, Wrote,
       Refuses, Expires, RunFails, Counts, Owns, rows, env, disk, local, Sound,
       TypeOK, OwnOK, Does, Working, JobOK, Fits
<1>3. ASSUME NEW m \in Manager, Busy(m) PROVE OwnOK'
  <2>1. BusyDoes(m)
    BY <1>3, BusyEffect DEF Sound
  <2> QED
    BY <2>1 DEF BusyDoes, Others, At, Told, Fails, Gone, Enters, Wrote,
       Refuses, Expires, RunFails, Counts, Owns, rows, env, disk, local, Sound,
       TypeOK, OwnOK, Does, Working, JobOK, Fits
<1>4. ASSUME NEW m \in Manager, Recover(m) PROVE OwnOK'
  <2>1. RecoverDoes(m)
    BY <1>4, RecoverEffect DEF Sound
  <2> QED
    BY <2>1 DEF RecoverDoes, Others, At, Told, Fails, Gone, Enters, Wrote,
       Refuses, Expires, RunFails, Counts, Owns, rows, env, disk, local, Sound,
       TypeOK, OwnOK, Does, Working, JobOK, Fits
<1>5. ASSUME NEW m \in Manager, PreflightTree(m) PROVE OwnOK'
  <2>1. PreflightDoes(m)
    BY <1>5, PreflightTreeEffect DEF Sound
  <2> QED
    BY <2>1 DEF PreflightDoes, Others, At, Told, Fails, Gone, Enters, Wrote,
       Refuses, Expires, RunFails, Counts, Owns, rows, env, disk, local, Sound,
       TypeOK, OwnOK, Does, Working, JobOK, Fits
<1>6. ASSUME NEW m \in Manager, MakeStaging(m) PROVE OwnOK'
  <2>1. MakeStagingDoes(m)
    BY <1>6, MakeStagingEffect DEF Sound
  <2> QED
    BY <2>1 DEF MakeStagingDoes, Others, At, Told, Fails, Gone, Enters,
       Wrote, Refuses, Expires, RunFails, Counts, Owns, rows, env, disk, local,
       Sound, TypeOK, OwnOK, Does, Working, JobOK, Fits
<1>7. ASSUME NEW m \in Manager, Checkout(m) PROVE OwnOK'
  <2>1. CheckoutDoes(m)
    BY <1>7, CheckoutEffect DEF Sound
  <2> QED
    BY <2>1 DEF CheckoutDoes, Others, At, Told, Fails, Gone, Enters, Wrote,
       Refuses, Expires, RunFails, Counts, Owns, rows, env, disk, local, Sound,
       TypeOK, OwnOK, Does, Working, JobOK, Fits
<1>8. ASSUME NEW m \in Manager, Publish(m) PROVE OwnOK'
  <2>1. PublishDoes(m)
    BY <1>8, PublishEffect DEF Sound
  <2> QED
    BY <2>1 DEF PublishDoes, Others, At, Told, Fails, Gone, Enters, Wrote,
       Refuses, Expires, RunFails, Counts, Owns, rows, env, disk, local, Sound,
       TypeOK, OwnOK, Does, Working, JobOK, Fits
<1>9. ASSUME NEW m \in Manager, Verify(m) PROVE OwnOK'
  <2>1. VerifyDoes(m)
    BY <1>9, VerifyEffect DEF Sound
  <2> QED
    BY <2>1 DEF VerifyDoes, Others, At, Told, Fails, Gone, Enters, Wrote,
       Refuses, Expires, RunFails, Counts, Owns, rows, env, disk, local, Sound,
       TypeOK, OwnOK, Does, Working, JobOK, Fits
<1>10. ASSUME NEW m \in Manager, CommitPrepare(m) PROVE OwnOK'
  <2>1. CommitPrepareDoes(m)
    BY <1>10, CommitPrepareEffect DEF Sound
  <2> QED
    BY <2>1 DEF CommitPrepareDoes, Others, At, Told, Fails, Gone, Enters,
       Wrote, Refuses, Expires, RunFails, Counts, Owns, rows, env, disk, local,
       Sound, TypeOK, OwnOK, Does, Working, JobOK, Fits
<1>11. ASSUME NEW m \in Manager, EnterInspect(m) PROVE OwnOK'
  <2>1. EnterInspectDoes(m)
    BY <1>11, EnterInspectEffect DEF Sound
  <2> QED
    BY <2>1 DEF EnterInspectDoes, Others, At, Told, Fails, Gone, Enters,
       Wrote, Refuses, Expires, RunFails, Counts, Owns, rows, env, disk, local,
       Sound, TypeOK, OwnOK, Does, Working, JobOK, Fits
<1>12. ASSUME NEW m \in Manager, Inspect(m) PROVE OwnOK'
  <2>1. InspectDoes(m)
    BY <1>12, InspectEffect DEF Sound
  <2> QED
    BY <2>1 DEF InspectDoes, Others, At, Told, Fails, Gone, Enters, Wrote,
       Refuses, Expires, RunFails, Counts, Owns, rows, env, disk, local, Sound,
       TypeOK, OwnOK, Does, Working, JobOK, Fits
<1>13. ASSUME NEW m \in Manager, CommitInspect(m) PROVE OwnOK'
  <2>1. CommitInspectDoes(m)
    BY <1>13, CommitInspectEffect DEF Sound
  <2> QED
    BY <2>1 DEF CommitInspectDoes, Others, At, Told, Fails, Gone, Enters,
       Wrote, Refuses, Expires, RunFails, Counts, Owns, rows, env, disk, local,
       Sound, TypeOK, OwnOK, Does, Working, JobOK, Fits
<1>14. ASSUME NEW m \in Manager, SweepTrash(m) PROVE OwnOK'
  <2>1. SweepTrashDoes(m)
    BY <1>14, SweepTrashEffect DEF Sound
  <2> QED
    BY <2>1 DEF SweepTrashDoes, Others, At, Told, Fails, Gone, Enters,
       Wrote, Refuses, Expires, RunFails, Counts, Owns, rows, env, disk, local,
       Sound, TypeOK, OwnOK, Does, Working, JobOK, Fits
<1>15. ASSUME NEW m \in Manager, EnterCleanup(m) PROVE OwnOK'
  <2>1. EnterCleanupDoes(m)
    BY <1>15, EnterCleanupEffect DEF Sound
  <2> QED
    BY <2>1 DEF EnterCleanupDoes, Others, At, Told, Fails, Gone, Enters,
       Wrote, Refuses, Expires, RunFails, Counts, Owns, rows, env, disk, local,
       Sound, TypeOK, OwnOK, Does, Working, JobOK, Fits
<1>16. ASSUME NEW m \in Manager, MoveToTrash(m) PROVE OwnOK'
  <2>1. MoveToTrashDoes(m)
    BY <1>16, MoveToTrashEffect DEF Sound
  <2> QED
    BY <2>1 DEF MoveToTrashDoes, Others, At, Told, Fails, Gone, Enters,
       Wrote, Refuses, Expires, RunFails, Counts, Owns, rows, env, disk, local,
       Sound, TypeOK, OwnOK, Does, Working, JobOK, Fits
<1>17. ASSUME NEW m \in Manager, Shred(m) PROVE OwnOK'
  <2>1. ShredDoes(m)
    BY <1>17, ShredEffect DEF Sound
  <2> QED
    BY <2>1 DEF ShredDoes, Others, At, Told, Fails, Gone, Enters, Wrote,
       Refuses, Expires, RunFails, Counts, Owns, rows, env, disk, local, Sound,
       TypeOK, OwnOK, Does, Working, JobOK, Fits
<1>18. ASSUME NEW m \in Manager, CommitCleanup(m) PROVE OwnOK'
  <2>1. CommitCleanupDoes(m)
    BY <1>18, CommitCleanupEffect DEF Sound
  <2> QED
    BY <2>1 DEF CommitCleanupDoes, Others, At, Told, Fails, Gone, Enters,
       Wrote, Refuses, Expires, RunFails, Counts, Owns, rows, env, disk, local,
       Sound, TypeOK, OwnOK, Does, Working, JobOK, Fits
<1>19. ASSUME NEW m \in Manager, MarkFailure(m) PROVE OwnOK'
  <2>1. MarkFailureDoes(m)
    BY <1>19, MarkFailureEffect DEF Sound
  <2> QED
    BY <2>1 DEF MarkFailureDoes, Others, At, Told, Fails, Gone, Enters,
       Wrote, Refuses, Expires, RunFails, Counts, Owns, rows, env, disk, local,
       Sound, TypeOK, OwnOK, Does, Working, JobOK, Fits
<1>20. ASSUME NEW m \in Manager, Hiccup(m) PROVE OwnOK'
  <2>1. HiccupDoes(m)
    BY <1>20, HiccupEffect DEF Sound
  <2> QED
    BY <2>1 DEF HiccupDoes, Others, At, Told, Fails, Gone, Enters, Wrote,
       Refuses, Expires, RunFails, Counts, Owns, rows, env, disk, local, Sound,
       TypeOK, OwnOK, Does, Working, JobOK, Fits
<1>21. ASSUME NEW m \in Manager, Crash(m) PROVE OwnOK'
  <2>1. CrashDoes(m)
    BY <1>21, CrashEffect DEF Sound
  <2> QED
    BY <2>1 DEF CrashDoes, Others, At, Told, Fails, Gone, Enters, Wrote,
       Refuses, Expires, RunFails, Counts, Owns, rows, env, disk, local, Sound,
       TypeOK, OwnOK, Does, Working, JobOK, Fits
<1>22. ASSUME LeaseExpires PROVE OwnOK'
  <2>1. LeaseDoes
    BY <1>22, LeaseExpiresEffect DEF Sound
  <2> QED
    BY <2>1 DEF LeaseDoes, Others, At, Told, Fails, Gone, Enters, Wrote,
       Refuses, Expires, RunFails, Counts, Owns, rows, env, disk, local, Sound,
       TypeOK, OwnOK, Does, Working, JobOK, Fits
<1>23. ASSUME AbortPreparing PROVE OwnOK'
  <2>1. AbortDoes
    BY <1>23, AbortPreparingEffect DEF Sound
  <2> QED
    BY <2>1 DEF AbortDoes, Others, At, Told, Fails, Gone, Enters, Wrote,
       Refuses, Expires, RunFails, Counts, Owns, rows, env, disk, local, Sound,
       TypeOK, OwnOK, Does, Working, JobOK, Fits
<1>24. ASSUME RequestCleanup PROVE OwnOK'
  <2>1. RequestCleanupDoes
    BY <1>24, RequestCleanupEffect DEF Sound
  <2> QED
    BY <2>1 DEF RequestCleanupDoes, Others, At, Told, Fails, Gone, Enters,
       Wrote, Refuses, Expires, RunFails, Counts, Owns, rows, env, disk, local,
       Sound, TypeOK, OwnOK, Does, Working, JobOK, Fits
<1>25. ASSUME StartRun PROVE OwnOK'
  BY <1>25 DEF StartRun, rows, env, disk, local, Sound, TypeOK, OwnOK, Does,
     Working, JobOK, Fits
<1>26. ASSUME NEW status \in Terminal, EndRun(status) PROVE OwnOK'
  <2>1. EndRunDoes
    BY <1>26, EndRunEffect DEF Sound
  <2> QED
    BY <2>1 DEF EndRunDoes, Others, At, Told, Fails, Gone, Enters, Wrote,
       Refuses, Expires, RunFails, Counts, Owns, rows, env, disk, local, Sound,
       TypeOK, OwnOK, Does, Working, JobOK, Fits
<1>27. ASSUME RejectBinding PROVE OwnOK'
  <2>1. RejectDoes
    BY <1>27, RejectBindingEffect DEF Sound
  <2> QED
    BY <2>1 DEF RejectDoes, Others, At, Told, Fails, Gone, Enters, Wrote,
       Refuses, Expires, RunFails, Counts, Owns, rows, env, disk, local, Sound,
       TypeOK, OwnOK, Does, Working, JobOK, Fits
<1>28. ASSUME AgentEdits PROVE OwnOK'
  BY <1>28 DEF AgentEdits, rows, env, disk, local, Sound, TypeOK, OwnOK,
     Does, Working, JobOK, Fits
<1>29. ASSUME DeadlinePasses PROVE OwnOK'
  BY <1>29 DEF DeadlinePasses, rows, env, disk, local, Sound, TypeOK, OwnOK,
     Does, Working, JobOK, Fits
<1>30. ASSUME TrustChanges PROVE OwnOK'
  BY <1>30 DEF TrustChanges, rows, env, disk, local, Sound, TypeOK, OwnOK,
     Does, Working, JobOK, Fits
<1>31. ASSUME Unbind PROVE OwnOK'
  BY <1>31 DEF Unbind, rows, env, disk, local, Sound, TypeOK, OwnOK, Does,
     Working, JobOK, Fits
<1>32. ASSUME Tamper PROVE OwnOK'
  BY <1>32 DEF Tamper, rows, env, disk, local, Sound, TypeOK, OwnOK, Does,
     Working, JobOK, Fits
<1>33. ASSUME UNCHANGED vars PROVE OwnOK'
  BY <1>33 DEF vars, rows, env, disk, local, Sound, TypeOK, OwnOK, Does,
     Working, JobOK, Fits
<1> QED
  BY <1>1, <1>2, <1>3, <1>4, <1>5, <1>6, <1>7, <1>8, <1>9, <1>10, <1>11,
     <1>12, <1>13, <1>14, <1>15, <1>16, <1>17, <1>18, <1>19, <1>20, <1>21,
     <1>22, <1>23, <1>24, <1>25, <1>26, <1>27, <1>28, <1>29, <1>30, <1>31,
     <1>32, <1>33 DEF Next, Work, Lanes

\* The run is over when its workspace is refused; no verdict precedes it.
LEMMA RunStep ==
  ASSUME Sound, [Next]_vars PROVE RunOK'
<1>1. ASSUME NEW m \in Manager, Claim(m) PROVE RunOK'
  <2>1. ClaimDoes(m)
    BY <1>1, ClaimEffect DEF Sound
  <2> QED
    BY <2>1 DEF ClaimDoes, Others, At, Told, Fails, Gone, Enters, Wrote,
       Refuses, Expires, RunFails, Counts, Owns, rows, env, disk, local, Sound,
       TypeOK, RunOK, PhasesAgree, Terminal, Does, PrepareQueue, JobOK, Fits
<1>2. ASSUME NEW m \in Manager, Start(m) PROVE RunOK'
  <2>1. StartDoes(m)
    BY <1>2, StartEffect DEF Sound
  <2> QED
    BY <2>1 DEF StartDoes, Others, At, Told, Fails, Gone, Enters, Wrote,
       Refuses, Expires, RunFails, Counts, Owns, rows, env, disk, local, Sound,
       TypeOK, RunOK, PhasesAgree, Terminal, Does, PrepareQueue, JobOK, Fits
<1>3. ASSUME NEW m \in Manager, Busy(m) PROVE RunOK'
  <2>1. BusyDoes(m)
    BY <1>3, BusyEffect DEF Sound
  <2> QED
    BY <2>1 DEF BusyDoes, Others, At, Told, Fails, Gone, Enters, Wrote,
       Refuses, Expires, RunFails, Counts, Owns, rows, env, disk, local, Sound,
       TypeOK, RunOK, PhasesAgree, Terminal, Does, PrepareQueue, JobOK, Fits
<1>4. ASSUME NEW m \in Manager, Recover(m) PROVE RunOK'
  <2>1. RecoverDoes(m)
    BY <1>4, RecoverEffect DEF Sound
  <2> QED
    BY <2>1 DEF RecoverDoes, Others, At, Told, Fails, Gone, Enters, Wrote,
       Refuses, Expires, RunFails, Counts, Owns, rows, env, disk, local, Sound,
       TypeOK, RunOK, PhasesAgree, Terminal, Does, PrepareQueue, JobOK, Fits
<1>5. ASSUME NEW m \in Manager, PreflightTree(m) PROVE RunOK'
  <2>1. PreflightDoes(m)
    BY <1>5, PreflightTreeEffect DEF Sound
  <2> QED
    BY <2>1 DEF PreflightDoes, Others, At, Told, Fails, Gone, Enters, Wrote,
       Refuses, Expires, RunFails, Counts, Owns, rows, env, disk, local, Sound,
       TypeOK, RunOK, PhasesAgree, Terminal, Does, PrepareQueue, JobOK, Fits
<1>6. ASSUME NEW m \in Manager, MakeStaging(m) PROVE RunOK'
  <2>1. MakeStagingDoes(m)
    BY <1>6, MakeStagingEffect DEF Sound
  <2> QED
    BY <2>1 DEF MakeStagingDoes, Others, At, Told, Fails, Gone, Enters,
       Wrote, Refuses, Expires, RunFails, Counts, Owns, rows, env, disk, local,
       Sound, TypeOK, RunOK, PhasesAgree, Terminal, Does, PrepareQueue, JobOK,
       Fits
<1>7. ASSUME NEW m \in Manager, Checkout(m) PROVE RunOK'
  <2>1. CheckoutDoes(m)
    BY <1>7, CheckoutEffect DEF Sound
  <2> QED
    BY <2>1 DEF CheckoutDoes, Others, At, Told, Fails, Gone, Enters, Wrote,
       Refuses, Expires, RunFails, Counts, Owns, rows, env, disk, local, Sound,
       TypeOK, RunOK, PhasesAgree, Terminal, Does, PrepareQueue, JobOK, Fits
<1>8. ASSUME NEW m \in Manager, Publish(m) PROVE RunOK'
  <2>1. PublishDoes(m)
    BY <1>8, PublishEffect DEF Sound
  <2> QED
    BY <2>1 DEF PublishDoes, Others, At, Told, Fails, Gone, Enters, Wrote,
       Refuses, Expires, RunFails, Counts, Owns, rows, env, disk, local, Sound,
       TypeOK, RunOK, PhasesAgree, Terminal, Does, PrepareQueue, JobOK, Fits
<1>9. ASSUME NEW m \in Manager, Verify(m) PROVE RunOK'
  <2>1. VerifyDoes(m)
    BY <1>9, VerifyEffect DEF Sound
  <2> QED
    BY <2>1 DEF VerifyDoes, Others, At, Told, Fails, Gone, Enters, Wrote,
       Refuses, Expires, RunFails, Counts, Owns, rows, env, disk, local, Sound,
       TypeOK, RunOK, PhasesAgree, Terminal, Does, PrepareQueue, JobOK, Fits
<1>10. ASSUME NEW m \in Manager, CommitPrepare(m) PROVE RunOK'
  <2>1. CommitPrepareDoes(m)
    BY <1>10, CommitPrepareEffect DEF Sound
  <2> QED
    BY <2>1 DEF CommitPrepareDoes, Others, At, Told, Fails, Gone, Enters,
       Wrote, Refuses, Expires, RunFails, Counts, Owns, rows, env, disk, local,
       Sound, TypeOK, RunOK, PhasesAgree, Terminal, Does, PrepareQueue, JobOK,
       Fits
<1>11. ASSUME NEW m \in Manager, EnterInspect(m) PROVE RunOK'
  <2>1. EnterInspectDoes(m)
    BY <1>11, EnterInspectEffect DEF Sound
  <2> QED
    BY <2>1 DEF EnterInspectDoes, Others, At, Told, Fails, Gone, Enters,
       Wrote, Refuses, Expires, RunFails, Counts, Owns, rows, env, disk, local,
       Sound, TypeOK, RunOK, PhasesAgree, Terminal, Does, PrepareQueue, JobOK,
       Fits
<1>12. ASSUME NEW m \in Manager, Inspect(m) PROVE RunOK'
  <2>1. InspectDoes(m)
    BY <1>12, InspectEffect DEF Sound
  <2> QED
    BY <2>1 DEF InspectDoes, Others, At, Told, Fails, Gone, Enters, Wrote,
       Refuses, Expires, RunFails, Counts, Owns, rows, env, disk, local, Sound,
       TypeOK, RunOK, PhasesAgree, Terminal, Does, PrepareQueue, JobOK, Fits
<1>13. ASSUME NEW m \in Manager, CommitInspect(m) PROVE RunOK'
  <2>1. CommitInspectDoes(m)
    BY <1>13, CommitInspectEffect DEF Sound
  <2> QED
    BY <2>1 DEF CommitInspectDoes, Others, At, Told, Fails, Gone, Enters,
       Wrote, Refuses, Expires, RunFails, Counts, Owns, rows, env, disk, local,
       Sound, TypeOK, RunOK, PhasesAgree, Terminal, Does, PrepareQueue, JobOK,
       Fits
<1>14. ASSUME NEW m \in Manager, SweepTrash(m) PROVE RunOK'
  <2>1. SweepTrashDoes(m)
    BY <1>14, SweepTrashEffect DEF Sound
  <2> QED
    BY <2>1 DEF SweepTrashDoes, Others, At, Told, Fails, Gone, Enters,
       Wrote, Refuses, Expires, RunFails, Counts, Owns, rows, env, disk, local,
       Sound, TypeOK, RunOK, PhasesAgree, Terminal, Does, PrepareQueue, JobOK,
       Fits
<1>15. ASSUME NEW m \in Manager, EnterCleanup(m) PROVE RunOK'
  <2>1. EnterCleanupDoes(m)
    BY <1>15, EnterCleanupEffect DEF Sound
  <2> QED
    BY <2>1 DEF EnterCleanupDoes, Others, At, Told, Fails, Gone, Enters,
       Wrote, Refuses, Expires, RunFails, Counts, Owns, rows, env, disk, local,
       Sound, TypeOK, RunOK, PhasesAgree, Terminal, Does, PrepareQueue, JobOK,
       Fits
<1>16. ASSUME NEW m \in Manager, MoveToTrash(m) PROVE RunOK'
  <2>1. MoveToTrashDoes(m)
    BY <1>16, MoveToTrashEffect DEF Sound
  <2> QED
    BY <2>1 DEF MoveToTrashDoes, Others, At, Told, Fails, Gone, Enters,
       Wrote, Refuses, Expires, RunFails, Counts, Owns, rows, env, disk, local,
       Sound, TypeOK, RunOK, PhasesAgree, Terminal, Does, PrepareQueue, JobOK,
       Fits
<1>17. ASSUME NEW m \in Manager, Shred(m) PROVE RunOK'
  <2>1. ShredDoes(m)
    BY <1>17, ShredEffect DEF Sound
  <2> QED
    BY <2>1 DEF ShredDoes, Others, At, Told, Fails, Gone, Enters, Wrote,
       Refuses, Expires, RunFails, Counts, Owns, rows, env, disk, local, Sound,
       TypeOK, RunOK, PhasesAgree, Terminal, Does, PrepareQueue, JobOK, Fits
<1>18. ASSUME NEW m \in Manager, CommitCleanup(m) PROVE RunOK'
  <2>1. CommitCleanupDoes(m)
    BY <1>18, CommitCleanupEffect DEF Sound
  <2> QED
    BY <2>1 DEF CommitCleanupDoes, Others, At, Told, Fails, Gone, Enters,
       Wrote, Refuses, Expires, RunFails, Counts, Owns, rows, env, disk, local,
       Sound, TypeOK, RunOK, PhasesAgree, Terminal, Does, PrepareQueue, JobOK,
       Fits
<1>19. ASSUME NEW m \in Manager, MarkFailure(m) PROVE RunOK'
  <2>1. MarkFailureDoes(m)
    BY <1>19, MarkFailureEffect DEF Sound
  <2> QED
    BY <2>1 DEF MarkFailureDoes, Others, At, Told, Fails, Gone, Enters,
       Wrote, Refuses, Expires, RunFails, Counts, Owns, rows, env, disk, local,
       Sound, TypeOK, RunOK, PhasesAgree, Terminal, Does, PrepareQueue, JobOK,
       Fits
<1>20. ASSUME NEW m \in Manager, Hiccup(m) PROVE RunOK'
  <2>1. HiccupDoes(m)
    BY <1>20, HiccupEffect DEF Sound
  <2> QED
    BY <2>1 DEF HiccupDoes, Others, At, Told, Fails, Gone, Enters, Wrote,
       Refuses, Expires, RunFails, Counts, Owns, rows, env, disk, local, Sound,
       TypeOK, RunOK, PhasesAgree, Terminal, Does, PrepareQueue, JobOK, Fits
<1>21. ASSUME NEW m \in Manager, Crash(m) PROVE RunOK'
  <2>1. CrashDoes(m)
    BY <1>21, CrashEffect DEF Sound
  <2> QED
    BY <2>1 DEF CrashDoes, Others, At, Told, Fails, Gone, Enters, Wrote,
       Refuses, Expires, RunFails, Counts, Owns, rows, env, disk, local, Sound,
       TypeOK, RunOK, PhasesAgree, Terminal, Does, PrepareQueue, JobOK, Fits
<1>22. ASSUME LeaseExpires PROVE RunOK'
  <2>1. LeaseDoes
    BY <1>22, LeaseExpiresEffect DEF Sound
  <2> QED
    BY <2>1 DEF LeaseDoes, Others, At, Told, Fails, Gone, Enters, Wrote,
       Refuses, Expires, RunFails, Counts, Owns, rows, env, disk, local, Sound,
       TypeOK, RunOK, PhasesAgree, Terminal, Does, PrepareQueue, JobOK, Fits
<1>23. ASSUME AbortPreparing PROVE RunOK'
  <2>1. AbortDoes
    BY <1>23, AbortPreparingEffect DEF Sound
  <2> QED
    BY <2>1 DEF AbortDoes, Others, At, Told, Fails, Gone, Enters, Wrote,
       Refuses, Expires, RunFails, Counts, Owns, rows, env, disk, local, Sound,
       TypeOK, RunOK, PhasesAgree, Terminal, Does, PrepareQueue, JobOK, Fits
<1>24. ASSUME RequestCleanup PROVE RunOK'
  <2>1. RequestCleanupDoes
    BY <1>24, RequestCleanupEffect DEF Sound
  <2> QED
    BY <2>1 DEF RequestCleanupDoes, Others, At, Told, Fails, Gone, Enters,
       Wrote, Refuses, Expires, RunFails, Counts, Owns, rows, env, disk, local,
       Sound, TypeOK, RunOK, PhasesAgree, Terminal, Does, PrepareQueue, JobOK,
       Fits
<1>25. ASSUME StartRun PROVE RunOK'
  BY <1>25 DEF StartRun, rows, env, disk, local, Sound, TypeOK, RunOK,
     PhasesAgree, Terminal, Does, PrepareQueue, JobOK, Fits
<1>26. ASSUME NEW status \in Terminal, EndRun(status) PROVE RunOK'
  <2>1. EndRunDoes
    BY <1>26, EndRunEffect DEF Sound
  <2> QED
    BY <2>1 DEF EndRunDoes, Others, At, Told, Fails, Gone, Enters, Wrote,
       Refuses, Expires, RunFails, Counts, Owns, rows, env, disk, local, Sound,
       TypeOK, RunOK, PhasesAgree, Terminal, Does, PrepareQueue, JobOK, Fits
<1>27. ASSUME RejectBinding PROVE RunOK'
  <2>1. RejectDoes
    BY <1>27, RejectBindingEffect DEF Sound
  <2> QED
    BY <2>1 DEF RejectDoes, Others, At, Told, Fails, Gone, Enters, Wrote,
       Refuses, Expires, RunFails, Counts, Owns, rows, env, disk, local, Sound,
       TypeOK, RunOK, PhasesAgree, Terminal, Does, PrepareQueue, JobOK, Fits
<1>28. ASSUME AgentEdits PROVE RunOK'
  BY <1>28 DEF AgentEdits, rows, env, disk, local, Sound, TypeOK, RunOK,
     PhasesAgree, Terminal, Does, PrepareQueue, JobOK, Fits
<1>29. ASSUME DeadlinePasses PROVE RunOK'
  BY <1>29 DEF DeadlinePasses, rows, env, disk, local, Sound, TypeOK, RunOK,
     PhasesAgree, Terminal, Does, PrepareQueue, JobOK, Fits
<1>30. ASSUME TrustChanges PROVE RunOK'
  BY <1>30 DEF TrustChanges, rows, env, disk, local, Sound, TypeOK, RunOK,
     PhasesAgree, Terminal, Does, PrepareQueue, JobOK, Fits
<1>31. ASSUME Unbind PROVE RunOK'
  BY <1>31 DEF Unbind, rows, env, disk, local, Sound, TypeOK, RunOK,
     PhasesAgree, Terminal, Does, PrepareQueue, JobOK, Fits
<1>32. ASSUME Tamper PROVE RunOK'
  BY <1>32 DEF Tamper, rows, env, disk, local, Sound, TypeOK, RunOK,
     PhasesAgree, Terminal, Does, PrepareQueue, JobOK, Fits
<1>33. ASSUME UNCHANGED vars PROVE RunOK'
  BY <1>33 DEF vars, rows, env, disk, local, Sound, TypeOK, RunOK,
     PhasesAgree, Terminal, Does, PrepareQueue, JobOK, Fits
<1> QED
  BY <1>1, <1>2, <1>3, <1>4, <1>5, <1>6, <1>7, <1>8, <1>9, <1>10, <1>11,
     <1>12, <1>13, <1>14, <1>15, <1>16, <1>17, <1>18, <1>19, <1>20, <1>21,
     <1>22, <1>23, <1>24, <1>25, <1>26, <1>27, <1>28, <1>29, <1>30, <1>31,
     <1>32, <1>33 DEF Next, Work, Lanes

\* The two rows move in step.
LEMMA PhasesStep ==
  ASSUME Sound, [Next]_vars PROVE PhasesAgree'
<1>1. ASSUME NEW m \in Manager, Claim(m) PROVE PhasesAgree'
  <2>1. ClaimDoes(m)
    BY <1>1, ClaimEffect DEF Sound
  <2> QED
    BY <2>1 DEF ClaimDoes, Others, At, Told, Fails, Gone, Enters, Wrote,
       Refuses, Expires, RunFails, Counts, Owns, rows, env, disk, local, Sound,
       TypeOK, RunOK, PhasesAgree, Terminal, Does, PrepareQueue, Preparing,
       JobOK, Fits
<1>2. ASSUME NEW m \in Manager, Start(m) PROVE PhasesAgree'
  <2>1. StartDoes(m)
    BY <1>2, StartEffect DEF Sound
  <2> QED
    BY <2>1 DEF StartDoes, Others, At, Told, Fails, Gone, Enters, Wrote,
       Refuses, Expires, RunFails, Counts, Owns, rows, env, disk, local, Sound,
       TypeOK, RunOK, PhasesAgree, Terminal, Does, PrepareQueue, Preparing,
       JobOK, Fits
<1>3. ASSUME NEW m \in Manager, Busy(m) PROVE PhasesAgree'
  <2>1. BusyDoes(m)
    BY <1>3, BusyEffect DEF Sound
  <2> QED
    BY <2>1 DEF BusyDoes, Others, At, Told, Fails, Gone, Enters, Wrote,
       Refuses, Expires, RunFails, Counts, Owns, rows, env, disk, local, Sound,
       TypeOK, RunOK, PhasesAgree, Terminal, Does, PrepareQueue, Preparing,
       JobOK, Fits
<1>4. ASSUME NEW m \in Manager, Recover(m) PROVE PhasesAgree'
  <2>1. RecoverDoes(m)
    BY <1>4, RecoverEffect DEF Sound
  <2> QED
    BY <2>1 DEF RecoverDoes, Others, At, Told, Fails, Gone, Enters, Wrote,
       Refuses, Expires, RunFails, Counts, Owns, rows, env, disk, local, Sound,
       TypeOK, RunOK, PhasesAgree, Terminal, Does, PrepareQueue, Preparing,
       JobOK, Fits
<1>5. ASSUME NEW m \in Manager, PreflightTree(m) PROVE PhasesAgree'
  <2>1. PreflightDoes(m)
    BY <1>5, PreflightTreeEffect DEF Sound
  <2> QED
    BY <2>1 DEF PreflightDoes, Others, At, Told, Fails, Gone, Enters, Wrote,
       Refuses, Expires, RunFails, Counts, Owns, rows, env, disk, local, Sound,
       TypeOK, RunOK, PhasesAgree, Terminal, Does, PrepareQueue, Preparing,
       JobOK, Fits
<1>6. ASSUME NEW m \in Manager, MakeStaging(m) PROVE PhasesAgree'
  <2>1. MakeStagingDoes(m)
    BY <1>6, MakeStagingEffect DEF Sound
  <2> QED
    BY <2>1 DEF MakeStagingDoes, Others, At, Told, Fails, Gone, Enters,
       Wrote, Refuses, Expires, RunFails, Counts, Owns, rows, env, disk, local,
       Sound, TypeOK, RunOK, PhasesAgree, Terminal, Does, PrepareQueue,
       Preparing, JobOK, Fits
<1>7. ASSUME NEW m \in Manager, Checkout(m) PROVE PhasesAgree'
  <2>1. CheckoutDoes(m)
    BY <1>7, CheckoutEffect DEF Sound
  <2> QED
    BY <2>1 DEF CheckoutDoes, Others, At, Told, Fails, Gone, Enters, Wrote,
       Refuses, Expires, RunFails, Counts, Owns, rows, env, disk, local, Sound,
       TypeOK, RunOK, PhasesAgree, Terminal, Does, PrepareQueue, Preparing,
       JobOK, Fits
<1>8. ASSUME NEW m \in Manager, Publish(m) PROVE PhasesAgree'
  <2>1. PublishDoes(m)
    BY <1>8, PublishEffect DEF Sound
  <2> QED
    BY <2>1 DEF PublishDoes, Others, At, Told, Fails, Gone, Enters, Wrote,
       Refuses, Expires, RunFails, Counts, Owns, rows, env, disk, local, Sound,
       TypeOK, RunOK, PhasesAgree, Terminal, Does, PrepareQueue, Preparing,
       JobOK, Fits
<1>9. ASSUME NEW m \in Manager, Verify(m) PROVE PhasesAgree'
  <2>1. VerifyDoes(m)
    BY <1>9, VerifyEffect DEF Sound
  <2> QED
    BY <2>1 DEF VerifyDoes, Others, At, Told, Fails, Gone, Enters, Wrote,
       Refuses, Expires, RunFails, Counts, Owns, rows, env, disk, local, Sound,
       TypeOK, RunOK, PhasesAgree, Terminal, Does, PrepareQueue, Preparing,
       JobOK, Fits
<1>10. ASSUME NEW m \in Manager, CommitPrepare(m) PROVE PhasesAgree'
  <2>1. CommitPrepareDoes(m)
    BY <1>10, CommitPrepareEffect DEF Sound
  <2> QED
    BY <2>1 DEF CommitPrepareDoes, Others, At, Told, Fails, Gone, Enters,
       Wrote, Refuses, Expires, RunFails, Counts, Owns, rows, env, disk, local,
       Sound, TypeOK, RunOK, PhasesAgree, Terminal, Does, PrepareQueue,
       Preparing, JobOK, Fits
<1>11. ASSUME NEW m \in Manager, EnterInspect(m) PROVE PhasesAgree'
  <2>1. EnterInspectDoes(m)
    BY <1>11, EnterInspectEffect DEF Sound
  <2> QED
    BY <2>1 DEF EnterInspectDoes, Others, At, Told, Fails, Gone, Enters,
       Wrote, Refuses, Expires, RunFails, Counts, Owns, rows, env, disk, local,
       Sound, TypeOK, RunOK, PhasesAgree, Terminal, Does, PrepareQueue,
       Preparing, JobOK, Fits
<1>12. ASSUME NEW m \in Manager, Inspect(m) PROVE PhasesAgree'
  <2>1. InspectDoes(m)
    BY <1>12, InspectEffect DEF Sound
  <2> QED
    BY <2>1 DEF InspectDoes, Others, At, Told, Fails, Gone, Enters, Wrote,
       Refuses, Expires, RunFails, Counts, Owns, rows, env, disk, local, Sound,
       TypeOK, RunOK, PhasesAgree, Terminal, Does, PrepareQueue, Preparing,
       JobOK, Fits
<1>13. ASSUME NEW m \in Manager, CommitInspect(m) PROVE PhasesAgree'
  <2>1. CommitInspectDoes(m)
    BY <1>13, CommitInspectEffect DEF Sound
  <2> QED
    BY <2>1 DEF CommitInspectDoes, Others, At, Told, Fails, Gone, Enters,
       Wrote, Refuses, Expires, RunFails, Counts, Owns, rows, env, disk, local,
       Sound, TypeOK, RunOK, PhasesAgree, Terminal, Does, PrepareQueue,
       Preparing, JobOK, Fits
<1>14. ASSUME NEW m \in Manager, SweepTrash(m) PROVE PhasesAgree'
  <2>1. SweepTrashDoes(m)
    BY <1>14, SweepTrashEffect DEF Sound
  <2> QED
    BY <2>1 DEF SweepTrashDoes, Others, At, Told, Fails, Gone, Enters,
       Wrote, Refuses, Expires, RunFails, Counts, Owns, rows, env, disk, local,
       Sound, TypeOK, RunOK, PhasesAgree, Terminal, Does, PrepareQueue,
       Preparing, JobOK, Fits
<1>15. ASSUME NEW m \in Manager, EnterCleanup(m) PROVE PhasesAgree'
  <2>1. EnterCleanupDoes(m)
    BY <1>15, EnterCleanupEffect DEF Sound
  <2> QED
    BY <2>1 DEF EnterCleanupDoes, Others, At, Told, Fails, Gone, Enters,
       Wrote, Refuses, Expires, RunFails, Counts, Owns, rows, env, disk, local,
       Sound, TypeOK, RunOK, PhasesAgree, Terminal, Does, PrepareQueue,
       Preparing, JobOK, Fits
<1>16. ASSUME NEW m \in Manager, MoveToTrash(m) PROVE PhasesAgree'
  <2>1. MoveToTrashDoes(m)
    BY <1>16, MoveToTrashEffect DEF Sound
  <2> QED
    BY <2>1 DEF MoveToTrashDoes, Others, At, Told, Fails, Gone, Enters,
       Wrote, Refuses, Expires, RunFails, Counts, Owns, rows, env, disk, local,
       Sound, TypeOK, RunOK, PhasesAgree, Terminal, Does, PrepareQueue,
       Preparing, JobOK, Fits
<1>17. ASSUME NEW m \in Manager, Shred(m) PROVE PhasesAgree'
  <2>1. ShredDoes(m)
    BY <1>17, ShredEffect DEF Sound
  <2> QED
    BY <2>1 DEF ShredDoes, Others, At, Told, Fails, Gone, Enters, Wrote,
       Refuses, Expires, RunFails, Counts, Owns, rows, env, disk, local, Sound,
       TypeOK, RunOK, PhasesAgree, Terminal, Does, PrepareQueue, Preparing,
       JobOK, Fits
<1>18. ASSUME NEW m \in Manager, CommitCleanup(m) PROVE PhasesAgree'
  <2>1. CommitCleanupDoes(m)
    BY <1>18, CommitCleanupEffect DEF Sound
  <2> QED
    BY <2>1 DEF CommitCleanupDoes, Others, At, Told, Fails, Gone, Enters,
       Wrote, Refuses, Expires, RunFails, Counts, Owns, rows, env, disk, local,
       Sound, TypeOK, RunOK, PhasesAgree, Terminal, Does, PrepareQueue,
       Preparing, JobOK, Fits
<1>19. ASSUME NEW m \in Manager, MarkFailure(m) PROVE PhasesAgree'
  <2>1. MarkFailureDoes(m)
    BY <1>19, MarkFailureEffect DEF Sound
  <2> QED
    BY <2>1 DEF MarkFailureDoes, Others, At, Told, Fails, Gone, Enters,
       Wrote, Refuses, Expires, RunFails, Counts, Owns, rows, env, disk, local,
       Sound, TypeOK, RunOK, PhasesAgree, Terminal, Does, PrepareQueue,
       Preparing, JobOK, Fits
<1>20. ASSUME NEW m \in Manager, Hiccup(m) PROVE PhasesAgree'
  <2>1. HiccupDoes(m)
    BY <1>20, HiccupEffect DEF Sound
  <2> QED
    BY <2>1 DEF HiccupDoes, Others, At, Told, Fails, Gone, Enters, Wrote,
       Refuses, Expires, RunFails, Counts, Owns, rows, env, disk, local, Sound,
       TypeOK, RunOK, PhasesAgree, Terminal, Does, PrepareQueue, Preparing,
       JobOK, Fits
<1>21. ASSUME NEW m \in Manager, Crash(m) PROVE PhasesAgree'
  <2>1. CrashDoes(m)
    BY <1>21, CrashEffect DEF Sound
  <2> QED
    BY <2>1 DEF CrashDoes, Others, At, Told, Fails, Gone, Enters, Wrote,
       Refuses, Expires, RunFails, Counts, Owns, rows, env, disk, local, Sound,
       TypeOK, RunOK, PhasesAgree, Terminal, Does, PrepareQueue, Preparing,
       JobOK, Fits
<1>22. ASSUME LeaseExpires PROVE PhasesAgree'
  <2>1. LeaseDoes
    BY <1>22, LeaseExpiresEffect DEF Sound
  <2> QED
    BY <2>1 DEF LeaseDoes, Others, At, Told, Fails, Gone, Enters, Wrote,
       Refuses, Expires, RunFails, Counts, Owns, rows, env, disk, local, Sound,
       TypeOK, RunOK, PhasesAgree, Terminal, Does, PrepareQueue, Preparing,
       JobOK, Fits
<1>23. ASSUME AbortPreparing PROVE PhasesAgree'
  <2>1. AbortDoes
    BY <1>23, AbortPreparingEffect DEF Sound
  <2> QED
    BY <2>1 DEF AbortDoes, Others, At, Told, Fails, Gone, Enters, Wrote,
       Refuses, Expires, RunFails, Counts, Owns, rows, env, disk, local, Sound,
       TypeOK, RunOK, PhasesAgree, Terminal, Does, PrepareQueue, Preparing,
       JobOK, Fits
<1>24. ASSUME RequestCleanup PROVE PhasesAgree'
  <2>1. RequestCleanupDoes
    BY <1>24, RequestCleanupEffect DEF Sound
  <2> QED
    BY <2>1 DEF RequestCleanupDoes, Others, At, Told, Fails, Gone, Enters,
       Wrote, Refuses, Expires, RunFails, Counts, Owns, rows, env, disk, local,
       Sound, TypeOK, RunOK, PhasesAgree, Terminal, Does, PrepareQueue,
       Preparing, JobOK, Fits
<1>25. ASSUME StartRun PROVE PhasesAgree'
  BY <1>25 DEF StartRun, rows, env, disk, local, Sound, TypeOK, RunOK,
     PhasesAgree, Terminal, Does, PrepareQueue, Preparing, JobOK, Fits
<1>26. ASSUME NEW status \in Terminal, EndRun(status) PROVE PhasesAgree'
  <2>1. EndRunDoes
    BY <1>26, EndRunEffect DEF Sound
  <2> QED
    BY <2>1 DEF EndRunDoes, Others, At, Told, Fails, Gone, Enters, Wrote,
       Refuses, Expires, RunFails, Counts, Owns, rows, env, disk, local, Sound,
       TypeOK, RunOK, PhasesAgree, Terminal, Does, PrepareQueue, Preparing,
       JobOK, Fits
<1>27. ASSUME RejectBinding PROVE PhasesAgree'
  <2>1. RejectDoes
    BY <1>27, RejectBindingEffect DEF Sound
  <2> QED
    BY <2>1 DEF RejectDoes, Others, At, Told, Fails, Gone, Enters, Wrote,
       Refuses, Expires, RunFails, Counts, Owns, rows, env, disk, local, Sound,
       TypeOK, RunOK, PhasesAgree, Terminal, Does, PrepareQueue, Preparing,
       JobOK, Fits
<1>28. ASSUME AgentEdits PROVE PhasesAgree'
  BY <1>28 DEF AgentEdits, rows, env, disk, local, Sound, TypeOK, RunOK,
     PhasesAgree, Terminal, Does, PrepareQueue, Preparing, JobOK, Fits
<1>29. ASSUME DeadlinePasses PROVE PhasesAgree'
  BY <1>29 DEF DeadlinePasses, rows, env, disk, local, Sound, TypeOK, RunOK,
     PhasesAgree, Terminal, Does, PrepareQueue, Preparing, JobOK, Fits
<1>30. ASSUME TrustChanges PROVE PhasesAgree'
  BY <1>30 DEF TrustChanges, rows, env, disk, local, Sound, TypeOK, RunOK,
     PhasesAgree, Terminal, Does, PrepareQueue, Preparing, JobOK, Fits
<1>31. ASSUME Unbind PROVE PhasesAgree'
  BY <1>31 DEF Unbind, rows, env, disk, local, Sound, TypeOK, RunOK,
     PhasesAgree, Terminal, Does, PrepareQueue, Preparing, JobOK, Fits
<1>32. ASSUME Tamper PROVE PhasesAgree'
  BY <1>32 DEF Tamper, rows, env, disk, local, Sound, TypeOK, RunOK,
     PhasesAgree, Terminal, Does, PrepareQueue, Preparing, JobOK, Fits
<1>33. ASSUME UNCHANGED vars PROVE PhasesAgree'
  BY <1>33 DEF vars, rows, env, disk, local, Sound, TypeOK, RunOK,
     PhasesAgree, Terminal, Does, PrepareQueue, Preparing, JobOK, Fits
<1> QED
  BY <1>1, <1>2, <1>3, <1>4, <1>5, <1>6, <1>7, <1>8, <1>9, <1>10, <1>11,
     <1>12, <1>13, <1>14, <1>15, <1>16, <1>17, <1>18, <1>19, <1>20, <1>21,
     <1>22, <1>23, <1>24, <1>25, <1>26, <1>27, <1>28, <1>29, <1>30, <1>31,
     <1>32, <1>33 DEF Next, Work, Lanes

\* The lock is taken by an owner, and nothing else is under way then.
LEMMA LockStep ==
  ASSUME Sound, [Next]_vars PROVE LockOK'
<1>1. ASSUME NEW m \in Manager, Claim(m) PROVE LockOK'
  <2>1. ClaimDoes(m)
    BY <1>1, ClaimEffect DEF Sound
  <2> QED
    BY <2>1, NullAssumption DEF ClaimDoes, Others, At, Told, Fails, Gone,
       Enters, Wrote, Refuses, Expires, RunFails, Counts, Owns, rows, env,
       disk, local, Sound, TypeOK, LockOK, OwnOK, Locked, Building, Does,
       Working, JobOK, Fits
<1>2. ASSUME NEW m \in Manager, Start(m) PROVE LockOK'
  <2>1. StartDoes(m)
    BY <1>2, StartEffect DEF Sound
  <2> QED
    BY <2>1, NullAssumption DEF StartDoes, Others, At, Told, Fails, Gone,
       Enters, Wrote, Refuses, Expires, RunFails, Counts, Owns, rows, env,
       disk, local, Sound, TypeOK, LockOK, OwnOK, Locked, Building, Does,
       Working, JobOK, Fits
<1>3. ASSUME NEW m \in Manager, Busy(m) PROVE LockOK'
  <2>1. BusyDoes(m)
    BY <1>3, BusyEffect DEF Sound
  <2> QED
    BY <2>1, NullAssumption DEF BusyDoes, Others, At, Told, Fails, Gone,
       Enters, Wrote, Refuses, Expires, RunFails, Counts, Owns, rows, env,
       disk, local, Sound, TypeOK, LockOK, OwnOK, Locked, Building, Does,
       Working, JobOK, Fits
<1>4. ASSUME NEW m \in Manager, Recover(m) PROVE LockOK'
  <2>1. RecoverDoes(m)
    BY <1>4, RecoverEffect DEF Sound
  <2> QED
    BY <2>1, NullAssumption DEF RecoverDoes, Others, At, Told, Fails, Gone,
       Enters, Wrote, Refuses, Expires, RunFails, Counts, Owns, rows, env,
       disk, local, Sound, TypeOK, LockOK, OwnOK, Locked, Building, Does,
       Working, JobOK, Fits
<1>5. ASSUME NEW m \in Manager, PreflightTree(m) PROVE LockOK'
  <2>1. PreflightDoes(m)
    BY <1>5, PreflightTreeEffect DEF Sound
  <2> QED
    BY <2>1, NullAssumption DEF PreflightDoes, Others, At, Told, Fails,
       Gone, Enters, Wrote, Refuses, Expires, RunFails, Counts, Owns, rows,
       env, disk, local, Sound, TypeOK, LockOK, OwnOK, Locked, Building, Does,
       Working, JobOK, Fits
<1>6. ASSUME NEW m \in Manager, MakeStaging(m) PROVE LockOK'
  <2>1. MakeStagingDoes(m)
    BY <1>6, MakeStagingEffect DEF Sound
  <2> QED
    BY <2>1, NullAssumption DEF MakeStagingDoes, Others, At, Told, Fails,
       Gone, Enters, Wrote, Refuses, Expires, RunFails, Counts, Owns, rows,
       env, disk, local, Sound, TypeOK, LockOK, OwnOK, Locked, Building, Does,
       Working, JobOK, Fits
<1>7. ASSUME NEW m \in Manager, Checkout(m) PROVE LockOK'
  <2>1. CheckoutDoes(m)
    BY <1>7, CheckoutEffect DEF Sound
  <2> QED
    BY <2>1, NullAssumption DEF CheckoutDoes, Others, At, Told, Fails, Gone,
       Enters, Wrote, Refuses, Expires, RunFails, Counts, Owns, rows, env,
       disk, local, Sound, TypeOK, LockOK, OwnOK, Locked, Building, Does,
       Working, JobOK, Fits
<1>8. ASSUME NEW m \in Manager, Publish(m) PROVE LockOK'
  <2>1. PublishDoes(m)
    BY <1>8, PublishEffect DEF Sound
  <2> QED
    BY <2>1, NullAssumption DEF PublishDoes, Others, At, Told, Fails, Gone,
       Enters, Wrote, Refuses, Expires, RunFails, Counts, Owns, rows, env,
       disk, local, Sound, TypeOK, LockOK, OwnOK, Locked, Building, Does,
       Working, JobOK, Fits
<1>9. ASSUME NEW m \in Manager, Verify(m) PROVE LockOK'
  <2>1. VerifyDoes(m)
    BY <1>9, VerifyEffect DEF Sound
  <2> QED
    BY <2>1, NullAssumption DEF VerifyDoes, Others, At, Told, Fails, Gone,
       Enters, Wrote, Refuses, Expires, RunFails, Counts, Owns, rows, env,
       disk, local, Sound, TypeOK, LockOK, OwnOK, Locked, Building, Does,
       Working, JobOK, Fits
<1>10. ASSUME NEW m \in Manager, CommitPrepare(m) PROVE LockOK'
  <2>1. CommitPrepareDoes(m)
    BY <1>10, CommitPrepareEffect DEF Sound
  <2> QED
    BY <2>1, NullAssumption DEF CommitPrepareDoes, Others, At, Told, Fails,
       Gone, Enters, Wrote, Refuses, Expires, RunFails, Counts, Owns, rows,
       env, disk, local, Sound, TypeOK, LockOK, OwnOK, Locked, Building, Does,
       Working, JobOK, Fits
<1>11. ASSUME NEW m \in Manager, EnterInspect(m) PROVE LockOK'
  <2>1. EnterInspectDoes(m)
    BY <1>11, EnterInspectEffect DEF Sound
  <2> QED
    BY <2>1, NullAssumption DEF EnterInspectDoes, Others, At, Told, Fails,
       Gone, Enters, Wrote, Refuses, Expires, RunFails, Counts, Owns, rows,
       env, disk, local, Sound, TypeOK, LockOK, OwnOK, Locked, Building, Does,
       Working, JobOK, Fits
<1>12. ASSUME NEW m \in Manager, Inspect(m) PROVE LockOK'
  <2>1. InspectDoes(m)
    BY <1>12, InspectEffect DEF Sound
  <2> QED
    BY <2>1, NullAssumption DEF InspectDoes, Others, At, Told, Fails, Gone,
       Enters, Wrote, Refuses, Expires, RunFails, Counts, Owns, rows, env,
       disk, local, Sound, TypeOK, LockOK, OwnOK, Locked, Building, Does,
       Working, JobOK, Fits
<1>13. ASSUME NEW m \in Manager, CommitInspect(m) PROVE LockOK'
  <2>1. CommitInspectDoes(m)
    BY <1>13, CommitInspectEffect DEF Sound
  <2> QED
    BY <2>1, NullAssumption DEF CommitInspectDoes, Others, At, Told, Fails,
       Gone, Enters, Wrote, Refuses, Expires, RunFails, Counts, Owns, rows,
       env, disk, local, Sound, TypeOK, LockOK, OwnOK, Locked, Building, Does,
       Working, JobOK, Fits
<1>14. ASSUME NEW m \in Manager, SweepTrash(m) PROVE LockOK'
  <2>1. SweepTrashDoes(m)
    BY <1>14, SweepTrashEffect DEF Sound
  <2> QED
    BY <2>1, NullAssumption DEF SweepTrashDoes, Others, At, Told, Fails,
       Gone, Enters, Wrote, Refuses, Expires, RunFails, Counts, Owns, rows,
       env, disk, local, Sound, TypeOK, LockOK, OwnOK, Locked, Building, Does,
       Working, JobOK, Fits
<1>15. ASSUME NEW m \in Manager, EnterCleanup(m) PROVE LockOK'
  <2>1. EnterCleanupDoes(m)
    BY <1>15, EnterCleanupEffect DEF Sound
  <2> QED
    BY <2>1, NullAssumption DEF EnterCleanupDoes, Others, At, Told, Fails,
       Gone, Enters, Wrote, Refuses, Expires, RunFails, Counts, Owns, rows,
       env, disk, local, Sound, TypeOK, LockOK, OwnOK, Locked, Building, Does,
       Working, JobOK, Fits
<1>16. ASSUME NEW m \in Manager, MoveToTrash(m) PROVE LockOK'
  <2>1. MoveToTrashDoes(m)
    BY <1>16, MoveToTrashEffect DEF Sound
  <2> QED
    BY <2>1, NullAssumption DEF MoveToTrashDoes, Others, At, Told, Fails,
       Gone, Enters, Wrote, Refuses, Expires, RunFails, Counts, Owns, rows,
       env, disk, local, Sound, TypeOK, LockOK, OwnOK, Locked, Building, Does,
       Working, JobOK, Fits
<1>17. ASSUME NEW m \in Manager, Shred(m) PROVE LockOK'
  <2>1. ShredDoes(m)
    BY <1>17, ShredEffect DEF Sound
  <2> QED
    BY <2>1, NullAssumption DEF ShredDoes, Others, At, Told, Fails, Gone,
       Enters, Wrote, Refuses, Expires, RunFails, Counts, Owns, rows, env,
       disk, local, Sound, TypeOK, LockOK, OwnOK, Locked, Building, Does,
       Working, JobOK, Fits
<1>18. ASSUME NEW m \in Manager, CommitCleanup(m) PROVE LockOK'
  <2>1. CommitCleanupDoes(m)
    BY <1>18, CommitCleanupEffect DEF Sound
  <2> QED
    BY <2>1, NullAssumption DEF CommitCleanupDoes, Others, At, Told, Fails,
       Gone, Enters, Wrote, Refuses, Expires, RunFails, Counts, Owns, rows,
       env, disk, local, Sound, TypeOK, LockOK, OwnOK, Locked, Building, Does,
       Working, JobOK, Fits
<1>19. ASSUME NEW m \in Manager, MarkFailure(m) PROVE LockOK'
  <2>1. MarkFailureDoes(m)
    BY <1>19, MarkFailureEffect DEF Sound
  <2> QED
    BY <2>1, NullAssumption DEF MarkFailureDoes, Others, At, Told, Fails,
       Gone, Enters, Wrote, Refuses, Expires, RunFails, Counts, Owns, rows,
       env, disk, local, Sound, TypeOK, LockOK, OwnOK, Locked, Building, Does,
       Working, JobOK, Fits
<1>20. ASSUME NEW m \in Manager, Hiccup(m) PROVE LockOK'
  <2>1. HiccupDoes(m)
    BY <1>20, HiccupEffect DEF Sound
  <2> QED
    BY <2>1, NullAssumption DEF HiccupDoes, Others, At, Told, Fails, Gone,
       Enters, Wrote, Refuses, Expires, RunFails, Counts, Owns, rows, env,
       disk, local, Sound, TypeOK, LockOK, OwnOK, Locked, Building, Does,
       Working, JobOK, Fits
<1>21. ASSUME NEW m \in Manager, Crash(m) PROVE LockOK'
  <2>1. CrashDoes(m)
    BY <1>21, CrashEffect DEF Sound
  <2> QED
    BY <2>1, NullAssumption DEF CrashDoes, Others, At, Told, Fails, Gone,
       Enters, Wrote, Refuses, Expires, RunFails, Counts, Owns, rows, env,
       disk, local, Sound, TypeOK, LockOK, OwnOK, Locked, Building, Does,
       Working, JobOK, Fits
<1>22. ASSUME LeaseExpires PROVE LockOK'
  <2>1. LeaseDoes
    BY <1>22, LeaseExpiresEffect DEF Sound
  <2> QED
    BY <2>1, NullAssumption DEF LeaseDoes, Others, At, Told, Fails, Gone,
       Enters, Wrote, Refuses, Expires, RunFails, Counts, Owns, rows, env,
       disk, local, Sound, TypeOK, LockOK, OwnOK, Locked, Building, Does,
       Working, JobOK, Fits
<1>23. ASSUME AbortPreparing PROVE LockOK'
  <2>1. AbortDoes
    BY <1>23, AbortPreparingEffect DEF Sound
  <2> QED
    BY <2>1, NullAssumption DEF AbortDoes, Others, At, Told, Fails, Gone,
       Enters, Wrote, Refuses, Expires, RunFails, Counts, Owns, rows, env,
       disk, local, Sound, TypeOK, LockOK, OwnOK, Locked, Building, Does,
       Working, JobOK, Fits
<1>24. ASSUME RequestCleanup PROVE LockOK'
  <2>1. RequestCleanupDoes
    BY <1>24, RequestCleanupEffect DEF Sound
  <2> QED
    BY <2>1, NullAssumption DEF RequestCleanupDoes, Others, At, Told, Fails,
       Gone, Enters, Wrote, Refuses, Expires, RunFails, Counts, Owns, rows,
       env, disk, local, Sound, TypeOK, LockOK, OwnOK, Locked, Building, Does,
       Working, JobOK, Fits
<1>25. ASSUME StartRun PROVE LockOK'
  BY <1>25, NullAssumption DEF StartRun, rows, env, disk, local, Sound,
     TypeOK, LockOK, OwnOK, Locked, Building, Does, Working, JobOK, Fits
<1>26. ASSUME NEW status \in Terminal, EndRun(status) PROVE LockOK'
  <2>1. EndRunDoes
    BY <1>26, EndRunEffect DEF Sound
  <2> QED
    BY <2>1, NullAssumption DEF EndRunDoes, Others, At, Told, Fails, Gone,
       Enters, Wrote, Refuses, Expires, RunFails, Counts, Owns, rows, env,
       disk, local, Sound, TypeOK, LockOK, OwnOK, Locked, Building, Does,
       Working, JobOK, Fits
<1>27. ASSUME RejectBinding PROVE LockOK'
  <2>1. RejectDoes
    BY <1>27, RejectBindingEffect DEF Sound
  <2> QED
    BY <2>1, NullAssumption DEF RejectDoes, Others, At, Told, Fails, Gone,
       Enters, Wrote, Refuses, Expires, RunFails, Counts, Owns, rows, env,
       disk, local, Sound, TypeOK, LockOK, OwnOK, Locked, Building, Does,
       Working, JobOK, Fits
<1>28. ASSUME AgentEdits PROVE LockOK'
  BY <1>28, NullAssumption DEF AgentEdits, rows, env, disk, local, Sound,
     TypeOK, LockOK, OwnOK, Locked, Building, Does, Working, JobOK, Fits
<1>29. ASSUME DeadlinePasses PROVE LockOK'
  BY <1>29, NullAssumption DEF DeadlinePasses, rows, env, disk, local,
     Sound, TypeOK, LockOK, OwnOK, Locked, Building, Does, Working, JobOK, Fits
<1>30. ASSUME TrustChanges PROVE LockOK'
  BY <1>30, NullAssumption DEF TrustChanges, rows, env, disk, local, Sound,
     TypeOK, LockOK, OwnOK, Locked, Building, Does, Working, JobOK, Fits
<1>31. ASSUME Unbind PROVE LockOK'
  BY <1>31, NullAssumption DEF Unbind, rows, env, disk, local, Sound,
     TypeOK, LockOK, OwnOK, Locked, Building, Does, Working, JobOK, Fits
<1>32. ASSUME Tamper PROVE LockOK'
  BY <1>32, NullAssumption DEF Tamper, rows, env, disk, local, Sound,
     TypeOK, LockOK, OwnOK, Locked, Building, Does, Working, JobOK, Fits
<1>33. ASSUME UNCHANGED vars PROVE LockOK'
  BY <1>33, NullAssumption DEF vars, rows, env, disk, local, Sound, TypeOK,
     LockOK, OwnOK, Locked, Building, Does, Working, JobOK, Fits
<1> QED
  BY <1>1, <1>2, <1>3, <1>4, <1>5, <1>6, <1>7, <1>8, <1>9, <1>10, <1>11,
     <1>12, <1>13, <1>14, <1>15, <1>16, <1>17, <1>18, <1>19, <1>20, <1>21,
     <1>22, <1>23, <1>24, <1>25, <1>26, <1>27, <1>28, <1>29, <1>30, <1>31,
     <1>32, <1>33 DEF Next, Work, Lanes

\* Nothing but its builder touches a directory that is being built.
LEMMA FreshStep ==
  ASSUME Sound, [Next]_vars PROVE FreshOK'
<1>1. ASSUME NEW m \in Manager, Claim(m) PROVE FreshOK'
  <2>1. ClaimDoes(m)
    BY <1>1, ClaimEffect DEF Sound
  <2> QED
    BY <2>1, NullAssumption DEF ClaimDoes, Others, At, Told, Fails, Gone,
       Enters, Wrote, Refuses, Expires, RunFails, Counts, Owns, rows, env,
       disk, local, Sound, TypeOK, LockOK, OwnOK, FreshOK, RunOK, PhasesAgree,
       PrepareQueue, Locked, Building, Does, JobOK, Fits
<1>2. ASSUME NEW m \in Manager, Start(m) PROVE FreshOK'
  <2>1. StartDoes(m)
    BY <1>2, StartEffect DEF Sound
  <2> QED
    BY <2>1, NullAssumption DEF StartDoes, Others, At, Told, Fails, Gone,
       Enters, Wrote, Refuses, Expires, RunFails, Counts, Owns, rows, env,
       disk, local, Sound, TypeOK, LockOK, OwnOK, FreshOK, RunOK, PhasesAgree,
       PrepareQueue, Locked, Building, Does, JobOK, Fits
<1>3. ASSUME NEW m \in Manager, Busy(m) PROVE FreshOK'
  <2>1. BusyDoes(m)
    BY <1>3, BusyEffect DEF Sound
  <2> QED
    BY <2>1, NullAssumption DEF BusyDoes, Others, At, Told, Fails, Gone,
       Enters, Wrote, Refuses, Expires, RunFails, Counts, Owns, rows, env,
       disk, local, Sound, TypeOK, LockOK, OwnOK, FreshOK, RunOK, PhasesAgree,
       PrepareQueue, Locked, Building, Does, JobOK, Fits
<1>4. ASSUME NEW m \in Manager, Recover(m) PROVE FreshOK'
  <2>1. RecoverDoes(m)
    BY <1>4, RecoverEffect DEF Sound
  <2> QED
    BY <2>1, NullAssumption DEF RecoverDoes, Others, At, Told, Fails, Gone,
       Enters, Wrote, Refuses, Expires, RunFails, Counts, Owns, rows, env,
       disk, local, Sound, TypeOK, LockOK, OwnOK, FreshOK, RunOK, PhasesAgree,
       PrepareQueue, Locked, Building, Does, JobOK, Fits
<1>5. ASSUME NEW m \in Manager, PreflightTree(m) PROVE FreshOK'
  <2>1. PreflightDoes(m)
    BY <1>5, PreflightTreeEffect DEF Sound
  <2> QED
    BY <2>1, NullAssumption DEF PreflightDoes, Others, At, Told, Fails,
       Gone, Enters, Wrote, Refuses, Expires, RunFails, Counts, Owns, rows,
       env, disk, local, Sound, TypeOK, LockOK, OwnOK, FreshOK, RunOK,
       PhasesAgree, PrepareQueue, Locked, Building, Does, JobOK, Fits
<1>6. ASSUME NEW m \in Manager, MakeStaging(m) PROVE FreshOK'
  <2>1. MakeStagingDoes(m)
    BY <1>6, MakeStagingEffect DEF Sound
  <2> QED
    BY <2>1, NullAssumption DEF MakeStagingDoes, Others, At, Told, Fails,
       Gone, Enters, Wrote, Refuses, Expires, RunFails, Counts, Owns, rows,
       env, disk, local, Sound, TypeOK, LockOK, OwnOK, FreshOK, RunOK,
       PhasesAgree, PrepareQueue, Locked, Building, Does, JobOK, Fits
<1>7. ASSUME NEW m \in Manager, Checkout(m) PROVE FreshOK'
  <2>1. CheckoutDoes(m)
    BY <1>7, CheckoutEffect DEF Sound
  <2> QED
    BY <2>1, NullAssumption DEF CheckoutDoes, Others, At, Told, Fails, Gone,
       Enters, Wrote, Refuses, Expires, RunFails, Counts, Owns, rows, env,
       disk, local, Sound, TypeOK, LockOK, OwnOK, FreshOK, RunOK, PhasesAgree,
       PrepareQueue, Locked, Building, Does, JobOK, Fits
<1>8. ASSUME NEW m \in Manager, Publish(m) PROVE FreshOK'
  <2>1. PublishDoes(m)
    BY <1>8, PublishEffect DEF Sound
  <2> QED
    BY <2>1, NullAssumption DEF PublishDoes, Others, At, Told, Fails, Gone,
       Enters, Wrote, Refuses, Expires, RunFails, Counts, Owns, rows, env,
       disk, local, Sound, TypeOK, LockOK, OwnOK, FreshOK, RunOK, PhasesAgree,
       PrepareQueue, Locked, Building, Does, JobOK, Fits
<1>9. ASSUME NEW m \in Manager, Verify(m) PROVE FreshOK'
  <2>1. VerifyDoes(m)
    BY <1>9, VerifyEffect DEF Sound
  <2> QED
    BY <2>1, NullAssumption DEF VerifyDoes, Others, At, Told, Fails, Gone,
       Enters, Wrote, Refuses, Expires, RunFails, Counts, Owns, rows, env,
       disk, local, Sound, TypeOK, LockOK, OwnOK, FreshOK, RunOK, PhasesAgree,
       PrepareQueue, Locked, Building, Does, JobOK, Fits
<1>10. ASSUME NEW m \in Manager, CommitPrepare(m) PROVE FreshOK'
  <2>1. CommitPrepareDoes(m)
    BY <1>10, CommitPrepareEffect DEF Sound
  <2> QED
    BY <2>1, NullAssumption DEF CommitPrepareDoes, Others, At, Told, Fails,
       Gone, Enters, Wrote, Refuses, Expires, RunFails, Counts, Owns, rows,
       env, disk, local, Sound, TypeOK, LockOK, OwnOK, FreshOK, RunOK,
       PhasesAgree, PrepareQueue, Locked, Building, Does, JobOK, Fits
<1>11. ASSUME NEW m \in Manager, EnterInspect(m) PROVE FreshOK'
  <2>1. EnterInspectDoes(m)
    BY <1>11, EnterInspectEffect DEF Sound
  <2> QED
    BY <2>1, NullAssumption DEF EnterInspectDoes, Others, At, Told, Fails,
       Gone, Enters, Wrote, Refuses, Expires, RunFails, Counts, Owns, rows,
       env, disk, local, Sound, TypeOK, LockOK, OwnOK, FreshOK, RunOK,
       PhasesAgree, PrepareQueue, Locked, Building, Does, JobOK, Fits
<1>12. ASSUME NEW m \in Manager, Inspect(m) PROVE FreshOK'
  <2>1. InspectDoes(m)
    BY <1>12, InspectEffect DEF Sound
  <2> QED
    BY <2>1, NullAssumption DEF InspectDoes, Others, At, Told, Fails, Gone,
       Enters, Wrote, Refuses, Expires, RunFails, Counts, Owns, rows, env,
       disk, local, Sound, TypeOK, LockOK, OwnOK, FreshOK, RunOK, PhasesAgree,
       PrepareQueue, Locked, Building, Does, JobOK, Fits
<1>13. ASSUME NEW m \in Manager, CommitInspect(m) PROVE FreshOK'
  <2>1. CommitInspectDoes(m)
    BY <1>13, CommitInspectEffect DEF Sound
  <2> QED
    BY <2>1, NullAssumption DEF CommitInspectDoes, Others, At, Told, Fails,
       Gone, Enters, Wrote, Refuses, Expires, RunFails, Counts, Owns, rows,
       env, disk, local, Sound, TypeOK, LockOK, OwnOK, FreshOK, RunOK,
       PhasesAgree, PrepareQueue, Locked, Building, Does, JobOK, Fits
<1>14. ASSUME NEW m \in Manager, SweepTrash(m) PROVE FreshOK'
  <2>1. SweepTrashDoes(m)
    BY <1>14, SweepTrashEffect DEF Sound
  <2> QED
    BY <2>1, NullAssumption DEF SweepTrashDoes, Others, At, Told, Fails,
       Gone, Enters, Wrote, Refuses, Expires, RunFails, Counts, Owns, rows,
       env, disk, local, Sound, TypeOK, LockOK, OwnOK, FreshOK, RunOK,
       PhasesAgree, PrepareQueue, Locked, Building, Does, JobOK, Fits
<1>15. ASSUME NEW m \in Manager, EnterCleanup(m) PROVE FreshOK'
  <2>1. EnterCleanupDoes(m)
    BY <1>15, EnterCleanupEffect DEF Sound
  <2> QED
    BY <2>1, NullAssumption DEF EnterCleanupDoes, Others, At, Told, Fails,
       Gone, Enters, Wrote, Refuses, Expires, RunFails, Counts, Owns, rows,
       env, disk, local, Sound, TypeOK, LockOK, OwnOK, FreshOK, RunOK,
       PhasesAgree, PrepareQueue, Locked, Building, Does, JobOK, Fits
<1>16. ASSUME NEW m \in Manager, MoveToTrash(m) PROVE FreshOK'
  <2>1. MoveToTrashDoes(m)
    BY <1>16, MoveToTrashEffect DEF Sound
  <2> QED
    BY <2>1, NullAssumption DEF MoveToTrashDoes, Others, At, Told, Fails,
       Gone, Enters, Wrote, Refuses, Expires, RunFails, Counts, Owns, rows,
       env, disk, local, Sound, TypeOK, LockOK, OwnOK, FreshOK, RunOK,
       PhasesAgree, PrepareQueue, Locked, Building, Does, JobOK, Fits
<1>17. ASSUME NEW m \in Manager, Shred(m) PROVE FreshOK'
  <2>1. ShredDoes(m)
    BY <1>17, ShredEffect DEF Sound
  <2> QED
    BY <2>1, NullAssumption DEF ShredDoes, Others, At, Told, Fails, Gone,
       Enters, Wrote, Refuses, Expires, RunFails, Counts, Owns, rows, env,
       disk, local, Sound, TypeOK, LockOK, OwnOK, FreshOK, RunOK, PhasesAgree,
       PrepareQueue, Locked, Building, Does, JobOK, Fits
<1>18. ASSUME NEW m \in Manager, CommitCleanup(m) PROVE FreshOK'
  <2>1. CommitCleanupDoes(m)
    BY <1>18, CommitCleanupEffect DEF Sound
  <2> QED
    BY <2>1, NullAssumption DEF CommitCleanupDoes, Others, At, Told, Fails,
       Gone, Enters, Wrote, Refuses, Expires, RunFails, Counts, Owns, rows,
       env, disk, local, Sound, TypeOK, LockOK, OwnOK, FreshOK, RunOK,
       PhasesAgree, PrepareQueue, Locked, Building, Does, JobOK, Fits
<1>19. ASSUME NEW m \in Manager, MarkFailure(m) PROVE FreshOK'
  <2>1. MarkFailureDoes(m)
    BY <1>19, MarkFailureEffect DEF Sound
  <2> QED
    BY <2>1, NullAssumption DEF MarkFailureDoes, Others, At, Told, Fails,
       Gone, Enters, Wrote, Refuses, Expires, RunFails, Counts, Owns, rows,
       env, disk, local, Sound, TypeOK, LockOK, OwnOK, FreshOK, RunOK,
       PhasesAgree, PrepareQueue, Locked, Building, Does, JobOK, Fits
<1>20. ASSUME NEW m \in Manager, Hiccup(m) PROVE FreshOK'
  <2>1. HiccupDoes(m)
    BY <1>20, HiccupEffect DEF Sound
  <2> QED
    BY <2>1, NullAssumption DEF HiccupDoes, Others, At, Told, Fails, Gone,
       Enters, Wrote, Refuses, Expires, RunFails, Counts, Owns, rows, env,
       disk, local, Sound, TypeOK, LockOK, OwnOK, FreshOK, RunOK, PhasesAgree,
       PrepareQueue, Locked, Building, Does, JobOK, Fits
<1>21. ASSUME NEW m \in Manager, Crash(m) PROVE FreshOK'
  <2>1. CrashDoes(m)
    BY <1>21, CrashEffect DEF Sound
  <2> QED
    BY <2>1, NullAssumption DEF CrashDoes, Others, At, Told, Fails, Gone,
       Enters, Wrote, Refuses, Expires, RunFails, Counts, Owns, rows, env,
       disk, local, Sound, TypeOK, LockOK, OwnOK, FreshOK, RunOK, PhasesAgree,
       PrepareQueue, Locked, Building, Does, JobOK, Fits
<1>22. ASSUME LeaseExpires PROVE FreshOK'
  <2>1. LeaseDoes
    BY <1>22, LeaseExpiresEffect DEF Sound
  <2> QED
    BY <2>1, NullAssumption DEF LeaseDoes, Others, At, Told, Fails, Gone,
       Enters, Wrote, Refuses, Expires, RunFails, Counts, Owns, rows, env,
       disk, local, Sound, TypeOK, LockOK, OwnOK, FreshOK, RunOK, PhasesAgree,
       PrepareQueue, Locked, Building, Does, JobOK, Fits
<1>23. ASSUME AbortPreparing PROVE FreshOK'
  <2>1. AbortDoes
    BY <1>23, AbortPreparingEffect DEF Sound
  <2> QED
    BY <2>1, NullAssumption DEF AbortDoes, Others, At, Told, Fails, Gone,
       Enters, Wrote, Refuses, Expires, RunFails, Counts, Owns, rows, env,
       disk, local, Sound, TypeOK, LockOK, OwnOK, FreshOK, RunOK, PhasesAgree,
       PrepareQueue, Locked, Building, Does, JobOK, Fits
<1>24. ASSUME RequestCleanup PROVE FreshOK'
  <2>1. RequestCleanupDoes
    BY <1>24, RequestCleanupEffect DEF Sound
  <2> QED
    BY <2>1, NullAssumption DEF RequestCleanupDoes, Others, At, Told, Fails,
       Gone, Enters, Wrote, Refuses, Expires, RunFails, Counts, Owns, rows,
       env, disk, local, Sound, TypeOK, LockOK, OwnOK, FreshOK, RunOK,
       PhasesAgree, PrepareQueue, Locked, Building, Does, JobOK, Fits
<1>25. ASSUME StartRun PROVE FreshOK'
  BY <1>25, NullAssumption DEF StartRun, rows, env, disk, local, Sound,
     TypeOK, LockOK, OwnOK, FreshOK, RunOK, PhasesAgree, PrepareQueue, Locked,
     Building, Does, JobOK, Fits
<1>26. ASSUME NEW status \in Terminal, EndRun(status) PROVE FreshOK'
  <2>1. EndRunDoes
    BY <1>26, EndRunEffect DEF Sound
  <2> QED
    BY <2>1, NullAssumption DEF EndRunDoes, Others, At, Told, Fails, Gone,
       Enters, Wrote, Refuses, Expires, RunFails, Counts, Owns, rows, env,
       disk, local, Sound, TypeOK, LockOK, OwnOK, FreshOK, RunOK, PhasesAgree,
       PrepareQueue, Locked, Building, Does, JobOK, Fits
<1>27. ASSUME RejectBinding PROVE FreshOK'
  <2>1. RejectDoes
    BY <1>27, RejectBindingEffect DEF Sound
  <2> QED
    BY <2>1, NullAssumption DEF RejectDoes, Others, At, Told, Fails, Gone,
       Enters, Wrote, Refuses, Expires, RunFails, Counts, Owns, rows, env,
       disk, local, Sound, TypeOK, LockOK, OwnOK, FreshOK, RunOK, PhasesAgree,
       PrepareQueue, Locked, Building, Does, JobOK, Fits
<1>28. ASSUME AgentEdits PROVE FreshOK'
  BY <1>28, NullAssumption DEF AgentEdits, rows, env, disk, local, Sound,
     TypeOK, LockOK, OwnOK, FreshOK, RunOK, PhasesAgree, PrepareQueue, Locked,
     Building, Does, JobOK, Fits
<1>29. ASSUME DeadlinePasses PROVE FreshOK'
  BY <1>29, NullAssumption DEF DeadlinePasses, rows, env, disk, local,
     Sound, TypeOK, LockOK, OwnOK, FreshOK, RunOK, PhasesAgree, PrepareQueue,
     Locked, Building, Does, JobOK, Fits
<1>30. ASSUME TrustChanges PROVE FreshOK'
  BY <1>30, NullAssumption DEF TrustChanges, rows, env, disk, local, Sound,
     TypeOK, LockOK, OwnOK, FreshOK, RunOK, PhasesAgree, PrepareQueue, Locked,
     Building, Does, JobOK, Fits
<1>31. ASSUME Unbind PROVE FreshOK'
  BY <1>31, NullAssumption DEF Unbind, rows, env, disk, local, Sound,
     TypeOK, LockOK, OwnOK, FreshOK, RunOK, PhasesAgree, PrepareQueue, Locked,
     Building, Does, JobOK, Fits
<1>32. ASSUME Tamper PROVE FreshOK'
  BY <1>32, NullAssumption DEF Tamper, rows, env, disk, local, Sound,
     TypeOK, LockOK, OwnOK, FreshOK, RunOK, PhasesAgree, PrepareQueue, Locked,
     Building, Does, JobOK, Fits
<1>33. ASSUME UNCHANGED vars PROVE FreshOK'
  BY <1>33, NullAssumption DEF vars, rows, env, disk, local, Sound, TypeOK,
     LockOK, OwnOK, FreshOK, RunOK, PhasesAgree, PrepareQueue, Locked,
     Building, Does, JobOK, Fits
<1> QED
  BY <1>1, <1>2, <1>3, <1>4, <1>5, <1>6, <1>7, <1>8, <1>9, <1>10, <1>11,
     <1>12, <1>13, <1>14, <1>15, <1>16, <1>17, <1>18, <1>19, <1>20, <1>21,
     <1>22, <1>23, <1>24, <1>25, <1>26, <1>27, <1>28, <1>29, <1>30, <1>31,
     <1>32, <1>33 DEF Next, Work, Lanes

\* What was found stays so until it is recorded, and then for good.
LEMMA TreeStep ==
  ASSUME Sound, [Next]_vars PROVE TreeOK'
<1>1. ASSUME NEW m \in Manager, Claim(m) PROVE TreeOK'
  <2>1. ClaimDoes(m)
    BY <1>1, ClaimEffect DEF Sound
  <2> QED
    BY <2>1, NullAssumption DEF ClaimDoes, Others, At, Told, Fails, Gone,
       Enters, Wrote, Refuses, Expires, RunFails, Counts, Owns, rows, env,
       disk, local, Sound, TypeOK, LockOK, OwnOK, FreshOK, TreeOK, RunOK,
       PhasesAgree, PrepareQueue, Locked, Building, Does, JobOK, Fits, Tree
<1>2. ASSUME NEW m \in Manager, Start(m) PROVE TreeOK'
  <2>1. StartDoes(m)
    BY <1>2, StartEffect DEF Sound
  <2> QED
    BY <2>1, NullAssumption DEF StartDoes, Others, At, Told, Fails, Gone,
       Enters, Wrote, Refuses, Expires, RunFails, Counts, Owns, rows, env,
       disk, local, Sound, TypeOK, LockOK, OwnOK, FreshOK, TreeOK, RunOK,
       PhasesAgree, PrepareQueue, Locked, Building, Does, JobOK, Fits, Tree
<1>3. ASSUME NEW m \in Manager, Busy(m) PROVE TreeOK'
  <2>1. BusyDoes(m)
    BY <1>3, BusyEffect DEF Sound
  <2> QED
    BY <2>1, NullAssumption DEF BusyDoes, Others, At, Told, Fails, Gone,
       Enters, Wrote, Refuses, Expires, RunFails, Counts, Owns, rows, env,
       disk, local, Sound, TypeOK, LockOK, OwnOK, FreshOK, TreeOK, RunOK,
       PhasesAgree, PrepareQueue, Locked, Building, Does, JobOK, Fits, Tree
<1>4. ASSUME NEW m \in Manager, Recover(m) PROVE TreeOK'
  <2>1. RecoverDoes(m)
    BY <1>4, RecoverEffect DEF Sound
  <2> QED
    BY <2>1, NullAssumption DEF RecoverDoes, Others, At, Told, Fails, Gone,
       Enters, Wrote, Refuses, Expires, RunFails, Counts, Owns, rows, env,
       disk, local, Sound, TypeOK, LockOK, OwnOK, FreshOK, TreeOK, RunOK,
       PhasesAgree, PrepareQueue, Locked, Building, Does, JobOK, Fits, Tree
<1>5. ASSUME NEW m \in Manager, PreflightTree(m) PROVE TreeOK'
  <2>1. PreflightDoes(m)
    BY <1>5, PreflightTreeEffect DEF Sound
  <2> QED
    BY <2>1, NullAssumption DEF PreflightDoes, Others, At, Told, Fails,
       Gone, Enters, Wrote, Refuses, Expires, RunFails, Counts, Owns, rows,
       env, disk, local, Sound, TypeOK, LockOK, OwnOK, FreshOK, TreeOK, RunOK,
       PhasesAgree, PrepareQueue, Locked, Building, Does, JobOK, Fits, Tree
<1>6. ASSUME NEW m \in Manager, MakeStaging(m) PROVE TreeOK'
  <2>1. MakeStagingDoes(m)
    BY <1>6, MakeStagingEffect DEF Sound
  <2> QED
    BY <2>1, NullAssumption DEF MakeStagingDoes, Others, At, Told, Fails,
       Gone, Enters, Wrote, Refuses, Expires, RunFails, Counts, Owns, rows,
       env, disk, local, Sound, TypeOK, LockOK, OwnOK, FreshOK, TreeOK, RunOK,
       PhasesAgree, PrepareQueue, Locked, Building, Does, JobOK, Fits, Tree
<1>7. ASSUME NEW m \in Manager, Checkout(m) PROVE TreeOK'
  <2>1. CheckoutDoes(m)
    BY <1>7, CheckoutEffect DEF Sound
  <2> QED
    BY <2>1, NullAssumption DEF CheckoutDoes, Others, At, Told, Fails, Gone,
       Enters, Wrote, Refuses, Expires, RunFails, Counts, Owns, rows, env,
       disk, local, Sound, TypeOK, LockOK, OwnOK, FreshOK, TreeOK, RunOK,
       PhasesAgree, PrepareQueue, Locked, Building, Does, JobOK, Fits, Tree
<1>8. ASSUME NEW m \in Manager, Publish(m) PROVE TreeOK'
  <2>1. PublishDoes(m)
    BY <1>8, PublishEffect DEF Sound
  <2> QED
    BY <2>1, NullAssumption DEF PublishDoes, Others, At, Told, Fails, Gone,
       Enters, Wrote, Refuses, Expires, RunFails, Counts, Owns, rows, env,
       disk, local, Sound, TypeOK, LockOK, OwnOK, FreshOK, TreeOK, RunOK,
       PhasesAgree, PrepareQueue, Locked, Building, Does, JobOK, Fits, Tree
<1>9. ASSUME NEW m \in Manager, Verify(m) PROVE TreeOK'
  <2>1. VerifyDoes(m)
    BY <1>9, VerifyEffect DEF Sound
  <2> QED
    BY <2>1, NullAssumption DEF VerifyDoes, Others, At, Told, Fails, Gone,
       Enters, Wrote, Refuses, Expires, RunFails, Counts, Owns, rows, env,
       disk, local, Sound, TypeOK, LockOK, OwnOK, FreshOK, TreeOK, RunOK,
       PhasesAgree, PrepareQueue, Locked, Building, Does, JobOK, Fits, Tree
<1>10. ASSUME NEW m \in Manager, CommitPrepare(m) PROVE TreeOK'
  <2>1. CommitPrepareDoes(m)
    BY <1>10, CommitPrepareEffect DEF Sound
  <2> QED
    BY <2>1, NullAssumption DEF CommitPrepareDoes, Others, At, Told, Fails,
       Gone, Enters, Wrote, Refuses, Expires, RunFails, Counts, Owns, rows,
       env, disk, local, Sound, TypeOK, LockOK, OwnOK, FreshOK, TreeOK, RunOK,
       PhasesAgree, PrepareQueue, Locked, Building, Does, JobOK, Fits, Tree
<1>11. ASSUME NEW m \in Manager, EnterInspect(m) PROVE TreeOK'
  <2>1. EnterInspectDoes(m)
    BY <1>11, EnterInspectEffect DEF Sound
  <2> QED
    BY <2>1, NullAssumption DEF EnterInspectDoes, Others, At, Told, Fails,
       Gone, Enters, Wrote, Refuses, Expires, RunFails, Counts, Owns, rows,
       env, disk, local, Sound, TypeOK, LockOK, OwnOK, FreshOK, TreeOK, RunOK,
       PhasesAgree, PrepareQueue, Locked, Building, Does, JobOK, Fits, Tree
<1>12. ASSUME NEW m \in Manager, Inspect(m) PROVE TreeOK'
  <2>1. InspectDoes(m)
    BY <1>12, InspectEffect DEF Sound
  <2> QED
    BY <2>1, NullAssumption DEF InspectDoes, Others, At, Told, Fails, Gone,
       Enters, Wrote, Refuses, Expires, RunFails, Counts, Owns, rows, env,
       disk, local, Sound, TypeOK, LockOK, OwnOK, FreshOK, TreeOK, RunOK,
       PhasesAgree, PrepareQueue, Locked, Building, Does, JobOK, Fits, Tree
<1>13. ASSUME NEW m \in Manager, CommitInspect(m) PROVE TreeOK'
  <2>1. CommitInspectDoes(m)
    BY <1>13, CommitInspectEffect DEF Sound
  <2> QED
    BY <2>1, NullAssumption DEF CommitInspectDoes, Others, At, Told, Fails,
       Gone, Enters, Wrote, Refuses, Expires, RunFails, Counts, Owns, rows,
       env, disk, local, Sound, TypeOK, LockOK, OwnOK, FreshOK, TreeOK, RunOK,
       PhasesAgree, PrepareQueue, Locked, Building, Does, JobOK, Fits, Tree
<1>14. ASSUME NEW m \in Manager, SweepTrash(m) PROVE TreeOK'
  <2>1. SweepTrashDoes(m)
    BY <1>14, SweepTrashEffect DEF Sound
  <2> QED
    BY <2>1, NullAssumption DEF SweepTrashDoes, Others, At, Told, Fails,
       Gone, Enters, Wrote, Refuses, Expires, RunFails, Counts, Owns, rows,
       env, disk, local, Sound, TypeOK, LockOK, OwnOK, FreshOK, TreeOK, RunOK,
       PhasesAgree, PrepareQueue, Locked, Building, Does, JobOK, Fits, Tree
<1>15. ASSUME NEW m \in Manager, EnterCleanup(m) PROVE TreeOK'
  <2>1. EnterCleanupDoes(m)
    BY <1>15, EnterCleanupEffect DEF Sound
  <2> QED
    BY <2>1, NullAssumption DEF EnterCleanupDoes, Others, At, Told, Fails,
       Gone, Enters, Wrote, Refuses, Expires, RunFails, Counts, Owns, rows,
       env, disk, local, Sound, TypeOK, LockOK, OwnOK, FreshOK, TreeOK, RunOK,
       PhasesAgree, PrepareQueue, Locked, Building, Does, JobOK, Fits, Tree
<1>16. ASSUME NEW m \in Manager, MoveToTrash(m) PROVE TreeOK'
  <2>1. MoveToTrashDoes(m)
    BY <1>16, MoveToTrashEffect DEF Sound
  <2> QED
    BY <2>1, NullAssumption DEF MoveToTrashDoes, Others, At, Told, Fails,
       Gone, Enters, Wrote, Refuses, Expires, RunFails, Counts, Owns, rows,
       env, disk, local, Sound, TypeOK, LockOK, OwnOK, FreshOK, TreeOK, RunOK,
       PhasesAgree, PrepareQueue, Locked, Building, Does, JobOK, Fits, Tree
<1>17. ASSUME NEW m \in Manager, Shred(m) PROVE TreeOK'
  <2>1. ShredDoes(m)
    BY <1>17, ShredEffect DEF Sound
  <2> QED
    BY <2>1, NullAssumption DEF ShredDoes, Others, At, Told, Fails, Gone,
       Enters, Wrote, Refuses, Expires, RunFails, Counts, Owns, rows, env,
       disk, local, Sound, TypeOK, LockOK, OwnOK, FreshOK, TreeOK, RunOK,
       PhasesAgree, PrepareQueue, Locked, Building, Does, JobOK, Fits, Tree
<1>18. ASSUME NEW m \in Manager, CommitCleanup(m) PROVE TreeOK'
  <2>1. CommitCleanupDoes(m)
    BY <1>18, CommitCleanupEffect DEF Sound
  <2> QED
    BY <2>1, NullAssumption DEF CommitCleanupDoes, Others, At, Told, Fails,
       Gone, Enters, Wrote, Refuses, Expires, RunFails, Counts, Owns, rows,
       env, disk, local, Sound, TypeOK, LockOK, OwnOK, FreshOK, TreeOK, RunOK,
       PhasesAgree, PrepareQueue, Locked, Building, Does, JobOK, Fits, Tree
<1>19. ASSUME NEW m \in Manager, MarkFailure(m) PROVE TreeOK'
  <2>1. MarkFailureDoes(m)
    BY <1>19, MarkFailureEffect DEF Sound
  <2> QED
    BY <2>1, NullAssumption DEF MarkFailureDoes, Others, At, Told, Fails,
       Gone, Enters, Wrote, Refuses, Expires, RunFails, Counts, Owns, rows,
       env, disk, local, Sound, TypeOK, LockOK, OwnOK, FreshOK, TreeOK, RunOK,
       PhasesAgree, PrepareQueue, Locked, Building, Does, JobOK, Fits, Tree
<1>20. ASSUME NEW m \in Manager, Hiccup(m) PROVE TreeOK'
  <2>1. HiccupDoes(m)
    BY <1>20, HiccupEffect DEF Sound
  <2> QED
    BY <2>1, NullAssumption DEF HiccupDoes, Others, At, Told, Fails, Gone,
       Enters, Wrote, Refuses, Expires, RunFails, Counts, Owns, rows, env,
       disk, local, Sound, TypeOK, LockOK, OwnOK, FreshOK, TreeOK, RunOK,
       PhasesAgree, PrepareQueue, Locked, Building, Does, JobOK, Fits, Tree
<1>21. ASSUME NEW m \in Manager, Crash(m) PROVE TreeOK'
  <2>1. CrashDoes(m)
    BY <1>21, CrashEffect DEF Sound
  <2> QED
    BY <2>1, NullAssumption DEF CrashDoes, Others, At, Told, Fails, Gone,
       Enters, Wrote, Refuses, Expires, RunFails, Counts, Owns, rows, env,
       disk, local, Sound, TypeOK, LockOK, OwnOK, FreshOK, TreeOK, RunOK,
       PhasesAgree, PrepareQueue, Locked, Building, Does, JobOK, Fits, Tree
<1>22. ASSUME LeaseExpires PROVE TreeOK'
  <2>1. LeaseDoes
    BY <1>22, LeaseExpiresEffect DEF Sound
  <2> QED
    BY <2>1, NullAssumption DEF LeaseDoes, Others, At, Told, Fails, Gone,
       Enters, Wrote, Refuses, Expires, RunFails, Counts, Owns, rows, env,
       disk, local, Sound, TypeOK, LockOK, OwnOK, FreshOK, TreeOK, RunOK,
       PhasesAgree, PrepareQueue, Locked, Building, Does, JobOK, Fits, Tree
<1>23. ASSUME AbortPreparing PROVE TreeOK'
  <2>1. AbortDoes
    BY <1>23, AbortPreparingEffect DEF Sound
  <2> QED
    BY <2>1, NullAssumption DEF AbortDoes, Others, At, Told, Fails, Gone,
       Enters, Wrote, Refuses, Expires, RunFails, Counts, Owns, rows, env,
       disk, local, Sound, TypeOK, LockOK, OwnOK, FreshOK, TreeOK, RunOK,
       PhasesAgree, PrepareQueue, Locked, Building, Does, JobOK, Fits, Tree
<1>24. ASSUME RequestCleanup PROVE TreeOK'
  <2>1. RequestCleanupDoes
    BY <1>24, RequestCleanupEffect DEF Sound
  <2> QED
    BY <2>1, NullAssumption DEF RequestCleanupDoes, Others, At, Told, Fails,
       Gone, Enters, Wrote, Refuses, Expires, RunFails, Counts, Owns, rows,
       env, disk, local, Sound, TypeOK, LockOK, OwnOK, FreshOK, TreeOK, RunOK,
       PhasesAgree, PrepareQueue, Locked, Building, Does, JobOK, Fits, Tree
<1>25. ASSUME StartRun PROVE TreeOK'
  BY <1>25, NullAssumption DEF StartRun, rows, env, disk, local, Sound,
     TypeOK, LockOK, OwnOK, FreshOK, TreeOK, RunOK, PhasesAgree, PrepareQueue,
     Locked, Building, Does, JobOK, Fits, Tree
<1>26. ASSUME NEW status \in Terminal, EndRun(status) PROVE TreeOK'
  <2>1. EndRunDoes
    BY <1>26, EndRunEffect DEF Sound
  <2> QED
    BY <2>1, NullAssumption DEF EndRunDoes, Others, At, Told, Fails, Gone,
       Enters, Wrote, Refuses, Expires, RunFails, Counts, Owns, rows, env,
       disk, local, Sound, TypeOK, LockOK, OwnOK, FreshOK, TreeOK, RunOK,
       PhasesAgree, PrepareQueue, Locked, Building, Does, JobOK, Fits, Tree
<1>27. ASSUME RejectBinding PROVE TreeOK'
  <2>1. RejectDoes
    BY <1>27, RejectBindingEffect DEF Sound
  <2> QED
    BY <2>1, NullAssumption DEF RejectDoes, Others, At, Told, Fails, Gone,
       Enters, Wrote, Refuses, Expires, RunFails, Counts, Owns, rows, env,
       disk, local, Sound, TypeOK, LockOK, OwnOK, FreshOK, TreeOK, RunOK,
       PhasesAgree, PrepareQueue, Locked, Building, Does, JobOK, Fits, Tree
<1>28. ASSUME AgentEdits PROVE TreeOK'
  BY <1>28, NullAssumption DEF AgentEdits, rows, env, disk, local, Sound,
     TypeOK, LockOK, OwnOK, FreshOK, TreeOK, RunOK, PhasesAgree, PrepareQueue,
     Locked, Building, Does, JobOK, Fits, Tree
<1>29. ASSUME DeadlinePasses PROVE TreeOK'
  BY <1>29, NullAssumption DEF DeadlinePasses, rows, env, disk, local,
     Sound, TypeOK, LockOK, OwnOK, FreshOK, TreeOK, RunOK, PhasesAgree,
     PrepareQueue, Locked, Building, Does, JobOK, Fits, Tree
<1>30. ASSUME TrustChanges PROVE TreeOK'
  BY <1>30, NullAssumption DEF TrustChanges, rows, env, disk, local, Sound,
     TypeOK, LockOK, OwnOK, FreshOK, TreeOK, RunOK, PhasesAgree, PrepareQueue,
     Locked, Building, Does, JobOK, Fits, Tree
<1>31. ASSUME Unbind PROVE TreeOK'
  BY <1>31, NullAssumption DEF Unbind, rows, env, disk, local, Sound,
     TypeOK, LockOK, OwnOK, FreshOK, TreeOK, RunOK, PhasesAgree, PrepareQueue,
     Locked, Building, Does, JobOK, Fits, Tree
<1>32. ASSUME Tamper PROVE TreeOK'
  BY <1>32, NullAssumption DEF Tamper, rows, env, disk, local, Sound,
     TypeOK, LockOK, OwnOK, FreshOK, TreeOK, RunOK, PhasesAgree, PrepareQueue,
     Locked, Building, Does, JobOK, Fits, Tree
<1>33. ASSUME UNCHANGED vars PROVE TreeOK'
  BY <1>33, NullAssumption DEF vars, rows, env, disk, local, Sound, TypeOK,
     LockOK, OwnOK, FreshOK, TreeOK, RunOK, PhasesAgree, PrepareQueue, Locked,
     Building, Does, JobOK, Fits, Tree
<1> QED
  BY <1>1, <1>2, <1>3, <1>4, <1>5, <1>6, <1>7, <1>8, <1>9, <1>10, <1>11,
     <1>12, <1>13, <1>14, <1>15, <1>16, <1>17, <1>18, <1>19, <1>20, <1>21,
     <1>22, <1>23, <1>24, <1>25, <1>26, <1>27, <1>28, <1>29, <1>30, <1>31,
     <1>32, <1>33 DEF Next, Work, Lanes

----------------------------------------------------------------------------
(* Theorems                                                                 *)

LEMMA Start0 == Init => Sound
<1> SUFFICES ASSUME Init PROVE Sound
  OBVIOUS
<1>1. 0 \in 0..MaxFailures /\ 0 \in 0..MaxFaults
  BY FailureAssumption, FaultAssumption
<1>2. ws \in Row
  BY <1>1 DEF Init, Row, Queue, PrepareQueue
<1>3. job \in [Manager -> Job] /\ pc \in [Manager -> Place]
  BY DEF Init, Job, Idle, Place
<1>4. TypeOK
  BY <1>1, <1>2, <1>3 DEF Init, TypeOK, Tree
<1>5. JobOK /\ OwnOK /\ RunOK /\ PhasesAgree
  BY DEF Init, JobOK, Fits, Building, OwnOK, RunOK, PhasesAgree, PrepareQueue
<1>6. LockOK /\ FreshOK /\ TreeOK
  BY DEF Init, LockOK, Locked, Building, FreshOK, TreeOK
<1> QED BY <1>4, <1>5, <1>6 DEF Sound

\* The invariant holds of every reachable state.
LEMMA SoundAlways == Spec => []Sound
<1>1. Sound /\ [Next]_vars => Sound'
  BY TypeStep, JobStep, OwnStep, RunStep, PhasesStep, LockStep, FreshStep, TreeStep DEF Sound
<1> QED BY <1>1, Start0, PTL DEF Spec

\* The variables keep their types.
THEOREM TypeCorrect == Spec => []TypeOK
<1>1. Sound => TypeOK
  BY DEF Sound
<1> QED BY <1>1, SoundAlways, PTL

\* The status of a workspace and of the run it belongs to agree, however claims,
\* failures, aborts and terminal transactions interleave.
THEOREM RowsMoveInStep == Spec => []PhasesAgree
<1>1. Sound => PhasesAgree
  BY DEF Sound
<1> QED BY <1>1, SoundAlways, PTL

\* A package stays provisional only while an inspection can still complete it.
LEMMA PackageStep ==
  ASSUME Sound, ProvisionalMeansPending, [Next]_vars PROVE ProvisionalMeansPending'
<1>1. ASSUME NEW m \in Manager, Claim(m) PROVE ProvisionalMeansPending'
  <2>1. ClaimDoes(m)
    BY <1>1, ClaimEffect DEF Sound
  <2> QED
    BY <2>1 DEF ClaimDoes, Others, At, Told, Fails, Gone, Enters, Wrote,
       Refuses, Expires, RunFails, Counts, Owns, rows, env, disk, local, Sound,
       ProvisionalMeansPending, RunOK, PhasesAgree, Terminal, Does,
       PrepareQueue, Preparing, Queue, Working, JobOK, Fits
<1>2. ASSUME NEW m \in Manager, Start(m) PROVE ProvisionalMeansPending'
  <2>1. StartDoes(m)
    BY <1>2, StartEffect DEF Sound
  <2> QED
    BY <2>1 DEF StartDoes, Others, At, Told, Fails, Gone, Enters, Wrote,
       Refuses, Expires, RunFails, Counts, Owns, rows, env, disk, local, Sound,
       ProvisionalMeansPending, RunOK, PhasesAgree, Terminal, Does,
       PrepareQueue, Preparing, Queue, Working, JobOK, Fits
<1>3. ASSUME NEW m \in Manager, Busy(m) PROVE ProvisionalMeansPending'
  <2>1. BusyDoes(m)
    BY <1>3, BusyEffect DEF Sound
  <2> QED
    BY <2>1 DEF BusyDoes, Others, At, Told, Fails, Gone, Enters, Wrote,
       Refuses, Expires, RunFails, Counts, Owns, rows, env, disk, local, Sound,
       ProvisionalMeansPending, RunOK, PhasesAgree, Terminal, Does,
       PrepareQueue, Preparing, Queue, Working, JobOK, Fits
<1>4. ASSUME NEW m \in Manager, Recover(m) PROVE ProvisionalMeansPending'
  <2>1. RecoverDoes(m)
    BY <1>4, RecoverEffect DEF Sound
  <2> QED
    BY <2>1 DEF RecoverDoes, Others, At, Told, Fails, Gone, Enters, Wrote,
       Refuses, Expires, RunFails, Counts, Owns, rows, env, disk, local, Sound,
       ProvisionalMeansPending, RunOK, PhasesAgree, Terminal, Does,
       PrepareQueue, Preparing, Queue, Working, JobOK, Fits
<1>5. ASSUME NEW m \in Manager, PreflightTree(m) PROVE ProvisionalMeansPending'
  <2>1. PreflightDoes(m)
    BY <1>5, PreflightTreeEffect DEF Sound
  <2> QED
    BY <2>1 DEF PreflightDoes, Others, At, Told, Fails, Gone, Enters, Wrote,
       Refuses, Expires, RunFails, Counts, Owns, rows, env, disk, local, Sound,
       ProvisionalMeansPending, RunOK, PhasesAgree, Terminal, Does,
       PrepareQueue, Preparing, Queue, Working, JobOK, Fits
<1>6. ASSUME NEW m \in Manager, MakeStaging(m) PROVE ProvisionalMeansPending'
  <2>1. MakeStagingDoes(m)
    BY <1>6, MakeStagingEffect DEF Sound
  <2> QED
    BY <2>1 DEF MakeStagingDoes, Others, At, Told, Fails, Gone, Enters,
       Wrote, Refuses, Expires, RunFails, Counts, Owns, rows, env, disk, local,
       Sound, ProvisionalMeansPending, RunOK, PhasesAgree, Terminal, Does,
       PrepareQueue, Preparing, Queue, Working, JobOK, Fits
<1>7. ASSUME NEW m \in Manager, Checkout(m) PROVE ProvisionalMeansPending'
  <2>1. CheckoutDoes(m)
    BY <1>7, CheckoutEffect DEF Sound
  <2> QED
    BY <2>1 DEF CheckoutDoes, Others, At, Told, Fails, Gone, Enters, Wrote,
       Refuses, Expires, RunFails, Counts, Owns, rows, env, disk, local, Sound,
       ProvisionalMeansPending, RunOK, PhasesAgree, Terminal, Does,
       PrepareQueue, Preparing, Queue, Working, JobOK, Fits
<1>8. ASSUME NEW m \in Manager, Publish(m) PROVE ProvisionalMeansPending'
  <2>1. PublishDoes(m)
    BY <1>8, PublishEffect DEF Sound
  <2> QED
    BY <2>1 DEF PublishDoes, Others, At, Told, Fails, Gone, Enters, Wrote,
       Refuses, Expires, RunFails, Counts, Owns, rows, env, disk, local, Sound,
       ProvisionalMeansPending, RunOK, PhasesAgree, Terminal, Does,
       PrepareQueue, Preparing, Queue, Working, JobOK, Fits
<1>9. ASSUME NEW m \in Manager, Verify(m) PROVE ProvisionalMeansPending'
  <2>1. VerifyDoes(m)
    BY <1>9, VerifyEffect DEF Sound
  <2> QED
    BY <2>1 DEF VerifyDoes, Others, At, Told, Fails, Gone, Enters, Wrote,
       Refuses, Expires, RunFails, Counts, Owns, rows, env, disk, local, Sound,
       ProvisionalMeansPending, RunOK, PhasesAgree, Terminal, Does,
       PrepareQueue, Preparing, Queue, Working, JobOK, Fits
<1>10. ASSUME NEW m \in Manager, CommitPrepare(m) PROVE ProvisionalMeansPending'
  <2>1. CommitPrepareDoes(m)
    BY <1>10, CommitPrepareEffect DEF Sound
  <2> QED
    BY <2>1 DEF CommitPrepareDoes, Others, At, Told, Fails, Gone, Enters,
       Wrote, Refuses, Expires, RunFails, Counts, Owns, rows, env, disk, local,
       Sound, ProvisionalMeansPending, RunOK, PhasesAgree, Terminal, Does,
       PrepareQueue, Preparing, Queue, Working, JobOK, Fits
<1>11. ASSUME NEW m \in Manager, EnterInspect(m) PROVE ProvisionalMeansPending'
  <2>1. EnterInspectDoes(m)
    BY <1>11, EnterInspectEffect DEF Sound
  <2> QED
    BY <2>1 DEF EnterInspectDoes, Others, At, Told, Fails, Gone, Enters,
       Wrote, Refuses, Expires, RunFails, Counts, Owns, rows, env, disk, local,
       Sound, ProvisionalMeansPending, RunOK, PhasesAgree, Terminal, Does,
       PrepareQueue, Preparing, Queue, Working, JobOK, Fits
<1>12. ASSUME NEW m \in Manager, Inspect(m) PROVE ProvisionalMeansPending'
  <2>1. InspectDoes(m)
    BY <1>12, InspectEffect DEF Sound
  <2> QED
    BY <2>1 DEF InspectDoes, Others, At, Told, Fails, Gone, Enters, Wrote,
       Refuses, Expires, RunFails, Counts, Owns, rows, env, disk, local, Sound,
       ProvisionalMeansPending, RunOK, PhasesAgree, Terminal, Does,
       PrepareQueue, Preparing, Queue, Working, JobOK, Fits
<1>13. ASSUME NEW m \in Manager, CommitInspect(m) PROVE ProvisionalMeansPending'
  <2>1. CommitInspectDoes(m)
    BY <1>13, CommitInspectEffect DEF Sound
  <2> QED
    BY <2>1 DEF CommitInspectDoes, Others, At, Told, Fails, Gone, Enters,
       Wrote, Refuses, Expires, RunFails, Counts, Owns, rows, env, disk, local,
       Sound, ProvisionalMeansPending, RunOK, PhasesAgree, Terminal, Does,
       PrepareQueue, Preparing, Queue, Working, JobOK, Fits
<1>14. ASSUME NEW m \in Manager, SweepTrash(m) PROVE ProvisionalMeansPending'
  <2>1. SweepTrashDoes(m)
    BY <1>14, SweepTrashEffect DEF Sound
  <2> QED
    BY <2>1 DEF SweepTrashDoes, Others, At, Told, Fails, Gone, Enters,
       Wrote, Refuses, Expires, RunFails, Counts, Owns, rows, env, disk, local,
       Sound, ProvisionalMeansPending, RunOK, PhasesAgree, Terminal, Does,
       PrepareQueue, Preparing, Queue, Working, JobOK, Fits
<1>15. ASSUME NEW m \in Manager, EnterCleanup(m) PROVE ProvisionalMeansPending'
  <2>1. EnterCleanupDoes(m)
    BY <1>15, EnterCleanupEffect DEF Sound
  <2> QED
    BY <2>1 DEF EnterCleanupDoes, Others, At, Told, Fails, Gone, Enters,
       Wrote, Refuses, Expires, RunFails, Counts, Owns, rows, env, disk, local,
       Sound, ProvisionalMeansPending, RunOK, PhasesAgree, Terminal, Does,
       PrepareQueue, Preparing, Queue, Working, JobOK, Fits
<1>16. ASSUME NEW m \in Manager, MoveToTrash(m) PROVE ProvisionalMeansPending'
  <2>1. MoveToTrashDoes(m)
    BY <1>16, MoveToTrashEffect DEF Sound
  <2> QED
    BY <2>1 DEF MoveToTrashDoes, Others, At, Told, Fails, Gone, Enters,
       Wrote, Refuses, Expires, RunFails, Counts, Owns, rows, env, disk, local,
       Sound, ProvisionalMeansPending, RunOK, PhasesAgree, Terminal, Does,
       PrepareQueue, Preparing, Queue, Working, JobOK, Fits
<1>17. ASSUME NEW m \in Manager, Shred(m) PROVE ProvisionalMeansPending'
  <2>1. ShredDoes(m)
    BY <1>17, ShredEffect DEF Sound
  <2> QED
    BY <2>1 DEF ShredDoes, Others, At, Told, Fails, Gone, Enters, Wrote,
       Refuses, Expires, RunFails, Counts, Owns, rows, env, disk, local, Sound,
       ProvisionalMeansPending, RunOK, PhasesAgree, Terminal, Does,
       PrepareQueue, Preparing, Queue, Working, JobOK, Fits
<1>18. ASSUME NEW m \in Manager, CommitCleanup(m) PROVE ProvisionalMeansPending'
  <2>1. CommitCleanupDoes(m)
    BY <1>18, CommitCleanupEffect DEF Sound
  <2> QED
    BY <2>1 DEF CommitCleanupDoes, Others, At, Told, Fails, Gone, Enters,
       Wrote, Refuses, Expires, RunFails, Counts, Owns, rows, env, disk, local,
       Sound, ProvisionalMeansPending, RunOK, PhasesAgree, Terminal, Does,
       PrepareQueue, Preparing, Queue, Working, JobOK, Fits
<1>19. ASSUME NEW m \in Manager, MarkFailure(m) PROVE ProvisionalMeansPending'
  <2>1. MarkFailureDoes(m)
    BY <1>19, MarkFailureEffect DEF Sound
  <2> QED
    BY <2>1 DEF MarkFailureDoes, Others, At, Told, Fails, Gone, Enters,
       Wrote, Refuses, Expires, RunFails, Counts, Owns, rows, env, disk, local,
       Sound, ProvisionalMeansPending, RunOK, PhasesAgree, Terminal, Does,
       PrepareQueue, Preparing, Queue, Working, JobOK, Fits
<1>20. ASSUME NEW m \in Manager, Hiccup(m) PROVE ProvisionalMeansPending'
  <2>1. HiccupDoes(m)
    BY <1>20, HiccupEffect DEF Sound
  <2> QED
    BY <2>1 DEF HiccupDoes, Others, At, Told, Fails, Gone, Enters, Wrote,
       Refuses, Expires, RunFails, Counts, Owns, rows, env, disk, local, Sound,
       ProvisionalMeansPending, RunOK, PhasesAgree, Terminal, Does,
       PrepareQueue, Preparing, Queue, Working, JobOK, Fits
<1>21. ASSUME NEW m \in Manager, Crash(m) PROVE ProvisionalMeansPending'
  <2>1. CrashDoes(m)
    BY <1>21, CrashEffect DEF Sound
  <2> QED
    BY <2>1 DEF CrashDoes, Others, At, Told, Fails, Gone, Enters, Wrote,
       Refuses, Expires, RunFails, Counts, Owns, rows, env, disk, local, Sound,
       ProvisionalMeansPending, RunOK, PhasesAgree, Terminal, Does,
       PrepareQueue, Preparing, Queue, Working, JobOK, Fits
<1>22. ASSUME LeaseExpires PROVE ProvisionalMeansPending'
  <2>1. LeaseDoes
    BY <1>22, LeaseExpiresEffect DEF Sound
  <2> QED
    BY <2>1 DEF LeaseDoes, Others, At, Told, Fails, Gone, Enters, Wrote,
       Refuses, Expires, RunFails, Counts, Owns, rows, env, disk, local, Sound,
       ProvisionalMeansPending, RunOK, PhasesAgree, Terminal, Does,
       PrepareQueue, Preparing, Queue, Working, JobOK, Fits
<1>23. ASSUME AbortPreparing PROVE ProvisionalMeansPending'
  <2>1. AbortDoes
    BY <1>23, AbortPreparingEffect DEF Sound
  <2> QED
    BY <2>1 DEF AbortDoes, Others, At, Told, Fails, Gone, Enters, Wrote,
       Refuses, Expires, RunFails, Counts, Owns, rows, env, disk, local, Sound,
       ProvisionalMeansPending, RunOK, PhasesAgree, Terminal, Does,
       PrepareQueue, Preparing, Queue, Working, JobOK, Fits
<1>24. ASSUME RequestCleanup PROVE ProvisionalMeansPending'
  <2>1. RequestCleanupDoes
    BY <1>24, RequestCleanupEffect DEF Sound
  <2> QED
    BY <2>1 DEF RequestCleanupDoes, Others, At, Told, Fails, Gone, Enters,
       Wrote, Refuses, Expires, RunFails, Counts, Owns, rows, env, disk, local,
       Sound, ProvisionalMeansPending, RunOK, PhasesAgree, Terminal, Does,
       PrepareQueue, Preparing, Queue, Working, JobOK, Fits
<1>25. ASSUME StartRun PROVE ProvisionalMeansPending'
  BY <1>25 DEF StartRun, rows, env, disk, local, Sound,
     ProvisionalMeansPending, RunOK, PhasesAgree, Terminal, Does, PrepareQueue,
     Preparing, Queue, Working, JobOK, Fits
<1>26. ASSUME NEW status \in Terminal, EndRun(status) PROVE ProvisionalMeansPending'
  <2>1. EndRunDoes
    BY <1>26, EndRunEffect DEF Sound
  <2> QED
    BY <2>1 DEF EndRunDoes, Others, At, Told, Fails, Gone, Enters, Wrote,
       Refuses, Expires, RunFails, Counts, Owns, rows, env, disk, local, Sound,
       ProvisionalMeansPending, RunOK, PhasesAgree, Terminal, Does,
       PrepareQueue, Preparing, Queue, Working, JobOK, Fits
<1>27. ASSUME RejectBinding PROVE ProvisionalMeansPending'
  <2>1. RejectDoes
    BY <1>27, RejectBindingEffect DEF Sound
  <2> QED
    BY <2>1 DEF RejectDoes, Others, At, Told, Fails, Gone, Enters, Wrote,
       Refuses, Expires, RunFails, Counts, Owns, rows, env, disk, local, Sound,
       ProvisionalMeansPending, RunOK, PhasesAgree, Terminal, Does,
       PrepareQueue, Preparing, Queue, Working, JobOK, Fits
<1>28. ASSUME AgentEdits PROVE ProvisionalMeansPending'
  BY <1>28 DEF AgentEdits, rows, env, disk, local, Sound,
     ProvisionalMeansPending, RunOK, PhasesAgree, Terminal, Does, PrepareQueue,
     Preparing, Queue, Working, JobOK, Fits
<1>29. ASSUME DeadlinePasses PROVE ProvisionalMeansPending'
  BY <1>29 DEF DeadlinePasses, rows, env, disk, local, Sound,
     ProvisionalMeansPending, RunOK, PhasesAgree, Terminal, Does, PrepareQueue,
     Preparing, Queue, Working, JobOK, Fits
<1>30. ASSUME TrustChanges PROVE ProvisionalMeansPending'
  BY <1>30 DEF TrustChanges, rows, env, disk, local, Sound,
     ProvisionalMeansPending, RunOK, PhasesAgree, Terminal, Does, PrepareQueue,
     Preparing, Queue, Working, JobOK, Fits
<1>31. ASSUME Unbind PROVE ProvisionalMeansPending'
  BY <1>31 DEF Unbind, rows, env, disk, local, Sound,
     ProvisionalMeansPending, RunOK, PhasesAgree, Terminal, Does, PrepareQueue,
     Preparing, Queue, Working, JobOK, Fits
<1>32. ASSUME Tamper PROVE ProvisionalMeansPending'
  BY <1>32 DEF Tamper, rows, env, disk, local, Sound,
     ProvisionalMeansPending, RunOK, PhasesAgree, Terminal, Does, PrepareQueue,
     Preparing, Queue, Working, JobOK, Fits
<1>33. ASSUME UNCHANGED vars PROVE ProvisionalMeansPending'
  BY <1>33 DEF vars, rows, env, disk, local, Sound, ProvisionalMeansPending,
     RunOK, PhasesAgree, Terminal, Does, PrepareQueue, Preparing, Queue,
     Working, JobOK, Fits
<1> QED
  BY <1>1, <1>2, <1>3, <1>4, <1>5, <1>6, <1>7, <1>8, <1>9, <1>10, <1>11,
     <1>12, <1>13, <1>14, <1>15, <1>16, <1>17, <1>18, <1>19, <1>20, <1>21,
     <1>22, <1>23, <1>24, <1>25, <1>26, <1>27, <1>28, <1>29, <1>30, <1>31,
     <1>32, <1>33 DEF Next, Work, Lanes

\* A package is provisional only while an inspection is pending or under way, unless
\* the binding was broken from outside.
THEOREM PackagesComplete == Spec => []ProvisionalMeansPending
<1>1. Init => ProvisionalMeansPending
  BY DEF Init, ProvisionalMeansPending
<1>2. Sound /\ ProvisionalMeansPending /\ [Next]_vars => ProvisionalMeansPending'
  BY PackageStep
<1> QED BY <1>1, <1>2, SoundAlways, PTL DEF Spec

\* What the queueing of a run relies on.
Queues ==
  run = "preparing" /\ run' = "queued" =>
    /\ final \in {"clean", "broken", "unreadable"} /\ repo = "ready" /\ ~overdue
    /\ \E m \in current : pc[m] = "commit" /\ job[m].result = "clean"

\* A run is queued by the owner alone, over the directory it built.
LEMMA QueueStep ==
  ASSUME Sound, [Next]_vars PROVE Queues
<1>1. ASSUME NEW m \in Manager, Claim(m) PROVE Queues
  <2>1. ClaimDoes(m)
    BY <1>1, ClaimEffect DEF Sound
  <2> QED
    BY <2>1 DEF ClaimDoes, Others, At, Told, Fails, Gone, Enters, Wrote,
       Refuses, Expires, RunFails, Counts, Owns, rows, env, disk, local,
       Queues, Sound, TypeOK, JobOK, Fits, TreeOK, RunOK, PhasesAgree,
       Terminal, PrepareQueue
<1>2. ASSUME NEW m \in Manager, Start(m) PROVE Queues
  <2>1. StartDoes(m)
    BY <1>2, StartEffect DEF Sound
  <2> QED
    BY <2>1 DEF StartDoes, Others, At, Told, Fails, Gone, Enters, Wrote,
       Refuses, Expires, RunFails, Counts, Owns, rows, env, disk, local,
       Queues, Sound, TypeOK, JobOK, Fits, TreeOK, RunOK, PhasesAgree,
       Terminal, PrepareQueue
<1>3. ASSUME NEW m \in Manager, Busy(m) PROVE Queues
  <2>1. BusyDoes(m)
    BY <1>3, BusyEffect DEF Sound
  <2> QED
    BY <2>1 DEF BusyDoes, Others, At, Told, Fails, Gone, Enters, Wrote,
       Refuses, Expires, RunFails, Counts, Owns, rows, env, disk, local,
       Queues, Sound, TypeOK, JobOK, Fits, TreeOK, RunOK, PhasesAgree,
       Terminal, PrepareQueue
<1>4. ASSUME NEW m \in Manager, Recover(m) PROVE Queues
  <2>1. RecoverDoes(m)
    BY <1>4, RecoverEffect DEF Sound
  <2> QED
    BY <2>1 DEF RecoverDoes, Others, At, Told, Fails, Gone, Enters, Wrote,
       Refuses, Expires, RunFails, Counts, Owns, rows, env, disk, local,
       Queues, Sound, TypeOK, JobOK, Fits, TreeOK, RunOK, PhasesAgree,
       Terminal, PrepareQueue
<1>5. ASSUME NEW m \in Manager, PreflightTree(m) PROVE Queues
  <2>1. PreflightDoes(m)
    BY <1>5, PreflightTreeEffect DEF Sound
  <2> QED
    BY <2>1 DEF PreflightDoes, Others, At, Told, Fails, Gone, Enters, Wrote,
       Refuses, Expires, RunFails, Counts, Owns, rows, env, disk, local,
       Queues, Sound, TypeOK, JobOK, Fits, TreeOK, RunOK, PhasesAgree,
       Terminal, PrepareQueue
<1>6. ASSUME NEW m \in Manager, MakeStaging(m) PROVE Queues
  <2>1. MakeStagingDoes(m)
    BY <1>6, MakeStagingEffect DEF Sound
  <2> QED
    BY <2>1 DEF MakeStagingDoes, Others, At, Told, Fails, Gone, Enters,
       Wrote, Refuses, Expires, RunFails, Counts, Owns, rows, env, disk, local,
       Queues, Sound, TypeOK, JobOK, Fits, TreeOK, RunOK, PhasesAgree,
       Terminal, PrepareQueue
<1>7. ASSUME NEW m \in Manager, Checkout(m) PROVE Queues
  <2>1. CheckoutDoes(m)
    BY <1>7, CheckoutEffect DEF Sound
  <2> QED
    BY <2>1 DEF CheckoutDoes, Others, At, Told, Fails, Gone, Enters, Wrote,
       Refuses, Expires, RunFails, Counts, Owns, rows, env, disk, local,
       Queues, Sound, TypeOK, JobOK, Fits, TreeOK, RunOK, PhasesAgree,
       Terminal, PrepareQueue
<1>8. ASSUME NEW m \in Manager, Publish(m) PROVE Queues
  <2>1. PublishDoes(m)
    BY <1>8, PublishEffect DEF Sound
  <2> QED
    BY <2>1 DEF PublishDoes, Others, At, Told, Fails, Gone, Enters, Wrote,
       Refuses, Expires, RunFails, Counts, Owns, rows, env, disk, local,
       Queues, Sound, TypeOK, JobOK, Fits, TreeOK, RunOK, PhasesAgree,
       Terminal, PrepareQueue
<1>9. ASSUME NEW m \in Manager, Verify(m) PROVE Queues
  <2>1. VerifyDoes(m)
    BY <1>9, VerifyEffect DEF Sound
  <2> QED
    BY <2>1 DEF VerifyDoes, Others, At, Told, Fails, Gone, Enters, Wrote,
       Refuses, Expires, RunFails, Counts, Owns, rows, env, disk, local,
       Queues, Sound, TypeOK, JobOK, Fits, TreeOK, RunOK, PhasesAgree,
       Terminal, PrepareQueue
<1>10. ASSUME NEW m \in Manager, CommitPrepare(m) PROVE Queues
  <2>1. CommitPrepareDoes(m)
    BY <1>10, CommitPrepareEffect DEF Sound
  <2> QED
    BY <2>1 DEF CommitPrepareDoes, Others, At, Told, Fails, Gone, Enters,
       Wrote, Refuses, Expires, RunFails, Counts, Owns, rows, env, disk, local,
       Queues, Sound, TypeOK, JobOK, Fits, TreeOK, RunOK, PhasesAgree,
       Terminal, PrepareQueue
<1>11. ASSUME NEW m \in Manager, EnterInspect(m) PROVE Queues
  <2>1. EnterInspectDoes(m)
    BY <1>11, EnterInspectEffect DEF Sound
  <2> QED
    BY <2>1 DEF EnterInspectDoes, Others, At, Told, Fails, Gone, Enters,
       Wrote, Refuses, Expires, RunFails, Counts, Owns, rows, env, disk, local,
       Queues, Sound, TypeOK, JobOK, Fits, TreeOK, RunOK, PhasesAgree,
       Terminal, PrepareQueue
<1>12. ASSUME NEW m \in Manager, Inspect(m) PROVE Queues
  <2>1. InspectDoes(m)
    BY <1>12, InspectEffect DEF Sound
  <2> QED
    BY <2>1 DEF InspectDoes, Others, At, Told, Fails, Gone, Enters, Wrote,
       Refuses, Expires, RunFails, Counts, Owns, rows, env, disk, local,
       Queues, Sound, TypeOK, JobOK, Fits, TreeOK, RunOK, PhasesAgree,
       Terminal, PrepareQueue
<1>13. ASSUME NEW m \in Manager, CommitInspect(m) PROVE Queues
  <2>1. CommitInspectDoes(m)
    BY <1>13, CommitInspectEffect DEF Sound
  <2> QED
    BY <2>1 DEF CommitInspectDoes, Others, At, Told, Fails, Gone, Enters,
       Wrote, Refuses, Expires, RunFails, Counts, Owns, rows, env, disk, local,
       Queues, Sound, TypeOK, JobOK, Fits, TreeOK, RunOK, PhasesAgree,
       Terminal, PrepareQueue
<1>14. ASSUME NEW m \in Manager, SweepTrash(m) PROVE Queues
  <2>1. SweepTrashDoes(m)
    BY <1>14, SweepTrashEffect DEF Sound
  <2> QED
    BY <2>1 DEF SweepTrashDoes, Others, At, Told, Fails, Gone, Enters,
       Wrote, Refuses, Expires, RunFails, Counts, Owns, rows, env, disk, local,
       Queues, Sound, TypeOK, JobOK, Fits, TreeOK, RunOK, PhasesAgree,
       Terminal, PrepareQueue
<1>15. ASSUME NEW m \in Manager, EnterCleanup(m) PROVE Queues
  <2>1. EnterCleanupDoes(m)
    BY <1>15, EnterCleanupEffect DEF Sound
  <2> QED
    BY <2>1 DEF EnterCleanupDoes, Others, At, Told, Fails, Gone, Enters,
       Wrote, Refuses, Expires, RunFails, Counts, Owns, rows, env, disk, local,
       Queues, Sound, TypeOK, JobOK, Fits, TreeOK, RunOK, PhasesAgree,
       Terminal, PrepareQueue
<1>16. ASSUME NEW m \in Manager, MoveToTrash(m) PROVE Queues
  <2>1. MoveToTrashDoes(m)
    BY <1>16, MoveToTrashEffect DEF Sound
  <2> QED
    BY <2>1 DEF MoveToTrashDoes, Others, At, Told, Fails, Gone, Enters,
       Wrote, Refuses, Expires, RunFails, Counts, Owns, rows, env, disk, local,
       Queues, Sound, TypeOK, JobOK, Fits, TreeOK, RunOK, PhasesAgree,
       Terminal, PrepareQueue
<1>17. ASSUME NEW m \in Manager, Shred(m) PROVE Queues
  <2>1. ShredDoes(m)
    BY <1>17, ShredEffect DEF Sound
  <2> QED
    BY <2>1 DEF ShredDoes, Others, At, Told, Fails, Gone, Enters, Wrote,
       Refuses, Expires, RunFails, Counts, Owns, rows, env, disk, local,
       Queues, Sound, TypeOK, JobOK, Fits, TreeOK, RunOK, PhasesAgree,
       Terminal, PrepareQueue
<1>18. ASSUME NEW m \in Manager, CommitCleanup(m) PROVE Queues
  <2>1. CommitCleanupDoes(m)
    BY <1>18, CommitCleanupEffect DEF Sound
  <2> QED
    BY <2>1 DEF CommitCleanupDoes, Others, At, Told, Fails, Gone, Enters,
       Wrote, Refuses, Expires, RunFails, Counts, Owns, rows, env, disk, local,
       Queues, Sound, TypeOK, JobOK, Fits, TreeOK, RunOK, PhasesAgree,
       Terminal, PrepareQueue
<1>19. ASSUME NEW m \in Manager, MarkFailure(m) PROVE Queues
  <2>1. MarkFailureDoes(m)
    BY <1>19, MarkFailureEffect DEF Sound
  <2> QED
    BY <2>1 DEF MarkFailureDoes, Others, At, Told, Fails, Gone, Enters,
       Wrote, Refuses, Expires, RunFails, Counts, Owns, rows, env, disk, local,
       Queues, Sound, TypeOK, JobOK, Fits, TreeOK, RunOK, PhasesAgree,
       Terminal, PrepareQueue, Job
<1>20. ASSUME NEW m \in Manager, Hiccup(m) PROVE Queues
  <2>1. HiccupDoes(m)
    BY <1>20, HiccupEffect DEF Sound
  <2> QED
    BY <2>1 DEF HiccupDoes, Others, At, Told, Fails, Gone, Enters, Wrote,
       Refuses, Expires, RunFails, Counts, Owns, rows, env, disk, local,
       Queues, Sound, TypeOK, JobOK, Fits, TreeOK, RunOK, PhasesAgree,
       Terminal, PrepareQueue
<1>21. ASSUME NEW m \in Manager, Crash(m) PROVE Queues
  <2>1. CrashDoes(m)
    BY <1>21, CrashEffect DEF Sound
  <2> QED
    BY <2>1 DEF CrashDoes, Others, At, Told, Fails, Gone, Enters, Wrote,
       Refuses, Expires, RunFails, Counts, Owns, rows, env, disk, local,
       Queues, Sound, TypeOK, JobOK, Fits, TreeOK, RunOK, PhasesAgree,
       Terminal, PrepareQueue
<1>22. ASSUME LeaseExpires PROVE Queues
  <2>1. LeaseDoes
    BY <1>22, LeaseExpiresEffect DEF Sound
  <2> QED
    BY <2>1 DEF LeaseDoes, Others, At, Told, Fails, Gone, Enters, Wrote,
       Refuses, Expires, RunFails, Counts, Owns, rows, env, disk, local,
       Queues, Sound, TypeOK, JobOK, Fits, TreeOK, RunOK, PhasesAgree,
       Terminal, PrepareQueue
<1>23. ASSUME AbortPreparing PROVE Queues
  <2>1. AbortDoes
    BY <1>23, AbortPreparingEffect DEF Sound
  <2> QED
    BY <2>1 DEF AbortDoes, Others, At, Told, Fails, Gone, Enters, Wrote,
       Refuses, Expires, RunFails, Counts, Owns, rows, env, disk, local,
       Queues, Sound, TypeOK, JobOK, Fits, TreeOK, RunOK, PhasesAgree,
       Terminal, PrepareQueue
<1>24. ASSUME RequestCleanup PROVE Queues
  <2>1. RequestCleanupDoes
    BY <1>24, RequestCleanupEffect DEF Sound
  <2> QED
    BY <2>1 DEF RequestCleanupDoes, Others, At, Told, Fails, Gone, Enters,
       Wrote, Refuses, Expires, RunFails, Counts, Owns, rows, env, disk, local,
       Queues, Sound, TypeOK, JobOK, Fits, TreeOK, RunOK, PhasesAgree,
       Terminal, PrepareQueue
<1>25. ASSUME StartRun PROVE Queues
  BY <1>25 DEF StartRun, rows, env, disk, local, Queues, Sound, TypeOK,
     JobOK, Fits, TreeOK, RunOK, PhasesAgree, Terminal, PrepareQueue
<1>26. ASSUME NEW status \in Terminal, EndRun(status) PROVE Queues
  <2>1. EndRunDoes
    BY <1>26, EndRunEffect DEF Sound
  <2> QED
    BY <2>1 DEF EndRunDoes, Others, At, Told, Fails, Gone, Enters, Wrote,
       Refuses, Expires, RunFails, Counts, Owns, rows, env, disk, local,
       Queues, Sound, TypeOK, JobOK, Fits, TreeOK, RunOK, PhasesAgree,
       Terminal, PrepareQueue
<1>27. ASSUME RejectBinding PROVE Queues
  <2>1. RejectDoes
    BY <1>27, RejectBindingEffect DEF Sound
  <2> QED
    BY <2>1 DEF RejectDoes, Others, At, Told, Fails, Gone, Enters, Wrote,
       Refuses, Expires, RunFails, Counts, Owns, rows, env, disk, local,
       Queues, Sound, TypeOK, JobOK, Fits, TreeOK, RunOK, PhasesAgree,
       Terminal, PrepareQueue
<1>28. ASSUME AgentEdits PROVE Queues
  BY <1>28 DEF AgentEdits, rows, env, disk, local, Queues, Sound, TypeOK,
     JobOK, Fits, TreeOK, RunOK, PhasesAgree, Terminal, PrepareQueue
<1>29. ASSUME DeadlinePasses PROVE Queues
  BY <1>29 DEF DeadlinePasses, rows, env, disk, local, Queues, Sound,
     TypeOK, JobOK, Fits, TreeOK, RunOK, PhasesAgree, Terminal, PrepareQueue
<1>30. ASSUME TrustChanges PROVE Queues
  BY <1>30 DEF TrustChanges, rows, env, disk, local, Queues, Sound, TypeOK,
     JobOK, Fits, TreeOK, RunOK, PhasesAgree, Terminal, PrepareQueue
<1>31. ASSUME Unbind PROVE Queues
  BY <1>31 DEF Unbind, rows, env, disk, local, Queues, Sound, TypeOK, JobOK,
     Fits, TreeOK, RunOK, PhasesAgree, Terminal, PrepareQueue
<1>32. ASSUME Tamper PROVE Queues
  BY <1>32 DEF Tamper, rows, env, disk, local, Queues, Sound, TypeOK, JobOK,
     Fits, TreeOK, RunOK, PhasesAgree, Terminal, PrepareQueue
<1>33. ASSUME UNCHANGED vars PROVE Queues
  BY <1>33 DEF vars, rows, env, disk, local, Queues, Sound, TypeOK, JobOK,
     Fits, TreeOK, RunOK, PhasesAgree, Terminal, PrepareQueue
<1> QED
  BY <1>1, <1>2, <1>3, <1>4, <1>5, <1>6, <1>7, <1>8, <1>9, <1>10, <1>11,
     <1>12, <1>13, <1>14, <1>15, <1>16, <1>17, <1>18, <1>19, <1>20, <1>21,
     <1>22, <1>23, <1>24, <1>25, <1>26, <1>27, <1>28, <1>29, <1>30, <1>31,
     <1>32, <1>33 DEF Next, Work, Lanes

\* A run is queued only by the owner, over the directory it published, while the
\* repository is trusted and the deadline has not passed.
THEOREM RunsAreQueuedSoundly == Spec => QueuedOverCleanTree
<1>1. Sound /\ [Next]_vars => [Queues]_vars
  BY QueueStep
<1> QED BY <1>1, SoundAlways, PTL DEF Spec, QueuedOverCleanTree, Queues

----------------------------------------------------------------------------
(* The promise                                                              *)

Calm == "race" \notin Disturbances

\* Without a race, what is discarded was not changed.
LEMMA MovedStep ==
  ASSUME Calm, Sound, MovedOK, [Next]_vars PROVE MovedOK'
<1>1. ASSUME NEW m \in Manager, Claim(m) PROVE MovedOK'
  <2>1. ClaimDoes(m)
    BY <1>1, ClaimEffect DEF Sound
  <2> QED
    BY <2>1, NullAssumption DEF ClaimDoes, Others, At, Told, Fails, Gone,
       Enters, Wrote, Refuses, Expires, RunFails, Counts, Owns, rows, env,
       disk, local, Calm, Sound, TypeOK, MovedOK, LockOK, FreshOK, Locked,
       Building
<1>2. ASSUME NEW m \in Manager, Start(m) PROVE MovedOK'
  <2>1. StartDoes(m)
    BY <1>2, StartEffect DEF Sound
  <2> QED
    BY <2>1, NullAssumption DEF StartDoes, Others, At, Told, Fails, Gone,
       Enters, Wrote, Refuses, Expires, RunFails, Counts, Owns, rows, env,
       disk, local, Calm, Sound, TypeOK, MovedOK, LockOK, FreshOK, Locked,
       Building
<1>3. ASSUME NEW m \in Manager, Busy(m) PROVE MovedOK'
  <2>1. BusyDoes(m)
    BY <1>3, BusyEffect DEF Sound
  <2> QED
    BY <2>1, NullAssumption DEF BusyDoes, Others, At, Told, Fails, Gone,
       Enters, Wrote, Refuses, Expires, RunFails, Counts, Owns, rows, env,
       disk, local, Calm, Sound, TypeOK, MovedOK, LockOK, FreshOK, Locked,
       Building
<1>4. ASSUME NEW m \in Manager, Recover(m) PROVE MovedOK'
  <2>1. RecoverDoes(m)
    BY <1>4, RecoverEffect DEF Sound
  <2> QED
    BY <2>1, NullAssumption DEF RecoverDoes, Others, At, Told, Fails, Gone,
       Enters, Wrote, Refuses, Expires, RunFails, Counts, Owns, rows, env,
       disk, local, Calm, Sound, TypeOK, MovedOK, LockOK, FreshOK, Locked,
       Building
<1>5. ASSUME NEW m \in Manager, PreflightTree(m) PROVE MovedOK'
  <2>1. PreflightDoes(m)
    BY <1>5, PreflightTreeEffect DEF Sound
  <2> QED
    BY <2>1, NullAssumption DEF PreflightDoes, Others, At, Told, Fails,
       Gone, Enters, Wrote, Refuses, Expires, RunFails, Counts, Owns, rows,
       env, disk, local, Calm, Sound, TypeOK, MovedOK, LockOK, FreshOK, Locked,
       Building
<1>6. ASSUME NEW m \in Manager, MakeStaging(m) PROVE MovedOK'
  <2>1. MakeStagingDoes(m)
    BY <1>6, MakeStagingEffect DEF Sound
  <2> QED
    BY <2>1, NullAssumption DEF MakeStagingDoes, Others, At, Told, Fails,
       Gone, Enters, Wrote, Refuses, Expires, RunFails, Counts, Owns, rows,
       env, disk, local, Calm, Sound, TypeOK, MovedOK, LockOK, FreshOK, Locked,
       Building
<1>7. ASSUME NEW m \in Manager, Checkout(m) PROVE MovedOK'
  <2>1. CheckoutDoes(m)
    BY <1>7, CheckoutEffect DEF Sound
  <2> QED
    BY <2>1, NullAssumption DEF CheckoutDoes, Others, At, Told, Fails, Gone,
       Enters, Wrote, Refuses, Expires, RunFails, Counts, Owns, rows, env,
       disk, local, Calm, Sound, TypeOK, MovedOK, LockOK, FreshOK, Locked,
       Building
<1>8. ASSUME NEW m \in Manager, Publish(m) PROVE MovedOK'
  <2>1. PublishDoes(m)
    BY <1>8, PublishEffect DEF Sound
  <2> QED
    BY <2>1, NullAssumption DEF PublishDoes, Others, At, Told, Fails, Gone,
       Enters, Wrote, Refuses, Expires, RunFails, Counts, Owns, rows, env,
       disk, local, Calm, Sound, TypeOK, MovedOK, LockOK, FreshOK, Locked,
       Building
<1>9. ASSUME NEW m \in Manager, Verify(m) PROVE MovedOK'
  <2>1. VerifyDoes(m)
    BY <1>9, VerifyEffect DEF Sound
  <2> QED
    BY <2>1, NullAssumption DEF VerifyDoes, Others, At, Told, Fails, Gone,
       Enters, Wrote, Refuses, Expires, RunFails, Counts, Owns, rows, env,
       disk, local, Calm, Sound, TypeOK, MovedOK, LockOK, FreshOK, Locked,
       Building
<1>10. ASSUME NEW m \in Manager, CommitPrepare(m) PROVE MovedOK'
  <2>1. CommitPrepareDoes(m)
    BY <1>10, CommitPrepareEffect DEF Sound
  <2> QED
    BY <2>1, NullAssumption DEF CommitPrepareDoes, Others, At, Told, Fails,
       Gone, Enters, Wrote, Refuses, Expires, RunFails, Counts, Owns, rows,
       env, disk, local, Calm, Sound, TypeOK, MovedOK, LockOK, FreshOK, Locked,
       Building
<1>11. ASSUME NEW m \in Manager, EnterInspect(m) PROVE MovedOK'
  <2>1. EnterInspectDoes(m)
    BY <1>11, EnterInspectEffect DEF Sound
  <2> QED
    BY <2>1, NullAssumption DEF EnterInspectDoes, Others, At, Told, Fails,
       Gone, Enters, Wrote, Refuses, Expires, RunFails, Counts, Owns, rows,
       env, disk, local, Calm, Sound, TypeOK, MovedOK, LockOK, FreshOK, Locked,
       Building
<1>12. ASSUME NEW m \in Manager, Inspect(m) PROVE MovedOK'
  <2>1. InspectDoes(m)
    BY <1>12, InspectEffect DEF Sound
  <2> QED
    BY <2>1, NullAssumption DEF InspectDoes, Others, At, Told, Fails, Gone,
       Enters, Wrote, Refuses, Expires, RunFails, Counts, Owns, rows, env,
       disk, local, Calm, Sound, TypeOK, MovedOK, LockOK, FreshOK, Locked,
       Building
<1>13. ASSUME NEW m \in Manager, CommitInspect(m) PROVE MovedOK'
  <2>1. CommitInspectDoes(m)
    BY <1>13, CommitInspectEffect DEF Sound
  <2> QED
    BY <2>1, NullAssumption DEF CommitInspectDoes, Others, At, Told, Fails,
       Gone, Enters, Wrote, Refuses, Expires, RunFails, Counts, Owns, rows,
       env, disk, local, Calm, Sound, TypeOK, MovedOK, LockOK, FreshOK, Locked,
       Building
<1>14. ASSUME NEW m \in Manager, SweepTrash(m) PROVE MovedOK'
  <2>1. SweepTrashDoes(m)
    BY <1>14, SweepTrashEffect DEF Sound
  <2> QED
    BY <2>1, NullAssumption DEF SweepTrashDoes, Others, At, Told, Fails,
       Gone, Enters, Wrote, Refuses, Expires, RunFails, Counts, Owns, rows,
       env, disk, local, Calm, Sound, TypeOK, MovedOK, LockOK, FreshOK, Locked,
       Building
<1>15. ASSUME NEW m \in Manager, EnterCleanup(m) PROVE MovedOK'
  <2>1. EnterCleanupDoes(m)
    BY <1>15, EnterCleanupEffect DEF Sound
  <2> QED
    BY <2>1, NullAssumption DEF EnterCleanupDoes, Others, At, Told, Fails,
       Gone, Enters, Wrote, Refuses, Expires, RunFails, Counts, Owns, rows,
       env, disk, local, Calm, Sound, TypeOK, MovedOK, LockOK, FreshOK, Locked,
       Building
<1>16. ASSUME NEW m \in Manager, MoveToTrash(m) PROVE MovedOK'
  <2>1. MoveToTrashDoes(m)
    BY <1>16, MoveToTrashEffect DEF Sound
  <2> QED
    BY <2>1, NullAssumption DEF MoveToTrashDoes, Others, At, Told, Fails,
       Gone, Enters, Wrote, Refuses, Expires, RunFails, Counts, Owns, rows,
       env, disk, local, Calm, Sound, TypeOK, MovedOK, LockOK, FreshOK, Locked,
       Building
<1>17. ASSUME NEW m \in Manager, Shred(m) PROVE MovedOK'
  <2>1. ShredDoes(m)
    BY <1>17, ShredEffect DEF Sound
  <2> QED
    BY <2>1, NullAssumption DEF ShredDoes, Others, At, Told, Fails, Gone,
       Enters, Wrote, Refuses, Expires, RunFails, Counts, Owns, rows, env,
       disk, local, Calm, Sound, TypeOK, MovedOK, LockOK, FreshOK, Locked,
       Building
<1>18. ASSUME NEW m \in Manager, CommitCleanup(m) PROVE MovedOK'
  <2>1. CommitCleanupDoes(m)
    BY <1>18, CommitCleanupEffect DEF Sound
  <2> QED
    BY <2>1, NullAssumption DEF CommitCleanupDoes, Others, At, Told, Fails,
       Gone, Enters, Wrote, Refuses, Expires, RunFails, Counts, Owns, rows,
       env, disk, local, Calm, Sound, TypeOK, MovedOK, LockOK, FreshOK, Locked,
       Building
<1>19. ASSUME NEW m \in Manager, MarkFailure(m) PROVE MovedOK'
  <2>1. MarkFailureDoes(m)
    BY <1>19, MarkFailureEffect DEF Sound
  <2> QED
    BY <2>1, NullAssumption DEF MarkFailureDoes, Others, At, Told, Fails,
       Gone, Enters, Wrote, Refuses, Expires, RunFails, Counts, Owns, rows,
       env, disk, local, Calm, Sound, TypeOK, MovedOK, LockOK, FreshOK, Locked,
       Building
<1>20. ASSUME NEW m \in Manager, Hiccup(m) PROVE MovedOK'
  <2>1. HiccupDoes(m)
    BY <1>20, HiccupEffect DEF Sound
  <2> QED
    BY <2>1, NullAssumption DEF HiccupDoes, Others, At, Told, Fails, Gone,
       Enters, Wrote, Refuses, Expires, RunFails, Counts, Owns, rows, env,
       disk, local, Calm, Sound, TypeOK, MovedOK, LockOK, FreshOK, Locked,
       Building
<1>21. ASSUME NEW m \in Manager, Crash(m) PROVE MovedOK'
  <2>1. CrashDoes(m)
    BY <1>21, CrashEffect DEF Sound
  <2> QED
    BY <2>1, NullAssumption DEF CrashDoes, Others, At, Told, Fails, Gone,
       Enters, Wrote, Refuses, Expires, RunFails, Counts, Owns, rows, env,
       disk, local, Calm, Sound, TypeOK, MovedOK, LockOK, FreshOK, Locked,
       Building
<1>22. ASSUME LeaseExpires PROVE MovedOK'
  <2>1. LeaseDoes
    BY <1>22, LeaseExpiresEffect DEF Sound
  <2> QED
    BY <2>1, NullAssumption DEF LeaseDoes, Others, At, Told, Fails, Gone,
       Enters, Wrote, Refuses, Expires, RunFails, Counts, Owns, rows, env,
       disk, local, Calm, Sound, TypeOK, MovedOK, LockOK, FreshOK, Locked,
       Building
<1>23. ASSUME AbortPreparing PROVE MovedOK'
  <2>1. AbortDoes
    BY <1>23, AbortPreparingEffect DEF Sound
  <2> QED
    BY <2>1, NullAssumption DEF AbortDoes, Others, At, Told, Fails, Gone,
       Enters, Wrote, Refuses, Expires, RunFails, Counts, Owns, rows, env,
       disk, local, Calm, Sound, TypeOK, MovedOK, LockOK, FreshOK, Locked,
       Building
<1>24. ASSUME RequestCleanup PROVE MovedOK'
  <2>1. RequestCleanupDoes
    BY <1>24, RequestCleanupEffect DEF Sound
  <2> QED
    BY <2>1, NullAssumption DEF RequestCleanupDoes, Others, At, Told, Fails,
       Gone, Enters, Wrote, Refuses, Expires, RunFails, Counts, Owns, rows,
       env, disk, local, Calm, Sound, TypeOK, MovedOK, LockOK, FreshOK, Locked,
       Building
<1>25. ASSUME StartRun PROVE MovedOK'
  BY <1>25, NullAssumption DEF StartRun, rows, env, disk, local, Calm,
     Sound, TypeOK, MovedOK, LockOK, FreshOK, Locked, Building
<1>26. ASSUME NEW status \in Terminal, EndRun(status) PROVE MovedOK'
  <2>1. EndRunDoes
    BY <1>26, EndRunEffect DEF Sound
  <2> QED
    BY <2>1, NullAssumption DEF EndRunDoes, Others, At, Told, Fails, Gone,
       Enters, Wrote, Refuses, Expires, RunFails, Counts, Owns, rows, env,
       disk, local, Calm, Sound, TypeOK, MovedOK, LockOK, FreshOK, Locked,
       Building
<1>27. ASSUME RejectBinding PROVE MovedOK'
  <2>1. RejectDoes
    BY <1>27, RejectBindingEffect DEF Sound
  <2> QED
    BY <2>1, NullAssumption DEF RejectDoes, Others, At, Told, Fails, Gone,
       Enters, Wrote, Refuses, Expires, RunFails, Counts, Owns, rows, env,
       disk, local, Calm, Sound, TypeOK, MovedOK, LockOK, FreshOK, Locked,
       Building
<1>28. ASSUME AgentEdits PROVE MovedOK'
  BY <1>28, NullAssumption DEF AgentEdits, rows, env, disk, local, Calm,
     Sound, TypeOK, MovedOK, LockOK, FreshOK, Locked, Building
<1>29. ASSUME DeadlinePasses PROVE MovedOK'
  BY <1>29, NullAssumption DEF DeadlinePasses, rows, env, disk, local, Calm,
     Sound, TypeOK, MovedOK, LockOK, FreshOK, Locked, Building
<1>30. ASSUME TrustChanges PROVE MovedOK'
  BY <1>30, NullAssumption DEF TrustChanges, rows, env, disk, local, Calm,
     Sound, TypeOK, MovedOK, LockOK, FreshOK, Locked, Building
<1>31. ASSUME Unbind PROVE MovedOK'
  BY <1>31, NullAssumption DEF Unbind, rows, env, disk, local, Calm, Sound,
     TypeOK, MovedOK, LockOK, FreshOK, Locked, Building
<1>32. ASSUME Tamper PROVE MovedOK'
  BY <1>32, NullAssumption DEF Tamper, rows, env, disk, local, Calm, Sound,
     TypeOK, MovedOK, LockOK, FreshOK, Locked, Building
<1>33. ASSUME UNCHANGED vars PROVE MovedOK'
  BY <1>33, NullAssumption DEF vars, rows, env, disk, local, Calm, Sound,
     TypeOK, MovedOK, LockOK, FreshOK, Locked, Building
<1> QED
  BY <1>1, <1>2, <1>3, <1>4, <1>5, <1>6, <1>7, <1>8, <1>9, <1>10, <1>11,
     <1>12, <1>13, <1>14, <1>15, <1>16, <1>17, <1>18, <1>19, <1>20, <1>21,
     <1>22, <1>23, <1>24, <1>25, <1>26, <1>27, <1>28, <1>29, <1>30, <1>31,
     <1>32, <1>33 DEF Next, Work, Lanes

\* The directory stands still while the promise is offered, closed, refused or kept.
PhaseMoves ==
  \/ Phase' = Phase
  \/ /\ UNCHANGED <<final, trash>>
     /\ \/ Phase = "making" /\ Phase' = "usable" /\ final \in {"clean", "broken", "unreadable"}
        \/ Phase \in {"making", "usable"} /\ Phase' = "closing"
        \/ Phase \in {"making", "usable", "closing"} /\ Phase' = "refused"
        \/ Phase = "closing" /\ Phase' = "removed" /\ final = "none" /\ trash = "none"

\* A directory is built, edited, damaged, set aside or discarded while the phase stays.
TreeMoves ==
  \/ UNCHANGED <<final, trash>>
  \/ /\ Phase' = Phase
     /\ \/ /\ final = "none" /\ final' = "clean" /\ trash' = trash
           /\ Phase \notin {"usable", "removed"}
        \/ final = "clean" /\ final' \in {"broken", "unreadable"} /\ trash' = trash
        \/ /\ final = "clean" /\ final' = "changed" /\ trash' = trash
           /\ Phase \in {"usable", "closing", "refused"}
        \/ final \in {"clean", "broken", "unreadable"} /\ final' = "none" /\ trash' = final
        \/ /\ final \in {"clean", "broken", "unreadable"} /\ final' = "none" /\ trash' = trash
           /\ Phase \notin {"usable", "removed"}
        \/ /\ final = "none" /\ final' = "none" /\ trash' = "none"
           /\ trash = "none" \/ Phase \notin {"usable", "removed"}

\* How a step moves the phase.
LEMMA PhaseStep ==
  ASSUME Sound, [Next]_vars PROVE PhaseMoves
<1>1. ASSUME NEW m \in Manager, Claim(m) PROVE PhaseMoves
  <2>1. ClaimDoes(m)
    BY <1>1, ClaimEffect DEF Sound
  <2> QED
    BY <2>1 DEF ClaimDoes, Others, At, Told, Fails, Gone, Enters, Wrote,
       Refuses, Expires, RunFails, Counts, Owns, rows, env, disk, local,
       PhaseMoves, Sound, TypeOK, JobOK, Fits, TreeOK, RunOK, PhasesAgree,
       Terminal, PrepareQueue, Does, Phase, Preparing, Queue, Working, Settled,
       Row
<1>2. ASSUME NEW m \in Manager, Start(m) PROVE PhaseMoves
  <2>1. StartDoes(m)
    BY <1>2, StartEffect DEF Sound
  <2> QED
    BY <2>1 DEF StartDoes, Others, At, Told, Fails, Gone, Enters, Wrote,
       Refuses, Expires, RunFails, Counts, Owns, rows, env, disk, local,
       PhaseMoves, Sound, TypeOK, JobOK, Fits, TreeOK, RunOK, PhasesAgree,
       Terminal, PrepareQueue, Does, Phase, Preparing, Queue, Working, Settled,
       Row
<1>3. ASSUME NEW m \in Manager, Busy(m) PROVE PhaseMoves
  <2>1. BusyDoes(m)
    BY <1>3, BusyEffect DEF Sound
  <2> QED
    BY <2>1 DEF BusyDoes, Others, At, Told, Fails, Gone, Enters, Wrote,
       Refuses, Expires, RunFails, Counts, Owns, rows, env, disk, local,
       PhaseMoves, Sound, TypeOK, JobOK, Fits, TreeOK, RunOK, PhasesAgree,
       Terminal, PrepareQueue, Does, Phase, Preparing, Queue, Working, Settled,
       Row
<1>4. ASSUME NEW m \in Manager, Recover(m) PROVE PhaseMoves
  <2>1. RecoverDoes(m)
    BY <1>4, RecoverEffect DEF Sound
  <2> QED
    BY <2>1 DEF RecoverDoes, Others, At, Told, Fails, Gone, Enters, Wrote,
       Refuses, Expires, RunFails, Counts, Owns, rows, env, disk, local,
       PhaseMoves, Sound, TypeOK, JobOK, Fits, TreeOK, RunOK, PhasesAgree,
       Terminal, PrepareQueue, Does, Phase, Preparing, Queue, Working, Settled,
       Row
<1>5. ASSUME NEW m \in Manager, PreflightTree(m) PROVE PhaseMoves
  <2>1. PreflightDoes(m)
    BY <1>5, PreflightTreeEffect DEF Sound
  <2> QED
    BY <2>1 DEF PreflightDoes, Others, At, Told, Fails, Gone, Enters, Wrote,
       Refuses, Expires, RunFails, Counts, Owns, rows, env, disk, local,
       PhaseMoves, Sound, TypeOK, JobOK, Fits, TreeOK, RunOK, PhasesAgree,
       Terminal, PrepareQueue, Does, Phase, Preparing, Queue, Working, Settled,
       Row
<1>6. ASSUME NEW m \in Manager, MakeStaging(m) PROVE PhaseMoves
  <2>1. MakeStagingDoes(m)
    BY <1>6, MakeStagingEffect DEF Sound
  <2> QED
    BY <2>1 DEF MakeStagingDoes, Others, At, Told, Fails, Gone, Enters,
       Wrote, Refuses, Expires, RunFails, Counts, Owns, rows, env, disk, local,
       PhaseMoves, Sound, TypeOK, JobOK, Fits, TreeOK, RunOK, PhasesAgree,
       Terminal, PrepareQueue, Does, Phase, Preparing, Queue, Working, Settled,
       Row
<1>7. ASSUME NEW m \in Manager, Checkout(m) PROVE PhaseMoves
  <2>1. CheckoutDoes(m)
    BY <1>7, CheckoutEffect DEF Sound
  <2> QED
    BY <2>1 DEF CheckoutDoes, Others, At, Told, Fails, Gone, Enters, Wrote,
       Refuses, Expires, RunFails, Counts, Owns, rows, env, disk, local,
       PhaseMoves, Sound, TypeOK, JobOK, Fits, TreeOK, RunOK, PhasesAgree,
       Terminal, PrepareQueue, Does, Phase, Preparing, Queue, Working, Settled,
       Row
<1>8. ASSUME NEW m \in Manager, Publish(m) PROVE PhaseMoves
  <2>1. PublishDoes(m)
    BY <1>8, PublishEffect DEF Sound
  <2> QED
    BY <2>1 DEF PublishDoes, Others, At, Told, Fails, Gone, Enters, Wrote,
       Refuses, Expires, RunFails, Counts, Owns, rows, env, disk, local,
       PhaseMoves, Sound, TypeOK, JobOK, Fits, TreeOK, RunOK, PhasesAgree,
       Terminal, PrepareQueue, Does, Phase, Preparing, Queue, Working, Settled,
       Row
<1>9. ASSUME NEW m \in Manager, Verify(m) PROVE PhaseMoves
  <2>1. VerifyDoes(m)
    BY <1>9, VerifyEffect DEF Sound
  <2> QED
    BY <2>1 DEF VerifyDoes, Others, At, Told, Fails, Gone, Enters, Wrote,
       Refuses, Expires, RunFails, Counts, Owns, rows, env, disk, local,
       PhaseMoves, Sound, TypeOK, JobOK, Fits, TreeOK, RunOK, PhasesAgree,
       Terminal, PrepareQueue, Does, Phase, Preparing, Queue, Working, Settled,
       Row
<1>10. ASSUME NEW m \in Manager, CommitPrepare(m) PROVE PhaseMoves
  <2>1. CommitPrepareDoes(m)
    BY <1>10, CommitPrepareEffect DEF Sound
  <2> QED
    BY <2>1 DEF CommitPrepareDoes, Others, At, Told, Fails, Gone, Enters,
       Wrote, Refuses, Expires, RunFails, Counts, Owns, rows, env, disk, local,
       PhaseMoves, Sound, TypeOK, JobOK, Fits, TreeOK, RunOK, PhasesAgree,
       Terminal, PrepareQueue, Does, Phase, Preparing, Queue, Working, Settled,
       Row
<1>11. ASSUME NEW m \in Manager, EnterInspect(m) PROVE PhaseMoves
  <2>1. EnterInspectDoes(m)
    BY <1>11, EnterInspectEffect DEF Sound
  <2> QED
    BY <2>1 DEF EnterInspectDoes, Others, At, Told, Fails, Gone, Enters,
       Wrote, Refuses, Expires, RunFails, Counts, Owns, rows, env, disk, local,
       PhaseMoves, Sound, TypeOK, JobOK, Fits, TreeOK, RunOK, PhasesAgree,
       Terminal, PrepareQueue, Does, Phase, Preparing, Queue, Working, Settled,
       Row
<1>12. ASSUME NEW m \in Manager, Inspect(m) PROVE PhaseMoves
  <2>1. InspectDoes(m)
    BY <1>12, InspectEffect DEF Sound
  <2> QED
    BY <2>1 DEF InspectDoes, Others, At, Told, Fails, Gone, Enters, Wrote,
       Refuses, Expires, RunFails, Counts, Owns, rows, env, disk, local,
       PhaseMoves, Sound, TypeOK, JobOK, Fits, TreeOK, RunOK, PhasesAgree,
       Terminal, PrepareQueue, Does, Phase, Preparing, Queue, Working, Settled,
       Row
<1>13. ASSUME NEW m \in Manager, CommitInspect(m) PROVE PhaseMoves
  <2>1. CommitInspectDoes(m)
    BY <1>13, CommitInspectEffect DEF Sound
  <2> QED
    BY <2>1 DEF CommitInspectDoes, Others, At, Told, Fails, Gone, Enters,
       Wrote, Refuses, Expires, RunFails, Counts, Owns, rows, env, disk, local,
       PhaseMoves, Sound, TypeOK, JobOK, Fits, TreeOK, RunOK, PhasesAgree,
       Terminal, PrepareQueue, Does, Phase, Preparing, Queue, Working, Settled,
       Row
<1>14. ASSUME NEW m \in Manager, SweepTrash(m) PROVE PhaseMoves
  <2>1. SweepTrashDoes(m)
    BY <1>14, SweepTrashEffect DEF Sound
  <2> QED
    BY <2>1 DEF SweepTrashDoes, Others, At, Told, Fails, Gone, Enters,
       Wrote, Refuses, Expires, RunFails, Counts, Owns, rows, env, disk, local,
       PhaseMoves, Sound, TypeOK, JobOK, Fits, TreeOK, RunOK, PhasesAgree,
       Terminal, PrepareQueue, Does, Phase, Preparing, Queue, Working, Settled,
       Row
<1>15. ASSUME NEW m \in Manager, EnterCleanup(m) PROVE PhaseMoves
  <2>1. EnterCleanupDoes(m)
    BY <1>15, EnterCleanupEffect DEF Sound
  <2> QED
    BY <2>1 DEF EnterCleanupDoes, Others, At, Told, Fails, Gone, Enters,
       Wrote, Refuses, Expires, RunFails, Counts, Owns, rows, env, disk, local,
       PhaseMoves, Sound, TypeOK, JobOK, Fits, TreeOK, RunOK, PhasesAgree,
       Terminal, PrepareQueue, Does, Phase, Preparing, Queue, Working, Settled,
       Row
<1>16. ASSUME NEW m \in Manager, MoveToTrash(m) PROVE PhaseMoves
  <2>1. MoveToTrashDoes(m)
    BY <1>16, MoveToTrashEffect DEF Sound
  <2> QED
    BY <2>1 DEF MoveToTrashDoes, Others, At, Told, Fails, Gone, Enters,
       Wrote, Refuses, Expires, RunFails, Counts, Owns, rows, env, disk, local,
       PhaseMoves, Sound, TypeOK, JobOK, Fits, TreeOK, RunOK, PhasesAgree,
       Terminal, PrepareQueue, Does, Phase, Preparing, Queue, Working, Settled,
       Row
<1>17. ASSUME NEW m \in Manager, Shred(m) PROVE PhaseMoves
  <2>1. ShredDoes(m)
    BY <1>17, ShredEffect DEF Sound
  <2> QED
    BY <2>1 DEF ShredDoes, Others, At, Told, Fails, Gone, Enters, Wrote,
       Refuses, Expires, RunFails, Counts, Owns, rows, env, disk, local,
       PhaseMoves, Sound, TypeOK, JobOK, Fits, TreeOK, RunOK, PhasesAgree,
       Terminal, PrepareQueue, Does, Phase, Preparing, Queue, Working, Settled,
       Row
<1>18. ASSUME NEW m \in Manager, CommitCleanup(m) PROVE PhaseMoves
  <2>1. CommitCleanupDoes(m)
    BY <1>18, CommitCleanupEffect DEF Sound
  <2> QED
    BY <2>1 DEF CommitCleanupDoes, Others, At, Told, Fails, Gone, Enters,
       Wrote, Refuses, Expires, RunFails, Counts, Owns, rows, env, disk, local,
       PhaseMoves, Sound, TypeOK, JobOK, Fits, TreeOK, RunOK, PhasesAgree,
       Terminal, PrepareQueue, Does, Phase, Preparing, Queue, Working, Settled,
       Row
<1>19. ASSUME NEW m \in Manager, MarkFailure(m) PROVE PhaseMoves
  <2>1. MarkFailureDoes(m)
    BY <1>19, MarkFailureEffect DEF Sound
  <2> QED
    BY <2>1 DEF MarkFailureDoes, Others, At, Told, Fails, Gone, Enters,
       Wrote, Refuses, Expires, RunFails, Counts, Owns, rows, env, disk, local,
       PhaseMoves, Sound, TypeOK, JobOK, Fits, TreeOK, RunOK, PhasesAgree,
       Terminal, PrepareQueue, Does, Phase, Preparing, Queue, Working, Settled,
       Row
<1>20. ASSUME NEW m \in Manager, Hiccup(m) PROVE PhaseMoves
  <2>1. HiccupDoes(m)
    BY <1>20, HiccupEffect DEF Sound
  <2> QED
    BY <2>1 DEF HiccupDoes, Others, At, Told, Fails, Gone, Enters, Wrote,
       Refuses, Expires, RunFails, Counts, Owns, rows, env, disk, local,
       PhaseMoves, Sound, TypeOK, JobOK, Fits, TreeOK, RunOK, PhasesAgree,
       Terminal, PrepareQueue, Does, Phase, Preparing, Queue, Working, Settled,
       Row
<1>21. ASSUME NEW m \in Manager, Crash(m) PROVE PhaseMoves
  <2>1. CrashDoes(m)
    BY <1>21, CrashEffect DEF Sound
  <2> QED
    BY <2>1 DEF CrashDoes, Others, At, Told, Fails, Gone, Enters, Wrote,
       Refuses, Expires, RunFails, Counts, Owns, rows, env, disk, local,
       PhaseMoves, Sound, TypeOK, JobOK, Fits, TreeOK, RunOK, PhasesAgree,
       Terminal, PrepareQueue, Does, Phase, Preparing, Queue, Working, Settled,
       Row
<1>22. ASSUME LeaseExpires PROVE PhaseMoves
  <2>1. LeaseDoes
    BY <1>22, LeaseExpiresEffect DEF Sound
  <2> QED
    BY <2>1 DEF LeaseDoes, Others, At, Told, Fails, Gone, Enters, Wrote,
       Refuses, Expires, RunFails, Counts, Owns, rows, env, disk, local,
       PhaseMoves, Sound, TypeOK, JobOK, Fits, TreeOK, RunOK, PhasesAgree,
       Terminal, PrepareQueue, Does, Phase, Preparing, Queue, Working, Settled,
       Row
<1>23. ASSUME AbortPreparing PROVE PhaseMoves
  <2>1. AbortDoes
    BY <1>23, AbortPreparingEffect DEF Sound
  <2> QED
    BY <2>1 DEF AbortDoes, Others, At, Told, Fails, Gone, Enters, Wrote,
       Refuses, Expires, RunFails, Counts, Owns, rows, env, disk, local,
       PhaseMoves, Sound, TypeOK, JobOK, Fits, TreeOK, RunOK, PhasesAgree,
       Terminal, PrepareQueue, Does, Phase, Preparing, Queue, Working, Settled,
       Row
<1>24. ASSUME RequestCleanup PROVE PhaseMoves
  <2>1. RequestCleanupDoes
    BY <1>24, RequestCleanupEffect DEF Sound
  <2> QED
    BY <2>1 DEF RequestCleanupDoes, Others, At, Told, Fails, Gone, Enters,
       Wrote, Refuses, Expires, RunFails, Counts, Owns, rows, env, disk, local,
       PhaseMoves, Sound, TypeOK, JobOK, Fits, TreeOK, RunOK, PhasesAgree,
       Terminal, PrepareQueue, Does, Phase, Preparing, Queue, Working, Settled,
       Row
<1>25. ASSUME StartRun PROVE PhaseMoves
  BY <1>25 DEF StartRun, rows, env, disk, local, PhaseMoves, Sound, TypeOK,
     JobOK, Fits, TreeOK, RunOK, PhasesAgree, Terminal, PrepareQueue, Does,
     Phase, Preparing, Queue, Working, Settled, Row
<1>26. ASSUME NEW status \in Terminal, EndRun(status) PROVE PhaseMoves
  <2>1. EndRunDoes
    BY <1>26, EndRunEffect DEF Sound
  <2> QED
    BY <2>1 DEF EndRunDoes, Others, At, Told, Fails, Gone, Enters, Wrote,
       Refuses, Expires, RunFails, Counts, Owns, rows, env, disk, local,
       PhaseMoves, Sound, TypeOK, JobOK, Fits, TreeOK, RunOK, PhasesAgree,
       Terminal, PrepareQueue, Does, Phase, Preparing, Queue, Working, Settled,
       Row
<1>27. ASSUME RejectBinding PROVE PhaseMoves
  <2>1. RejectDoes
    BY <1>27, RejectBindingEffect DEF Sound
  <2> QED
    BY <2>1 DEF RejectDoes, Others, At, Told, Fails, Gone, Enters, Wrote,
       Refuses, Expires, RunFails, Counts, Owns, rows, env, disk, local,
       PhaseMoves, Sound, TypeOK, JobOK, Fits, TreeOK, RunOK, PhasesAgree,
       Terminal, PrepareQueue, Does, Phase, Preparing, Queue, Working, Settled,
       Row
<1>28. ASSUME AgentEdits PROVE PhaseMoves
  BY <1>28 DEF AgentEdits, rows, env, disk, local, PhaseMoves, Sound,
     TypeOK, JobOK, Fits, TreeOK, RunOK, PhasesAgree, Terminal, PrepareQueue,
     Does, Phase, Preparing, Queue, Working, Settled, Row
<1>29. ASSUME DeadlinePasses PROVE PhaseMoves
  BY <1>29 DEF DeadlinePasses, rows, env, disk, local, PhaseMoves, Sound,
     TypeOK, JobOK, Fits, TreeOK, RunOK, PhasesAgree, Terminal, PrepareQueue,
     Does, Phase, Preparing, Queue, Working, Settled, Row
<1>30. ASSUME TrustChanges PROVE PhaseMoves
  BY <1>30 DEF TrustChanges, rows, env, disk, local, PhaseMoves, Sound,
     TypeOK, JobOK, Fits, TreeOK, RunOK, PhasesAgree, Terminal, PrepareQueue,
     Does, Phase, Preparing, Queue, Working, Settled, Row
<1>31. ASSUME Unbind PROVE PhaseMoves
  BY <1>31 DEF Unbind, rows, env, disk, local, PhaseMoves, Sound, TypeOK,
     JobOK, Fits, TreeOK, RunOK, PhasesAgree, Terminal, PrepareQueue, Does,
     Phase, Preparing, Queue, Working, Settled, Row
<1>32. ASSUME Tamper PROVE PhaseMoves
  BY <1>32 DEF Tamper, rows, env, disk, local, PhaseMoves, Sound, TypeOK,
     JobOK, Fits, TreeOK, RunOK, PhasesAgree, Terminal, PrepareQueue, Does,
     Phase, Preparing, Queue, Working, Settled, Row
<1>33. ASSUME UNCHANGED vars PROVE PhaseMoves
  BY <1>33 DEF vars, rows, env, disk, local, PhaseMoves, Sound, TypeOK,
     JobOK, Fits, TreeOK, RunOK, PhasesAgree, Terminal, PrepareQueue, Does,
     Phase, Preparing, Queue, Working, Settled, Row
<1> QED
  BY <1>1, <1>2, <1>3, <1>4, <1>5, <1>6, <1>7, <1>8, <1>9, <1>10, <1>11,
     <1>12, <1>13, <1>14, <1>15, <1>16, <1>17, <1>18, <1>19, <1>20, <1>21,
     <1>22, <1>23, <1>24, <1>25, <1>26, <1>27, <1>28, <1>29, <1>30, <1>31,
     <1>32, <1>33 DEF Next, Work, Lanes

\* How a step moves the directory.
LEMMA DirectoryStep ==
  ASSUME Sound, MovedOK, [Next]_vars PROVE TreeMoves
<1>1. ASSUME NEW m \in Manager, Claim(m) PROVE TreeMoves
  <2>1. ClaimDoes(m)
    BY <1>1, ClaimEffect DEF Sound
  <2> QED
    BY <2>1, NullAssumption DEF ClaimDoes, Others, At, Told, Fails, Gone,
       Enters, Wrote, Refuses, Expires, RunFails, Counts, Owns, rows, env,
       disk, local, TreeMoves, MovedOK, LockOK, FreshOK, Locked, Building,
       Sound, TypeOK, JobOK, Fits, TreeOK, RunOK, PhasesAgree, Terminal,
       PrepareQueue, Does, Phase, Preparing, Queue, Working, Settled, Row
<1>2. ASSUME NEW m \in Manager, Start(m) PROVE TreeMoves
  <2>1. StartDoes(m)
    BY <1>2, StartEffect DEF Sound
  <2> QED
    BY <2>1, NullAssumption DEF StartDoes, Others, At, Told, Fails, Gone,
       Enters, Wrote, Refuses, Expires, RunFails, Counts, Owns, rows, env,
       disk, local, TreeMoves, MovedOK, LockOK, FreshOK, Locked, Building,
       Sound, TypeOK, JobOK, Fits, TreeOK, RunOK, PhasesAgree, Terminal,
       PrepareQueue, Does, Phase, Preparing, Queue, Working, Settled, Row
<1>3. ASSUME NEW m \in Manager, Busy(m) PROVE TreeMoves
  <2>1. BusyDoes(m)
    BY <1>3, BusyEffect DEF Sound
  <2> QED
    BY <2>1, NullAssumption DEF BusyDoes, Others, At, Told, Fails, Gone,
       Enters, Wrote, Refuses, Expires, RunFails, Counts, Owns, rows, env,
       disk, local, TreeMoves, MovedOK, LockOK, FreshOK, Locked, Building,
       Sound, TypeOK, JobOK, Fits, TreeOK, RunOK, PhasesAgree, Terminal,
       PrepareQueue, Does, Phase, Preparing, Queue, Working, Settled, Row
<1>4. ASSUME NEW m \in Manager, Recover(m) PROVE TreeMoves
  <2>1. RecoverDoes(m)
    BY <1>4, RecoverEffect DEF Sound
  <2> QED
    BY <2>1, NullAssumption DEF RecoverDoes, Others, At, Told, Fails, Gone,
       Enters, Wrote, Refuses, Expires, RunFails, Counts, Owns, rows, env,
       disk, local, TreeMoves, MovedOK, LockOK, FreshOK, Locked, Building,
       Sound, TypeOK, JobOK, Fits, TreeOK, RunOK, PhasesAgree, Terminal,
       PrepareQueue, Does, Phase, Preparing, Queue, Working, Settled, Row
<1>5. ASSUME NEW m \in Manager, PreflightTree(m) PROVE TreeMoves
  <2>1. PreflightDoes(m)
    BY <1>5, PreflightTreeEffect DEF Sound
  <2> QED
    BY <2>1, NullAssumption DEF PreflightDoes, Others, At, Told, Fails,
       Gone, Enters, Wrote, Refuses, Expires, RunFails, Counts, Owns, rows,
       env, disk, local, TreeMoves, MovedOK, LockOK, FreshOK, Locked, Building,
       Sound, TypeOK, JobOK, Fits, TreeOK, RunOK, PhasesAgree, Terminal,
       PrepareQueue, Does, Phase, Preparing, Queue, Working, Settled, Row
<1>6. ASSUME NEW m \in Manager, MakeStaging(m) PROVE TreeMoves
  <2>1. MakeStagingDoes(m)
    BY <1>6, MakeStagingEffect DEF Sound
  <2> QED
    BY <2>1, NullAssumption DEF MakeStagingDoes, Others, At, Told, Fails,
       Gone, Enters, Wrote, Refuses, Expires, RunFails, Counts, Owns, rows,
       env, disk, local, TreeMoves, MovedOK, LockOK, FreshOK, Locked, Building,
       Sound, TypeOK, JobOK, Fits, TreeOK, RunOK, PhasesAgree, Terminal,
       PrepareQueue, Does, Phase, Preparing, Queue, Working, Settled, Row
<1>7. ASSUME NEW m \in Manager, Checkout(m) PROVE TreeMoves
  <2>1. CheckoutDoes(m)
    BY <1>7, CheckoutEffect DEF Sound
  <2> QED
    BY <2>1, NullAssumption DEF CheckoutDoes, Others, At, Told, Fails, Gone,
       Enters, Wrote, Refuses, Expires, RunFails, Counts, Owns, rows, env,
       disk, local, TreeMoves, MovedOK, LockOK, FreshOK, Locked, Building,
       Sound, TypeOK, JobOK, Fits, TreeOK, RunOK, PhasesAgree, Terminal,
       PrepareQueue, Does, Phase, Preparing, Queue, Working, Settled, Row
<1>8. ASSUME NEW m \in Manager, Publish(m) PROVE TreeMoves
  <2>1. PublishDoes(m)
    BY <1>8, PublishEffect DEF Sound
  <2> QED
    BY <2>1, NullAssumption DEF PublishDoes, Others, At, Told, Fails, Gone,
       Enters, Wrote, Refuses, Expires, RunFails, Counts, Owns, rows, env,
       disk, local, TreeMoves, MovedOK, LockOK, FreshOK, Locked, Building,
       Sound, TypeOK, JobOK, Fits, TreeOK, RunOK, PhasesAgree, Terminal,
       PrepareQueue, Does, Phase, Preparing, Queue, Working, Settled, Row
<1>9. ASSUME NEW m \in Manager, Verify(m) PROVE TreeMoves
  <2>1. VerifyDoes(m)
    BY <1>9, VerifyEffect DEF Sound
  <2> QED
    BY <2>1, NullAssumption DEF VerifyDoes, Others, At, Told, Fails, Gone,
       Enters, Wrote, Refuses, Expires, RunFails, Counts, Owns, rows, env,
       disk, local, TreeMoves, MovedOK, LockOK, FreshOK, Locked, Building,
       Sound, TypeOK, JobOK, Fits, TreeOK, RunOK, PhasesAgree, Terminal,
       PrepareQueue, Does, Phase, Preparing, Queue, Working, Settled, Row
<1>10. ASSUME NEW m \in Manager, CommitPrepare(m) PROVE TreeMoves
  <2>1. CommitPrepareDoes(m)
    BY <1>10, CommitPrepareEffect DEF Sound
  <2> QED
    BY <2>1, NullAssumption DEF CommitPrepareDoes, Others, At, Told, Fails,
       Gone, Enters, Wrote, Refuses, Expires, RunFails, Counts, Owns, rows,
       env, disk, local, TreeMoves, MovedOK, LockOK, FreshOK, Locked, Building,
       Sound, TypeOK, JobOK, Fits, TreeOK, RunOK, PhasesAgree, Terminal,
       PrepareQueue, Does, Phase, Preparing, Queue, Working, Settled, Row
<1>11. ASSUME NEW m \in Manager, EnterInspect(m) PROVE TreeMoves
  <2>1. EnterInspectDoes(m)
    BY <1>11, EnterInspectEffect DEF Sound
  <2> QED
    BY <2>1, NullAssumption DEF EnterInspectDoes, Others, At, Told, Fails,
       Gone, Enters, Wrote, Refuses, Expires, RunFails, Counts, Owns, rows,
       env, disk, local, TreeMoves, MovedOK, LockOK, FreshOK, Locked, Building,
       Sound, TypeOK, JobOK, Fits, TreeOK, RunOK, PhasesAgree, Terminal,
       PrepareQueue, Does, Phase, Preparing, Queue, Working, Settled, Row
<1>12. ASSUME NEW m \in Manager, Inspect(m) PROVE TreeMoves
  <2>1. InspectDoes(m)
    BY <1>12, InspectEffect DEF Sound
  <2> QED
    BY <2>1, NullAssumption DEF InspectDoes, Others, At, Told, Fails, Gone,
       Enters, Wrote, Refuses, Expires, RunFails, Counts, Owns, rows, env,
       disk, local, TreeMoves, MovedOK, LockOK, FreshOK, Locked, Building,
       Sound, TypeOK, JobOK, Fits, TreeOK, RunOK, PhasesAgree, Terminal,
       PrepareQueue, Does, Phase, Preparing, Queue, Working, Settled, Row
<1>13. ASSUME NEW m \in Manager, CommitInspect(m) PROVE TreeMoves
  <2>1. CommitInspectDoes(m)
    BY <1>13, CommitInspectEffect DEF Sound
  <2> QED
    BY <2>1, NullAssumption DEF CommitInspectDoes, Others, At, Told, Fails,
       Gone, Enters, Wrote, Refuses, Expires, RunFails, Counts, Owns, rows,
       env, disk, local, TreeMoves, MovedOK, LockOK, FreshOK, Locked, Building,
       Sound, TypeOK, JobOK, Fits, TreeOK, RunOK, PhasesAgree, Terminal,
       PrepareQueue, Does, Phase, Preparing, Queue, Working, Settled, Row
<1>14. ASSUME NEW m \in Manager, SweepTrash(m) PROVE TreeMoves
  <2>1. SweepTrashDoes(m)
    BY <1>14, SweepTrashEffect DEF Sound
  <2> QED
    BY <2>1, NullAssumption DEF SweepTrashDoes, Others, At, Told, Fails,
       Gone, Enters, Wrote, Refuses, Expires, RunFails, Counts, Owns, rows,
       env, disk, local, TreeMoves, MovedOK, LockOK, FreshOK, Locked, Building,
       Sound, TypeOK, JobOK, Fits, TreeOK, RunOK, PhasesAgree, Terminal,
       PrepareQueue, Does, Phase, Preparing, Queue, Working, Settled, Row
<1>15. ASSUME NEW m \in Manager, EnterCleanup(m) PROVE TreeMoves
  <2>1. EnterCleanupDoes(m)
    BY <1>15, EnterCleanupEffect DEF Sound
  <2> QED
    BY <2>1, NullAssumption DEF EnterCleanupDoes, Others, At, Told, Fails,
       Gone, Enters, Wrote, Refuses, Expires, RunFails, Counts, Owns, rows,
       env, disk, local, TreeMoves, MovedOK, LockOK, FreshOK, Locked, Building,
       Sound, TypeOK, JobOK, Fits, TreeOK, RunOK, PhasesAgree, Terminal,
       PrepareQueue, Does, Phase, Preparing, Queue, Working, Settled, Row
<1>16. ASSUME NEW m \in Manager, MoveToTrash(m) PROVE TreeMoves
  <2>1. MoveToTrashDoes(m)
    BY <1>16, MoveToTrashEffect DEF Sound
  <2> QED
    BY <2>1, NullAssumption DEF MoveToTrashDoes, Others, At, Told, Fails,
       Gone, Enters, Wrote, Refuses, Expires, RunFails, Counts, Owns, rows,
       env, disk, local, TreeMoves, MovedOK, LockOK, FreshOK, Locked, Building,
       Sound, TypeOK, JobOK, Fits, TreeOK, RunOK, PhasesAgree, Terminal,
       PrepareQueue, Does, Phase, Preparing, Queue, Working, Settled, Row
<1>17. ASSUME NEW m \in Manager, Shred(m) PROVE TreeMoves
  <2>1. ShredDoes(m)
    BY <1>17, ShredEffect DEF Sound
  <2> QED
    BY <2>1, NullAssumption DEF ShredDoes, Others, At, Told, Fails, Gone,
       Enters, Wrote, Refuses, Expires, RunFails, Counts, Owns, rows, env,
       disk, local, TreeMoves, MovedOK, LockOK, FreshOK, Locked, Building,
       Sound, TypeOK, JobOK, Fits, TreeOK, RunOK, PhasesAgree, Terminal,
       PrepareQueue, Does, Phase, Preparing, Queue, Working, Settled, Row
<1>18. ASSUME NEW m \in Manager, CommitCleanup(m) PROVE TreeMoves
  <2>1. CommitCleanupDoes(m)
    BY <1>18, CommitCleanupEffect DEF Sound
  <2> QED
    BY <2>1, NullAssumption DEF CommitCleanupDoes, Others, At, Told, Fails,
       Gone, Enters, Wrote, Refuses, Expires, RunFails, Counts, Owns, rows,
       env, disk, local, TreeMoves, MovedOK, LockOK, FreshOK, Locked, Building,
       Sound, TypeOK, JobOK, Fits, TreeOK, RunOK, PhasesAgree, Terminal,
       PrepareQueue, Does, Phase, Preparing, Queue, Working, Settled, Row
<1>19. ASSUME NEW m \in Manager, MarkFailure(m) PROVE TreeMoves
  <2>1. MarkFailureDoes(m)
    BY <1>19, MarkFailureEffect DEF Sound
  <2> QED
    BY <2>1, NullAssumption DEF MarkFailureDoes, Others, At, Told, Fails,
       Gone, Enters, Wrote, Refuses, Expires, RunFails, Counts, Owns, rows,
       env, disk, local, TreeMoves, MovedOK, LockOK, FreshOK, Locked, Building,
       Sound, TypeOK, JobOK, Fits, TreeOK, RunOK, PhasesAgree, Terminal,
       PrepareQueue, Does, Phase, Preparing, Queue, Working, Settled, Row
<1>20. ASSUME NEW m \in Manager, Hiccup(m) PROVE TreeMoves
  <2>1. HiccupDoes(m)
    BY <1>20, HiccupEffect DEF Sound
  <2> QED
    BY <2>1, NullAssumption DEF HiccupDoes, Others, At, Told, Fails, Gone,
       Enters, Wrote, Refuses, Expires, RunFails, Counts, Owns, rows, env,
       disk, local, TreeMoves, MovedOK, LockOK, FreshOK, Locked, Building,
       Sound, TypeOK, JobOK, Fits, TreeOK, RunOK, PhasesAgree, Terminal,
       PrepareQueue, Does, Phase, Preparing, Queue, Working, Settled, Row
<1>21. ASSUME NEW m \in Manager, Crash(m) PROVE TreeMoves
  <2>1. CrashDoes(m)
    BY <1>21, CrashEffect DEF Sound
  <2> QED
    BY <2>1, NullAssumption DEF CrashDoes, Others, At, Told, Fails, Gone,
       Enters, Wrote, Refuses, Expires, RunFails, Counts, Owns, rows, env,
       disk, local, TreeMoves, MovedOK, LockOK, FreshOK, Locked, Building,
       Sound, TypeOK, JobOK, Fits, TreeOK, RunOK, PhasesAgree, Terminal,
       PrepareQueue, Does, Phase, Preparing, Queue, Working, Settled, Row
<1>22. ASSUME LeaseExpires PROVE TreeMoves
  <2>1. LeaseDoes
    BY <1>22, LeaseExpiresEffect DEF Sound
  <2> QED
    BY <2>1, NullAssumption DEF LeaseDoes, Others, At, Told, Fails, Gone,
       Enters, Wrote, Refuses, Expires, RunFails, Counts, Owns, rows, env,
       disk, local, TreeMoves, MovedOK, LockOK, FreshOK, Locked, Building,
       Sound, TypeOK, JobOK, Fits, TreeOK, RunOK, PhasesAgree, Terminal,
       PrepareQueue, Does, Phase, Preparing, Queue, Working, Settled, Row
<1>23. ASSUME AbortPreparing PROVE TreeMoves
  <2>1. AbortDoes
    BY <1>23, AbortPreparingEffect DEF Sound
  <2> QED
    BY <2>1, NullAssumption DEF AbortDoes, Others, At, Told, Fails, Gone,
       Enters, Wrote, Refuses, Expires, RunFails, Counts, Owns, rows, env,
       disk, local, TreeMoves, MovedOK, LockOK, FreshOK, Locked, Building,
       Sound, TypeOK, JobOK, Fits, TreeOK, RunOK, PhasesAgree, Terminal,
       PrepareQueue, Does, Phase, Preparing, Queue, Working, Settled, Row
<1>24. ASSUME RequestCleanup PROVE TreeMoves
  <2>1. RequestCleanupDoes
    BY <1>24, RequestCleanupEffect DEF Sound
  <2> QED
    BY <2>1, NullAssumption DEF RequestCleanupDoes, Others, At, Told, Fails,
       Gone, Enters, Wrote, Refuses, Expires, RunFails, Counts, Owns, rows,
       env, disk, local, TreeMoves, MovedOK, LockOK, FreshOK, Locked, Building,
       Sound, TypeOK, JobOK, Fits, TreeOK, RunOK, PhasesAgree, Terminal,
       PrepareQueue, Does, Phase, Preparing, Queue, Working, Settled, Row
<1>25. ASSUME StartRun PROVE TreeMoves
  BY <1>25, NullAssumption DEF StartRun, rows, env, disk, local, TreeMoves,
     MovedOK, LockOK, FreshOK, Locked, Building, Sound, TypeOK, JobOK, Fits,
     TreeOK, RunOK, PhasesAgree, Terminal, PrepareQueue, Does, Phase,
     Preparing, Queue, Working, Settled, Row
<1>26. ASSUME NEW status \in Terminal, EndRun(status) PROVE TreeMoves
  <2>1. EndRunDoes
    BY <1>26, EndRunEffect DEF Sound
  <2> QED
    BY <2>1, NullAssumption DEF EndRunDoes, Others, At, Told, Fails, Gone,
       Enters, Wrote, Refuses, Expires, RunFails, Counts, Owns, rows, env,
       disk, local, TreeMoves, MovedOK, LockOK, FreshOK, Locked, Building,
       Sound, TypeOK, JobOK, Fits, TreeOK, RunOK, PhasesAgree, Terminal,
       PrepareQueue, Does, Phase, Preparing, Queue, Working, Settled, Row
<1>27. ASSUME RejectBinding PROVE TreeMoves
  <2>1. RejectDoes
    BY <1>27, RejectBindingEffect DEF Sound
  <2> QED
    BY <2>1, NullAssumption DEF RejectDoes, Others, At, Told, Fails, Gone,
       Enters, Wrote, Refuses, Expires, RunFails, Counts, Owns, rows, env,
       disk, local, TreeMoves, MovedOK, LockOK, FreshOK, Locked, Building,
       Sound, TypeOK, JobOK, Fits, TreeOK, RunOK, PhasesAgree, Terminal,
       PrepareQueue, Does, Phase, Preparing, Queue, Working, Settled, Row
<1>28. ASSUME AgentEdits PROVE TreeMoves
  BY <1>28, NullAssumption DEF AgentEdits, rows, env, disk, local,
     TreeMoves, MovedOK, LockOK, FreshOK, Locked, Building, Sound, TypeOK,
     JobOK, Fits, TreeOK, RunOK, PhasesAgree, Terminal, PrepareQueue, Does,
     Phase, Preparing, Queue, Working, Settled, Row
<1>29. ASSUME DeadlinePasses PROVE TreeMoves
  BY <1>29, NullAssumption DEF DeadlinePasses, rows, env, disk, local,
     TreeMoves, MovedOK, LockOK, FreshOK, Locked, Building, Sound, TypeOK,
     JobOK, Fits, TreeOK, RunOK, PhasesAgree, Terminal, PrepareQueue, Does,
     Phase, Preparing, Queue, Working, Settled, Row
<1>30. ASSUME TrustChanges PROVE TreeMoves
  BY <1>30, NullAssumption DEF TrustChanges, rows, env, disk, local,
     TreeMoves, MovedOK, LockOK, FreshOK, Locked, Building, Sound, TypeOK,
     JobOK, Fits, TreeOK, RunOK, PhasesAgree, Terminal, PrepareQueue, Does,
     Phase, Preparing, Queue, Working, Settled, Row
<1>31. ASSUME Unbind PROVE TreeMoves
  BY <1>31, NullAssumption DEF Unbind, rows, env, disk, local, TreeMoves,
     MovedOK, LockOK, FreshOK, Locked, Building, Sound, TypeOK, JobOK, Fits,
     TreeOK, RunOK, PhasesAgree, Terminal, PrepareQueue, Does, Phase,
     Preparing, Queue, Working, Settled, Row
<1>32. ASSUME Tamper PROVE TreeMoves
  BY <1>32, NullAssumption DEF Tamper, rows, env, disk, local, TreeMoves,
     MovedOK, LockOK, FreshOK, Locked, Building, Sound, TypeOK, JobOK, Fits,
     TreeOK, RunOK, PhasesAgree, Terminal, PrepareQueue, Does, Phase,
     Preparing, Queue, Working, Settled, Row
<1>33. ASSUME UNCHANGED vars PROVE TreeMoves
  BY <1>33, NullAssumption DEF vars, rows, env, disk, local, TreeMoves,
     MovedOK, LockOK, FreshOK, Locked, Building, Sound, TypeOK, JobOK, Fits,
     TreeOK, RunOK, PhasesAgree, Terminal, PrepareQueue, Does, Phase,
     Preparing, Queue, Working, Settled, Row
<1> QED
  BY <1>1, <1>2, <1>3, <1>4, <1>5, <1>6, <1>7, <1>8, <1>9, <1>10, <1>11,
     <1>12, <1>13, <1>14, <1>15, <1>16, <1>17, <1>18, <1>19, <1>20, <1>21,
     <1>22, <1>23, <1>24, <1>25, <1>26, <1>27, <1>28, <1>29, <1>30, <1>31,
     <1>32, <1>33 DEF Next, Work, Lanes

\* Each step of the lifecycle is one of the promise, or none.
LEMMA PromiseStep ==
  ASSUME Sound, MovedOK, MovedOK', PhaseMoves, TreeMoves
  PROVE [Promise!Next]_(Promise!vars)
<1>1. /\ Phase \in {"making", "usable", "removed", "refused", "closing"}
      /\ final \in {"none", "clean", "changed", "broken", "unreadable"}
      /\ trash \in {"none", "clean", "broken", "unreadable"}
  BY DEF Phase, Sound, TypeOK, MovedOK, Tree
<1>2. /\ TreeKept = IF final = "none" /\ trash = "none" THEN "absent"
                    ELSE IF final = "changed" THEN "edited" ELSE "pristine"
      /\ TreeKept' = IF final' = "none" /\ trash' = "none" THEN "absent"
                     ELSE IF final' = "changed" THEN "edited" ELSE "pristine"
  BY DEF TreeKept, MovedOK
<1>3. CASE UNCHANGED <<final, trash>>
  <2>1. TreeKept' = TreeKept
    BY <1>2, <1>3
  <2>2. final \in {"clean", "broken", "unreadable"} => TreeKept = "pristine"
    BY <1>2
  <2>3. final = "none" /\ trash = "none" => TreeKept = "absent"
    BY <1>2
  <2> QED BY <2>1, <2>2, <2>3
          DEF PhaseMoves, Promise!Next, Promise!vars, Promise!Offer, Promise!Close,
              Promise!Refuse, Promise!Remove
<1>4. CASE Phase' = Phase /\ ~UNCHANGED <<final, trash>>
  <2>1. \/ TreeKept' = TreeKept
        \/ TreeKept = "absent" /\ TreeKept' = "pristine" /\ Phase \notin {"usable", "removed"}
        \/ /\ TreeKept = "pristine" /\ TreeKept' = "edited"
           /\ Phase \in {"usable", "closing", "refused"}
        \/ TreeKept = "pristine" /\ TreeKept' = "absent" /\ Phase \notin {"usable", "removed"}
    BY <1>1, <1>2, <1>4 DEF TreeMoves
  <2> QED BY <1>1, <1>4, <2>1
          DEF Promise!Next, Promise!vars, Promise!Appear, Promise!Edit, Promise!Discard
<1> QED BY <1>3, <1>4 DEF TreeMoves

\* Unless something edits between the inspection of a cleanup and its rename, the
\* lifecycle keeps the promise of WorkspacePromise: a usable directory is there from
\* the moment the run is queued until it has ended, only an unchanged directory is
\* discarded, and removed is for good.
THEOREM PromiseIsKept == Calm => (Spec => KeepsPromise)
<1>1. ASSUME Calm PROVE Spec => KeepsPromise
  <2>1. Init => MovedOK
    BY DEF Init, MovedOK
  <2>2. Sound /\ MovedOK /\ [Next]_vars => MovedOK'
    BY <1>1, MovedStep
  <2>3. Init => Promise!Init
    BY DEF Init, Promise!Init, Phase, TreeKept, PrepareQueue
  <2>4. Sound /\ MovedOK /\ MovedOK' /\ [Next]_vars => [Promise!Next]_(Promise!vars)
    BY PhaseStep, DirectoryStep, PromiseStep
  <2> QED BY <2>1, <2>2, <2>3, <2>4, SoundAlways, PTL DEF Spec, KeepsPromise, Promise!Spec
<1> QED BY <1>1
=============================================================================
