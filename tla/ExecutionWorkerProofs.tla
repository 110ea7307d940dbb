----------------------- MODULE ExecutionWorkerProofs -----------------------
(***************************************************************************)
(* Theorems about ExecutionWorker, for every set of workers and sessions,  *)
(* every choice of late calls and disturbances, and every fault bound.     *)
(* Types come first, then the safety invariants.  Most steps of a worker   *)
(* are of one kind: they leave the row alone or end the run, and take the  *)
(* worker to a point that needs no new authority.  Those are the Calm      *)
(* steps; the few others (the claim, the verifications, the persisted      *)
(* session, the two gates, the dispatch mark) have a proof each.  The last *)
(* part is about the inference a settled run leaves behind.                *)
(***************************************************************************)
EXTENDS ExecutionWorker, FiniteSetTheorems, TLAPS

-----------------------------------------------------------------------------
(* Type correctness, one lemma per group of variables.                     *)

DbType ==
    /\ run \in Row
    /\ task \in {"in_progress", "qa", "failed"}
    /\ workspace \in {"ready", "inspection_pending", "invalid"}
    /\ packaged \in BOOLEAN
EnvType == overdue \in BOOLEAN /\ trusted \in BOOLEAN /\ dirty \in BOOLEAN
OcType ==
    /\ made \in SUBSET Session
    /\ open \in SUBSET Session
    /\ accepted \in [Session -> SUBSET Message]
    /\ runner \in SUBSET Session
    /\ turn \in [Session -> {"none", "result", "error"}]
    /\ late \in SUBSET LateRequest
LocalType == pc \in [Worker -> PC] /\ job \in [Worker -> Job]
FaultType == crashes \in Nat /\ preempted \in Nat

\* TypeOK is exactly the conjunction of its groups, before and after a step.
LEMMA TypeParts ==
    /\ TypeOK <=> DbType /\ EnvType /\ OcType /\ LocalType /\ FaultType
    /\ TypeOK' <=> DbType' /\ EnvType' /\ OcType' /\ LocalType' /\ FaultType'
BY DEF TypeOK, DbType, EnvType, OcType, LocalType, FaultType

\* Moving one worker to a program point with a typed job keeps the types.
LEMMA GotoWithType ==
    ASSUME LocalType, NEW w \in Worker, NEW p \in PC, NEW j \in Job, GotoWith(w, p, j)
    PROVE  LocalType'
BY DEF LocalType, GotoWith

LEMMA GotoType ==
    ASSUME LocalType, NEW w \in Worker, NEW p \in PC, Goto(w, p)
    PROVE  LocalType'
BY DEF LocalType, Goto

LEMMA LeaveType ==
    ASSUME LocalType, NEW w \in Worker, Leave(w)
    PROVE  LocalType'
<1>1. NoJob \in Job
  BY DEF NoJob, Job, Active
<1> QED
  BY <1>1, GotoWithType DEF Leave, PC

LEMMA AgainType ==
    ASSUME LocalType, NEW w \in Worker, Again(w)
    PROVE  LocalType'
<1>1. [job[w] EXCEPT !.known = NoSession, !.todo = {}, !.was = FALSE, !.seen = "none"] \in Job
  BY DEF LocalType, Job
<1> QED
  BY <1>1, GotoWithType DEF Again, PC

LEMMA AgainIfType ==
    ASSUME LocalType, NEW w \in Worker, NEW b, AgainIf(w, b)
    PROVE  LocalType'
BY AgainType, LeaveType DEF AgainIf

\* The terminal transactions keep the database well typed.
LEMMA FinishType ==
    ASSUME DbType, NEW status \in Terminal, NEW stage \in Stage,
           NEW t \in {"qa", "failed"}, Finish(status, stage, t)
    PROVE  DbType'
<1>1. run' \in Row
  BY NullAssumption DEF DbType, Finish, Row
<1>2. task' \in {"in_progress", "qa", "failed"} /\ packaged' \in BOOLEAN
  BY DEF DbType, Finish
<1>3. workspace' \in {"ready", "inspection_pending", "invalid"}
  BY DEF DbType, Finish
<1> QED
  BY <1>1, <1>2, <1>3 DEF DbType

LEMMA RejectBindingType ==
    ASSUME DbType, RejectBinding
    PROVE  DbType'
<1>a. run.gen + 1 \in Nat
  BY DEF DbType, Row
<1>b. "failed" \in Active \cup Terminal /\ "workspace_binding_rejected" \in Stage
  BY DEF Terminal, Stage
<1>1. run' \in Row
  BY <1>a, <1>b DEF DbType, RejectBinding, Row
<1>2. task' \in {"in_progress", "qa", "failed"}
  BY DEF DbType, RejectBinding
<1>3. workspace' \in {"ready", "inspection_pending", "invalid"} /\ packaged' \in BOOLEAN
  BY DEF RejectBinding
<1> QED
  BY <1>1, <1>2, <1>3 DEF DbType

LEMMA FinishIfType ==
    ASSUME DbType, LocalType, NEW w \in Worker, NEW b, NEW status \in Terminal,
           NEW stage \in Stage, NEW t \in {"qa", "failed"}, FinishIf(w, b, status, stage, t)
    PROVE  DbType' /\ LocalType'
<1>1. LocalType'
  BY LeaveType DEF FinishIf
<1>2. CASE b
  BY <1>1, <1>2, FinishType DEF FinishIf
<1>3. CASE ~b
  BY <1>1, <1>3 DEF FinishIf, DbType, db
<1> QED
  BY <1>2, <1>3

LEMMA RejectIfType ==
    ASSUME DbType, LocalType, NEW w \in Worker, NEW b, RejectIf(w, b)
    PROVE  DbType' /\ LocalType'
<1>1. LocalType'
  BY LeaveType DEF RejectIf
<1>2. CASE b
  BY <1>1, <1>2, RejectBindingType DEF RejectIf
<1>3. CASE ~b
  BY <1>1, <1>3 DEF RejectIf, DbType, db
<1> QED
  BY <1>2, <1>3

\* Unchanged groups stay typed.
LEMMA DbSame == ASSUME DbType, UNCHANGED db PROVE DbType'
BY DEF DbType, db
LEMMA EnvSame == ASSUME EnvType, UNCHANGED env PROVE EnvType'
BY DEF EnvType, env
LEMMA OcSame == ASSUME OcType, UNCHANGED oc PROVE OcType'
BY DEF OcType, oc
LEMMA LocalSame == ASSUME LocalType, UNCHANGED local PROVE LocalType'
BY DEF LocalType, local
LEMMA FaultSame == ASSUME FaultType, UNCHANGED faults PROVE FaultType'
BY DEF FaultType, faults

-----------------------------------------------------------------------------
(* What OpenCode does keeps its own state typed.                           *)

OcCore == made \in SUBSET Session /\ open \in SUBSET Session
          /\ accepted \in [Session -> SUBSET Message] /\ runner \in SUBSET Session
          /\ turn \in [Session -> {"none", "result", "error"}]

LEMMA AcceptType ==
    ASSUME OcType, NEW s \in Session, NEW m \in Message, Accept(s, m)
    PROVE  OcCore'
<1>1. CASE m \in accepted[s]
  BY <1>1 DEF OcType, OcCore, Accept
<1>2. CASE m \notin accepted[s]
  BY <1>2 DEF OcType, OcCore, Accept
<1> QED
  BY <1>1, <1>2

LEMMA AbortType ==
    ASSUME OcType, NEW s \in Session \cup {NoSession}, Abort(s)
    PROVE  OcType'
<1>1. CASE s \in runner
  BY <1>1 DEF OcType, Abort
<1>2. CASE s \notin runner
  BY <1>2 DEF OcType, Abort
<1> QED
  BY <1>1, <1>2

LEMMA DeleteType ==
    ASSUME OcType, NEW s \in Session, Delete(s)
    PROVE  OcType'
BY DEF OcType, Delete

LEMMA MakeType ==
    ASSUME OcType, NEW s \in Session, Make(s)
    PROVE  OcCore'
BY DEF OcType, OcCore, Make

LEMMA CoreAndLate ==
    ASSUME OcType, OcCore', late' \subseteq LateRequest
    PROVE  OcType'
BY DEF OcType, OcCore

LEMMA LateEffectType ==
    ASSUME OcType, NEW w \in Worker, LateEffect(w)
    PROVE  OcType'
BY DEF OcType, LateEffect

LEMMA CalledEffectType ==
    ASSUME OcType, LocalType, NEW w \in Worker, CalledEffect(w)
    PROVE  OcType'
<1>1. /\ job[w].known \in Session \cup {NoSession}
      /\ job[w].session \in Session \cup {NoSession}
      /\ open \subseteq Session /\ "dispatch" \in Message /\ "followup" \in Message
  BY DEF LocalType, Job, OcType, Message
<1>2. CASE pc[w] \in {"cancelAbort", "cancelAbortAgain", "timeoutAbort"}
  BY <1>1, <1>2, AbortType DEF CalledEffect
<1>3. CASE pc[w] = "stallAbort"
  BY <1>1, <1>3, AbortType DEF CalledEffect
<1>4. CASE pc[w] = "cancelDelete"
  BY <1>1, <1>4, DeleteType DEF CalledEffect
<1>5. CASE pc[w] = "create"
  BY <1>1, <1>5, MakeType, CoreAndLate DEF CalledEffect, OcType
<1>6. CASE pc[w] = "prompting"
  BY <1>1, <1>6, AcceptType, CoreAndLate DEF CalledEffect, OcType
<1>7. CASE pc[w] = "following"
  BY <1>1, <1>7, AcceptType, CoreAndLate DEF CalledEffect, OcType
<1>8. CASE pc[w] \notin {"cancelAbort", "cancelAbortAgain", "timeoutAbort", "stallAbort",
                         "cancelDelete", "create", "prompting", "following"}
  BY <1>8, OcSame DEF CalledEffect
<1> QED
  BY <1>2, <1>3, <1>4, <1>5, <1>6, <1>7, <1>8

-----------------------------------------------------------------------------
(* Each step of a worker keeps the types.                                  *)

LEMMA ClaimType ==
    ASSUME TypeOK, NEW w \in Worker, Claim(w)
    PROVE  TypeOK'
<1>0. DbType /\ EnvType /\ OcType /\ LocalType /\ FaultType
  BY TypeParts
<1>1. EnvType' /\ OcType' /\ FaultType'
  BY <1>0, EnvSame, OcSame, FaultSame DEF Claim
<1>2. CASE workspace = "ready"
  <2>1. run.gen + 1 \in Nat
    BY <1>0 DEF DbType, Row
  <2>2. run' = [run EXCEPT !.gen = run.gen + 1, !.owner = w, !.lease = "live"]
    BY <1>2 DEF Claim, NextGeneration
  <2>3. run' \in Row
    BY <1>0, <2>1, <2>2 DEF DbType, Row
  <2>4. DbType'
    BY <1>0, <1>2, <2>3 DEF DbType, Claim
  <2>5. [NoJob EXCEPT !.gen = run.gen + 1, !.status = run.status,
                      !.session = run.session, !.cancel = run.cancel] \in Job
    <3>1. /\ run.status \in Active /\ run.session \in Session \cup {NoSession}
          /\ run.cancel \in BOOLEAN
      BY <1>0 DEF Claim, Claimable, DbType, Row
    <3> QED
      BY <2>1, <3>1 DEF NoJob, Job
  <2>6. LocalType'
    BY <1>0, <1>2, <2>5, GotoWithType DEF Claim, NextGeneration, PC
  <2> QED
    BY <1>1, <2>4, <2>6, TypeParts
<1>3. CASE workspace # "ready"
  BY <1>0, <1>1, <1>3, RejectBindingType, LocalSame, TypeParts DEF Claim
<1> QED
  BY <1>2, <1>3

LEMMA PollType ==
    ASSUME TypeOK, NEW w \in Worker, Poll(w)
    PROVE  TypeOK'
<1>0. DbType /\ EnvType /\ OcType /\ LocalType /\ FaultType
  BY TypeParts
<1>1. LocalType'
  BY <1>0, GotoType DEF Poll, PC, Call
<1> QED
  BY <1>0, <1>1, DbSame, EnvSame, OcSame, FaultSame, TypeParts DEF Poll

\* The cleanup loop: its next program point is a call on a session of its list.
LEMMA NextTargetType ==
    ASSUME LocalType, NEW w \in Worker, NEW p \in PC, NEW b,
           NEW todo \in SUBSET (Session \cup {NoSession}), todo \ {NoSession} = todo,
           NextTarget(w, p, b, todo)
    PROVE  LocalType'
<1>1. CASE b
  <2>1. PICK s \in todo :
          GotoWith(w, p, [job[w] EXCEPT !.known = s, !.todo = todo \ {s}])
    BY <1>1 DEF NextTarget
  <2>2. [job[w] EXCEPT !.known = s, !.todo = todo \ {s}] \in Job
    BY DEF LocalType, Job
  <2> QED
    BY <2>1, <2>2, GotoWithType
<1>2. CASE ~b
  BY <1>2, LeaveType DEF NextTarget
<1> QED
  BY <1>1, <1>2

LEMMA CancelNextType ==
    ASSUME DbType, LocalType, NEW w \in Worker, NEW todo \in SUBSET Session,
           CancelNext(w, todo)
    PROVE  DbType' /\ LocalType'
<1>1. CASE todo = {}
  BY <1>1, FinishIfType DEF CancelNext, Cancelled, Terminal, Stage
<1>2. CASE todo # {}
  <2>1. todo \ {NoSession} = todo
    BY NullAssumption
  <2> QED
    BY <1>2, <2>1, NextTargetType, DbSame DEF CancelNext, PC, Call
<1> QED
  BY <1>1, <1>2

LEMMA TimeoutNextType ==
    ASSUME DbType, LocalType, NEW w \in Worker, NEW todo \in SUBSET Session,
           TimeoutNext(w, todo)
    PROVE  DbType' /\ LocalType'
<1>1. CASE todo = {}
  BY <1>1, FinishIfType DEF TimeoutNext, TimedOut, Terminal, Stage
<1>2. CASE todo # {}
  <2>1. todo \ {NoSession} = todo
    BY NullAssumption
  <2> QED
    BY <1>2, <2>1, NextTargetType, DbSame DEF TimeoutNext, PC, Call
<1> QED
  BY <1>1, <1>2
\* Cleanup: cancel_execution, timeout_execution and stall_execution.
LEMMA CleanupType ==
    ASSUME TypeOK, NEW w \in Worker,
           \/ CancelStart(w) \/ CancelList(w) \/ CancelAbort(w) \/ CancelDelete(w)
           \/ CancelAbortAgain(w) \/ TimeoutStart(w) \/ TimeoutList(w) \/ TimeoutAbort(w)
           \/ StallAbort(w)
    PROVE  TypeOK'
<1>0. DbType /\ EnvType /\ OcType /\ LocalType /\ FaultType
  BY TypeParts
<1>a. /\ job[w] \in Job /\ job[w].known \in Session \cup {NoSession}
      /\ job[w].session \in Session \cup {NoSession}
      /\ job[w].todo \in SUBSET Session /\ open \in SUBSET Session
      /\ run.session \in Session \cup {NoSession}
  BY <1>0 DEF LocalType, Job, OcType, DbType, Row
<1>1. CASE CancelStart(w)
  <2>1. CASE run.session = NoSession \/ ~(Owned(w) /\ run.cancel)
    <3>1. LocalType'
      BY <1>0, <1>1, <2>1, GotoType, LeaveType DEF CancelStart, PC, Call
    <3> QED
      BY <1>0, <1>1, <3>1, DbSame, EnvSame, OcSame, FaultSame, TypeParts DEF CancelStart
  <2>2. CASE run.session # NoSession /\ Owned(w) /\ run.cancel
    <3>1. {run.session} \ {NoSession} = {run.session}
      BY <2>2
    <3>2. LocalType'
      BY <1>0, <1>1, <1>a, <2>2, <3>1, NextTargetType DEF CancelStart, PC, Call
    <3> QED
      BY <1>0, <1>1, <3>2, DbSame, EnvSame, OcSame, FaultSame, TypeParts DEF CancelStart
  <2> QED
    BY <2>1, <2>2
<1>2. CASE CancelList(w)
  BY <1>0, <1>2, <1>a, CancelNextType, EnvSame, OcSame, FaultSame, TypeParts DEF CancelList
<1>3. CASE CancelAbort(w)
  <2>1. OcType' /\ EnvType' /\ FaultType'
    BY <1>0, <1>3, <1>a, AbortType, EnvSame, FaultSame DEF CancelAbort
  <2>2. CASE job[w].status = "queued"
    BY <1>0, <1>3, <2>1, <2>2, GotoType, LeaveType, DbSame, TypeParts DEF CancelAbort, PC, Call
  <2>3. CASE job[w].status # "queued"
    BY <1>0, <1>3, <1>a, <2>1, <2>3, CancelNextType, TypeParts DEF CancelAbort
  <2> QED
    BY <2>2, <2>3
<1>4. CASE CancelDelete(w)
  <2>1. EnvType' /\ FaultType'
    BY <1>0, <1>4, EnvSame, FaultSame DEF CancelDelete
  <2>2. CASE job[w].known \in open
    <3>1. OcType'
      BY <1>0, <1>4, <1>a, <2>2, DeleteType DEF CancelDelete
    <3> QED
      BY <1>0, <1>4, <2>1, <2>2, <3>1, GotoType, LeaveType, DbSame, TypeParts
      DEF CancelDelete, PC, Call
  <2>3. CASE job[w].known \notin open
    BY <1>0, <1>4, <1>a, <2>1, <2>3, CancelNextType, OcSame, TypeParts DEF CancelDelete
  <2> QED
    BY <2>2, <2>3
<1>5. CASE CancelAbortAgain(w)
  BY <1>0, <1>5, <1>a, AbortType, CancelNextType, EnvSame, FaultSame, TypeParts
  DEF CancelAbortAgain
<1>6. CASE TimeoutStart(w)
  <2>1. CASE run.session = NoSession \/ ~Owned(w)
    <3>1. LocalType'
      BY <1>0, <1>6, <2>1, GotoType, LeaveType DEF TimeoutStart, PC, Call
    <3> QED
      BY <1>0, <1>6, <3>1, DbSame, EnvSame, OcSame, FaultSame, TypeParts DEF TimeoutStart
  <2>2. CASE run.session # NoSession /\ Owned(w)
    <3>1. {run.session} \ {NoSession} = {run.session}
      BY <2>2
    <3>2. LocalType'
      BY <1>0, <1>6, <1>a, <2>2, <3>1, NextTargetType DEF TimeoutStart, PC, Call
    <3> QED
      BY <1>0, <1>6, <3>2, DbSame, EnvSame, OcSame, FaultSame, TypeParts DEF TimeoutStart
  <2> QED
    BY <2>1, <2>2
<1>7. CASE TimeoutList(w)
  BY <1>0, <1>7, <1>a, TimeoutNextType, EnvSame, OcSame, FaultSame, TypeParts DEF TimeoutList
<1>8. CASE TimeoutAbort(w)
  BY <1>0, <1>8, <1>a, AbortType, TimeoutNextType, EnvSame, FaultSame, TypeParts
  DEF TimeoutAbort
<1>9. CASE StallAbort(w)
  <2>1. "failed" \in Terminal /\ "stalled_tool" \in Stage
    BY DEF Terminal, Stage
  <2> QED
    BY <1>0, <1>9, <1>a, <2>1, AbortType, FinishIfType, EnvSame, FaultSame, TypeParts
    DEF StallAbort
<1> QED
  BY <1>1, <1>2, <1>3, <1>4, <1>5, <1>6, <1>7, <1>8, <1>9

\* Writing one typed field of the row keeps the database typed.
LEMMA RowFieldType ==
    ASSUME DbType, UNCHANGED <<task, workspace, packaged>>,
           \/ UNCHANGED run
           \/ run' = [run EXCEPT !.verified = TRUE]
           \/ run' = [run EXCEPT !.cancel = TRUE]
           \/ run' = [run EXCEPT !.lease = "expired"]
           \/ \E s \in Session \cup {NoSession} : run' = [run EXCEPT !.session = s]
           \/ run' = [run EXCEPT !.status = "running", !.owner = NoWorker, !.lease = "none"]
    PROVE  DbType'
<1>1. run' \in Row
  BY DEF DbType, Row, Active
<1> QED
  BY <1>1 DEF DbType

LEMMA VerifyWorkspaceType ==
    ASSUME DbType, LocalType, NEW w \in Worker, NEW p \in PC, NEW j \in Job,
           VerifyWorkspace(w, p, j)
    PROVE  DbType' /\ LocalType'
<1>1. CASE dirty
  BY <1>1, RejectIfType DEF VerifyWorkspace
<1>2. CASE ~dirty /\ Owned(w) /\ run.status = "queued"
  BY <1>2, RowFieldType, GotoWithType DEF VerifyWorkspace
<1>3. CASE ~dirty /\ ~(Owned(w) /\ run.status = "queued")
  BY <1>3, LeaveType, DbSame DEF VerifyWorkspace
<1> QED
  BY <1>1, <1>2, <1>3

\* dispatch_execution.
LEMMA DispatchType ==
    ASSUME TypeOK, NEW w \in Worker,
           \/ DispatchStart(w) \/ ListSessions(w) \/ CreateSession(w) \/ PersistSession(w)
           \/ LookupMessage(w) \/ SafetyCancel(w) \/ Reverify(w) \/ Authorize(w)
           \/ Prompt(w) \/ MarkDispatched(w)
    PROVE  TypeOK'
<1>0. DbType /\ EnvType /\ OcType /\ LocalType /\ FaultType
  BY TypeParts
<1>a. /\ job[w] \in Job /\ job[w].known \in Session \cup {NoSession}
      /\ run.session \in Session \cup {NoSession} /\ run.verified \in BOOLEAN
      /\ open \in SUBSET Session
  BY <1>0 DEF LocalType, Job, OcType, DbType, Row
<1>b. \A s \in Session : [job[w] EXCEPT !.known = s] \in Job
  BY <1>a DEF Job
<1>1. CASE DispatchStart(w)
  <2>1. [job[w] EXCEPT !.known = run.session, !.was = run.verified] \in Job
    BY <1>a DEF Job
  <2>2. CASE Owned(w) /\ run.status = "queued"
    <3> DEFINE p == IF run.session = NoSession THEN "list" ELSE "lookup"
    <3>1. p \in PC
      BY DEF PC, Call
    <3>2. VerifyWorkspace(w, p, [job[w] EXCEPT !.known = run.session, !.was = run.verified])
      BY <1>1, <2>2 DEF DispatchStart
    <3> HIDE DEF p
    <3>3. DbType' /\ LocalType'
      BY <1>0, <2>1, <3>1, <3>2, VerifyWorkspaceType
    <3> QED
      BY <1>0, <1>1, <3>3, EnvSame, OcSame, FaultSame, TypeParts DEF DispatchStart
  <2>3. CASE ~(Owned(w) /\ run.status = "queued")
    BY <1>0, <1>1, <2>3, LeaveType, DbSame, EnvSame, OcSame, FaultSame, TypeParts
    DEF DispatchStart
  <2> QED
    BY <2>2, <2>3
<1>2. CASE ListSessions(w)
  <2>1. LocalType'
    BY <1>0, <1>2, <1>a, <1>b, AgainIfType, GotoWithType, GotoType, LeaveType
    DEF ListSessions, PC, Call
  <2> QED
    BY <1>0, <1>2, <2>1, DbSame, EnvSame, OcSame, FaultSame, TypeParts DEF ListSessions
<1>3. CASE CreateSession(w)
  <2>1. PICK s \in Session : Make(s) /\ GotoWith(w, "persist", [job[w] EXCEPT !.known = s])
    BY <1>3 DEF CreateSession
  <2>2. LocalType'
    BY <1>0, <1>b, <2>1, GotoWithType DEF PC
  <2>3. OcType'
    BY <1>0, <1>3, <2>1, MakeType, CoreAndLate DEF CreateSession, OcType
  <2> QED
    BY <1>0, <1>3, <2>2, <2>3, DbSame, EnvSame, FaultSame, TypeParts DEF CreateSession
<1>4. CASE PersistSession(w)
  <2>1. LocalType'
    BY <1>0, <1>4, GotoType, LeaveType DEF PersistSession, PC, Call
  <2>2. DbType'
    BY <1>0, <1>4, <1>a, RowFieldType DEF PersistSession
  <2> QED
    BY <1>0, <1>4, <2>1, <2>2, EnvSame, OcSame, FaultSame, TypeParts DEF PersistSession
<1>5. CASE LookupMessage(w)
  <2>1. LocalType'
    BY <1>0, <1>5, GotoType DEF LookupMessage, PC, Call
  <2> QED
    BY <1>0, <1>5, <2>1, DbSame, EnvSame, OcSame, FaultSame, TypeParts DEF LookupMessage
<1>6. CASE SafetyCancel(w)
  <2>1. LocalType'
    BY <1>0, <1>6, GotoType, LeaveType DEF SafetyCancel, PC
  <2>2. DbType'
    BY <1>0, <1>6, RowFieldType DEF SafetyCancel
  <2> QED
    BY <1>0, <1>6, <2>1, <2>2, EnvSame, OcSame, FaultSame, TypeParts DEF SafetyCancel
<1>7. CASE Reverify(w)
  <2>1. DbType' /\ LocalType'
    BY <1>0, <1>7, <1>a, VerifyWorkspaceType DEF Reverify, PC
  <2> QED
    BY <1>0, <1>7, <2>1, EnvSame, OcSame, FaultSame, TypeParts DEF Reverify
<1>8. CASE Authorize(w)
  <2>1. DbType' /\ LocalType'
    <3>1. CASE ~trusted
      BY <1>0, <1>8, <3>1, RejectIfType DEF Authorize
    <3>2. CASE trusted
      BY <1>0, <1>8, <3>2, LeaveType, GotoType, DbSame DEF Authorize, PC, Call
    <3> QED
      BY <3>1, <3>2
  <2> QED
    BY <1>0, <1>8, <2>1, EnvSame, OcSame, FaultSame, TypeParts DEF Authorize
<1>9. CASE Prompt(w)
  <2>1. CASE job[w].known \in open
    <3>1. OcType'
      BY <1>0, <1>9, <1>a, <2>1, AcceptType, CoreAndLate DEF Prompt, OcType, Message
    <3>2. LocalType'
      BY <1>0, <1>9, <2>1, GotoType DEF Prompt, PC
    <3> QED
      BY <1>0, <1>9, <3>1, <3>2, DbSame, EnvSame, FaultSame, TypeParts DEF Prompt
  <2>2. CASE job[w].known \notin open
    BY <1>0, <1>9, <2>2, AgainIfType, DbSame, EnvSame, OcSame, FaultSame, TypeParts DEF Prompt
  <2> QED
    BY <2>1, <2>2
<1>10. CASE MarkDispatched(w)
  <2>1. LocalType'
    BY <1>0, <1>10, GotoType, LeaveType DEF MarkDispatched, PC
  <2>2. DbType'
    BY <1>0, <1>10, RowFieldType DEF MarkDispatched
  <2> QED
    BY <1>0, <1>10, <2>1, <2>2, EnvSame, OcSame, FaultSame, TypeParts DEF MarkDispatched
<1> QED
  BY <1>1, <1>2, <1>3, <1>4, <1>5, <1>6, <1>7, <1>8, <1>9, <1>10
\* The running half of poll_execution, failed calls and crashes.
LEMMA RunningType ==
    ASSUME TypeOK, NEW w \in Worker,
           \/ Observe(w) \/ Gate(w) \/ Follow(w) \/ FollowUp(w) \/ Apply(w)
           \/ CallFails(w) \/ Crash(w)
    PROVE  TypeOK'
<1>0. DbType /\ EnvType /\ OcType /\ LocalType /\ FaultType
  BY TypeParts
<1>a. /\ job[w] \in Job /\ job[w].session \in Session \cup {NoSession}
      /\ open \in SUBSET Session
  BY <1>0 DEF LocalType, Job, OcType
<1>b. \A s : [job[w] EXCEPT !.seen = Seen(s)] \in Job
  <2>1. \A s : Seen(s) \in {"none", "busy", "idle", "error", "unknown"}
    BY DEF Seen
  <2> HIDE DEF Seen
  <2> QED
    BY <1>a, <2>1 DEF Job
<1>1. CASE Observe(w)
  <2> DEFINE s == job[w].session
             p == IF overdue THEN "timeout" ELSE IF Seen(s) = "idle" THEN "gate" ELSE "apply"
  <2>1. p \in PC /\ "stallAbort" \in PC
    BY DEF PC, Call
  <2>2. \/ AgainIf(w, Beats(w)) \/ Goto(w, "stallAbort") \/ Leave(w)
        \/ GotoWith(w, p, [job[w] EXCEPT !.seen = Seen(s)])
    BY <1>1 DEF Observe
  <2> HIDE DEF p, s
  <2>3. LocalType'
    BY <1>0, <1>b, <2>1, <2>2, AgainIfType, GotoType, LeaveType, GotoWithType
  <2> QED
    BY <1>0, <1>1, <2>3, DbSame, EnvSame, OcSame, FaultSame, TypeParts DEF Observe
<1>f. ASSUME FailGate(w) PROVE DbType' /\ LocalType'
  <2>1. "failed" \in Terminal /\ "runner_gate" \in Stage
    BY DEF Terminal, Stage
  <2> QED
    BY <1>0, <1>f, <2>1, FinishIfType DEF FailGate
<1>2. CASE Gate(w)
  <2>1. DbType' /\ LocalType'
    BY <1>0, <1>2, <1>f, AgainIfType, GotoType, DbSame DEF Gate, PC
  <2> QED
    BY <1>0, <1>2, <2>1, EnvSame, OcSame, FaultSame, TypeParts DEF Gate
<1>3. CASE Follow(w)
  <2>1. DbType' /\ LocalType'
    BY <1>0, <1>3, <1>f, LeaveType, GotoType, DbSame DEF Follow, PC, Call
  <2> QED
    BY <1>0, <1>3, <2>1, EnvSame, OcSame, FaultSame, TypeParts DEF Follow
<1>4. CASE FollowUp(w)
  <2>1. CASE job[w].session \in open
    <3>1. OcType'
      BY <1>0, <1>4, <1>a, <2>1, AcceptType, CoreAndLate DEF FollowUp, OcType, Message
    <3> QED
      BY <1>0, <1>4, <2>1, <3>1, AgainType, DbSame, EnvSame, FaultSame, TypeParts DEF FollowUp
  <2>2. CASE job[w].session \notin open
    BY <1>0, <1>4, <2>2, AgainIfType, DbSame, EnvSame, OcSame, FaultSame, TypeParts
    DEF FollowUp
  <2> QED
    BY <2>1, <2>2
<1>5. CASE Apply(w)
  <2>1. /\ "failed" \in Terminal /\ "completed" \in Terminal
        /\ "opencode_error" \in Stage /\ "manager_review" \in Stage
        /\ "cancel" \in PC /\ "timeout" \in PC
    BY DEF Terminal, Stage, PC
  <2>2. DbType' /\ LocalType'
    BY <1>0, <1>5, <2>1, FinishType, LeaveType, GotoType, AgainType, DbSame DEF Apply
  <2> QED
    BY <1>0, <1>5, <2>2, EnvSame, OcSame, FaultSame, TypeParts DEF Apply
<1>6. CASE CallFails(w)
  <2>1. OcType'
    BY <1>0, <1>6, OcSame, CalledEffectType, LateEffectType DEF CallFails
  <2>2. LocalType'
    BY <1>0, <1>6, AgainIfType DEF CallFails
  <2> QED
    BY <1>0, <1>6, <2>1, <2>2, DbSame, EnvSame, FaultSame, TypeParts DEF CallFails
<1>7. CASE Crash(w)
  <2>1. OcType'
    BY <1>0, <1>7, OcSame, CalledEffectType, LateEffectType DEF Crash
  <2>2. FaultType'
    BY <1>0, <1>7 DEF Crash, FaultType
  <2> QED
    BY <1>0, <1>7, <2>1, <2>2, LeaveType, DbSame, EnvSame, TypeParts DEF Crash
<1> QED
  BY <1>1, <1>2, <1>3, <1>4, <1>5, <1>6, <1>7

\* OpenCode, the agent, the manager, time and the other disturbances.
LEMMA EnvironmentType ==
    ASSUME TypeOK,
           \/ LateArrives \/ AgentEdits \/ (\E s \in Session : AgentEnds(s))
           \/ ServerRestarts \/ RequestCancel \/ TrustChanges \/ Tamper
           \/ DeadlinePasses \/ LeaseLapses \/ LeasePreempted \/ Settled
    PROVE  TypeOK'
<1>0. DbType /\ EnvType /\ OcType /\ LocalType /\ FaultType
  BY TypeParts
<1>1. CASE LateArrives
  <2>1. PICK r \in late : late' = late \ {r} /\
          CASE r.req = "create" -> IF made = Session
                                     THEN UNCHANGED <<made, open, accepted, runner, turn>>
                                     ELSE \E s \in Session : Make(s)
            [] r.req # "create" -> IF r.to \in open
                                     THEN Accept(r.to, r.req)
                                     ELSE UNCHANGED <<made, open, accepted, runner, turn>>
    BY <1>1 DEF LateArrives
  <2>2. r.req \in Requests /\ late' \subseteq LateRequest /\ open \subseteq Session
    BY <1>0, <2>1 DEF OcType, LateRequest
  <2>3. ASSUME UNCHANGED <<made, open, accepted, runner, turn>> PROVE OcType'
    BY <1>0, <2>2, <2>3 DEF OcType
  <2>4. ASSUME r.req = "create" PROVE OcType'
    <3>1. \/ UNCHANGED <<made, open, accepted, runner, turn>>
          \/ \E s \in Session : Make(s)
      BY <2>1, <2>4
    <3>2. ASSUME NEW s \in Session, Make(s) PROVE OcType'
      <4>1. OcCore'
        BY <1>0, <3>2, MakeType
      <4> QED
        BY <1>0, <2>2, <4>1, CoreAndLate
    <3> QED
      BY <2>3, <3>1, <3>2
  <2>5. ASSUME r.req # "create" PROVE OcType'
    <3>1. r.req \in Message
      BY <2>2, <2>5 DEF Requests, Message
    <3>2. \/ UNCHANGED <<made, open, accepted, runner, turn>>
          \/ r.to \in open /\ Accept(r.to, r.req)
      BY <2>1, <2>5
    <3>3. ASSUME r.to \in open, Accept(r.to, r.req) PROVE OcType'
      <4>1. OcCore'
        BY <1>0, <2>2, <3>1, <3>3, AcceptType
      <4> QED
        BY <1>0, <2>2, <4>1, CoreAndLate
    <3> QED
      BY <2>3, <3>2, <3>3
  <2>6. OcType'
    BY <2>4, <2>5
  <2> QED
    BY <1>0, <1>1, <2>6, DbSame, EnvSame, LocalSame, FaultSame, TypeParts DEF LateArrives
<1>2. CASE AgentEdits \/ TrustChanges \/ DeadlinePasses
  BY <1>0, <1>2, DbSame, OcSame, LocalSame, FaultSame, TypeParts
  DEF AgentEdits, TrustChanges, DeadlinePasses, EnvType
<1>3. CASE \E s \in Session : AgentEnds(s)
  <2>1. PICK s \in Session : AgentEnds(s)
    BY <1>3
  <2>2. OcType'
    BY <1>0, <2>1 DEF AgentEnds, OcType
  <2> QED
    BY <1>0, <2>1, <2>2, DbSame, EnvSame, LocalSame, FaultSame, TypeParts DEF AgentEnds
<1>4. CASE ServerRestarts
  <2>1. OcType'
    BY <1>0, <1>4 DEF ServerRestarts, OcType
  <2> QED
    BY <1>0, <1>4, <2>1, DbSame, EnvSame, LocalSame, FaultSame, TypeParts DEF ServerRestarts
<1>5. CASE RequestCancel
  <2>1. run.gen + 1 \in Nat
    BY <1>0 DEF DbType, Row
  <2>2. run' \in Row
    BY <1>0, <1>5, <2>1 DEF RequestCancel, DbType, Row
  <2> QED
    BY <1>0, <1>5, <2>2, EnvSame, OcSame, LocalSame, FaultSame, TypeParts
    DEF RequestCancel, DbType
<1>6. CASE Tamper
  BY <1>0, <1>6, OcSame, LocalSame, FaultSame, TypeParts DEF Tamper, DbType, EnvType
<1>7. CASE LeaseLapses
  BY <1>0, <1>7, RowFieldType, EnvSame, OcSame, LocalSame, FaultSame, TypeParts
  DEF LeaseLapses
<1>8. CASE LeasePreempted
  <2>1. FaultType'
    BY <1>0, <1>8 DEF LeasePreempted, FaultType
  <2> QED
    BY <1>0, <1>8, <2>1, RowFieldType, EnvSame, OcSame, LocalSame, TypeParts
    DEF LeasePreempted
<1>9. CASE Settled
  BY <1>0, <1>9, DbSame, EnvSame, OcSame, LocalSame, FaultSame, TypeParts DEF Settled, vars
<1> QED
  BY <1>1, <1>2, <1>3, <1>4, <1>5, <1>6, <1>7, <1>8, <1>9

LEMMA InitType == Init => TypeOK
<1> SUFFICES ASSUME Init PROVE TypeOK
  OBVIOUS
<1>1. DbType /\ EnvType /\ FaultType
  BY NullAssumption DEF Init, DbType, EnvType, FaultType, Row, Active, Stage
<1>2. made \in SUBSET Session
  BY DEF Init
<1>3. OcType
  BY <1>2 DEF Init, OcType, Message
<1>4. NoJob \in Job /\ "idle" \in PC
  BY DEF NoJob, Job, Active, PC
<1>5. LocalType
  BY <1>4 DEF Init, LocalType
<1> QED
  BY <1>1, <1>3, <1>5, TypeParts

LEMMA StepType == TypeOK /\ [Next]_vars => TypeOK'
<1> SUFFICES ASSUME TypeOK, [Next]_vars PROVE TypeOK'
  OBVIOUS
<1>1. CASE \E w \in Worker : Claim(w) \/ Local(w) \/ Answered(w) \/ CallFails(w) \/ Crash(w)
  <2>1. PICK w \in Worker :
          Claim(w) \/ Local(w) \/ Answered(w) \/ CallFails(w) \/ Crash(w)
    BY <1>1
  <2>2. CASE Claim(w)
    BY <2>2, ClaimType
  <2>3. CASE Local(w)
    BY <2>3, PollType, CleanupType, DispatchType, RunningType DEF Local
  <2>4. CASE Answered(w)
    BY <2>4, CleanupType, DispatchType, RunningType DEF Answered
  <2>5. CASE CallFails(w) \/ Crash(w)
    BY <2>5, RunningType
  <2> QED
    BY <2>1, <2>2, <2>3, <2>4, <2>5
<1>2. CASE UNCHANGED vars
  BY <1>2, TypeParts, DbSame, EnvSame, OcSame, LocalSame, FaultSame DEF vars
<1> QED
  BY <1>1, <1>2, EnvironmentType DEF Next

\* Every reachable state is well typed, for any number of workers and sessions:
\* no interleaving of handlers, failures and late calls leaves the row, the
\* lease snapshots or the server's bookkeeping outside their domains.
THEOREM TypeCorrect == Spec => []TypeOK
<1>1. QED
  BY InitType, StepType, PTL DEF Spec

-----------------------------------------------------------------------------
(* The inductive invariant: what a worker's snapshot still says of the row  *)
(* as long as the lease it was taken under is the row's current one.        *)

Current(w) == pc[w] # "idle" /\ run.owner = w /\ run.gen = job[w].gen

\* Program points of dispatch_execution that know a session, and those of the
\* running half of poll_execution.
Dispatching == {"lookup", "safety", "reverify", "authorize", "prompting", "mark"}
Serving == {"observe", "stallAbort", "gate", "follow", "following", "apply"}

SnapshotHolds(w) ==
    /\ pc[w] \in Serving => job[w].status = "running"
    /\ pc[w] \in Dispatching \cup {"persist"} => job[w].known \in Session
    /\ Current(w) /\ pc[w] \in Dispatching => run.session = job[w].known
    /\ Current(w) /\ job[w].status = "running"
         => run.session = job[w].session /\ run.status # "queued"
    /\ Current(w) /\ pc[w] \in {"authorize", "prompting"} => run.verified

RunningVerified == run.status \in {"running", "completed"} => run.verified

\* One worker's part of OneWorkerPerGeneration and of PromptStaysAuthorized.
Generations(w) ==
    /\ pc[w] # "idle" => job[w].gen <= run.gen
    /\ \A v \in Worker \ {w} :
          pc[v] # "idle" /\ pc[w] # "idle" => job[v].gen # job[w].gen

Authorized(w) ==
    pc[w] \in Locking =>
        /\ trusted /\ ~run.cancel /\ run.status \in Active
        /\ run.owner = w /\ run.gen = job[w].gen
        /\ run.session = IF pc[w] = "prompting" THEN job[w].known ELSE job[w].session
        /\ \A v \in Worker \ {w} : pc[v] \notin Locking

Fenced(w) == SnapshotHolds(w) /\ Generations(w) /\ Authorized(w)

FencedInv == TypeOK /\ RunningVerified /\ \A w \in Worker : Fenced(w)

\* The two checked invariants are parts of the inductive one.
LEMMA FencedImplies ==
    FencedInv => OneWorkerPerGeneration /\ PromptStaysAuthorized
BY DEF FencedInv, Fenced, Generations, Authorized, OneWorkerPerGeneration,
       PromptStaysAuthorized

-----------------------------------------------------------------------------
(* How the shared pieces of the worker's code move it.                      *)

\* A step of w leaves the other workers alone.
Others(w) == \A v \in Worker \ {w} : pc'[v] = pc[v] /\ job'[v] = job[v]

\* The lease snapshot of w stays as claim_available took it.
Kept(w) ==
    /\ job'[w].gen = job[w].gen /\ job'[w].status = job[w].status
    /\ job'[w].session = job[w].session /\ job'[w].cancel = job[w].cancel

\* What a terminal transaction does to the row.
Ends ==
    /\ run'.status \in Terminal
    /\ run'.status = "completed" => run.status = "running"
    /\ run'.status = "cancelled" => run.cancel
    /\ run'.owner = NoWorker /\ run'.gen \in {run.gen, run.gen + 1}
    /\ run'.session = run.session /\ run'.verified = run.verified
    /\ run'.cancel = run.cancel

LEMMA GotoMoves ==
    ASSUME LocalType, NEW w \in Worker, NEW p, Goto(w, p)
    PROVE  Others(w) /\ pc'[w] = p /\ job' = job
BY DEF LocalType, Goto, Others

LEMMA GotoWithMoves ==
    ASSUME LocalType, NEW w \in Worker, NEW p, NEW j, GotoWith(w, p, j)
    PROVE  Others(w) /\ pc'[w] = p /\ job'[w] = j
BY DEF LocalType, GotoWith, Others

LEMMA LeaveMoves ==
    ASSUME LocalType, NEW w \in Worker, Leave(w)
    PROVE  Others(w) /\ pc'[w] = "idle"
BY GotoWithMoves DEF Leave

LEMMA KnowMoves ==
    ASSUME LocalType, NEW w \in Worker, NEW p, NEW s,
           GotoWith(w, p, [job[w] EXCEPT !.known = s])
    PROVE  /\ Others(w) /\ pc'[w] = p /\ Kept(w)
           /\ job'[w].known = s /\ job'[w].was = job[w].was
<1> DEFINE j == [job[w] EXCEPT !.known = s]
<1>1. Others(w) /\ pc'[w] = p /\ job'[w] = j
  BY GotoWithMoves
<1>2. /\ j.gen = job[w].gen /\ j.status = job[w].status
      /\ j.session = job[w].session /\ j.cancel = job[w].cancel /\ j.known = s
      /\ j.was = job[w].was
  BY DEF LocalType, Job
<1> QED
  BY <1>1, <1>2 DEF Kept

LEMMA AgainMoves ==
    ASSUME LocalType, NEW w \in Worker, Again(w)
    PROVE  Others(w) /\ pc'[w] = "poll" /\ Kept(w)
<1> DEFINE j == [job[w] EXCEPT !.known = NoSession, !.todo = {}, !.was = FALSE,
                               !.seen = "none"]
<1>1. Others(w) /\ pc'[w] = "poll" /\ job'[w] = j
  BY GotoWithMoves DEF Again
<1>2. /\ j.gen = job[w].gen /\ j.status = job[w].status
      /\ j.session = job[w].session /\ j.cancel = job[w].cancel
  BY DEF LocalType, Job
<1> QED
  BY <1>1, <1>2 DEF Kept

LEMMA AgainIfMoves ==
    ASSUME LocalType, NEW w \in Worker, NEW b, AgainIf(w, b)
    PROVE  Others(w) /\ (pc'[w] = "idle" \/ (pc'[w] = "poll" /\ Kept(w)))
BY AgainMoves, LeaveMoves DEF AgainIf

LEMMA FinishEnds ==
    ASSUME DbType, NEW status \in Terminal, NEW stage, NEW t,
           status = "completed" => run.status = "running",
           status = "cancelled" => run.cancel, Finish(status, stage, t)
    PROVE  Ends
BY DEF DbType, Row, Finish, Ends

LEMMA RejectBindingEnds ==
    ASSUME DbType, RejectBinding
    PROVE  Ends
<1>1. run.gen + 1 \in Nat
  BY DEF DbType, Row
<1> QED
  BY <1>1 DEF DbType, Row, RejectBinding, Ends, Terminal

LEMMA FinishIfMoves ==
    ASSUME DbType, LocalType, NEW w \in Worker, NEW b, NEW status \in Terminal,
           NEW stage, NEW t, status # "completed", b /\ status = "cancelled" => run.cancel,
           FinishIf(w, b, status, stage, t)
    PROVE  Others(w) /\ pc'[w] = "idle" /\ (run' = run \/ Ends)
BY LeaveMoves, FinishEnds DEF FinishIf, db

LEMMA RejectIfMoves ==
    ASSUME DbType, LocalType, NEW w \in Worker, NEW b, RejectIf(w, b)
    PROVE  Others(w) /\ pc'[w] = "idle" /\ (run' = run \/ Ends)
BY LeaveMoves, RejectBindingEnds DEF RejectIf, db

-----------------------------------------------------------------------------
(* Calm steps.                                                              *)

\* Where a calm step may take w: nowhere that claims a new authority.
Modest(w) ==
    /\ pc[w] # "idle" /\ Kept(w)
    /\ pc'[w] \notin {"prompting", "following", "authorize"}
    /\ pc'[w] \in Serving => job[w].status = "running"
    /\ pc'[w] = "persist" => job'[w].known \in Session
    /\ pc'[w] \in Dispatching =>
          pc[w] \in Dispatching /\ job'[w].known = job[w].known

Calm(w) ==
    /\ Others(w) /\ trusted' = trusted
    /\ run' = run \/ (Unlocked(w) /\ Ends)
    /\ pc'[w] = "idle" \/ Modest(w)

LEMMA CalmKeeps ==
    ASSUME FencedInv, TypeOK', NEW w \in Worker, Calm(w)
    PROVE  FencedInv'
<1>1. run \in Row /\ run' \in Row /\ job \in [Worker -> Job] /\ job' \in [Worker -> Job]
  BY DEF FencedInv, TypeOK
<1>2. RunningVerified'
  BY <1>1 DEF FencedInv, RunningVerified, Calm, Ends, Terminal, Row
<1>3. ASSUME NEW v \in Worker PROVE SnapshotHolds(v)'
  <2>1. pc'[v] # "idle" =>
          /\ pc[v] # "idle" /\ job'[v].gen = job[v].gen
          /\ job'[v].status = job[v].status /\ job'[v].session = job[v].session
    BY <1>3 DEF Calm, Modest, Kept, Others
  <2>2. CASE run' # run
    <3>1. ~(Current(v)')
      BY <2>2, NullAssumption DEF Calm, Ends, Current
    <3>2. pc'[v] \in Serving => job'[v].status = "running"
      BY <1>3, <2>1 DEF FencedInv, Fenced, SnapshotHolds, Calm, Modest, Others, Serving
    <3>3. pc'[v] \in Dispatching \cup {"persist"} => job'[v].known \in Session
      BY <1>3 DEF FencedInv, Fenced, SnapshotHolds, Calm, Modest, Others, Dispatching
    <3> QED
      BY <3>1, <3>2, <3>3 DEF SnapshotHolds
  <2>3. CASE run' = run
    <3>1. Current(v)' => Current(v)
      BY <2>1, <2>3 DEF Current
    <3>2. CASE v = w
      <4>1. SnapshotHolds(w)
        BY DEF FencedInv, Fenced
      <4>2. CASE pc'[w] = "idle"
        BY <3>2, <4>2 DEF SnapshotHolds, Current, Dispatching, Serving
      <4>3. CASE Modest(w)
        <5>1. pc'[w] \notin {"authorize", "prompting"}
          BY <4>3 DEF Modest
        <5>2. pc'[w] \in Serving => job'[w].status = "running"
          BY <4>3 DEF Modest, Kept
        <5>3. pc'[w] \in Dispatching => pc[w] \in Dispatching /\ job'[w].known = job[w].known
          BY <4>3 DEF Modest
        <5>4. pc'[w] = "persist" => job'[w].known \in Session
          BY <4>3 DEF Modest
        <5> QED
          BY <2>1, <2>3, <3>1, <3>2, <4>1, <5>1, <5>2, <5>3, <5>4 DEF SnapshotHolds, Current
      <4> QED
        BY <4>2, <4>3 DEF Calm
    <3>3. CASE v # w
      <4>1. pc'[v] = pc[v] /\ job'[v] = job[v]
        BY <1>3, <3>3 DEF Calm, Others
      <4>2. SnapshotHolds(v)
        BY <1>3 DEF FencedInv, Fenced
      <4> QED
        BY <2>3, <3>1, <4>1, <4>2 DEF SnapshotHolds, Serving, Dispatching
    <3> QED
      BY <3>2, <3>3
  <2> QED
    BY <2>2, <2>3
<1>4. ASSUME NEW v \in Worker PROVE Generations(v)'
  <2>1. run'.gen >= run.gen /\ run.gen \in Nat /\ run'.gen \in Nat
    BY <1>1 DEF Calm, Ends, Row
  <2>2. \A u \in Worker : pc'[u] # "idle" => pc[u] # "idle" /\ job'[u].gen = job[u].gen
    BY DEF Calm, Modest, Kept, Others
  <2>3. \A u \in Worker : job[u].gen \in Nat
    BY <1>1 DEF Job
  <2> QED
    BY <1>4, <2>1, <2>2, <2>3 DEF FencedInv, Fenced, Generations
<1>5. ASSUME NEW v \in Worker PROVE Authorized(v)'
  <2>1. \A u \in Worker : pc'[u] \in Locking => u # w /\ pc[u] \in Locking
    BY DEF Calm, Modest, Others, Locking
  <2>2. CASE pc'[v] \in Locking
    <3>1. v # w /\ pc[v] \in Locking /\ run' = run
      BY <1>5, <2>1, <2>2 DEF Calm, Unlocked
    <3> QED
      BY <1>5, <2>1, <3>1 DEF FencedInv, Fenced, Authorized, Calm, Others
  <2> QED
    BY <2>2 DEF Authorized
<1> QED
  BY <1>2, <1>3, <1>4, <1>5 DEF FencedInv, Fenced

-----------------------------------------------------------------------------
(* The calm steps of the code.                                              *)

LEMMA NextTargetMoves ==
    ASSUME LocalType, NEW w \in Worker, NEW p, NEW b, NEW todo, NextTarget(w, p, b, todo)
    PROVE  Others(w) /\ (pc'[w] = "idle" \/ (pc'[w] = p /\ Kept(w)))
<1>1. CASE b
  <2>1. PICK s \in todo :
          GotoWith(w, p, [job[w] EXCEPT !.known = s, !.todo = todo \ {s}])
    BY <1>1 DEF NextTarget
  <2> DEFINE j == [job[w] EXCEPT !.known = s, !.todo = todo \ {s}]
  <2>2. Others(w) /\ pc'[w] = p /\ job'[w] = j
    BY <2>1, GotoWithMoves
  <2>3. /\ j.gen = job[w].gen /\ j.status = job[w].status
        /\ j.session = job[w].session /\ j.cancel = job[w].cancel
    BY DEF LocalType, Job
  <2> QED
    BY <2>2, <2>3 DEF Kept
<1>2. CASE ~b
  BY <1>2, LeaveMoves DEF NextTarget
<1> QED
  BY <1>1, <1>2

LEMMA CancelNextMoves ==
    ASSUME DbType, LocalType, NEW w \in Worker, NEW todo, CancelNext(w, todo)
    PROVE  /\ Others(w) /\ (run' = run \/ Ends)
           /\ pc'[w] = "idle" \/ (pc'[w] = "cancelAbort" /\ Kept(w))
<1>1. CASE todo = {}
  BY <1>1, FinishIfMoves DEF CancelNext, Cancelled, Terminal
<1>2. CASE todo # {}
  BY <1>2, NextTargetMoves DEF CancelNext, db
<1> QED
  BY <1>1, <1>2

LEMMA TimeoutNextMoves ==
    ASSUME DbType, LocalType, NEW w \in Worker, NEW todo, TimeoutNext(w, todo)
    PROVE  /\ Others(w) /\ (run' = run \/ Ends)
           /\ pc'[w] = "idle" \/ (pc'[w] = "timeoutAbort" /\ Kept(w))
<1>1. CASE todo = {}
  BY <1>1, FinishIfMoves DEF TimeoutNext, TimedOut, Terminal
<1>2. CASE todo # {}
  BY <1>2, NextTargetMoves DEF TimeoutNext, db
<1> QED
  BY <1>1, <1>2

\* Where the cleanup of w is, and where its steps take it.
Cleaning == {"cancel", "cancelList", "cancelAbort", "cancelDelete", "cancelAbortAgain",
             "timeout", "timeoutList", "timeoutAbort"}

LEMMA CleanupMoves ==
    ASSUME TypeOK, NEW w \in Worker,
           \/ CancelStart(w) \/ CancelList(w) \/ CancelAbort(w) \/ CancelDelete(w)
           \/ CancelAbortAgain(w) \/ TimeoutStart(w) \/ TimeoutList(w) \/ TimeoutAbort(w)
           \/ StallAbort(w)
    PROVE  /\ Others(w) /\ trusted' = trusted /\ pc[w] # "idle"
           /\ run' = run \/ (Unlocked(w) /\ Ends)
           /\ pc'[w] = "idle" \/ (pc'[w] \in Cleaning /\ Kept(w))
<1>0. DbType /\ LocalType
  BY TypeParts
<1>1. /\ trusted' = trusted /\ pc[w] # "idle" /\ Unlocked(w)
  BY DEF CancelStart, CancelList, CancelAbort, CancelDelete, CancelAbortAgain,
         TimeoutStart, TimeoutList, TimeoutAbort, StallAbort, env
<1>2. /\ Others(w) /\ (run' = run \/ Ends)
      /\ pc'[w] = "idle" \/ (pc'[w] \in Cleaning /\ Kept(w))
  <2>1. CASE CancelStart(w) \/ TimeoutStart(w)
    BY <1>0, <2>1, LeaveMoves, GotoMoves, NextTargetMoves
    DEF CancelStart, TimeoutStart, Cleaning, Kept, db
  <2>2. CASE CancelList(w) \/ CancelAbortAgain(w)
    BY <1>0, <2>2, CancelNextMoves DEF CancelList, CancelAbortAgain, Cleaning
  <2>3. CASE CancelAbort(w) \/ CancelDelete(w)
    BY <1>0, <2>3, LeaveMoves, GotoMoves, CancelNextMoves
    DEF CancelAbort, CancelDelete, Cleaning, Kept, db
  <2>4. CASE TimeoutList(w) \/ TimeoutAbort(w)
    BY <1>0, <2>4, TimeoutNextMoves DEF TimeoutList, TimeoutAbort, Cleaning
  <2>5. CASE StallAbort(w)
    BY <1>0, <2>5, FinishIfMoves DEF StallAbort, Terminal
  <2> QED
    BY <2>1, <2>2, <2>3, <2>4, <2>5
<1> QED
  BY <1>1, <1>2

LEMMA CleanupCalm ==
    ASSUME TypeOK, NEW w \in Worker,
           \/ CancelStart(w) \/ CancelList(w) \/ CancelAbort(w) \/ CancelDelete(w)
           \/ CancelAbortAgain(w) \/ TimeoutStart(w) \/ TimeoutList(w) \/ TimeoutAbort(w)
           \/ StallAbort(w)
    PROVE  Calm(w)
BY CleanupMoves DEF Calm, Modest, Cleaning, Serving, Dispatching

\* Steps that only read, and failures: none writes the row.
LEMMA FailureMoves ==
    ASSUME LocalType, NEW w \in Worker, CallFails(w) \/ Crash(w)
    PROVE  /\ Others(w) /\ trusted' = trusted /\ run' = run /\ pc[w] # "idle"
           /\ pc'[w] = "idle" \/ (pc'[w] = "poll" /\ Kept(w))
<1>1. CASE CallFails(w)
  <2>1. "idle" \notin Call
    BY DEF Call
  <2> QED
    BY <1>1, <2>1, AgainIfMoves DEF CallFails, db, env
<1>2. CASE Crash(w)
  BY <1>2, LeaveMoves DEF Crash, db, env
<1> QED
  BY <1>1, <1>2

LEMMA FailureCalm ==
    ASSUME TypeOK, NEW w \in Worker, CallFails(w) \/ Crash(w)
    PROVE  Calm(w)
BY TypeParts, FailureMoves DEF Calm, Modest, Serving, Dispatching

LEMMA PollCalm ==
    ASSUME TypeOK, NEW w \in Worker, Poll(w)
    PROVE  Calm(w)
<1>0. LocalType /\ job[w] \in Job
  BY TypeParts DEF LocalType
<1> DEFINE p == IF job[w].cancel THEN "cancel" ELSE IF overdue THEN "timeout"
                ELSE IF job[w].status = "queued" THEN "dispatch" ELSE "observe"
<1>1. Others(w) /\ pc'[w] = p /\ job' = job
  BY <1>0, GotoMoves DEF Poll
<1>2. run' = run /\ trusted' = trusted /\ pc[w] # "idle"
  BY DEF Poll, db, env
<1>3. /\ p \notin {"prompting", "following", "authorize"} /\ p \notin Dispatching
      /\ p \in Serving => job[w].status = "running"
  BY <1>0 DEF Dispatching, Serving, Job, Active
<1> QED
  BY <1>1, <1>2, <1>3 DEF Calm, Modest, Kept

\* Observe, Gate, FollowUp and Apply end the run, serve on, or start a cleanup.
LEMMA ServingMoves ==
    ASSUME DbType, LocalType, NEW w \in Worker,
           Observe(w) \/ Gate(w) \/ FollowUp(w) \/ Apply(w)
    PROVE  /\ pc[w] \in Serving /\ pc[w] # "idle" /\ trusted' = trusted
           /\ Others(w) /\ (run' = run \/ (Unlocked(w) /\ Ends))
           /\ pc'[w] = "idle" \/ (pc'[w] \in {"poll", "stallAbort", "gate", "apply", "follow",
                                              "cancel", "timeout"} /\ Kept(w))
<1>0. job[w] \in Job
  BY DEF LocalType
<1>1. pc[w] \in Serving /\ pc[w] # "idle" /\ trusted' = trusted
  BY DEF Observe, Gate, FollowUp, Apply, Serving, env
<1>2. /\ Others(w) /\ (run' = run \/ (Unlocked(w) /\ Ends))
      /\ pc'[w] = "idle" \/ (pc'[w] \in {"poll", "stallAbort", "gate", "apply", "follow",
                                         "cancel", "timeout"} /\ Kept(w))
  <2>1. CASE Observe(w)
    <3> DEFINE j == [job[w] EXCEPT !.seen = Seen(job[w].session)]
    <3>1. /\ j.gen = job[w].gen /\ j.status = job[w].status
          /\ j.session = job[w].session /\ j.cancel = job[w].cancel
      BY <1>0 DEF Job
    <3>2. run' = run
      BY <2>1 DEF Observe, db
    <3>3. \/ AgainIf(w, Beats(w)) \/ Goto(w, "stallAbort") \/ Leave(w)
          \/ GotoWith(w, "timeout", j) \/ GotoWith(w, "gate", j) \/ GotoWith(w, "apply", j)
      BY <2>1 DEF Observe
    <3> HIDE DEF j
    <3> QED
      BY <1>0, <3>1, <3>2, <3>3, AgainIfMoves, GotoMoves, LeaveMoves, GotoWithMoves DEF Kept
  <2>2. CASE Gate(w)
    BY <1>0, <2>2, GotoMoves, AgainIfMoves, FinishIfMoves DEF Gate, FailGate, Terminal, Kept, db
  <2>3. CASE FollowUp(w)
    BY <1>0, <2>3, AgainMoves, AgainIfMoves DEF FollowUp, db
  <2>4. CASE Apply(w)
    BY <1>0, <2>4, LeaveMoves, GotoMoves, AgainMoves, FinishEnds
    DEF Apply, Terminal, Kept, db
  <2> QED
    BY <2>1, <2>2, <2>3, <2>4
<1> QED
  BY <1>1, <1>2

LEMMA ServingCalm ==
    ASSUME FencedInv, NEW w \in Worker,
           Observe(w) \/ Gate(w) \/ FollowUp(w) \/ Apply(w)
    PROVE  Calm(w)
<1>1. DbType /\ LocalType
  BY TypeParts DEF FencedInv
<1>2. pc[w] \in Serving => job[w].status = "running"
  BY DEF FencedInv, Fenced, SnapshotHolds
<1> QED
  BY <1>1, <1>2, ServingMoves DEF Calm, Modest, Dispatching

\* The steps of dispatch_execution that neither write the row nor claim authority.
LEMMA ReadingCalm ==
    ASSUME FencedInv, NEW w \in Worker,
           ListSessions(w) \/ CreateSession(w) \/ LookupMessage(w) \/ Prompt(w)
    PROVE  Calm(w)
<1>0. DbType /\ LocalType /\ job[w] \in Job /\ pc[w] # "idle"
  BY TypeParts DEF LocalType, FencedInv, ListSessions, CreateSession, LookupMessage, Prompt
<1>a. open \subseteq Session
  BY DEF FencedInv, TypeOK
<1>1. run' = run /\ trusted' = trusted
  BY DEF ListSessions, CreateSession, LookupMessage, Prompt, db, env
<1>3. CASE ListSessions(w)
  <2>1. \/ AgainIf(w, Beats(w)) \/ Goto(w, "create") \/ Leave(w)
        \/ \E s \in open : GotoWith(w, "persist", [job[w] EXCEPT !.known = s])
    BY <1>3 DEF ListSessions
  <2>2. /\ Others(w)
        /\ \/ pc'[w] = "idle"
           \/ pc'[w] \in {"poll", "create"} /\ Kept(w)
           \/ pc'[w] = "persist" /\ job'[w].known \in open /\ Kept(w)
    <3>1. CASE AgainIf(w, Beats(w)) \/ Goto(w, "create") \/ Leave(w)
      BY <1>0, <3>1, AgainIfMoves, GotoMoves, LeaveMoves DEF Kept
    <3>2. CASE \E s \in open : GotoWith(w, "persist", [job[w] EXCEPT !.known = s])
      <4>1. PICK s \in open : GotoWith(w, "persist", [job[w] EXCEPT !.known = s])
        BY <3>2
      <4> QED
        BY <1>0, <4>1, KnowMoves
    <3> QED
      BY <2>1, <3>1, <3>2
  <2> QED
    BY <1>0, <1>a, <1>1, <2>2 DEF Calm, Modest, Serving, Dispatching
<1>4. CASE CreateSession(w)
  <2>0. PICK s \in Session : GotoWith(w, "persist", [job[w] EXCEPT !.known = s])
    BY <1>4 DEF CreateSession
  <2>1. Others(w) /\ pc'[w] = "persist" /\ job'[w].known \in Session /\ Kept(w)
    <3>1. Others(w) /\ pc'[w] = "persist" /\ Kept(w) /\ job'[w].known = s
      BY <1>0, <2>0, KnowMoves
    <3> QED
      BY <3>1
  <2> QED
    BY <1>0, <1>1, <2>1 DEF Calm, Modest, Serving, Dispatching
<1>5. CASE LookupMessage(w)
  <2>1. Others(w) /\ job' = job /\ pc'[w] \in {"timeout", "reverify", "mark", "safety"}
    BY <1>0, <1>5, GotoMoves DEF LookupMessage
  <2>2. pc[w] \in Dispatching
    BY <1>5 DEF LookupMessage, Dispatching
  <2> QED
    BY <1>0, <1>1, <2>1, <2>2 DEF Calm, Modest, Kept, Serving, Dispatching
<1>6. CASE Prompt(w)
  <2>1. Others(w) /\ (pc'[w] = "idle" \/ (pc'[w] = "poll" /\ Kept(w))
                        \/ (pc'[w] = "mark" /\ job' = job))
    BY <1>0, <1>6, GotoMoves, AgainIfMoves DEF Prompt
  <2>2. pc[w] \in Dispatching
    BY <1>6 DEF Prompt, Dispatching
  <2> QED
    BY <1>0, <1>1, <2>1, <2>2 DEF Calm, Modest, Kept, Serving, Dispatching
<1> QED
  BY <1>3, <1>4, <1>5, <1>6

-----------------------------------------------------------------------------
(* The steps that write the row or take an authority.                       *)

\* An owner's transaction, with no gate open elsewhere: what is left to show
\* is that its own snapshot still holds.
LEMMA WriteKeeps ==
    ASSUME FencedInv, TypeOK', NEW w \in Worker, pc[w] # "idle",
           Others(w), Kept(w) \/ pc'[w] = "idle", Unlocked(w),
           pc'[w] \notin Locking, trusted' = trusted,
           run'.owner \in {w, NoWorker}, run'.gen >= run.gen,
           SnapshotHolds(w)', RunningVerified'
    PROVE  FencedInv'
<1>1. /\ run.gen \in Nat /\ run'.gen \in Nat
      /\ \A u \in Worker : job[u].gen \in Nat /\ job'[u].gen \in Nat
  BY DEF FencedInv, TypeOK, Row, Job
<1>2. ASSUME NEW v \in Worker, v # w PROVE SnapshotHolds(v)'
  <2>1. pc'[v] = pc[v] /\ job'[v] = job[v]
    BY <1>2 DEF Others
  <2>2. ~(Current(v)')
    BY <1>2, NullAssumption DEF Current
  <2> QED
    BY <1>2, <2>1, <2>2 DEF FencedInv, Fenced, SnapshotHolds
<1>3. ASSUME NEW v \in Worker PROVE Generations(v)'
  <2>1. \A u \in Worker : pc'[u] # "idle" => pc[u] # "idle" /\ job'[u].gen = job[u].gen
    BY DEF Kept, Others
  <2> QED
    BY <1>1, <1>3, <2>1 DEF FencedInv, Fenced, Generations
<1>4. ASSUME NEW v \in Worker PROVE Authorized(v)'
  BY <1>4 DEF Authorized, Unlocked, Others
<1> QED
  BY <1>2, <1>3, <1>4 DEF FencedInv, Fenced

\* A verified directory: the row records it, and w goes on with its own session.
LEMMA VerifyKeeps ==
    ASSUME FencedInv, TypeOK', NEW w \in Worker, NEW p \in {"list", "lookup", "authorize"},
           NEW j \in Job, VerifyWorkspace(w, p, j), Unlocked(w), trusted' = trusted,
           pc[w] # "idle", j.gen = job[w].gen, j.status = job[w].status,
           j.session = job[w].session, j.cancel = job[w].cancel,
           p \in {"lookup", "authorize"} => j.known \in Session,
           p \in {"lookup", "authorize"} /\ Current(w) => run.session = j.known
    PROVE  FencedInv'
<1>0. DbType /\ LocalType /\ run \in Row
  BY TypeParts DEF FencedInv, DbType
<1>1. CASE dirty \/ ~(Owned(w) /\ run.status = "queued")
  <2>1. Calm(w)
    BY <1>0, <1>1, RejectIfMoves, LeaveMoves DEF VerifyWorkspace, Calm, db
  <2> QED
    BY <2>1, CalmKeeps
<1>2. CASE ~dirty /\ Owned(w) /\ run.status = "queued"
  <2>1. run' = [run EXCEPT !.verified = TRUE] /\ GotoWith(w, p, j)
    BY <1>2 DEF VerifyWorkspace
  <2>2. /\ run'.owner = run.owner /\ run'.gen = run.gen /\ run'.status = run.status
        /\ run'.session = run.session /\ run'.verified
    BY <1>0, <2>1 DEF Row
  <2>3. Others(w) /\ pc'[w] = p /\ job'[w] = j
    BY <1>0, <2>1, GotoWithMoves
  <2>4. Current(w) /\ run.owner = w /\ job[w].status # "running"
    BY <1>2 DEF Owned, Current, FencedInv, Fenced, SnapshotHolds
  <2>5. SnapshotHolds(w)'
    BY <2>2, <2>3, <2>4 DEF SnapshotHolds, Current, Serving, Dispatching
  <2>6. RunningVerified'
    BY <2>2 DEF RunningVerified
  <2> QED
    BY <1>0, <2>2, <2>3, <2>4, <2>5, <2>6, WriteKeeps DEF Kept, Locking, Row
<1> QED
  BY <1>1, <1>2

LEMMA VerifyingKeeps ==
    ASSUME FencedInv, TypeOK', NEW w \in Worker, DispatchStart(w) \/ Reverify(w)
    PROVE  FencedInv'
<1>0. /\ DbType /\ LocalType /\ job[w] \in Job /\ run \in Row
      /\ Unlocked(w) /\ trusted' = trusted /\ pc[w] # "idle"
  BY TypeParts DEF FencedInv, LocalType, DbType, DispatchStart, Reverify, env
<1>1. CASE DispatchStart(w)
  <2> DEFINE p == IF run.session = NoSession THEN "list" ELSE "lookup"
             j == [job[w] EXCEPT !.known = run.session, !.was = run.verified]
  <2>1. CASE ~(Owned(w) /\ run.status = "queued")
    <3>1. Calm(w)
      BY <1>0, <1>1, <2>1, LeaveMoves DEF DispatchStart, Calm, db
    <3> QED
      BY <3>1, CalmKeeps
  <2>2. CASE Owned(w) /\ run.status = "queued"
    <3>1. VerifyWorkspace(w, p, j)
      BY <1>1, <2>2 DEF DispatchStart
    <3>2. p \in {"list", "lookup", "authorize"} /\ p # "authorize"
      OBVIOUS
    <3>3. /\ j \in Job /\ j.gen = job[w].gen /\ j.status = job[w].status
          /\ j.session = job[w].session /\ j.cancel = job[w].cancel
          /\ j.known = run.session
      BY <1>0 DEF Job, Row
    <3>4. p = "lookup" => run.session \in Session
      BY <1>0 DEF Row
    <3> HIDE DEF p, j
    <3> QED
      BY <1>0, <3>1, <3>2, <3>3, <3>4, VerifyKeeps
  <2> QED
    BY <2>1, <2>2
<1>2. CASE Reverify(w)
  <2>1. pc[w] = "reverify" /\ VerifyWorkspace(w, "authorize", job[w])
    BY <1>2 DEF Reverify
  <2>2. job[w].known \in Session /\ (Current(w) => run.session = job[w].known)
    BY <2>1 DEF FencedInv, Fenced, SnapshotHolds, Dispatching
  <2> QED
    BY <1>0, <2>1, <2>2, VerifyKeeps
<1> QED
  BY <1>1, <1>2

LEMMA WritingKeeps ==
    ASSUME FencedInv, TypeOK', NEW w \in Worker,
           PersistSession(w) \/ SafetyCancel(w) \/ MarkDispatched(w)
    PROVE  FencedInv'
<1>0. /\ DbType /\ LocalType /\ job[w] \in Job /\ run \in Row
      /\ Unlocked(w) /\ trusted' = trusted /\ pc[w] # "idle"
  BY TypeParts DEF FencedInv, LocalType, DbType, PersistSession, SafetyCancel, MarkDispatched,
                   env
<1>1. SnapshotHolds(w) /\ RunningVerified
  BY DEF FencedInv, Fenced
<1>2. ASSUME run' = run, Leave(w) PROVE FencedInv'
  <2>1. Calm(w)
    BY <1>0, <1>2, LeaveMoves DEF Calm
  <2> QED
    BY <2>1, CalmKeeps
<1>3. CASE PersistSession(w)
  <2>1. CASE run' = [run EXCEPT !.session = job[w].known] /\ Goto(w, "lookup") /\ Beats(w)
             /\ run.status = "queued"
    <3>1. /\ run'.owner = run.owner /\ run'.gen = run.gen /\ run'.status = run.status
          /\ run'.session = job[w].known /\ run'.verified = run.verified
      BY <1>0, <2>1 DEF Row
    <3>2. Others(w) /\ pc'[w] = "lookup" /\ job' = job
      BY <1>0, <2>1, GotoMoves
    <3>3. pc[w] = "persist" /\ Current(w) /\ run.owner = w
      BY <1>0, <1>3, <2>1 DEF PersistSession, Beats, Owned, Current
    <3>4. SnapshotHolds(w)'
      BY <1>1, <2>1, <3>1, <3>2, <3>3 DEF SnapshotHolds, Current, Serving, Dispatching
    <3>5. RunningVerified'
      BY <1>1, <3>1 DEF RunningVerified
    <3> QED
      BY <1>0, <3>1, <3>2, <3>3, <3>4, <3>5, WriteKeeps DEF Kept, Locking, Row
  <2> QED
    BY <1>2, <1>3, <2>1 DEF PersistSession
<1>4. CASE SafetyCancel(w)
  <2>1. CASE run' = [run EXCEPT !.cancel = TRUE] /\ Goto(w, "cancel") /\ Owned(w)
    <3>1. /\ run'.owner = run.owner /\ run'.gen = run.gen /\ run'.status = run.status
          /\ run'.session = run.session /\ run'.verified = run.verified
      BY <1>0, <2>1 DEF Row
    <3>2. Others(w) /\ pc'[w] = "cancel" /\ job' = job
      BY <1>0, <2>1, GotoMoves
    <3>3. Current(w) /\ run.owner = w
      BY <1>0, <2>1 DEF Owned, Current
    <3>4. SnapshotHolds(w)'
      BY <1>1, <3>1, <3>2, <3>3 DEF SnapshotHolds, Current, Serving, Dispatching
    <3>5. RunningVerified'
      BY <1>1, <3>1 DEF RunningVerified
    <3> QED
      BY <1>0, <3>1, <3>2, <3>3, <3>4, <3>5, WriteKeeps DEF Kept, Locking, Row
  <2> QED
    BY <1>2, <1>4, <2>1 DEF SafetyCancel
<1>5. CASE MarkDispatched(w)
  <2>1. CASE Goto(w, "timeout") /\ run' = run
    <3>1. Calm(w)
      BY <1>0, <2>1, GotoMoves DEF Calm, Modest, Kept, Serving, Dispatching
    <3> QED
      BY <3>1, CalmKeeps
  <2>2. CASE Leave(w) /\ run.verified
             /\ run' = [run EXCEPT !.status = "running", !.owner = NoWorker, !.lease = "none"]
    <3>1. run'.owner = NoWorker /\ run'.gen = run.gen /\ run'.verified
      BY <1>0, <2>2 DEF Row
    <3>2. Others(w) /\ pc'[w] = "idle"
      BY <1>0, <2>2, LeaveMoves
    <3>3. SnapshotHolds(w)'
      BY <3>2 DEF SnapshotHolds, Current, Serving, Dispatching
    <3>4. RunningVerified'
      BY <3>1 DEF RunningVerified
    <3> QED
      BY <1>0, <3>1, <3>2, <3>3, <3>4, WriteKeeps DEF Locking, Row
  <2> QED
    BY <1>2, <1>5, <2>1, <2>2 DEF MarkDispatched
<1> QED
  BY <1>3, <1>4, <1>5

\* The two prompt gates: the only steps that open one, under both row locks.
LEMMA OpenGateKeeps ==
    ASSUME FencedInv, TypeOK', NEW w \in Worker, NEW p \in Locking, Goto(w, p), AllUnlocked,
           run' = run, trusted' = trusted, trusted, Beats(w), pc[w] # "idle",
           p = "prompting" => pc[w] = "authorize",
           p = "following" => pc[w] = "follow"
    PROVE  FencedInv'
<1>1. Others(w) /\ pc'[w] = p /\ job' = job
  BY TypeParts, GotoMoves DEF FencedInv
<1>2. SnapshotHolds(w) /\ Current(w)
  BY DEF FencedInv, Fenced, Beats, Owned, Current
<1>3. \A v \in Worker : SnapshotHolds(v)'
  <2>1. SnapshotHolds(w)'
    BY <1>1, <1>2 DEF SnapshotHolds, Current, Serving, Dispatching, Locking
  <2>2. ASSUME NEW v \in Worker, v # w PROVE SnapshotHolds(v)'
    <3>1. pc'[v] = pc[v] /\ job'[v] = job[v]
      BY <1>1, <2>2 DEF Others
    <3> QED
      BY <2>2, <3>1 DEF FencedInv, Fenced, SnapshotHolds, Current
  <2> QED
    BY <2>1, <2>2
<1>4. \A v \in Worker : Generations(v)'
  <2>1. \A u \in Worker : pc'[u] # "idle" => pc[u] # "idle"
    BY <1>1 DEF Others
  <2> QED
    BY <1>1, <2>1 DEF FencedInv, Fenced, Generations
<1>5. ASSUME NEW v \in Worker PROVE Authorized(v)'
  <2>1. \A u \in Worker \ {w} : pc'[u] \notin Locking
    BY <1>1 DEF AllUnlocked, Others
  <2>2. CASE v # w
    BY <1>5, <2>1, <2>2 DEF Authorized
  <2>3. CASE v = w
    <3>1. run.session = IF p = "prompting" THEN job[w].known ELSE job[w].session
      BY <1>2 DEF SnapshotHolds, Dispatching, Serving, Locking
    <3> QED
      BY <1>1, <2>1, <2>3, <3>1 DEF Authorized, Beats, Owned
  <2> QED
    BY <2>2, <2>3
<1>6. RunningVerified'
  BY DEF FencedInv, RunningVerified
<1> QED
  BY <1>3, <1>4, <1>5, <1>6 DEF FencedInv, Fenced

LEMMA GateKeeps ==
    ASSUME FencedInv, TypeOK', NEW w \in Worker, Authorize(w) \/ Follow(w)
    PROVE  FencedInv'
<1>0. /\ DbType /\ LocalType /\ AllUnlocked /\ Unlocked(w)
      /\ trusted' = trusted /\ pc[w] # "idle"
  BY TypeParts DEF FencedInv, Authorize, Follow, AllUnlocked, Unlocked, env
<1>1. ASSUME Others(w), run' = run \/ Ends,
             pc'[w] = "idle" \/ (pc'[w] = "timeout" /\ Kept(w))
      PROVE  FencedInv'
  <2>1. Calm(w)
    BY <1>0, <1>1 DEF Calm, Modest, Serving, Dispatching
  <2> QED
    BY <2>1, CalmKeeps
<1>2. CASE Authorize(w)
  <2>1. CASE ~trusted
    BY <1>0, <1>1, <1>2, <2>1, RejectIfMoves DEF Authorize
  <2>2. CASE trusted /\ (~(Beats(w) /\ run.status = "queued") \/ overdue)
    BY <1>0, <1>1, <1>2, <2>2, LeaveMoves, GotoMoves DEF Authorize, Kept, db
  <2>3. CASE trusted /\ Beats(w) /\ ~overdue /\ Goto(w, "prompting")
    BY <1>0, <1>2, <2>3, OpenGateKeeps DEF Authorize, Locking, db
  <2> QED
    BY <1>2, <2>1, <2>2, <2>3 DEF Authorize
<1>3. CASE Follow(w)
  <2>1. CASE FailGate(w)
    BY <1>0, <1>1, <2>1, FinishIfMoves DEF FailGate, Terminal
  <2>2. CASE UNCHANGED db /\ (Leave(w) \/ Goto(w, "timeout"))
    BY <1>0, <1>1, <2>2, LeaveMoves, GotoMoves DEF Kept, db
  <2>3. CASE trusted /\ Beats(w) /\ Goto(w, "following") /\ UNCHANGED db
    BY <1>0, <1>3, <2>3, OpenGateKeeps DEF Follow, Locking, db
  <2> QED
    BY <1>3, <2>1, <2>2, <2>3 DEF Follow
<1> QED
  BY <1>2, <1>3

\* A step that moves no worker: it may fence them all off, or leave them be.
LEMMA RowKeeps ==
    ASSUME FencedInv, TypeOK', UNCHANGED local,
           \/ /\ AllUnlocked /\ run'.owner = NoWorker /\ run'.gen >= run.gen
              /\ RunningVerified'
           \/ /\ trusted' = trusted \/ AllUnlocked
              /\ run'.status = run.status /\ run'.gen = run.gen /\ run'.owner = run.owner
              /\ run'.session = run.session /\ run'.cancel = run.cancel
              /\ run'.verified = run.verified
    PROVE  FencedInv'
<1>0. pc' = pc /\ job' = job
  BY DEF local
<1>1. CASE AllUnlocked /\ run'.owner = NoWorker /\ run'.gen >= run.gen /\ RunningVerified'
  <2>1. /\ run.gen \in Nat /\ run'.gen \in Nat /\ \A u \in Worker : job[u].gen \in Nat
    BY DEF FencedInv, TypeOK, Row, Job
  <2>2. ASSUME NEW v \in Worker PROVE SnapshotHolds(v)' /\ Generations(v)' /\ Authorized(v)'
    <3>1. SnapshotHolds(v)'
      BY <1>0, <1>1, <2>2, NullAssumption DEF FencedInv, Fenced, SnapshotHolds, Current
    <3>2. Generations(v)'
      BY <1>0, <1>1, <2>1, <2>2 DEF FencedInv, Fenced, Generations
    <3>3. Authorized(v)'
      BY <1>0, <1>1, <2>2 DEF AllUnlocked, Authorized
    <3> QED
      BY <3>1, <3>2, <3>3
  <2> QED
    BY <1>1, <2>2 DEF FencedInv, Fenced
<1>2. CASE /\ trusted' = trusted \/ AllUnlocked
           /\ run'.status = run.status /\ run'.gen = run.gen /\ run'.owner = run.owner
           /\ run'.session = run.session /\ run'.cancel = run.cancel
           /\ run'.verified = run.verified
  <2>1. ASSUME NEW v \in Worker PROVE SnapshotHolds(v)' /\ Generations(v)' /\ Authorized(v)'
    <3>1. SnapshotHolds(v)' /\ Generations(v)'
      BY <1>0, <1>2, <2>1 DEF FencedInv, Fenced, SnapshotHolds, Generations, Current
    <3>2. Authorized(v)'
      BY <1>0, <1>2, <2>1 DEF FencedInv, Fenced, Authorized, AllUnlocked
    <3> QED
      BY <3>1, <3>2
  <2> QED
    BY <1>2, <2>1 DEF FencedInv, Fenced, RunningVerified
<1> QED
  BY <1>1, <1>2

LEMMA ClaimKeeps ==
    ASSUME FencedInv, TypeOK', NEW w \in Worker, Claim(w)
    PROVE  FencedInv'
<1>0. /\ DbType /\ LocalType /\ run \in Row /\ run.gen \in Nat /\ run.status \in Active
      /\ \A u \in Worker : job[u].gen \in Nat
  BY TypeParts DEF FencedInv, DbType, LocalType, Row, Job, Claim, Claimable
<1>1. CASE workspace = "ready"
  <2> DEFINE j == [NoJob EXCEPT !.gen = run.gen + 1, !.status = run.status,
                                !.session = run.session, !.cancel = run.cancel]
  <2>1. run' = [run EXCEPT !.gen = run.gen + 1, !.owner = w, !.lease = "live"]
    BY <1>1 DEF Claim, NextGeneration
  <2>2. /\ run'.owner = w /\ run'.gen = run.gen + 1 /\ run'.status = run.status
        /\ run'.session = run.session /\ run'.verified = run.verified
    BY <1>0, <2>1 DEF Row
  <2>3. Others(w) /\ pc'[w] = "poll" /\ job'[w] = j
    BY <1>0, <1>1, GotoWithMoves DEF Claim, NextGeneration
  <2>4. j.gen = run.gen + 1 /\ j.status = run.status /\ j.session = run.session
    BY DEF NoJob
  <2> HIDE DEF j
  <2>5. SnapshotHolds(w)'
    BY <2>2, <2>3, <2>4 DEF SnapshotHolds, Current, Serving, Dispatching
  <2>6. ASSUME NEW v \in Worker, v # w PROVE SnapshotHolds(v)'
    <3>1. pc'[v] = pc[v] /\ job'[v] = job[v]
      BY <2>3, <2>6 DEF Others
    <3>2. ~(Current(v)')
      BY <2>2, <2>6 DEF Current
    <3> QED
      BY <2>6, <3>1, <3>2 DEF FencedInv, Fenced, SnapshotHolds
  <2>7. ASSUME NEW v \in Worker PROVE Generations(v)'
    <3>1. \A u \in Worker : pc[u] # "idle" => job[u].gen <= run.gen
      BY DEF FencedInv, Fenced, Generations
    <3>2. \A u \in Worker \ {w} : pc'[u] = pc[u] /\ job'[u] = job[u]
      BY <2>3 DEF Others
    <3>3. CASE v = w
      BY <1>0, <2>2, <2>3, <2>4, <3>1, <3>2, <3>3 DEF Generations
    <3>4. CASE v # w
      BY <1>0, <2>2, <2>3, <2>4, <2>7, <3>1, <3>2, <3>4 DEF FencedInv, Fenced, Generations
    <3> QED
      BY <3>3, <3>4
  <2>8. ASSUME NEW v \in Worker PROVE Authorized(v)'
    BY <2>3, <2>8 DEF Authorized, Claim, AllUnlocked, Others, Locking
  <2>9. RunningVerified'
    BY <2>2 DEF FencedInv, RunningVerified
  <2> QED
    BY <2>5, <2>6, <2>7, <2>8, <2>9 DEF FencedInv, Fenced
<1>2. CASE workspace # "ready"
  <2>1. RejectBinding /\ UNCHANGED local /\ AllUnlocked
    BY <1>2 DEF Claim
  <2>2. Ends
    BY <1>0, <2>1, RejectBindingEnds
  <2>3. RunningVerified' /\ run'.gen >= run.gen
    BY <1>0, <2>2 DEF FencedInv, RunningVerified, Ends, Terminal
  <2> QED
    BY <2>1, <2>2, <2>3, RowKeeps DEF Ends
<1> QED
  BY <1>1, <1>2

LEMMA EnvironmentKeeps ==
    ASSUME FencedInv, TypeOK',
           \/ LateArrives \/ AgentEdits \/ (\E s \in Session : AgentEnds(s))
           \/ ServerRestarts \/ RequestCancel \/ TrustChanges \/ Tamper
           \/ DeadlinePasses \/ LeaseLapses \/ LeasePreempted \/ Settled
    PROVE  FencedInv'
<1>0. run \in Row /\ run.gen \in Nat
  BY DEF FencedInv, TypeOK, Row
<1>1. UNCHANGED local
  BY DEF LateArrives, AgentEdits, AgentEnds, ServerRestarts, RequestCancel, TrustChanges,
         Tamper, DeadlinePasses, LeaseLapses, LeasePreempted, Settled, vars
<1>2. CASE RequestCancel
  <2>1. /\ run'.owner = NoWorker /\ run'.gen = run.gen + 1 /\ run'.status = run.status
        /\ run'.verified = run.verified
    BY <1>0, <1>2 DEF RequestCancel, Row
  <2>2. RunningVerified' /\ run'.gen >= run.gen
    BY <1>0, <2>1 DEF FencedInv, RunningVerified
  <2> QED
    BY <1>1, <1>2, <2>1, <2>2, RowKeeps DEF RequestCancel
<1>3. CASE LeaseLapses \/ LeasePreempted
  <2>1. trusted' = trusted /\ run' = [run EXCEPT !.lease = "expired"]
    BY <1>3 DEF LeaseLapses, LeasePreempted, env
  <2>2. /\ run'.status = run.status /\ run'.gen = run.gen /\ run'.owner = run.owner
        /\ run'.session = run.session /\ run'.cancel = run.cancel
        /\ run'.verified = run.verified
    BY <1>0, <2>1 DEF Row
  <2> QED
    BY <1>1, <2>1, <2>2, RowKeeps
<1>4. CASE TrustChanges
  BY <1>1, <1>4, RowKeeps DEF TrustChanges, db
<1>5. CASE \/ LateArrives \/ AgentEdits \/ (\E s \in Session : AgentEnds(s))
           \/ ServerRestarts \/ Tamper \/ DeadlinePasses \/ Settled
  <2>1. run' = run /\ trusted' = trusted
    BY <1>5 DEF LateArrives, AgentEdits, AgentEnds, ServerRestarts, Tamper, DeadlinePasses,
                Settled, vars, db, env
  <2> QED
    BY <1>1, <2>1, RowKeeps
<1> QED
  BY <1>2, <1>3, <1>4, <1>5

LEMMA FencedInit == Init => FencedInv
<1> SUFFICES ASSUME Init PROVE FencedInv
  OBVIOUS
<1>1. /\ \A w \in Worker : pc[w] = "idle"
      /\ run.status = "queued"
  BY DEF Init
<1>2. TypeOK
  BY InitType
<1> QED
  BY <1>1, <1>2
  DEF FencedInv, RunningVerified, Fenced, SnapshotHolds, Generations, Authorized, Current,
      Serving, Dispatching, Locking

LEMMA FencedStep == FencedInv /\ [Next]_vars => FencedInv'
<1> SUFFICES ASSUME FencedInv, [Next]_vars PROVE FencedInv'
  OBVIOUS
<1>0. TypeOK /\ TypeOK'
  BY StepType DEF FencedInv
<1>1. CASE \E w \in Worker : Claim(w) \/ Local(w) \/ Answered(w) \/ CallFails(w) \/ Crash(w)
  <2>1. PICK w \in Worker :
          Claim(w) \/ Local(w) \/ Answered(w) \/ CallFails(w) \/ Crash(w)
    BY <1>1
  <2>2. CASE Claim(w)
    BY <1>0, <2>2, ClaimKeeps
  <2>3. CASE Local(w)
    BY <1>0, <2>3, PollCalm, CleanupCalm, ServingCalm, VerifyingKeeps, WritingKeeps, GateKeeps,
       CalmKeeps DEF Local
  <2>4. CASE Answered(w)
    BY <1>0, <2>4, CleanupCalm, ReadingCalm, ServingCalm, CalmKeeps DEF Answered
  <2>5. CASE CallFails(w) \/ Crash(w)
    BY <1>0, <2>5, FailureCalm, CalmKeeps
  <2> QED
    BY <2>1, <2>2, <2>3, <2>4, <2>5
<1>2. CASE UNCHANGED vars
  BY <1>0, <1>2, RowKeeps DEF vars, db, env
<1> QED
  BY <1>0, <1>1, <1>2, EnvironmentKeeps DEF Next

LEMMA FencedAlways == Spec => []FencedInv
<1>1. QED
  BY FencedInit, FencedStep, PTL DEF Spec

\* A lease generation is never shared by two workers still at work, and none is
\* from the future: claim_available and the abort handler fence every older lease.
THEOREM GenerationsAreFenced == Spec => []OneWorkerPerGeneration
<1>1. QED
  BY FencedAlways, FencedImplies, PTL

\* From the moment a prompt gate lets a call go until it answers, the run is
\* active, uncancelled and owned by the caller, its repository is trusted, the
\* prompted session is the persisted one, and no other worker is prompting.
THEOREM PromptsAreAuthorized == Spec => []PromptStaysAuthorized
<1>1. QED
  BY FencedAlways, FencedImplies, PTL

-----------------------------------------------------------------------------
(* What any step does to the row, to a worker and to OpenCode's sessions.   *)

\* mark_dispatched records that inference was started.
Marks(w) ==
    /\ pc[w] = "mark" /\ ~run.cancel /\ run.status = "queued"
    /\ run.session = job[w].known /\ run.verified /\ UNCHANGED oc

Started == {"running", "completed"}

\* A session, a verification and a cancellation are never taken back; only the
\* abort handler and the safety cancellation cancel, only a claim gives the
\* lease to a worker, and only mark_dispatched makes a queued run running.  The
\* status never goes back to queued, completes only from running, is cancelled
\* only on request, and never moves together with the request.
RowMoves ==
    /\ \/ run'.session = run.session
       \/ /\ run.session = NoSession
          /\ \E w \in Worker : pc[w] = "persist" /\ run'.session = job[w].known /\ open' = open
    /\ run.verified => run'.verified
    /\ run.cancel => run'.cancel
    /\ run'.cancel =>
          \/ run.cancel \/ run'.owner = NoWorker
          \/ \E w \in Worker : pc[w] = "safety" /\ Owned(w)
    /\ \/ run'.owner = run.owner /\ run'.gen = run.gen
       \/ run'.owner = NoWorker
       \/ \E w \in Worker : run'.owner = w /\ Claim(w) /\ workspace = "ready"
    /\ run'.status \in Started => run.status \in Started \/ \E w \in Worker : Marks(w)
    /\ run'.status = "queued" => run.status = "queued"
    /\ run'.status = "completed" => run.status \in Started
    /\ run'.status = "cancelled" => run.status = "cancelled" \/ run.cancel
    /\ run'.status # run.status => run'.cancel = run.cancel

LEMMA EndsMoves == Ends => RowMoves
BY DEF Ends, RowMoves, Started, Terminal

LEMMA SameMoves == run' = run => RowMoves
BY DEF RowMoves, Started

LEMMA WriteMoves ==
    ASSUME TypeOK, NEW w \in Worker,
           \/ DispatchStart(w) \/ Reverify(w) \/ PersistSession(w) \/ SafetyCancel(w)
           \/ MarkDispatched(w) \/ Authorize(w) \/ Follow(w)
    PROVE  RowMoves
<1>0. DbType /\ LocalType /\ run \in Row
  BY TypeParts DEF DbType
<1>1. ASSUME NEW p, NEW j, VerifyWorkspace(w, p, j) PROVE RowMoves
  <2>1. CASE dirty
    BY <1>0, <1>1, <2>1, RejectIfMoves, EndsMoves, SameMoves DEF VerifyWorkspace
  <2>2. CASE ~dirty
    BY <1>0, <1>1, <2>2 DEF VerifyWorkspace, RowMoves, Row, Started, db
  <2> QED
    BY <2>1, <2>2
<1>2. CASE DispatchStart(w) \/ Reverify(w)
  BY <1>1, <1>2, SameMoves DEF DispatchStart, Reverify, db
<1>3. CASE PersistSession(w)
  BY <1>0, <1>3 DEF PersistSession, RowMoves, Row, Started, oc
<1>4. CASE SafetyCancel(w)
  BY <1>0, <1>4 DEF SafetyCancel, RowMoves, Row, Started
<1>5. CASE MarkDispatched(w)
  <2>1. CASE run' = run
    BY <2>1, SameMoves
  <2>2. CASE run' # run
    <3>1. Marks(w) /\ run' = [run EXCEPT !.status = "running", !.owner = NoWorker,
                                         !.lease = "none"]
      BY <1>5, <2>2 DEF MarkDispatched, Marks, Beats
    <3> QED
      BY <1>0, <3>1 DEF RowMoves, Row, Started
  <2> QED
    BY <2>1, <2>2
<1>6. CASE Authorize(w)
  BY <1>0, <1>6, RejectIfMoves, EndsMoves, SameMoves DEF Authorize, db
<1>7. CASE Follow(w)
  <2>1. CASE FailGate(w)
    BY <1>0, <2>1, FinishIfMoves, EndsMoves, SameMoves DEF FailGate, Terminal
  <2> QED
    BY <1>7, <2>1, SameMoves DEF Follow, db
<1> QED
  BY <1>2, <1>3, <1>4, <1>5, <1>6, <1>7

LEMMA RowStep ==
    ASSUME FencedInv, [Next]_vars
    PROVE  RowMoves
<1>0. TypeOK /\ DbType /\ LocalType /\ run \in Row
  BY TypeParts DEF FencedInv, DbType
<1>1. ASSUME NEW w \in Worker, Calm(w) PROVE RowMoves
  BY <1>1, EndsMoves, SameMoves DEF Calm
<1>2. CASE \E w \in Worker : Claim(w) \/ Local(w) \/ Answered(w) \/ CallFails(w) \/ Crash(w)
  <2>1. PICK w \in Worker :
          Claim(w) \/ Local(w) \/ Answered(w) \/ CallFails(w) \/ Crash(w)
    BY <1>2
  <2>2. CASE Claim(w)
    <3>1. CASE workspace = "ready"
      BY <1>0, <2>2, <3>1 DEF Claim, RowMoves, Row, Started
    <3>2. CASE workspace # "ready"
      BY <1>0, <2>2, <3>2, RejectBindingEnds, EndsMoves DEF Claim
    <3> QED
      BY <3>1, <3>2
  <2>3. CASE Local(w)
    BY <1>0, <1>1, <2>3, PollCalm, CleanupCalm, ServingCalm, WriteMoves DEF Local
  <2>4. CASE Answered(w)
    BY <1>0, <1>1, <2>4, CleanupCalm, ReadingCalm, ServingCalm DEF Answered
  <2>5. CASE CallFails(w) \/ Crash(w)
    BY <1>0, <1>1, <2>5, FailureCalm
  <2> QED
    BY <2>1, <2>2, <2>3, <2>4, <2>5
<1>3. CASE RequestCancel \/ LeaseLapses \/ LeasePreempted
  BY <1>0, <1>3 DEF RequestCancel, LeaseLapses, LeasePreempted, RowMoves, Row, Started
<1>4. CASE \/ LateArrives \/ AgentEdits \/ (\E s \in Session : AgentEnds(s))
           \/ ServerRestarts \/ TrustChanges \/ Tamper \/ DeadlinePasses \/ Settled
           \/ UNCHANGED vars
  <2>1. run' = run
    BY <1>4 DEF LateArrives, AgentEdits, AgentEnds, ServerRestarts, TrustChanges, Tamper,
                DeadlinePasses, Settled, vars, db
  <2> QED
    BY <2>1, SameMoves
<1> QED
  BY <1>2, <1>3, <1>4 DEF Next

\* The session a gate may be sending a prompt to.
PromptTarget(w) == IF pc[w] = "prompting" THEN job[w].known ELSE job[w].session

\* Everything that can happen to the sessions, their messages and late calls.
OcMoves ==
    \/ UNCHANGED <<open, accepted>> /\ late' \subseteq late
    \/ UNCHANGED accepted /\ late' \subseteq late /\ \E s \in Session : open' = open \cup {s}
    \/ \E s \in open, m \in Message :
          /\ accepted' = [accepted EXCEPT ![s] = @ \cup {m}]
          /\ open' = open /\ late' \subseteq late
          /\ \/ \E r \in late : r.to = s
             \/ \E w \in Worker : pc[w] \in Locking /\ s = PromptTarget(w)
    \/ /\ \E w \in Worker :
             /\ pc[w] = "cancelDelete" /\ job[w].known \in open
             /\ open' = open \ {job[w].known}
             /\ accepted' = [accepted EXCEPT ![job[w].known] = {}]
       /\ late' = late
    \/ /\ UNCHANGED <<open, accepted>>
       /\ \E r \in LateRequest :
             /\ r.req \in LateCalls /\ late' = late \cup {r}
             /\ \/ r.req = "create" /\ r.to = NoSession
                \/ /\ r.req # "create"
                   /\ \E w \in Worker : pc[w] \in Locking /\ r.to = PromptTarget(w)

LEMMA OcSameMoves == UNCHANGED <<open, accepted, late>> => OcMoves
BY DEF OcMoves

LEMMA AcceptMoves ==
    ASSUME NEW w \in Worker, NEW m \in Message, pc[w] \in Locking, PromptTarget(w) \in open,
           Accept(PromptTarget(w), m), UNCHANGED late
    PROVE  OcMoves
BY DEF Accept, OcMoves

LEMMA DeleteMoves ==
    ASSUME NEW w \in Worker, pc[w] = "cancelDelete", job[w].known \in open,
           Delete(job[w].known)
    PROVE  OcMoves
BY DEF Delete, OcMoves

LEMMA EffectMoves ==
    ASSUME OcType, NEW w \in Worker, UNCHANGED oc \/ CalledEffect(w) \/ LateEffect(w)
    PROVE  OcMoves
<1>1. CASE UNCHANGED oc
  BY <1>1, OcSameMoves DEF oc
<1>2. CASE CalledEffect(w)
  <2>1. CASE pc[w] \in {"cancelAbort", "cancelAbortAgain", "timeoutAbort", "stallAbort"}
    BY <1>2, <2>1, OcSameMoves DEF CalledEffect, Abort
  <2>2. CASE pc[w] = "cancelDelete"
    BY <1>2, <2>2, DeleteMoves DEF CalledEffect
  <2>3. CASE pc[w] = "create"
    BY <1>2, <2>3 DEF CalledEffect, Make, OcMoves
  <2>4. CASE pc[w] = "prompting"
    <3>1. /\ PromptTarget(w) = job[w].known /\ job[w].known \in open /\ UNCHANGED late
          /\ Accept(job[w].known, "dispatch")
      BY <1>2, <2>4 DEF CalledEffect, PromptTarget
    <3> QED
      BY <2>4, <3>1, AcceptMoves DEF Locking, Message
  <2>5. CASE pc[w] = "following"
    <3>1. /\ PromptTarget(w) = job[w].session /\ job[w].session \in open /\ UNCHANGED late
          /\ Accept(job[w].session, "followup")
      BY <1>2, <2>5 DEF CalledEffect, PromptTarget
    <3> QED
      BY <2>5, <3>1, AcceptMoves DEF Locking, Message
  <2>6. CASE pc[w] \notin {"cancelAbort", "cancelAbortAgain", "timeoutAbort", "stallAbort",
                          "cancelDelete", "create", "prompting", "following"}
    BY <1>2, <2>6, OcSameMoves DEF CalledEffect, oc
  <2> QED
    BY <2>1, <2>2, <2>3, <2>4, <2>5, <2>6
<1>3. CASE LateEffect(w)
  <2>1. PICK r \in LateRequest :
          /\ r.req \in LateCalls /\ late' = late \cup {r}
          /\ \/ pc[w] = "create" /\ r = [req |-> "create", to |-> NoSession]
             \/ pc[w] = "prompting" /\ r = [req |-> "dispatch", to |-> job[w].known]
             \/ pc[w] = "following" /\ r = [req |-> "followup", to |-> job[w].session]
    BY <1>3 DEF LateEffect
  <2>2. \/ r.req = "create" /\ r.to = NoSession
        \/ r.req # "create" /\ pc[w] \in Locking /\ r.to = PromptTarget(w)
    BY <2>1 DEF PromptTarget, Locking
  <2> QED
    BY <1>3, <2>1, <2>2 DEF LateEffect, OcMoves
<1> QED
  BY <1>1, <1>2, <1>3

LEMMA LateMoves ==
    ASSUME OcType, LateArrives
    PROVE  OcMoves
<1>1. PICK r \in late : late' = late \ {r} /\
        CASE r.req = "create" -> IF made = Session
                                   THEN UNCHANGED <<made, open, accepted, runner, turn>>
                                   ELSE \E s \in Session : Make(s)
          [] r.req # "create" -> IF r.to \in open
                                   THEN Accept(r.to, r.req)
                                   ELSE UNCHANGED <<made, open, accepted, runner, turn>>
  BY DEF LateArrives
<1>2. \/ UNCHANGED <<made, open, accepted, runner, turn>>
      \/ \E s \in Session : Make(s)
      \/ r.req # "create" /\ r.to \in open /\ Accept(r.to, r.req)
  BY <1>1
<1>3. CASE UNCHANGED <<made, open, accepted, runner, turn>> \/ \E s \in Session : Make(s)
  BY <1>1, <1>3 DEF Make, OcMoves
<1>4. CASE r.req # "create" /\ r.to \in open /\ Accept(r.to, r.req)
  <2>1. r.req \in Message
    BY <1>4 DEF OcType, LateRequest, Requests, Message
  <2>2. /\ accepted' = [accepted EXCEPT ![r.to] = @ \cup {r.req}]
        /\ open' = open /\ late' \subseteq late
    BY <1>1, <1>4 DEF Accept
  <2> QED
    BY <1>4, <2>1, <2>2 DEF OcMoves
<1> QED
  BY <1>2, <1>3, <1>4

LEMMA OcStep ==
    ASSUME FencedInv, [Next]_vars
    PROVE  OcMoves
<1>0. OcType
  BY TypeParts DEF FencedInv
<1>1. CASE \E w \in Worker : Claim(w) \/ Local(w) \/ Answered(w) \/ CallFails(w) \/ Crash(w)
  <2>1. PICK w \in Worker :
          Claim(w) \/ Local(w) \/ Answered(w) \/ CallFails(w) \/ Crash(w)
    BY <1>1
  <2>2. CASE Claim(w) \/ Local(w)
    BY <2>2, OcSameMoves
    DEF Claim, Local, Poll, CancelStart, TimeoutStart, DispatchStart, PersistSession,
        SafetyCancel, Reverify, Authorize, MarkDispatched, Follow, Apply, oc
  <2>3. CASE CancelList(w) \/ TimeoutList(w) \/ ListSessions(w) \/ LookupMessage(w)
              \/ Observe(w) \/ Gate(w)
    BY <2>3, OcSameMoves
    DEF CancelList, TimeoutList, ListSessions, LookupMessage, Observe, Gate, oc
  <2>4. CASE CancelAbort(w) \/ CancelAbortAgain(w) \/ TimeoutAbort(w) \/ StallAbort(w)
    BY <2>4, OcSameMoves DEF CancelAbort, CancelAbortAgain, TimeoutAbort, StallAbort, Abort
  <2>5. CASE CancelDelete(w)
    BY <2>5, OcSameMoves, DeleteMoves DEF CancelDelete, oc
  <2>6. CASE CreateSession(w)
    BY <2>6 DEF CreateSession, Make, OcMoves
  <2>7. CASE Prompt(w)
    <3>1. PromptTarget(w) = job[w].known /\ pc[w] \in Locking /\ "dispatch" \in Message
      BY <2>7 DEF Prompt, PromptTarget, Locking, Message
    <3> QED
      BY <2>7, <3>1, OcSameMoves, AcceptMoves DEF Prompt, oc
  <2>8. CASE FollowUp(w)
    <3>1. PromptTarget(w) = job[w].session /\ pc[w] \in Locking /\ "followup" \in Message
      BY <2>8 DEF FollowUp, PromptTarget, Locking, Message
    <3> QED
      BY <2>8, <3>1, OcSameMoves, AcceptMoves DEF FollowUp, oc
  <2>9. CASE CallFails(w) \/ Crash(w)
    BY <1>0, <2>9, EffectMoves DEF CallFails, Crash
  <2> QED
    BY <2>1, <2>2, <2>3, <2>4, <2>5, <2>6, <2>7, <2>8, <2>9 DEF Answered
<1>2. CASE LateArrives
  BY <1>0, <1>2, LateMoves
<1>3. CASE \/ AgentEdits \/ (\E s \in Session : AgentEnds(s)) \/ ServerRestarts
           \/ RequestCancel \/ TrustChanges \/ Tamper \/ DeadlinePasses \/ LeaseLapses
           \/ LeasePreempted \/ Settled \/ UNCHANGED vars
  BY <1>3, OcSameMoves
  DEF AgentEdits, AgentEnds, ServerRestarts, RequestCancel, TrustChanges, Tamper,
      DeadlinePasses, LeaseLapses, LeasePreempted, Settled, vars, oc
<1> QED
  BY <1>1, <1>2, <1>3 DEF Next

-----------------------------------------------------------------------------
(* No orphan session is prompted.                                           *)

\* A prompt in flight goes to the persisted session of a verified run.
LEMMA TargetIsPersisted ==
    ASSUME FencedInv, NEW w \in Worker, pc[w] \in Locking
    PROVE  PromptTarget(w) = run.session /\ run.verified
<1>1. /\ run.session = PromptTarget(w) /\ Current(w) /\ run.status \in Active
  BY DEF FencedInv, Fenced, Authorized, PromptTarget, Current, Locking
<1>2. CASE pc[w] = "prompting"
  BY <1>1, <1>2 DEF FencedInv, Fenced, SnapshotHolds
<1>3. CASE pc[w] = "following"
  <2>1. run.status # "queued"
    BY <1>1, <1>3 DEF FencedInv, Fenced, SnapshotHolds, Serving
  <2> QED
    BY <1>1, <2>1 DEF FencedInv, RunningVerified, Active
<1> QED
  BY <1>1, <1>2, <1>3 DEF Locking

LEMMA PromptedStep ==
    ASSUME FencedInv, [Next]_vars
    PROVE  /\ Prompted' \subseteq Prompted \cup {run.session}
           /\ Prompted' \subseteq Prompted
                \/ (run.verified /\ \E w \in Worker : pc[w] \in Locking)
<1>0. accepted \in [Session -> SUBSET Message] /\ open \subseteq Session
  BY DEF FencedInv, TypeOK
<1>1. OcMoves
  BY OcStep
<1>2. CASE \/ UNCHANGED <<open, accepted>> /\ late' \subseteq late
           \/ UNCHANGED accepted /\ late' \subseteq late
           \/ /\ \E w \in Worker : accepted' = [accepted EXCEPT ![job[w].known] = {}]
              /\ late' = late
  <2>1. late' \subseteq late /\ \A s \in Session : accepted'[s] # {} => accepted[s] # {}
    BY <1>0, <1>2
  <2> QED
    BY <2>1 DEF Prompted
<1>3. CASE \E s \in open, m \in Message :
             /\ accepted' = [accepted EXCEPT ![s] = @ \cup {m}] /\ late' \subseteq late
             /\ \/ \E r \in late : r.to = s
                \/ \E w \in Worker : pc[w] \in Locking /\ s = PromptTarget(w)
  <2>1. PICK s \in open, m \in Message :
             /\ accepted' = [accepted EXCEPT ![s] = @ \cup {m}] /\ late' \subseteq late
             /\ \/ \E r \in late : r.to = s
                \/ \E w \in Worker : pc[w] \in Locking /\ s = PromptTarget(w)
    BY <1>3
  <2>2. \A t \in Session : t # s => accepted'[t] = accepted[t]
    BY <1>0, <2>1
  <2>3. Prompted' \subseteq Prompted \cup {s}
    BY <2>1, <2>2 DEF Prompted
  <2>4. \/ s \in Prompted
        \/ s = run.session /\ run.verified /\ \E w \in Worker : pc[w] \in Locking
    BY <1>0, <2>1, TargetIsPersisted DEF Prompted
  <2> QED
    BY <2>3, <2>4
<1>4. CASE UNCHANGED accepted /\ \E r \in LateRequest :
             /\ late' = late \cup {r}
             /\ \/ r.to = NoSession
                \/ \E w \in Worker : pc[w] \in Locking /\ r.to = PromptTarget(w)
  <2>1. PICK r \in LateRequest :
             /\ late' = late \cup {r}
             /\ \/ r.to = NoSession
                \/ \E w \in Worker : pc[w] \in Locking /\ r.to = PromptTarget(w)
    BY <1>4
  <2>2. Prompted' \subseteq Prompted \cup ({r.to} \cap Session)
    BY <1>4, <2>1 DEF Prompted
  <2>3. \/ r.to \notin Session
        \/ r.to = run.session /\ run.verified /\ \E w \in Worker : pc[w] \in Locking
    BY <2>1, TargetIsPersisted, NullAssumption
  <2> QED
    BY <2>2, <2>3
<1> QED
  BY <1>1, <1>2, <1>3, <1>4 DEF OcMoves

LEMMA NoOrphanStep ==
    ASSUME FencedInv, NoOrphanPrompt, [Next]_vars
    PROVE  NoOrphanPrompt'
<1>1. RowMoves
  BY RowStep
<1>2. ASSUME NEW s \in Prompted' PROVE s = run'.session /\ run'.verified
  <2>1. s \in Session /\ s # NoSession
    BY <1>2, NullAssumption DEF Prompted
  <2>2. s = run.session /\ run.verified
    BY <1>2, PromptedStep DEF NoOrphanPrompt
  <2> QED
    BY <1>1, <2>1, <2>2 DEF RowMoves
<1> QED
  BY <1>2 DEF NoOrphanPrompt

\* Unless the row was restored over sessions OpenCode already held, whatever
\* sessions stale, lost or late creations leave behind, only the session the
\* row names is ever prompted, and only after a durable verification.
THEOREM OnlyThePersistedSessionIsPrompted ==
    "prior" \notin Disturbances => (Spec => []NoOrphanPrompt)
<1> SUFFICES ASSUME "prior" \notin Disturbances PROVE Spec => []NoOrphanPrompt
  OBVIOUS
<1>1. Init => NoOrphanPrompt
  <2> SUFFICES ASSUME Init PROVE NoOrphanPrompt
    OBVIOUS
  <2>1. made = {} /\ late = {}
    BY DEF Init
  <2>2. \A s \in Session : accepted[s] = {}
    BY <2>1 DEF Init
  <2> QED
    BY <2>1, <2>2 DEF NoOrphanPrompt, Prompted
<1>2. FencedInv /\ NoOrphanPrompt /\ [Next]_vars => NoOrphanPrompt'
  BY NoOrphanStep
<1> QED
  BY <1>1, <1>2, FencedAlways, PTL DEF Spec

-----------------------------------------------------------------------------
(* A running run was prompted.                                              *)

Cancelling == {"cancel", "cancelList", "cancelAbort", "cancelDelete", "cancelAbortAgain"}

\* A worker that cleans up a queued run knows that it is cancelled and cannot
\* start any more; one about to record the dispatch knows the message is there.
Grounded(w) ==
    /\ pc[w] # "idle" /\ job[w].status = "queued" /\ (job[w].cancel \/ pc[w] \in Cancelling)
         => run.cancel /\ run.status \notin Started
    /\ pc[w] = "cancelDelete" => job[w].status = "queued"
    /\ pc[w] = "mark" /\ ~run.cancel => "dispatch" \in accepted[job[w].known]

\* Where a worker has not yet looked for its message.
Searching == {"list", "create", "persist", "lookup"}

MessagesAreOpen == \A s \in Session : accepted[s] # {} => s \in open

StartedInv ==
    RunningWasPrompted /\ MessagesAreOpen /\ \A w \in Worker : Grounded(w)

\* Where one step can take a worker, as far as cancelling and marking go.
Path(w) ==
    /\ pc[w] # "idle" /\ Kept(w)
    /\ pc'[w] \in Cancelling =>
          \/ pc[w] \in Cancelling \/ job[w].cancel \/ job[w].status = "running"
          \/ run'.cancel /\ run'.status = "queued"
    /\ pc'[w] = "cancelDelete" => job[w].status = "queued"
    /\ pc'[w] = "persist" => job'[w].known \in open'
    /\ pc'[w] = "mark" =>
          /\ pc[w] \in {"lookup", "prompting"} /\ job'[w].known = job[w].known
          /\ "dispatch" \in accepted'[job[w].known]
    /\ pc[w] \in Cancelling \cup {"poll"} /\ job[w].cancel => pc'[w] \in Cancelling \cup {"poll"}
    /\ pc'[w] \in Searching /\ ~job'[w].was =>
          \/ pc[w] \in Searching /\ ~job[w].was
          \/ pc[w] = "dispatch" /\ ~run.verified
    /\ pc'[w] = "safety" =>
          pc[w] = "lookup" /\ ~job[w].was /\ "dispatch" \in accepted[job[w].known]

Claims(w) ==
    /\ pc'[w] = "poll" /\ job'[w].status = run.status /\ job'[w].cancel = run.cancel
    /\ run'.status = run.status /\ run'.cancel = run.cancel
    /\ run.status \in Active /\ run'.gen # run.gen
    /\ run'.owner = w /\ job'[w].gen = run'.gen

LocalMoves(w) == Others(w) /\ (pc'[w] = "idle" \/ Path(w) \/ Claims(w))

\* The cancellation's own program points are only entered from one another.
LEMMA CancelPath ==
    ASSUME TypeOK, NEW w \in Worker,
           \/ CancelStart(w) \/ CancelList(w) \/ CancelAbort(w) \/ CancelDelete(w)
           \/ CancelAbortAgain(w) \/ TimeoutStart(w) \/ TimeoutList(w) \/ TimeoutAbort(w)
           \/ StallAbort(w)
    PROVE  LocalMoves(w)
<1>0. DbType /\ LocalType
  BY TypeParts
<1>1. /\ Others(w) /\ pc[w] # "idle"
      /\ pc'[w] = "idle" \/ (pc'[w] \in Cleaning /\ Kept(w))
  BY CleanupMoves
<1>2. CASE CancelStart(w) \/ CancelList(w) \/ CancelAbortAgain(w) \/ CancelDelete(w)
  <2>1. pc[w] \in Cancelling
    BY <1>2 DEF CancelStart, CancelList, CancelAbortAgain, CancelDelete, Cancelling
  <2>2. pc'[w] \in {"idle", "cancelList", "cancelAbort", "cancelAbortAgain"}
    <3>1. CASE CancelStart(w)
      <4>1. \/ Leave(w) \/ Goto(w, "cancelList")
            \/ NextTarget(w, "cancelAbort", TRUE, {run.session})
        BY <3>1 DEF CancelStart
      <4>2. Leave(w) => pc'[w] = "idle"
        BY <1>0, LeaveMoves
      <4>3. Goto(w, "cancelList") => pc'[w] = "cancelList"
        BY <1>0, GotoMoves
      <4>4. NextTarget(w, "cancelAbort", TRUE, {run.session})
              => pc'[w] \in {"idle", "cancelAbort"}
        BY <1>0, NextTargetMoves
      <4> QED
        BY <4>1, <4>2, <4>3, <4>4
    <3>2. CASE CancelList(w) \/ CancelAbortAgain(w)
      BY <1>0, <3>2, CancelNextMoves DEF CancelList, CancelAbortAgain
    <3>3. CASE CancelDelete(w)
      BY <1>0, <3>3, LeaveMoves, GotoMoves, CancelNextMoves DEF CancelDelete
    <3> QED
      BY <1>2, <3>1, <3>2, <3>3
  <2> QED
    BY <1>1, <2>1, <2>2 DEF LocalMoves, Path, Cancelling, Searching
<1>3. CASE CancelAbort(w)
  <2>1. pc[w] \in Cancelling
    BY <1>3 DEF CancelAbort, Cancelling
  <2>2. CASE job[w].status = "queued"
    <3>1. pc'[w] \in {"idle", "cancelDelete"}
      BY <1>0, <1>3, <2>2, LeaveMoves, GotoMoves DEF CancelAbort
    <3> QED
      BY <1>1, <2>1, <2>2, <3>1 DEF LocalMoves, Path, Cancelling, Searching
  <2>3. CASE job[w].status # "queued"
    <3>1. pc'[w] \in {"idle", "cancelAbort"}
      BY <1>0, <1>3, <2>3, CancelNextMoves DEF CancelAbort
    <3> QED
      BY <1>1, <2>1, <2>3, <3>1 DEF LocalMoves, Path, Cancelling, Searching
  <2> QED
    BY <2>2, <2>3
<1>4. CASE TimeoutStart(w) \/ TimeoutList(w) \/ TimeoutAbort(w) \/ StallAbort(w)
  <2>1. pc'[w] \in {"idle", "timeoutList", "timeoutAbort"}
    BY <1>0, <1>4, LeaveMoves, GotoMoves, NextTargetMoves, TimeoutNextMoves, FinishIfMoves
    DEF TimeoutStart, TimeoutList, TimeoutAbort, StallAbort, Terminal
  <2>2. pc[w] \notin Cancelling \cup {"poll"}
    BY <1>4 DEF TimeoutStart, TimeoutList, TimeoutAbort, StallAbort, Cancelling
  <2> QED
    BY <1>1, <2>1, <2>2 DEF LocalMoves, Path, Cancelling, Searching
<1> QED
  BY <1>2, <1>3, <1>4

LEMMA DispatchPath ==
    ASSUME FencedInv, NEW w \in Worker,
           \/ DispatchStart(w) \/ ListSessions(w) \/ CreateSession(w) \/ PersistSession(w)
           \/ LookupMessage(w) \/ SafetyCancel(w) \/ Reverify(w) \/ Authorize(w)
           \/ Prompt(w) \/ MarkDispatched(w) \/ Follow(w)
    PROVE  LocalMoves(w)
<1>0. /\ DbType /\ LocalType /\ OcType /\ job[w] \in Job /\ run \in Row /\ pc[w] # "idle"
  BY TypeParts
  DEF FencedInv, LocalType, DbType, DispatchStart, ListSessions, CreateSession, PersistSession,
      LookupMessage, SafetyCancel, Reverify, Authorize, Prompt, MarkDispatched, Follow
<1> DEFINE Special == Cancelling \cup {"mark", "safety"} \cup Searching
<1>c. pc[w] \notin Cancelling \cup {"poll"}
  BY DEF DispatchStart, ListSessions, CreateSession, PersistSession, LookupMessage,
         SafetyCancel, Reverify, Authorize, Prompt, MarkDispatched, Follow, Cancelling
<1>1. ASSUME Others(w), pc'[w] = "idle" \/ (pc'[w] \notin Special /\ Kept(w))
      PROVE  LocalMoves(w)
  BY <1>0, <1>1, <1>c DEF LocalMoves, Path, Cancelling, Searching
\* Moving on with the same job, not yet having looked for the message.
<1>d. ASSUME Others(w), pc'[w] \in Searching, Kept(w),
             pc'[w] = "persist" => job'[w].known \in open',
             \/ job'[w].was
             \/ pc[w] \in Searching /\ ~job[w].was
             \/ pc[w] = "dispatch" /\ ~run.verified
      PROVE  LocalMoves(w)
  BY <1>0, <1>d, <1>c DEF LocalMoves, Path, Cancelling, Searching
<1>a. ASSUME Leave(w) \/ RejectIf(w, Owned(w)) PROVE LocalMoves(w)
  BY <1>0, <1>1, <1>a, LeaveMoves, RejectIfMoves
<1>b. ASSUME NEW p, Goto(w, p), p \notin Special PROVE LocalMoves(w)
  <2> HIDE DEF Special
  <2> QED
    BY <1>0, <1>1, <1>b, GotoMoves DEF Kept
<1>2. CASE DispatchStart(w)
  <2> DEFINE p == IF run.session = NoSession THEN "list" ELSE "lookup"
             j == [job[w] EXCEPT !.known = run.session, !.was = run.verified]
  <2>1. /\ j.gen = job[w].gen /\ j.status = job[w].status
        /\ j.session = job[w].session /\ j.cancel = job[w].cancel /\ j.was = run.verified
    BY <1>0 DEF Job
  <2>2. p \in Searching /\ p # "persist" /\ pc[w] = "dispatch"
    BY <1>2 DEF Searching, DispatchStart
  <2>3. GotoWith(w, p, j) \/ Leave(w) \/ RejectIf(w, Owned(w))
    BY <1>2 DEF DispatchStart, VerifyWorkspace
  <2> HIDE DEF p, j
  <2>4. CASE GotoWith(w, p, j)
    <3>1. Others(w) /\ pc'[w] = p /\ job'[w] = j
      BY <1>0, <2>4, GotoWithMoves
    <3> QED
      BY <1>d, <2>1, <2>2, <3>1 DEF Kept
  <2> QED
    BY <1>a, <2>3, <2>4
<1>3. CASE Reverify(w)
  <2>1. GotoWith(w, "authorize", job[w]) \/ Leave(w) \/ RejectIf(w, Owned(w))
    BY <1>3 DEF Reverify, VerifyWorkspace
  <2>2. CASE GotoWith(w, "authorize", job[w])
    BY <1>0, <1>1, <2>2, GotoWithMoves DEF Kept, Cancelling, Searching
  <2> QED
    BY <1>a, <2>1, <2>2
<1>4. CASE ListSessions(w) \/ CreateSession(w)
  <2>1. pc[w] \in Searching
    BY <1>4 DEF ListSessions, CreateSession, Searching
  <2>2. CASE AgainIf(w, Beats(w))
    BY <1>0, <1>1, <2>2, AgainIfMoves DEF Cancelling, Searching
  <2>3. CASE Goto(w, "create")
    BY <1>0, <1>d, <2>1, <2>3, GotoMoves DEF Kept, Searching
  <2>4. CASE \E s \in Session :
               s \in open' /\ GotoWith(w, "persist", [job[w] EXCEPT !.known = s])
    <3>1. PICK s \in Session :
            s \in open' /\ GotoWith(w, "persist", [job[w] EXCEPT !.known = s])
      BY <2>4
    <3>2. /\ Others(w) /\ pc'[w] = "persist" /\ Kept(w) /\ job'[w].was = job[w].was
          /\ job'[w].known = s
      BY <1>0, <3>1, KnowMoves
    <3> QED
      BY <1>d, <2>1, <3>1, <3>2 DEF Searching
  <2>5. open \subseteq Session
    BY <1>0 DEF OcType
  <2> QED
    BY <1>4, <1>a, <2>2, <2>3, <2>4, <2>5 DEF ListSessions, CreateSession, Make, oc
<1>5. CASE PersistSession(w) \/ MarkDispatched(w) \/ Authorize(w)
  <2>1. \/ Leave(w) \/ Goto(w, "timeout") \/ Goto(w, "prompting") \/ RejectIf(w, Owned(w))
        \/ pc[w] = "persist" /\ Goto(w, "lookup")
    BY <1>5 DEF PersistSession, MarkDispatched, Authorize
  <2>2. CASE pc[w] = "persist" /\ Goto(w, "lookup")
    BY <1>0, <1>d, <2>2, GotoMoves DEF Kept, Searching
  <2> QED
    BY <1>a, <1>b, <2>1, <2>2 DEF Cancelling, Searching
<1>6. CASE Follow(w)
  <2>1. Leave(w) \/ Goto(w, "timeout") \/ Goto(w, "following")
    BY <1>6 DEF Follow, FailGate, FinishIf
  <2> QED
    BY <1>a, <1>b, <2>1 DEF Cancelling, Searching
<1>7. CASE LookupMessage(w)
  <2>1. /\ Others(w) /\ job' = job /\ pc'[w] \in {"timeout", "reverify", "mark", "safety"}
        /\ accepted' = accepted /\ pc[w] = "lookup"
        /\ pc'[w] = "mark" => "dispatch" \in accepted[job[w].known]
        /\ pc'[w] = "safety" => ~job[w].was /\ "dispatch" \in accepted[job[w].known]
    BY <1>0, <1>7, GotoMoves DEF LookupMessage, oc
  <2> QED
    BY <1>0, <2>1 DEF LocalMoves, Path, Kept, Cancelling, Searching
<1>8. CASE SafetyCancel(w)
  <2>1. CASE Goto(w, "cancel") /\ run' = [run EXCEPT !.cancel = TRUE] /\ run.status = "queued"
    BY <1>0, <1>c, <2>1, GotoMoves DEF LocalMoves, Path, Kept, Cancelling, Searching, Row
  <2> QED
    BY <1>8, <1>a, <2>1 DEF SafetyCancel
<1>9. CASE Prompt(w)
  <2>1. CASE AgainIf(w, Beats(w))
    BY <1>0, <1>1, <2>1, AgainIfMoves DEF Cancelling, Searching
  <2>2. CASE job[w].known \in open /\ Accept(job[w].known, "dispatch") /\ Goto(w, "mark")
    <3>1. Others(w) /\ job' = job /\ pc'[w] = "mark" /\ pc[w] = "prompting"
      BY <1>0, <1>9, <2>2, GotoMoves DEF Prompt
    <3>2. "dispatch" \in accepted'[job[w].known]
      BY <1>0, <2>2 DEF Accept, OcType
    <3> QED
      BY <1>0, <3>1, <3>2 DEF LocalMoves, Path, Kept, Cancelling, Searching
  <2> QED
    BY <1>9, <2>1, <2>2 DEF Prompt
<1> QED
  BY <1>2, <1>3, <1>4, <1>5, <1>6, <1>7, <1>8, <1>9

LEMMA ClaimMoves ==
    ASSUME TypeOK, NEW w \in Worker, Claim(w), workspace = "ready"
    PROVE  Others(w) /\ Claims(w)
<1>0. LocalType /\ run \in Row /\ run.gen \in Nat /\ run.gen + 1 # run.gen
  BY TypeParts DEF DbType, Row
<1> DEFINE j == [NoJob EXCEPT !.gen = run.gen + 1, !.status = run.status,
                              !.session = run.session, !.cancel = run.cancel]
<1>1. Others(w) /\ pc'[w] = "poll" /\ job'[w] = j
  BY <1>0, GotoWithMoves DEF Claim, NextGeneration
<1>2. j.status = run.status /\ j.cancel = run.cancel /\ j.gen = run.gen + 1
  BY DEF NoJob
<1>3. /\ run'.status = run.status /\ run'.cancel = run.cancel /\ run.status \in Active
      /\ run'.gen # run.gen /\ run'.owner = w /\ run'.gen = run.gen + 1
  BY <1>0 DEF Claim, Claimable, NextGeneration, Row
<1> HIDE DEF j
<1> QED
  BY <1>1, <1>2, <1>3 DEF Claims

LEMMA LocalStep ==
    ASSUME FencedInv, [Next]_vars
    PROVE  UNCHANGED local \/ \E w \in Worker : LocalMoves(w)
<1>0. TypeOK /\ DbType /\ LocalType /\ run \in Row
  BY TypeParts DEF FencedInv, DbType
<1>1. CASE \E w \in Worker : Claim(w) \/ Local(w) \/ Answered(w) \/ CallFails(w) \/ Crash(w)
  <2>1. PICK w \in Worker :
          Claim(w) \/ Local(w) \/ Answered(w) \/ CallFails(w) \/ Crash(w)
    BY <1>1
  <2>2. CASE Claim(w)
    <3>1. CASE workspace = "ready"
      BY <1>0, <2>2, <3>1, ClaimMoves DEF LocalMoves
    <3>2. CASE workspace # "ready"
      BY <2>2, <3>2 DEF Claim
    <3> QED
      BY <3>1, <3>2
  <2>3. CASE Poll(w)
    <3>1. /\ Others(w) /\ job' = job /\ pc[w] = "poll"
          /\ pc'[w] \in {"cancel", "timeout", "dispatch", "observe"}
          /\ (pc'[w] = "cancel") <=> job[w].cancel
      BY <1>0, <2>3, GotoMoves DEF Poll
    <3> QED
      BY <3>1 DEF LocalMoves, Path, Kept, Cancelling, Searching
  <2>4. CASE Observe(w) \/ Gate(w) \/ FollowUp(w) \/ Apply(w)
    <3>1. pc[w] \in Serving => job[w].status = "running"
      BY DEF FencedInv, Fenced, SnapshotHolds
    <3>2. pc[w] \in Serving
      BY <1>0, <2>4, ServingMoves
    <3>3. pc[w] \notin Cancelling \cup {"poll"}
      BY <3>2 DEF Serving, Cancelling
    <3>4. pc'[w] # "idle" =>
            pc'[w] \in {"poll", "stallAbort", "gate", "apply", "follow", "cancel", "timeout"}
      BY <1>0, <2>4, ServingMoves
    <3> QED
      BY <1>0, <2>4, <3>1, <3>3, <3>4, ServingMoves DEF LocalMoves, Path, Searching
  <2>5. CASE CallFails(w) \/ Crash(w)
    BY <1>0, <2>5, FailureMoves DEF LocalMoves, Path, Cancelling, Searching
  <2> QED
    BY <1>0, <2>1, <2>2, <2>3, <2>4, <2>5, CancelPath, DispatchPath DEF Local, Answered
<1>2. CASE \/ LateArrives \/ AgentEdits \/ (\E s \in Session : AgentEnds(s))
           \/ ServerRestarts \/ RequestCancel \/ TrustChanges \/ Tamper
           \/ DeadlinePasses \/ LeaseLapses \/ LeasePreempted \/ Settled \/ UNCHANGED vars
  BY <1>2
  DEF LateArrives, AgentEdits, AgentEnds, ServerRestarts, RequestCancel, TrustChanges,
      Tamper, DeadlinePasses, LeaseLapses, LeasePreempted, Settled, vars
<1> QED
  BY <1>1, <1>2 DEF Next

\* Only the cleanup of a cancelled run takes a session or a message away.
LEMMA MessagesKept ==
    ASSUME FencedInv, StartedInv, [Next]_vars, ~run.cancel \/ run.status \in Started
    PROVE  \A s \in Session :
              accepted[s] \subseteq accepted'[s] /\ (s \in open => s \in open')
<1>0. accepted \in [Session -> SUBSET Message]
  BY DEF FencedInv, TypeOK
<1>1. \A w \in Worker : pc[w] # "cancelDelete"
  BY DEF StartedInv, Grounded, Cancelling
<1> QED
  BY <1>0, <1>1, OcStep DEF OcMoves

LEMMA MessagesAreOpenStep ==
    ASSUME FencedInv, StartedInv, [Next]_vars
    PROVE  MessagesAreOpen'
<1>0. accepted \in [Session -> SUBSET Message] /\ open \subseteq Session /\ MessagesAreOpen
  BY DEF FencedInv, TypeOK, StartedInv
<1>1. OcMoves
  BY OcStep
<1>2. CASE UNCHANGED accepted /\ open \subseteq open'
  BY <1>0, <1>2 DEF MessagesAreOpen
<1>3. CASE \E s \in open, m \in Message :
             accepted' = [accepted EXCEPT ![s] = @ \cup {m}] /\ open' = open
  BY <1>0, <1>3 DEF MessagesAreOpen
<1>4. CASE \E w \in Worker : /\ job[w].known \in open /\ open' = open \ {job[w].known}
                             /\ accepted' = [accepted EXCEPT ![job[w].known] = {}]
  BY <1>0, <1>4 DEF MessagesAreOpen
<1> QED
  BY <1>1, <1>2, <1>3, <1>4 DEF OcMoves

LEMMA GroundedStep ==
    ASSUME FencedInv, StartedInv, [Next]_vars, NEW v \in Worker
    PROVE  Grounded(v)'
<1>0. Grounded(v) /\ RowMoves
  BY RowStep DEF StartedInv
<1>1. run.cancel /\ run.status \notin Started => run'.cancel /\ run'.status \notin Started
  BY <1>0 DEF RowMoves, Marks
<1>2. CASE pc'[v] = pc[v] /\ job'[v] = job[v]
  <2>1. pc[v] = "mark" /\ ~run'.cancel => "dispatch" \in accepted'[job[v].known]
    <3> SUFFICES ASSUME pc[v] = "mark", ~run'.cancel
                 PROVE  "dispatch" \in accepted'[job[v].known]
      OBVIOUS
    <3>1. job[v].known \in Session
      BY DEF FencedInv, Fenced, SnapshotHolds, Dispatching
    <3>2. ~run.cancel
      BY <1>0 DEF RowMoves
    <3>3. \A s \in Session : accepted[s] \subseteq accepted'[s]
      BY <3>2, MessagesKept
    <3> QED
      BY <1>0, <3>1, <3>2, <3>3 DEF Grounded
  <2> QED
    BY <1>0, <1>1, <1>2, <2>1 DEF Grounded
<1>3. CASE pc'[v] = "idle"
  BY <1>3 DEF Grounded
<1>4. CASE Claims(v)
  <2>1. run.cancel /\ run.status = "queued" => run.cancel /\ run.status \notin Started
    BY DEF Started
  <2> QED
    BY <1>4, <2>1 DEF Claims, Grounded, Cancelling
<1>5. CASE Path(v)
  <2>1. /\ pc[v] # "idle" /\ job'[v].status = job[v].status /\ job'[v].cancel = job[v].cancel
    BY <1>5 DEF Path, Kept
  <2>2. /\ job[v].status = "queued" /\ (job[v].cancel \/ pc'[v] \in Cancelling)
          => run'.cancel /\ run'.status \notin Started
    <3>1. "running" # "queued" /\ "queued" \notin Started
      BY DEF Started
    <3> QED
      BY <1>0, <1>1, <1>5, <2>1, <3>1 DEF Path, Grounded
  <2>3. pc'[v] = "cancelDelete" => job[v].status = "queued"
    BY <1>5 DEF Path
  <2>4. pc'[v] = "mark" => "dispatch" \in accepted'[job'[v].known]
    BY <1>5 DEF Path
  <2> QED
    BY <2>1, <2>2, <2>3, <2>4 DEF Grounded
<1>6. UNCHANGED local \/ \E w \in Worker : LocalMoves(w)
  BY LocalStep
<1> QED
  BY <1>2, <1>3, <1>4, <1>5, <1>6 DEF LocalMoves, Others, local

LEMMA StartedStep ==
    ASSUME FencedInv, StartedInv, [Next]_vars
    PROVE  StartedInv'
<1>0. RowMoves /\ RunningWasPrompted /\ MessagesAreOpen /\ open \subseteq Session
  BY RowStep DEF StartedInv, FencedInv, TypeOK
<1>1. ASSUME run'.status \in Started
      PROVE  /\ run'.session \in open' /\ "dispatch" \in accepted'[run'.session]
             /\ run'.verified
  <2>1. CASE run.status \in Started
    <3>1. run.session \in open /\ "dispatch" \in accepted[run.session] /\ run.verified
      BY <1>0, <2>1 DEF RunningWasPrompted, Started
    <3>2. run.session \in Session /\ run'.session = run.session
      BY <1>0, <3>1, NullAssumption DEF RowMoves
    <3>a. \A s \in Session : accepted[s] \subseteq accepted'[s] /\ (s \in open => s \in open')
      BY <2>1, MessagesKept
    <3>3. run.session \in open' /\ accepted[run.session] \subseteq accepted'[run.session]
      BY <3>1, <3>2, <3>a
    <3> QED
      BY <1>0, <3>1, <3>2, <3>3 DEF RowMoves
  <2>2. CASE \E w \in Worker : Marks(w)
    <3>1. PICK w \in Worker : Marks(w)
      BY <2>2
    <3>2. job[w].known \in Session /\ "dispatch" \in accepted[job[w].known]
      BY <3>1 DEF Marks, StartedInv, Grounded, FencedInv, Fenced, SnapshotHolds, Dispatching
    <3>3. job[w].known \in open
      BY <1>0, <3>2 DEF MessagesAreOpen
    <3>4. run'.session = job[w].known /\ run'.verified
      BY <1>0, <3>1, <3>2, NullAssumption DEF Marks, RowMoves
    <3> QED
      BY <3>1, <3>2, <3>3, <3>4 DEF Marks, oc
  <2> QED
    BY <1>0, <1>1, <2>1, <2>2 DEF RowMoves
<1>2. RunningWasPrompted'
  BY <1>1 DEF RunningWasPrompted, Started
<1> QED
  BY <1>2, MessagesAreOpenStep, GroundedStep DEF StartedInv

LEMMA StartedAlways == Spec => []StartedInv
<1>1. Init => StartedInv
  <2> SUFFICES ASSUME Init PROVE StartedInv
    OBVIOUS
  <2>1. /\ run.status = "queued" /\ open = made /\ \A w \in Worker : pc[w] = "idle"
        /\ \A s \in Session : accepted[s] = IF s \in made THEN {"dispatch"} ELSE {}
    BY DEF Init
  <2> QED
    BY <2>1 DEF StartedInv, RunningWasPrompted, MessagesAreOpen, Grounded
<1>2. FencedInv /\ StartedInv /\ [Next]_vars => StartedInv'
  BY StartedStep
<1> QED
  BY <1>1, <1>2, FencedAlways, PTL DEF Spec

\* A run is running, or was completed, only if the session its row names still
\* holds the dispatch message and its workspace was verified: dispatch is never
\* recorded for a prompt OpenCode does not have, and no cleanup, however stale
\* its worker, deletes the session of a running run.
THEOREM RunningRunsWerePrompted == Spec => []RunningWasPrompted
<1>1. StartedInv => RunningWasPrompted
  BY DEF StartedInv
<1> QED
  BY <1>1, StartedAlways, PTL

-----------------------------------------------------------------------------
(* How a run settles: once, and as cancelled if it was cancelled.           *)

\* A settled row holds no lease that could lapse, and its package exists.
SettledRow == run.status \in Terminal => run.lease = "none" /\ packaged

\* Which steps settle a run: the end of a cancellation, a claim that finds the
\* binding broken, or an owner outside the cancellation path.
SettlesBy ==
    \/ run'.status = "cancelled"
    \/ run'.stage = "workspace_binding_rejected" /\ workspace # "ready"
    \/ \E w \in Worker : Owned(w) /\ pc[w] \notin Cancelling \cup {"poll", "idle"}

\* A step writes none of the three, or it finds the run active.
SettleMoves ==
    \/ run' = run /\ task' = task /\ packaged' = packaged
    \/ /\ run.status \in Active
       /\ \/ run'.status \in Active
          \/ run'.status \in Terminal /\ run'.lease = "none" /\ packaged' /\ SettlesBy

LEMMA DbUntouched == UNCHANGED db => SettleMoves
BY DEF db, SettleMoves

LEMMA OwnerFinishes ==
    ASSUME run \in Row, NEW w \in Worker, NEW status \in Terminal, NEW stage, NEW t,
           Owned(w), Finish(status, stage, t),
           status = "cancelled" \/ pc[w] \notin Cancelling \cup {"poll", "idle"}
    PROVE  SettleMoves
<1>1. run'.status = status /\ run'.lease = "none" /\ packaged'
  BY DEF Finish, Row
<1> QED
  BY <1>1 DEF Owned, SettleMoves, SettlesBy

LEMMA FinishIfSettles ==
    ASSUME run \in Row, NEW w \in Worker, NEW b, NEW status \in Terminal, NEW stage, NEW t,
           b => Owned(w), FinishIf(w, b, status, stage, t),
           status = "cancelled" \/ pc[w] \notin Cancelling \cup {"poll", "idle"}
    PROVE  SettleMoves
BY OwnerFinishes, DbUntouched DEF FinishIf

LEMMA RejectIfSettles ==
    ASSUME run \in Row, NEW w \in Worker, RejectIf(w, Owned(w)),
           pc[w] \notin Cancelling \cup {"poll", "idle"}
    PROVE  SettleMoves
<1>1. CASE Owned(w)
  <2>1. run'.status = "failed" /\ run'.lease = "none" /\ packaged'
    BY <1>1 DEF RejectIf, RejectBinding, Row
  <2> QED
    BY <1>1, <2>1 DEF Owned, SettleMoves, SettlesBy, Terminal
<1>2. CASE ~Owned(w)
  BY <1>2, DbUntouched DEF RejectIf
<1> QED
  BY <1>1, <1>2

LEMMA CancelNextSettles ==
    ASSUME run \in Row, NEW w \in Worker, NEW todo, CancelNext(w, todo)
    PROVE  SettleMoves
BY FinishIfSettles, DbUntouched DEF CancelNext, Cancelled, Terminal

LEMMA TimeoutNextSettles ==
    ASSUME run \in Row, NEW w \in Worker, NEW todo, TimeoutNext(w, todo),
           pc[w] \notin Cancelling \cup {"poll", "idle"}
    PROVE  SettleMoves
BY FinishIfSettles, DbUntouched DEF TimeoutNext, TimedOut, Terminal

LEMMA WorkerSettles ==
    ASSUME FencedInv, NEW w \in Worker,
           Claim(w) \/ Local(w) \/ Answered(w) \/ CallFails(w) \/ Crash(w)
    PROVE  SettleMoves
<1>0. TypeOK /\ DbType /\ LocalType /\ run \in Row
  BY TypeParts DEF FencedInv, DbType
<1>1. CASE Claim(w)
  <2>1. CASE workspace = "ready"
    <3>1. run'.status = run.status /\ run.status \in Active
      BY <1>0, <1>1, <2>1 DEF Claim, Claimable, Row
    <3> QED
      BY <3>1 DEF SettleMoves
  <2>2. CASE workspace # "ready"
    <3>1. /\ run.status \in Active /\ run'.status = "failed" /\ run'.lease = "none" /\ packaged'
          /\ run'.stage = "workspace_binding_rejected"
      BY <1>0, <1>1, <2>2 DEF Claim, Claimable, RejectBinding, Row
    <3> QED
      BY <2>2, <3>1 DEF SettleMoves, SettlesBy, Terminal
  <2> QED
    BY <2>1, <2>2
<1>2. CASE CancelStart(w) \/ CancelList(w) \/ CancelAbort(w) \/ CancelDelete(w)
           \/ CancelAbortAgain(w)
  BY <1>0, <1>2, CancelNextSettles, DbUntouched
  DEF CancelStart, CancelList, CancelAbort, CancelDelete, CancelAbortAgain
<1>3. CASE TimeoutStart(w) \/ TimeoutList(w) \/ TimeoutAbort(w)
  <2>1. pc[w] \notin Cancelling \cup {"poll", "idle"}
    BY <1>3 DEF TimeoutStart, TimeoutList, TimeoutAbort, Cancelling
  <2> QED
    BY <1>0, <1>3, <2>1, TimeoutNextSettles, DbUntouched
    DEF TimeoutStart, TimeoutList, TimeoutAbort
<1>4. CASE StallAbort(w)
  <2>1. pc[w] \notin Cancelling \cup {"poll", "idle"} /\ "failed" \in Terminal
    BY <1>4 DEF StallAbort, Cancelling, Terminal
  <2> QED
    BY <1>0, <1>4, <2>1, FinishIfSettles DEF StallAbort
<1>5. CASE DispatchStart(w) \/ Reverify(w)
  <2>1. pc[w] \notin Cancelling \cup {"poll", "idle"}
    BY <1>5 DEF DispatchStart, Reverify, Cancelling
  <2>2. ASSUME NEW p, NEW j, VerifyWorkspace(w, p, j) PROVE SettleMoves
    <3>1. CASE dirty
      BY <1>0, <2>1, <2>2, <3>1, RejectIfSettles DEF VerifyWorkspace
    <3>2. CASE ~dirty
      BY <1>0, <2>2, <3>2, DbUntouched DEF VerifyWorkspace, Owned, SettleMoves, Row
    <3> QED
      BY <3>1, <3>2
  <2> QED
    BY <1>5, <2>2, DbUntouched DEF DispatchStart, Reverify
<1>6. CASE PersistSession(w) \/ SafetyCancel(w) \/ MarkDispatched(w)
  BY <1>0, <1>6
  DEF PersistSession, SafetyCancel, MarkDispatched, Beats, Owned, SettleMoves, Row, Active
<1>7. CASE Authorize(w)
  <2>1. pc[w] \notin Cancelling \cup {"poll", "idle"}
    BY <1>7 DEF Authorize, Cancelling
  <2> QED
    BY <1>0, <1>7, <2>1, RejectIfSettles, DbUntouched DEF Authorize
<1>8. CASE Gate(w) \/ Follow(w)
  <2>1. pc[w] \notin Cancelling \cup {"poll", "idle"} /\ "failed" \in Terminal
    BY <1>8 DEF Gate, Follow, Cancelling, Terminal
  <2>2. CASE FailGate(w)
    BY <1>0, <2>1, <2>2, FinishIfSettles DEF FailGate
  <2> QED
    BY <1>8, <2>2, DbUntouched DEF Gate, Follow
<1>9. CASE Apply(w)
  <2>1. /\ pc[w] \notin Cancelling \cup {"poll", "idle"}
        /\ "failed" \in Terminal /\ "completed" \in Terminal
    BY <1>9 DEF Apply, Cancelling, Terminal
  <2> QED
    BY <1>0, <1>9, <2>1, OwnerFinishes, DbUntouched DEF Apply
<1>10. CASE \/ Poll(w) \/ ListSessions(w) \/ CreateSession(w) \/ LookupMessage(w) \/ Prompt(w)
            \/ Observe(w) \/ FollowUp(w) \/ CallFails(w) \/ Crash(w)
  BY <1>10, DbUntouched
  DEF Poll, ListSessions, CreateSession, LookupMessage, Prompt, Observe, FollowUp, CallFails,
      Crash
<1> QED
  BY <1>1, <1>2, <1>3, <1>4, <1>5, <1>6, <1>7, <1>8, <1>9, <1>10 DEF Local, Answered

LEMMA SettleStep ==
    ASSUME FencedInv, SettledRow, [Next]_vars
    PROVE  SettleMoves
<1>0. run \in Row
  BY DEF FencedInv, TypeOK
<1>1. CASE \E w \in Worker : Claim(w) \/ Local(w) \/ Answered(w) \/ CallFails(w) \/ Crash(w)
  BY <1>1, WorkerSettles
<1>2. CASE RequestCancel
  BY <1>0, <1>2 DEF RequestCancel, SettleMoves, Row
<1>3. CASE LeaseLapses \/ LeasePreempted
  <2>1. run.status \in Active /\ run'.status = run.status
    BY <1>0, <1>3 DEF LeaseLapses, LeasePreempted, SettledRow, Row
  <2> QED
    BY <2>1 DEF SettleMoves
<1>4. CASE \/ LateArrives \/ AgentEdits \/ (\E s \in Session : AgentEnds(s))
           \/ ServerRestarts \/ TrustChanges \/ Tamper \/ DeadlinePasses \/ Settled
           \/ UNCHANGED vars
  BY <1>4
  DEF LateArrives, AgentEdits, AgentEnds, ServerRestarts, TrustChanges, Tamper,
      DeadlinePasses, Settled, vars, db, SettleMoves
<1> QED
  BY <1>1, <1>2, <1>3, <1>4 DEF Next

LEMMA SettledRowAlways == Spec => []SettledRow
<1>1. Init => SettledRow
  BY DEF Init, SettledRow, Terminal
<1>2. FencedInv /\ SettledRow /\ [Next]_vars => SettledRow'
  BY SettleStep DEF SettleMoves, SettledRow, Active, Terminal
<1> QED
  BY <1>1, <1>2, FencedAlways, PTL DEF Spec

\* Once a run is settled, no worker, however late, and no handler of this module
\* writes its row or its task again, and its result package stays.
THEOREM SettledRunsAreFinal == Spec => TerminalIsFinal
<1>1. FencedInv /\ SettledRow /\ [Next]_vars
        => [run.status \in Terminal => run' = run /\ packaged' /\ task' = task]_vars
  BY SettleStep DEF SettleMoves, SettledRow, Active, Terminal
<1> QED
  BY <1>1, FencedAlways, SettledRowAlways, PTL DEF Spec, TerminalIsFinal

-----------------------------------------------------------------------------
(* Cancellation wins, unless the row was restored over earlier messages.    *)

\* The owner of a cancelled run is its canceller.
Canceller(w) ==
    Current(w) /\ run.cancel => job[w].cancel /\ pc[w] \in Cancelling \cup {"poll"}

\* An owner that began its dispatch unverified has no message to find, so that
\* the safety cancellation has nothing to cancel.
Unprompted(w) ==
    /\ Current(w) /\ pc[w] \in {"list", "create", "persist", "lookup"} /\ ~job[w].was
         => Prompted = {}
    /\ ~(Current(w) /\ pc[w] = "safety")

CancelInv == NoOrphanPrompt /\ \A w \in Worker : Canceller(w) /\ Unprompted(w)

\* A worker that holds the lease after a step has just claimed it, or held it
\* before and is the one, if any, that cancelled the run.
LEMMA CurrentStep ==
    ASSUME FencedInv, [Next]_vars, NEW w \in Worker, Current(w)'
    PROVE  \/ Claims(w)
           \/ /\ Current(w)
              /\ (pc'[w] = pc[w] /\ job'[w] = job[w]) \/ Path(w)
              /\ run'.cancel => run.cancel \/ pc[w] = "safety"
<1>0. TypeOK /\ RowMoves /\ run'.owner = w /\ w # NoWorker
  BY RowStep, NullAssumption DEF FencedInv, Current
<1>1. CASE \E u \in Worker : run'.owner = u /\ Claim(u) /\ workspace = "ready"
  BY <1>0, <1>1, ClaimMoves
<1>2. CASE run'.owner = run.owner /\ run'.gen = run.gen
  <2>1. run'.cancel => run.cancel \/ pc[w] = "safety"
    BY <1>0, <1>2 DEF RowMoves, Owned
  <2>2. (pc'[w] = pc[w] /\ job'[w] = job[w]) \/ Path(w) \/ Claims(w)
    BY LocalStep DEF LocalMoves, Others, Current, local
  <2>3. ~Claims(w)
    BY <1>2 DEF Claims
  <2>4. Current(w)
    BY <1>2, <2>2, <2>3 DEF Current, Path, Kept
  <2> QED
    BY <2>1, <2>2, <2>3, <2>4
<1> QED
  BY <1>0, <1>1, <1>2 DEF RowMoves

\* While one worker holds the lease and sends no prompt, nothing is prompted.
LEMMA NoPromptMeanwhile ==
    ASSUME FencedInv, [Next]_vars, NEW w \in Worker, Current(w), pc[w] \notin Locking
    PROVE  Prompted' \subseteq Prompted
<1>1. \A u \in Worker : pc[u] \notin Locking
  BY DEF FencedInv, Fenced, Authorized, Current
<1> QED
  BY <1>1, PromptedStep

LEMMA CancelInvStep ==
    ASSUME FencedInv, CancelInv, [Next]_vars
    PROVE  CancelInv'
<1>1. NoOrphanPrompt'
  BY NoOrphanStep DEF CancelInv
<1>2. ASSUME NEW w \in Worker PROVE Canceller(w)' /\ Unprompted(w)'
  <2> SUFFICES ASSUME Current(w)' PROVE Canceller(w)' /\ Unprompted(w)'
    BY DEF Canceller, Unprompted
  <2>0. Canceller(w) /\ Unprompted(w)
    BY <1>2 DEF CancelInv
  <2>1. CASE Claims(w)
    BY <2>1 DEF Claims, Canceller, Unprompted, Cancelling
  <2>2. CASE /\ Current(w)
             /\ (pc'[w] = pc[w] /\ job'[w] = job[w]) \/ Path(w)
             /\ run'.cancel => run.cancel \/ pc[w] = "safety"
    <3>1. Canceller(w)'
      <4> SUFFICES ASSUME run'.cancel
                   PROVE  job'[w].cancel /\ pc'[w] \in Cancelling \cup {"poll"}
        BY DEF Canceller
      <4>1. job[w].cancel /\ pc[w] \in Cancelling \cup {"poll"}
        BY <2>0, <2>2 DEF Canceller, Unprompted
      <4> QED
        BY <2>2, <4>1 DEF Path, Kept
    <3>2. ASSUME pc'[w] \in Searching, ~job'[w].was PROVE Prompted' = {}
      <4>1. \/ pc[w] \in Searching /\ ~job[w].was
            \/ pc[w] = "dispatch" /\ ~run.verified
        BY <2>2, <3>2 DEF Path
      <4>2. Prompted = {}
        BY <2>0, <2>2, <4>1 DEF Unprompted, Searching, CancelInv, NoOrphanPrompt
      <4>3. pc[w] \notin Locking
        BY <4>1 DEF Searching, Locking
      <4> QED
        BY <2>2, <4>2, <4>3, NoPromptMeanwhile
    <3>3. pc'[w] # "safety"
      <4> SUFFICES ASSUME pc'[w] = "safety" PROVE FALSE
        OBVIOUS
      <4>1. pc[w] = "lookup" /\ ~job[w].was /\ "dispatch" \in accepted[job[w].known]
        BY <2>0, <2>2 DEF Path, Unprompted
      <4>2. job[w].known \in Session
        BY <1>2, <4>1 DEF FencedInv, Fenced, SnapshotHolds, Dispatching
      <4>3. job[w].known \in Prompted
        BY <4>1, <4>2 DEF Prompted
      <4> QED
        BY <2>0, <2>2, <4>1, <4>3 DEF Unprompted
    <3> QED
      BY <3>1, <3>2, <3>3 DEF Unprompted, Searching
  <2> QED
    BY <1>2, <2>1, <2>2, CurrentStep
<1> QED
  BY <1>1, <1>2 DEF CancelInv

LEMMA CancelAlways == "prior" \notin Disturbances => (Spec => []CancelInv)
<1> SUFFICES ASSUME "prior" \notin Disturbances PROVE Spec => []CancelInv
  OBVIOUS
<1>1. Init => CancelInv
  <2> SUFFICES ASSUME Init PROVE CancelInv
    OBVIOUS
  <2>1. made = {} /\ late = {} /\ \A w \in Worker : pc[w] = "idle"
    BY DEF Init
  <2>2. \A s \in Session : accepted[s] = {}
    BY <2>1 DEF Init
  <2> QED
    BY <2>1, <2>2 DEF CancelInv, NoOrphanPrompt, Prompted, Canceller, Unprompted, Current
<1>2. FencedInv /\ CancelInv /\ [Next]_vars => CancelInv'
  BY CancelInvStep
<1> QED
  BY <1>1, <1>2, FencedAlways, PTL DEF Spec

\* Unless the row was restored over messages OpenCode already held, a run whose
\* cancellation is recorded settles as cancelled: no deadline, stalled tool, gate,
\* result or trust check overtakes it; only a claim that finds the binding broken.
THEOREM CancellationWins ==
    "prior" \notin Disturbances => (Spec => CancelWins)
<1> SUFFICES ASSUME "prior" \notin Disturbances PROVE Spec => CancelWins
  OBVIOUS
<1>1. FencedInv /\ SettledRow /\ CancelInv /\ [Next]_vars =>
        [run.cancel /\ run.status \in Active /\ run'.status \in Terminal
           => \/ run'.status = "cancelled"
              \/ run'.stage = "workspace_binding_rejected" /\ workspace # "ready"]_vars
  <2> SUFFICES ASSUME FencedInv, SettledRow, CancelInv, [Next]_vars,
                      run.cancel, run.status \in Active, run'.status \in Terminal
               PROVE  \/ run'.status = "cancelled"
                      \/ run'.stage = "workspace_binding_rejected" /\ workspace # "ready"
    OBVIOUS
  <2>1. SettlesBy
    BY SettleStep DEF SettleMoves, Active, Terminal
  <2>2. ~ \E w \in Worker : Owned(w) /\ pc[w] \notin Cancelling \cup {"poll", "idle"}
    BY DEF CancelInv, Canceller, Current, Owned
  <2> QED
    BY <2>1, <2>2 DEF SettlesBy
<1> QED
  BY <1>1, FencedAlways, SettledRowAlways, CancelAlways, PTL DEF Spec, CancelWins

-----------------------------------------------------------------------------
(* The run lives the life its manager is promised.                          *)

\* A request OpenCode may still process goes to a session that still exists,
\* as long as the run is not cancelled; so does every session a worker knows.
LateGoes(r) ==
    IF r.req = "create" THEN r.to = NoSession ELSE run.cancel \/ r.to \in open

Reachable ==
    /\ ~run.cancel /\ run.session \in Session => run.session \in open
    /\ \A w \in Worker : pc[w] = "persist" /\ ~run.cancel => job[w].known \in open
    /\ \A r \in late : LateGoes(r)

\* Only the end of a run, or someone from outside, touches its workspace.
WorkspaceStands == run.status \in Active => workspace = "ready"

LifeInv == Reachable /\ WorkspaceStands

\* Finish and RejectBinding end the run; nothing else writes the workspace row.
WorkspaceMoves ==
    workspace' = workspace \/ run'.status \in Terminal \/ "tamper" \in Disturbances

LEMMA FinishLeaves ==
    ASSUME run \in Row, NEW status \in Terminal, NEW stage, NEW t, Finish(status, stage, t)
    PROVE  WorkspaceMoves
BY DEF Finish, WorkspaceMoves, Row

LEMMA FinishIfLeaves ==
    ASSUME run \in Row, NEW w \in Worker, NEW b, NEW status \in Terminal, NEW stage, NEW t,
           FinishIf(w, b, status, stage, t)
    PROVE  WorkspaceMoves
BY FinishLeaves DEF FinishIf, db, WorkspaceMoves

LEMMA RejectLeaves ==
    ASSUME run \in Row, RejectBinding
    PROVE  WorkspaceMoves
BY DEF RejectBinding, WorkspaceMoves, Row, Terminal

LEMMA CancelNextLeaves ==
    ASSUME run \in Row, NEW w \in Worker, NEW todo, CancelNext(w, todo)
    PROVE  WorkspaceMoves
BY FinishIfLeaves DEF CancelNext, Cancelled, Terminal, db, WorkspaceMoves

LEMMA TimeoutNextLeaves ==
    ASSUME run \in Row, NEW w \in Worker, NEW todo, TimeoutNext(w, todo)
    PROVE  WorkspaceMoves
BY FinishIfLeaves DEF TimeoutNext, TimedOut, Terminal, db, WorkspaceMoves

LEMMA WorkspaceStep ==
    ASSUME TypeOK, [Next]_vars
    PROVE  WorkspaceMoves
<1>0. run \in Row /\ "failed" \in Terminal /\ "completed" \in Terminal
  BY DEF TypeOK, Terminal
<1>1. ASSUME NEW w \in Worker,
             \/ CancelStart(w) \/ CancelList(w) \/ CancelAbort(w) \/ CancelDelete(w)
             \/ CancelAbortAgain(w) \/ TimeoutStart(w) \/ TimeoutList(w) \/ TimeoutAbort(w)
      PROVE  WorkspaceMoves
  BY <1>0, <1>1, CancelNextLeaves, TimeoutNextLeaves
  DEF CancelStart, CancelList, CancelAbort, CancelDelete, CancelAbortAgain, TimeoutStart,
      TimeoutList, TimeoutAbort, db, WorkspaceMoves
<1>2. ASSUME NEW w \in Worker, StallAbort(w) \/ Gate(w) \/ Follow(w) \/ Apply(w)
      PROVE  WorkspaceMoves
  BY <1>0, <1>2, FinishIfLeaves, FinishLeaves
  DEF StallAbort, Gate, Follow, Apply, FailGate, db, WorkspaceMoves
<1>3. ASSUME NEW w \in Worker, Claim(w) \/ DispatchStart(w) \/ Reverify(w) \/ Authorize(w)
      PROVE  WorkspaceMoves
  BY <1>0, <1>3, RejectLeaves
  DEF Claim, DispatchStart, Reverify, Authorize, VerifyWorkspace, RejectIf, db, WorkspaceMoves
<1>4. ASSUME NEW w \in Worker,
             \/ Poll(w) \/ PersistSession(w) \/ SafetyCancel(w) \/ MarkDispatched(w)
             \/ ListSessions(w) \/ CreateSession(w) \/ LookupMessage(w) \/ Prompt(w)
             \/ Observe(w) \/ FollowUp(w) \/ CallFails(w) \/ Crash(w)
      PROVE  WorkspaceMoves
  BY <1>4
  DEF Poll, PersistSession, SafetyCancel, MarkDispatched, ListSessions, CreateSession,
      LookupMessage, Prompt, Observe, FollowUp, CallFails, Crash, db, WorkspaceMoves
<1>5. CASE \E w \in Worker : Claim(w) \/ Local(w) \/ Answered(w) \/ CallFails(w) \/ Crash(w)
  BY <1>1, <1>2, <1>3, <1>4, <1>5 DEF Local, Answered
<1>6. CASE \/ LateArrives \/ AgentEdits \/ (\E s \in Session : AgentEnds(s))
           \/ ServerRestarts \/ RequestCancel \/ TrustChanges \/ Tamper \/ DeadlinePasses
           \/ LeaseLapses \/ LeasePreempted \/ Settled \/ UNCHANGED vars
  BY <1>6
  DEF LateArrives, AgentEdits, AgentEnds, ServerRestarts, RequestCancel, TrustChanges, Tamper,
      DeadlinePasses, LeaseLapses, LeasePreempted, Settled, vars, db, WorkspaceMoves
<1> QED
  BY <1>5, <1>6 DEF Next

\* A step moves messages and late requests, or it writes the row, never both.
LEMMA MessageOrRow ==
    ASSUME [Next]_vars
    PROVE  UNCHANGED <<accepted, late>> \/ UNCHANGED db
<1>1. ASSUME NEW w \in Worker,
             \/ Claim(w) \/ Local(w) \/ CancelList(w) \/ TimeoutList(w) \/ ListSessions(w)
             \/ LookupMessage(w) \/ Observe(w) \/ Gate(w)
      PROVE  UNCHANGED <<accepted, late>>
  BY <1>1
  DEF Claim, Local, Poll, CancelStart, TimeoutStart, DispatchStart, PersistSession,
      SafetyCancel, Reverify, Authorize, MarkDispatched, Follow, Apply, CancelList,
      TimeoutList, ListSessions, LookupMessage, Observe, Gate, oc
<1>2. ASSUME NEW w \in Worker,
             CancelAbort(w) \/ CancelAbortAgain(w) \/ TimeoutAbort(w) \/ StallAbort(w)
      PROVE  UNCHANGED <<accepted, late>>
  BY <1>2 DEF CancelAbort, CancelAbortAgain, TimeoutAbort, StallAbort, Abort
<1>3. ASSUME NEW w \in Worker,
             \/ CancelDelete(w) \/ CreateSession(w) \/ Prompt(w) \/ FollowUp(w)
             \/ CallFails(w) \/ Crash(w)
      PROVE  UNCHANGED <<accepted, late>> \/ UNCHANGED db
  BY <1>3 DEF CancelDelete, CreateSession, Prompt, FollowUp, CallFails, Crash, oc
<1>4. CASE \E w \in Worker : Claim(w) \/ Local(w) \/ Answered(w) \/ CallFails(w) \/ Crash(w)
  BY <1>1, <1>2, <1>3, <1>4 DEF Answered
<1>5. CASE \/ LateArrives \/ AgentEdits \/ (\E s \in Session : AgentEnds(s))
           \/ ServerRestarts \/ RequestCancel \/ TrustChanges \/ Tamper \/ DeadlinePasses
           \/ LeaseLapses \/ LeasePreempted \/ Settled \/ UNCHANGED vars
  BY <1>5
  DEF LateArrives, AgentEdits, AgentEnds, ServerRestarts, RequestCancel, TrustChanges, Tamper,
      DeadlinePasses, LeaseLapses, LeasePreempted, Settled, vars, db, oc
<1> QED
  BY <1>4, <1>5 DEF Next

\* An open session stays open, and its messages stay, while nobody cancels.
LEMMA OpenStays ==
    ASSUME FencedInv, StartedInv, [Next]_vars, ~run'.cancel
    PROVE  /\ ~run.cancel
           /\ \A s \in Session : accepted[s] \subseteq accepted'[s] /\ (s \in open => s \in open')
<1>1. ~run.cancel
  BY RowStep DEF RowMoves
<1> QED
  BY <1>1, MessagesKept

LEMMA LateStep ==
    ASSUME FencedInv, StartedInv, Reachable, [Next]_vars, NEW r \in late'
    PROVE  LateGoes(r)'
<1>0. open \subseteq Session
  BY DEF FencedInv, TypeOK
<1>1. CASE r \in late
  BY <1>0, <1>1, OpenStays DEF Reachable, LateGoes
<1>2. CASE r \notin late
  <2>1. /\ open' = open
        /\ \/ r.req = "create" /\ r.to = NoSession
           \/ r.req # "create" /\ \E w \in Worker : pc[w] \in Locking /\ r.to = PromptTarget(w)
    BY <1>2, OcStep DEF OcMoves
  <2>2. ASSUME NEW w \in Worker, pc[w] \in Locking, r.req # "create", r.to = PromptTarget(w)
        PROVE  r.to \in open
    <3>1. r.to = run.session
      BY <2>2, TargetIsPersisted
    <3>2. ~run.cancel /\ run.status \in Active /\ Current(w)
      BY <2>2 DEF FencedInv, Fenced, Authorized, Current, Locking
    <3>3. CASE pc[w] = "prompting"
      <4>1. job[w].known \in Session /\ PromptTarget(w) = job[w].known
        BY <3>3 DEF FencedInv, Fenced, SnapshotHolds, Dispatching, PromptTarget
      <4> QED
        BY <2>2, <3>1, <3>2, <4>1 DEF Reachable
    <3>4. CASE pc[w] = "following"
      <4>1. run.status = "running"
        BY <3>2, <3>4 DEF FencedInv, Fenced, SnapshotHolds, Serving, Active
      <4> QED
        BY <3>1, <4>1 DEF StartedInv, RunningWasPrompted
    <3> QED
      BY <2>2, <3>3, <3>4 DEF Locking
  <2> QED
    BY <2>1, <2>2 DEF LateGoes
<1> QED
  BY <1>1, <1>2

LEMMA ReachableStep ==
    ASSUME FencedInv, StartedInv, Reachable, [Next]_vars
    PROVE  Reachable'
<1>0. open \subseteq Session /\ RowMoves
  BY RowStep DEF FencedInv, TypeOK
<1>1. ~run'.cancel /\ run'.session \in Session => run'.session \in open'
  <2> SUFFICES ASSUME ~run'.cancel, run'.session \in Session PROVE run'.session \in open'
    OBVIOUS
  <2>1. ~run.cancel /\ \A s \in Session : s \in open => s \in open'
    BY OpenStays
  <2>2. CASE run'.session = run.session
    BY <2>1, <2>2 DEF Reachable
  <2>3. CASE \E w \in Worker : pc[w] = "persist" /\ run'.session = job[w].known
    BY <2>1, <2>3 DEF Reachable
  <2> QED
    BY <1>0, <2>2, <2>3 DEF RowMoves
<1>2. ASSUME NEW w \in Worker, pc'[w] = "persist", ~run'.cancel
      PROVE  job'[w].known \in open'
  <2>1. ~run.cancel /\ \A s \in Session : s \in open => s \in open'
    BY <1>2, OpenStays
  <2>2. \/ pc'[w] = pc[w] /\ job'[w] = job[w]
        \/ Path(w)
    BY <1>2, LocalStep DEF LocalMoves, Others, Claims, local
  <2>3. CASE pc'[w] = pc[w] /\ job'[w] = job[w]
    BY <1>0, <1>2, <2>1, <2>3 DEF Reachable
  <2> QED
    BY <1>2, <2>2, <2>3 DEF Path
<1> QED
  BY <1>1, <1>2, LateStep DEF Reachable

\* A late request that is taken leaves its message behind, if its session exists.
LEMMA LateTaken ==
    ASSUME OcType, [Next]_vars, NEW r \in late, r \notin late'
    PROVE  r.req = "create" \/ r.to \notin open \/ accepted'[r.to] # {}
<1>1. ASSUME NEW w \in Worker, UNCHANGED oc \/ CalledEffect(w) \/ LateEffect(w)
      PROVE  late \subseteq late'
  <2>1. CASE CalledEffect(w)
    BY <2>1 DEF CalledEffect, Abort, Delete, oc
  <2>2. CASE LateEffect(w)
    BY <2>2 DEF LateEffect
  <2> QED
    BY <1>1, <2>1, <2>2 DEF oc
<1>2. CASE \E w \in Worker : Claim(w) \/ Local(w) \/ Answered(w) \/ CallFails(w) \/ Crash(w)
  <2>1. PICK w \in Worker :
          Claim(w) \/ Local(w) \/ Answered(w) \/ CallFails(w) \/ Crash(w)
    BY <1>2
  <2>2. CASE CallFails(w) \/ Crash(w)
    BY <1>1, <2>2 DEF CallFails, Crash
  <2>3. CASE Claim(w) \/ Local(w)
    BY <2>3
    DEF Claim, Local, Poll, CancelStart, TimeoutStart, DispatchStart, PersistSession,
        SafetyCancel, Reverify, Authorize, MarkDispatched, Follow, Apply, oc
  <2>4. CASE Answered(w)
    BY <2>4
    DEF Answered, CancelList, CancelAbort, CancelDelete, CancelAbortAgain, TimeoutList,
        TimeoutAbort, StallAbort, ListSessions, CreateSession, LookupMessage, Prompt, Observe,
        Gate, FollowUp, Abort, Delete, oc
  <2> QED
    BY <2>1, <2>2, <2>3, <2>4
<1>3. CASE LateArrives
  <2>1. PICK q \in late : late' = late \ {q} /\
          CASE q.req = "create" -> IF made = Session
                                     THEN UNCHANGED <<made, open, accepted, runner, turn>>
                                     ELSE \E s \in Session : Make(s)
            [] q.req # "create" -> IF q.to \in open
                                     THEN Accept(q.to, q.req)
                                     ELSE UNCHANGED <<made, open, accepted, runner, turn>>
    BY <1>3 DEF LateArrives
  <2>2. q = r
    BY <2>1
  <2>3. ASSUME r.req # "create", r.to \in open PROVE accepted'[r.to] # {}
    <3>1. accepted' = [accepted EXCEPT ![r.to] = @ \cup {r.req}]
      BY <2>1, <2>2, <2>3 DEF Accept
    <3> QED
      BY <2>3, <3>1 DEF OcType
  <2> QED
    BY <2>3
<1>4. CASE \/ AgentEdits \/ (\E s \in Session : AgentEnds(s)) \/ ServerRestarts
           \/ RequestCancel \/ TrustChanges \/ Tamper \/ DeadlinePasses
           \/ LeaseLapses \/ LeasePreempted \/ Settled \/ UNCHANGED vars
  BY <1>4
  DEF AgentEdits, AgentEnds, ServerRestarts, RequestCancel, TrustChanges, Tamper,
      DeadlinePasses, LeaseLapses, LeasePreempted, Settled, vars, oc
<1> QED
  BY <1>2, <1>3, <1>4 DEF Next

\* What happens to the prompted session: it is the row's, prompted while the run
\* is queued and nobody cancelled it, and forgotten only once somebody did.
Prompts(s) ==
    /\ run.status = "queued" /\ ~run.cancel
    /\ Prompted = {} /\ Prompted' = {s}

TargetMoves ==
    \/ Prompted' = Prompted
    \/ UNCHANGED db /\ \E s \in Session : Prompts(s)
    \/ UNCHANGED db /\ run.cancel /\ Prompted' = {}

LEMMA TargetStep ==
    ASSUME FencedInv, StartedInv, NoOrphanPrompt, Reachable, [Next]_vars
    PROVE  TargetMoves
<1>0. OcType
  BY TypeParts DEF FencedInv
<1>1. CASE UNCHANGED <<accepted, late>>
  <2>1. Prompted' = Prompted
    BY <1>1 DEF Prompted
  <2> QED
    BY <2>1 DEF TargetMoves
<1>2. CASE UNCHANGED db
  <2>1. Prompted \subseteq {run.session} /\ Prompted' \subseteq {run.session}
    BY PromptedStep DEF NoOrphanPrompt
  <2>2. CASE \E s \in Prompted' : s \notin Prompted
    <3>1. run.session \in Prompted' /\ run.session \notin Prompted
      BY <2>1, <2>2
    <3>2. PICK w \in Worker : pc[w] \in Locking
      BY <3>1, PromptedStep
    <3>3. ~run.cancel /\ run.status \in Active
      BY <3>2 DEF FencedInv, Fenced, Authorized
    <3>4. run.session \in Session
      BY <3>1 DEF Prompted
    <3>5. run.status # "running"
      BY <3>1, <3>4 DEF StartedInv, RunningWasPrompted, Prompted
    <3>6. Prompts(run.session)
      BY <2>1, <3>1, <3>3, <3>5 DEF Prompts, Active
    <3> QED
      BY <1>2, <3>4, <3>6 DEF TargetMoves
  <2>3. CASE \E s \in Prompted : s \notin Prompted'
    <3>1. PICK s \in Prompted : s \notin Prompted'
      BY <2>3
    <3>2. Prompted' = {}
      BY <2>1, <3>1
    <3>3. run.cancel
      <4> SUFFICES ASSUME ~run.cancel PROVE FALSE
        OBVIOUS
      <4>1. s \in Session /\ s # NoSession /\ accepted'[s] = {} /\ \A r \in late' : r.to # s
        BY <3>1, NullAssumption DEF Prompted
      <4>2. ~run'.cancel
        BY <1>2 DEF db
      <4>3. accepted[s] = {}
        BY <4>1, <4>2, OpenStays
      <4>4. PICK r \in late : r.to = s
        BY <3>1, <4>3 DEF Prompted
      <4>5. r.req # "create" /\ s \in open /\ r \notin late'
        BY <4>1, <4>4 DEF Reachable, LateGoes
      <4> QED
        BY <1>0, <4>1, <4>4, <4>5, LateTaken
    <3> QED
      BY <1>2, <3>2, <3>3 DEF TargetMoves
  <2>4. CASE Prompted' = Prompted
    BY <2>4 DEF TargetMoves
  <2> QED
    BY <2>2, <2>3, <2>4
<1> QED
  BY <1>1, <1>2, MessageOrRow

LEMMA LifeInvStep ==
    ASSUME FencedInv, StartedInv, SettledRow, LifeInv, "tamper" \notin Disturbances,
           [Next]_vars
    PROVE  LifeInv'
<1>1. Reachable'
  BY ReachableStep DEF LifeInv
<1>2. WorkspaceStands'
  <2> SUFFICES ASSUME run'.status \in Active PROVE workspace' = "ready"
    BY DEF WorkspaceStands
  <2>1. run.status \in Active
    BY SettleStep DEF SettleMoves
  <2>2. workspace' = workspace
    BY WorkspaceStep DEF FencedInv, WorkspaceMoves, Active, Terminal
  <2> QED
    BY <2>1, <2>2 DEF LifeInv, WorkspaceStands
<1> QED
  BY <1>1, <1>2 DEF LifeInv

\* The row takes the abstract life's steps, whatever becomes of the target.
LEMMA LifeStep ==
    ASSUME FencedInv, StartedInv, SettledRow, CancelInv, LifeInv, [Next]_vars
    PROVE  [Lifecycle!Next]_(Lifecycle!vars)
<1>0. /\ run \in Row /\ run' \in Row /\ RowMoves /\ SettleMoves /\ TargetMoves
  BY RowStep, SettleStep, TargetStep, StepType DEF FencedInv, TypeOK, LifeInv, CancelInv
<1>1. Prompted' = Prompted => Target' = Target
  BY DEF Target
<1>2. CASE Prompted' # Prompted
  <2>1. run' = run
    BY <1>0, <1>2 DEF TargetMoves, db
  <2>2. CASE \E s \in Session : Prompts(s)
    <3>1. PICK s \in Session : Prompts(s)
      BY <2>2
    <3>2. Target = NoSession /\ Target' = s
      BY <3>1 DEF Prompts, Target
    <3>3. Lifecycle!Prompt(s)
      BY <2>1, <3>1, <3>2 DEF Prompts, Lifecycle!Prompt
    <3> QED
      BY <3>3 DEF Lifecycle!Next
  <2>3. CASE run.cancel /\ Prompted' = {}
    <3>1. Target' = NoSession
      BY <2>3 DEF Target
    <3>2. Lifecycle!Forget
      BY <2>1, <2>3, <3>1 DEF Lifecycle!Forget
    <3> QED
      BY <3>2 DEF Lifecycle!Next
  <2> QED
    BY <1>0, <1>2, <2>2, <2>3 DEF TargetMoves
<1>3. CASE Prompted' = Prompted /\ run'.status = run.status
  <2>1. CASE run'.cancel = run.cancel
    BY <1>1, <1>3, <2>1 DEF Lifecycle!vars
  <2>2. CASE run'.cancel # run.cancel
    <3>1. run'.cancel = TRUE /\ ~run.cancel /\ run.status \in Active
      BY <1>0, <2>2 DEF RowMoves, SettleMoves, Row
    <3>2. Lifecycle!RequestCancel
      BY <1>1, <1>3, <3>1 DEF Lifecycle!RequestCancel, Lifecycle!Open, Active
    <3> QED
      BY <3>2 DEF Lifecycle!Next
  <2> QED
    BY <2>1, <2>2
<1>4. CASE Prompted' = Prompted /\ run'.status # run.status
  <2>1. run.status \in Active /\ run'.cancel = run.cancel
    BY <1>0, <1>4 DEF RowMoves, SettleMoves
  <2>2. CASE run'.status \in Active
    <3>1. run.status = "queued" /\ run'.status = "running"
      BY <1>0, <1>4, <2>1, <2>2 DEF RowMoves, Active
    <3>2. PICK w \in Worker : Marks(w)
      BY <1>0, <3>1 DEF RowMoves, Started
    <3>3. /\ ~run.cancel /\ job[w].known \in Session
          /\ "dispatch" \in accepted[job[w].known]
      BY <3>2 DEF Marks, StartedInv, Grounded, FencedInv, Fenced, SnapshotHolds, Dispatching
    <3>4. Prompted # {} /\ Prompted \subseteq Session
      BY <3>3 DEF Prompted
    <3>5. Target # NoSession
      BY <3>4, NullAssumption DEF Target
    <3>6. Lifecycle!Dispatch
      BY <1>1, <1>4, <2>1, <3>1, <3>3, <3>5 DEF Lifecycle!Dispatch
    <3> QED
      BY <3>6 DEF Lifecycle!Next
  <2>3. CASE run'.status \in Terminal /\ run.cancel
    <3>1. SettlesBy
      BY <1>0, <1>4, <2>3 DEF SettleMoves, Active, Terminal
    <3>2. ~ \E w \in Worker : Owned(w) /\ pc[w] \notin Cancelling \cup {"poll", "idle"}
      BY <2>3 DEF CancelInv, Canceller, Current, Owned
    <3>3. run'.status = "cancelled"
      BY <2>1, <3>1, <3>2 DEF SettlesBy, LifeInv, WorkspaceStands
    <3>4. Lifecycle!Stop
      BY <1>1, <1>4, <2>1, <2>3, <3>3 DEF Lifecycle!Stop, Lifecycle!Open, Active
    <3> QED
      BY <3>4 DEF Lifecycle!Next
  <2>4. CASE run'.status \in Terminal /\ ~run.cancel
    <3>1. run'.status \in {"completed", "failed"}
      BY <1>0, <2>1, <2>4 DEF RowMoves, Active, Terminal
    <3>2. CASE run'.status = "completed"
      <4>1. run.status = "running"
        BY <1>0, <1>4, <2>1, <3>2 DEF RowMoves, Started, Active
      <4>2. Lifecycle!Complete
        BY <1>1, <1>4, <2>1, <2>4, <3>2, <4>1 DEF Lifecycle!Complete
      <4> QED
        BY <4>2 DEF Lifecycle!Next
    <3>3. CASE run'.status = "failed"
      <4>1. Lifecycle!Fail
        BY <1>1, <1>4, <2>1, <2>4, <3>3 DEF Lifecycle!Fail, Lifecycle!Open, Active
      <4> QED
        BY <4>1 DEF Lifecycle!Next
    <3> QED
      BY <3>1, <3>2, <3>3
  <2> QED
    BY <1>0, <2>2, <2>3, <2>4 DEF Row
<1> QED
  BY <1>2, <1>3, <1>4

\* While the row is not restored over earlier messages and nobody edits the
\* workspace or its row from outside, an execution with all its workers, lost and
\* late calls, crashes and revocations lives the life of ExecutionLifecycle: one
\* session prompted at most, dispatched only after that, cancelled for good.
THEOREM RunsFollowTheLifecycle ==
    {"prior", "tamper"} \cap Disturbances = {} => (Spec => ImplementsLifecycle)
<1> SUFFICES ASSUME "prior" \notin Disturbances, "tamper" \notin Disturbances
             PROVE  Spec => ImplementsLifecycle
  OBVIOUS
<1>1. Init => Lifecycle!Init /\ LifeInv
  <2> SUFFICES ASSUME Init PROVE Lifecycle!Init /\ LifeInv
    OBVIOUS
  <2>1. /\ made = {} /\ late = {} /\ \A w \in Worker : pc[w] = "idle"
        /\ run.status = "queued" /\ run.cancel = FALSE /\ run.session = NoSession
        /\ workspace = "ready"
    BY DEF Init
  <2>2. \A s \in Session : accepted[s] = {}
    BY <2>1 DEF Init
  <2>3. Target = NoSession
    BY <2>1, <2>2 DEF Target, Prompted
  <2>4. LifeInv
    BY <2>1, NullAssumption DEF LifeInv, Reachable, WorkspaceStands
  <2> QED
    BY <2>1, <2>3, <2>4 DEF Lifecycle!Init
<1>2. FencedInv /\ StartedInv /\ SettledRow /\ LifeInv /\ [Next]_vars => LifeInv'
  BY LifeInvStep
<1>3. FencedInv /\ StartedInv /\ SettledRow /\ CancelInv /\ LifeInv /\ [Next]_vars
        => [Lifecycle!Next]_(Lifecycle!vars)
  BY LifeStep
<1> QED
  BY <1>1, <1>2, <1>3, FencedAlways, StartedAlways, SettledRowAlways, CancelAlways,
     PTL DEF Spec, ImplementsLifecycle, Lifecycle!Spec

-----------------------------------------------------------------------------
(* Where inference can be: which sessions may still have a runner.          *)

Lists == {"cancelList", "timeoutList"}
Aborts == {"cancelAbort", "timeoutAbort"}

\* The run is about to be settled, because its session was found at rest.
Rested(w) ==
    \/ pc[w] \in {"gate", "follow"}
    \/ pc[w] = "apply" /\ job[w].seen \in {"idle", "error"}

\* The sessions a cleanup still has to stop.
Targets(w) == {job[w].known} \cup job[w].todo

\* How a runner comes up: a prompt that is answered, or one that arrives late.
RunnerMoves ==
    \/ runner' \subseteq runner
    \/ \E w \in Worker :
          /\ pc[w] \in Locking /\ PromptTarget(w) \in open
          /\ runner' = runner \cup {PromptTarget(w)}
    \/ \E r \in late :
          /\ r.req # "create" /\ r.to \in open /\ r.req \notin accepted[r.to]
          /\ runner' = runner \cup {r.to}

\* Where a step of w takes it, as far as the sessions it has looked at go.
Sweeps(w) ==
    /\ pc'[w] = "list" => run.session = NoSession
    /\ pc'[w] = "cancel" =>
          \/ pc[w] = "poll" /\ job[w].cancel /\ Kept(w)
          \/ Owned(w) /\ run'.cancel /\ run'.owner = run.owner /\ run'.gen = run.gen /\ Kept(w)
    /\ pc'[w] \in Cancelling \ {"cancel"} => pc[w] \in Cancelling
    /\ pc'[w] = "create" => pc[w] = "list" /\ open = {}
    /\ pc'[w] = "persist" =>
          \/ pc[w] = "list" /\ open = {job'[w].known}
          \/ pc[w] = "create" /\ job'[w].known \in made'
    /\ pc'[w] \in Lists => run.session = NoSession /\ pc[w] \notin Locking
    /\ pc'[w] \in Aborts =>
          \/ /\ run.session # NoSession /\ job'[w].known = run.session /\ job'[w].todo = {}
             /\ pc[w] \notin Locking
          \/ pc[w] \in Lists /\ Targets(w)' = open
          \/ /\ pc[w] \in Aborts \cup {"cancelAbortAgain"}
             /\ Targets(w)' = job[w].todo /\ runner' = runner \ {job[w].known}
          \/ pc[w] = "cancelDelete" /\ job[w].known \notin open /\ Targets(w)' = job[w].todo
    /\ pc'[w] = "cancelDelete" =>
          pc[w] = "cancelAbort" /\ job' = job /\ runner' = runner \ {job[w].known}
    /\ pc'[w] = "cancelAbortAgain" =>
          pc[w] = "cancelDelete" /\ job' = job /\ open' = open \ {job[w].known}
    /\ Rested(w)' =>
          \/ Rested(w)
          \/ pc[w] = "observe" /\ job'[w].session = job[w].session
             /\ job[w].session \in open /\ job[w].session \notin runner

Stays(w) == pc'[w] = pc[w] /\ job'[w] = job[w]

SweepMoves(w) == Stays(w) \/ pc'[w] \in {"idle", "poll"} \/ Sweeps(w)

Elsewhere == Cancelling \cup {"list", "create", "persist"} \cup Lists \cup Aborts
               \cup {"gate", "follow", "apply"}

LEMMA OtherSweeps ==
    ASSUME NEW w \in Worker, pc'[w] \notin Elsewhere
    PROVE  Sweeps(w)
BY DEF Sweeps, Elsewhere, Rested, Lists, Aborts, Cancelling

LEMMA NextTargetSweeps ==
    ASSUME LocalType, NEW w \in Worker, NEW p, NEW b, NEW todo, NextTarget(w, p, b, todo)
    PROVE  /\ Others(w)
           /\ \/ pc'[w] = "idle"
              \/ /\ pc'[w] = p /\ Targets(w)' = todo
                 /\ \A s : todo = {s} => job'[w].known = s /\ job'[w].todo = {}
<1>1. CASE b
  <2>1. PICK s \in todo :
          GotoWith(w, p, [job[w] EXCEPT !.known = s, !.todo = todo \ {s}])
    BY <1>1 DEF NextTarget
  <2> DEFINE j == [job[w] EXCEPT !.known = s, !.todo = todo \ {s}]
  <2>2. Others(w) /\ pc'[w] = p /\ job'[w] = j
    BY <2>1, GotoWithMoves
  <2>3. j.known = s /\ j.todo = todo \ {s}
    BY DEF LocalType, Job
  <2> HIDE DEF j
  <2>4. job'[w].known = s /\ job'[w].todo = todo \ {s}
    BY <2>2, <2>3
  <2> QED
    BY <2>1, <2>2, <2>4 DEF Targets
<1>2. CASE ~b
  BY <1>2, LeaveMoves DEF NextTarget
<1> QED
  BY <1>1, <1>2

LEMMA CancelNextSweeps ==
    ASSUME LocalType, NEW w \in Worker, NEW todo, CancelNext(w, todo)
    PROVE  pc'[w] = "idle" \/ (pc'[w] = "cancelAbort" /\ Targets(w)' = todo)
<1>1. CASE todo = {}
  BY <1>1, LeaveMoves DEF CancelNext, Cancelled, FinishIf
<1>2. CASE todo # {}
  BY <1>2, NextTargetSweeps DEF CancelNext
<1> QED
  BY <1>1, <1>2

LEMMA TimeoutNextSweeps ==
    ASSUME LocalType, NEW w \in Worker, NEW todo, TimeoutNext(w, todo)
    PROVE  pc'[w] = "idle" \/ (pc'[w] = "timeoutAbort" /\ Targets(w)' = todo)
<1>1. CASE todo = {}
  BY <1>1, LeaveMoves DEF TimeoutNext, TimedOut, FinishIf
<1>2. CASE todo # {}
  BY <1>2, NextTargetSweeps DEF TimeoutNext
<1> QED
  BY <1>1, <1>2

\* The cleanups.
LEMMA CleanupSweeps ==
    ASSUME TypeOK, NEW w \in Worker,
           \/ CancelStart(w) \/ CancelList(w) \/ CancelAbort(w) \/ CancelDelete(w)
           \/ CancelAbortAgain(w) \/ TimeoutStart(w) \/ TimeoutList(w) \/ TimeoutAbort(w)
           \/ StallAbort(w)
    PROVE  SweepMoves(w)
<1>0. LocalType
  BY TypeParts
<1>l. ASSUME Leave(w) PROVE SweepMoves(w)
  BY <1>0, <1>l, LeaveMoves DEF SweepMoves
<1>p. ASSUME pc'[w] = "idle" PROVE SweepMoves(w)
  BY <1>p DEF SweepMoves
\* The first call of a cleanup.
<1>1. ASSUME pc'[w] \in Lists, run.session = NoSession, pc[w] \notin Locking,
             pc'[w] = "cancelList" => pc[w] \in Cancelling
      PROVE  SweepMoves(w)
  BY <1>1 DEF SweepMoves, Sweeps, Rested, Lists, Aborts, Cancelling
<1>2. ASSUME NEW p \in Aborts, NEW b, NextTarget(w, p, b, {run.session}),
             run.session # NoSession, pc[w] \notin Locking,
             p = "cancelAbort" => pc[w] \in Cancelling
      PROVE  SweepMoves(w)
  BY <1>0, <1>2, NextTargetSweeps DEF SweepMoves, Sweeps, Rested, Lists, Aborts, Cancelling
\* One session is clean, and the next one is due.
<1>3. ASSUME NEW todo, (CancelNext(w, todo) /\ pc[w] \in Cancelling) \/ TimeoutNext(w, todo),
             \/ pc[w] \in Lists /\ todo = open
             \/ /\ pc[w] \in Aborts \cup {"cancelAbortAgain"}
                /\ todo = job[w].todo /\ runner' = runner \ {job[w].known}
             \/ pc[w] = "cancelDelete" /\ job[w].known \notin open /\ todo = job[w].todo
      PROVE  SweepMoves(w)
  <2>1. \/ pc'[w] = "idle"
        \/ /\ pc'[w] \in Aborts /\ Targets(w)' = todo
           /\ pc'[w] = "cancelAbort" => pc[w] \in Cancelling
    BY <1>0, <1>3, CancelNextSweeps, TimeoutNextSweeps DEF Aborts
  <2>2. CASE /\ pc'[w] \in Aborts /\ Targets(w)' = todo
             /\ pc'[w] = "cancelAbort" => pc[w] \in Cancelling
    BY <1>3, <2>2 DEF SweepMoves, Sweeps, Rested, Lists, Aborts, Cancelling
  <2> QED
    BY <1>p, <2>1, <2>2
<1>4. CASE CancelStart(w)
  <2>1. \/ Leave(w) \/ (run.session = NoSession /\ Goto(w, "cancelList"))
        \/ run.session # NoSession /\ NextTarget(w, "cancelAbort", TRUE, {run.session})
    BY <1>4 DEF CancelStart
  <2>2. Goto(w, "cancelList") => pc'[w] \in Lists
    BY <1>0, GotoMoves DEF Lists
  <2>3. "cancelAbort" \in Aborts /\ pc[w] \notin Locking /\ pc[w] \in Cancelling
    BY <1>4 DEF Aborts, CancelStart, Locking, Cancelling
  <2> QED
    BY <1>l, <1>1, <1>2, <2>1, <2>2, <2>3
<1>5. CASE TimeoutStart(w)
  <2>1. \/ Leave(w) \/ (run.session = NoSession /\ Goto(w, "timeoutList"))
        \/ run.session # NoSession /\ NextTarget(w, "timeoutAbort", Beats(w), {run.session})
    BY <1>5 DEF TimeoutStart
  <2>2. Goto(w, "timeoutList") => pc'[w] \in Lists /\ pc'[w] # "cancelList"
    BY <1>0, GotoMoves DEF Lists
  <2>3. "timeoutAbort" \in Aborts /\ pc[w] \notin Locking
    BY <1>5 DEF Aborts, TimeoutStart, Locking
  <2> QED
    BY <1>l, <1>1, <1>2, <2>1, <2>2, <2>3
<1>6. CASE CancelList(w) \/ TimeoutList(w)
  BY <1>3, <1>6 DEF CancelList, TimeoutList, Lists, Cancelling
<1>7. CASE CancelAbortAgain(w) \/ TimeoutAbort(w)
  BY <1>3, <1>7 DEF CancelAbortAgain, TimeoutAbort, Abort, Aborts, Cancelling
<1>8. CASE CancelAbort(w)
  <2>1. pc[w] \in Aborts /\ pc[w] = "cancelAbort" /\ runner' = runner \ {job[w].known}
    BY <1>8 DEF CancelAbort, Abort, Aborts
  <2>2. CASE job[w].status = "queued"
    <3>1. Leave(w) \/ Goto(w, "cancelDelete")
      BY <1>8, <2>2 DEF CancelAbort
    <3>2. CASE Goto(w, "cancelDelete")
      <4>1. pc'[w] = "cancelDelete" /\ job' = job
        BY <1>0, <3>2, GotoMoves
      <4> QED
        BY <2>1, <4>1 DEF SweepMoves, Sweeps, Rested, Lists, Aborts, Cancelling
    <3> QED
      BY <1>l, <3>1, <3>2
  <2>3. CASE job[w].status # "queued"
    BY <1>3, <1>8, <2>1, <2>3 DEF CancelAbort, Cancelling
  <2> QED
    BY <2>2, <2>3
<1>9. CASE CancelDelete(w)
  <2>1. CASE job[w].known \in open
    <3>1. (Leave(w) \/ Goto(w, "cancelAbortAgain")) /\ open' = open \ {job[w].known}
      BY <1>9, <2>1 DEF CancelDelete, Delete
    <3>2. CASE Goto(w, "cancelAbortAgain")
      <4>1. pc'[w] = "cancelAbortAgain" /\ job' = job /\ pc[w] = "cancelDelete"
        BY <1>0, <1>9, <3>2, GotoMoves DEF CancelDelete
      <4> QED
        BY <3>1, <4>1 DEF SweepMoves, Sweeps, Rested, Lists, Aborts, Cancelling
    <3> QED
      BY <1>l, <3>1, <3>2
  <2>2. CASE job[w].known \notin open
    BY <1>3, <1>9, <2>2 DEF CancelDelete, Cancelling
  <2> QED
    BY <2>1, <2>2
<1>10. CASE StallAbort(w)
  BY <1>l, <1>10 DEF StallAbort, FinishIf
<1> QED
  BY <1>4, <1>5, <1>6, <1>7, <1>8, <1>9, <1>10

\* Dispatch.
LEMMA DispatchSweeps ==
    ASSUME TypeOK, NEW w \in Worker,
           \/ DispatchStart(w) \/ ListSessions(w) \/ CreateSession(w) \/ PersistSession(w)
           \/ LookupMessage(w) \/ SafetyCancel(w) \/ Reverify(w) \/ Authorize(w)
           \/ Prompt(w) \/ MarkDispatched(w) \/ Follow(w)
    PROVE  SweepMoves(w)
<1>0. DbType /\ LocalType /\ job[w] \in Job /\ OcType
  BY TypeParts DEF LocalType
<1>l. ASSUME Leave(w) PROVE SweepMoves(w)
  BY <1>0, <1>l, LeaveMoves DEF SweepMoves
<1>r. ASSUME NEW b, RejectIf(w, b) PROVE SweepMoves(w)
  BY <1>l, <1>r DEF RejectIf
<1>a. ASSUME NEW b, AgainIf(w, b) PROVE SweepMoves(w)
  BY <1>0, <1>a, AgainIfMoves DEF SweepMoves
<1>g. ASSUME NEW p, NEW j, GotoWith(w, p, j), p \notin Elsewhere PROVE SweepMoves(w)
  <2>1. pc'[w] = p
    BY <1>0, <1>g, GotoWithMoves
  <2> QED
    BY <1>g, <2>1, OtherSweeps DEF SweepMoves
<1>h. ASSUME NEW p, Goto(w, p), p \notin Elsewhere PROVE SweepMoves(w)
  <2>1. pc'[w] = p
    BY <1>0, <1>h, GotoMoves
  <2> QED
    BY <1>h, <2>1, OtherSweeps DEF SweepMoves
<1>1. CASE DispatchStart(w)
  <2> DEFINE p == IF run.session = NoSession THEN "list" ELSE "lookup"
             j == [job[w] EXCEPT !.known = run.session, !.was = run.verified]
  <2>1. GotoWith(w, p, j) \/ Leave(w) \/ RejectIf(w, Owned(w))
    BY <1>1 DEF DispatchStart, VerifyWorkspace
  <2>2. CASE GotoWith(w, p, j)
    <3>1. pc'[w] = p
      <4> HIDE DEF p, j
      <4> QED
        BY <1>0, <2>2, GotoWithMoves
    <3> QED
      BY <3>1 DEF SweepMoves, Sweeps, Rested, Lists, Aborts, Cancelling
  <2> QED
    BY <1>l, <1>r, <2>1, <2>2
<1>2. CASE ListSessions(w)
  <2> DEFINE Takes(s) == GotoWith(w, "persist", [job[w] EXCEPT !.known = s])
  <2>1. \/ AgainIf(w, Beats(w)) \/ Leave(w)
        \/ open = {} /\ Goto(w, "create")
        \/ \E s \in open : open = {s} /\ Takes(s)
    <3>1. IsFiniteSet(open)
      BY <1>0, SessionAssumption, FS_Subset DEF OcType
    <3>2. Cardinality(open) \in Nat
      BY <3>1, FS_CardinalityType
    <3>3. Cardinality(open) = 1 => \E s : open = {s}
      BY <3>1, FS_Singleton
    <3>4. Cardinality(open) = 0 => open = {}
      BY <3>1, FS_EmptySet
    <3>5. CASE Cardinality(open) > 1
      BY <1>2, <3>2, <3>5 DEF ListSessions
    <3>6. CASE Cardinality(open) = 1
      <4>1. \E s \in open : Takes(s)
        BY <1>2, <3>6 DEF ListSessions
      <4> HIDE DEF Takes
      <4> QED
        BY <3>3, <3>6, <4>1
    <3>7. CASE Cardinality(open) = 0
      BY <1>2, <3>4, <3>7 DEF ListSessions
    <3>8. Cardinality(open) > 1 \/ Cardinality(open) = 1 \/ Cardinality(open) = 0
      BY <3>2
    <3> QED
      BY <3>5, <3>6, <3>7, <3>8
  <2>2. pc[w] = "list"
    BY <1>2 DEF ListSessions
  <2>3. CASE open = {} /\ Goto(w, "create")
    <3>1. pc'[w] = "create"
      BY <1>0, <2>3, GotoMoves
    <3> QED
      BY <2>2, <2>3, <3>1 DEF SweepMoves, Sweeps, Rested, Lists, Aborts, Cancelling
  <2>4. ASSUME NEW s \in open, open = {s}, Takes(s)
        PROVE  SweepMoves(w)
    <3>1. pc'[w] = "persist" /\ job'[w].known = s
      BY <1>0, <2>4, KnowMoves
    <3> QED
      BY <2>2, <2>4, <3>1 DEF SweepMoves, Sweeps, Rested, Lists, Aborts, Cancelling
  <2> HIDE DEF Takes
  <2> QED
    BY <1>a, <1>l, <2>1, <2>3, <2>4
<1>3. CASE CreateSession(w)
  <2>1. PICK s \in Session :
          Make(s) /\ GotoWith(w, "persist", [job[w] EXCEPT !.known = s])
    BY <1>3 DEF CreateSession
  <2>2. pc'[w] = "persist" /\ job'[w].known = s /\ pc[w] = "create" /\ s \in made'
    BY <1>0, <1>3, <2>1, KnowMoves DEF CreateSession, Make
  <2> QED
    BY <2>2 DEF SweepMoves, Sweeps, Rested, Lists, Aborts, Cancelling
<1>4. CASE PersistSession(w)
  BY <1>l, <1>h, <1>4 DEF PersistSession, Elsewhere, Lists, Aborts, Cancelling
<1>5. CASE LookupMessage(w)
  <2>1. PICK p \in {"timeout", "reverify", "mark", "safety"} : Goto(w, p)
    BY <1>5 DEF LookupMessage
  <2> QED
    BY <1>h, <2>1 DEF Elsewhere, Lists, Aborts, Cancelling
<1>6. CASE SafetyCancel(w)
  <2>1. CASE Goto(w, "cancel") /\ Owned(w) /\ run' = [run EXCEPT !.cancel = TRUE]
    <3>1. pc'[w] = "cancel" /\ job' = job
      BY <1>0, <2>1, GotoMoves
    <3>2. run'.cancel /\ run'.owner = run.owner /\ run'.gen = run.gen
      BY <1>0, <2>1 DEF DbType, Row
    <3> QED
      BY <2>1, <3>1, <3>2 DEF SweepMoves, Sweeps, Rested, Lists, Aborts, Cancelling, Kept
  <2> QED
    BY <1>l, <1>6, <2>1 DEF SafetyCancel
<1>7. CASE Reverify(w)
  <2>1. GotoWith(w, "authorize", job[w]) \/ Leave(w) \/ RejectIf(w, Owned(w))
    BY <1>7 DEF Reverify, VerifyWorkspace
  <2> QED
    BY <1>l, <1>r, <1>g, <2>1 DEF Elsewhere, Lists, Aborts, Cancelling
<1>8. CASE Authorize(w)
  <2>1. \/ RejectIf(w, Owned(w)) \/ Leave(w) \/ Goto(w, "timeout") \/ Goto(w, "prompting")
    BY <1>8 DEF Authorize
  <2> QED
    BY <1>l, <1>r, <1>h, <2>1 DEF Elsewhere, Lists, Aborts, Cancelling
<1>9. CASE Prompt(w)
  BY <1>a, <1>h, <1>9 DEF Prompt, Elsewhere, Lists, Aborts, Cancelling
<1>10. CASE MarkDispatched(w)
  BY <1>l, <1>h, <1>10 DEF MarkDispatched, Elsewhere, Lists, Aborts, Cancelling
<1>11. CASE Follow(w)
  <2>1. Leave(w) \/ Goto(w, "timeout") \/ Goto(w, "following")
    BY <1>11 DEF Follow, FailGate, FinishIf
  <2> QED
    BY <1>l, <1>h, <2>1 DEF Elsewhere, Lists, Aborts, Cancelling
<1> QED
  BY <1>1, <1>2, <1>3, <1>4, <1>5, <1>6, <1>7, <1>8, <1>9, <1>10, <1>11

\* Serving, failures and claims.
LEMMA ServingSweeps ==
    ASSUME FencedInv, NEW w \in Worker,
           \/ Poll(w) \/ Observe(w) \/ Gate(w) \/ FollowUp(w) \/ Apply(w)
           \/ CallFails(w) \/ Crash(w) \/ Claim(w)
    PROVE  Others(w) /\ SweepMoves(w)
<1>0. TypeOK /\ DbType /\ LocalType /\ job[w] \in Job
  BY TypeParts DEF FencedInv, LocalType
<1>1. CASE CallFails(w) \/ Crash(w)
  BY <1>0, <1>1, FailureMoves DEF SweepMoves
<1>2. CASE Claim(w)
  <2>1. CASE workspace = "ready"
    BY <1>0, <1>2, <2>1, ClaimMoves DEF Claims, SweepMoves
  <2>2. CASE workspace # "ready"
    BY <1>2, <2>2 DEF Claim, Others, SweepMoves, Stays, local
  <2> QED
    BY <2>1, <2>2
<1>3. CASE Poll(w)
  <2>1. /\ Others(w) /\ job' = job /\ pc[w] = "poll"
        /\ pc'[w] \in {"cancel", "timeout", "dispatch", "observe"}
        /\ pc'[w] = "cancel" => job[w].cancel
    BY <1>0, <1>3, GotoMoves DEF Poll
  <2> QED
    BY <2>1 DEF SweepMoves, Sweeps, Rested, Lists, Aborts, Cancelling, Kept
<1>o. Observe(w) \/ Gate(w) \/ FollowUp(w) \/ Apply(w) => Others(w)
  BY <1>0, ServingMoves
<1>l. ASSUME Leave(w) PROVE SweepMoves(w)
  BY <1>0, <1>l, LeaveMoves DEF SweepMoves
<1>a. ASSUME NEW b, AgainIf(w, b) PROVE SweepMoves(w)
  BY <1>0, <1>a, AgainIfMoves DEF SweepMoves
<1>h. ASSUME NEW p, Goto(w, p), p \notin Elsewhere PROVE SweepMoves(w)
  <2>1. pc'[w] = p
    BY <1>0, <1>h, GotoMoves
  <2> QED
    BY <1>h, <2>1, OtherSweeps DEF SweepMoves
<1>4. CASE Observe(w)
  <2> DEFINE j == [job[w] EXCEPT !.seen = Seen(job[w].session)]
  <2>1. j.session = job[w].session /\ j.seen = Seen(job[w].session)
    BY <1>0 DEF Job
  <2>2. \/ AgainIf(w, Beats(w)) \/ Goto(w, "stallAbort") \/ Leave(w)
        \/ GotoWith(w, "timeout", j)
        \/ job[w].session \in open /\ Seen(job[w].session) = "idle" /\ GotoWith(w, "gate", j)
        \/ job[w].session \in open /\ GotoWith(w, "apply", j)
    BY <1>4 DEF Observe
  <2>3. Seen(job[w].session) \in {"idle", "error"} => job[w].session \notin runner
    BY DEF Seen
  <2>4. pc[w] = "observe"
    BY <1>4 DEF Observe
  <2> HIDE DEF j
  <2>5. ASSUME GotoWith(w, "timeout", j) PROVE SweepMoves(w)
    <3>1. pc'[w] = "timeout"
      BY <1>0, <2>5, GotoWithMoves
    <3> QED
      BY <3>1, OtherSweeps DEF SweepMoves, Elsewhere, Lists, Aborts, Cancelling
  <2>6. ASSUME NEW p \in {"gate", "apply"}, GotoWith(w, p, j), job[w].session \in open,
               p = "gate" => Seen(job[w].session) = "idle"
        PROVE  SweepMoves(w)
    <3>1. pc'[w] = p /\ job'[w] = j
      BY <1>0, <2>6, GotoWithMoves
    <3> QED
      BY <2>1, <2>3, <2>4, <2>6, <3>1 DEF SweepMoves, Sweeps, Rested, Lists, Aborts, Cancelling
  <2>7. Goto(w, "stallAbort") => SweepMoves(w)
    BY <1>h DEF Elsewhere, Lists, Aborts, Cancelling
  <2>8. job[w].session \in open /\ Seen(job[w].session) = "idle" /\ GotoWith(w, "gate", j)
          => SweepMoves(w)
    BY <2>6
  <2>9. job[w].session \in open /\ GotoWith(w, "apply", j) => SweepMoves(w)
    BY <2>6
  <2> QED
    BY <1>a, <1>l, <1>o, <1>4, <2>2, <2>5, <2>7, <2>8, <2>9
<1>5. CASE Gate(w)
  <2>1. pc[w] = "gate"
    BY <1>5 DEF Gate
  <2>2. ASSUME NEW p \in {"apply", "follow"}, Goto(w, p) PROVE SweepMoves(w)
    <3>1. pc'[w] = p /\ job' = job
      BY <1>0, <2>2, GotoMoves
    <3> QED
      BY <2>1, <2>2, <3>1 DEF SweepMoves, Sweeps, Rested, Lists, Aborts, Cancelling
  <2> QED
    BY <1>a, <1>l, <1>o, <1>5, <2>2 DEF Gate, FailGate, FinishIf
<1>6. CASE FollowUp(w)
  BY <1>a, <1>o, <1>6 DEF FollowUp, AgainIf
<1>7. CASE Apply(w)
  <2>1. Leave(w) \/ Goto(w, "cancel") \/ Goto(w, "timeout") \/ Again(w)
    BY <1>7 DEF Apply
  <2>2. Goto(w, "timeout") => SweepMoves(w)
    BY <1>h DEF Elsewhere, Lists, Aborts, Cancelling
  <2>4. ASSUME Goto(w, "cancel") PROVE SweepMoves(w)
    <3>1. pc'[w] = "cancel" /\ job' = job
      BY <1>0, <2>4, GotoMoves
    <3>2. Owned(w) /\ run.cancel /\ run' = run
      <4>1. ~Leave(w) /\ ~Again(w)
        BY <1>0, <3>1, LeaveMoves, AgainMoves
      <4>2. ~Goto(w, "timeout")
        BY <1>0, <3>1, GotoMoves
      <4> QED
        BY <1>7, <4>1, <4>2 DEF Apply, db
    <3> QED
      BY <3>1, <3>2 DEF SweepMoves, Sweeps, Rested, Lists, Aborts, Cancelling, Kept
  <2>3. Again(w) => SweepMoves(w)
    BY <1>0, AgainMoves DEF SweepMoves
  <2> QED
    BY <1>l, <1>o, <1>7, <2>1, <2>2, <2>3, <2>4
<1> QED
  BY <1>1, <1>2, <1>3, <1>4, <1>5, <1>6, <1>7

LEMMA SweepStep ==
    ASSUME FencedInv, [Next]_vars, NEW w \in Worker
    PROVE  SweepMoves(w)
<1>0. TypeOK
  BY DEF FencedInv
<1>1. CASE \E u \in Worker : Claim(u) \/ Local(u) \/ Answered(u) \/ CallFails(u) \/ Crash(u)
  <2>1. PICK u \in Worker :
          Claim(u) \/ Local(u) \/ Answered(u) \/ CallFails(u) \/ Crash(u)
    BY <1>1
  <2>2. Others(u)
    <3>1. CASE LocalMoves(u)
      BY <3>1 DEF LocalMoves
    <3>2. CASE \/ Poll(u) \/ Observe(u) \/ Gate(u) \/ FollowUp(u) \/ Apply(u)
               \/ CallFails(u) \/ Crash(u) \/ Claim(u)
      BY <3>2, ServingSweeps
    <3> QED
      BY <1>0, <2>1, <3>1, <3>2, CancelPath, DispatchPath DEF Local, Answered
  <2>3. SweepMoves(u)
    BY <1>0, <2>1, ServingSweeps, CleanupSweeps, DispatchSweeps DEF Local, Answered
  <2> QED
    BY <2>2, <2>3 DEF Others, SweepMoves, Stays
<1>2. CASE \/ LateArrives \/ AgentEdits \/ (\E s \in Session : AgentEnds(s))
           \/ ServerRestarts \/ RequestCancel \/ TrustChanges \/ Tamper
           \/ DeadlinePasses \/ LeaseLapses \/ LeasePreempted \/ Settled \/ UNCHANGED vars
  BY <1>2
  DEF LateArrives, AgentEdits, AgentEnds, ServerRestarts, RequestCancel, TrustChanges,
      Tamper, DeadlinePasses, LeaseLapses, LeasePreempted, Settled, vars, local,
      SweepMoves, Stays
<1> QED
  BY <1>1, <1>2 DEF Next

-----------------------------------------------------------------------------

\* A prompt goes to a session that exists.
LEMMA TargetExists ==
    ASSUME FencedInv, StartedInv, NEW w \in Worker, pc[w] \in Locking
    PROVE  PromptTarget(w) = run.session /\ run.session \in Session
<1>1. PromptTarget(w) = run.session
  BY TargetIsPersisted
<1>2. CASE pc[w] = "prompting"
  BY <1>1, <1>2 DEF FencedInv, Fenced, SnapshotHolds, Dispatching, PromptTarget
<1>3. CASE pc[w] = "following"
  <2>1. run.status = "running"
    BY <1>3 DEF FencedInv, Fenced, SnapshotHolds, Authorized, Current, Serving, Locking, Active
  <2> QED
    BY <1>1, <2>1 DEF StartedInv, RunningWasPrompted, FencedInv, TypeOK
<1> QED
  BY <1>1, <1>2, <1>3 DEF Locking

LEMMA AcceptRuns ==
    ASSUME NEW w \in Worker, NEW m, pc[w] \in Locking, PromptTarget(w) \in open,
           Accept(PromptTarget(w), m)
    PROVE  RunnerMoves
BY DEF Accept, RunnerMoves

LEMMA RunnerStep ==
    ASSUME FencedInv, [Next]_vars
    PROVE  RunnerMoves
<1>s. runner' \subseteq runner => RunnerMoves
  BY DEF RunnerMoves
<1>1. CASE \E w \in Worker : Claim(w) \/ Local(w) \/ Answered(w) \/ CallFails(w) \/ Crash(w)
  <2>1. PICK w \in Worker :
          Claim(w) \/ Local(w) \/ Answered(w) \/ CallFails(w) \/ Crash(w)
    BY <1>1
  <2>2. CASE Claim(w) \/ Local(w)
    BY <1>s, <2>2
    DEF Claim, Local, Poll, CancelStart, TimeoutStart, DispatchStart, PersistSession,
        SafetyCancel, Reverify, Authorize, MarkDispatched, Follow, Apply, oc
  <2>3. CASE CancelList(w) \/ TimeoutList(w) \/ ListSessions(w) \/ LookupMessage(w)
              \/ Observe(w) \/ Gate(w)
    BY <1>s, <2>3
    DEF CancelList, TimeoutList, ListSessions, LookupMessage, Observe, Gate, oc
  <2>4. CASE CancelAbort(w) \/ CancelAbortAgain(w) \/ TimeoutAbort(w) \/ StallAbort(w)
    BY <1>s, <2>4 DEF CancelAbort, CancelAbortAgain, TimeoutAbort, StallAbort, Abort
  <2>5. CASE CancelDelete(w)
    BY <1>s, <2>5 DEF CancelDelete, Delete, oc
  <2>6. CASE CreateSession(w)
    BY <1>s, <2>6 DEF CreateSession, Make
  <2>7. CASE Prompt(w)
    <3>1. PromptTarget(w) = job[w].known /\ pc[w] \in Locking
      BY <2>7 DEF Prompt, PromptTarget, Locking
    <3> QED
      BY <1>s, <2>7, <3>1, AcceptRuns DEF Prompt, oc
  <2>8. CASE FollowUp(w)
    <3>1. PromptTarget(w) = job[w].session /\ pc[w] \in Locking
      BY <2>8 DEF FollowUp, PromptTarget, Locking
    <3> QED
      BY <1>s, <2>8, <3>1, AcceptRuns DEF FollowUp, oc
  <2>9. CASE CallFails(w) \/ Crash(w)
    <3>1. UNCHANGED oc \/ CalledEffect(w) \/ LateEffect(w)
      BY <2>9 DEF CallFails, Crash
    <3>2. CASE UNCHANGED oc \/ LateEffect(w)
      BY <1>s, <3>2 DEF LateEffect, oc
    <3>3. CASE CalledEffect(w)
      <4>1. CASE pc[w] \in Locking
        <5>1. /\ PromptTarget(w) \in open
              /\ Accept(PromptTarget(w), "dispatch") \/ Accept(PromptTarget(w), "followup")
          BY <3>3, <4>1 DEF CalledEffect, PromptTarget, Locking
        <5> QED
          BY <4>1, <5>1, AcceptRuns
      <4>2. CASE pc[w] \notin Locking
        BY <1>s, <3>3, <4>2 DEF CalledEffect, Abort, Delete, Make, Locking, oc
      <4> QED
        BY <4>1, <4>2
    <3> QED
      BY <3>1, <3>2, <3>3
  <2> QED
    BY <2>1, <2>2, <2>3, <2>4, <2>5, <2>6, <2>7, <2>8, <2>9 DEF Answered
<1>2. CASE LateArrives
  <2>1. PICK r \in late :
        CASE r.req = "create" -> IF made = Session
                                   THEN UNCHANGED <<made, open, accepted, runner, turn>>
                                   ELSE \E s \in Session : Make(s)
          [] r.req # "create" -> IF r.to \in open
                                   THEN Accept(r.to, r.req)
                                   ELSE UNCHANGED <<made, open, accepted, runner, turn>>
    BY <1>2 DEF LateArrives
  <2>2. \/ runner' \subseteq runner
        \/ r.req # "create" /\ r.to \in open /\ Accept(r.to, r.req)
    BY <2>1 DEF Make
  <2> QED
    BY <1>s, <2>2 DEF Accept, RunnerMoves
<1>3. CASE \/ AgentEdits \/ (\E s \in Session : AgentEnds(s)) \/ ServerRestarts
           \/ RequestCancel \/ TrustChanges \/ Tamper \/ DeadlinePasses \/ LeaseLapses
           \/ LeasePreempted \/ Settled \/ UNCHANGED vars
  BY <1>s, <1>3
  DEF AgentEdits, AgentEnds, ServerRestarts, RequestCancel, TrustChanges, Tamper,
      DeadlinePasses, LeaseLapses, LeasePreempted, Settled, vars, oc
<1> QED
  BY <1>1, <1>2, <1>3 DEF Next

\* The session is persisted once, by the owner of the lease.
Persists(u) ==
    /\ Current(u) /\ pc[u] = "persist" /\ pc'[u] = "lookup"
    /\ run.session = NoSession /\ run'.session = job[u].known

LEMMA SessionStep ==
    ASSUME FencedInv, [Next]_vars
    PROVE  run'.session = run.session \/ \E u \in Worker : Persists(u)
<1>0. TypeOK /\ DbType /\ LocalType /\ run \in Row
  BY TypeParts DEF FencedInv, DbType
<1>r. ASSUME NEW w \in Worker, RejectIf(w, Owned(w)) PROVE run'.session = run.session
  BY <1>0, <1>r DEF RejectIf, RejectBinding, Row, db
<1>c. ASSUME NEW w \in Worker, Calm(w) PROVE run'.session = run.session
  BY <1>c DEF Calm, Ends
<1>1. CASE \E w \in Worker : Claim(w) \/ Local(w) \/ Answered(w) \/ CallFails(w) \/ Crash(w)
  <2>1. PICK w \in Worker :
          Claim(w) \/ Local(w) \/ Answered(w) \/ CallFails(w) \/ Crash(w)
    BY <1>1
  <2>2. CASE Claim(w)
    BY <1>0, <2>2 DEF Claim, RejectBinding, Row
  <2>3. CASE PersistSession(w)
    <3>1. CASE Beats(w) /\ run' = [run EXCEPT !.session = job[w].known] /\ Goto(w, "lookup")
               /\ run.session \in {NoSession, job[w].known}
      <4>1. pc'[w] = "lookup" /\ run'.session = job[w].known
        BY <1>0, <3>1, GotoMoves DEF Row
      <4>2. pc[w] = "persist" /\ Current(w)
        BY <2>3, <3>1 DEF PersistSession, Current, Beats, Owned
      <4> QED
        BY <3>1, <4>1, <4>2 DEF Persists
    <3> QED
      BY <2>3, <3>1 DEF PersistSession
  <2>4. CASE DispatchStart(w) \/ Reverify(w)
    <3>1. ASSUME NEW p, NEW j, VerifyWorkspace(w, p, j) PROVE run'.session = run.session
      <4>1. RejectIf(w, Owned(w)) \/ run' = [run EXCEPT !.verified = TRUE] \/ run' = run
        BY <3>1 DEF VerifyWorkspace, db
      <4> QED
        BY <1>0, <1>r, <4>1 DEF Row
    <3> QED
      BY <2>4, <3>1 DEF DispatchStart, Reverify, db
  <2>5. CASE SafetyCancel(w) \/ MarkDispatched(w)
    BY <1>0, <2>5 DEF SafetyCancel, MarkDispatched, Row
  <2>6. CASE Authorize(w)
    BY <1>r, <2>6 DEF Authorize, db
  <2>7. CASE Follow(w)
    <3>1. CASE FailGate(w)
      BY <1>0, <3>1, FinishIfMoves DEF FailGate, Ends, Terminal
    <3> QED
      BY <2>7, <3>1 DEF Follow, db
  <2> QED
    BY <1>0, <1>c, <2>1, <2>2, <2>3, <2>4, <2>5, <2>6, <2>7, PollCalm, CleanupCalm,
       ServingCalm, ReadingCalm, FailureCalm
    DEF Local, Answered
<1>2. CASE \/ LateArrives \/ AgentEdits \/ (\E s \in Session : AgentEnds(s))
           \/ ServerRestarts \/ RequestCancel \/ TrustChanges \/ Tamper
           \/ DeadlinePasses \/ LeaseLapses \/ LeasePreempted \/ Settled \/ UNCHANGED vars
  BY <1>0, <1>2
  DEF LateArrives, AgentEdits, AgentEnds, ServerRestarts, RequestCancel, TrustChanges,
      Tamper, DeadlinePasses, LeaseLapses, LeasePreempted, Settled, vars, db, Row
<1> QED
  BY <1>1, <1>2 DEF Next

\* A prompt given up by its client goes to the persisted session.
LateTargets ==
    \A r \in late : IF r.req = "create" THEN r.to = NoSession
                                        ELSE r.to = run.session /\ r.to \in Session

\* Only the persisted session is ever inferring; before there is one, a session
\* that a restored row left behind may be, and OpenCode still lists it.
OneRunner ==
    IF run.session = NoSession THEN runner \subseteq open ELSE runner \subseteq {run.session}

\* A session that is created or found has no other beside it that infers, and
\* one that is deleted without having been persisted is at rest.
Creating(w) ==
    /\ pc[w] = "cancelDelete" /\ run.session = NoSession => job[w].known \notin runner
    /\ Current(w) /\ pc[w] \in {"list", "create", "persist"} => run.session = NoSession
    /\ Current(w) /\ pc[w] = "create" => runner = {}
    /\ Current(w) /\ pc[w] = "persist" => runner \subseteq {job[w].known}

RunnerInv == LateTargets /\ OneRunner /\ \A w \in Worker : Creating(w)

\* Nothing starts to infer before a session is persisted, ...
LEMMA NoRunnerYet ==
    ASSUME FencedInv, LateTargets, [Next]_vars, run.session = NoSession
    PROVE  runner' \subseteq runner
<1>1. NoSession \notin open
  BY NullAssumption DEF FencedInv, TypeOK
<1> QED
  BY <1>1, RunnerStep, TargetIsPersisted DEF RunnerMoves, LateTargets

\* ... and then only in that session.
LEMMA OnlyThatRunner ==
    ASSUME FencedInv, LateTargets, [Next]_vars
    PROVE  runner' \subseteq runner \cup {run.session}
BY RunnerStep, TargetIsPersisted DEF RunnerMoves, LateTargets

LEMMA LateTargetsStep ==
    ASSUME FencedInv, StartedInv, LateTargets, [Next]_vars
    PROVE  LateTargets'
<1>1. run.session # NoSession => run'.session = run.session
  BY SessionStep DEF Persists
<1>2. \A r \in late' : \/ r \in late
                       \/ r.req = "create" /\ r.to = NoSession
                       \/ r.req # "create" /\ r.to = run.session /\ run.session \in Session
  BY OcStep, TargetExists DEF OcMoves
<1> QED
  BY <1>1, <1>2, NullAssumption DEF LateTargets

LEMMA CurrentIsOne ==
    ASSUME NEW u \in Worker, NEW w \in Worker, Current(u), Current(w)
    PROVE  u = w
BY DEF Current

\* Whoever holds the lease after a step and is neither idle nor about to poll
\* held it before; and the session it works for is the same.
LEMMA HolderStep ==
    ASSUME FencedInv, [Next]_vars, NEW w \in Worker, Current(w)', pc'[w] \notin {"idle", "poll"}
    PROVE  /\ Current(w) /\ (Stays(w) \/ Sweeps(w))
           /\ run'.session = run.session \/ Persists(w)
<1>1. Current(w)
  BY CurrentStep DEF Claims
<1>2. run'.session = run.session \/ Persists(w)
  BY <1>1, SessionStep, CurrentIsOne DEF Persists
<1> QED
  BY <1>1, <1>2, SweepStep DEF SweepMoves

LEMMA RunnerInvStep ==
    ASSUME FencedInv, StartedInv, RunnerInv, [Next]_vars
    PROVE  RunnerInv'
<1>0. LateTargets /\ OneRunner /\ open \subseteq Session /\ NoSession \notin Session
  BY NullAssumption DEF RunnerInv, FencedInv, TypeOK
<1>s. run.session = NoSession => runner' \subseteq runner
  BY <1>0, NoRunnerYet
<1>1. LateTargets'
  BY <1>0, LateTargetsStep
<1>2. OneRunner'
  <2>1. CASE run'.session = run.session /\ run.session # NoSession
    BY <1>0, <2>1, OnlyThatRunner DEF OneRunner
  <2>2. CASE run'.session = run.session /\ run.session = NoSession
    <3>1. runner \subseteq open'
      BY <1>0, <2>2, OcStep DEF OcMoves, OneRunner, RunnerInv, Creating
    <3> QED
      BY <1>s, <2>2, <3>1 DEF OneRunner
  <2>3. ASSUME NEW u \in Worker, Persists(u) PROVE OneRunner'
    <3>1. job[u].known \in Session /\ runner \subseteq {job[u].known}
      BY <2>3 DEF Persists, RunnerInv, Creating, FencedInv, Fenced, SnapshotHolds
    <3> QED
      BY <1>0, <1>s, <2>3, <3>1 DEF Persists, OneRunner
  <2> QED
    BY <2>1, <2>2, <2>3, SessionStep
<1>3. ASSUME NEW w \in Worker PROVE Creating(w)'
  <2>0. Creating(w)
    BY <1>3 DEF RunnerInv
  <2>1. ASSUME pc'[w] = "cancelDelete", run'.session = NoSession
        PROVE  job'[w].known \notin runner'
    <3>1. run.session = NoSession
      BY <2>1, SessionStep DEF Persists
    <3>2. Stays(w) \/ Sweeps(w)
      BY <2>1, SweepStep DEF SweepMoves
    <3> QED
      BY <1>s, <2>0, <2>1, <3>1, <3>2 DEF Stays, Sweeps, Creating
  <2>2. ASSUME Current(w)', pc'[w] \in {"list", "create", "persist"}
        PROVE  /\ run'.session = NoSession
               /\ pc'[w] = "create" => runner' = {}
               /\ pc'[w] = "persist" => runner' \subseteq {job'[w].known}
    <3>1. Current(w) /\ (Stays(w) \/ Sweeps(w)) /\ run'.session = run.session
      BY <2>2, HolderStep DEF Persists
    <3>2. run.session = NoSession
      BY <2>0, <2>2, <3>1 DEF Stays, Sweeps, Creating
    <3>3. runner' \subseteq runner /\ runner \subseteq open
      BY <1>0, <1>s, <3>2 DEF OneRunner
    <3> QED
      BY <2>0, <2>2, <3>1, <3>2, <3>3 DEF Stays, Sweeps, Creating
  <2> QED
    BY <2>1, <2>2 DEF Creating
<1> QED
  BY <1>1, <1>2, <1>3 DEF RunnerInv

LEMMA RunnerAlways == Spec => []RunnerInv
<1>1. Init => RunnerInv
  <2> SUFFICES ASSUME Init PROVE RunnerInv
    OBVIOUS
  <2>1. /\ late = {} /\ run.session = NoSession /\ runner \subseteq open
        /\ \A w \in Worker : pc[w] = "idle"
    BY DEF Init
  <2> QED
    BY <2>1 DEF RunnerInv, LateTargets, OneRunner, Creating
<1>2. FencedInv /\ StartedInv /\ RunnerInv /\ [Next]_vars => RunnerInv'
  BY RunnerInvStep
<1> QED
  BY <1>1, <1>2, FencedAlways, StartedAlways, PTL DEF Spec

-----------------------------------------------------------------------------
(* A settled run leaves no inference behind.                                *)

\* A late request is one of those the instance has.
LateAllowed == \A r \in late : r.req \in LateCalls

LEMMA LateAllowedAlways == Spec => []LateAllowed
<1>1. Init => LateAllowed
  BY DEF Init, LateAllowed
<1>2. FencedInv /\ LateAllowed /\ [Next]_vars => LateAllowed'
  BY OcStep DEF OcMoves, LateAllowed
<1> QED
  BY <1>1, <1>2, FencedAlways, PTL DEF Spec

\* Prompts are processed in time or not at all.
PromptLate == LateCalls \subseteq {"create"}

\* While a worker holds the lease, whatever still infers is something that its
\* cleanup has yet to stop; and what it found at rest is at rest.
Swept(w) ==
    Current(w) =>
        /\ pc[w] \in Lists => run.session = NoSession
        /\ pc[w] \in Aborts => runner \subseteq Targets(w)
        /\ pc[w] \in {"cancelDelete", "cancelAbortAgain"} => runner \subseteq job[w].todo
        /\ Rested(w) => runner = {}

Quiet == run.status \in Terminal /\ run.stage # "workspace_binding_rejected" => runner = {}

QuietInv == Quiet /\ \A w \in Worker : Swept(w)

\* While its owner sends no prompt, nothing of the run starts to infer.
LEMMA NoRunnerMeanwhile ==
    ASSUME PromptLate, LateAllowed, FencedInv, [Next]_vars,
           NEW w \in Worker, Current(w), pc[w] \notin Locking
    PROVE  runner' \subseteq runner
<1>1. \A u \in Worker : pc[u] \notin Locking
  BY DEF FencedInv, Fenced, Authorized, Current
<1>2. \A r \in late : r.req = "create"
  BY DEF PromptLate, LateAllowed
<1> QED
  BY <1>1, <1>2, RunnerStep DEF RunnerMoves

LEMMA SweptStep ==
    ASSUME PromptLate, LateAllowed, FencedInv, StartedInv, RunnerInv, [Next]_vars,
           NEW w \in Worker, Swept(w)
    PROVE  Swept(w)'
<1> DEFINE Places == Lists \cup Aborts \cup {"cancelDelete", "cancelAbortAgain"}
<1>1. CASE Current(w)' /\ (pc'[w] \in Places \/ Rested(w)')
  <2>1. /\ Current(w) /\ (Stays(w) \/ Sweeps(w))
        /\ run'.session = run.session
    <3>1. pc'[w] \notin {"idle", "poll", "lookup"}
      BY <1>1 DEF Rested, Lists, Aborts
    <3> QED
      BY <1>1, <3>1, HolderStep DEF Persists
  <2>2. pc[w] \notin Locking
    <3>1. CASE Stays(w)
      BY <1>1, <3>1 DEF Stays, Rested, Lists, Aborts, Locking
    <3>2. CASE Sweeps(w) /\ pc'[w] \in Lists
      BY <3>2 DEF Sweeps, Locking
    <3>3. CASE Sweeps(w) /\ pc'[w] \in Aborts
      BY <3>3 DEF Sweeps, Lists, Aborts, Locking
    <3>4. CASE Sweeps(w) /\ pc'[w] \in {"cancelDelete", "cancelAbortAgain"}
      BY <3>4 DEF Sweeps, Locking
    <3>5. CASE Sweeps(w) /\ Rested(w)'
      BY <3>5 DEF Sweeps, Rested, Locking
    <3> QED
      BY <1>1, <2>1, <3>1, <3>2, <3>3, <3>4, <3>5
  <2>3. runner' \subseteq runner
    BY <2>1, <2>2, NoRunnerMeanwhile
  <2>4. pc'[w] \in Lists => run'.session = NoSession
    BY <2>1 DEF Stays, Sweeps, Swept
  <2>5. pc'[w] \in Aborts => runner' \subseteq Targets(w)'
    <3>1. CASE Stays(w)
      BY <2>1, <2>3, <3>1 DEF Stays, Swept, Targets
    <3>2. CASE Sweeps(w) /\ pc'[w] \in Aborts
      <4>1. OneRunner /\ (run.session # NoSession => runner \subseteq {run.session})
        BY DEF RunnerInv, OneRunner
      <4>2. CASE run.session # NoSession /\ job'[w].known = run.session
        BY <2>3, <4>1, <4>2 DEF Targets
      <4>3. CASE pc[w] \in Lists /\ Targets(w)' = open
        BY <2>1, <2>3, <4>1, <4>3 DEF Swept, OneRunner
      <4>4. CASE /\ pc[w] \in Aborts \cup {"cancelAbortAgain"}
                 /\ Targets(w)' = job[w].todo /\ runner' = runner \ {job[w].known}
        BY <2>1, <4>4 DEF Swept, Targets
      <4>5. CASE pc[w] = "cancelDelete" /\ Targets(w)' = job[w].todo
        BY <2>1, <2>3, <4>5 DEF Swept
      <4> QED
        BY <3>2, <4>2, <4>3, <4>4, <4>5 DEF Sweeps
    <3> QED
      BY <2>1, <3>1, <3>2
  <2>6. pc'[w] \in {"cancelDelete", "cancelAbortAgain"} => runner' \subseteq job'[w].todo
    BY <2>1, <2>3 DEF Stays, Sweeps, Swept, Aborts, Targets
  <2>7. Rested(w)' => runner' = {}
    <3>1. CASE Stays(w)
      BY <2>1, <2>3, <3>1 DEF Stays, Swept, Rested
    <3>2. CASE Sweeps(w) /\ pc[w] = "observe" /\ job[w].session \in open
               /\ job[w].session \notin runner
      <4>1. run.session = job[w].session /\ run.session # NoSession
        BY <2>1, <3>2, NullAssumption
        DEF FencedInv, TypeOK, Fenced, SnapshotHolds, Serving
      <4> QED
        BY <2>3, <3>2, <4>1 DEF RunnerInv, OneRunner
    <3>3. CASE Rested(w)
      BY <2>1, <2>3, <3>3 DEF Swept
    <3> QED
      BY <2>1, <3>1, <3>2, <3>3 DEF Sweeps
  <2> QED
    BY <2>4, <2>5, <2>6, <2>7 DEF Swept
<1> QED
  BY <1>1 DEF Swept, Lists, Aborts

\* What a worker that settles the run has stopped.
Settles(w) ==
    /\ Owned(w) /\ UNCHANGED <<made, open, accepted, late>>
    /\ run'.status = "cancelled" => pc[w] \in Cancelling /\ run'.session = run.session
    /\ \/ Rested(w) /\ runner' = runner
       \/ pc[w] \in Lists /\ open = {} /\ runner' = runner
       \/ /\ pc[w] \in Aborts \cup {"cancelAbortAgain"} /\ job[w].todo = {}
          /\ pc[w] = "cancelAbort" => job[w].status # "queued"
          /\ runner' = runner \ {job[w].known}
       \/ /\ pc[w] = "cancelDelete" /\ job[w].known \notin open /\ job[w].todo = {}
          /\ runner' = runner
       \/ pc[w] = "stallAbort" /\ runner' = runner \ {job[w].session}

\* A step does not settle the run, rejects its binding, or settles it like that.
EndMoves ==
    \/ run' = run \/ run'.status \notin Terminal
    \/ run'.status = "failed" /\ run'.stage = "workspace_binding_rejected"
    \/ \E w \in Worker : Settles(w)

LEMMA SameEnds == run' = run => EndMoves
BY DEF EndMoves

LEMMA RejectIfEnds ==
    ASSUME run \in Row, NEW w \in Worker, NEW b, RejectIf(w, b)
    PROVE  EndMoves
BY DEF RejectIf, RejectBinding, Row, EndMoves, db

LEMMA VerifyEnds ==
    ASSUME run \in Row, NEW w \in Worker, NEW p, NEW j, VerifyWorkspace(w, p, j)
    PROVE  EndMoves
<1>1. CASE dirty
  BY <1>1, RejectIfEnds DEF VerifyWorkspace
<1>2. CASE ~dirty
  BY <1>2, SameEnds DEF VerifyWorkspace, EndMoves, Row, Owned, Active, Terminal, db
<1> QED
  BY <1>1, <1>2

LEMMA FinishIfSame ==
    ASSUME run \in Row, NEW w \in Worker, NEW b, NEW status, NEW stage, NEW t,
           FinishIf(w, b, status, stage, t)
    PROVE  run' = run \/ (b /\ run'.status = status /\ run'.session = run.session)
BY DEF FinishIf, Finish, Row, db

\* A sweep that is through.
LEMMA SweepEnds ==
    ASSUME run \in Row, NEW w \in Worker, NEW todo, UNCHANGED <<made, open, accepted, late>>,
           \/ CancelNext(w, todo) /\ pc[w] \in Cancelling
           \/ TimeoutNext(w, todo),
           \/ pc[w] \in Lists /\ todo = open /\ runner' = runner
           \/ /\ pc[w] \in Aborts \cup {"cancelAbortAgain"} /\ todo = job[w].todo
              /\ pc[w] = "cancelAbort" => job[w].status # "queued"
              /\ runner' = runner \ {job[w].known}
           \/ /\ pc[w] = "cancelDelete" /\ job[w].known \notin open /\ todo = job[w].todo
              /\ runner' = runner
    PROVE  EndMoves
<1>1. CASE todo = {}
  <2>1. \/ run' = run
        \/ /\ Owned(w)
           /\ run'.status = "cancelled" => pc[w] \in Cancelling /\ run'.session = run.session
    <3>1. CASE CancelNext(w, todo) /\ pc[w] \in Cancelling
      <4>1. FinishIf(w, Owned(w) /\ run.cancel, "cancelled", "stopped", "failed")
        BY <1>1, <3>1 DEF CancelNext, Cancelled
      <4> QED
        BY <3>1, <4>1, FinishIfSame
    <3>2. CASE TimeoutNext(w, todo)
      <4>1. FinishIf(w, Owned(w), "failed", "timed_out", "failed")
        BY <1>1, <3>2 DEF TimeoutNext, TimedOut
      <4>2. run' = run \/ (Owned(w) /\ run'.status = "failed")
        BY <4>1, FinishIfSame
      <4> QED
        BY <4>2
    <3> QED
      BY <3>1, <3>2
  <2> QED
    BY <1>1, <2>1 DEF EndMoves, Settles
<1>2. CASE todo # {}
  BY <1>2, SameEnds DEF CancelNext, TimeoutNext, db
<1> QED
  BY <1>1, <1>2

LEMMA CleanupEnds ==
    ASSUME run \in Row, NEW w \in Worker,
           \/ CancelStart(w) \/ CancelList(w) \/ CancelAbort(w) \/ CancelDelete(w)
           \/ CancelAbortAgain(w) \/ TimeoutStart(w) \/ TimeoutList(w) \/ TimeoutAbort(w)
           \/ StallAbort(w)
    PROVE  EndMoves
<1>1. CASE CancelStart(w) \/ TimeoutStart(w)
  BY <1>1, SameEnds DEF CancelStart, TimeoutStart, db
<1>2. CASE CancelList(w) \/ TimeoutList(w)
  BY <1>2, SweepEnds DEF CancelList, TimeoutList, Lists, Cancelling, oc
<1>3. CASE CancelAbortAgain(w) \/ TimeoutAbort(w)
  BY <1>3, SweepEnds DEF CancelAbortAgain, TimeoutAbort, Abort, Aborts, Cancelling
<1>4. CASE CancelAbort(w)
  <2>1. CASE job[w].status = "queued"
    BY <1>4, <2>1, SameEnds DEF CancelAbort, db
  <2>2. CASE job[w].status # "queued"
    BY <1>4, <2>2, SweepEnds DEF CancelAbort, Abort, Aborts, Cancelling
  <2> QED
    BY <2>1, <2>2
<1>5. CASE CancelDelete(w)
  <2>1. CASE job[w].known \in open
    BY <1>5, <2>1, SameEnds DEF CancelDelete, db
  <2>2. CASE job[w].known \notin open
    BY <1>5, <2>2, SweepEnds DEF CancelDelete, Cancelling, oc
  <2> QED
    BY <2>1, <2>2
<1>6. CASE StallAbort(w)
  <2>1. run' = run \/ (Owned(w) /\ run'.status = "failed")
    BY <1>6, FinishIfSame DEF StallAbort
  <2>2. /\ pc[w] = "stallAbort" /\ runner' = runner \ {job[w].session}
        /\ UNCHANGED <<made, open, accepted, late>>
    BY <1>6 DEF StallAbort, Abort
  <2> QED
    BY <2>1, <2>2 DEF EndMoves, Settles
<1> QED
  BY <1>1, <1>2, <1>3, <1>4, <1>5, <1>6

LEMMA ServingEnds ==
    ASSUME run \in Row, NEW w \in Worker,
           Observe(w) \/ Gate(w) \/ Follow(w) \/ FollowUp(w) \/ Apply(w)
    PROVE  EndMoves
<1>1. ASSUME FailGate(w), pc[w] \in {"gate", "follow"}, UNCHANGED oc PROVE EndMoves
  <2>1. run' = run \/ (Owned(w) /\ run'.status = "failed")
    BY <1>1, FinishIfSame DEF FailGate
  <2> QED
    BY <1>1, <2>1 DEF EndMoves, Settles, Rested, oc
<1>2. CASE Gate(w) \/ Follow(w)
  <2>1. pc[w] \in {"gate", "follow"} /\ UNCHANGED oc /\ (FailGate(w) \/ run' = run)
    BY <1>2 DEF Gate, Follow, db
  <2> QED
    BY <1>1, <2>1, SameEnds
<1>3. CASE Observe(w) \/ FollowUp(w)
  BY <1>3, SameEnds DEF Observe, FollowUp, db
<1>4. CASE Apply(w)
  <2>1. \/ run' = run
        \/ /\ Owned(w) /\ job[w].seen \in {"idle", "error"}
           /\ Finish("failed", "opencode_error", "failed")
                \/ Finish("completed", "manager_review", "qa")
    BY <1>4 DEF Apply, db
  <2>2. run' = run \/ run'.status \in {"failed", "completed"}
    BY <2>1 DEF Finish, Row
  <2>3. pc[w] = "apply" /\ UNCHANGED oc
    BY <1>4 DEF Apply
  <2> QED
    BY <2>1, <2>2, <2>3 DEF EndMoves, Settles, Rested, oc
<1> QED
  BY <1>2, <1>3, <1>4

LEMMA EndStep ==
    ASSUME FencedInv, SettledRow, [Next]_vars
    PROVE  EndMoves
<1>0. TypeOK /\ run \in Row
  BY DEF FencedInv, TypeOK
<1>1. CASE \E w \in Worker : Claim(w) \/ Local(w) \/ Answered(w) \/ CallFails(w) \/ Crash(w)
  <2>1. PICK w \in Worker :
          Claim(w) \/ Local(w) \/ Answered(w) \/ CallFails(w) \/ Crash(w)
    BY <1>1
  <2>2. CASE Claim(w)
    <3>1. CASE workspace = "ready"
      <4>1. run'.status = run.status /\ run.status \in Active
        BY <1>0, <2>2, <3>1 DEF Claim, Claimable, Row
      <4> QED
        BY <4>1 DEF EndMoves, Active, Terminal
    <3>2. CASE workspace # "ready"
      BY <1>0, <2>2, <3>2 DEF Claim, RejectBinding, Row, EndMoves
    <3> QED
      BY <3>1, <3>2
  <2>3. CASE DispatchStart(w) \/ Reverify(w) \/ Authorize(w)
    BY <1>0, <2>3, VerifyEnds, RejectIfEnds, SameEnds DEF DispatchStart, Reverify, Authorize, db
  <2>4. CASE PersistSession(w) \/ SafetyCancel(w) \/ MarkDispatched(w)
    BY <1>0, <2>4, SameEnds
    DEF PersistSession, SafetyCancel, MarkDispatched, EndMoves, Beats, Owned, Row, Active,
        Terminal
  <2>5. CASE \/ Poll(w) \/ ListSessions(w) \/ CreateSession(w) \/ LookupMessage(w)
             \/ Prompt(w) \/ CallFails(w) \/ Crash(w)
    BY <2>5, SameEnds
    DEF Poll, ListSessions, CreateSession, LookupMessage, Prompt, CallFails, Crash, db
  <2> QED
    BY <1>0, <2>1, <2>2, <2>3, <2>4, <2>5, CleanupEnds, ServingEnds DEF Local, Answered
<1>2. CASE RequestCancel \/ LeaseLapses \/ LeasePreempted
  <2>1. run'.status = run.status /\ run.status \in Active
    BY <1>0, <1>2 DEF RequestCancel, LeaseLapses, LeasePreempted, SettledRow, Row
  <2> QED
    BY <2>1 DEF EndMoves, Active, Terminal
<1>3. CASE \/ LateArrives \/ AgentEdits \/ (\E s \in Session : AgentEnds(s))
           \/ ServerRestarts \/ TrustChanges \/ Tamper \/ DeadlinePasses \/ Settled
           \/ UNCHANGED vars
  BY <1>3, SameEnds
  DEF LateArrives, AgentEdits, AgentEnds, ServerRestarts, TrustChanges, Tamper,
      DeadlinePasses, Settled, vars, db
<1> QED
  BY <1>1, <1>2, <1>3 DEF Next

\* A worker that settles the run has nothing left to stop.
LEMMA SettlesQuietly ==
    ASSUME FencedInv, StartedInv, RunnerInv, NEW w \in Worker, Swept(w), Settles(w)
    PROVE  runner' = {}
<1>1. pc[w] # "idle" => Current(w)
  BY DEF Settles, Owned, Current
<1>2. OneRunner
  BY DEF RunnerInv
<1>3. CASE Rested(w) /\ runner' = runner
  BY <1>1, <1>3 DEF Swept, Rested
<1>4. CASE pc[w] \in Lists /\ open = {} /\ runner' = runner
  BY <1>1, <1>2, <1>4 DEF Swept, Lists, OneRunner
<1>5. CASE /\ pc[w] \in Aborts \cup {"cancelAbortAgain"} /\ job[w].todo = {}
           /\ runner' = runner \ {job[w].known}
  BY <1>1, <1>5 DEF Swept, Aborts, Targets
<1>6. CASE pc[w] = "cancelDelete" /\ job[w].todo = {} /\ runner' = runner
  BY <1>1, <1>6 DEF Swept
<1>7. CASE pc[w] = "stallAbort" /\ runner' = runner \ {job[w].session}
  <2>1. run.session = job[w].session /\ run.status = "running"
    BY <1>1, <1>7 DEF FencedInv, Fenced, SnapshotHolds, Serving, Settles, Owned, Active
  <2>2. run.session \in Session
    BY <2>1 DEF StartedInv, RunningWasPrompted, FencedInv, TypeOK
  <2> QED
    BY <1>2, <1>7, <2>1, <2>2, NullAssumption DEF OneRunner
<1> QED
  BY <1>3, <1>4, <1>5, <1>6, <1>7 DEF Settles

LEMMA QuietStep ==
    ASSUME PromptLate, LateAllowed, FencedInv, StartedInv, SettledRow, RunnerInv, QuietInv,
           [Next]_vars
    PROVE  QuietInv'
<1>1. \A w \in Worker : Swept(w)'
  BY SweptStep DEF QuietInv
<1>2. Quiet'
  <2> SUFFICES ASSUME run'.status \in Terminal, run'.stage # "workspace_binding_rejected"
               PROVE  runner' = {}
    BY DEF Quiet
  <2>1. CASE run' = run
    <3>1. \A w \in Worker : pc[w] \notin Locking
      BY <2>1 DEF FencedInv, Fenced, Authorized, Active, Terminal
    <3>2. \A r \in late : r.req = "create"
      BY DEF PromptLate, LateAllowed
    <3>3. runner = {}
      BY <2>1 DEF QuietInv, Quiet
    <3> QED
      BY <3>1, <3>2, <3>3, RunnerStep DEF RunnerMoves
  <2>2. CASE \E w \in Worker : Settles(w)
    BY <2>2, SettlesQuietly DEF QuietInv
  <2> QED
    BY <2>1, <2>2, EndStep DEF EndMoves
<1> QED
  BY <1>1, <1>2 DEF QuietInv

LEMMA QuietAlways == PromptLate => (Spec => []QuietInv)
<1> SUFFICES ASSUME PromptLate PROVE Spec => []QuietInv
  OBVIOUS
<1>1. Init => QuietInv
  BY DEF Init, QuietInv, Quiet, Swept, Current, Terminal
<1>2. LateAllowed /\ FencedInv /\ StartedInv /\ SettledRow /\ RunnerInv /\ QuietInv
        /\ [Next]_vars => QuietInv'
  BY QuietStep
<1> QED
  BY <1>1, <1>2, LateAllowedAlways, FencedAlways, StartedAlways, SettledRowAlways,
     RunnerAlways, PTL DEF Spec

\* If OpenCode processes prompts in time or not at all, a settled run leaves no
\* inference behind: completed, failed, stalled, timed out or cancelled, by
\* whichever worker, and whatever earlier workers left half done.
THEOREM SettledRunsAreQuiet == LateCalls \subseteq {"create"} => (Spec => []SettledIsQuiet)
<1> SUFFICES ASSUME PromptLate PROVE Spec => []SettledIsQuiet
  BY DEF PromptLate
<1>1. FencedInv /\ LateAllowed /\ RunnerInv /\ QuietInv => SettledIsQuiet
  <2> SUFFICES ASSUME FencedInv, LateAllowed, RunnerInv, QuietInv,
                      run.status \in Terminal, run.stage # "workspace_binding_rejected"
               PROVE  ~Working
    BY DEF SettledIsQuiet
  <2>1. runner = {}
    BY DEF QuietInv, Quiet
  <2>2. \A r \in late : r.to \notin open
    BY NullAssumption
    DEF PromptLate, LateAllowed, RunnerInv, LateTargets, FencedInv, TypeOK
  <2> QED
    BY <2>1, <2>2 DEF Working
<1> QED
  BY <1>1, FencedAlways, LateAllowedAlways, RunnerAlways, QuietAlways, PTL

-----------------------------------------------------------------------------
(* A cancelled run leaves no inference behind and none to come, as long as  *)
(* no canceller is suspended past its lease.                                *)

\* How the lease changes hands.
HoldMoves ==
    \/ run'.owner = run.owner /\ run'.gen = run.gen /\ run'.lease = run.lease
    \/ \E u \in Worker : Claim(u) /\ run'.lease = "live"
    \/ run.lease # "live" /\ run'.owner = NoWorker
    \/ ~run.cancel /\ run'.owner = NoWorker
    \/ run'.owner = NoWorker /\ \E u \in Worker : Owned(u) /\ pc'[u] = "idle"
    \/ ~Held /\ UNCHANGED local /\ run'.owner = run.owner /\ run'.gen = run.gen
    \/ preempted < MaxPreemptions

LEMMA SameHold == run' = run => HoldMoves
BY DEF HoldMoves

LEMMA FinishHolds ==
    ASSUME DbType, LocalType, NEW w \in Worker, NEW b, NEW status, NEW stage, NEW t,
           b => Owned(w), FinishIf(w, b, status, stage, t)
    PROVE  HoldMoves
<1>1. pc'[w] = "idle"
  BY LeaveMoves DEF FinishIf
<1>2. run' = run \/ (Owned(w) /\ run'.owner = NoWorker)
  BY DEF FinishIf, Finish, DbType, Row, db
<1> QED
  BY <1>1, <1>2 DEF HoldMoves

LEMMA RejectHolds ==
    ASSUME DbType, LocalType, NEW w \in Worker, RejectIf(w, Owned(w))
    PROVE  HoldMoves
<1>1. pc'[w] = "idle"
  BY LeaveMoves DEF RejectIf
<1>2. run' = run \/ (Owned(w) /\ run'.owner = NoWorker)
  BY DEF RejectIf, RejectBinding, DbType, Row, db
<1> QED
  BY <1>1, <1>2 DEF HoldMoves

LEMMA VerifyHolds ==
    ASSUME DbType, LocalType, NEW w \in Worker, NEW p, NEW j, VerifyWorkspace(w, p, j)
    PROVE  HoldMoves
<1>1. CASE dirty
  BY <1>1, RejectHolds DEF VerifyWorkspace
<1>2. CASE ~dirty
  BY <1>2, SameHold DEF VerifyWorkspace, HoldMoves, DbType, Row, db
<1> QED
  BY <1>1, <1>2

LEMMA WorkerHolds ==
    ASSUME TypeOK, NEW w \in Worker,
           Claim(w) \/ Local(w) \/ Answered(w) \/ CallFails(w) \/ Crash(w)
    PROVE  HoldMoves
<1>0. DbType /\ LocalType
  BY TypeParts
<1>1. CASE Claim(w)
  <2>1. CASE workspace = "ready"
    BY <1>0, <1>1, <2>1 DEF Claim, HoldMoves, DbType, Row
  <2>2. CASE workspace # "ready"
    BY <1>0, <1>1, <2>2 DEF Claim, Claimable, RejectBinding, HoldMoves, DbType, Row
  <2> QED
    BY <2>1, <2>2
<1>c. ASSUME NEW todo, CancelNext(w, todo) PROVE HoldMoves
  BY <1>0, <1>c, FinishHolds, SameHold DEF CancelNext, Cancelled, db
<1>t. ASSUME NEW todo, TimeoutNext(w, todo) PROVE HoldMoves
  BY <1>0, <1>t, FinishHolds, SameHold DEF TimeoutNext, TimedOut, db
<1>2. CASE CancelStart(w) \/ TimeoutStart(w)
  BY <1>2, SameHold DEF CancelStart, TimeoutStart, db
<1>3. CASE CancelList(w) \/ CancelAbort(w) \/ CancelDelete(w) \/ CancelAbortAgain(w)
  BY <1>c, <1>3, SameHold DEF CancelList, CancelAbort, CancelDelete, CancelAbortAgain, db
<1>4. CASE TimeoutList(w) \/ TimeoutAbort(w)
  BY <1>t, <1>4 DEF TimeoutList, TimeoutAbort
<1>5. CASE StallAbort(w)
  BY <1>0, <1>5, FinishHolds DEF StallAbort
<1>6. CASE DispatchStart(w) \/ Reverify(w)
  BY <1>0, <1>6, VerifyHolds, SameHold DEF DispatchStart, Reverify, db
<1>7. CASE PersistSession(w) \/ SafetyCancel(w)
  BY <1>0, <1>7 DEF PersistSession, SafetyCancel, HoldMoves, DbType, Row
<1>8. CASE MarkDispatched(w)
  <2>1. \/ run' = run
        \/ /\ Owned(w) /\ Leave(w)
           /\ run' = [run EXCEPT !.status = "running", !.owner = NoWorker, !.lease = "none"]
    BY <1>8 DEF MarkDispatched, Beats
  <2>2. run' = run \/ (Owned(w) /\ run'.owner = NoWorker /\ pc'[w] = "idle")
    BY <1>0, <2>1, LeaveMoves DEF DbType, Row
  <2> QED
    BY <2>2 DEF HoldMoves
<1>9. CASE Authorize(w)
  BY <1>0, <1>9, RejectHolds, SameHold DEF Authorize, db
<1>10. CASE Gate(w) \/ Follow(w)
  <2>1. FailGate(w) => HoldMoves
    BY <1>0, FinishHolds DEF FailGate
  <2> QED
    BY <1>10, <2>1, SameHold DEF Gate, Follow, db
<1>11. CASE Apply(w)
  <2>1. \/ run' = run
        \/ /\ Owned(w) /\ Leave(w)
           /\ Finish("failed", "opencode_error", "failed")
                \/ Finish("completed", "manager_review", "qa")
    BY <1>11 DEF Apply, db
  <2>2. run' = run \/ (Owned(w) /\ run'.owner = NoWorker /\ pc'[w] = "idle")
    BY <1>0, <2>1, LeaveMoves DEF Finish, DbType, Row
  <2> QED
    BY <2>2 DEF HoldMoves
<1>12. CASE \/ Poll(w) \/ ListSessions(w) \/ CreateSession(w) \/ LookupMessage(w) \/ Prompt(w)
            \/ Observe(w) \/ FollowUp(w) \/ CallFails(w) \/ Crash(w)
  BY <1>12, SameHold
  DEF Poll, ListSessions, CreateSession, LookupMessage, Prompt, Observe, FollowUp, CallFails,
      Crash, db
<1> QED
  BY <1>1, <1>2, <1>3, <1>4, <1>5, <1>6, <1>7, <1>8, <1>9, <1>10, <1>11, <1>12
  DEF Local, Answered

LEMMA HoldStep ==
    ASSUME TypeOK, [Next]_vars
    PROVE  HoldMoves
<1>0. run \in Row
  BY DEF TypeOK
<1>1. CASE \E w \in Worker : Claim(w) \/ Local(w) \/ Answered(w) \/ CallFails(w) \/ Crash(w)
  BY <1>1, WorkerHolds
<1>2. CASE RequestCancel \/ LeaseLapses \/ LeasePreempted
  BY <1>0, <1>2 DEF RequestCancel, LeaseLapses, LeasePreempted, HoldMoves, Row
<1>3. CASE \/ LateArrives \/ AgentEdits \/ (\E s \in Session : AgentEnds(s))
           \/ ServerRestarts \/ TrustChanges \/ Tamper \/ DeadlinePasses \/ Settled
           \/ UNCHANGED vars
  BY <1>3, SameHold
  DEF LateArrives, AgentEdits, AgentEnds, ServerRestarts, TrustChanges, Tamper,
      DeadlinePasses, Settled, vars, db
<1> QED
  BY <1>1, <1>2, <1>3 DEF Next

\* No worker is suspended past its lease, and no follow-up is late.
Attended == MaxPreemptions = 0 /\ "followup" \notin LateCalls

Cleaner(w) == pc[w] \in Cancelling \/ (pc[w] # "idle" /\ job[w].cancel)

\* A lease that is held is live, and whoever cancels the run holds it.
Holding(w) ==
    /\ Current(w) => run.lease = "live"
    /\ Cleaner(w) => Current(w) /\ run.cancel

LEMMA HoldingStep ==
    ASSUME Attended, FencedInv, [Next]_vars, \A v \in Worker : Holding(v),
           NEW w \in Worker
    PROVE  Holding(w)'
<1>0. TypeOK /\ HoldMoves /\ RowMoves /\ w # NoWorker
  BY HoldStep, RowStep, NullAssumption DEF FencedInv
<1>p. ~(preempted < MaxPreemptions)
  BY DEF Attended, FencedInv, TypeOK
<1>h. \A u \in Worker : Current(u) => Held
  BY DEF Current, Held
<1>1. ASSUME Current(w)' PROVE run'.lease = "live"
  <2>1. run'.owner = w
    BY <1>1 DEF Current
  <2>2. CASE \E u \in Worker : Claim(u) /\ run'.lease = "live"
    BY <2>2
  <2>3. CASE run'.owner = run.owner /\ run'.gen = run.gen /\ run'.lease = run.lease
    <3>1. Current(w)
      BY <1>1, <2>3, CurrentStep DEF Claims
    <3> QED
      BY <2>3, <3>1 DEF Holding
  <2>4. CASE ~Held /\ UNCHANGED local /\ run'.owner = run.owner /\ run'.gen = run.gen
    BY <1>1, <1>h, <2>4 DEF Current, local
  <2> QED
    BY <1>0, <1>p, <2>1, <2>2, <2>3, <2>4 DEF HoldMoves
<1>2. ASSUME Cleaner(w)' PROVE Current(w)' /\ run'.cancel
  <2>0. pc'[w] # "idle"
    BY <1>2 DEF Cleaner, Cancelling
  <2>1. CASE Claims(w)
    BY <1>2, <2>1 DEF Claims, Cleaner, Cancelling, Current
  <2>2. CASE Cleaner(w) /\ ~Claims(w)
    <3>1. Current(w) /\ run.cancel /\ run.lease = "live" /\ Held
      BY <1>h, <2>2 DEF Holding
    <3>2. job'[w].gen = job[w].gen
      BY <2>0, <2>2, LocalStep DEF LocalMoves, Others, Path, Kept, local
    <3>3. \A u \in Worker : ~Claim(u)
      BY <3>1 DEF Claim, Claimable
    <3>4. \A u \in Worker : Owned(u) => u = w
      BY <3>1 DEF Owned, Current
    <3>5. run'.owner = run.owner /\ run'.gen = run.gen
      BY <1>0, <1>p, <2>0, <3>1, <3>3, <3>4 DEF HoldMoves
    <3> QED
      BY <1>0, <2>0, <3>1, <3>2, <3>5 DEF Current, RowMoves
  <2>3. CASE ~Cleaner(w) /\ ~Claims(w)
    <3>1. /\ ~Stays(w) /\ Path(w)
      BY <1>2, <2>0, <2>3, LocalStep DEF LocalMoves, Others, Cleaner, Stays, local
    <3>2. ~job[w].cancel /\ pc'[w] \in Cancelling /\ pc[w] \notin Cancelling
      BY <1>2, <2>3, <3>1 DEF Path, Kept, Cleaner
    <3>3. pc'[w] # "poll" /\ Sweeps(w)
      BY <2>0, <3>1, <3>2, SweepStep DEF SweepMoves, Cancelling
    <3>4. Owned(w) /\ run'.cancel /\ run'.owner = run.owner /\ run'.gen = run.gen /\ Kept(w)
      BY <3>2, <3>3 DEF Sweeps, Cancelling
    <3> QED
      BY <2>0, <3>4 DEF Current, Owned, Kept
  <2> QED
    BY <2>1, <2>2, <2>3
<1> QED
  BY <1>1, <1>2 DEF Holding

LEMMA HoldingAlways == Attended => (Spec => [](\A w \in Worker : Holding(w)))
<1> SUFFICES ASSUME Attended PROVE Spec => [](\A w \in Worker : Holding(w))
  OBVIOUS
<1>1. Init => \A w \in Worker : Holding(w)
  BY DEF Init, Holding, Current, Cleaner, Cancelling
<1>2. FencedInv /\ (\A w \in Worker : Holding(w)) /\ [Next]_vars
        => (\A w \in Worker : Holding(w))'
  BY HoldingStep
<1> QED
  BY <1>1, <1>2, FencedAlways, PTL DEF Spec

\* Sessions come up with a new id, and only a cancellation takes one away.
OpenMoves ==
    /\ made \subseteq made'
    /\ \A s \in open' \ open : s \in made' \ made
    /\ \A s \in open \ open' :
          \E u \in Worker : pc[u] = "cancelDelete" /\ job[u].known = s /\ pc'[u] # "cancelDelete"

LEMMA SameOpen == UNCHANGED <<made, open>> => OpenMoves
BY DEF OpenMoves

LEMMA MakeOpens == ASSUME NEW s, Make(s) PROVE OpenMoves
BY DEF Make, OpenMoves

LEMMA DeleteOpens ==
    ASSUME NEW w \in Worker, pc[w] = "cancelDelete", pc'[w] # "cancelDelete",
           Delete(job[w].known)
    PROVE  OpenMoves
BY DEF Delete, OpenMoves

LEMMA OpenStep ==
    ASSUME FencedInv, [Next]_vars
    PROVE  OpenMoves
<1>0. LocalType
  BY TypeParts DEF FencedInv
<1>1. CASE \E w \in Worker : Claim(w) \/ Local(w) \/ Answered(w) \/ CallFails(w) \/ Crash(w)
  <2>1. PICK w \in Worker :
          Claim(w) \/ Local(w) \/ Answered(w) \/ CallFails(w) \/ Crash(w)
    BY <1>1
  <2>2. CASE Claim(w) \/ Local(w)
    BY <2>2, SameOpen
    DEF Claim, Local, Poll, CancelStart, TimeoutStart, DispatchStart, PersistSession,
        SafetyCancel, Reverify, Authorize, MarkDispatched, Follow, Apply, oc
  <2>3. CASE CancelList(w) \/ TimeoutList(w) \/ ListSessions(w) \/ LookupMessage(w)
              \/ Observe(w) \/ Gate(w)
    BY <2>3, SameOpen
    DEF CancelList, TimeoutList, ListSessions, LookupMessage, Observe, Gate, oc
  <2>4. CASE CancelAbort(w) \/ CancelAbortAgain(w) \/ TimeoutAbort(w) \/ StallAbort(w)
    BY <2>4, SameOpen DEF CancelAbort, CancelAbortAgain, TimeoutAbort, StallAbort, Abort
  <2>5. CASE CancelDelete(w)
    <3>1. CASE job[w].known \in open
      <4>1. /\ Leave(w) \/ Goto(w, "cancelAbortAgain")
            /\ pc[w] = "cancelDelete" /\ Delete(job[w].known)
        BY <2>5, <3>1 DEF CancelDelete
      <4>2. pc'[w] # "cancelDelete"
        BY <1>0, <4>1, LeaveMoves, GotoMoves
      <4> QED
        BY <4>1, <4>2, DeleteOpens
    <3>2. CASE job[w].known \notin open
      BY <2>5, <3>2, SameOpen DEF CancelDelete, oc
    <3> QED
      BY <3>1, <3>2
  <2>6. CASE CreateSession(w)
    BY <2>6, MakeOpens DEF CreateSession
  <2>7. CASE Prompt(w) \/ FollowUp(w)
    BY <2>7, SameOpen DEF Prompt, FollowUp, Accept, oc
  <2>8. CASE CallFails(w) \/ Crash(w)
    <3>1. UNCHANGED oc \/ CalledEffect(w) \/ LateEffect(w)
      BY <2>8 DEF CallFails, Crash
    <3>2. CASE UNCHANGED oc \/ LateEffect(w)
      BY <3>2, SameOpen DEF LateEffect, oc
    <3>3. CASE CalledEffect(w)
      <4>1. CASE pc[w] = "cancelDelete"
        <5>1. pc'[w] # "cancelDelete"
          BY <1>0, <2>8, FailureMoves
        <5> QED
          BY <3>3, <4>1, <5>1, DeleteOpens DEF CalledEffect
      <4>2. CASE pc[w] = "create"
        BY <3>3, <4>2, MakeOpens DEF CalledEffect
      <4>3. CASE pc[w] \notin {"cancelDelete", "create"}
        BY <3>3, <4>3, SameOpen DEF CalledEffect, Abort, Accept, oc
      <4> QED
        BY <4>1, <4>2, <4>3
    <3> QED
      BY <3>1, <3>2, <3>3
  <2> QED
    BY <2>1, <2>2, <2>3, <2>4, <2>5, <2>6, <2>7, <2>8 DEF Answered
<1>2. CASE LateArrives
  <2>1. PICK r \in late :
        CASE r.req = "create" -> IF made = Session
                                   THEN UNCHANGED <<made, open, accepted, runner, turn>>
                                   ELSE \E s \in Session : Make(s)
          [] r.req # "create" -> IF r.to \in open
                                   THEN Accept(r.to, r.req)
                                   ELSE UNCHANGED <<made, open, accepted, runner, turn>>
    BY <1>2 DEF LateArrives
  <2>2. UNCHANGED <<made, open>> \/ \E s \in Session : Make(s)
    BY <2>1 DEF Accept
  <2> QED
    BY <2>2, SameOpen, MakeOpens
<1>3. CASE \/ AgentEdits \/ (\E s \in Session : AgentEnds(s)) \/ ServerRestarts
           \/ RequestCancel \/ TrustChanges \/ Tamper \/ DeadlinePasses \/ LeaseLapses
           \/ LeasePreempted \/ Settled \/ UNCHANGED vars
  BY <1>3, SameOpen
  DEF AgentEdits, AgentEnds, ServerRestarts, RequestCancel, TrustChanges, Tamper,
      DeadlinePasses, LeaseLapses, LeasePreempted, Settled, vars, oc
<1> QED
  BY <1>1, <1>2, <1>3 DEF Next

Deletes == {"cancelAbort", "cancelDelete", "cancelAbortAgain"}

\* The sessions that a worker knows were handed out; a canceller cleans the
\* persisted session if there is one, and all that are listed if there is none.
Knows(w) ==
    /\ pc[w] = "persist" => job[w].known \in made
    /\ pc[w] = "cancelList" => run.session = NoSession
    /\ pc[w] \in Deletes =>
          /\ Targets(w) \subseteq made
          /\ run.session # NoSession => job[w].known = run.session /\ job[w].todo = {}

\* What a canceller has not stopped yet: a prompt may cross its first abort until
\* the session is gone, and the second abort stops what that prompt started.
Stopping(w) ==
    /\ pc[w] = "cancelAbort" => runner \subseteq Targets(w)
    /\ pc[w] = "cancelDelete" => runner \subseteq job[w].todo \cup ({job[w].known} \cap open)
    /\ pc[w] = "cancelAbortAgain" => job[w].known \notin open /\ runner \subseteq Targets(w)

Handed == open \subseteq made /\ (run.session = NoSession \/ run.session \in made)

CleanInv ==
    Handed /\ CancelledIsQuiet /\ \A w \in Worker : Holding(w) /\ Knows(w) /\ Stopping(w)

\* Where a canceller goes on, it holds the lease, and the session stays the same.
LEMMA CancellerStep ==
    ASSUME Attended, FencedInv, CleanInv, [Next]_vars, NEW w \in Worker,
           pc'[w] \in Cancelling \ {"cancel"}
    PROVE  /\ Current(w) /\ run.cancel /\ pc[w] \in Cancelling
           /\ Stays(w) \/ Sweeps(w)
           /\ run'.session = run.session
           /\ \A u \in Worker : pc[u] \notin Locking
<1>1. Current(w)'
  BY HoldingStep DEF CleanInv, Holding, Cleaner
<1>2. pc'[w] \notin {"idle", "poll", "lookup"}
  BY DEF Cancelling
<1>3. Current(w) /\ (Stays(w) \/ Sweeps(w)) /\ run'.session = run.session
  BY <1>1, <1>2, HolderStep DEF Persists
<1>4. pc[w] \in Cancelling
  BY <1>3 DEF Stays, Sweeps
<1>5. run.cancel
  BY <1>4 DEF CleanInv, Holding, Cleaner
<1>6. \A u \in Worker : pc[u] \notin Locking
  BY <1>5 DEF FencedInv, Fenced, Authorized
<1> QED
  BY <1>3, <1>4, <1>5, <1>6

LEMMA HandedStep ==
    ASSUME FencedInv, CleanInv, [Next]_vars
    PROVE  Handed'
<1>0. OpenMoves /\ Handed
  BY OpenStep DEF CleanInv
<1>1. open' \subseteq made'
  BY <1>0 DEF OpenMoves, Handed
<1>2. CASE run'.session = run.session
  BY <1>0, <1>1, <1>2 DEF OpenMoves, Handed
<1>3. ASSUME NEW u \in Worker, Persists(u) PROVE Handed'
  <2>1. job[u].known \in made
    BY <1>3 DEF Persists, CleanInv, Knows
  <2> QED
    BY <1>0, <1>1, <1>3, <2>1 DEF Persists, OpenMoves, Handed
<1> QED
  BY <1>2, <1>3, SessionStep

LEMMA KnowsStep ==
    ASSUME Attended, FencedInv, RunnerInv, CleanInv, [Next]_vars, NEW w \in Worker
    PROVE  Knows(w)'
<1>0. Knows(w) /\ OpenMoves /\ open \subseteq made /\ made \subseteq made'
  BY OpenStep DEF CleanInv, Handed, OpenMoves
<1>1. ASSUME pc'[w] = "persist" PROVE job'[w].known \in made'
  <2>1. Stays(w) \/ Sweeps(w)
    BY <1>1, SweepStep DEF SweepMoves
  <2> QED
    BY <1>0, <1>1, <2>1 DEF Stays, Sweeps, Knows
<1>2. ASSUME pc'[w] = "cancelList" PROVE run'.session = NoSession
  <2>1. (Stays(w) \/ Sweeps(w)) /\ run'.session = run.session
    BY <1>2, CancellerStep DEF Cancelling
  <2> QED
    BY <1>0, <1>2, <2>1 DEF Stays, Sweeps, Knows, Lists
<1>3. ASSUME pc'[w] \in Deletes
      PROVE  /\ Targets(w)' \subseteq made'
             /\ run'.session # NoSession => job'[w].known = run'.session /\ job'[w].todo = {}
  <2>1. /\ (Stays(w) \/ Sweeps(w)) /\ run'.session = run.session /\ pc[w] \in Cancelling
    BY <1>3, CancellerStep DEF Cancelling, Deletes
  <2>2. CASE Stays(w)
    BY <1>0, <1>3, <2>1, <2>2 DEF Stays, Knows, Targets
  <2>3. CASE Sweeps(w) /\ pc'[w] = "cancelAbort"
    <3>0. Targets(w)' # {}
      BY DEF Targets
    <3>1. CASE run.session # NoSession /\ job'[w].known = run.session /\ job'[w].todo = {}
      BY <1>0, <2>1, <3>1 DEF Targets, CleanInv, Handed
    <3>2. CASE pc[w] \in Lists /\ Targets(w)' = open
      BY <1>0, <2>1, <3>2 DEF Knows, Lists, Cancelling
    <3>3. CASE pc[w] \in Deletes /\ Targets(w)' = job[w].todo
      BY <1>0, <2>1, <3>0, <3>3 DEF Knows, Targets
    <3> QED
      BY <2>1, <2>3, <3>1, <3>2, <3>3 DEF Sweeps, Aborts, Deletes, Cancelling
  <2>4. CASE Sweeps(w) /\ pc'[w] \in {"cancelDelete", "cancelAbortAgain"}
    BY <1>0, <2>1, <2>4 DEF Sweeps, Knows, Targets, Deletes
  <2> QED
    BY <1>3, <2>1, <2>2, <2>3, <2>4 DEF Deletes
<1> QED
  BY <1>1, <1>2, <1>3 DEF Knows

LEMMA StoppingStep ==
    ASSUME Attended, FencedInv, StartedInv, RunnerInv, CleanInv, [Next]_vars,
           NEW w \in Worker
    PROVE  Stopping(w)'
<1>0. /\ Knows(w) /\ Stopping(w) /\ OpenMoves /\ open \subseteq made
      /\ LateTargets /\ OneRunner /\ OneRunner' /\ open \subseteq Session
  BY OpenStep, RunnerInvStep DEF CleanInv, Handed, RunnerInv, FencedInv, TypeOK
<1> SUFFICES ASSUME pc'[w] \in Deletes PROVE Stopping(w)'
  BY DEF Stopping, Deletes
<1>1. /\ Current(w) /\ (Stays(w) \/ Sweeps(w)) /\ run'.session = run.session
      /\ pc[w] \in Cancelling /\ \A u \in Worker : pc[u] \notin Locking
  BY CancellerStep DEF Deletes, Cancelling
\* Only a prompt that arrives late can start anything, and it starts the session.
<1>2. \/ runner' \subseteq runner
      \/ run.session \in open /\ runner' = runner \cup {run.session}
  BY <1>0, <1>1, RunnerStep DEF RunnerMoves, LateTargets
<1>3. run.session = NoSession => runner' \subseteq runner
  BY <1>0, <1>2, NullAssumption
<1>4. pc[w] \in Deletes /\ run.session # NoSession
        => job[w].known = run.session /\ job[w].todo = {}
  BY <1>0 DEF Knows
<1>5. ASSUME pc'[w] = "cancelAbort" PROVE runner' \subseteq Targets(w)'
  <2>0. Targets(w)' # {}
    BY DEF Targets
  <2>1. CASE Stays(w)
    BY <1>0, <1>2, <1>3, <1>4, <1>5, <2>1 DEF Stays, Stopping, Targets, Deletes
  <2>2. CASE run.session # NoSession /\ job'[w].known = run.session
    BY <1>0, <1>1, <2>2 DEF OneRunner, Targets
  <2>3. CASE pc[w] \in Lists /\ Targets(w)' = open
    <3>1. run.session = NoSession
      BY <1>0, <1>1, <2>3 DEF Knows, Lists, Cancelling
    <3> QED
      BY <1>0, <1>3, <2>3, <3>1 DEF OneRunner
  <2>4. CASE /\ pc[w] \in {"cancelAbort", "cancelAbortAgain"}
             /\ Targets(w)' = job[w].todo /\ runner' = runner \ {job[w].known}
    BY <1>0, <2>4 DEF Stopping, Targets
  <2>5. CASE pc[w] = "cancelDelete" /\ job[w].known \notin open /\ Targets(w)' = job[w].todo
    <3>1. run.session = NoSession
      BY <1>4, <2>0, <2>5 DEF Deletes
    <3> QED
      BY <1>0, <1>3, <2>5, <3>1 DEF Stopping
  <2> QED
    BY <1>1, <1>5, <2>1, <2>2, <2>3, <2>4, <2>5 DEF Sweeps, Aborts, Cancelling
<1>6. ASSUME pc'[w] = "cancelDelete"
      PROVE  runner' \subseteq job'[w].todo \cup ({job'[w].known} \cap open')
  <2>1. CASE Stays(w)
    <3>1. job[w].known \in open => job[w].known \in open'
      <4> SUFFICES ASSUME job[w].known \in open, job[w].known \notin open' PROVE FALSE
        OBVIOUS
      <4>1. PICK u \in Worker : pc[u] = "cancelDelete" /\ pc'[u] # "cancelDelete"
        BY <1>0 DEF OpenMoves
      <4>2. Current(u)
        BY <4>1 DEF CleanInv, Holding, Cleaner, Cancelling
      <4> QED
        BY <1>1, <1>6, <4>1, <4>2, CurrentIsOne
    <3> QED
      BY <1>0, <1>2, <1>3, <1>4, <1>6, <2>1, <3>1 DEF Stays, Stopping, Deletes
  <2>2. CASE Sweeps(w)
    BY <1>0, <1>6, <2>2 DEF Sweeps, Stopping, Targets
  <2> QED
    BY <1>1, <2>1, <2>2
<1>7. ASSUME pc'[w] = "cancelAbortAgain"
      PROVE  job'[w].known \notin open' /\ runner' \subseteq Targets(w)'
  <2>1. CASE Stays(w)
    <3>1. job[w].known \in made /\ job[w].known \notin open
      BY <1>0, <1>7, <2>1 DEF Stays, Stopping, Knows, Targets, Deletes
    <3>2. job[w].known \notin open'
      BY <1>0, <3>1 DEF OpenMoves
    <3> QED
      BY <1>0, <1>2, <1>3, <1>4, <1>7, <2>1, <3>2 DEF Stays, Stopping, Targets, Deletes
  <2>2. CASE Sweeps(w)
    <3>1. /\ pc[w] = "cancelDelete" /\ job'[w] = job[w] /\ open' = open \ {job[w].known}
      BY <1>7, <2>2 DEF Sweeps
    <3> QED
      BY <1>0, <1>2, <1>3, <1>4, <3>1 DEF Stopping, Targets, Deletes
  <2> QED
    BY <1>1, <2>1, <2>2
<1> QED
  BY <1>5, <1>6, <1>7 DEF Stopping

\* Only a prompt for the persisted session is still to come, never a follow-up.
LEMMA LateIsDispatch ==
    ASSUME Attended, FencedInv, LateAllowed, LateTargets, NEW r \in late, r.to \in open
    PROVE  r.req = "dispatch" /\ r.to = run.session /\ run.session # NoSession
<1>1. r.req \in LateCalls /\ r.to \in Session /\ r \in LateRequest
  BY DEF LateAllowed, FencedInv, TypeOK
<1>2. r.req \in {"create", "dispatch"}
  BY <1>1 DEF Attended, LateRequest, Requests
<1> QED
  BY <1>1, <1>2, NullAssumption DEF LateTargets

\* A cancelled run stays quiet: nobody is left who could prompt or delete, ...
LEMMA CancelledStays ==
    ASSUME FencedInv, SettledRow, RunnerInv, CleanInv, [Next]_vars,
           run.status = "cancelled"
    PROVE  ~Working'
<1>0. /\ OcMoves /\ OpenMoves /\ RunnerMoves /\ LateTargets /\ Handed /\ ~Working
      /\ NoSession \notin open' /\ open \subseteq Session
      /\ accepted \in [Session -> SUBSET Message]
  <2>1. TypeOK /\ TypeOK'
    BY FencedStep DEF FencedInv
  <2> QED
    BY <2>1, OcStep, OpenStep, RunnerStep, NullAssumption
    DEF RunnerInv, CleanInv, CancelledIsQuiet, FencedInv, TypeOK
<1>1. \A u \in Worker : pc[u] \notin Locking
  BY DEF FencedInv, Fenced, Authorized, Active
<1>2. \A u \in Worker : pc[u] # "cancelDelete"
  BY DEF CleanInv, Holding, Cleaner, Cancelling, SettledRow, Terminal
<1>3. runner' = {}
  BY <1>0, <1>1 DEF RunnerMoves, Working
<1>4. ASSUME NEW r \in late', r.to \in open' PROVE r.req \in accepted'[r.to]
  <2>1. r \in late
    BY <1>0, <1>1, <1>4 DEF OcMoves
  <2>2. r.to \in open
    BY <1>0, <1>4, <2>1 DEF OpenMoves, LateTargets, Handed
  <2>3. r.req \in accepted[r.to]
    BY <1>0, <2>1, <2>2 DEF Working
  <2>4. accepted[r.to] \subseteq accepted'[r.to]
    BY <1>0, <1>2, <2>2 DEF OcMoves
  <2> QED
    BY <2>3, <2>4
<1> QED
  BY <1>3, <1>4 DEF Working

\* ... and a canceller that settles the run has stopped what infers, and deleted
\* the session unless that already holds the one prompt that may still come.
LEMMA CancelsQuietly ==
    ASSUME Attended, LateAllowed, FencedInv, StartedInv, RunnerInv, CleanInv,
           NEW w \in Worker, Settles(w), run'.status = "cancelled"
    PROVE  ~Working'
<1>0. /\ pc[w] \in Cancelling /\ UNCHANGED <<open, accepted, late>> /\ Owned(w)
      /\ Knows(w) /\ Stopping(w) /\ OneRunner /\ LateTargets /\ LocalType
  BY TypeParts DEF Settles, CleanInv, RunnerInv, FencedInv
<1>1. Current(w)
  BY <1>0 DEF Cancelling, Current, Owned
<1> SUFFICES /\ runner' = {}
             /\ \A r \in late : r.to \in open => r.req \in accepted[r.to]
  BY <1>0 DEF Working
<1>2. CASE pc[w] = "cancelList" /\ open = {} /\ runner' = runner
  BY <1>0, <1>2 DEF Knows, OneRunner
<1>3. CASE /\ pc[w] = "cancelAbort" /\ job[w].todo = {} /\ job[w].status # "queued"
           /\ runner' = runner \ {job[w].known}
  <2>1. runner' = {}
    BY <1>0, <1>3 DEF Stopping, Targets
  <2>2. job[w].status = "running"
    BY <1>0, <1>3 DEF LocalType, Job, Active
  <2>3. run.status = "running"
    BY <1>0, <1>1, <2>2 DEF FencedInv, Fenced, SnapshotHolds, Owned, Active
  <2>4. "dispatch" \in accepted[run.session]
    BY <2>3 DEF StartedInv, RunningWasPrompted
  <2> QED
    BY <1>0, <2>1, <2>4, LateIsDispatch
<1>4. CASE /\ pc[w] = "cancelAbortAgain" /\ job[w].todo = {}
           /\ runner' = runner \ {job[w].known}
  <2>1. runner' = {} /\ job[w].known \notin open
    BY <1>0, <1>4 DEF Stopping, Targets
  <2> QED
    BY <1>0, <1>4, <2>1, LateIsDispatch DEF Knows, Deletes
<1>5. CASE pc[w] = "cancelDelete" /\ job[w].known \notin open /\ job[w].todo = {}
           /\ runner' = runner
  <2>1. runner' = {}
    BY <1>0, <1>5 DEF Stopping
  <2> QED
    BY <1>0, <1>5, <2>1, LateIsDispatch DEF Knows, Deletes
<1> QED
  BY <1>0, <1>2, <1>3, <1>4, <1>5 DEF Settles, Rested, Lists, Aborts, Cancelling

LEMMA CancelledQuietStep ==
    ASSUME Attended, LateAllowed, FencedInv, StartedInv, SettledRow, RunnerInv, CleanInv,
           [Next]_vars
    PROVE  CancelledIsQuiet'
<1> SUFFICES ASSUME run'.status = "cancelled" PROVE ~Working'
  BY DEF CancelledIsQuiet
<1>1. CASE run' = run
  BY <1>1, CancelledStays
<1>2. CASE \E w \in Worker : Settles(w)
  BY <1>2, CancelsQuietly
<1> QED
  BY <1>1, <1>2, EndStep DEF EndMoves, Terminal

LEMMA CleanInvStep ==
    ASSUME Attended, LateAllowed, FencedInv, StartedInv, SettledRow, RunnerInv, CleanInv,
           [Next]_vars
    PROVE  CleanInv'
<1>1. Handed'
  BY HandedStep
<1>2. CancelledIsQuiet'
  BY CancelledQuietStep
<1>3. \A w \in Worker : Holding(w)'
  BY HoldingStep DEF CleanInv
<1>4. \A w \in Worker : Knows(w)' /\ Stopping(w)'
  BY KnowsStep, StoppingStep
<1> QED
  BY <1>1, <1>2, <1>3, <1>4 DEF CleanInv

LEMMA CleanAlways == Attended => (Spec => []CleanInv)
<1> SUFFICES ASSUME Attended PROVE Spec => []CleanInv
  OBVIOUS
<1>1. Init => CleanInv
  <2> SUFFICES ASSUME Init PROVE CleanInv
    OBVIOUS
  <2>1. /\ open = made /\ run.session = NoSession /\ run.status = "queued"
        /\ \A w \in Worker : pc[w] = "idle"
    BY DEF Init
  <2>2. Handed /\ CancelledIsQuiet
    BY <2>1 DEF Handed, CancelledIsQuiet
  <2>3. ASSUME NEW w \in Worker PROVE Holding(w) /\ Knows(w) /\ Stopping(w)
    BY <2>1 DEF Holding, Cleaner, Current, Knows, Stopping, Cancelling, Deletes
  <2> QED
    BY <2>2, <2>3 DEF CleanInv
<1>2. LateAllowed /\ FencedInv /\ StartedInv /\ SettledRow /\ RunnerInv /\ CleanInv
        /\ [Next]_vars => CleanInv'
  BY CleanInvStep
<1> QED
  BY <1>1, <1>2, LateAllowedAlways, FencedAlways, StartedAlways, SettledRowAlways,
     RunnerAlways, PTL DEF Spec

\* Only confirmed cleanup permits "cancelled": even when OpenCode processes the
\* dispatch prompt, or creates a session, after the client gave up, a cancelled run
\* has no inference left and no session that could still take that prompt.  The
\* premise rules out what defeats the cleanup: a canceller that is suspended past
\* its lease, and a follow-up that arrives late at the session a running run keeps.
THEOREM CancelledRunsAreQuiet ==
    MaxPreemptions = 0 /\ "followup" \notin LateCalls => (Spec => []CancelledIsQuiet)
<1> SUFFICES ASSUME Attended PROVE Spec => []CancelledIsQuiet
  BY DEF Attended
<1>1. CleanInv => CancelledIsQuiet
  BY DEF CleanInv
<1> QED
  BY <1>1, CleanAlways, PTL

=============================================================================
