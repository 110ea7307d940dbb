-------------------------- MODULE ExecutionWorker --------------------------
(***************************************************************************)
(* One OpenCode execution (contract v2) and everything that acts on it:    *)
(* the execution workers of control_plane/app/execution_worker.py, the     *)
(* abort handler and the trust revocation of control_plane/app/main.py,    *)
(* the OpenCode server the workers call over HTTP, and the agent that the  *)
(* server runs in the task's workspace.                                    *)
(*                                                                         *)
(* Grain.  A step of a worker is a database transaction, or one HTTP call  *)
(* together with the transaction that directly follows its answer.  A      *)
(* heartbeat taken BEFORE a call is part of the step before it, so that    *)
(* anything may happen between the check and the call it protects.  A read *)
(* that only decides which transaction comes next (the file comparison,    *)
(* the trust check of a refused prompt) belongs to that transaction.       *)
(*                                                                         *)
(* Time.  A lease is live until it expires, which may happen at any moment *)
(* (a paused worker is a worker that lives through the expiry); renewing a *)
(* live lease therefore changes nothing here.  The immutable deadline_at   *)
(* is a flag that is raised once.                                          *)
(***************************************************************************)
EXTENDS Integers, FiniteSets

CONSTANTS
    Worker,         \* worker processes (worker_id holds host, pid and a uuid)
    Session,        \* session ids OpenCode may ever hand out
    NoWorker, NoSession,
    LateCalls,      \* requests OpenCode may still process after the client gave up
    Disturbances,   \* external events that may happen in this instance
    MaxCrashes,     \* bound on worker crashes
    MaxPreemptions  \* bound on leases that run out under a worker still alive

Requests == {"create", "dispatch", "followup"}
Message == {"dispatch", "followup"}
Events == {"tamper",    \* the directory or its binding is changed from outside
           "revoke",    \* the repository is disabled or revalidated
           "restart",   \* OpenCode restarts and forgets its in-memory runners
           "prior"}     \* a restored row: OpenCode already holds its message

ASSUME NullAssumption == NoWorker \notin Worker /\ NoSession \notin Session
ASSUME LateAssumption == LateCalls \subseteq Requests
ASSUME EventAssumption == Disturbances \subseteq Events
ASSUME FaultAssumption == MaxCrashes \in Nat /\ MaxPreemptions \in Nat
ASSUME SessionAssumption == IsFiniteSet(Session)

VARIABLES
    run,        \* the execution_runs row
    task,       \* tasks.status of its task
    workspace,  \* task_workspaces.status of its workspace
    packaged,   \* the terminal result package exists
    overdue,    \* now >= deadline_at
    trusted,    \* the repository row is enabled and ready
    dirty,      \* the workspace differs from its preflight evidence
    made,       \* session ids OpenCode handed out
    open,       \* sessions OpenCode still has, all with this run's metadata
    accepted,   \* accepted[s]: the run's messages session s holds
    runner,     \* sessions whose in-memory runner is inferring
    turn,       \* turn[s]: how the last assistant turn of s ended
    late,       \* requests given up by the client, not yet processed
    pc,         \* pc[w]: where worker w is in poll_execution
    job,        \* job[w]: its ExecutionLease and local variables
    crashes,    \* worker crashes so far
    preempted   \* leases lost by a live worker so far

db == <<run, task, workspace, packaged>>
env == <<overdue, trusted, dirty>>
faults == <<crashes, preempted>>
oc == <<made, open, accepted, runner, turn, late>>
local == <<pc, job>>
vars == <<db, env, oc, local, faults>>

Active == {"queued", "running"}
Terminal == {"completed", "failed", "cancelled"}
Stage == {"active", "manager_review", "opencode_error", "timed_out", "stalled_tool",
          "runner_gate", "workspace_binding_rejected", "stopped"}

Row == [status : Active \cup Terminal, stage : Stage, gen : Nat,
        owner : Worker \cup {NoWorker}, lease : {"none", "live", "expired"},
        session : Session \cup {NoSession}, cancel : BOOLEAN, verified : BOOLEAN]

\* Calls on OpenCode in flight: the worker waits for the answer.
Call == {"cancelList", "cancelAbort", "cancelDelete", "cancelAbortAgain",
         "timeoutList", "timeoutAbort", "stallAbort", "list", "create",
         "lookup", "prompting", "observe", "gate", "following"}
PC == Call \cup {"idle", "poll", "cancel", "timeout", "dispatch", "persist",
                 "safety", "reverify", "authorize", "mark", "follow", "apply"}

\* gen, status, session and cancel are the ExecutionLease snapshot taken by
\* claim_available; known, todo, was and seen are locals of one poll.
Job == [gen : Nat, status : Active, session : Session \cup {NoSession}, cancel : BOOLEAN,
        known : Session \cup {NoSession}, todo : SUBSET Session, was : BOOLEAN,
        seen : {"none", "busy", "idle", "error", "unknown"}]
NoJob == [gen |-> 0, status |-> "queued", session |-> NoSession, cancel |-> FALSE,
          known |-> NoSession, todo |-> {}, was |-> FALSE, seen |-> "none"]

LateRequest == [req : Requests, to : Session \cup {NoSession}]

TypeOK ==
    /\ run \in Row
    /\ task \in {"in_progress", "qa", "failed"}
    /\ workspace \in {"ready", "inspection_pending", "invalid"}
    /\ packaged \in BOOLEAN
    /\ overdue \in BOOLEAN /\ trusted \in BOOLEAN /\ dirty \in BOOLEAN
    /\ made \in SUBSET Session
    /\ open \in SUBSET Session
    /\ accepted \in [Session -> SUBSET Message]
    /\ runner \in SUBSET Session
    /\ turn \in [Session -> {"none", "result", "error"}]
    /\ late \in SUBSET LateRequest
    /\ pc \in [Worker -> PC]
    /\ job \in [Worker -> Job]
    /\ crashes \in Nat /\ preempted \in Nat

-----------------------------------------------------------------------------
(* Shared pieces of the worker's code.                                     *)

\* _locked_owned_run: the row is active and this exact lease still holds it.
Owned(w) ==
    /\ run.status \in Active
    /\ run.owner = w
    /\ run.gen = job[w].gen
    /\ run.lease = "live"

\* heartbeat(allow_cancel_requested = FALSE)
Beats(w) == Owned(w) /\ ~run.cancel

\* The two prompt gates keep the row locks of the repository and of the run
\* while their HTTP call is in flight; every other transaction on either waits.
Locking == {"prompting", "following"}
Unlocked(w) == \A v \in Worker \ {w} : pc[v] \notin Locking
\* Mutant: the gates release their locks before the call.
NeverLocked == TRUE

AllUnlocked == \A v \in Worker : pc[v] \notin Locking

Goto(w, p) == pc' = [pc EXCEPT ![w] = p] /\ UNCHANGED job
GotoWith(w, p, j) == pc' = [pc EXCEPT ![w] = p] /\ job' = [job EXCEPT ![w] = j]

\* Any outcome but "running" drops the lease from run_forever's active dict.
Leave(w) == GotoWith(w, "idle", NoJob)

\* The outcome "running": the same lease is polled again.
Again(w) == GotoWith(w, "poll", [job[w] EXCEPT !.known = NoSession, !.todo = {},
                                               !.was = FALSE, !.seen = "none"])
AgainIf(w, held) == IF held THEN Again(w) ELSE Leave(w)

\* A terminal write: the row, the task, request_workspace_inspection and the
\* result package in one transaction.
Finish(status, stage, taskStatus) ==
    /\ run' = [run EXCEPT !.status = status, !.stage = stage,
                          !.owner = NoWorker, !.lease = "none"]
    /\ task' = IF task = "in_progress" THEN taskStatus ELSE task
    /\ workspace' = IF workspace = "ready" THEN "inspection_pending" ELSE workspace
    /\ packaged' = TRUE

\* The transaction commits if the lease still holds; the lease is dropped anyway.
FinishIf(w, held, status, stage, taskStatus) ==
    /\ IF held THEN Finish(status, stage, taskStatus) ELSE UNCHANGED db
    /\ Leave(w)

\* _reject_invalid_workspace_binding
RejectBinding ==
    /\ run' = [run EXCEPT !.status = "failed", !.stage = "workspace_binding_rejected",
                          !.gen = @ + 1, !.owner = NoWorker, !.lease = "none"]
    /\ task' = IF task = "in_progress" THEN "failed" ELSE task
    /\ workspace' = "invalid"
    /\ packaged' = TRUE

\* mark_runtime_workspace_rejected
RejectIf(w, held) ==
    /\ IF held THEN RejectBinding ELSE UNCHANGED db
    /\ Leave(w)

-----------------------------------------------------------------------------
(* OpenCode, as the client uses it.                                        *)

\* POST /session/:id/prompt_async reaches the server.  A message id it already
\* holds starts no second turn: the worker's message ids are deterministic so
\* that a repeated prompt is the same message.
Accept(s, m) ==
    /\ accepted' = [accepted EXCEPT ![s] = @ \cup {m}]
    /\ IF m \in accepted[s]
         THEN UNCHANGED <<runner, turn>>
         ELSE /\ runner' = runner \cup {s}
              /\ turn' = [turn EXCEPT ![s] = "none"]
    /\ UNCHANGED <<made, open>>

\* POST /session/:id/abort stops the in-memory runner, whether or not the
\* session was deleted meanwhile; the cut turn ends with an error.
Abort(s) ==
    /\ runner' = runner \ {s}
    /\ turn' = IF s \in runner THEN [turn EXCEPT ![s] = "error"] ELSE turn
    /\ UNCHANGED <<made, open, accepted, late>>

\* DELETE /session/:id forgets the session and its messages, not its runner.
Delete(s) ==
    /\ open' = open \ {s}
    /\ accepted' = [accepted EXCEPT ![s] = {}]
    /\ UNCHANGED <<made, runner, turn, late>>

\* POST /session with the execution's metadata.
Make(s) ==
    /\ s \in Session \ made
    /\ made' = made \cup {s}
    /\ open' = open \cup {s}
    /\ UNCHANGED <<accepted, runner, turn>>

\* A request processed after its client gave up.
LateArrives ==
    /\ \E r \in late :
          /\ late' = late \ {r}
          /\ CASE r.req = "create" -> IF made = Session
                                        THEN UNCHANGED <<made, open, accepted, runner, turn>>
                                        ELSE \E s \in Session : Make(s)
               [] r.req # "create" -> IF r.to \in open
                                        THEN Accept(r.to, r.req)
                                        ELSE UNCHANGED <<made, open, accepted, runner, turn>>
    /\ UNCHANGED <<db, env, local, faults>>

\* The agent edits the workspace, ends its turn, or is forgotten by a restart.
AgentEdits ==
    /\ runner # {} /\ ~dirty
    /\ dirty' = TRUE
    /\ UNCHANGED <<db, overdue, trusted, oc, local, faults>>

AgentEnds(s) ==
    /\ s \in runner
    /\ runner' = runner \ {s}
    /\ turn' \in {[turn EXCEPT ![s] = t] : t \in {"none", "result", "error"}}
    /\ UNCHANGED <<db, env, made, open, accepted, late, local, faults>>

ServerRestarts ==
    /\ "restart" \in Disturbances /\ runner # {}
    /\ runner' = {}
    /\ UNCHANGED <<db, env, made, open, accepted, turn, late, local, faults>>

-----------------------------------------------------------------------------
(* claim_available and the branch of poll_execution.                       *)

\* Mutant: NULL <= now is not true in SQL, so free rows are never selected.
ExpiredOnly == run.status \in Active /\ run.lease = "expired"

Claimable == run.status \in Active /\ run.lease \in {"none", "expired"}

\* Mutant: recovery reuses the generation of the worker it replaces.
SameGeneration == run.gen

NextGeneration == run.gen + 1

Claim(w) ==
    /\ pc[w] \in {"idle", "poll"}
    /\ Claimable /\ AllUnlocked         \* FOR UPDATE SKIP LOCKED
    /\ IF workspace = "ready"
         THEN /\ run' = [run EXCEPT !.gen = NextGeneration, !.owner = w, !.lease = "live"]
              /\ GotoWith(w, "poll", [NoJob EXCEPT !.gen = NextGeneration,
                                                   !.status = run.status,
                                                   !.session = run.session,
                                                   !.cancel = run.cancel])
              /\ UNCHANGED <<task, workspace, packaged>>
         ELSE RejectBinding /\ UNCHANGED local
    /\ UNCHANGED <<env, oc, faults>>

Poll(w) ==
    /\ pc[w] = "poll"
    /\ Goto(w, IF job[w].cancel THEN "cancel"
               ELSE IF overdue THEN "timeout"
               ELSE IF job[w].status = "queued" THEN "dispatch"
               ELSE "observe")
    /\ UNCHANGED <<db, env, oc, faults>>

-----------------------------------------------------------------------------
(* Cleanup: cancel_execution, timeout_execution, stall_execution.          *)

\* The loop over session_ids: a heartbeat, then the call on the next one.
NextTarget(w, p, held, todo) ==
    IF held
      THEN \E s \in todo : GotoWith(w, p, [job[w] EXCEPT !.known = s, !.todo = todo \ {s}])
      ELSE Leave(w)

\* mark_cancelled
Cancelled(w) ==
    FinishIf(w, Owned(w) /\ run.cancel, "cancelled", "stopped", "failed")

\* After one session is cleaned: the next one, or the terminal transaction.
CancelNext(w, todo) ==
    IF todo = {} THEN Cancelled(w)
    ELSE NextTarget(w, "cancelAbort", Owned(w), todo) /\ UNCHANGED db

\* With no persisted session the worker lists those carrying the metadata.
CancelStart(w) ==
    /\ pc[w] = "cancel" /\ Unlocked(w)
    /\ IF ~(Owned(w) /\ run.cancel) THEN Leave(w)
       ELSE IF run.session = NoSession THEN Goto(w, "cancelList")
       ELSE NextTarget(w, "cancelAbort", TRUE, {run.session})
    /\ UNCHANGED <<db, env, oc, faults>>

CancelList(w) ==
    /\ pc[w] = "cancelList" /\ Unlocked(w)
    /\ CancelNext(w, open)
    /\ UNCHANGED <<env, oc, faults>>

\* Mutant: a queued session is aborted like a running one, and kept.
AbortOnly(w) ==
    /\ pc[w] = "cancelAbort" /\ Unlocked(w)
    /\ Abort(job[w].known)
    /\ CancelNext(w, job[w].todo)
    /\ UNCHANGED <<env, faults>>

\* abort, and for a queued row delete and abort again: a prompt that crossed
\* the deletion must not keep a runner.  (The row's status is the snapshot's
\* for as long as the lease holds.)
CancelAbort(w) ==
    /\ pc[w] = "cancelAbort" /\ Unlocked(w)
    /\ Abort(job[w].known)
    /\ IF job[w].status = "queued"
         THEN /\ IF Owned(w) THEN Goto(w, "cancelDelete") ELSE Leave(w)
              /\ UNCHANGED db
         ELSE CancelNext(w, job[w].todo)
    /\ UNCHANGED <<env, faults>>

CancelDelete(w) ==
    /\ pc[w] = "cancelDelete" /\ Unlocked(w)
    /\ IF job[w].known \in open
         THEN /\ Delete(job[w].known)
              /\ IF Owned(w) THEN Goto(w, "cancelAbortAgain") ELSE Leave(w)
              /\ UNCHANGED db
         ELSE UNCHANGED oc /\ CancelNext(w, job[w].todo)      \* OpenCodeNotFound
    /\ UNCHANGED <<env, faults>>

CancelAbortAgain(w) ==
    /\ pc[w] = "cancelAbortAgain" /\ Unlocked(w)
    /\ Abort(job[w].known)
    /\ CancelNext(w, job[w].todo)
    /\ UNCHANGED <<env, faults>>

\* Mutant: the stage is written where the status belongs.
StageAsStatus(w) == FinishIf(w, Owned(w), "timed_out", "timed_out", "failed")

\* mark_timed_out
TimedOut(w) == FinishIf(w, Owned(w), "failed", "timed_out", "failed")

TimeoutNext(w, todo) ==
    IF todo = {} THEN TimedOut(w)
    ELSE NextTarget(w, "timeoutAbort", Beats(w), todo) /\ UNCHANGED db

\* Mutant: the timeout is committed at once and nothing is aborted.
TimeoutAtOnce(w) ==
    /\ pc[w] = "timeout" /\ Unlocked(w)
    /\ TimedOut(w)
    /\ UNCHANGED <<env, oc, faults>>

TimeoutStart(w) ==
    /\ pc[w] = "timeout" /\ Unlocked(w)
    /\ IF ~Owned(w) THEN Leave(w)
       ELSE IF run.session = NoSession THEN Goto(w, "timeoutList")
       ELSE NextTarget(w, "timeoutAbort", Beats(w), {run.session})
    /\ UNCHANGED <<db, env, oc, faults>>

TimeoutList(w) ==
    /\ pc[w] = "timeoutList" /\ Unlocked(w)
    /\ TimeoutNext(w, open)
    /\ UNCHANGED <<env, oc, faults>>

TimeoutAbort(w) ==
    /\ pc[w] = "timeoutAbort" /\ Unlocked(w)
    /\ Abort(job[w].known)
    /\ TimeoutNext(w, job[w].todo)
    /\ UNCHANGED <<env, faults>>

\* mark_stalled_tool
StallAbort(w) ==
    /\ pc[w] = "stallAbort" /\ Unlocked(w)
    /\ Abort(job[w].session)
    /\ FinishIf(w, Owned(w), "failed", "stalled_tool", "failed")
    /\ UNCHANGED <<env, faults>>

-----------------------------------------------------------------------------
(* dispatch_execution.                                                     *)

\* _verify_workspace_before_inference: the read of the directory and the
\* transaction that records its verdict.
VerifyWorkspace(w, p, j) ==
    IF dirty THEN RejectIf(w, Owned(w))
    ELSE IF Owned(w) /\ run.status = "queued"
      THEN /\ run' = [run EXCEPT !.verified = TRUE]
           /\ GotoWith(w, p, j)
           /\ UNCHANGED <<task, workspace, packaged>>
      ELSE Leave(w) /\ UNCHANGED db

\* _queued_dispatch_context, then the first verification.
DispatchStart(w) ==
    /\ pc[w] = "dispatch" /\ Unlocked(w)
    /\ IF Owned(w) /\ run.status = "queued"
         THEN VerifyWorkspace(w, IF run.session = NoSession THEN "list" ELSE "lookup",
                              [job[w] EXCEPT !.known = run.session, !.was = run.verified])
         ELSE Leave(w) /\ UNCHANGED db
    /\ UNCHANGED <<env, oc, faults>>

\* Reconciliation by metadata; two matches raise an OpenCodeError.
ListSessions(w) ==
    /\ pc[w] = "list" /\ Unlocked(w)
    /\ CASE Cardinality(open) > 1 -> AgainIf(w, Beats(w))
         [] Cardinality(open) = 1 ->
              \E s \in open : GotoWith(w, "persist", [job[w] EXCEPT !.known = s])
         [] OTHER -> IF Beats(w) THEN Goto(w, "create") ELSE Leave(w)
    /\ UNCHANGED <<db, env, oc, faults>>

CreateSession(w) ==
    /\ pc[w] = "create"
    /\ \E s \in Session :
          Make(s) /\ GotoWith(w, "persist", [job[w] EXCEPT !.known = s])
    /\ UNCHANGED <<db, env, late, faults>>

\* Mutant: the session is persisted without the lease check.
PersistUnfenced(w) ==
    /\ pc[w] = "persist" /\ Unlocked(w)
    /\ IF run.status = "queued"
         THEN run' = [run EXCEPT !.session = job[w].known] /\ Goto(w, "lookup")
         ELSE Leave(w) /\ UNCHANGED run
    /\ UNCHANGED <<task, workspace, packaged, env, oc, faults>>

PersistSession(w) ==
    /\ pc[w] = "persist" /\ Unlocked(w)
    /\ IF Beats(w) /\ run.status = "queued" /\ run.session \in {NoSession, job[w].known}
         THEN run' = [run EXCEPT !.session = job[w].known] /\ Goto(w, "lookup")
         ELSE Leave(w) /\ UNCHANGED run
    /\ UNCHANGED <<task, workspace, packaged, env, oc, faults>>

\* The deadline is read first; then GET /session/:id/message/:id.
LookupMessage(w) ==
    /\ pc[w] = "lookup"
    /\ Goto(w, IF overdue THEN "timeout"
               ELSE IF "dispatch" \notin accepted[job[w].known] THEN "reverify"
               ELSE IF job[w].was THEN "mark" ELSE "safety")
    /\ UNCHANGED <<db, env, oc, faults>>

\* request_safety_cancel: the accepted message has no durable verification.
SafetyCancel(w) ==
    /\ pc[w] = "safety" /\ Unlocked(w)
    /\ IF Owned(w) /\ run.status = "queued"
         THEN run' = [run EXCEPT !.cancel = TRUE] /\ Goto(w, "cancel")
         ELSE Leave(w) /\ UNCHANGED run
    /\ UNCHANGED <<task, workspace, packaged, env, oc, faults>>

Reverify(w) ==
    /\ pc[w] = "reverify" /\ Unlocked(w)
    /\ VerifyWorkspace(w, "authorize", job[w])
    /\ UNCHANGED <<env, oc, faults>>

\* _prompt_with_repository_trust_gate up to its call: locks repository, then run.
Authorize(w) ==
    /\ pc[w] = "authorize" /\ AllUnlocked
    /\ IF ~trusted THEN RejectIf(w, Owned(w))
       ELSE /\ IF ~(Beats(w) /\ run.status = "queued") THEN Leave(w)
               ELSE Goto(w, IF overdue THEN "timeout" ELSE "prompting")
            /\ UNCHANGED db
    /\ UNCHANGED <<env, oc, faults>>

\* prompt_async answers, and the gate commits.
Prompt(w) ==
    /\ pc[w] = "prompting"
    /\ IF job[w].known \in open
         THEN Accept(job[w].known, "dispatch") /\ UNCHANGED late /\ Goto(w, "mark")
         ELSE UNCHANGED oc /\ AgainIf(w, Beats(w))            \* OpenCodeNotFound
    /\ UNCHANGED <<db, env, faults>>

\* Mutant: the dispatch is recorded without the lease and cancellation checks.
MarkUnfenced(w) ==
    /\ pc[w] = "mark" /\ Unlocked(w)
    /\ run' = IF run.status = "queued"
                THEN [run EXCEPT !.status = "running", !.owner = NoWorker, !.lease = "none"]
                ELSE run
    /\ Leave(w)
    /\ UNCHANGED <<task, workspace, packaged, env, oc, faults>>

\* mark_dispatched
MarkDispatched(w) ==
    /\ pc[w] = "mark" /\ Unlocked(w)
    /\ IF overdue THEN Goto(w, "timeout") /\ UNCHANGED run
       ELSE /\ run' = IF /\ Beats(w) /\ run.status = "queued"
                         /\ run.session = job[w].known /\ run.verified
                        THEN [run EXCEPT !.status = "running",
                                         !.owner = NoWorker, !.lease = "none"]
                        ELSE run
            /\ Leave(w)
    /\ UNCHANGED <<task, workspace, packaged, env, oc, faults>>

-----------------------------------------------------------------------------
(* The running half of poll_execution.                                     *)

\* What the status and message reads report of session s.
Seen(s) ==
    CASE s \in runner -> "busy"
      [] s \notin runner /\ turn[s] = "result" -> "idle"
      [] s \notin runner /\ turn[s] = "error" -> "error"
      [] OTHER -> "unknown"

\* A running tool call may be found stalled; that comes before the deadline.
Observe(w) ==
    /\ pc[w] = "observe" /\ Unlocked(w)
    /\ LET s == job[w].session IN
         IF s \notin open THEN AgainIf(w, Beats(w))           \* OpenCodeError
         ELSE \/ /\ s \in runner
                 /\ IF Beats(w) THEN Goto(w, "stallAbort") ELSE Leave(w)
              \/ GotoWith(w, IF overdue THEN "timeout"
                             ELSE IF Seen(s) = "idle" THEN "gate" ELSE "apply",
                          [job[w] EXCEPT !.seen = Seen(s)])
    /\ UNCHANGED <<db, env, oc, faults>>

\* Mutant: the gate fails a run whatever became of its lease.
FailUnfenced(w) == FinishIf(w, TRUE, "failed", "runner_gate", "failed")

\* _fail_runner_gate
FailGate(w) ==
    FinishIf(w, Owned(w) /\ run.status = "running", "failed", "runner_gate", "failed")

\* The runner gate on an idle answer: checkpoint, missing validation or
\* format repair.  Which one applies is decided by the answer's text, the
\* workspace snapshot and the runner jobs, and is left open here.
Gate(w) ==
    /\ pc[w] = "gate" /\ Unlocked(w)
    /\ \/ Goto(w, "apply") /\ UNCHANGED db                    \* "allow"
       \/ AgainIf(w, Beats(w)) /\ UNCHANGED db                \* jobs not terminal
       \/ FailGate(w)
       \/ /\ "followup" \notin accepted[job[w].session]
          /\ Goto(w, "follow") /\ UNCHANGED db
    /\ UNCHANGED <<env, oc, faults>>

\* _prompt_running_with_repository_trust_gate up to its call.
Follow(w) ==
    /\ pc[w] = "follow" /\ AllUnlocked
    /\ IF ~(Beats(w) /\ run.status = "running") THEN Leave(w) /\ UNCHANGED db
       ELSE IF overdue THEN Goto(w, "timeout") /\ UNCHANGED db
       ELSE IF ~trusted THEN FailGate(w)
       ELSE Goto(w, "following") /\ UNCHANGED db
    /\ UNCHANGED <<env, oc, faults>>

FollowUp(w) ==
    /\ pc[w] = "following"
    /\ IF job[w].session \in open
         THEN Accept(job[w].session, "followup") /\ UNCHANGED late /\ Again(w)
         ELSE UNCHANGED oc /\ AgainIf(w, Beats(w))            \* OpenCodeNotFound
    /\ UNCHANGED <<db, env, faults>>

\* apply_observation, with what Observe saw.
Apply(w) ==
    /\ pc[w] = "apply" /\ Unlocked(w)
    /\ IF ~(Owned(w) /\ run.status = "running") THEN Leave(w) /\ UNCHANGED db
       ELSE IF run.cancel THEN Goto(w, "cancel") /\ UNCHANGED db
       ELSE IF overdue THEN Goto(w, "timeout") /\ UNCHANGED db
       ELSE IF job[w].seen = "error"
         THEN Finish("failed", "opencode_error", "failed") /\ Leave(w)
       ELSE IF job[w].seen = "idle"
         THEN Finish("completed", "manager_review", "qa") /\ Leave(w)
       ELSE Again(w) /\ UNCHANGED db
    /\ UNCHANGED <<env, oc, faults>>

-----------------------------------------------------------------------------
(* A call that fails tells the client nothing: it may have had no effect,  *)
(* its whole effect, or (for LateCalls) an effect still to come.           *)

CalledEffect(w) ==
    CASE pc[w] \in {"cancelAbort", "cancelAbortAgain", "timeoutAbort"} -> Abort(job[w].known)
      [] pc[w] = "stallAbort" -> Abort(job[w].session)
      [] pc[w] = "cancelDelete" -> job[w].known \in open /\ Delete(job[w].known)
      [] pc[w] = "create" -> UNCHANGED late /\ \E s \in Session : Make(s)
      [] pc[w] = "prompting" -> /\ job[w].known \in open /\ UNCHANGED late
                                /\ Accept(job[w].known, "dispatch")
      [] pc[w] = "following" -> /\ job[w].session \in open /\ UNCHANGED late
                                /\ Accept(job[w].session, "followup")
      [] OTHER -> UNCHANGED oc

LateEffect(w) ==
    /\ \E r \in LateRequest :
          /\ r.req \in LateCalls
          /\ \/ pc[w] = "create" /\ r = [req |-> "create", to |-> NoSession]
             \/ pc[w] = "prompting" /\ r = [req |-> "dispatch", to |-> job[w].known]
             \/ pc[w] = "following" /\ r = [req |-> "followup", to |-> job[w].session]
          /\ late' = late \cup {r}
    /\ UNCHANGED <<made, open, accepted, runner, turn>>

\* mark_cancel_pending, mark_timeout_pending, mark_stalled_tool_abort_pending,
\* or the except branch of poll_execution.
CallFails(w) ==
    /\ pc[w] \in Call
    /\ pc[w] \in Locking \/ Unlocked(w)
    /\ UNCHANGED oc \/ CalledEffect(w) \/ LateEffect(w)
    /\ AgainIf(w, CASE pc[w] \in {"cancelList", "cancelAbort", "cancelDelete",
                                  "cancelAbortAgain"} -> Owned(w) /\ run.cancel
                    [] pc[w] \in {"timeoutList", "timeoutAbort", "stallAbort"} -> Owned(w)
                    [] OTHER -> Beats(w))
    /\ UNCHANGED <<db, env, faults>>

-----------------------------------------------------------------------------
(* The control plane, time, and faults.                                    *)

\* Mutant: cancellation is recorded but the current lease is left in force.
CancelUnfenced ==
    /\ AllUnlocked
    /\ run.status \in Active /\ ~run.cancel
    /\ run' = [run EXCEPT !.cancel = TRUE]
    /\ UNCHANGED <<task, workspace, packaged, env, oc, local, faults>>

\* abort_execution on a queued or running OpenCode run.
RequestCancel ==
    /\ AllUnlocked
    /\ run.status \in Active /\ ~run.cancel
    /\ run' = [run EXCEPT !.cancel = TRUE, !.gen = @ + 1,
                          !.owner = NoWorker, !.lease = "none"]
    /\ UNCHANGED <<task, workspace, packaged, env, oc, local, faults>>

\* The repository is disabled or sent back to validation, or becomes ready.
TrustChanges ==
    /\ "revoke" \in Disturbances /\ AllUnlocked
    /\ trusted' = ~trusted
    /\ UNCHANGED <<db, overdue, dirty, oc, local, faults>>

\* Someone else writes into the directory, or edits the workspace row.
Tamper ==
    /\ "tamper" \in Disturbances /\ AllUnlocked
    /\ \/ ~dirty /\ dirty' = TRUE /\ UNCHANGED workspace
       \/ workspace = "ready" /\ workspace' = "invalid" /\ UNCHANGED dirty
    /\ UNCHANGED <<run, task, packaged, overdue, trusted, oc, local, faults>>

DeadlinePasses ==
    /\ ~overdue
    /\ overdue' = TRUE
    /\ UNCHANGED <<db, trusted, dirty, oc, local, faults>>

\* Some worker process still polls under the current lease.
Held == \E w \in Worker : pc[w] # "idle" /\ run.owner = w /\ job[w].gen = run.gen

\* A lease nobody renews any more runs out.
LeaseLapses ==
    /\ run.lease = "live" /\ ~Held
    /\ run' = [run EXCEPT !.lease = "expired"]
    /\ UNCHANGED <<task, workspace, packaged, env, oc, local, faults>>

\* A worker is paused, or its calls are slow, past its lease.
LeasePreempted ==
    /\ run.lease = "live" /\ Held /\ preempted < MaxPreemptions
    /\ run' = [run EXCEPT !.lease = "expired"]
    /\ preempted' = preempted + 1
    /\ UNCHANGED <<task, workspace, packaged, env, oc, local, crashes>>

\* The process dies; its transaction, if one is open, is rolled back, but a
\* prompt it was sending may have been accepted.
Crash(w) ==
    /\ pc[w] # "idle" /\ crashes < MaxCrashes
    /\ crashes' = crashes + 1
    /\ UNCHANGED oc \/ CalledEffect(w) \/ LateEffect(w)
    /\ Leave(w)
    /\ UNCHANGED <<db, env, preempted>>

\* Nothing is left to do: the run is settled and every worker is idle.
Settled ==
    /\ run.status \in Terminal
    /\ \A w \in Worker : pc[w] = "idle"
    /\ UNCHANGED vars

-----------------------------------------------------------------------------
Init ==
    /\ run = [status |-> "queued", stage |-> "active", gen |-> 0, owner |-> NoWorker,
              lease |-> "none", session |-> NoSession, cancel |-> FALSE, verified |-> FALSE]
    /\ task = "in_progress" /\ workspace = "ready" /\ packaged = FALSE
    /\ overdue = FALSE /\ trusted = TRUE /\ dirty = FALSE
    /\ made \in {{}} \cup IF "prior" \in Disturbances THEN {{s} : s \in Session} ELSE {}
    /\ open = made /\ runner \in {{}, made}
    /\ accepted = [s \in Session |-> IF s \in made THEN {"dispatch"} ELSE {}]
    /\ turn = [s \in Session |-> "none"]
    /\ late = {}
    /\ pc = [w \in Worker |-> "idle"] /\ job = [w \in Worker |-> NoJob]
    /\ crashes = 0 /\ preempted = 0

\* Steps that end in an answer of OpenCode.
Answered(w) ==
    \/ CancelList(w) \/ CancelAbort(w) \/ CancelDelete(w) \/ CancelAbortAgain(w)
    \/ TimeoutList(w) \/ TimeoutAbort(w) \/ StallAbort(w)
    \/ ListSessions(w) \/ CreateSession(w) \/ LookupMessage(w) \/ Prompt(w)
    \/ Observe(w) \/ Gate(w) \/ FollowUp(w)

\* Steps on the worker's own memory and the database.
Local(w) ==
    \/ Poll(w) \/ CancelStart(w) \/ TimeoutStart(w) \/ DispatchStart(w)
    \/ PersistSession(w) \/ SafetyCancel(w) \/ Reverify(w) \/ Authorize(w)
    \/ MarkDispatched(w) \/ Follow(w) \/ Apply(w)

Next ==
    \/ \E w \in Worker : Claim(w) \/ Local(w) \/ Answered(w) \/ CallFails(w) \/ Crash(w)
    \/ LateArrives \/ AgentEdits \/ (\E s \in Session : AgentEnds(s)) \/ ServerRestarts
    \/ RequestCancel \/ TrustChanges \/ Tamper
    \/ DeadlinePasses \/ LeaseLapses \/ LeasePreempted
    \/ Settled

Spec == Init /\ [][Next]_vars

\* Worker threads keep running and leases do run out.  OpenCode is assumed to
\* answer a cleanup call that is repeated for ever: nothing else can release a
\* run whose external work the code insists on stopping first.
FairSpec ==
    /\ Spec
    /\ \A w \in Worker :
          /\ WF_vars(Claim(w)) /\ WF_vars(Local(w)) /\ WF_vars(Answered(w) \/ CallFails(w))
          /\ SF_vars(CancelList(w)) /\ SF_vars(CancelAbort(w)) /\ SF_vars(CancelDelete(w))
          /\ SF_vars(CancelAbortAgain(w)) /\ SF_vars(TimeoutList(w))
          /\ SF_vars(TimeoutAbort(w)) /\ SF_vars(StallAbort(w))
    /\ WF_vars(LeaseLapses)

-----------------------------------------------------------------------------
(* Properties.                                                             *)

\* The sessions that hold a message of the run, or may still receive one.
Prompted == {s \in Session : accepted[s] # {} \/ \E r \in late : r.to = s}

\* Fencing of prompts (G1: a stale create call "can leave an empty orphan
\* session, but fencing prevents that session from receiving a prompt"):
\* whatever sessions lost or late creations leave behind, only the session the
\* row names is ever prompted, and only after the workspace was durably verified.
NoOrphanPrompt == \A s \in Prompted : s = run.session /\ run.verified

\* The row and the server agree: a run is "running", or was completed, only if
\* its own session still holds the dispatch message that started inference.
RunningWasPrompted ==
    run.status \in {"running", "completed"} =>
        /\ run.session \in open
        /\ "dispatch" \in accepted[run.session]
        /\ run.verified

\* While a prompt is in flight, everything it was authorised by still stands:
\* the lease generation, the repository's trust, no cancellation, and no second
\* worker prompting.  (The prompt gates hold both row locks across the call.)
PromptStaysAuthorized ==
    \A w \in Worker : pc[w] \in Locking =>
        /\ trusted /\ ~run.cancel /\ run.status \in Active
        /\ run.owner = w /\ run.gen = job[w].gen
        /\ run.session = IF pc[w] = "prompting" THEN job[w].known ELSE job[w].session
        /\ \A v \in Worker \ {w} : pc[v] \notin Locking

\* A lease generation is handed to one worker at a time, and none is from the future.
OneWorkerPerGeneration ==
    \A v, w \in Worker : pc[v] # "idle" /\ pc[w] # "idle" =>
        /\ job[w].gen <= run.gen
        /\ v # w => job[v].gen # job[w].gen

\* Work OpenCode is doing, or may still begin, for this run.
Working == runner # {} \/ \E r \in late : r.to \in open /\ r.req \notin accepted[r.to]

\* A settled run has no inference left behind it, however it was settled; runs
\* rejected by the binding check abort nothing and are the exception.
SettledIsQuiet ==
    run.status \in Terminal /\ run.stage # "workspace_binding_rejected" => ~Working

\* Only confirmed cleanup permits "cancelled", even when the dispatch prompt is
\* processed after its client gave up: abort, delete, abort leaves no session
\* that could still take it.
CancelledIsQuiet == run.status = "cancelled" => ~Working

\* Cancellation wins: a run whose cancellation is recorded settles as cancelled
\* and never as completed, timed out or failed, whatever its workers were doing;
\* only a binding found broken by the claim that would clean it up overrides it.
CancelWins ==
    [][run.cancel /\ run.status \in Active /\ run'.status \in Terminal
         => \/ run'.status = "cancelled"
            \/ run'.stage = "workspace_binding_rejected" /\ workspace # "ready"]_vars

\* A settled run is never written again, its package is not lost, and its task is
\* not moved on its behalf.  The manager may move the task by hand: that endpoint
\* (update_task_status) is outside this module.
TerminalIsFinal ==
    [][run.status \in Terminal => run' = run /\ packaged' /\ task' = task]_vars

\* A run that is cancelled, or whose deadline has passed, is eventually settled,
\* through every crash, paused worker, failed call and restarted server.
StoppedRunSettles == run.cancel \/ overdue ~> run.status \in Terminal

(* The abstract life of an execution, and how this module's state maps to it. *)

Target == IF Prompted = {} THEN NoSession ELSE CHOOSE s \in Prompted : TRUE

Lifecycle == INSTANCE ExecutionLifecycle
    WITH phase <- run.status, cancel <- run.cancel, target <- Target

\* Whatever its workers, calls and failures do, the run only takes the steps of
\* ExecutionLifecycle.
ImplementsLifecycle == Lifecycle!Spec

(* What the documents and the code's own messages say, and the code does not  *)
(* keep; each is checked by a run of its own.                                 *)

\* docs/G1_EXECUTION_LIFECYCLE.md, deadline semantics: confirmed aborts prevent
\* "the database from claiming a terminal timeout while external work may still
\* be running".
TimedOutIsQuiet == run.stage = "timed_out" => ~Working

\* docs/G2_TASK_WORKSPACES.md: any mismatch of the workspace evidence rejects the
\* binding, and inference is not started.
RejectedStartedNothing == run.stage = "workspace_binding_rejected" => Prompted = {}

\* A message accepted before any durable verification ends in the safety
\* cancellation of dispatch_execution, never in a dispatched run.
UnverifiedNeverDispatched == made # {} => [](run.status # "running")

=============================================================================
