----------------------------- MODULE RunnerJobs -----------------------------
(***************************************************************************)
(* Durable runner jobs: the rows of runner_jobs, the Runner Manager that   *)
(* leases them (runner_manager.py), the host daemon runnerd that runs one  *)
(* disposable container per request (runnerd.py) and the entry point that  *)
(* verifies the sources inside the container (entrypoint.py).              *)
(*                                                                         *)
(* A lease is the pair of its generation and its owner.  Every claim takes *)
(* a fresh generation, and a thread works under one lease at a time, so    *)
(* the row names the thread that holds the current generation.  Sources    *)
(* are numbered by the edits made to them.                                 *)
(***************************************************************************)
EXTENDS Integers, FiniteSets

CONSTANTS
  Job,             \* runner jobs of one execution run
  Thread,          \* worker threads of the Runner Manager
  Call,            \* connections runnerd serves
  NoOne,           \* no thread, no call
  Slots,           \* RUNNERD_MAX_CONCURRENT
  Oversized,       \* jobs whose timeout is above RUNNERD_MAX_TIMEOUT_SECONDS
  MaxEdits,        \* bound: edits of the sources
  MaxCrashes,      \* bound: crashes of the Runner Manager
  MaxRestarts,     \* bound: restarts of runnerd
  MaxHiccups,      \* bound: refused connections, taken slots, broken
                   \* sockets, docker errors
  MaxPreemptions   \* bound: leases that expire under a working thread

ASSUME RunnerConstants ==
  /\ NoOne \notin Job \union Thread \union Call
  /\ Oversized \subseteq Job
  /\ {Slots, MaxEdits, MaxCrashes, MaxRestarts, MaxHiccups, MaxPreemptions} \subseteq Nat

VARIABLES
  job,        \* the rows of runner_jobs
  work,       \* what each thread of the manager is doing
  call,       \* the requests runnerd is serving
  box,        \* the container that carries a job's name
  run,        \* the execution run; "cancelling" is running with a request
  trusted,    \* the repository is enabled and ready
  workspace,  \* status of the workspace row
  content,    \* the version of the sources in the workspace
  passed,     \* history: the sources on which a job's command exited 0
  failed,     \* history: jobs whose own container exited with an error
  enqueued,   \* history: the workspace's status when a job was enqueued
  faults      \* how many faults of each kind have happened

vars == <<job, work, call, box, run, trusted, workspace, content, passed,
          failed, enqueued, faults>>
world == <<run, trusted, workspace, content>>
history == <<passed, failed, enqueued>>

NoSnapshot == -1
Source == 0..MaxEdits
Confirmed == {"completed", "failed", "timed_out"}
Settled == Confirmed \union {"cleanup_uncertain", "rejected"}
JobStatus == {"absent", "queued", "running"} \union Settled
RunnableRun == {"running", "completed"}
RunnableWorkspace == {"ready", "inspecting", "retained"}

Row == [status : JobStatus, holder : Thread \union {NoOne}, live : BOOLEAN,
        snapshot : Source \union {NoSnapshot}]
Work == [at : {"idle", "authorize", "send", "wait", "record"}, job : Job \union {NoOne},
         outcome : {"none", "retry"} \union Settled]
Result == {"none", "busy"} \union Settled
Request == [phase : {"free", "arrived", "running", "ended", "replied"},
            job : Job \union {NoOne}, client : Thread \union {NoOne}, result : Result]
Box == [at : {"none", "booting", "running"}, by : Call \union {NoOne},
        source : Source \union {NoSnapshot}]
Idle == [at |-> "idle", job |-> NoOne, outcome |-> "none"]
NoCall == [phase |-> "free", job |-> NoOne, client |-> NoOne, result |-> "none"]
NoBox == [at |-> "none", by |-> NoOne, source |-> NoSnapshot]

Use(fault) == faults' = [faults EXCEPT ![fault] = @ + 1]

Init ==
  /\ job = [j \in Job |-> [status |-> "absent", holder |-> NoOne, live |-> FALSE,
                           snapshot |-> NoSnapshot]]
  /\ work = [t \in Thread |-> Idle]
  /\ call = [c \in Call |-> NoCall]
  /\ box = [j \in Job |-> NoBox]
  /\ run = "running" /\ trusted = TRUE /\ workspace = "ready" /\ content = 0
  /\ passed = [j \in Job |-> {}]
  /\ failed = {}
  /\ enqueued = [j \in Job |-> "ready"]
  /\ faults = [crashes |-> 0, restarts |-> 0, hiccups |-> 0, preemptions |-> 0]

----------------------------------------------------------------------------
(* Enqueueing: the API and the checkpoint gate                              *)

Runnable == run \in RunnableRun /\ trusted /\ workspace \in RunnableWorkspace

\* A job is enqueued through the API for any runnable binding, or by the
\* checkpoint gate of a running run for the sources it has just digested.
Enqueue(j, snapshot) ==
  /\ job[j].status = "absent"
  /\ IF snapshot = NoSnapshot
     THEN Runnable
     ELSE run = "running" /\ trusted /\ workspace = "ready" /\ snapshot = content
  /\ job' = [job EXCEPT ![j].status = "queued", ![j].snapshot = snapshot]
  /\ enqueued' = [enqueued EXCEPT ![j] = workspace]
  /\ UNCHANGED <<work, call, box, world, passed, failed, faults>>

----------------------------------------------------------------------------
(* The Runner Manager                                                       *)

Goes(t, at, j, outcome) == work' = [work EXCEPT ![t] = [at |-> at, job |-> j, outcome |-> outcome]]
Leaves(t) == work' = [work EXCEPT ![t] = Idle]

Owned(t) ==
  LET row == job[work[t].job] IN row.status = "running" /\ row.holder = t /\ row.live

\* Mutant: a running job whose lease has expired is not claimed again.
DueQueued(j) == job[j].status = "queued"

Due(j) == job[j].status = "queued" \/ (job[j].status = "running" /\ ~job[j].live)

Claim(t, j) ==
  /\ work[t] = Idle
  /\ Due(j)
  /\ job' = [job EXCEPT ![j] = [@ EXCEPT !.status = "running", !.holder = t, !.live = TRUE]]
  /\ Goes(t, "authorize", j, "none")
  /\ UNCHANGED <<call, box, world, history, faults>>

\* The row's lease is dropped, whatever it becomes.
Becomes(j, status) ==
  job' = [job EXCEPT ![j] = [@ EXCEPT !.status = status, !.holder = NoOne, !.live = FALSE]]

Authorize(t) ==
  LET j == work[t].job IN
  /\ work[t].at = "authorize"
  /\ IF ~Owned(t) THEN Leaves(t) /\ UNCHANGED job
     ELSE IF ~Runnable THEN Leaves(t) /\ Becomes(j, "rejected")
     ELSE Goes(t, "send", j, "none") /\ UNCHANGED job
  /\ UNCHANGED <<call, box, world, history, faults>>

\* The request reaches runnerd.
Send(t, c) ==
  /\ work[t].at = "send" /\ call[c] = NoCall
  /\ call' = [call EXCEPT ![c] = [phase |-> "arrived", job |-> work[t].job,
                                  client |-> t, result |-> "none"]]
  /\ Goes(t, "wait", work[t].job, "none")
  /\ UNCHANGED <<job, box, world, history, faults>>

\* The connection is refused: nothing was submitted.
ConnectRefused(t) ==
  /\ work[t].at = "send" /\ faults.hiccups < MaxHiccups
  /\ Use("hiccups")
  /\ Goes(t, "record", work[t].job, "retry")
  /\ UNCHANGED <<job, call, box, world, history>>

\* What process_runner_job does with a reply of that status.
OutcomeOf(result) == IF result = "busy" THEN "retry" ELSE result

Receive(t, c) ==
  /\ work[t].at = "wait" /\ call[c].client = t /\ call[c].phase = "replied"
  /\ Goes(t, "record", work[t].job, OutcomeOf(call[c].result))
  /\ call' = [call EXCEPT ![c] = NoCall]
  /\ UNCHANGED <<job, box, world, history, faults>>

Orphaned(who) == [c \in Call |-> IF call[c].client \in who
                                 THEN [call[c] EXCEPT !.client = NoOne] ELSE call[c]]

\* Mutant: a job whose outcome is unknown goes back to the queue.
RequeueUnknown(t) ==
  Becomes(work[t].job, "queued") /\ Leaves(t) /\ call' = Orphaned({t})

\* The outcome is unknown: the thread leaves, the row keeps its lease.
Unknown(t) == Leaves(t) /\ call' = Orphaned({t}) /\ UNCHANGED job

HungUp(t) ==
  /\ work[t].at = "wait"
  /\ \A c \in Call : call[c].client # t
  /\ Unknown(t)
  /\ UNCHANGED <<box, world, history, faults>>

SocketBreaks(t) ==
  /\ work[t].at \in {"send", "wait"} /\ faults.hiccups < MaxHiccups
  /\ Use("hiccups")
  /\ Unknown(t)
  /\ UNCHANGED <<box, world, history>>

\* Mutant: the outcome of a call is written as it is.
RawOutcome(outcome) == outcome

\* mark_retry, mark_rejected_response, mark_uncertain, mark_terminal.
StatusOf(outcome) == IF outcome = "retry" THEN "queued" ELSE outcome

Record(t) ==
  /\ work[t].at = "record"
  /\ IF Owned(t) THEN Becomes(work[t].job, StatusOf(work[t].outcome)) ELSE UNCHANGED job
  /\ Leaves(t)
  /\ UNCHANGED <<call, box, world, history, faults>>

Busy(j) ==
  \/ \E t \in Thread : work[t].job = j
  \/ \E c \in Call : call[c].job = j

\* A lease outlasts the timeout of the job, the cleanup and the response
\* padding, so it expires only when neither the manager nor runnerd works on
\* the job any more, unless one of them is suspended.
LeaseExpires(j) ==
  /\ job[j].live
  /\ IF Busy(j) THEN faults.preemptions < MaxPreemptions /\ Use("preemptions")
     ELSE UNCHANGED faults
  /\ job' = [job EXCEPT ![j].live = FALSE]
  /\ UNCHANGED <<work, call, box, world, history>>

Crash ==
  /\ faults.crashes < MaxCrashes /\ Use("crashes")
  /\ work' = [t \in Thread |-> Idle]
  /\ call' = Orphaned(Thread)
  /\ UNCHANGED <<job, box, world, history>>

----------------------------------------------------------------------------
(* runnerd                                                                  *)

Ends(c, result) == call' = [call EXCEPT ![c] = [@ EXCEPT !.phase = "ended", !.result = result]]
Replies(c, result) == call' = [call EXCEPT ![c] = [@ EXCEPT !.phase = "replied", !.result = result]]

InSlots == {c \in Call : call[c].phase \in {"running", "ended"}}

Refused(c) == call[c].job \in Oversized
NameTaken(j) == box[j] # NoBox

Launch(c, j) ==
  /\ call' = [call EXCEPT ![c].phase = "running"]
  /\ box' = [box EXCEPT ![j] = [at |-> "booting", by |-> c, source |-> NoSnapshot]]

\* The slots are taken by the jobs of other runs.
Crowded(c) == faults.hiccups < MaxHiccups /\ Use("hiccups") /\ Replies(c, "busy")

\* The request is parsed, takes a slot, and docker run creates the container
\* unless one with the job's name is there already.
Accept(c) ==
  LET j == call[c].job IN
  /\ call[c].phase = "arrived"
  /\ IF Refused(c) THEN Replies(c, "rejected") /\ UNCHANGED <<box, faults>>
     ELSE IF Cardinality(InSlots) >= Slots
          THEN Replies(c, "busy") /\ UNCHANGED <<box, faults>>
     ELSE \/ Crowded(c) /\ UNCHANGED box
          \/ /\ IF NameTaken(j) THEN Ends(c, "failed") /\ UNCHANGED box ELSE Launch(c, j)
             /\ UNCHANGED faults
  /\ UNCHANGED <<job, work, world, history>>

\* The container exits and is removed; the docker client of the call that
\* started it, if that is still served, sees the exit code.
Exits(j, result) ==
  /\ box' = [box EXCEPT ![j] = NoBox]
  /\ IF box[j].by = NoOne THEN UNCHANGED call ELSE Ends(box[j].by, result)

\* Mutant: the entry point does not compare the digest of the sources.
AnySource(j) == workspace # "removed"

\* verify_manifest, verify_source_snapshot on the sources and on the copy.
Verified(j) ==
  workspace # "removed" /\ job[j].snapshot \in {NoSnapshot, content}

Boot(j) ==
  /\ box[j].at = "booting"
  /\ IF Verified(j)
     THEN /\ box' = [box EXCEPT ![j] = [@ EXCEPT !.at = "running", !.source = content]]
          /\ UNCHANGED <<call, failed>>
     ELSE Exits(j, "failed") /\ failed' = failed \union {j}
  /\ UNCHANGED <<job, work, world, passed, enqueued, faults>>

CommandEnds(j) ==
  /\ box[j].at = "running"
  /\ \/ /\ Exits(j, "completed")
        /\ passed' = [passed EXCEPT ![j] = @ \union {box[j].source}]
        /\ UNCHANGED failed
     \/ /\ Exits(j, "failed")
        /\ failed' = failed \union {j}
        /\ UNCHANGED passed
  /\ UNCHANGED <<job, work, world, enqueued, faults>>

\* docker rm -f by the job's name.  It removes the container, or docker does
\* not answer and the container stays.
Remove(j) ==
  /\ box' = [box EXCEPT ![j] = NoBox]
  /\ UNCHANGED faults
DockerFails == faults.hiccups < MaxHiccups /\ Use("hiccups")

\* docker run ends without an exit of its container: another call removed
\* that, or the timeout of the job passed.  Then the container is removed, and
\* an error of that removal is final even if the second one succeeds; what
\* its container does later is no longer seen.
Interrupted(c) ==
  /\ call[c].phase = "running"
  /\ IF box[call[c].job].by # c THEN Ends(c, "failed") /\ UNCHANGED <<box, faults>>
     ELSE \/ Remove(call[c].job) /\ Ends(c, "timed_out")
          \/ /\ DockerFails /\ Ends(c, "cleanup_uncertain")
             /\ box' = [box EXCEPT ![call[c].job].by = NoOne]
  /\ UNCHANGED <<job, work, world, history>>

\* Mutant: a container that could not be removed is not reported.
AlwaysConfirmed(result) == result

\* The result when the removal is not confirmed.
Unconfirmed(result) == "cleanup_uncertain"

Cleanup(c) ==
  /\ call[c].phase = "ended"
  /\ \/ Remove(call[c].job) /\ Replies(c, call[c].result)
     \/ DockerFails /\ UNCHANGED box /\ Replies(c, Unconfirmed(call[c].result))
  /\ UNCHANGED <<job, work, world, history>>

\* The reply finds no reader: the handler removes the container again and
\* gives up the slot.
ReplyFails(c) ==
  /\ call[c].phase = "replied" /\ call[c].client = NoOne
  /\ box' = [box EXCEPT ![call[c].job] =
               IF call[c].result \in {"busy", "rejected"} THEN @ ELSE NoBox]
  /\ call' = [call EXCEPT ![c] = NoCall]
  /\ UNCHANGED <<job, work, world, history, faults>>

\* runnerd restarts.  Its handlers are daemon threads and vanish; a container
\* lives on without the timeout unless its docker client took it along.
DaemonRestarts ==
  /\ faults.restarts < MaxRestarts /\ Use("restarts")
  /\ call' = [c \in Call |-> NoCall]
  /\ \E surviving \in SUBSET Job :
       box' = [j \in Job |-> IF j \in surviving /\ box[j] # NoBox
                             THEN [box[j] EXCEPT !.by = NoOne] ELSE NoBox]
  /\ UNCHANGED <<job, work, world, history>>

----------------------------------------------------------------------------
(* The rest of the system                                                   *)

RunChanges(status) ==
  /\ <<run, status>> \in {<<"running", "completed">>, <<"running", "cancelling">>,
                          <<"running", "ended">>, <<"cancelling", "ended">>}
  /\ run' = status
  /\ UNCHANGED <<job, work, call, box, trusted, workspace, content, history, faults>>

TrustRevoked ==
  /\ trusted /\ trusted' = FALSE
  /\ UNCHANGED <<job, work, call, box, run, workspace, content, history, faults>>

WorkspaceChanges(status) ==
  /\ run \in {"completed", "ended"}
  /\ <<workspace, status>> \in {<<"ready", "inspecting">>, <<"inspecting", "retained">>,
                                <<"inspecting", "removed">>, <<"retained", "removed">>}
  /\ workspace' = status
  /\ UNCHANGED <<job, work, call, box, run, trusted, content, history, faults>>

SourcesEdited ==
  /\ run \in {"running", "cancelling"} /\ content < MaxEdits
  /\ content' = content + 1
  /\ UNCHANGED <<job, work, call, box, run, trusted, workspace, history, faults>>

ManagerStep(t) ==
  \/ Authorize(t) \/ ConnectRefused(t) \/ HungUp(t) \/ SocketBreaks(t) \/ Record(t)
  \/ \E c \in Call : Send(t, c) \/ Receive(t, c)

DaemonStep(c) == Accept(c) \/ Interrupted(c) \/ Cleanup(c) \/ ReplyFails(c)

Environment ==
  \/ \E status \in {"completed", "cancelling", "ended"} : RunChanges(status)
  \/ \E status \in {"inspecting", "retained", "removed"} : WorkspaceChanges(status)
  \/ TrustRevoked \/ SourcesEdited

Next ==
  \/ \E j \in Job, snapshot \in {NoSnapshot, content} : Enqueue(j, snapshot)
  \/ \E t \in Thread, j \in Job : Claim(t, j)
  \/ \E t \in Thread : ManagerStep(t)
  \/ \E c \in Call : DaemonStep(c)
  \/ \E j \in Job : Boot(j) \/ CommandEnds(j) \/ LeaseExpires(j)
  \/ Crash \/ DaemonRestarts \/ Environment

Spec == Init /\ [][Next]_vars

\* The manager's loop claims every due job and drives its threads, runnerd
\* ends every container by its timeout, and leases expire with time.  Nothing
\* makes a command end, an orphaned container stop or a run change.
Fairness ==
  /\ \A j \in Job : SF_vars(\E t \in Thread : Claim(t, j))
  /\ \A t \in Thread : WF_vars(ManagerStep(t))
  /\ \A c \in Call : WF_vars(DaemonStep(c))
  /\ \A j \in Job : WF_vars(~Busy(j) /\ LeaseExpires(j))

FairSpec == Spec /\ Fairness

----------------------------------------------------------------------------
(* Properties                                                               *)

TypeOK ==
  /\ job \in [Job -> Row]
  /\ work \in [Thread -> Work]
  /\ call \in [Call -> Request]
  /\ box \in [Job -> Box]
  /\ run \in {"running", "cancelling", "completed", "ended"}
  /\ trusted \in BOOLEAN
  /\ workspace \in {"ready", "inspecting", "retained", "removed"}
  /\ content \in Source
  /\ passed \in [Job -> SUBSET Source] /\ failed \subseteq Job
  /\ enqueued \in [Job -> {"ready", "inspecting", "retained"}]
  /\ faults \in [crashes : 0..MaxCrashes, restarts : 0..MaxRestarts,
                 hiccups : 0..MaxHiccups, preemptions : 0..MaxPreemptions]

\* A completed job is proven: its command exited 0, and for a checkpoint job
\* it did so on the very sources whose digest was enqueued, whatever edits,
\* lost replies, repeated sandboxes and restarts happened in between.
CompletedIsProven ==
  \A j \in Job : job[j].status = "completed" =>
    IF job[j].snapshot = NoSnapshot THEN passed[j] # {} ELSE job[j].snapshot \in passed[j]

\* A job recorded as completed, failed or timed out (cleanup_confirmed = TRUE)
\* has no container left, even when an earlier generation left one behind.
ConfirmedIsGone ==
  \A j \in Job : job[j].status \in Confirmed => box[j] = NoBox

\* A job never has two requests inside runnerd at once: a lost reply or a
\* crash of the manager does not lead to a second sandbox while the first is
\* still served ("wait for lease expiry" in process_runner_job).
NoDuplicateSandbox ==
  \A j \in Job : Cardinality({c \in InSlots : call[c].job = j}) <= 1

\* A settled job is never changed again: no late reply, expired lease or
\* second claim overwrites a recorded result.
JobIsFinal ==
  [][/\ TRUE
     /\ \A j \in Job : job[j].status \in Settled => job'[j] = job[j]]_vars

\* Every job that was enqueued is eventually settled: a busy daemon, a lost
\* reply, a crashed manager or a restarted daemon only delays it.
JobSettles == \A j \in Job : job[j].status = "queued" ~> job[j].status \in Settled

\* docs/G3_DURABLE_RUNNER_JOBS.md: "rejected" is used when the side effect
\* was not authorised; no container of a rejected job is left.
RejectedNeverRan == \A j \in Job : job[j].status = "rejected" => box[j] = NoBox

\* docs/G3_DURABLE_RUNNER_JOBS.md: a job is enqueued only while its workspace
\* is ready.
EnqueuedWhileReady == \A j \in Job : enqueued[j] = "ready"

=============================================================================
