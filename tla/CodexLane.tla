----------------------------- MODULE CodexLane ------------------------------
(***************************************************************************)
(* A run of the Codex subscription lane: the broker routes of the control  *)
(* plane (codex_broker.py), cancellation (abort_execution of main.py) and  *)
(* the subscription workers (scripts/codex_execution_worker.py), which     *)
(* claim the run, verify its workspace, let a model play three roles and   *)
(* report each.  A request may be handled after its worker stopped waiting *)
(* for it, and a reply may be lost.                                        *)
(***************************************************************************)
EXTENDS Integers, FiniteSets

CONSTANTS
  Worker,       \* subscription workers
  MaxCrashes,   \* bound: workers killed with their containers
  MaxTimeouts,  \* bound: requests given up by a worker
  MaxDisturbs,  \* bound: revoked trust, changed bindings and trees
  Punctual      \* TRUE: no request is under way for as long as a lease lasts

ASSUME LaneBounds ==
  {MaxCrashes, MaxTimeouts, MaxDisturbs} \subseteq Nat /\ Punctual \in BOOLEAN

VARIABLES
  run,      \* the row of execution_runs
  reports,  \* the outcome recorded for each role
  world,    \* trust in the repository, the recorded binding, the tree, the clock
  work,     \* what each worker does, for which generation and role
  call,     \* the request each worker waits for
  late,     \* requests nobody waits for any more
  faults    \* how often workers crashed, gave up, or the world changed

vars == <<run, reports, world, work, call, late, faults>>

Role == {"architect", "qa", "reviewer"}
After == [architect |-> "qa", qa |-> "reviewer", reviewer |-> "done"]
Before(role) ==
  CASE role = "architect" -> {} [] role = "qa" -> {"architect"}
    [] OTHER -> {"architect", "qa"}

Outcome == {"none", "completed", "execution_failed", "workspace_failed"}
Answer == {"none", "claimed", "ok", "ended", "refused"}

\* The row, what a worker does, a request it waits for, and one nobody waits for.
Row == [status : {"queued", "running", "completed", "failed", "cancelled"},
        stage : Role \union {"dispatch_pending", "codex_preflight_pending",
                             "cancel_requested", "settled"},
        gen : 0..3, held : BOOLEAN, live : BOOLEAN, verified : BOOLEAN, cancel : BOOLEAN]
Job == [at : {"down", "poll", "claiming", "verify", "acknowledging", "enter", "entering",
              "model", "beating", "report", "reporting"},
        gen : 0..3, role : Role, outcome : Outcome]
Call == [op : {"none", "claim", "preflight", "heartbeat", "phase"}, gen : 0..3, role : Role,
         outcome : Outcome, answer : Answer \union {"pending"}]
Stray == {c \in Call : c.op # "none" /\ c.answer = "pending"}

Settled == run.status \in {"completed", "failed", "cancelled"}
NoCall == [op |-> "none", gen |-> 0, role |-> "architect", outcome |-> "none", answer |-> "none"]
Resting == [at |-> "poll", gen |-> 0, role |-> "architect", outcome |-> "none"]
Down == [Resting EXCEPT !.at = "down"]

Init ==
  /\ run = [status |-> "queued", stage |-> "dispatch_pending", gen |-> 0, held |-> FALSE,
            live |-> FALSE, verified |-> FALSE, cancel |-> FALSE]
  /\ reports = [r \in Role |-> "none"]
  /\ world = [trusted |-> TRUE, bound |-> TRUE, clean |-> TRUE, overdue |-> FALSE]
  /\ work = [w \in Worker |-> Down] /\ call = [w \in Worker |-> NoCall] /\ late = {}
  /\ faults = [crashes |-> 0, timeouts |-> 0, disturbs |-> 0]

Use(fault) == faults' = [faults EXCEPT ![fault] = @ + 1]

----------------------------------------------------------------------------
(* The broker.  Each handler is one transaction on the row's lock and ends  *)
(* with its answer.                                                         *)

Verdict == IF run.cancel THEN "cancelled" ELSE "failed"

\* terminal
Finished(status) ==
  [run EXCEPT !.status = status, !.stage = "settled", !.gen = @ + 1,
              !.held = FALSE, !.live = FALSE]

Pending == run.status = "queued" /\ run.stage = "codex_preflight_pending"

\* Mutant: an expired run goes back to the queue.
Requeued == [run EXCEPT !.status = "queued", !.stage = "dispatch_pending", !.held = FALSE,
                        !.verified = FALSE]

Swept == Finished(Verdict)

\* Mutant: a claim whose workspace is being verified is left to its worker.
ExpiredRunning == run.status = "running" /\ ~run.live

Expired == (run.status = "running" \/ Pending) /\ ~run.live

Claimable == run.status = "queued" /\ run.stage = "dispatch_pending" /\ ~run.held

HandleClaim(c, answer) ==
  /\ IF Expired THEN run' = Swept /\ answer = "none"
     ELSE IF ~Claimable THEN UNCHANGED run /\ answer = "none"
     ELSE IF world.overdue \/ ~world.trusted \/ ~world.bound
          THEN run' = Finished(Verdict) /\ answer = "none"
     ELSE /\ run' = [run EXCEPT !.gen = @ + 1, !.held = TRUE, !.live = TRUE,
                                !.stage = "codex_preflight_pending"]
          /\ answer = "claimed"
  /\ UNCHANGED reports

\* owned: the row is the request's, in one of the states the route allows.
Holds(c, states) == states /\ run.held /\ run.gen = c.gen

\* The lease or the deadline has passed, or the run was cancelled.
Lapsed == run.cancel \/ world.overdue \/ ~run.live

\* What owned leaves of a request that does not hold the row.
Refused(c, states, answer) ==
  /\ run' = IF Holds(c, states) /\ Lapsed THEN Finished(Verdict) ELSE run
  /\ answer = "refused" /\ UNCHANGED reports

Trusted == world.bound /\ world.trusted

HandlePreflight(c, answer) ==
  IF ~Holds(c, Pending) \/ Lapsed THEN Refused(c, Pending, answer)
  ELSE /\ IF ~Trusted \/ run.verified THEN UNCHANGED run /\ answer = "refused"
          ELSE /\ run' = [run EXCEPT !.verified = TRUE, !.status = "running",
                                     !.stage = "architect", !.live = TRUE]
               /\ answer = "ok"
       /\ UNCHANGED reports

HandleBeat(c, answer) ==
  LET active == run.status = "running" \/ Pending
  IN IF ~Holds(c, active) \/ Lapsed THEN Refused(c, active, answer)
     ELSE run' = [run EXCEPT !.live = TRUE] /\ answer = "ok" /\ UNCHANGED reports

Last(role) == role = "reviewer"

\* What a report that holds the row does to it.
Reported(c) ==
  IF ~world.trusted \/ c.outcome # "completed" THEN Finished("failed")
  ELSE IF Last(c.role) THEN [run EXCEPT !.status = "completed", !.stage = "settled",
                                        !.held = FALSE, !.live = FALSE]
  ELSE [run EXCEPT !.stage = After[c.role], !.live = TRUE]

HandlePhase(c, answer) ==
  LET running == run.status = "running"
  IN IF ~Holds(c, running) \/ Lapsed THEN Refused(c, running, answer)
     ELSE IF run.stage # c.role \/ ~world.bound
     THEN answer = "refused" /\ UNCHANGED <<run, reports>>
     ELSE /\ run' = Reported(c)
          /\ reports' = IF world.trusted THEN [reports EXCEPT ![c.role] = c.outcome] ELSE reports
          /\ answer = IF run'.status = "running" THEN "ok" ELSE "ended"

Handles(c, answer) ==
  \/ c.op = "claim" /\ HandleClaim(c, answer)
  \/ c.op = "preflight" /\ HandlePreflight(c, answer)
  \/ c.op = "heartbeat" /\ HandleBeat(c, answer)
  \/ c.op = "phase" /\ HandlePhase(c, answer)

Handle(w) ==
  /\ call[w].op # "none" /\ call[w].answer = "pending"
  /\ \E answer \in Answer :
       /\ Handles(call[w], answer)
       /\ call' = [call EXCEPT ![w].answer = answer, ![w].gen = run'.gen]
  /\ UNCHANGED <<world, work, late, faults>>

HandleLate(c) ==
  /\ c \in late /\ late' = late \ {c}
  /\ \E answer \in Answer : Handles(c, answer)
  /\ UNCHANGED <<world, work, call, faults>>

Lose(c) ==
  /\ c \in late /\ late' = late \ {c}
  /\ UNCHANGED <<run, reports, world, work, call, faults>>

----------------------------------------------------------------------------
(* Cancellation                                                             *)

\* The model may still be running: the run waits for its lease to end.
Fenced == [run EXCEPT !.cancel = TRUE, !.stage = "cancel_requested", !.gen = @ + 1]

\* Mutant: a run that has ended is cancelled too.
Always == ~run.cancel

Cancellable == ~Settled /\ ~run.cancel

\* abort_execution
Abort ==
  /\ Cancellable
  /\ run' = IF run.status = "queued" THEN [Finished("cancelled") EXCEPT !.cancel = TRUE]
            ELSE Fenced
  /\ UNCHANGED <<reports, world, work, call, late, faults>>

----------------------------------------------------------------------------
(* The worker: main, acknowledge_preflight, run_phase                       *)

Inferring(w) == work[w].at \in {"model", "beating"}

Goes(w, at) == work' = [work EXCEPT ![w].at = at]
Sends(w, op, at) ==
  /\ Goes(w, at)
  /\ call' = [call EXCEPT ![w] = [op |-> op, gen |-> work[w].gen, role |-> work[w].role,
                                  outcome |-> work[w].outcome, answer |-> "pending"]]
Ends(w, outcome) == work' = [work EXCEPT ![w].at = "report", ![w].outcome = outcome]

\* The answer a worker acts on: the broker's, or none in ten seconds.
Gets(w, answer) ==
  /\ call' = [call EXCEPT ![w] = NoCall]
  /\ \/ /\ call[w].answer = answer /\ answer # "pending"
        /\ UNCHANGED <<late, faults>>
     \/ /\ answer = "lost" /\ faults.timeouts < MaxTimeouts /\ Use("timeouts")
        /\ late' = IF call[w].answer = "pending" THEN late \union {call[w]} ELSE late

Quiet == UNCHANGED <<call, late, faults>>
Replies == Answer \union {"lost"}

Poll(w) == work[w].at = "poll" /\ Sends(w, "claim", "claiming") /\ UNCHANGED <<late, faults>>

\* A claim that fails ends the worker: only the acknowledgement is guarded.
TakeClaim(w) ==
  /\ work[w].at = "claiming"
  /\ \E answer \in Replies :
       /\ Gets(w, answer)
       /\ work' = [work EXCEPT ![w] =
            IF answer = "lost" THEN Down
            ELSE IF answer = "claimed"
            THEN [Resting EXCEPT !.at = "verify", !.gen = call[w].gen] ELSE Resting]

\* acknowledge_preflight; a workspace that is not what it was is not claimed.
Verify(w) ==
  /\ work[w].at = "verify"
  /\ IF world.clean THEN Sends(w, "preflight", "acknowledging") /\ UNCHANGED <<late, faults>>
     ELSE work' = [work EXCEPT ![w] = Resting] /\ Quiet

\* Mutant: the answer to the acknowledgement is not looked at.
AcknowledgeBlindly(w) ==
  /\ work[w].at = "acknowledging"
  /\ \E answer \in Replies : Gets(w, answer)
  /\ Goes(w, "enter")

Acknowledge(w) ==
  /\ work[w].at = "acknowledging"
  /\ \E answer \in Replies :
       /\ Gets(w, answer)
       /\ work' = [work EXCEPT ![w] = IF answer = "ok" THEN [@ EXCEPT !.at = "enter"] ELSE Resting]

\* A phase checks the workspace and the login, then renews the lease.
Enter(w) ==
  /\ work[w].at = "enter"
  /\ \/ world.clean /\ Sends(w, "heartbeat", "entering") /\ UNCHANGED <<late, faults>>
     \/ Ends(w, "workspace_failed") /\ Quiet

\* The model is started on a lease just renewed and on whole earlier reports.
StartModel(w) ==
  /\ work[w].at = "entering"
  /\ \E answer \in Replies :
       Gets(w, answer) /\ IF answer = "ok" THEN Goes(w, "model") ELSE Ends(w, "workspace_failed")

Beat(w) ==
  /\ work[w].at = "model" /\ ~world.overdue
  /\ Sends(w, "heartbeat", "beating") /\ UNCHANGED <<late, faults>>

\* A refused heartbeat stops the process group.
KeepGoing(w) ==
  /\ work[w].at = "beating"
  /\ \E answer \in Replies :
       Gets(w, answer) /\ IF answer = "ok" THEN Goes(w, "model") ELSE Ends(w, "workspace_failed")

\* The model ends, or is stopped at the deadline; then the tree is verified.
Finish(w) ==
  /\ work[w].at = "model"
  /\ \/ world.clean /\ ~world.overdue /\ Ends(w, "completed")
     \/ Ends(w, "execution_failed")
  /\ Quiet

Report(w) == work[w].at = "report" /\ Sends(w, "phase", "reporting") /\ UNCHANGED <<late, faults>>

\* A refused report is an HTTPError that main does not catch.
Reports(w) ==
  /\ work[w].at = "reporting"
  /\ \E answer \in Replies :
       /\ Gets(w, answer)
       /\ work' = [work EXCEPT ![w] =
            IF answer = "ok" THEN [@ EXCEPT !.at = "enter", !.role = After[work[w].role],
                                           !.outcome = "none"]
            ELSE IF answer = "ended" THEN Resting ELSE Down]

WorkerStep(w) ==
  /\ \/ Poll(w) \/ TakeClaim(w) \/ Verify(w) \/ Acknowledge(w) \/ Enter(w) \/ StartModel(w)
     \/ Beat(w) \/ KeepGoing(w) \/ Finish(w) \/ Report(w) \/ Reports(w)
  /\ UNCHANGED <<run, reports, world>>

\* An operator provides a token and starts the worker.
StartWorker(w) ==
  /\ work[w] = Down /\ work' = [work EXCEPT ![w] = Resting]
  /\ UNCHANGED <<run, reports, world, call, late, faults>>

\* The container is killed, its model with it; its request may be under way.
Crash(w) ==
  /\ work[w] # Down /\ faults.crashes < MaxCrashes /\ Use("crashes")
  /\ work' = [work EXCEPT ![w] = Down] /\ call' = [call EXCEPT ![w] = NoCall]
  /\ late' = IF call[w].answer = "pending" THEN late \union {call[w]} ELSE late
  /\ UNCHANGED <<run, reports, world>>

----------------------------------------------------------------------------
(* The world                                                                *)

Disturb ==
  /\ faults.disturbs < MaxDisturbs /\ Use("disturbs")
  /\ \E part \in {"trusted", "bound", "clean"} :
       world[part] /\ world' = [world EXCEPT ![part] = FALSE]
  /\ UNCHANGED <<run, reports, work, call, late>>

DeadlinePasses ==
  /\ ~world.overdue /\ world' = [world EXCEPT !.overdue = TRUE]
  /\ UNCHANGED <<run, reports, work, call, late, faults>>

Working == \E w \in Worker : work[w].gen = run.gen /\ work[w].at # "poll"

LeaseEnds ==
  /\ run.live /\ (Punctual => late = {})
  /\ run' = [run EXCEPT !.live = FALSE]
  /\ UNCHANGED <<reports, world, work, call, late, faults>>

Next ==
  \/ \E w \in Worker : Handle(w) \/ WorkerStep(w) \/ StartWorker(w) \/ Crash(w)
  \/ \E c \in late : HandleLate(c) \/ Lose(c)
  \/ Abort \/ Disturb \/ DeadlinePasses \/ LeaseEnds

Spec == Init /\ [][Next]_vars

\* Workers that run go on, the broker answers, and time passes: a lease that
\* nobody renews ends.
UnattendedSpec ==
  /\ Spec
  /\ \A w \in Worker : WF_vars(WorkerStep(w)) /\ WF_vars(Handle(w))
  /\ WF_vars(DeadlinePasses) /\ WF_vars(~Working /\ LeaseEnds)

\* An operator also restarts the workers that ended.
FairSpec == UnattendedSpec /\ \A w \in Worker : WF_vars(StartWorker(w))

----------------------------------------------------------------------------
(* Properties                                                               *)

TypeOK ==
  /\ run \in Row
  /\ reports \in [Role -> Outcome]
  /\ world \in [trusted : BOOLEAN, bound : BOOLEAN, clean : BOOLEAN, overdue : BOOLEAN]
  /\ work \in [Worker -> Job] /\ call \in [Worker -> Call] /\ late \subseteq Stray
  /\ faults \in [crashes : 0..MaxCrashes, timeouts : 0..MaxTimeouts, disturbs : 0..MaxDisturbs]

\* A run's model never runs twice at once, whatever leases expire and
\* whatever requests arrive late: a claim that may have started one is never
\* given to another worker.
OneInference == Cardinality({w \in Worker : Inferring(w)}) <= 1

\* The model runs only for a run whose workspace this worker acknowledged
\* and the broker verified, with every earlier role's report recorded.
InferenceIsBacked ==
  \A w \in Worker : Inferring(w) =>
    run.verified /\ \A r \in Before(work[w].role) : reports[r] = "completed"

\* A settled run is never written again, by a late request or a late cancel.
SettledIsFinal == [][Settled => UNCHANGED <<run, reports>>]_vars

\* A run is not recorded as cancelled while its model runs: its one worker
\* stops the model before it claims again, killed and restarted or not.
CancelledHasStopped == run.status = "cancelled" => \A w \in Worker : ~Inferring(w)

\* A cancelled run is settled by the next claims.
CancelSettles == run.cancel ~> Settled

\* Every run is settled: through crashes, lost replies, late requests and
\* changed workspaces.
RunSettles == <>Settled

=============================================================================
