--------------------------- MODULE CheckpointGate ---------------------------
(***************************************************************************)
(* The runner gate of the execution worker (execution_worker.py): what a   *)
(* poll does with the idle lead's last reply.  A standalone checkpoint is  *)
(* turned into durable runner jobs bound to a digest of the sources, and   *)
(* their results go back to the lead as evidence; a checkpoint wrapped in  *)
(* text is asked for again; a final answer over changed sources is let     *)
(* through only with a successful checkpoint for exactly those sources.    *)
(*                                                                         *)
(* The jobs of one checkpoint are created in one transaction and settle as *)
(* RunnerJobs says; here they are one group that succeeds or fails.        *)
(* Sources are numbered, 0 is the base commit.                             *)
(***************************************************************************)
EXTENDS Integers, FiniteSets

CONSTANTS
  Worker,        \* execution workers
  Commands,      \* what a checkpoint asks to run
  MaxSource,     \* bound: versions of the sources besides the base
  MaxReplies,    \* bound: replies of the lead
  MaxCycles,     \* RUNNER_CHECKPOINT_MAX_CYCLES
  MaxTakeovers,  \* bound: leases lost to another worker
  MaxHiccups,    \* bound: failing or unanswered prompts
  MaxStrays,     \* bound: edits while the lead is idle
  Disturbances   \* which of "revoke", "damage", "deadline" may happen

ASSUME GateConstants ==
  /\ Worker # {} /\ Commands # {}
  /\ {MaxSource, MaxReplies, MaxCycles, MaxTakeovers, MaxHiccups, MaxStrays} \subseteq Nat
  /\ Disturbances \subseteq {"revoke", "damage", "deadline"}

VARIABLES
  run,       \* status of the run, and the code it failed with
  owner,     \* the worker whose lease is current
  poll,      \* where each worker's poll stands
  lead,      \* the lead: busy or not, the prompt it answers, its last reply
  sent,      \* how often OpenCode accepted each prompt
  jobs,      \* the job group of each checkpoint digest
  content,   \* the sources in the workspace
  intact,    \* the workspace's identity can be verified
  trusted,   \* the repository is enabled and ready
  faults     \* takeovers, hiccups and stray edits so far

vars == <<run, owner, poll, lead, sent, jobs, content, intact, trusted, faults>>

Source == 0..MaxSource
Message == 0..MaxReplies
Digest == [message : Message, source : Source]
Kind == {"none", "final", "checkpoint", "wrapped", "malformed"}
Code == {"checkpoint_rejected", "snapshot_rejected", "snapshot_drift", "trust_rejected",
         "completion_rejected", "validation_missing", "format_repeated", "format_conflict"}
Reply == [id : Message, kind : Kind, commands : Commands]

\* The messages the gate sends have ids made of these.
Task == <<"task">>
Evidence(d) == <<"evidence", d.message, d.source>>
Required(source) == <<"required", source>>
Format(source, commands) == <<"format", source, commands>>
Prompt ==
  {Evidence(d) : d \in Digest} \union {Required(s) : s \in Source}
    \union {Format(s, c) : s \in Source, c \in Commands}

Poll == [at : {"rest", "digest", "ensure", "rows", "recheck", "prompt", "gate", "apply",
               "repair"},
         source : Source, prompt : Prompt \union {Task}]
Lead == [busy : BOOLEAN, parent : Prompt \union {Task}, reply : Reply]
Resting == [at |-> "rest", source |-> 0, prompt |-> Task]

Init ==
  /\ run = "running"
  /\ owner \in Worker
  /\ poll = [w \in Worker |-> Resting]
  /\ lead = [busy |-> TRUE, parent |-> Task,
             reply |-> [id |-> 0, kind |-> "none", commands |-> CHOOSE c \in Commands : TRUE]]
  /\ sent = [p \in Prompt |-> 0]
  /\ jobs = [d \in Digest |-> "none"]
  /\ content = 0 /\ intact = TRUE /\ trusted = TRUE
  /\ faults = [takeovers |-> 0, hiccups |-> 0, strays |-> 0]

world == <<content, intact, trusted, faults>>

----------------------------------------------------------------------------
(* One poll of the worker                                                   *)

Owned(w) == owner = w /\ run = "running"

Goes(w, at, source, prompt) ==
  poll' = [poll EXCEPT ![w] = [at |-> at, source |-> source, prompt |-> prompt]]
Rests(w) == poll' = [poll EXCEPT ![w] = Resting]

\* _fail_runner_gate
Fails(w, code) == Rests(w) /\ run' = (IF Owned(w) THEN code ELSE run)

\* The poll that sees the lead idle with a reply, and parses it.
Observe(w) ==
  LET kind == lead.reply.kind IN
  /\ Owned(w) /\ poll[w] = Resting
  /\ ~lead.busy /\ kind # "none"
  /\ IF kind = "malformed" THEN Fails(w, "checkpoint_rejected")
     ELSE Goes(w, CASE kind = "checkpoint" -> "digest"
                    [] kind = "wrapped" -> "repair"
                    [] kind = "final" -> "gate", 0, Task) /\ UNCHANGED run
  /\ UNCHANGED <<owner, lead, sent, jobs, world>>

\* _checkpoint_workspace_snapshot, before the jobs are created.
TakeDigest(w) ==
  /\ poll[w].at = "digest"
  /\ IF intact THEN Goes(w, "ensure", content, Task) /\ UNCHANGED run
     ELSE Fails(w, "checkpoint_rejected")
  /\ UNCHANGED <<owner, lead, sent, jobs, world>>

DigestOf(w) == [message |-> lead.reply.id, source |-> poll[w].source]
Known == {d \in Digest : jobs[d] # "none"}

CycleLimit(d) == d \notin Known /\ Cardinality(Known) >= MaxCycles

\* _ensure_runner_checkpoint_jobs: one transaction under the locks of the
\* repository, the run and the workspace.
Ensure(w) ==
  LET d == DigestOf(w) IN
  /\ poll[w].at = "ensure"
  /\ IF ~Owned(w) \/ ~trusted \/ CycleLimit(d)
     THEN Fails(w, "checkpoint_rejected") /\ UNCHANGED jobs
     ELSE /\ jobs' = [jobs EXCEPT ![d] = IF @ = "none" THEN "pending" ELSE @]
          /\ Goes(w, "rows", d.source, Evidence(d))
          /\ UNCHANGED run
  /\ UNCHANGED <<owner, lead, sent, world>>

\* Mutant: a group whose jobs failed is waited for.
WaitsForSuccess(d) == jobs[d] # "success"

Waits(d) == jobs[d] = "pending"

\* The rows of the group: the poll waits until every job is terminal.
ReadRows(w) ==
  /\ poll[w].at = "rows"
  /\ IF Waits([message |-> poll[w].prompt[2], source |-> poll[w].source])
     THEN Rests(w)
     ELSE Goes(w, "recheck", poll[w].source, poll[w].prompt)
  /\ UNCHANGED <<run, owner, lead, sent, jobs, world>>

\* Mutant: the poll does not look for a message it may have sent before.
NeverThere(p) == FALSE

There(p) == sent[p] > 0

\* The second digest, and the evidence message of an earlier poll.
Recheck(w) ==
  /\ poll[w].at = "recheck"
  /\ IF ~intact THEN Fails(w, "snapshot_rejected")
     ELSE IF content # poll[w].source THEN Fails(w, "snapshot_drift")
     ELSE IF There(poll[w].prompt) THEN Rests(w) /\ UNCHANGED run
     ELSE Goes(w, "prompt", poll[w].source, poll[w].prompt) /\ UNCHANGED run
  /\ UNCHANGED <<owner, lead, sent, jobs, world>>

Accepts(p) ==
  /\ sent' = [sent EXCEPT ![p] = IF @ < 2 THEN @ + 1 ELSE @]
  /\ lead' = [lead EXCEPT !.busy = TRUE, !.parent = p]

\* _prompt_running_with_repository_trust_gate: under the locks of the
\* repository and the run the prompt is accepted, its reply lost or not.
SendPrompt(w) ==
  /\ poll[w].at = "prompt"
  /\ IF Owned(w) /\ trusted
     THEN Accepts(poll[w].prompt) /\ Rests(w) /\ UNCHANGED run
     ELSE Fails(w, "trust_rejected") /\ UNCHANGED <<sent, lead>>
  /\ UNCHANGED <<owner, jobs, world>>

\* The prompt fails and is not accepted; the poll is repeated.
PromptFails(w) ==
  /\ poll[w].at = "prompt" /\ faults.hiccups < MaxHiccups
  /\ faults' = [faults EXCEPT !.hiccups = @ + 1]
  /\ Rests(w)
  /\ UNCHANGED <<run, owner, lead, sent, jobs, content, intact, trusted>>

\* Mutant: any successful checkpoint of the run counts.
EverValidated(source) == \E d \in Digest : jobs[d] = "success"

\* _snapshot_has_successful_checkpoint
Validated(source) == \E d \in Digest : d.source = source /\ jobs[d] = "success"

\* _require_runner_validation_before_completion
Gate(w) ==
  /\ poll[w].at = "gate"
  /\ IF ~intact THEN Fails(w, "completion_rejected")
     ELSE IF content = 0 \/ Validated(content)
          THEN Goes(w, "apply", content, Task) /\ UNCHANGED run
     ELSE IF ~There(Required(content))
          THEN Goes(w, "prompt", content, Required(content)) /\ UNCHANGED run
     ELSE IF lead.parent = Required(content)
          THEN Fails(w, "validation_missing")
     ELSE Rests(w) /\ UNCHANGED run
  /\ UNCHANGED <<owner, lead, sent, jobs, world>>

\* apply_observation of an idle session with a result.
Apply(w) ==
  /\ poll[w].at = "apply"
  /\ Fails(w, "completed")
  /\ UNCHANGED <<owner, lead, sent, jobs, world>>

\* _repair_wrapped_runner_checkpoint
Repair(w) ==
  LET p == Format(content, lead.reply.commands) IN
  /\ poll[w].at = "repair"
  /\ IF ~intact THEN Fails(w, "checkpoint_rejected")
     ELSE IF ~There(p) THEN Goes(w, "prompt", content, p) /\ UNCHANGED run
     ELSE Fails(w, IF lead.parent = p THEN "format_repeated" ELSE "format_conflict")
  /\ UNCHANGED <<owner, lead, sent, jobs, world>>

----------------------------------------------------------------------------
(* The lead, the runner jobs and the rest of the system                     *)

Edit ==
  /\ \/ lead.busy /\ UNCHANGED faults
     \/ ~lead.busy /\ faults.strays < MaxStrays
          /\ faults' = [faults EXCEPT !.strays = @ + 1]
  /\ \E source \in Source \ {content} : content' = source
  /\ UNCHANGED <<run, owner, poll, lead, sent, jobs, intact, trusted>>

Answer ==
  /\ lead.busy /\ lead.reply.id < MaxReplies
  /\ \E kind \in Kind \ {"none"}, c \in Commands :
       lead' = [lead EXCEPT !.busy = FALSE,
                            !.reply = [id |-> @.id + 1, kind |-> kind, commands |-> c]]
  /\ UNCHANGED <<run, owner, poll, sent, jobs, world>>

\* A group succeeds only over its own sources (RunnerJobs!CompletedIsProven).
JobsEnd(d) ==
  /\ jobs[d] = "pending"
  /\ \E result \in {"success", "failure"} :
       /\ result = "success" => content = d.source
       /\ jobs' = [jobs EXCEPT ![d] = result]
  /\ UNCHANGED <<run, owner, poll, lead, sent, world>>

\* The lease passes to another worker, after a crash of the first or a pause.
TakeOver(w) ==
  /\ owner # w /\ run = "running" /\ faults.takeovers < MaxTakeovers
  /\ owner' = w
  /\ faults' = [faults EXCEPT !.takeovers = @ + 1]
  /\ Rests(w)
  /\ UNCHANGED <<run, lead, sent, jobs, content, intact, trusted>>

Disturb ==
  /\ \/ "revoke" \in Disturbances /\ trusted /\ trusted' = FALSE /\ UNCHANGED <<run, intact>>
     \/ "damage" \in Disturbances /\ intact /\ intact' = FALSE /\ UNCHANGED <<run, trusted>>
     \/ /\ "deadline" \in Disturbances /\ run = "running"
        /\ run' = "timed_out"
        /\ UNCHANGED <<intact, trusted>>
  /\ UNCHANGED <<owner, poll, lead, sent, jobs, content, faults>>

PollStep(w) ==
  \/ Observe(w) \/ TakeDigest(w) \/ Ensure(w) \/ ReadRows(w) \/ Recheck(w)
  \/ SendPrompt(w) \/ PromptFails(w) \/ Gate(w) \/ Apply(w) \/ Repair(w)

Next ==
  \/ \E w \in Worker : PollStep(w) \/ TakeOver(w)
  \/ \E d \in Digest : JobsEnd(d)
  \/ Edit \/ Answer \/ Disturb

Spec == Init /\ [][Next]_vars

\* Workers poll as long as they hold the lease and runner jobs settle.
\* Nothing makes the lead answer or the deadline pass.
FairSpec ==
  /\ Spec
  /\ \A w \in Worker : WF_vars(PollStep(w))
  /\ \A d \in Digest : WF_vars(JobsEnd(d))

----------------------------------------------------------------------------
(* Properties                                                               *)

Ended == run # "running"

TypeOK ==
  /\ run \in {"running", "completed", "timed_out"} \union Code
  /\ owner \in Worker
  /\ poll \in [Worker -> Poll] /\ lead \in Lead
  /\ sent \in [Prompt -> 0..2]
  /\ jobs \in [Digest -> {"none", "pending", "success", "failure"}]
  /\ content \in Source /\ intact \in BOOLEAN /\ trusted \in BOOLEAN
  /\ faults \in [takeovers : 0..MaxTakeovers, hiccups : 0..MaxHiccups, strays : 0..MaxStrays]

\* A run is completed only with the sources of the base commit, or with a
\* checkpoint that succeeded on exactly the sources it leaves behind,
\* whatever the lead edited between its checkpoints.  (An edit while the lead
\* is idle comes from outside, and may come after the last look.)
CompletedIsValidated ==
  run = "completed" /\ faults.strays = 0 =>
    content = 0 \/ \E d \in Digest : d.source = content /\ jobs[d] = "success"

\* A lost reply, a repeated poll or a worker that lost its lease never sends
\* the lead the same evidence or the same demand twice.
PromptedOnce == \A p \in Prompt : sent[p] <= 1

\* A checkpoint of the lead is answered: with evidence, or by ending the run.
CheckpointAnswered ==
  ~lead.busy /\ lead.reply.kind = "checkpoint" ~> lead.busy \/ Ended

\* docs/G3_PRODUCTION_ACCEPTANCE_2026-09-17.md: the format repair is one-shot,
\* and a repeated malformed checkpoint is fail-closed.
RepairIsOneShot ==
  [][/\ lead.reply.kind = "wrapped" /\ lead.parent[1] = "format"
          => lead'.parent = lead.parent]_vars

\* "Lead attempted completion twice without successful runner evidence for
\* current snapshot" ends the run: a final answer is always let through,
\* questioned, or rejected.
CompletionAnswered ==
  ~lead.busy /\ lead.reply.kind = "final" ~> lead.busy \/ Ended

=============================================================================
