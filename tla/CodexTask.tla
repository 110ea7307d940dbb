------------------------------ MODULE CodexTask ------------------------------
(***************************************************************************)
(* The operator's stand-alone task (scripts/codex_task.py): several        *)
(* launches with one task id share its branch, worktree and output         *)
(* directory; the one that makes them runs the model once, in a process    *)
(* group of its own, and records what it left behind.                      *)
(*                                                                         *)
(* Signals.  The script handles none but Ctrl-C, and that only inside the  *)
(* `try` of execute_bounded; any other ends it where it is, once.          *)
(*                                                                         *)
(* Group.  A stray is a descendant of the model in its process group; one  *)
(* that makes a session of its own is out of the script's reach.           *)
(***************************************************************************)
EXTENDS Integers

CONSTANTS
  Launch,     \* invocations of the script with the same task id
  NoOne,
  ReadOnly,   \* launches whose role is not "developer"
  Strays      \* may a descendant of the model outlive it? (FALSE or TRUE)

ASSUME CodexTaskConstants ==
  /\ NoOne \notin Launch /\ ReadOnly \subseteq Launch /\ Strays \in BOOLEAN

VARIABLES
  launch,    \* where each launch is, and what it has read
  holder,    \* who holds .codex-task.lock
  disk,      \* the branch, the output directory and run.json
  tree,      \* the worktree: absent, at its base, or changed
  model      \* the process group of the model

taskVars == <<launch, holder, disk, tree, model>>

Ending ==
  {"completed", "execution_failed", "local_timeout", "launch_failed", "incomplete_result",
   "read_only_violation", "no_credit_guard_blocked"}

NoModel == [by |-> NoOne, leader |-> "none", turn |-> FALSE, final |-> FALSE, stray |-> FALSE]

TaskInit ==
  /\ launch = [l \in Launch |-> [at |-> "check", outcome |-> "none"]]
  /\ holder = NoOne
  /\ disk = [branch |-> FALSE, output |-> FALSE, summary |-> "none"]
  /\ tree = "absent" /\ model = NoModel

Taken == tree # "absent" \/ disk.output \/ disk.branch

Moves(l, at) == launch' = [launch EXCEPT ![l].at = at]

Check(l) ==
  /\ launch[l].at = "check"
  /\ Moves(l, IF Taken THEN "refused" ELSE "lock")
  /\ UNCHANGED <<holder, disk, tree, model>>

TakenNow == Taken

\* The lock, the second check and the login; git refuses an existing branch.
TakeLock(l) ==
  /\ launch[l].at = "lock" /\ holder = NoOne
  /\ \/ TakenNow /\ Moves(l, "refused") /\ UNCHANGED holder
     \/ /\ ~TakenNow /\ holder' = l
        /\ \E signed \in BOOLEAN : Moves(l, IF signed THEN "add" ELSE "leave")
  /\ UNCHANGED <<disk, tree, model>>

\* git worktree add, the comparison with the base, and the end of the lock.
AddWorktree(l) ==
  /\ launch[l].at = "add" /\ holder' = NoOne
  /\ IF disk.branch
     THEN Moves(l, "refused") /\ UNCHANGED <<disk, tree>>
     ELSE /\ disk' = [disk EXCEPT !.branch = TRUE] /\ tree' = "base"
          /\ \E same \in BOOLEAN : Moves(l, IF same THEN "output" ELSE "refused")
  /\ UNCHANGED <<model>>

Leave(l) ==
  /\ launch[l].at = "leave" /\ holder' = NoOne /\ Moves(l, "refused")
  /\ UNCHANGED <<disk, tree, model>>

\* Mutant: the outcome is written in advance.
FirstSummary == "completed"

RunningSummary == "running"

\* The output directory and the checkpoint before the inference.
MakeOutput(l) ==
  /\ launch[l].at = "output" /\ ~disk.output
  /\ disk' = [disk EXCEPT !.output = TRUE, !.summary = RunningSummary]
  /\ Moves(l, "start")
  /\ UNCHANGED <<holder, tree, model>>

\* execute_bounded: the model starts, or cannot be started.
Start(l) ==
  /\ launch[l].at = "start"
  /\ \/ /\ model' = [NoModel EXCEPT !.by = l, !.leader = "running", !.stray = Strays]
        /\ Moves(l, "wait")
     \/ /\ launch' = [launch EXCEPT ![l] = [at |-> "judge", outcome |-> "launch_failed"]]
        /\ UNCHANGED model
  /\ UNCHANGED <<holder, disk, tree>>

\* The model works: it edits the worktree, reports, completes its turn, and
\* ends, with 78 if the credit guard stopped it; a descendant may go on.
Alive == model.leader = "running" \/ model.stray

Edit ==
  /\ Alive /\ tree = "base" /\ tree' = "changed"
  /\ UNCHANGED <<launch, holder, disk, model>>

ModelReports ==
  /\ model.leader = "running"
  /\ \/ ~model.final /\ model' = [model EXCEPT !.final = TRUE]
     \/ ~model.turn /\ model' = [model EXCEPT !.turn = TRUE]
  /\ UNCHANGED <<launch, holder, disk, tree>>

Exit ==
  /\ model.leader = "running"
  /\ \E end \in {"zero", "error", "guard"} : model' = [model EXCEPT !.leader = end]
  /\ UNCHANGED <<launch, holder, disk, tree>>

StrayEnds ==
  /\ model.stray /\ model' = [model EXCEPT !.stray = FALSE]
  /\ UNCHANGED <<launch, holder, disk, tree>>

OutcomeOf == [zero |-> "completed", error |-> "execution_failed",
              guard |-> "no_credit_guard_blocked"]

\* communicate returns with the leader; nothing stops the rest of its group.
Returned(l) ==
  /\ launch[l].at = "wait" /\ model.leader \in DOMAIN OutcomeOf
  /\ launch' = [launch EXCEPT ![l] = [at |-> "judge", outcome |-> OutcomeOf[model.leader]]]
  /\ UNCHANGED <<holder, disk, tree, model>>

\* The time is up while the leader runs; it may still end before SIGTERM is sent.
Timeout(l) ==
  /\ launch[l].at = "wait" /\ model.leader = "running" /\ Moves(l, "term")
  /\ UNCHANGED <<holder, disk, tree, model>>

Hit(leader, stray) ==
  [model EXCEPT !.leader = IF leader /\ @ = "running" THEN "killed" ELSE @,
                !.stray = @ /\ ~stray]

\* SIGTERM to the group: each of its processes obeys or ignores it.
Terminate(l) ==
  /\ launch[l].at = "term" /\ Moves(l, "grace")
  /\ \E leader, stray \in BOOLEAN : model' = Hit(leader, stray)
  /\ UNCHANGED <<holder, disk, tree>>

\* Mutant: a group whose leader has returned is left alone.
KillRunning == IF model.leader = "running" THEN Hit(TRUE, TRUE) ELSE model

StopGroup == Hit(TRUE, TRUE)

\* SIGKILL to the group once the leader has ended or three seconds are over.
KillGroup(l) ==
  /\ launch[l].at = "grace"
  /\ model' = StopGroup
  /\ launch' = [launch EXCEPT ![l] = [at |-> "judge", outcome |-> "local_timeout"]]
  /\ UNCHANGED <<holder, disk, tree>>

Over == {"refused", "failed", "done", "dead"}

\* The end of the script: its lock goes, its model stays, run.json stays.
Dies(l) ==
  /\ Moves(l, "dead") /\ holder' = IF holder = l THEN NoOne ELSE holder
  /\ UNCHANGED <<disk, tree, model>>

\* Ctrl-C.  The handler takes it while communicate waits; not in the grace of a
\* timeout, which is a handler itself, nor in any other place.
Interrupt(l) ==
  /\ launch[l].at \notin Over
  /\ IF launch[l].at = "wait"
     THEN Moves(l, "stop") /\ UNCHANGED <<holder, disk, tree, model>>
     ELSE Dies(l)

\* The handler stops the group and raises again.
StopInterrupted(l) ==
  /\ launch[l].at = "stop" /\ Moves(l, "dead")
  /\ model' = StopGroup
  /\ UNCHANGED <<holder, disk, tree>>

\* SIGTERM, SIGHUP or SIGKILL anywhere; Ctrl-C before the `try` is entered.
Kill(l) == launch[l].at \notin Over /\ Dies(l)

WholeReport(l) == launch[l].outcome = "completed" => model.final /\ model.turn

ReaderWrote(l) == l \in ReadOnly /\ tree = "changed"

\* What the report and the worktree make of the outcome.
Judge(l) ==
  /\ launch[l].at = "judge"
  /\ launch' = [launch EXCEPT ![l] =
       [at |-> "write",
        outcome |-> IF ReaderWrote(l) THEN "read_only_violation"
                    ELSE IF ~WholeReport(l) THEN "incomplete_result"
                    ELSE launch[l].outcome]]
  /\ UNCHANGED <<holder, disk, tree, model>>

\* The report cannot be read, or git fails: the summary stays as it is.
JudgeFails(l) ==
  /\ launch[l].at = "judge" /\ Moves(l, "failed")
  /\ UNCHANGED <<holder, disk, tree, model>>

Recorded(l) == launch[l].outcome

\* run.json is replaced in one step.
WriteSummary(l) ==
  /\ launch[l].at = "write" /\ Moves(l, "done")
  /\ disk' = [disk EXCEPT !.summary = Recorded(l)]
  /\ UNCHANGED <<holder, tree, model>>

Script(l) ==
  \/ Check(l) \/ TakeLock(l) \/ AddWorktree(l) \/ Leave(l) \/ MakeOutput(l) \/ Start(l)
  \/ Returned(l) \/ Timeout(l) \/ Terminate(l) \/ KillGroup(l) \/ StopInterrupted(l)
  \/ Judge(l) \/ JudgeFails(l) \/ WriteSummary(l)

TaskNext ==
  \/ \E l \in Launch : Script(l) \/ Interrupt(l) \/ Kill(l)
  \/ Edit \/ ModelReports \/ Exit \/ StrayEnds

TaskSpec == TaskInit /\ [][TaskNext]_taskVars

----------------------------------------------------------------------------
(* Properties                                                               *)

Place ==
  {"check", "lock", "add", "leave", "output", "start", "wait", "term", "grace", "stop",
   "judge", "write"} \union Over

TaskTypeOK ==
  /\ launch \in [Launch -> [at : Place, outcome : Ending \union {"none"}]]
  /\ holder \in Launch \union {NoOne}
  /\ disk \in [branch : BOOLEAN, output : BOOLEAN,
               summary : Ending \union {"none", "running"}]
  /\ tree \in {"absent", "base", "changed"}
  /\ model \in [by : Launch \union {NoOne},
                leader : {"none", "running", "killed"} \union DOMAIN OutcomeOf,
                turn : BOOLEAN, final : BOOLEAN, stray : BOOLEAN]

\* A task is recorded as completed only if its model ended by itself with a
\* completed turn and a report: no interruption, at whatever step, and no
\* second launch leaves that record.
CompletedIsWhole ==
  disk.summary = "completed" => model.leader = "zero" /\ model.turn /\ model.final

\* A read-only task recorded as completed left its worktree at the base, if no
\* descendant of its model outlives it.
CompletedIsUntouched ==
  disk.summary = "completed" /\ model.by \in ReadOnly /\ ~Strays => tree = "base"

\* docs/CODEX_MICRO_SPRINTS.md: at the deadline the whole group ends, the children
\* that survive SIGTERM included.  From the moment a launch settles on local_timeout,
\* and for as long as run.json says so, none is alive: not a leader that ignored
\* SIGTERM, not a descendant whose leader had returned, and not if the script dies in
\* between.  A timeout that is itself interrupted never says so: its group may go on.
TimedOutHasStopped ==
  "local_timeout" \in {disk.summary} \union {launch[l].outcome : l \in Launch} => ~Alive

\* execute_bounded's comment: "Bound the whole POSIX process tree, not only a
\* billing-guard wrapper".
RecordedHasStopped == disk.summary \in Ending => ~Alive

=============================================================================
