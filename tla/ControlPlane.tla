---------------------------- MODULE ControlPlane ----------------------------
(***************************************************************************)
(* Tasks, their runs and the row locks of every transaction that joins     *)
(* them: the manager's endpoints (main.py) and the workers' transactions   *)
(* (execution_worker.py, codex_broker.py, workspace_manager.py).  Each     *)
(* locks its rows one by one in its own order; PostgreSQL aborts one       *)
(* transaction of a cycle.  Tasks are written without a lock first.        *)
(***************************************************************************)
EXTENDS Integers, Sequences, FiniteSets

CONSTANTS
  Task, Repository,
  Run,       \* executions that may be created, each with its workspace
  Txn,       \* transactions that may be open at the same time
  None

ASSUME ControlPlaneConstants ==
  /\ None \notin Task \union Repository \union Run \union Txn
  /\ IsFiniteSet(Txn) /\ Task # {} /\ Repository # {}

VARIABLES
  task,      \* status and repository of each task
  run,       \* status, task and repository of each execution
  trusted,   \* repositories that are enabled and ready
  lock,      \* row locks
  txn        \* open transactions

vars == <<task, run, trusted, lock, txn>>

Row ==
  ({"task"} \X Task) \union ({"repository"} \X Repository)
    \union ({"run", "workspace"} \X Run)

TaskStatus ==
  {"backlog", "planned", "in_progress", "waiting_approval", "qa", "failed", "done"}

\* TASK_TRANSITIONS
Transition ==
  [backlog |-> {"planned", "in_progress"}, planned |-> {"backlog", "in_progress"},
   in_progress |-> {"waiting_approval", "qa", "failed"},
   waiting_approval |-> {"in_progress", "qa", "failed"},
   qa |-> {"done", "in_progress", "failed"}, failed |-> {"planned", "in_progress"},
   done |-> {}]

Ending == {"fail", "complete", "settle", "review", "abort", "reject"}

Execution == [status : {"none", "preparing", "queued", "running", "ended"},
              task : Task \union {None}, repository : Repository \union {None}]
Transaction == [kind : Ending \union {"none", "start", "publish", "preflight", "job",
                                      "checkpoint", "prompt"},
                task : Task \union {None}, run : Run \union {None}, plan : Seq(Row),
                read : TaskStatus \union {"none"}, called : BOOLEAN]
Idle == [kind |-> "none", task |-> None, run |-> None, plan |-> <<>>, read |-> "none",
         called |-> FALSE]

Init ==
  /\ task = [t \in Task |-> [status |-> "planned", repository |-> None]]
  /\ run = [r \in Run |-> [status |-> "none", task |-> None, repository |-> None]]
  /\ trusted = Repository
  /\ lock = [w \in Row |-> None] /\ txn = [x \in Txn |-> Idle]

Active(r) == run[r].status \in {"preparing", "queued", "running"}

----------------------------------------------------------------------------
(* Transactions                                                             *)

\* The rows each transaction on run r locks, in order.  "fail" and "complete"
\* are the OpenCode lane's, "settle" and "review" the Codex lane's; "settle"
\* is also a failed runner gate.  "abort" is abort_execution of a preparing
\* run, "reject" a preparation that failed, "publish" mark_prepare_success,
\* "preflight" the Codex broker's, "job" create_runner_job and
\* authorize_binding, "checkpoint" _ensure_runner_checkpoint_jobs, and
\* "prompt" either prompt gate.
LockPlan(kind, r) ==
  LET row(table) == <<table, IF table = "repository" THEN run[r].repository ELSE r>>
      rows(a, b) == <<row(a), row(b)>>
  IN CASE kind \in {"fail", "complete", "settle", "review", "abort"} -> rows("run", "workspace")
       [] kind = "reject" -> rows("workspace", "run")
       [] kind = "publish" -> rows("workspace", "run") \o <<row("repository")>>
       [] kind = "preflight" -> rows("run", "workspace") \o <<row("repository")>>
       [] kind = "job" -> rows("run", "repository") \o <<row("workspace")>>
       [] kind = "checkpoint" -> rows("repository", "run") \o <<row("workspace")>>
       [] kind = "prompt" -> rows("repository", "run")

\* The status of the run that each of them requires.
Requires ==
  [fail |-> {"queued", "running"}, complete |-> {"running"}, settle |-> {"queued", "running"},
   review |-> {"running"}, abort |-> {"preparing"}, reject |-> {"preparing"},
   publish |-> {"preparing"}, preflight |-> {"queued"}, job |-> {"running", "ended"},
   checkpoint |-> {"running"}, prompt |-> {"queued", "running"}]

\* The statuses from which the end of a run moves its task.
Moves(kind) ==
  CASE kind = "settle" -> {"in_progress", "waiting_approval", "qa"}
    [] kind = "review" -> {"in_progress"}
    [] kind \in Ending \ {"settle", "review"} -> {"in_progress", "waiting_approval"}
    [] OTHER -> {}

MovesTo(kind) == IF kind \in {"complete", "review"} THEN "qa" ELSE "failed"

Begin(x) ==
  /\ txn[x].kind = "none"
  /\ \/ \E k \in DOMAIN Requires, r \in Run :
          /\ run[r].status \in Requires[k]
          /\ txn' = [txn EXCEPT ![x] = [Idle EXCEPT !.kind = k, !.run = r, !.plan = LockPlan(k, r)]]
     \/ \E t \in Task, r \in Run :
          /\ run[r].status = "none" /\ \A y \in Txn : txn[y].run # r
          /\ txn' = [txn EXCEPT ![x] = [Idle EXCEPT !.kind = "start", !.task = t, !.run = r,
                                          !.plan = <<<<"task", t>>>>]]
  /\ UNCHANGED <<task, run, trusted, lock>>

Free(row) == lock[row] = None

\* Mutant: an execution whose workspace is being prepared is not active.
StartsBesidePreparing(t) ==
  /\ task[t].status # "done" /\ task[t].repository # None
  /\ \A r \in Run : run[r].task = t => run[r].status \notin {"queued", "running"}

\* A task may get a run: start_execution under the lock of the task.
MayStart(t) ==
  /\ task[t].status # "done" /\ task[t].repository # None
  /\ \A r \in Run : run[r].task = t => ~Active(r)

\* What a transaction finds when it has the lock of a row.
Passes(x, row) ==
  CASE row[1] = "repository" -> row[2] \in trusted
    [] row[1] = "run" -> run[row[2]].status \in Requires[txn[x].kind]
    [] row[1] = "task" -> txn[x].kind = "start" => MayStart(row[2])
    [] OTHER -> TRUE

\* The end of a run reads its task without a lock once it has the run's; the
\* abort of a preparing run reads it once it has the workspace's.
ReadsTask(x, row) ==
  txn[x].kind \in Ending /\ row[1] = (IF txn[x].kind = "abort" THEN "workspace" ELSE "run")

Unlocked(x) == [w \in Row |-> IF lock[w] = x THEN None ELSE lock[w]]

\* Mutant: an early return leaves its transaction open.
GiveUpOpen(x) == UNCHANGED lock /\ txn' = [txn EXCEPT ![x] = Idle]

\* An early return rolls its transaction back.
GiveUp(x) == lock' = Unlocked(x) /\ txn' = [txn EXCEPT ![x] = Idle]

\* The next lock of the plan and the check that follows it.  A start locks the
\* repository of its task; the end of a run writes the task, if the status it
\* read is to be moved, when it is flushed.
Acquire(x) ==
  /\ txn[x].plan # <<>>
  /\ LET row == Head(txn[x].plan)
         rest == Tail(txn[x].plan)
         status == task[run[txn[x].run].task].status
     IN /\ Free(row)
        /\ IF ~Passes(x, row)
           THEN GiveUp(x)
           ELSE /\ lock' = [lock EXCEPT ![row] = x]
                /\ txn' = [txn EXCEPT ![x].plan =
                     IF txn[x].kind = "start" /\ row[1] = "task"
                     THEN <<<<"repository", task[row[2]].repository>>>>
                     ELSE IF ReadsTask(x, row) /\ status \in Moves(txn[x].kind)
                     THEN Append(rest, <<"task", run[txn[x].run].task>>)
                     ELSE rest,
                   ![x].read = IF ReadsTask(x, row) THEN status ELSE @]
  /\ UNCHANGED <<task, run, trusted>>

Ready(x) == txn[x].kind # "none" /\ txn[x].plan = <<>>

\* Mutant: the prompt is sent once its repository is locked.
CallsEarly(x) == txn[x].kind = "prompt" /\ lock[<<"repository", run[txn[x].run].repository>>] = x

CallsReady(x) == txn[x].kind = "prompt" /\ Ready(x)

\* The prompt is sent while the transaction holds its locks.
Call(x) ==
  /\ CallsReady(x) /\ ~txn[x].called
  /\ txn' = [txn EXCEPT ![x].called = TRUE]
  /\ UNCHANGED <<task, run, trusted, lock>>

\* What a transaction does to its run.
RunAfter(x) ==
  LET t == txn[x].task IN
  CASE txn[x].kind = "start" ->
         [status |-> "preparing", task |-> t, repository |-> task[t].repository]
    [] txn[x].kind \in Ending -> [run[txn[x].run] EXCEPT !.status = "ended"]
    [] txn[x].kind = "publish" -> [run[txn[x].run] EXCEPT !.status = "queued"]
    [] txn[x].kind = "preflight" -> [run[txn[x].run] EXCEPT !.status = "running"]
    [] OTHER -> run[txn[x].run]

Commit(x) ==
  /\ Ready(x) /\ (txn[x].kind = "prompt" => txn[x].called)
  /\ run' = [run EXCEPT ![txn[x].run] = RunAfter(x)]
  /\ task' = [t \in Task |->
       IF txn[x].kind = "start" /\ t = txn[x].task /\ task[t].status \in {"backlog", "planned", "failed"}
       THEN [task[t] EXCEPT !.status = "in_progress"]
       ELSE IF txn[x].read \in Moves(txn[x].kind) /\ t = run[txn[x].run].task
       THEN [task[t] EXCEPT !.status = MovesTo(txn[x].kind)]
       ELSE task[t]]
  /\ lock' = Unlocked(x) /\ txn' = [txn EXCEPT ![x] = Idle]
  /\ UNCHANGED trusted

----------------------------------------------------------------------------
(* Deadlocks: PostgreSQL                                                    *)

WaitsFor(x, y) == txn[x].plan # <<>> /\ lock[Head(txn[x].plan)] = y

\* A chain of waits leads from x back to x.
InCycle(x) ==
  \E n \in 1..Cardinality(Txn) : \E chain \in [0..n -> Txn] :
    chain[0] = x /\ chain[n] = x /\ \A i \in 0..n - 1 : WaitsFor(chain[i], chain[i + 1])

\* Any transaction of the cycle may be the one; its loop tries again later.
Victim(x) ==
  /\ InCycle(x)
  /\ lock' = Unlocked(x) /\ txn' = [txn EXCEPT ![x] = Idle]
  /\ UNCHANGED <<task, run, trusted>>

----------------------------------------------------------------------------
(* Transactions of one lock                                                 *)

\* mark_dispatched
Dispatched(r) ==
  /\ run[r].status = "queued" /\ Free(<<"run", r>>)
  /\ run' = [run EXCEPT ![r].status = "running"]
  /\ UNCHANGED <<task, trusted, lock, txn>>

SetStatus(t) ==
  /\ Free(<<"task", t>>)
  /\ \E s \in Transition[task[t].status] : task' = [task EXCEPT ![t].status = s]
  /\ UNCHANGED <<run, trusted, lock, txn>>

MayRebind(t) == \A r \in Run : run[r].task = t => ~Active(r)

Rebind(t) ==
  /\ Free(<<"task", t>>) /\ MayRebind(t)
  /\ \E p \in Repository \union {None} : task' = [task EXCEPT ![t].repository = p]
  /\ UNCHANGED <<run, trusted, lock, txn>>

\* A repository is disabled, fails its validation, or passes it.
Trust(p) ==
  /\ Free(<<"repository", p>>)
  /\ trusted' = IF p \in trusted THEN trusted \ {p} ELSE trusted \union {p}
  /\ UNCHANGED <<task, run, lock, txn>>

----------------------------------------------------------------------------

Step(x) == Acquire(x) \/ Call(x) \/ Commit(x)

Next ==
  \/ \E x \in Txn : Begin(x) \/ Step(x) \/ Victim(x)
  \/ \E r \in Run : Dispatched(r)
  \/ \E t \in Task : SetStatus(t) \/ Rebind(t)
  \/ \E p \in Repository : Trust(p)

Spec == Init /\ [][Next]_vars

\* PostgreSQL serves the waiters of a lock in turn and detects deadlocks.
FairSpec == Spec /\ \A x \in Txn : SF_vars(Step(x)) /\ WF_vars(Victim(x))

----------------------------------------------------------------------------
(* Properties                                                               *)

TypeOK ==
  /\ task \in [Task -> [status : TaskStatus, repository : Repository \union {None}]]
  /\ run \in [Run -> Execution]
  /\ trusted \subseteq Repository
  /\ lock \in [Row -> Txn \union {None}]
  /\ txn \in [Txn -> Transaction]

\* A task never has two active runs, however its starts, aborts and ends
\* are interleaved: no index of the database enforces it.
OneActiveRun ==
  \A r, s \in Run : Active(r) /\ Active(s) /\ run[r].task = run[s].task => r = s

\* A transaction that has sent its prompt is never the victim of a deadlock:
\* the inference it started is recorded.
PromptsAreUncut == \A x \in Txn : InCycle(x) => ~txn[x].called

\* Every transaction ends: whatever order the locks are taken in.
TransactionsEnd == \A x \in Txn : txn[x].kind # "none" ~> txn[x].kind = "none"

\* main.py, TASK_TRANSITIONS: no status follows "done".
DoneIsFinal ==
  [][\A t \in Task : task[t].status = "done" => task'[t].status = "done"]_vars

=============================================================================
