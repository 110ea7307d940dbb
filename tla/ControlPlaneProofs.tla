------------------------- MODULE ControlPlaneProofs -------------------------
(***************************************************************************)
(* Theorems about ControlPlane, for any tasks, repositories, runs and      *)
(* transactions.                                                           *)
(***************************************************************************)
EXTENDS ControlPlane, TLAPS, FiniteSetTheorems, SequenceTheorems

----------------------------------------------------------------------------
(* The inductive invariant                                                  *)

\* The rows a transaction has yet to lock.
Ahead(x) == {txn[x].plan[i] : i \in 1..Len(txn[x].plan)}

NoneOK == \A x \in Txn : txn[x].kind = "none" => txn[x] = Idle

\* A run that was created has a task and a repository.
BoundOK ==
  \A r \in Run : run[r].status # "none" => run[r].task \in Task /\ run[r].repository \in Repository

\* The transaction has its run's lock and found the status it requires.
Entered(x) ==
  lock[<<"run", txn[x].run>>] = x /\ run[txn[x].run].status \in Requires[txn[x].kind]

\* A transaction on a run has entered it or will lock it.
BegunOK ==
  \A x \in Txn : txn[x].kind \in DOMAIN Requires =>
    /\ txn[x].run \in Run /\ run[txn[x].run].status # "none"
    /\ <<"run", txn[x].run>> \in Ahead(x) \/ Entered(x)

\* A start has the lock of its task and found it without an active run.
Chosen(x) ==
  /\ lock[<<"task", txn[x].task>>] = x /\ task[txn[x].task].repository # None
  /\ \A r \in Run : run[r].task = txn[x].task => ~Active(r)
  /\ \A w \in Ahead(x) : w[1] = "repository"

\* A start is alone with its run, and has yet to lock its task or chose it.
StartOK ==
  \A x \in Txn : txn[x].kind = "start" =>
    /\ txn[x].task \in Task /\ txn[x].run \in Run /\ run[txn[x].run].status = "none"
    /\ \A y \in Txn \ {x} : txn[y].run # txn[x].run
    /\ txn[x].plan = <<<<"task", txn[x].task>>>> \/ Chosen(x)

\* A prompt is sent by a transaction that has all its locks.
PromptOK == \A x \in Txn : txn[x].called => txn[x].kind = "prompt" /\ txn[x].plan = <<>>

Sound == TypeOK /\ NoneOK /\ BoundOK /\ BegunOK /\ StartOK /\ PromptOK /\ OneActiveRun

----------------------------------------------------------------------------
(* What the steps do to a transaction                                       *)

\* The first row of a plan, and the rows after it.
LEMMA AheadOfTail ==
  ASSUME NEW plan \in Seq(Row), plan # <<>>
  PROVE /\ Head(plan) \in Row /\ Tail(plan) \in Seq(Row)
        /\ \A i \in 1..Len(plan) : \/ plan[i] = Head(plan)
                                   \/ \E k \in 1..Len(Tail(plan)) : Tail(plan)[k] = plan[i]
<1>1. Len(plan) \in Nat /\ Len(plan) > 0
  BY EmptySeq
<1>2. /\ Head(plan) \in Row /\ Tail(plan) \in Seq(Row) /\ Len(Tail(plan)) = Len(plan) - 1
      /\ \A i \in 1..Len(Tail(plan)) : Tail(plan)[i] = plan[i + 1]
  BY HeadTailProperties
<1>3. ASSUME NEW i \in 1..Len(plan), i # 1
      PROVE \E k \in 1..Len(Tail(plan)) : Tail(plan)[k] = plan[i]
  <2>1. i - 1 \in 1..Len(Tail(plan)) /\ (i - 1) + 1 = i
    BY <1>1, <1>2, <1>3
  <2> QED BY <1>2, <2>1
<1>4. plan[1] = Head(plan)
  BY <1>1
<1> QED BY <1>2, <1>3, <1>4

\* The plan of a transaction on a run consists of rows, the run's among them.
LEMMA PlanHasRun ==
  ASSUME TypeOK, NEW k \in DOMAIN Requires, NEW r \in Run, run[r].repository \in Repository
  PROVE /\ LockPlan(k, r) \in Seq(Row)
        /\ \E i \in 1..Len(LockPlan(k, r)) : LockPlan(k, r)[i] = <<"run", r>>
<1> DEFINE a == <<"run", r>>
           b == <<"workspace", r>>
           c == <<"repository", run[r].repository>>
<1>1. a \in Row /\ b \in Row /\ c \in Row
  BY DEF Row
<1> HIDE DEF a, b, c
<1>0. ASSUME NEW u \in Row, NEW v \in Row, NEW w \in Row
      PROVE LET plan == <<u, v>> \o <<w>>
            IN plan \in Seq(Row) /\ Len(plan) = 3 /\ plan[1] = u /\ plan[2] = v
  <2>1. <<u, v>> \in Seq(Row) /\ <<w>> \in Seq(Row) /\ Len(<<u, v>>) = 2 /\ Len(<<w>>) = 1
    OBVIOUS
  <2> QED BY <2>1, ConcatProperties
<1>2. k \in {"fail", "complete", "settle", "review", "abort", "reject", "publish", "preflight",
             "job", "checkpoint", "prompt"}
  BY DEF Requires
<1>3. CASE k \in {"fail", "complete", "settle", "review", "abort"}
  <2>1. LockPlan(k, r) = <<a, b>>
    BY <1>3 DEF LockPlan, a, b
  <2> QED BY <1>1, <2>1 DEF a
<1>4. CASE k = "reject"
  <2>1. LockPlan(k, r) = <<b, a>>
    BY <1>4 DEF LockPlan, a, b
  <2> QED BY <1>1, <2>1 DEF a
<1>5. CASE k = "prompt"
  <2>1. LockPlan(k, r) = <<c, a>>
    BY <1>5 DEF LockPlan, a, c
  <2> QED BY <1>1, <2>1 DEF a
<1>6. CASE k = "publish"
  <2>1. LockPlan(k, r) = <<b, a>> \o <<c>>
    BY <1>6 DEF LockPlan, a, b, c
  <2> QED BY <1>0, <1>1, <2>1 DEF a
<1>7. CASE k = "preflight"
  <2>1. LockPlan(k, r) = <<a, b>> \o <<c>>
    BY <1>7 DEF LockPlan, a, b, c
  <2> QED BY <1>0, <1>1, <2>1 DEF a
<1>8. CASE k = "job"
  <2>1. LockPlan(k, r) = <<a, c>> \o <<b>>
    BY <1>8 DEF LockPlan, a, b, c
  <2> QED BY <1>0, <1>1, <2>1 DEF a
<1>9. CASE k = "checkpoint"
  <2>1. LockPlan(k, r) = <<c, a>> \o <<b>>
    BY <1>9 DEF LockPlan, a, b, c
  <2> QED BY <1>0, <1>1, <2>1 DEF a
<1> QED BY <1>2, <1>3, <1>4, <1>5, <1>6, <1>7, <1>8, <1>9

\* A transaction opens, with a plan for a run it may act on or for a new run.
BeginDoes(x) ==
  /\ UNCHANGED <<task, run, trusted, lock>> /\ txn[x].kind = "none"
  /\ txn' \in [Txn -> Transaction] /\ \A y \in Txn \ {x} : txn'[y] = txn[y]
  /\ txn'[x].called = FALSE /\ txn'[x].run \in Run
  /\ \/ /\ txn'[x].kind \in DOMAIN Requires
        /\ run[txn'[x].run].status \in Requires[txn'[x].kind]
        /\ <<"run", txn'[x].run>> \in Ahead(x)'
     \/ /\ txn'[x].kind = "start" /\ txn'[x].task \in Task
        /\ run[txn'[x].run].status = "none" /\ \A y \in Txn : txn[y].run # txn'[x].run
        /\ txn'[x].plan = <<<<"task", txn'[x].task>>>>

LEMMA BeginEffect ==
  ASSUME TypeOK, BoundOK, NEW x \in Txn, Begin(x) PROVE BeginDoes(x)
<1>1. ASSUME NEW k \in DOMAIN Requires, NEW r \in Run, run[r].status \in Requires[k],
             txn' = [txn EXCEPT ![x] = [Idle EXCEPT !.kind = k, !.run = r, !.plan = LockPlan(k, r)]]
      PROVE BeginDoes(x)
  <2> DEFINE new == [Idle EXCEPT !.kind = k, !.run = r, !.plan = LockPlan(k, r)]
  <2>1. run[r].repository \in Repository
    BY <1>1 DEF BoundOK, Requires
  <2>2. LockPlan(k, r) \in Seq(Row) /\ \E i \in 1..Len(LockPlan(k, r)) : LockPlan(k, r)[i] = <<"run", r>>
    BY <2>1, PlanHasRun
  <2>3. new \in Transaction /\ new.kind = k /\ new.run = r /\ new.plan = LockPlan(k, r) /\ new.called = FALSE
    BY <2>2 DEF Transaction, Idle, Requires, Ending
  <2>4. txn' = [txn EXCEPT ![x] = new]
    BY <1>1
  <2> HIDE DEF new
  <2>5. txn'[x] = new /\ txn' \in [Txn -> Transaction] /\ \A y \in Txn \ {x} : txn'[y] = txn[y]
    BY <2>3, <2>4 DEF TypeOK
  <2>6. <<"run", r>> \in Ahead(x)'
    BY <2>2, <2>3, <2>5 DEF Ahead
  <2> QED BY <1>1, <2>3, <2>5, <2>6 DEF BeginDoes, Begin
<1>2. ASSUME NEW t \in Task, NEW r \in Run, run[r].status = "none", \A y \in Txn : txn[y].run # r,
             txn' = [txn EXCEPT ![x] = [Idle EXCEPT !.kind = "start", !.task = t, !.run = r,
                                          !.plan = <<<<"task", t>>>>]]
      PROVE BeginDoes(x)
  <2> DEFINE new == [Idle EXCEPT !.kind = "start", !.task = t, !.run = r, !.plan = <<<<"task", t>>>>]
  <2>1. <<"task", t>> \in Row
    BY DEF Row
  <2>2. <<<<"task", t>>>> \in Seq(Row)
    BY <2>1
  <2>3. /\ new \in Transaction /\ new.kind = "start" /\ new.run = r /\ new.task = t
        /\ new.plan = <<<<"task", t>>>> /\ new.called = FALSE
    BY <2>2 DEF Transaction, Idle, Ending
  <2>4. txn' = [txn EXCEPT ![x] = new]
    BY <1>2
  <2> HIDE DEF new
  <2>5. txn'[x] = new /\ txn' \in [Txn -> Transaction] /\ \A y \in Txn \ {x} : txn'[y] = txn[y]
    BY <2>3, <2>4 DEF TypeOK
  <2> QED BY <1>2, <2>3, <2>5 DEF BeginDoes, Begin
<1> QED BY <1>1, <1>2 DEF Begin

\* Transaction x goes on with the rest of its plan.
Locks(x, row) ==
  /\ lock' \in [Row -> Txn \union {None}]
  /\ lock'[row] = x /\ \A w \in Row \ {row} : lock'[w] = lock[w]
  /\ txn' \in [Txn -> Transaction] /\ \A y \in Txn \ {x} : txn'[y] = txn[y]
  /\ txn'[x].kind = txn[x].kind /\ txn'[x].task = txn[x].task /\ txn'[x].run = txn[x].run
  /\ txn'[x].called = txn[x].called
  /\ IF txn[x].kind = "start" THEN \A w \in Ahead(x)' : w[1] = "repository"
     ELSE Ahead(x) \subseteq Ahead(x)' \union {row}

\* The transaction ends and gives up its locks.
Closes(x) == lock' = Unlocked(x) /\ txn' = [txn EXCEPT ![x] = Idle]

\* The next row is locked, if it passes its check.
AcquireDoes(x) ==
  /\ UNCHANGED <<task, run, trusted>> /\ txn[x].plan # <<>>
  /\ LET row == Head(txn[x].plan)
     IN /\ row \in Ahead(x) /\ row \in Row /\ lock[row] = None
        /\ Closes(x) \/ (Passes(x, row) /\ Locks(x, row))

LEMMA AcquireEffect ==
  ASSUME TypeOK, NoneOK, BoundOK, BegunOK, StartOK, NEW x \in Txn, Acquire(x) PROVE AcquireDoes(x)
<1> DEFINE row == Head(txn[x].plan)
           rest == Tail(txn[x].plan)
           status == task[run[txn[x].run].task].status
<1>1. txn[x] \in Transaction /\ txn[x].plan \in Seq(Row) /\ txn[x].plan # <<>>
  BY DEF TypeOK, Transaction, Acquire
<1>2. row \in Row /\ rest \in Seq(Row) /\ Len(txn[x].plan) > 0 /\ row = txn[x].plan[1]
  BY <1>1, AheadOfTail, EmptySeq
<1>3. \A w \in Ahead(x) : w = row \/ \E k \in 1..Len(rest) : rest[k] = w
  BY <1>1, AheadOfTail DEF Ahead
<1>4. row \in Ahead(x)
  BY <1>2, EmptySeq DEF Ahead
<1>5. lock[row] = None /\ UNCHANGED <<task, run, trusted>>
  BY DEF Acquire, Free
<1>6. CASE ~Passes(x, row)
  BY <1>1, <1>2, <1>4, <1>5, <1>6 DEF Acquire, GiveUp, Closes, AcquireDoes
<1>7. CASE Passes(x, row)
  <2> DEFINE plan == IF txn[x].kind = "start" /\ row[1] = "task"
                     THEN <<<<"repository", task[row[2]].repository>>>>
                     ELSE IF ReadsTask(x, row) /\ status \in Moves(txn[x].kind)
                     THEN Append(rest, <<"task", run[txn[x].run].task>>)
                     ELSE rest
             read == IF ReadsTask(x, row) THEN status ELSE txn[x].read
             new == [txn[x] EXCEPT !.plan = plan, !.read = read]
  <2>1. txn' = [txn EXCEPT ![x] = new] /\ lock' = [lock EXCEPT ![row] = x]
    BY <1>1, <1>7 DEF Acquire, TypeOK
  <2> DEFINE Fits ==
               /\ plan \in Seq(Row) /\ read \in TaskStatus \union {"none"}
               /\ IF txn[x].kind = "start" THEN \A i \in 1..Len(plan) : plan[i][1] = "repository"
                  ELSE \A w \in Ahead(x) : w = row \/ \E k \in 1..Len(plan) : plan[k] = w
  <2>2. ASSUME txn[x].kind = "start" PROVE Fits
    <3>1. ~ReadsTask(x, row)
      BY <2>2 DEF ReadsTask, Ending
    <3>2. read \in TaskStatus \union {"none"}
      BY <1>1, <3>1 DEF Transaction
    <3>3. CASE row[1] = "task"
      <4>1. txn[x].plan = <<<<"task", txn[x].task>>>>
        BY <1>4, <2>2, <3>3 DEF StartOK, Chosen
      <4>2. row = <<"task", txn[x].task>> /\ txn[x].task \in Task
        BY <2>2, <4>1 DEF StartOK
      <4>3. task[txn[x].task].repository # None
        BY <1>7, <2>2, <4>2 DEF Passes, MayStart
      <4>4. task[txn[x].task].repository \in Repository
        BY <4>2, <4>3 DEF TypeOK
      <4>5. <<"repository", task[txn[x].task].repository>> \in Row
        BY <4>4 DEF Row
      <4>6. plan = <<<<"repository", task[txn[x].task].repository>>>>
        BY <2>2, <3>3, <4>2
      <4> HIDE DEF plan, read
      <4>7. plan \in Seq(Row) /\ Len(plan) = 1 /\ plan[1][1] = "repository"
        BY <4>5, <4>6
      <4> QED BY <2>2, <3>2, <4>7
    <3>4. CASE row[1] # "task"
      <4>1. Chosen(x)
        BY <1>2, <2>2, <3>4 DEF StartOK
      <4>2. plan = rest
        BY <3>1, <3>4
      <4>3. ASSUME NEW i \in 1..Len(rest) PROVE rest[i][1] = "repository"
        <5>1. /\ Len(txn[x].plan) \in Nat /\ Len(rest) = Len(txn[x].plan) - 1
              /\ rest[i] = txn[x].plan[i + 1]
          BY <1>1, <4>3, HeadTailProperties, EmptySeq
        <5>2. i + 1 \in 1..Len(txn[x].plan)
          BY <4>3, <5>1
        <5> QED BY <4>1, <5>1, <5>2 DEF Ahead, Chosen
      <4> QED BY <1>2, <2>2, <3>2, <4>2, <4>3
    <3> QED BY <3>3, <3>4
  <2>3. ASSUME txn[x].kind # "start" PROVE Fits
    <3>1. txn[x].kind \in DOMAIN Requires
      <4>1. txn[x].kind # "none"
        BY <1>1 DEF NoneOK, Idle
      <4> QED BY <1>1, <2>3, <4>1 DEF Transaction, Requires, Ending
    <3>2. run[txn[x].run].task \in Task
      BY <3>1 DEF BegunOK, BoundOK
    <3>3. status \in TaskStatus /\ read \in TaskStatus \union {"none"}
      BY <1>1, <3>2 DEF TypeOK, Transaction
    <3>4. <<"task", run[txn[x].run].task>> \in Row
      BY <3>2 DEF Row
    <3>5. CASE plan = rest
      BY <1>2, <1>3, <2>3, <3>3, <3>5
    <3>6. CASE plan = Append(rest, <<"task", run[txn[x].run].task>>)
      <4> DEFINE last == <<"task", run[txn[x].run].task>>
      <4>1. last \in Row /\ plan = Append(rest, last)
        BY <3>4, <3>6
      <4> HIDE DEF last, plan
      <4>2. plan \in Seq(Row) /\ Len(plan) = Len(rest) + 1 /\ \A i \in 1..Len(rest) : plan[i] = rest[i]
        BY <1>2, <4>1, AppendProperties
      <4>3. Len(rest) \in Nat
        BY <1>2, LenProperties
      <4>4. \A k \in 1..Len(rest) : k \in 1..Len(plan) /\ plan[k] = rest[k]
        BY <4>2, <4>3
      <4> QED BY <1>3, <2>3, <3>3, <4>2, <4>4
    <3> QED BY <2>3, <3>5, <3>6
  <2> HIDE DEF plan, read
  <2>4. Fits
    BY <2>2, <2>3
  <2>5. /\ new \in Transaction /\ new.kind = txn[x].kind /\ new.task = txn[x].task
        /\ new.run = txn[x].run /\ new.called = txn[x].called /\ new.plan = plan
    BY <1>1, <2>4 DEF Transaction
  <2> HIDE DEF new
  <2>6. txn'[x] = new /\ txn' \in [Txn -> Transaction] /\ \A y \in Txn \ {x} : txn'[y] = txn[y]
    BY <2>1, <2>5 DEF TypeOK
  <2>7. lock' \in [Row -> Txn \union {None}] /\ lock'[row] = x /\ \A w \in Row \ {row} : lock'[w] = lock[w]
    BY <1>2, <2>1 DEF TypeOK
  <2>8. IF txn[x].kind = "start" THEN \A w \in Ahead(x)' : w[1] = "repository"
        ELSE Ahead(x) \subseteq Ahead(x)' \union {row}
    <3>1. Ahead(x)' = {plan[i] : i \in 1..Len(plan)}
      BY <2>5, <2>6 DEF Ahead
    <3> QED BY <2>4, <3>1
  <2> QED BY <1>2, <1>4, <1>5, <1>1, <1>7, <2>5, <2>6, <2>7, <2>8 DEF AcquireDoes, Locks
<1> QED BY <1>6, <1>7

\* The prompt is noted as sent.
CallDoes(x) ==
  /\ UNCHANGED <<task, run, trusted, lock>>
  /\ txn[x].kind = "prompt" /\ txn[x].plan = <<>>
  /\ txn' \in [Txn -> Transaction] /\ \A y \in Txn \ {x} : txn'[y] = txn[y]
  /\ txn'[x].kind = "prompt" /\ txn'[x].plan = <<>> /\ txn'[x].run = txn[x].run
  /\ txn'[x].task = txn[x].task

LEMMA CallEffect ==
  ASSUME TypeOK, NEW x \in Txn, Call(x) PROVE CallDoes(x)
<1> DEFINE new == [txn[x] EXCEPT !.called = TRUE]
<1>1. /\ new \in Transaction /\ new.kind = txn[x].kind /\ new.plan = txn[x].plan
      /\ new.run = txn[x].run /\ new.task = txn[x].task
  BY DEF TypeOK, Transaction
<1>2. txn' = [txn EXCEPT ![x] = new]
  BY DEF Call, TypeOK
<1> HIDE DEF new
<1> QED BY <1>1, <1>2 DEF Call, CallsReady, Ready, CallDoes, TypeOK

\* A transaction that locked all its rows closes.  Its run's status moves only
\* along the lifecycle; a start makes its run active.
CommitDoes(x) ==
  /\ txn[x].plan = <<>> /\ Closes(x) /\ txn[x].kind # "none" /\ UNCHANGED trusted
  /\ run' \in [Run -> Execution] /\ \A r \in Run \ {txn[x].run} : run'[r] = run[r]
  /\ task' \in [Task -> [status : TaskStatus, repository : Repository \union {None}]]
  /\ \A t \in Task : task'[t].repository = task[t].repository
  /\ IF txn[x].kind = "start"
     THEN run'[txn[x].run] = [status |-> "preparing", task |-> txn[x].task,
                              repository |-> task[txn[x].task].repository]
     ELSE /\ run'[txn[x].run].task = run[txn[x].run].task
          /\ run'[txn[x].run].repository = run[txn[x].run].repository
          /\ run'[txn[x].run].status # "none" /\ Entered(x)
          /\ run'[txn[x].run].status \in {"preparing", "queued", "running"}
             => Active(txn[x].run)

LEMMA CommitEffect ==
  ASSUME TypeOK, NoneOK, BoundOK, BegunOK, StartOK, NEW x \in Txn, Commit(x) PROVE CommitDoes(x)
<1>1. txn[x] \in Transaction /\ txn[x].plan = <<>> /\ txn[x].kind # "none"
  BY DEF TypeOK, Commit, Ready
<1>2. Closes(x) /\ UNCHANGED trusted
  BY DEF Closes, Commit
<1>3. run' = [run EXCEPT ![txn[x].run] = RunAfter(x)]
  BY DEF Commit
<1>4. /\ task' \in [Task -> [status : TaskStatus, repository : Repository \union {None}]]
      /\ \A t \in Task : task'[t].repository = task[t].repository
  <2> DEFINE after(t) ==
               IF txn[x].kind = "start" /\ t = txn[x].task
                    /\ task[t].status \in {"backlog", "planned", "failed"}
               THEN [task[t] EXCEPT !.status = "in_progress"]
               ELSE IF txn[x].read \in Moves(txn[x].kind) /\ t = run[txn[x].run].task
               THEN [task[t] EXCEPT !.status = MovesTo(txn[x].kind)]
               ELSE task[t]
  <2>1. task' = [t \in Task |-> after(t)]
    BY DEF Commit
  <2>2. ASSUME NEW t \in Task
        PROVE /\ after(t) \in [status : TaskStatus, repository : Repository \union {None}]
              /\ after(t).repository = task[t].repository
    <3>1. task[t] \in [status : TaskStatus, repository : Repository \union {None}]
      BY DEF TypeOK
    <3>2. MovesTo(txn[x].kind) \in TaskStatus /\ "in_progress" \in TaskStatus
      BY DEF MovesTo, TaskStatus
    <3> QED BY <3>1, <3>2
  <2> HIDE DEF after
  <2> QED BY <2>1, <2>2
<1>5. CASE txn[x].kind = "start"
  <2>1. txn[x].run \in Run /\ txn[x].task \in Task
    BY <1>5 DEF StartOK
  <2>2. RunAfter(x) = [status |-> "preparing", task |-> txn[x].task,
                       repository |-> task[txn[x].task].repository]
    BY <1>5 DEF RunAfter, Ending
  <2>3. RunAfter(x) \in Execution
    BY <2>1, <2>2 DEF Execution, TypeOK
  <2> QED BY <1>1, <1>2, <1>3, <1>4, <1>5, <2>1, <2>2, <2>3 DEF CommitDoes, TypeOK
<1>6. CASE txn[x].kind # "start"
  <2> DEFINE old == run[txn[x].run]
  <2>1. txn[x].kind \in DOMAIN Requires
    BY <1>1, <1>6 DEF Transaction, Requires, Ending
  <2>2. txn[x].run \in Run /\ Entered(x) /\ old \in Execution /\ old.status # "none"
    BY <1>1, <2>1 DEF BegunOK, Ahead, TypeOK
  <2>3. /\ RunAfter(x) \in Execution /\ RunAfter(x).task = old.task
        /\ RunAfter(x).repository = old.repository /\ RunAfter(x).status # "none"
        /\ RunAfter(x).status \in {"preparing", "queued", "running"}
           => old.status \in {"preparing", "queued", "running"}
    <3>1. CASE txn[x].kind \in Ending
      <4>1. RunAfter(x) = [old EXCEPT !.status = "ended"]
        BY <3>1 DEF RunAfter, Ending
      <4> QED BY <2>2, <4>1 DEF Execution
    <3>2. CASE txn[x].kind = "publish"
      <4>1. RunAfter(x) = [old EXCEPT !.status = "queued"] /\ old.status = "preparing"
        BY <2>2, <3>2 DEF RunAfter, Ending, Entered, Requires
      <4> QED BY <2>2, <4>1 DEF Execution
    <3>3. CASE txn[x].kind = "preflight"
      <4>1. RunAfter(x) = [old EXCEPT !.status = "running"] /\ old.status = "queued"
        BY <2>2, <3>3 DEF RunAfter, Ending, Entered, Requires
      <4> QED BY <2>2, <4>1 DEF Execution
    <3>4. CASE txn[x].kind \notin Ending \union {"start", "publish", "preflight"}
      <4>1. RunAfter(x) = old
        BY <3>4 DEF RunAfter
      <4> QED BY <2>2, <4>1
    <3> QED BY <1>6, <3>1, <3>2, <3>3, <3>4
  <2>4. run'[txn[x].run] = RunAfter(x) /\ run' \in [Run -> Execution]
        /\ \A r \in Run \ {txn[x].run} : run'[r] = run[r]
    BY <1>3, <2>2, <2>3 DEF TypeOK
  <2> QED BY <1>1, <1>2, <1>4, <1>6, <2>2, <2>3, <2>4 DEF CommitDoes, Active
<1> QED BY <1>5, <1>6

\* A queued run is running.
DispatchedDoes(r) ==
  /\ UNCHANGED <<task, trusted, lock, txn>> /\ run[r].status = "queued"
  /\ lock[<<"run", r>>] = None
  /\ run' \in [Run -> Execution] /\ \A s \in Run \ {r} : run'[s] = run[s]
  /\ run'[r].status = "running" /\ run'[r].task = run[r].task
  /\ run'[r].repository = run[r].repository

LEMMA DispatchedEffect ==
  ASSUME TypeOK, NEW r \in Run, Dispatched(r) PROVE DispatchedDoes(r)
<1> DEFINE new == [run[r] EXCEPT !.status = "running"]
<1>1. /\ new \in Execution /\ new.status = "running" /\ new.task = run[r].task
      /\ new.repository = run[r].repository
  BY DEF TypeOK, Execution
<1>2. run' = [run EXCEPT ![r] = new]
  BY DEF Dispatched, TypeOK
<1> HIDE DEF new
<1> QED BY <1>1, <1>2 DEF Dispatched, DispatchedDoes, Free, TypeOK

LEMMA IdleTyped == Idle \in Transaction
BY EmptySeq DEF Idle, Transaction

LEMMA RequiresKinds ==
  /\ DOMAIN Requires = Ending \union {"publish", "preflight", "job", "checkpoint", "prompt"}
  /\ "none" \notin DOMAIN Requires /\ "start" \notin DOMAIN Requires
  /\ \A k \in DOMAIN Requires : "none" \notin Requires[k]
BY DEF Requires, Ending

----------------------------------------------------------------------------
(* Every step preserves the invariant                                       *)

\* The state stays well typed.
LEMMA TypeStep ==
  ASSUME TypeOK, NoneOK, BoundOK, BegunOK, StartOK, [Next]_vars PROVE
         TypeOK'
<1>1. ASSUME NEW x \in Txn, Begin(x) PROVE TypeOK'
  <2>1. BeginDoes(x)
    BY <1>1, BeginEffect
  <2> QED
    BY <2>1, IdleTyped DEF BeginDoes, TypeOK, Locks, Closes, Unlocked
<1>2. ASSUME NEW x \in Txn, Acquire(x) PROVE TypeOK'
  <2>1. AcquireDoes(x)
    BY <1>2, AcquireEffect
  <2> QED
    BY <2>1, IdleTyped DEF AcquireDoes, GiveUp, Unlocked, TypeOK, Locks,
       Closes, Unlocked
<1>3. ASSUME NEW x \in Txn, Call(x) PROVE TypeOK'
  <2>1. CallDoes(x)
    BY <1>3, CallEffect
  <2> QED
    BY <2>1, IdleTyped DEF CallDoes, TypeOK, Locks, Closes, Unlocked
<1>4. ASSUME NEW x \in Txn, Commit(x) PROVE TypeOK'
  <2>1. CommitDoes(x)
    BY <1>4, CommitEffect
  <2> QED
    BY <2>1, IdleTyped DEF CommitDoes, GiveUp, Unlocked, TypeOK, Locks,
       Closes, Unlocked
<1>5. ASSUME NEW x \in Txn, Victim(x) PROVE TypeOK'
  BY <1>5, IdleTyped DEF Victim, Unlocked, TypeOK, Locks, Closes, Unlocked
<1>6. ASSUME NEW r \in Run, Dispatched(r) PROVE TypeOK'
  <2>1. DispatchedDoes(r)
    BY <1>6, DispatchedEffect
  <2> QED
    BY <2>1, IdleTyped DEF DispatchedDoes, TypeOK, Locks, Closes, Unlocked
<1>7. ASSUME NEW t \in Task, SetStatus(t) PROVE TypeOK'
  <2>1. PICK s \in Transition[task[t].status] : task' = [task EXCEPT ![t].status = s]
    BY <1>7 DEF SetStatus
  <2>2. s \in TaskStatus
    BY <2>1 DEF TypeOK, TaskStatus, Transition
  <2>3. task' \in [Task -> [status : TaskStatus, repository : Repository \union {None}]]
    BY <2>1, <2>2 DEF TypeOK
  <2> QED BY <1>7, <2>3 DEF SetStatus, TypeOK
<1>8. ASSUME NEW t \in Task, Rebind(t) PROVE TypeOK'
  BY <1>8, IdleTyped DEF Rebind, Free, TypeOK, Locks, Closes, Unlocked
<1>9. ASSUME NEW p \in Repository, Trust(p) PROVE TypeOK'
  BY <1>9, IdleTyped DEF Trust, TypeOK, Locks, Closes, Unlocked
<1>10. ASSUME UNCHANGED vars PROVE TypeOK'
  BY <1>10, IdleTyped DEF vars, TypeOK, Locks, Closes, Unlocked
<1> QED
  BY <1>1, <1>2, <1>3, <1>4, <1>5, <1>6, <1>7, <1>8, <1>9, <1>10 DEF Next,
     Step

\* A closed transaction has no trace of the last one.
LEMMA NoneStep ==
  ASSUME TypeOK, NoneOK, BoundOK, BegunOK, StartOK, [Next]_vars PROVE
         NoneOK'
<1>1. ASSUME NEW x \in Txn, Begin(x) PROVE NoneOK'
  <2>1. BeginDoes(x)
    BY <1>1, BeginEffect
  <2> QED
    BY <2>1, RequiresKinds DEF BeginDoes, TypeOK, Locks, Closes, NoneOK
<1>2. ASSUME NEW x \in Txn, Acquire(x) PROVE NoneOK'
  <2>1. AcquireDoes(x)
    BY <1>2, AcquireEffect
  <2>2. txn[x].kind # "none"
    BY <2>1 DEF AcquireDoes, NoneOK, Idle
  <2> QED BY <2>1, <2>2 DEF AcquireDoes, Locks, Closes, NoneOK, TypeOK
<1>3. ASSUME NEW x \in Txn, Call(x) PROVE NoneOK'
  <2>1. CallDoes(x)
    BY <1>3, CallEffect
  <2> QED
    BY <2>1, RequiresKinds DEF CallDoes, TypeOK, Locks, Closes, NoneOK
<1>4. ASSUME NEW x \in Txn, Commit(x) PROVE NoneOK'
  <2>1. CommitDoes(x)
    BY <1>4, CommitEffect
  <2> QED
    BY <2>1, RequiresKinds DEF CommitDoes, GiveUp, Unlocked, TypeOK, Locks,
       Closes, NoneOK
<1>5. ASSUME NEW x \in Txn, Victim(x) PROVE NoneOK'
  BY <1>5, RequiresKinds DEF Victim, Unlocked, TypeOK, Locks, Closes, NoneOK
<1>6. ASSUME NEW r \in Run, Dispatched(r) PROVE NoneOK'
  <2>1. DispatchedDoes(r)
    BY <1>6, DispatchedEffect
  <2> QED
    BY <2>1, RequiresKinds DEF DispatchedDoes, TypeOK, Locks, Closes, NoneOK
<1>7. ASSUME NEW t \in Task, SetStatus(t) PROVE NoneOK'
  BY <1>7, RequiresKinds DEF SetStatus, Free, TypeOK, Locks, Closes, NoneOK
<1>8. ASSUME NEW t \in Task, Rebind(t) PROVE NoneOK'
  BY <1>8, RequiresKinds DEF Rebind, Free, TypeOK, Locks, Closes, NoneOK
<1>9. ASSUME NEW p \in Repository, Trust(p) PROVE NoneOK'
  BY <1>9, RequiresKinds DEF Trust, TypeOK, Locks, Closes, NoneOK
<1>10. ASSUME UNCHANGED vars PROVE NoneOK'
  BY <1>10, RequiresKinds DEF vars, TypeOK, Locks, Closes, NoneOK
<1> QED
  BY <1>1, <1>2, <1>3, <1>4, <1>5, <1>6, <1>7, <1>8, <1>9, <1>10 DEF Next,
     Step

\* A run keeps its task and its repository.
LEMMA BoundStep ==
  ASSUME TypeOK, NoneOK, BoundOK, BegunOK, StartOK, [Next]_vars PROVE
         BoundOK'
<1>1. ASSUME NEW x \in Txn, Begin(x) PROVE BoundOK'
  <2>1. BeginDoes(x)
    BY <1>1, BeginEffect
  <2> QED
    BY <2>1 DEF BeginDoes, TypeOK, BoundOK, StartOK, Ahead, Chosen
<1>2. ASSUME NEW x \in Txn, Acquire(x) PROVE BoundOK'
  <2>1. AcquireDoes(x)
    BY <1>2, AcquireEffect
  <2> QED
    BY <2>1 DEF AcquireDoes, GiveUp, Unlocked, TypeOK, BoundOK, StartOK,
       Ahead, Chosen
<1>3. ASSUME NEW x \in Txn, Call(x) PROVE BoundOK'
  <2>1. CallDoes(x)
    BY <1>3, CallEffect
  <2> QED
    BY <2>1 DEF CallDoes, TypeOK, BoundOK, StartOK, Ahead, Chosen
<1>4. ASSUME NEW x \in Txn, Commit(x) PROVE BoundOK'
  <2>1. CommitDoes(x)
    BY <1>4, CommitEffect
  <2>2. CASE txn[x].kind = "start"
    <3>0. Chosen(x)
      <4>1. txn[x].plan = <<>> /\ txn[x].plan # <<<<"task", txn[x].task>>>>
        BY <2>1 DEF CommitDoes
      <4> QED BY <2>2, <4>1 DEF StartOK
    <3>1. txn[x].task \in Task /\ txn[x].run \in Run /\ task[txn[x].task].repository # None
      BY <2>2, <3>0 DEF StartOK, Chosen
    <3>2. task[txn[x].task].repository \in Repository
      BY <3>1 DEF TypeOK
    <3> QED BY <2>1, <2>2, <3>1, <3>2 DEF CommitDoes, BoundOK
  <2>3. CASE txn[x].kind # "start"
    <3>1. run[txn[x].run].status # "none"
      BY <2>1, <2>3 DEF CommitDoes, BegunOK, NoneOK, Transaction, TypeOK, Requires, Ending
    <3> QED BY <2>1, <2>3, <3>1 DEF CommitDoes, BoundOK
  <2> QED BY <2>2, <2>3
<1>5. ASSUME NEW x \in Txn, Victim(x) PROVE BoundOK'
  BY <1>5 DEF Victim, Unlocked, TypeOK, BoundOK, StartOK, Ahead, Chosen
<1>6. ASSUME NEW r \in Run, Dispatched(r) PROVE BoundOK'
  <2>1. DispatchedDoes(r)
    BY <1>6, DispatchedEffect
  <2> QED
    BY <2>1 DEF DispatchedDoes, TypeOK, BoundOK, StartOK, Ahead, Chosen
<1>7. ASSUME NEW t \in Task, SetStatus(t) PROVE BoundOK'
  BY <1>7 DEF SetStatus, Free, TypeOK, BoundOK, StartOK, Ahead, Chosen
<1>8. ASSUME NEW t \in Task, Rebind(t) PROVE BoundOK'
  BY <1>8 DEF Rebind, Free, TypeOK, BoundOK, StartOK, Ahead, Chosen
<1>9. ASSUME NEW p \in Repository, Trust(p) PROVE BoundOK'
  BY <1>9 DEF Trust, TypeOK, BoundOK, StartOK, Ahead, Chosen
<1>10. ASSUME UNCHANGED vars PROVE BoundOK'
  BY <1>10 DEF vars, TypeOK, BoundOK, StartOK, Ahead, Chosen
<1> QED
  BY <1>1, <1>2, <1>3, <1>4, <1>5, <1>6, <1>7, <1>8, <1>9, <1>10 DEF Next,
     Step

\* A prompt is sent with all locks held.
LEMMA PromptStep ==
  ASSUME TypeOK, NoneOK, BoundOK, BegunOK, StartOK, PromptOK,
         [Next]_vars PROVE PromptOK'
<1>1. ASSUME NEW x \in Txn, Begin(x) PROVE PromptOK'
  <2>1. BeginDoes(x)
    BY <1>1, BeginEffect
  <2> QED
    BY <2>1 DEF BeginDoes, TypeOK, Locks, Closes, PromptOK, Idle
<1>2. ASSUME NEW x \in Txn, Acquire(x) PROVE PromptOK'
  <2>1. AcquireDoes(x)
    BY <1>2, AcquireEffect
  <2> QED
    BY <2>1 DEF AcquireDoes, GiveUp, Unlocked, TypeOK, Locks, Closes,
       PromptOK, Idle
<1>3. ASSUME NEW x \in Txn, Call(x) PROVE PromptOK'
  <2>1. CallDoes(x)
    BY <1>3, CallEffect
  <2> QED
    BY <2>1 DEF CallDoes, TypeOK, Locks, Closes, PromptOK, Idle
<1>4. ASSUME NEW x \in Txn, Commit(x) PROVE PromptOK'
  <2>1. CommitDoes(x)
    BY <1>4, CommitEffect
  <2> QED
    BY <2>1 DEF CommitDoes, GiveUp, Unlocked, TypeOK, Locks, Closes,
       PromptOK, Idle
<1>5. ASSUME NEW x \in Txn, Victim(x) PROVE PromptOK'
  BY <1>5 DEF Victim, Unlocked, TypeOK, Locks, Closes, PromptOK, Idle
<1>6. ASSUME NEW r \in Run, Dispatched(r) PROVE PromptOK'
  <2>1. DispatchedDoes(r)
    BY <1>6, DispatchedEffect
  <2> QED
    BY <2>1 DEF DispatchedDoes, TypeOK, Locks, Closes, PromptOK, Idle
<1>7. ASSUME NEW t \in Task, SetStatus(t) PROVE PromptOK'
  BY <1>7 DEF SetStatus, Free, TypeOK, Locks, Closes, PromptOK, Idle
<1>8. ASSUME NEW t \in Task, Rebind(t) PROVE PromptOK'
  BY <1>8 DEF Rebind, Free, TypeOK, Locks, Closes, PromptOK, Idle
<1>9. ASSUME NEW p \in Repository, Trust(p) PROVE PromptOK'
  BY <1>9 DEF Trust, TypeOK, Locks, Closes, PromptOK, Idle
<1>10. ASSUME UNCHANGED vars PROVE PromptOK'
  BY <1>10 DEF vars, TypeOK, Locks, Closes, PromptOK, Idle
<1> QED
  BY <1>1, <1>2, <1>3, <1>4, <1>5, <1>6, <1>7, <1>8, <1>9, <1>10 DEF Next,
     Step

\* A step that leaves the other transactions with their locks.
Keeps(x) ==
  /\ \A y \in Txn \ {x} : txn'[y] = txn[y]
  /\ \A y \in Txn \ {x} : \A w \in Row : lock[w] = y => lock'[w] = y

LEMMA OthersKeep ==
  ASSUME TypeOK, NEW x \in Txn,
         BeginDoes(x) \/ AcquireDoes(x) \/ CallDoes(x) \/ Closes(x)
  PROVE Keeps(x)
<1>1. None \notin Txn
  BY ControlPlaneConstants
<1>2. CASE BeginDoes(x) \/ CallDoes(x)
  BY <1>2 DEF BeginDoes, CallDoes, Keeps
<1>3. CASE Closes(x)
  BY <1>1, <1>3 DEF Closes, Unlocked, Keeps, TypeOK
<1>4. CASE AcquireDoes(x)
  BY <1>1, <1>3, <1>4 DEF AcquireDoes, Locks, Keeps
<1> QED BY <1>2, <1>3, <1>4

\* A transaction on a run locks it, and finds and keeps the status it requires.
LEMMA BegunStep ==
  ASSUME TypeOK, NoneOK, BoundOK, BegunOK, StartOK, [Next]_vars PROVE
         BegunOK'
<1>1. ASSUME NEW x \in Txn, Begin(x) PROVE BegunOK'
  <2>1. BeginDoes(x) /\ Keeps(x)
    BY <1>1, BeginEffect, OthersKeep
  <2>2. ASSUME NEW y \in Txn \ {x} PROVE Ahead(y)' = Ahead(y)
    BY <2>1 DEF Keeps, Ahead
  <2> QED BY <2>1, <2>2, RequiresKinds DEF BeginDoes, BegunOK, Entered, Keeps
<1>2. ASSUME NEW x \in Txn, Acquire(x) PROVE BegunOK'
  <2>1. AcquireDoes(x) /\ Keeps(x)
    BY <1>2, AcquireEffect, OthersKeep
  <2>2. ASSUME NEW y \in Txn \ {x} PROVE Ahead(y)' = Ahead(y)
    BY <2>1 DEF Keeps, Ahead
  <2>3. CASE Closes(x)
    <3>1. txn'[x].kind \notin DOMAIN Requires
      BY <2>3, RequiresKinds DEF Closes, Idle, TypeOK
    <3> QED BY <2>1, <2>2, <3>1 DEF AcquireDoes, BegunOK, Entered, Keeps, Row
  <2>4. CASE Passes(x, Head(txn[x].plan)) /\ Locks(x, Head(txn[x].plan))
    <3>1. ASSUME txn[x].kind \in DOMAIN Requires, <<"run", txn[x].run>> \in Ahead(x)
          PROVE <<"run", txn[x].run>> \in Ahead(x)' \/ Entered(x)'
      <4>1. CASE <<"run", txn[x].run>> = Head(txn[x].plan)
        BY <2>4, <4>1, <2>1 DEF Locks, Passes, Entered, AcquireDoes
      <4>2. CASE <<"run", txn[x].run>> # Head(txn[x].plan)
        BY <2>4, <3>1, <4>2, RequiresKinds DEF Locks
      <4> QED BY <4>1, <4>2
    <3>2. ASSUME txn[x].kind \in DOMAIN Requires, Entered(x) PROVE Entered(x)'
      <4>1. txn[x].run \in Run /\ <<"run", txn[x].run>> \in Row
        BY <3>2 DEF BegunOK, Row
      <4>2. <<"run", txn[x].run>> # Head(txn[x].plan)
        BY <2>1, <3>2, ControlPlaneConstants DEF AcquireDoes, Entered
      <4> QED BY <2>1, <2>4, <3>2, <4>1, <4>2 DEF Locks, Entered, AcquireDoes
    <3>3. /\ txn'[x].kind = txn[x].kind /\ txn'[x].run = txn[x].run
          /\ run' = run
      BY <2>1, <2>4 DEF Locks, AcquireDoes
    <3>4. ASSUME NEW y \in Txn \ {x} PROVE txn'[y] = txn[y] /\ (Entered(y) => Entered(y)' \/ txn[y].run \notin Run)
      BY <2>1, <3>3 DEF Keeps, Entered, Row
    <3> QED BY <2>2, <3>1, <3>2, <3>3, <3>4 DEF BegunOK
  <2> QED BY <2>1, <2>3, <2>4 DEF AcquireDoes
<1>3. ASSUME NEW x \in Txn, Call(x) PROVE BegunOK'
  <2>1. CallDoes(x) /\ Keeps(x)
    BY <1>3, CallEffect, OthersKeep
  <2>2. ASSUME NEW y \in Txn \ {x} PROVE Ahead(y)' = Ahead(y)
    BY <2>1 DEF Keeps, Ahead
  <2>3. Ahead(x) = {} /\ Ahead(x)' = {}
    BY <2>1 DEF CallDoes, Ahead
  <2>4. txn'[x].kind = txn[x].kind /\ txn'[x].run = txn[x].run /\ UNCHANGED <<run, lock>>
    BY <2>1 DEF CallDoes
  <2>5. \A y \in Txn : Entered(y) => Entered(y)'
    BY <2>1, <2>4 DEF Entered, Keeps
  <2>6. \A y \in Txn : txn'[y].kind = txn[y].kind /\ txn'[y].run = txn[y].run /\ Ahead(y)' = Ahead(y)
    BY <2>1, <2>2, <2>3, <2>4 DEF Keeps
  <2> QED BY <2>4, <2>5, <2>6 DEF BegunOK
<1>4. ASSUME NEW x \in Txn, Commit(x) PROVE BegunOK'
  <2>1. CommitDoes(x) /\ Closes(x) /\ Keeps(x)
    BY <1>4, CommitEffect, OthersKeep DEF CommitDoes
  <2>2. ASSUME NEW y \in Txn \ {x} PROVE Ahead(y)' = Ahead(y)
    BY <2>1 DEF Keeps, Ahead
  <2>3. txn'[x].kind \notin DOMAIN Requires
    BY <2>1, RequiresKinds DEF Closes, Idle, TypeOK
  <2>4. ASSUME NEW y \in Txn \ {x}, txn[y].kind \in DOMAIN Requires
        PROVE /\ run'[txn[y].run].status # "none"
              /\ Entered(y) => Entered(y)'
    <3>1. CASE txn[x].kind = "start"
      <4>1. txn[y].run # txn[x].run /\ txn[y].run \in Run /\ run[txn[y].run].status # "none"
        BY <2>4, <3>1 DEF StartOK, BegunOK
      <4> QED BY <2>1, <4>1 DEF CommitDoes, Keeps, Entered, Row
    <3>2. CASE txn[x].kind # "start"
      <4>1. txn[y].run \in Run /\ run[txn[y].run].status # "none"
        BY <2>4 DEF BegunOK
      <4>2. Entered(x) /\ run'[txn[x].run].status # "none"
        BY <2>1, <3>2 DEF CommitDoes
      <4>3. Entered(y) => txn[y].run # txn[x].run
        BY <4>2 DEF Entered
      <4> QED BY <2>1, <4>1, <4>2, <4>3 DEF CommitDoes, Keeps, Entered, Row
    <3> QED BY <3>1, <3>2
  <2> QED BY <2>1, <2>2, <2>3, <2>4 DEF BegunOK, Keeps
<1>5. ASSUME NEW x \in Txn, Victim(x) PROVE BegunOK'
  <2>1. Closes(x) /\ Keeps(x) /\ run' = run
    BY <1>5, OthersKeep DEF Victim, Closes
  <2>2. ASSUME NEW y \in Txn \ {x} PROVE Ahead(y)' = Ahead(y)
    BY <2>1 DEF Keeps, Ahead
  <2>3. txn'[x].kind \notin DOMAIN Requires
    BY <2>1, RequiresKinds DEF Closes, Idle, TypeOK
  <2> QED BY <2>1, <2>2, <2>3 DEF BegunOK, Entered, Keeps, Row
<1>6. ASSUME NEW r \in Run, Dispatched(r) PROVE BegunOK'
  <2>1. DispatchedDoes(r)
    BY <1>6, DispatchedEffect
  <2>2. \A y \in Txn : Ahead(y)' = Ahead(y)
    BY <2>1 DEF DispatchedDoes, Ahead
  <2>3. \A y \in Txn : txn[y].run = r => ~Entered(y)
    BY <2>1, ControlPlaneConstants DEF DispatchedDoes, Entered
  <2> QED BY <2>1, <2>2, <2>3 DEF DispatchedDoes, BegunOK, Entered
<1>7. ASSUME NEW t \in Task, SetStatus(t) PROVE BegunOK'
  <2>1. UNCHANGED <<run, lock, txn>>
    BY <1>7 DEF SetStatus
  <2> QED BY <2>1 DEF BegunOK, Entered, Ahead
<1>8. ASSUME NEW t \in Task, Rebind(t) PROVE BegunOK'
  <2>1. UNCHANGED <<run, lock, txn>>
    BY <1>8 DEF Rebind
  <2> QED BY <2>1 DEF BegunOK, Entered, Ahead
<1>9. ASSUME NEW p \in Repository, Trust(p) PROVE BegunOK'
  <2>1. UNCHANGED <<run, lock, txn>>
    BY <1>9 DEF Trust
  <2> QED BY <2>1 DEF BegunOK, Entered, Ahead
<1>10. ASSUME UNCHANGED vars PROVE BegunOK'
  <2>1. UNCHANGED <<run, lock, txn>>
    BY <1>10 DEF vars
  <2> QED BY <2>1 DEF BegunOK, Entered, Ahead
<1> QED
  BY <1>1, <1>2, <1>3, <1>4, <1>5, <1>6, <1>7, <1>8, <1>9, <1>10 DEF Next,
     Step

\* A start is alone with its run and keeps the task it chose.
LEMMA StartStep ==
  ASSUME TypeOK, NoneOK, BoundOK, BegunOK, StartOK, [Next]_vars PROVE
         StartOK'
<1>1. ASSUME NEW x \in Txn, Begin(x) PROVE StartOK'
  <2>1. BeginDoes(x) /\ Keeps(x)
    BY <1>1, BeginEffect, OthersKeep
  <2>2. ASSUME NEW y \in Txn \ {x} PROVE Ahead(y)' = Ahead(y)
    BY <2>1 DEF Keeps, Ahead
  <2>3. ASSUME NEW y \in Txn \ {x}, Chosen(y), txn[y].kind = "start" PROVE Chosen(y)'
    BY <2>1, <2>2, <2>3 DEF BeginDoes, Keeps, Chosen, Active
  <2>4. ASSUME NEW y \in Txn \ {x}, txn[y].kind = "start" PROVE txn'[x].run # txn[y].run
    BY <2>1, <2>4, RequiresKinds DEF BeginDoes, StartOK
  <2>5. txn[x].run = None
    BY <2>1 DEF BeginDoes, NoneOK, Idle
  <2>6. txn'[x].kind = "start" =>
          /\ txn'[x].task \in Task /\ txn'[x].run \in Run /\ run'[txn'[x].run].status = "none"
          /\ \A y \in Txn \ {x} : txn'[y].run # txn'[x].run
          /\ txn'[x].plan = <<<<"task", txn'[x].task>>>>
    BY <2>1, RequiresKinds DEF BeginDoes, Keeps
  <2> QED BY <2>1, <2>3, <2>4, <2>6 DEF BeginDoes, StartOK, Keeps
<1>2. ASSUME NEW x \in Txn, Acquire(x) PROVE StartOK'
  <2>1. AcquireDoes(x) /\ Keeps(x) /\ UNCHANGED <<task, run>>
    BY <1>2, AcquireEffect, OthersKeep DEF AcquireDoes
  <2>2. ASSUME NEW y \in Txn \ {x} PROVE Ahead(y)' = Ahead(y)
    BY <2>1 DEF Keeps, Ahead
  <2>3. ASSUME NEW y \in Txn \ {x}, Chosen(y), txn[y].kind = "start" PROVE Chosen(y)'
    <3>1. <<"task", txn[y].task>> \in Row
      BY <2>3 DEF StartOK, Row
    <3> QED BY <2>1, <2>2, <2>3, <3>1 DEF Keeps, Chosen, Active
  <2>4. txn'[x].run \in {None, txn[x].run} /\ None \notin Run
    BY <2>1, ControlPlaneConstants DEF AcquireDoes, Closes, Locks, Idle, TypeOK
  <2>5. ASSUME txn'[x].kind = "start"
        PROVE /\ txn[x].kind = "start" /\ txn'[x].task = txn[x].task /\ txn'[x].run = txn[x].run
              /\ Chosen(x)'
    <3>1. Passes(x, Head(txn[x].plan)) /\ Locks(x, Head(txn[x].plan))
      BY <2>1, <2>5 DEF AcquireDoes, Closes, Idle, TypeOK
    <3>2. /\ txn[x].kind = "start" /\ txn'[x].task = txn[x].task /\ txn'[x].run = txn[x].run
          /\ \A w \in Ahead(x)' : w[1] = "repository"
      BY <2>5, <3>1 DEF Locks
    <3>3. CASE Head(txn[x].plan)[1] = "task"
      <4>1. Head(txn[x].plan) \in Ahead(x) /\ txn[x].plan = <<<<"task", txn[x].task>>>>
        BY <2>1, <3>2, <3>3 DEF AcquireDoes, StartOK, Chosen
      <4>2. Head(txn[x].plan) = <<"task", txn[x].task>>
        BY <4>1
      <4>3. MayStart(txn[x].task)
        BY <3>1, <3>2, <4>2 DEF Passes
      <4> QED BY <2>1, <3>1, <3>2, <4>2, <4>3 DEF Locks, Chosen, MayStart, Active
    <3>4. CASE Head(txn[x].plan)[1] # "task"
      <4>1. Chosen(x)
        <5>1. txn[x].plan = <<<<"task", txn[x].task>>>> => Head(txn[x].plan) = <<"task", txn[x].task>>
          OBVIOUS
        <5> QED BY <3>2, <3>4, <5>1 DEF StartOK
      <4>2. <<"task", txn[x].task>> \in Row /\ <<"task", txn[x].task>> # Head(txn[x].plan)
        BY <3>2, <3>4 DEF StartOK, Row
      <4> QED BY <2>1, <3>1, <3>2, <4>1, <4>2 DEF Locks, Chosen, Active
    <3> QED BY <3>2, <3>3, <3>4
  <2>6. ASSUME NEW y \in Txn, txn'[y].kind = "start"
        PROVE /\ txn[y].kind = "start" /\ txn'[y].task = txn[y].task /\ txn'[y].run = txn[y].run
              /\ txn'[y].plan = <<<<"task", txn[y].task>>>> \/ Chosen(y)'
    BY <2>1, <2>3, <2>5, <2>6 DEF Keeps, StartOK
  <2>7. ASSUME NEW y \in Txn, txn[y].kind = "start", NEW z \in Txn \ {y}
        PROVE txn'[z].run # txn[y].run
    BY <2>1, <2>4, <2>7 DEF Keeps, StartOK
  <2> QED BY <2>1, <2>6, <2>7 DEF StartOK
<1>3. ASSUME NEW x \in Txn, Call(x) PROVE StartOK'
  <2>1. CallDoes(x) /\ Keeps(x)
    BY <1>3, CallEffect, OthersKeep
  <2>2. ASSUME NEW y \in Txn \ {x} PROVE Ahead(y)' = Ahead(y)
    BY <2>1 DEF Keeps, Ahead
  <2>3. ASSUME NEW y \in Txn \ {x}, Chosen(y) PROVE Chosen(y)'
    BY <2>1, <2>2, <2>3 DEF CallDoes, Keeps, Chosen, Active
  <2> QED BY <2>1, <2>3 DEF CallDoes, StartOK, Keeps
<1>4. ASSUME NEW x \in Txn, Commit(x) PROVE StartOK'
  <2>1. Closes(x) /\ Keeps(x) /\ CommitDoes(x)
    BY <1>4, CommitEffect, OthersKeep DEF CommitDoes
  <2>2. ASSUME NEW y \in Txn \ {x} PROVE Ahead(y)' = Ahead(y)
    BY <2>1 DEF Keeps, Ahead
  <2>3. txn'[x].kind # "start" /\ txn'[x].run = None /\ None \notin Run
    BY <2>1, ControlPlaneConstants DEF Closes, Idle, TypeOK
  <2>4. ASSUME NEW y \in Txn \ {x}, txn[y].kind = "start"
        PROVE txn[y].run \in Run /\ run'[txn[y].run].status = "none" /\ txn[y].task \in Task
    BY <2>1, <2>4 DEF StartOK, CommitDoes
  <2>5. ASSUME NEW y \in Txn \ {x}, Chosen(y), txn[y].kind = "start" PROVE Chosen(y)'
    <3>1. <<"task", txn[y].task>> \in Row /\ txn[y].task \in Task
      BY <2>5 DEF StartOK, Row
    <3>2. ASSUME NEW r \in Run, run'[r].task = txn[y].task
          PROVE run'[r].status \notin {"preparing", "queued", "running"}
      <4>1. CASE r # txn[x].run
        BY <2>1, <2>5, <3>2, <4>1 DEF CommitDoes, Chosen, Active
      <4>2. CASE r = txn[x].run /\ txn[x].kind # "start"
        BY <2>1, <2>5, <3>2, <4>2 DEF CommitDoes, Chosen, Active
      <4>3. CASE r = txn[x].run /\ txn[x].kind = "start"
        <5>1. Chosen(x)
          <6>1. txn[x].plan = <<>> /\ txn[x].plan # <<<<"task", txn[x].task>>>>
            BY <2>1 DEF CommitDoes
          <6> QED BY <4>3, <6>1 DEF StartOK
        <5>2. txn[x].task = txn[y].task
          BY <2>1, <3>2, <4>3 DEF CommitDoes
        <5> QED BY <2>5, <5>1, <5>2 DEF Chosen
      <4> QED BY <4>1, <4>2, <4>3
    <3> QED BY <2>1, <2>2, <2>5, <3>1, <3>2 DEF CommitDoes, Keeps, Chosen, Active
  <2> QED BY <2>1, <2>3, <2>4, <2>5 DEF StartOK, Keeps
<1>5. ASSUME NEW x \in Txn, Victim(x) PROVE StartOK'
  <2>1. Closes(x) /\ Keeps(x) /\ UNCHANGED <<task, run>>
    BY <1>5, OthersKeep DEF Victim, Closes
  <2>2. ASSUME NEW y \in Txn \ {x} PROVE Ahead(y)' = Ahead(y)
    BY <2>1 DEF Keeps, Ahead
  <2>3. txn'[x].kind # "start" /\ txn'[x].run = None /\ None \notin Run
    BY <2>1, ControlPlaneConstants DEF Closes, Idle, TypeOK
  <2>4. ASSUME NEW y \in Txn \ {x}, Chosen(y), txn[y].kind = "start" PROVE Chosen(y)'
    <3>1. <<"task", txn[y].task>> \in Row
      BY <2>4 DEF StartOK, Row
    <3> QED BY <2>1, <2>2, <2>4, <3>1 DEF Keeps, Chosen, Active
  <2> QED BY <2>1, <2>3, <2>4 DEF StartOK, Keeps
<1>6. ASSUME NEW r \in Run, Dispatched(r) PROVE StartOK'
  <2>1. DispatchedDoes(r)
    BY <1>6, DispatchedEffect
  <2>2. ASSUME NEW y \in Txn PROVE Ahead(y)' = Ahead(y)
    BY <2>1 DEF DispatchedDoes, Ahead
  <2>3. ASSUME NEW y \in Txn, Chosen(y) PROVE Chosen(y)'
    BY <2>1, <2>2, <2>3 DEF DispatchedDoes, Chosen, Active
  <2> QED BY <2>1, <2>3 DEF DispatchedDoes, StartOK
<1>7. ASSUME NEW t \in Task, SetStatus(t) PROVE StartOK'
  <2>1. UNCHANGED <<run, lock, txn>> /\ \A s \in Task : task'[s].repository = task[s].repository
    BY <1>7 DEF SetStatus, TypeOK
  <2>2. ASSUME NEW y \in Txn, Chosen(y), txn[y].task \in Task PROVE Chosen(y)'
    BY <2>1, <2>2 DEF Chosen, Ahead, Active
  <2> QED BY <2>1, <2>2 DEF StartOK
<1>8. ASSUME NEW t \in Task, Rebind(t) PROVE StartOK'
  <2>1. /\ UNCHANGED <<run, lock, txn>> /\ lock[<<"task", t>>] = None
        /\ \A s \in Task \ {t} : task'[s] = task[s]
    BY <1>8 DEF Rebind, Free, TypeOK
  <2>2. ASSUME NEW y \in Txn, Chosen(y), txn[y].task \in Task PROVE Chosen(y)'
    BY <2>1, <2>2, ControlPlaneConstants DEF Chosen, Ahead, Active
  <2> QED BY <2>1, <2>2 DEF StartOK
<1>9. ASSUME NEW p \in Repository, Trust(p) PROVE StartOK'
  <2>1. UNCHANGED <<task, run, lock, txn>>
    BY <1>9 DEF Trust
  <2> QED BY <2>1 DEF StartOK, Chosen, Ahead, Active
<1>10. ASSUME UNCHANGED vars PROVE StartOK'
  <2>1. UNCHANGED <<task, run, lock, txn>>
    BY <1>10 DEF vars
  <2> QED BY <2>1 DEF StartOK, Chosen, Ahead, Active
<1> QED
  BY <1>1, <1>2, <1>3, <1>4, <1>5, <1>6, <1>7, <1>8, <1>9, <1>10 DEF Next,
     Step

\* A task has one active run: only a start that chose it adds one.
LEMMA ActiveStep ==
  ASSUME TypeOK, NoneOK, BoundOK, BegunOK, StartOK, OneActiveRun,
         [Next]_vars PROVE OneActiveRun'
<1>1. ASSUME NEW x \in Txn, Begin(x) PROVE OneActiveRun'
  <2>1. BeginDoes(x)
    BY <1>1, BeginEffect
  <2> QED
    BY <2>1 DEF BeginDoes, OneActiveRun, Active, TypeOK
<1>2. ASSUME NEW x \in Txn, Acquire(x) PROVE OneActiveRun'
  <2>1. AcquireDoes(x)
    BY <1>2, AcquireEffect
  <2> QED
    BY <2>1 DEF AcquireDoes, GiveUp, Unlocked, OneActiveRun, Active, TypeOK
<1>3. ASSUME NEW x \in Txn, Call(x) PROVE OneActiveRun'
  <2>1. CallDoes(x)
    BY <1>3, CallEffect
  <2> QED
    BY <2>1 DEF CallDoes, OneActiveRun, Active, TypeOK
<1>4. ASSUME NEW x \in Txn, Commit(x) PROVE OneActiveRun'
  <2>1. CommitDoes(x)
    BY <1>4, CommitEffect
  <2>2. CASE txn[x].kind # "start"
    <3>1. ASSUME NEW r \in Run, run'[r].status \in {"preparing", "queued", "running"}
          PROVE Active(r) /\ run'[r].task = run[r].task
      BY <2>1, <2>2, <3>1 DEF CommitDoes, Active
    <3> QED BY <3>1 DEF OneActiveRun, Active
  <2>3. CASE txn[x].kind = "start"
    <3>1. Chosen(x)
      <4>1. txn[x].plan = <<>> /\ txn[x].plan # <<<<"task", txn[x].task>>>>
        BY <2>1 DEF CommitDoes
      <4> QED BY <2>3, <4>1 DEF StartOK
    <3>2. ASSUME NEW r \in Run \ {txn[x].run} PROVE run'[r] = run[r]
      BY <2>1 DEF CommitDoes
    <3>3. run'[txn[x].run].task = txn[x].task
      BY <2>1, <2>3 DEF CommitDoes
    <3> QED BY <3>1, <3>2, <3>3 DEF OneActiveRun, Active, Chosen
  <2> QED BY <2>2, <2>3
<1>5. ASSUME NEW x \in Txn, Victim(x) PROVE OneActiveRun'
  BY <1>5 DEF Victim, Unlocked, OneActiveRun, Active, TypeOK
<1>6. ASSUME NEW r \in Run, Dispatched(r) PROVE OneActiveRun'
  <2>1. DispatchedDoes(r)
    BY <1>6, DispatchedEffect
  <2> QED
    BY <2>1 DEF DispatchedDoes, OneActiveRun, Active, TypeOK
<1>7. ASSUME NEW t \in Task, SetStatus(t) PROVE OneActiveRun'
  BY <1>7 DEF SetStatus, Free, OneActiveRun, Active, TypeOK
<1>8. ASSUME NEW t \in Task, Rebind(t) PROVE OneActiveRun'
  BY <1>8 DEF Rebind, Free, OneActiveRun, Active, TypeOK
<1>9. ASSUME NEW p \in Repository, Trust(p) PROVE OneActiveRun'
  BY <1>9 DEF Trust, OneActiveRun, Active, TypeOK
<1>10. ASSUME UNCHANGED vars PROVE OneActiveRun'
  BY <1>10 DEF vars, OneActiveRun, Active, TypeOK
<1> QED
  BY <1>1, <1>2, <1>3, <1>4, <1>5, <1>6, <1>7, <1>8, <1>9, <1>10 DEF Next,
     Step

----------------------------------------------------------------------------
(* The theorems                                                             *)

LEMMA SoundInit == Init => Sound
<1> SUFFICES ASSUME Init PROVE Sound
  OBVIOUS
<1>1. TypeOK
  BY IdleTyped DEF Init, TypeOK, TaskStatus, Execution
<1>2. NoneOK /\ BoundOK /\ PromptOK
  BY DEF Init, NoneOK, BoundOK, PromptOK, Idle
<1>3. BegunOK
  BY RequiresKinds DEF Init, BegunOK, Idle
<1>4. StartOK /\ OneActiveRun
  BY DEF Init, StartOK, OneActiveRun, Active, Idle
<1> QED BY <1>1, <1>2, <1>3, <1>4 DEF Sound

LEMMA SoundStep ==
  ASSUME Sound, [Next]_vars PROVE Sound'
<1> USE DEF Sound
<1>1. TypeOK' /\ NoneOK' /\ BoundOK' /\ PromptOK'
  BY TypeStep, NoneStep, BoundStep, PromptStep
<1>2. BegunOK' /\ StartOK' /\ OneActiveRun'
  BY BegunStep, StartStep, ActiveStep
<1> QED BY <1>1, <1>2

\* The invariant holds of every reachable state.
LEMMA SoundAlways == Spec => []Sound
<1>1. Sound /\ [Next]_vars => Sound'
  BY SoundStep
<1> QED BY <1>1, SoundInit, PTL DEF Spec

\* Every reachable state is well typed.
THEOREM TypeCorrect == Spec => []TypeOK
<1>1. Sound => TypeOK
  BY DEF Sound
<1> QED BY <1>1, SoundAlways, PTL

\* A task never has two active runs, whatever transactions start, end, abort
\* or publish its runs at the same time and in whatever order they lock.
THEOREM TasksHaveOneRun == Spec => []OneActiveRun
<1>1. Sound => OneActiveRun
  BY DEF Sound
<1> QED BY <1>1, SoundAlways, PTL

\* A transaction that sent its prompt waits for no lock, so it is never the
\* victim of a deadlock.
THEOREM SentPromptsAreUncut == Spec => []PromptsAreUncut
<1>1. ASSUME Sound PROVE PromptsAreUncut
  <2> SUFFICES ASSUME NEW x \in Txn, InCycle(x), txn[x].called PROVE FALSE
    BY <1>1 DEF PromptsAreUncut, Sound, TypeOK, Transaction
  <2>1. txn[x].plan = <<>>
    BY <1>1 DEF Sound, PromptOK
  <2>2. Cardinality(Txn) \in Nat
    BY ControlPlaneConstants, FS_CardinalityType
  <2>3. PICK n \in 1..Cardinality(Txn) :
          \E chain \in [0..n -> Txn] :
            chain[0] = x /\ \A i \in 0..n - 1 : WaitsFor(chain[i], chain[i + 1])
    BY DEF InCycle
  <2>4. 0 \in 0..n - 1
    BY <2>2
  <2>5. txn[x].plan # <<>>
    BY <2>3, <2>4 DEF WaitsFor
  <2> QED BY <2>1, <2>5
<1> QED BY <1>1, SoundAlways, PTL

=============================================================================
