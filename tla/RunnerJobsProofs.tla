-------------------------- MODULE RunnerJobsProofs --------------------------
(***************************************************************************)
(* Theorems about RunnerJobs, for any jobs, threads, connections, slots    *)
(* and fault bounds.                                                       *)
(***************************************************************************)
EXTENDS RunnerJobs, TLAPS, FiniteSetTheorems

----------------------------------------------------------------------------
(* The inductive invariant                                                  *)

\* A thread that works has a job, and something to record when it records.
WorkOK ==
  \A t \in Thread :
    IF work[t].at = "idle" THEN work[t] = Idle
    ELSE work[t].job \in Job /\ (work[t].at = "record" => work[t].outcome # "none")

\* A connection that is used has a job, and a result once docker run ended.
CallOK ==
  \A c \in Call :
    IF call[c].phase = "free" THEN call[c] = NoCall
    ELSE /\ call[c].job \in Job
         /\ call[c].phase = "ended" =>
              call[c].result \in {"completed", "failed", "timed_out", "cleanup_uncertain"}
         /\ call[c].phase = "replied" => call[c].result # "none"

\* A container answers to the call that runs it, and has sources once it runs.
BoxOK ==
  \A j \in Job :
    IF box[j].at = "none" THEN box[j] = NoBox
    ELSE /\ box[j].by # NoOne =>
              call[box[j].by].phase = "running" /\ call[box[j].by].job = j
         /\ box[j].at = "running" => box[j].source \in Source

\* Only a running row is leased.
RowOK == \A j \in Job : job[j].live => job[j].status = "running"

\* A client of a call waits for that call alone, for the job they share.
ClientOK ==
  /\ \A c \in Call : call[c].client # NoOne =>
       work[call[c].client].at = "wait" /\ work[call[c].client].job = call[c].job
  /\ \A c, d \in Call : call[c].client = call[d].client /\ call[c].client # NoOne => c = d

\* Threads, calls and containers carry jobs that were enqueued.
KnownOK ==
  /\ \A t \in Thread : work[t].job \in Job => job[work[t].job].status # "absent"
  /\ \A c \in Call : call[c].job \in Job => job[call[c].job].status # "absent"
  /\ \A j \in Job : box[j] # NoBox => job[j].status # "absent"

\* The job's command exited 0, on the sources of its snapshot if it has one.
Proven(j) ==
  IF job[j].snapshot = NoSnapshot THEN passed[j] # {} ELSE job[j].snapshot \in passed[j]

\* A success is proven wherever it is on its way to the row.
ProvenOK ==
  /\ \A j \in Job : box[j].at = "running" => job[j].snapshot \in {NoSnapshot, box[j].source}
  /\ \A c \in Call : call[c].phase \in {"ended", "replied"} /\ call[c].result = "completed"
                      => Proven(call[c].job)
  /\ \A t \in Thread : work[t].at = "record" /\ work[t].outcome = "completed"
                        => Proven(work[t].job)
  /\ CompletedIsProven

Sound == TypeOK /\ WorkOK /\ CallOK /\ BoxOK /\ RowOK /\ ClientOK /\ KnownOK /\ ProvenOK

----------------------------------------------------------------------------
(* What the steps do to a row, a request and a container                    *)

\* Call c goes to that phase with that result; the other calls stay.
Moves(c, phase, result) ==
  /\ call' \in [Call -> Request]
  /\ call'[c].phase = phase /\ call'[c].result = result
  /\ call'[c].job = call[c].job /\ call'[c].client = call[c].client
  /\ \A d \in Call \ {c} : call'[d] = call[d]

\* Row j gets that status and lease; its snapshot and the other rows stay.
Rewrites(j, status, live) ==
  /\ job' \in [Job -> Row]
  /\ job'[j].status = status /\ job'[j].live = live
  /\ job'[j].snapshot = job[j].snapshot
  /\ \A k \in Job \ {j} : job'[k] = job[k]

LEMMA EndsMoves ==
  ASSUME call \in [Call -> Request], NEW c \in Call, NEW r \in Result, Ends(c, r)
  PROVE Moves(c, "ended", r)
<1> DEFINE new == [call[c] EXCEPT !.phase = "ended", !.result = r]
<1>1. new \in Request /\ new.phase = "ended" /\ new.result = r
      /\ new.job = call[c].job /\ new.client = call[c].client
  BY DEF Request
<1>2. call' = [call EXCEPT ![c] = new]
  BY DEF Ends
<1> HIDE DEF new
<1> QED BY <1>1, <1>2 DEF Moves

LEMMA RepliesMoves ==
  ASSUME call \in [Call -> Request], NEW c \in Call, NEW r \in Result, Replies(c, r)
  PROVE Moves(c, "replied", r)
<1> DEFINE new == [call[c] EXCEPT !.phase = "replied", !.result = r]
<1>1. new \in Request /\ new.phase = "replied" /\ new.result = r
      /\ new.job = call[c].job /\ new.client = call[c].client
  BY DEF Request
<1>2. call' = [call EXCEPT ![c] = new]
  BY DEF Replies
<1> HIDE DEF new
<1> QED BY <1>1, <1>2 DEF Moves

LEMMA BecomesRow ==
  ASSUME job \in [Job -> Row], NEW j \in Job, NEW s \in JobStatus, Becomes(j, s)
  PROVE Rewrites(j, s, FALSE)
<1> DEFINE new == [job[j] EXCEPT !.status = s, !.holder = NoOne, !.live = FALSE]
<1>1. new \in Row /\ new.status = s /\ new.live = FALSE /\ new.snapshot = job[j].snapshot
  BY DEF Row
<1>2. job' = [job EXCEPT ![j] = new]
  BY DEF Becomes
<1> HIDE DEF new
<1> QED BY <1>1, <1>2 DEF Rewrites

\* A new job is queued; it was absent.
EnqueueDoes(j) ==
  /\ job' \in [Job -> Row] /\ job[j].status = "absent"
  /\ job'[j].status = "queued" /\ job'[j].live = job[j].live
  /\ \A k \in Job \ {j} : job'[k] = job[k]
  /\ enqueued' \in [Job -> {"ready", "inspecting", "retained"}]

LEMMA EnqueueEffect ==
  ASSUME TypeOK, NEW j \in Job, NEW s \in {NoSnapshot, content}, Enqueue(j, s)
  PROVE EnqueueDoes(j)
<1> DEFINE new == [job[j] EXCEPT !.status = "queued", !.snapshot = s]
<1>1. job[j] \in Row /\ s \in Source \union {NoSnapshot}
  BY DEF TypeOK
<1>2. new \in Row /\ new.status = "queued" /\ new.live = job[j].live
  BY <1>1 DEF Row, JobStatus
<1>3. job' = [job EXCEPT ![j] = new]
  BY <1>1 DEF Enqueue, TypeOK
<1>4. workspace \in {"ready", "inspecting", "retained"}
  BY DEF Enqueue, Runnable, RunnableWorkspace
<1> HIDE DEF new
<1> QED BY <1>2, <1>3, <1>4 DEF Enqueue, TypeOK, EnqueueDoes

\* A due job is leased by the thread that goes on to authorize it.
ClaimDoes(t, j) ==
  Rewrites(j, "running", TRUE) /\ job'[j].holder = t

LEMMA ClaimEffect ==
  ASSUME TypeOK, NEW t \in Thread, NEW j \in Job, Claim(t, j)
  PROVE ClaimDoes(t, j)
<1> DEFINE new == [job[j] EXCEPT !.status = "running", !.holder = t, !.live = TRUE]
<1>1. job[j] \in Row
  BY DEF TypeOK
<1>2. new \in Row /\ new.status = "running" /\ new.live = TRUE /\ new.holder = t
      /\ new.snapshot = job[j].snapshot
  BY <1>1 DEF Row, JobStatus
<1>3. job' = [job EXCEPT ![j] = new]
  BY DEF Claim
<1> HIDE DEF new
<1> QED BY <1>2, <1>3 DEF Rewrites, TypeOK, ClaimDoes

\* A thread writes the row only while it owns it.
AuthorizeDoes(t) ==
  /\ work[t].job \in Job
  /\ \/ job' = job /\ ~Owned(t) /\ Leaves(t)
     \/ Owned(t) /\ Rewrites(work[t].job, "rejected", FALSE) /\ Leaves(t)
     \/ job' = job /\ Owned(t) /\ Goes(t, "send", work[t].job, "none")

LEMMA AuthorizeEffect ==
  ASSUME TypeOK, WorkOK, NEW t \in Thread, Authorize(t)
  PROVE AuthorizeDoes(t)
<1>1. work[t].job \in Job
  BY DEF Authorize, WorkOK
<1>2. "rejected" \in JobStatus /\ job \in [Job -> Row]
  BY DEF JobStatus, Settled, TypeOK
<1> QED BY <1>1, <1>2, BecomesRow DEF Authorize, AuthorizeDoes

\* A thread that records leaves, and writes the row only while it owns it.
RecordDoes(t) ==
  /\ work[t].job \in Job /\ work[t].outcome \in {"retry"} \union Settled /\ Leaves(t)
  /\ \/ job' = job /\ ~Owned(t)
     \/ Owned(t) /\ Rewrites(work[t].job, StatusOf(work[t].outcome), FALSE)

LEMMA RecordEffect ==
  ASSUME TypeOK, WorkOK, NEW t \in Thread, Record(t)
  PROVE RecordDoes(t)
<1>1. work[t].job \in Job /\ work[t].outcome \in {"retry"} \union Settled
  BY DEF Record, WorkOK, TypeOK, Work
<1>2. StatusOf(work[t].outcome) \in JobStatus /\ job \in [Job -> Row]
  BY <1>1 DEF StatusOf, JobStatus, TypeOK
<1> QED BY <1>1, <1>2, BecomesRow DEF Record, RecordDoes

\* A live lease is dropped and nothing else changes in the row.
LeaseExpiresDoes(j) ==
  Rewrites(j, job[j].status, FALSE) /\ job[j].live

LEMMA LeaseExpiresEffect ==
  ASSUME TypeOK, NEW j \in Job, LeaseExpires(j)
  PROVE LeaseExpiresDoes(j)
<1> DEFINE new == [job[j] EXCEPT !.live = FALSE]
<1>1. job[j] \in Row
  BY DEF TypeOK
<1>2. new \in Row /\ new.status = job[j].status /\ new.live = FALSE
      /\ new.snapshot = job[j].snapshot
  BY <1>1 DEF Row
<1>3. job' = [job EXCEPT ![j] = new]
  BY <1>1 DEF LeaseExpires
<1> HIDE DEF new
<1> QED BY <1>2, <1>3 DEF Rewrites, TypeOK, LeaseExpires, LeaseExpiresDoes

\* The request is refused, loses its name, or gets a fresh container.
AcceptDoes(c) ==
  /\ call[c].phase = "arrived" /\ UNCHANGED <<job, work, world, history>>
  /\ \/ box' = box /\ \E r \in {"rejected", "busy"} : Moves(c, "replied", r)
     \/ box' = box /\ Moves(c, "ended", "failed")
     \/ /\ box[call[c].job] = NoBox /\ Moves(c, "running", call[c].result)
        /\ box' = [box EXCEPT ![call[c].job] =
                     [at |-> "booting", by |-> c, source |-> NoSnapshot]]

LEMMA AcceptEffect ==
  ASSUME TypeOK, NEW c \in Call, Accept(c)
  PROVE AcceptDoes(c)
<1>1. ASSUME Replies(c, "rejected") PROVE Moves(c, "replied", "rejected")
  BY <1>1, RepliesMoves DEF Result, Settled, TypeOK
<1>2. ASSUME Replies(c, "busy") PROVE Moves(c, "replied", "busy")
  BY <1>2, RepliesMoves DEF Result, Settled, TypeOK
<1>3. ASSUME Ends(c, "failed") PROVE Moves(c, "ended", "failed")
  BY <1>3, EndsMoves DEF Result, Settled, Confirmed, TypeOK
<1>4. ASSUME ~NameTaken(call[c].job), Launch(c, call[c].job)
      PROVE box[call[c].job] = NoBox /\ Moves(c, "running", call[c].result)
  <2> DEFINE new == [call[c] EXCEPT !.phase = "running"]
  <2>1. new \in Request /\ new.phase = "running" /\ new.result = call[c].result
        /\ new.job = call[c].job /\ new.client = call[c].client
    BY DEF Request, TypeOK
  <2>2. call' = [call EXCEPT ![c] = new]
    BY <1>4 DEF Launch
  <2> HIDE DEF new
  <2> QED BY <1>4, <2>1, <2>2 DEF NameTaken, Moves, TypeOK
<1> QED BY <1>1, <1>2, <1>3, <1>4 DEF Accept, Crowded, Launch, AcceptDoes

\* The call ends as failed, timed out, or with its container left alone.
InterruptedDoes(c) ==
  /\ call[c].phase = "running" /\ UNCHANGED <<job, work, world, history>>
  /\ call[c].job \in Job
  /\ \/ box[call[c].job].by # c /\ box' = box /\ Moves(c, "ended", "failed")
     \/ Moves(c, "ended", "timed_out") /\ box' = [box EXCEPT ![call[c].job] = NoBox]
     \/ /\ box[call[c].job].by = c /\ Moves(c, "ended", "cleanup_uncertain")
        /\ box' \in [Job -> Box] /\ box'[call[c].job].by = NoOne
        /\ box'[call[c].job].at = box[call[c].job].at
        /\ box'[call[c].job].source = box[call[c].job].source
        /\ \A k \in Job \ {call[c].job} : box'[k] = box[k]

LEMMA InterruptedEffect ==
  ASSUME TypeOK, CallOK, NEW c \in Call, Interrupted(c)
  PROVE InterruptedDoes(c)
<1>1. \A r \in {"failed", "timed_out", "cleanup_uncertain"} : Ends(c, r) => Moves(c, "ended", r)
  BY EndsMoves DEF Result, Settled, Confirmed, TypeOK
<1>2. call[c].job \in Job
  BY DEF Interrupted, CallOK
<1>3. ASSUME box' = [box EXCEPT ![call[c].job].by = NoOne]
      PROVE /\ box' \in [Job -> Box] /\ box'[call[c].job].by = NoOne
            /\ box'[call[c].job].at = box[call[c].job].at
            /\ box'[call[c].job].source = box[call[c].job].source
            /\ \A k \in Job \ {call[c].job} : box'[k] = box[k]
  <2> DEFINE new == [box[call[c].job] EXCEPT !.by = NoOne]
  <2>1. new \in Box /\ new.by = NoOne /\ new.at = box[call[c].job].at
        /\ new.source = box[call[c].job].source
    BY <1>2 DEF Box, TypeOK
  <2>2. box' = [box EXCEPT ![call[c].job] = new]
    BY <1>3
  <2> HIDE DEF new
  <2> QED BY <1>2, <2>1, <2>2 DEF TypeOK
<1> QED BY <1>1, <1>2, <1>3 DEF Interrupted, Remove, InterruptedDoes

\* The container is removed, or the reply says that it may not be.
CleanupDoes(c) ==
  /\ call[c].phase = "ended" /\ UNCHANGED <<job, work, world, history>>
  /\ call[c].job \in Job
  /\ \/ Moves(c, "replied", call[c].result) /\ box' = [box EXCEPT ![call[c].job] = NoBox]
     \/ Moves(c, "replied", "cleanup_uncertain") /\ box' = box

LEMMA CleanupEffect ==
  ASSUME TypeOK, CallOK, NEW c \in Call, Cleanup(c)
  PROVE CleanupDoes(c)
<1>1. call[c].result \in Result /\ "cleanup_uncertain" \in Result /\ call[c].job \in Job
  BY DEF Request, Result, Settled, TypeOK, CallOK, Cleanup
<1> QED BY <1>1, RepliesMoves DEF Cleanup, Remove, Unconfirmed, TypeOK, CleanupDoes

\* The call is forgotten; its container is removed if it could have one.
ReplyFailsDoes(c) ==
  /\ UNCHANGED <<job, work, world, history>>
  /\ call[c].phase = "replied" /\ call[c].client = NoOne /\ call[c].job \in Job
  /\ call' = [call EXCEPT ![c] = NoCall]
  /\ \/ box' = box /\ call[c].result \in {"busy", "rejected"}
     \/ box' = [box EXCEPT ![call[c].job] = NoBox]

LEMMA ReplyFailsEffect ==
  ASSUME TypeOK, CallOK, NEW c \in Call, ReplyFails(c)
  PROVE ReplyFailsDoes(c)
<1>1. call[c].job \in Job
  BY DEF CallOK, ReplyFails
<1>2. ASSUME call[c].result \in {"busy", "rejected"} PROVE box' = box
  BY <1>1, <1>2 DEF ReplyFails, TypeOK
<1> QED BY <1>1, <1>2 DEF ReplyFails, ReplyFailsDoes

LEMMA ExitsEffect ==
  ASSUME TypeOK, NEW j \in Job, NEW r \in {"completed", "failed"}, Exits(j, r)
  PROVE /\ box' = [box EXCEPT ![j] = NoBox]
        /\ IF box[j].by = NoOne THEN call' = call
           ELSE box[j].by \in Call /\ Moves(box[j].by, "ended", r)
<1>1. box[j].by \in Call \union {NoOne}
  BY DEF Box, TypeOK
<1> QED BY <1>1, EndsMoves DEF Exits, Result, Settled, Confirmed, TypeOK

\* The container runs on the sources its job asked for, or exits.
BootDoes(j) ==
  /\ box[j].at = "booting" /\ UNCHANGED <<job, work, world, passed, enqueued, faults>>
  /\ \/ /\ job[j].snapshot \in {NoSnapshot, content} /\ box' \in [Job -> Box]
        /\ box'[j].at = "running" /\ box'[j].source = content
        /\ box'[j].by = box[j].by /\ UNCHANGED <<call, failed>>
        /\ \A k \in Job \ {j} : box'[k] = box[k]
     \/ Exits(j, "failed") /\ failed' = failed \union {j}

LEMMA BootEffect ==
  ASSUME TypeOK, NEW j \in Job, Boot(j)
  PROVE BootDoes(j)
<1> DEFINE new == [box[j] EXCEPT !.at = "running", !.source = content]
<1>1. new \in Box /\ new.at = "running" /\ new.source = content /\ new.by = box[j].by
  BY DEF Box, TypeOK
<1>2. CASE Verified(j)
  <2>1. box' = [box EXCEPT ![j] = new]
    BY <1>2 DEF Boot
  <2> HIDE DEF new
  <2> QED BY <1>1, <1>2, <2>1 DEF Boot, Verified, TypeOK, BootDoes
<1>3. CASE ~Verified(j)
  BY <1>3 DEF Boot, BootDoes
<1> QED BY <1>2, <1>3 DEF BootDoes

\* The command exits; a success is noted with its sources.
CommandEndsDoes(j) ==
  /\ box[j].at = "running" /\ UNCHANGED <<job, work, world, enqueued, faults>>
  /\ passed' \in [Job -> SUBSET Source] \/ box[j].source = NoSnapshot
  /\ \A k \in Job : passed[k] \subseteq passed'[k]
  /\ \/ Exits(j, "completed") /\ box[j].source \in passed'[j] /\ failed' = failed
     \/ Exits(j, "failed") /\ failed' = failed \union {j}

LEMMA CommandEndsEffect ==
  ASSUME TypeOK, NEW j \in Job, CommandEnds(j)
  PROVE CommandEndsDoes(j)
<1>1. ASSUME passed' = [passed EXCEPT ![j] = @ \union {box[j].source}]
      PROVE /\ \A k \in Job : passed[k] \subseteq passed'[k]
            /\ box[j].source \in passed'[j]
            /\ passed' \in [Job -> SUBSET Source] \/ box[j].source = NoSnapshot
  BY <1>1 DEF TypeOK, Box
<1>2. ASSUME UNCHANGED passed
      PROVE passed' \in [Job -> SUBSET Source] /\ \A k \in Job : passed[k] \subseteq passed'[k]
  BY <1>2 DEF TypeOK
<1> QED BY <1>1, <1>2 DEF CommandEnds, CommandEndsDoes

----------------------------------------------------------------------------
(* Every step preserves the invariant                                       *)

\* Threads stay well typed.
LEMMA WorkTyped ==
  ASSUME TypeOK, WorkOK, CallOK, [Next]_vars PROVE work' \in [Thread ->
         Work]
<1>1. ASSUME NEW j \in Job, NEW s \in {NoSnapshot, content}, Enqueue(j, s)
      PROVE work' \in [Thread -> Work]
  <2>1. EnqueueDoes(j)
    BY <1>1, EnqueueEffect
  <2> QED
    BY <1>1, <2>1 DEF EnqueueDoes, Enqueue, TypeOK, Work, Idle, WorkOK,
       Request, Result, Settled, Confirmed, world, history
<1>2. ASSUME NEW t \in Thread, NEW j \in Job, Claim(t, j) PROVE work' \in
      [Thread -> Work]
  <2>1. ClaimDoes(t, j)
    BY <1>2, ClaimEffect
  <2> QED
    BY <1>2, <2>1 DEF ClaimDoes, Claim, Goes, TypeOK, Work, Idle, WorkOK,
       Request, Result, Settled, Confirmed, world, history
<1>3. ASSUME NEW t \in Thread, Authorize(t) PROVE work' \in [Thread -> Work]
  <2>1. AuthorizeDoes(t)
    BY <1>3, AuthorizeEffect
  <2> QED
    BY <1>3, <2>1 DEF AuthorizeDoes, Authorize, Goes, Leaves, TypeOK, Work,
       Idle, WorkOK, Request, Result, Settled, Confirmed, world, history
<1>4. ASSUME NEW t \in Thread, ConnectRefused(t) PROVE work' \in [Thread ->
      Work]
  BY <1>4 DEF ConnectRefused, Use, Goes, TypeOK, Work, Idle, WorkOK,
     Request, Result, Settled, Confirmed, world, history
<1>5. ASSUME NEW t \in Thread, HungUp(t) PROVE work' \in [Thread -> Work]
  BY <1>5 DEF HungUp, Unknown, Leaves, Orphaned, TypeOK, Work, Idle, WorkOK,
     Request, Result, Settled, Confirmed, world, history
<1>6. ASSUME NEW t \in Thread, SocketBreaks(t) PROVE work' \in [Thread -> Work]
  BY <1>6 DEF SocketBreaks, Use, Unknown, Leaves, Orphaned, TypeOK, Work,
     Idle, WorkOK, Request, Result, Settled, Confirmed, world, history
<1>7. ASSUME NEW t \in Thread, Record(t) PROVE work' \in [Thread -> Work]
  <2>1. RecordDoes(t)
    BY <1>7, RecordEffect
  <2> QED
    BY <1>7, <2>1 DEF RecordDoes, Record, Leaves, TypeOK, Work, Idle,
       WorkOK, Request, Result, Settled, Confirmed, world, history
<1>8. ASSUME NEW t \in Thread, NEW c \in Call, Send(t, c) PROVE work' \in
      [Thread -> Work]
  BY <1>8 DEF Send, Goes, TypeOK, Work, Idle, WorkOK, Request, Result,
     Settled, Confirmed, world, history
<1>9. ASSUME NEW t \in Thread, NEW c \in Call, Receive(t, c) PROVE work' \in
      [Thread -> Work]
  BY <1>9 DEF Receive, Goes, OutcomeOf, TypeOK, Work, Idle, WorkOK, Request,
     Result, Settled, Confirmed, world, history
<1>10. ASSUME NEW c \in Call, Accept(c) PROVE work' \in [Thread -> Work]
  <2>1. AcceptDoes(c)
    BY <1>10, AcceptEffect
  <2> QED
    BY <1>10, <2>1 DEF AcceptDoes, TypeOK, Work, Idle, WorkOK, Request,
       Result, Settled, Confirmed, world, history
<1>11. ASSUME NEW c \in Call, Interrupted(c) PROVE work' \in [Thread -> Work]
  <2>1. InterruptedDoes(c)
    BY <1>11, InterruptedEffect
  <2> QED
    BY <1>11, <2>1 DEF InterruptedDoes, TypeOK, Work, Idle, WorkOK, Request,
       Result, Settled, Confirmed, world, history
<1>12. ASSUME NEW c \in Call, Cleanup(c) PROVE work' \in [Thread -> Work]
  <2>1. CleanupDoes(c)
    BY <1>12, CleanupEffect
  <2> QED
    BY <1>12, <2>1 DEF CleanupDoes, TypeOK, Work, Idle, WorkOK, Request,
       Result, Settled, Confirmed, world, history
<1>13. ASSUME NEW c \in Call, ReplyFails(c) PROVE work' \in [Thread -> Work]
  BY <1>13 DEF ReplyFails, TypeOK, Work, Idle, WorkOK, Request, Result,
     Settled, Confirmed, world, history
<1>14. ASSUME NEW j \in Job, Boot(j) PROVE work' \in [Thread -> Work]
  BY <1>14 DEF Boot, TypeOK, Work, Idle, WorkOK, Request, Result, Settled,
     Confirmed, world, history
<1>15. ASSUME NEW j \in Job, CommandEnds(j) PROVE work' \in [Thread -> Work]
  BY <1>15 DEF CommandEnds, TypeOK, Work, Idle, WorkOK, Request, Result,
     Settled, Confirmed, world, history
<1>16. ASSUME NEW j \in Job, LeaseExpires(j) PROVE work' \in [Thread -> Work]
  <2>1. LeaseExpiresDoes(j)
    BY <1>16, LeaseExpiresEffect
  <2> QED
    BY <1>16, <2>1 DEF LeaseExpiresDoes, LeaseExpires, TypeOK, Work, Idle,
       WorkOK, Request, Result, Settled, Confirmed, world, history
<1>17. ASSUME Crash PROVE work' \in [Thread -> Work]
  BY <1>17 DEF Crash, Use, Orphaned, TypeOK, Work, Idle, WorkOK, Request,
     Result, Settled, Confirmed, world, history
<1>18. ASSUME DaemonRestarts PROVE work' \in [Thread -> Work]
  BY <1>18 DEF DaemonRestarts, Use, TypeOK, Work, Idle, WorkOK, Request,
     Result, Settled, Confirmed, world, history
<1>19. ASSUME Environment \/ UNCHANGED vars PROVE work' \in [Thread -> Work]
  BY <1>19 DEF Environment, RunChanges, WorkspaceChanges, TrustRevoked,
     SourcesEdited, vars, TypeOK, Work, Idle, WorkOK, Request, Result, Settled,
     Confirmed, world, history
<1> QED
  BY <1>1, <1>2, <1>3, <1>4, <1>5, <1>6, <1>7, <1>8, <1>9, <1>10, <1>11,
     <1>12, <1>13, <1>14, <1>15, <1>16, <1>17, <1>18, <1>19 DEF Next,
     ManagerStep, DaemonStep

\* A thread that works keeps its job and has an outcome to record.
LEMMA WorkStep ==
  ASSUME TypeOK, WorkOK, CallOK, [Next]_vars PROVE WorkOK'
<1>1. ASSUME NEW j \in Job, NEW s \in {NoSnapshot, content}, Enqueue(j, s)
      PROVE WorkOK'
  <2>1. EnqueueDoes(j)
    BY <1>1, EnqueueEffect
  <2> QED
    BY <1>1, <2>1 DEF EnqueueDoes, Enqueue, TypeOK, Work, Idle, WorkOK,
       CallOK, Request, Result, Settled, Confirmed, world, history
<1>2. ASSUME NEW t \in Thread, NEW j \in Job, Claim(t, j) PROVE WorkOK'
  <2>1. ClaimDoes(t, j)
    BY <1>2, ClaimEffect
  <2> QED
    BY <1>2, <2>1 DEF ClaimDoes, Claim, Goes, TypeOK, Work, Idle, WorkOK,
       CallOK, Request, Result, Settled, Confirmed, world, history
<1>3. ASSUME NEW t \in Thread, Authorize(t) PROVE WorkOK'
  <2>1. AuthorizeDoes(t)
    BY <1>3, AuthorizeEffect
  <2> QED
    BY <1>3, <2>1 DEF AuthorizeDoes, Authorize, Goes, Leaves, TypeOK, Work,
       Idle, WorkOK, CallOK, Request, Result, Settled, Confirmed, world,
       history
<1>4. ASSUME NEW t \in Thread, ConnectRefused(t) PROVE WorkOK'
  BY <1>4 DEF ConnectRefused, Use, Goes, TypeOK, Work, Idle, WorkOK, CallOK,
     Request, Result, Settled, Confirmed, world, history
<1>5. ASSUME NEW t \in Thread, HungUp(t) PROVE WorkOK'
  BY <1>5 DEF HungUp, Unknown, Leaves, Orphaned, TypeOK, Work, Idle, WorkOK,
     CallOK, Request, Result, Settled, Confirmed, world, history
<1>6. ASSUME NEW t \in Thread, SocketBreaks(t) PROVE WorkOK'
  BY <1>6 DEF SocketBreaks, Use, Unknown, Leaves, Orphaned, TypeOK, Work,
     Idle, WorkOK, CallOK, Request, Result, Settled, Confirmed, world, history
<1>7. ASSUME NEW t \in Thread, Record(t) PROVE WorkOK'
  <2>1. RecordDoes(t)
    BY <1>7, RecordEffect
  <2> QED
    BY <1>7, <2>1 DEF RecordDoes, Record, Leaves, TypeOK, Work, Idle,
       WorkOK, CallOK, Request, Result, Settled, Confirmed, world, history
<1>8. ASSUME NEW t \in Thread, NEW c \in Call, Send(t, c) PROVE WorkOK'
  BY <1>8 DEF Send, Goes, TypeOK, Work, Idle, WorkOK, CallOK, Request,
     Result, Settled, Confirmed, world, history
<1>9. ASSUME NEW t \in Thread, NEW c \in Call, Receive(t, c) PROVE WorkOK'
  BY <1>9 DEF Receive, Goes, OutcomeOf, TypeOK, Work, Idle, WorkOK, CallOK,
     Request, Result, Settled, Confirmed, world, history
<1>10. ASSUME NEW c \in Call, Accept(c) PROVE WorkOK'
  <2>1. AcceptDoes(c)
    BY <1>10, AcceptEffect
  <2> QED
    BY <1>10, <2>1 DEF AcceptDoes, TypeOK, Work, Idle, WorkOK, CallOK,
       Request, Result, Settled, Confirmed, world, history
<1>11. ASSUME NEW c \in Call, Interrupted(c) PROVE WorkOK'
  <2>1. InterruptedDoes(c)
    BY <1>11, InterruptedEffect
  <2> QED
    BY <1>11, <2>1 DEF InterruptedDoes, TypeOK, Work, Idle, WorkOK, CallOK,
       Request, Result, Settled, Confirmed, world, history
<1>12. ASSUME NEW c \in Call, Cleanup(c) PROVE WorkOK'
  <2>1. CleanupDoes(c)
    BY <1>12, CleanupEffect
  <2> QED
    BY <1>12, <2>1 DEF CleanupDoes, TypeOK, Work, Idle, WorkOK, CallOK,
       Request, Result, Settled, Confirmed, world, history
<1>13. ASSUME NEW c \in Call, ReplyFails(c) PROVE WorkOK'
  BY <1>13 DEF ReplyFails, TypeOK, Work, Idle, WorkOK, CallOK, Request,
     Result, Settled, Confirmed, world, history
<1>14. ASSUME NEW j \in Job, Boot(j) PROVE WorkOK'
  BY <1>14 DEF Boot, TypeOK, Work, Idle, WorkOK, CallOK, Request, Result,
     Settled, Confirmed, world, history
<1>15. ASSUME NEW j \in Job, CommandEnds(j) PROVE WorkOK'
  BY <1>15 DEF CommandEnds, TypeOK, Work, Idle, WorkOK, CallOK, Request,
     Result, Settled, Confirmed, world, history
<1>16. ASSUME NEW j \in Job, LeaseExpires(j) PROVE WorkOK'
  <2>1. LeaseExpiresDoes(j)
    BY <1>16, LeaseExpiresEffect
  <2> QED
    BY <1>16, <2>1 DEF LeaseExpiresDoes, LeaseExpires, TypeOK, Work, Idle,
       WorkOK, CallOK, Request, Result, Settled, Confirmed, world, history
<1>17. ASSUME Crash PROVE WorkOK'
  BY <1>17 DEF Crash, Use, Orphaned, TypeOK, Work, Idle, WorkOK, CallOK,
     Request, Result, Settled, Confirmed, world, history
<1>18. ASSUME DaemonRestarts PROVE WorkOK'
  BY <1>18 DEF DaemonRestarts, Use, TypeOK, Work, Idle, WorkOK, CallOK,
     Request, Result, Settled, Confirmed, world, history
<1>19. ASSUME Environment \/ UNCHANGED vars PROVE WorkOK'
  BY <1>19 DEF Environment, RunChanges, WorkspaceChanges, TrustRevoked,
     SourcesEdited, vars, TypeOK, Work, Idle, WorkOK, CallOK, Request, Result,
     Settled, Confirmed, world, history
<1> QED
  BY <1>1, <1>2, <1>3, <1>4, <1>5, <1>6, <1>7, <1>8, <1>9, <1>10, <1>11,
     <1>12, <1>13, <1>14, <1>15, <1>16, <1>17, <1>18, <1>19 DEF Next,
     ManagerStep, DaemonStep

\* Rows stay well typed.
LEMMA JobTyped ==
  ASSUME TypeOK, WorkOK, CallOK, [Next]_vars PROVE job' \in [Job -> Row]
<1>1. ASSUME NEW j \in Job, NEW s \in {NoSnapshot, content}, Enqueue(j, s)
      PROVE job' \in [Job -> Row]
  <2>1. EnqueueDoes(j)
    BY <1>1, EnqueueEffect
  <2> QED
    BY <1>1, <2>1 DEF EnqueueDoes, Enqueue, TypeOK, Rewrites, world, history
<1>2. ASSUME NEW t \in Thread, NEW j \in Job, Claim(t, j) PROVE job' \in [Job
      -> Row]
  <2>1. ClaimDoes(t, j)
    BY <1>2, ClaimEffect
  <2> QED
    BY <1>2, <2>1 DEF ClaimDoes, Claim, Goes, TypeOK, Rewrites, world,
       history
<1>3. ASSUME NEW t \in Thread, Authorize(t) PROVE job' \in [Job -> Row]
  <2>1. AuthorizeDoes(t)
    BY <1>3, AuthorizeEffect
  <2> QED
    BY <1>3, <2>1 DEF AuthorizeDoes, Authorize, Goes, Leaves, TypeOK,
       Rewrites, world, history
<1>4. ASSUME NEW t \in Thread, ConnectRefused(t) PROVE job' \in [Job -> Row]
  BY <1>4 DEF ConnectRefused, Use, Goes, TypeOK, Rewrites, world, history
<1>5. ASSUME NEW t \in Thread, HungUp(t) PROVE job' \in [Job -> Row]
  BY <1>5 DEF HungUp, Unknown, Leaves, Orphaned, TypeOK, Rewrites, world,
     history
<1>6. ASSUME NEW t \in Thread, SocketBreaks(t) PROVE job' \in [Job -> Row]
  BY <1>6 DEF SocketBreaks, Use, Unknown, Leaves, Orphaned, TypeOK,
     Rewrites, world, history
<1>7. ASSUME NEW t \in Thread, Record(t) PROVE job' \in [Job -> Row]
  <2>1. RecordDoes(t)
    BY <1>7, RecordEffect
  <2> QED
    BY <1>7, <2>1 DEF RecordDoes, Record, Leaves, TypeOK, Rewrites, world,
       history
<1>8. ASSUME NEW t \in Thread, NEW c \in Call, Send(t, c) PROVE job' \in [Job
      -> Row]
  BY <1>8 DEF Send, Goes, TypeOK, Rewrites, world, history
<1>9. ASSUME NEW t \in Thread, NEW c \in Call, Receive(t, c) PROVE job' \in
      [Job -> Row]
  BY <1>9 DEF Receive, Goes, OutcomeOf, TypeOK, Rewrites, world, history
<1>10. ASSUME NEW c \in Call, Accept(c) PROVE job' \in [Job -> Row]
  <2>1. AcceptDoes(c)
    BY <1>10, AcceptEffect
  <2> QED
    BY <1>10, <2>1 DEF AcceptDoes, TypeOK, Rewrites, world, history
<1>11. ASSUME NEW c \in Call, Interrupted(c) PROVE job' \in [Job -> Row]
  <2>1. InterruptedDoes(c)
    BY <1>11, InterruptedEffect
  <2> QED
    BY <1>11, <2>1 DEF InterruptedDoes, TypeOK, Rewrites, world, history
<1>12. ASSUME NEW c \in Call, Cleanup(c) PROVE job' \in [Job -> Row]
  <2>1. CleanupDoes(c)
    BY <1>12, CleanupEffect
  <2> QED
    BY <1>12, <2>1 DEF CleanupDoes, TypeOK, Rewrites, world, history
<1>13. ASSUME NEW c \in Call, ReplyFails(c) PROVE job' \in [Job -> Row]
  <2>1. ReplyFailsDoes(c)
    BY <1>13, ReplyFailsEffect
  <2> QED
    BY <1>13, <2>1 DEF ReplyFailsDoes, TypeOK, Rewrites, world, history
<1>14. ASSUME NEW j \in Job, Boot(j) PROVE job' \in [Job -> Row]
  <2>1. BootDoes(j)
    BY <1>14, BootEffect
  <2> QED
    BY <1>14, <2>1, ExitsEffect DEF BootDoes, TypeOK, Rewrites, world,
       history
<1>15. ASSUME NEW j \in Job, CommandEnds(j) PROVE job' \in [Job -> Row]
  <2>1. CommandEndsDoes(j)
    BY <1>15, CommandEndsEffect
  <2> QED
    BY <1>15, <2>1, ExitsEffect DEF CommandEndsDoes, TypeOK, Rewrites,
       world, history
<1>16. ASSUME NEW j \in Job, LeaseExpires(j) PROVE job' \in [Job -> Row]
  <2>1. LeaseExpiresDoes(j)
    BY <1>16, LeaseExpiresEffect
  <2> QED
    BY <1>16, <2>1 DEF LeaseExpiresDoes, LeaseExpires, TypeOK, Rewrites,
       world, history
<1>17. ASSUME Crash PROVE job' \in [Job -> Row]
  BY <1>17 DEF Crash, Use, Orphaned, TypeOK, Rewrites, world, history
<1>18. ASSUME DaemonRestarts PROVE job' \in [Job -> Row]
  BY <1>18 DEF DaemonRestarts, Use, TypeOK, Rewrites, world, history
<1>19. ASSUME Environment \/ UNCHANGED vars PROVE job' \in [Job -> Row]
  BY <1>19 DEF Environment, RunChanges, WorkspaceChanges, TrustRevoked,
     SourcesEdited, vars, TypeOK, Rewrites, world, history
<1> QED
  BY <1>1, <1>2, <1>3, <1>4, <1>5, <1>6, <1>7, <1>8, <1>9, <1>10, <1>11,
     <1>12, <1>13, <1>14, <1>15, <1>16, <1>17, <1>18, <1>19 DEF Next,
     ManagerStep, DaemonStep

\* Requests stay well typed.
LEMMA CallTyped ==
  ASSUME TypeOK, WorkOK, CallOK, [Next]_vars PROVE call' \in [Call ->
         Request]
<1>1. ASSUME NEW j \in Job, NEW s \in {NoSnapshot, content}, Enqueue(j, s)
      PROVE call' \in [Call -> Request]
  <2>1. EnqueueDoes(j)
    BY <1>1, EnqueueEffect
  <2> QED
    BY <1>1, <2>1 DEF EnqueueDoes, Enqueue, TypeOK, Request, Result, NoCall,
       Moves, Work, world, history
<1>2. ASSUME NEW t \in Thread, NEW j \in Job, Claim(t, j) PROVE call' \in [Call
      -> Request]
  <2>1. ClaimDoes(t, j)
    BY <1>2, ClaimEffect
  <2> QED
    BY <1>2, <2>1 DEF ClaimDoes, Claim, Goes, TypeOK, Request, Result,
       NoCall, Moves, Work, world, history
<1>3. ASSUME NEW t \in Thread, Authorize(t) PROVE call' \in [Call -> Request]
  <2>1. AuthorizeDoes(t)
    BY <1>3, AuthorizeEffect
  <2> QED
    BY <1>3, <2>1 DEF AuthorizeDoes, Authorize, Goes, Leaves, TypeOK,
       Request, Result, NoCall, Moves, Work, world, history
<1>4. ASSUME NEW t \in Thread, ConnectRefused(t) PROVE call' \in [Call ->
      Request]
  BY <1>4 DEF ConnectRefused, Use, Goes, TypeOK, Request, Result, NoCall,
     Moves, Work, world, history
<1>5. ASSUME NEW t \in Thread, HungUp(t) PROVE call' \in [Call -> Request]
  BY <1>5 DEF HungUp, Unknown, Leaves, Orphaned, TypeOK, Request, Result,
     NoCall, Moves, Work, world, history
<1>6. ASSUME NEW t \in Thread, SocketBreaks(t) PROVE call' \in [Call ->
      Request]
  BY <1>6 DEF SocketBreaks, Use, Unknown, Leaves, Orphaned, TypeOK, Request,
     Result, NoCall, Moves, Work, world, history
<1>7. ASSUME NEW t \in Thread, Record(t) PROVE call' \in [Call -> Request]
  <2>1. RecordDoes(t)
    BY <1>7, RecordEffect
  <2> QED
    BY <1>7, <2>1 DEF RecordDoes, Record, Leaves, TypeOK, Request, Result,
       NoCall, Moves, Work, world, history
<1>8. ASSUME NEW t \in Thread, NEW c \in Call, Send(t, c) PROVE call' \in [Call
      -> Request]
  BY <1>8 DEF Send, Goes, TypeOK, Request, Result, NoCall, Moves, Work,
     world, history
<1>9. ASSUME NEW t \in Thread, NEW c \in Call, Receive(t, c) PROVE call' \in
      [Call -> Request]
  BY <1>9 DEF Receive, Goes, OutcomeOf, TypeOK, Request, Result, NoCall,
     Moves, Work, world, history
<1>10. ASSUME NEW c \in Call, Accept(c) PROVE call' \in [Call -> Request]
  <2>1. AcceptDoes(c)
    BY <1>10, AcceptEffect
  <2> QED
    BY <1>10, <2>1 DEF AcceptDoes, TypeOK, Request, Result, NoCall, Moves,
       Work, world, history
<1>11. ASSUME NEW c \in Call, Interrupted(c) PROVE call' \in [Call -> Request]
  <2>1. InterruptedDoes(c)
    BY <1>11, InterruptedEffect
  <2> QED
    BY <1>11, <2>1 DEF InterruptedDoes, TypeOK, Request, Result, NoCall,
       Moves, Work, world, history
<1>12. ASSUME NEW c \in Call, Cleanup(c) PROVE call' \in [Call -> Request]
  <2>1. CleanupDoes(c)
    BY <1>12, CleanupEffect
  <2> QED
    BY <1>12, <2>1 DEF CleanupDoes, TypeOK, Request, Result, NoCall, Moves,
       Work, world, history
<1>13. ASSUME NEW c \in Call, ReplyFails(c) PROVE call' \in [Call -> Request]
  <2>1. ReplyFailsDoes(c)
    BY <1>13, ReplyFailsEffect
  <2> QED
    BY <1>13, <2>1 DEF ReplyFailsDoes, TypeOK, Request, Result, NoCall,
       Moves, Work, world, history
<1>14. ASSUME NEW j \in Job, Boot(j) PROVE call' \in [Call -> Request]
  <2>1. BootDoes(j)
    BY <1>14, BootEffect
  <2> QED
    BY <1>14, <2>1, ExitsEffect DEF BootDoes, TypeOK, Request, Result,
       NoCall, Moves, Work, world, history
<1>15. ASSUME NEW j \in Job, CommandEnds(j) PROVE call' \in [Call -> Request]
  <2>1. CommandEndsDoes(j)
    BY <1>15, CommandEndsEffect
  <2> QED
    BY <1>15, <2>1, ExitsEffect DEF CommandEndsDoes, TypeOK, Request,
       Result, NoCall, Moves, Work, world, history
<1>16. ASSUME NEW j \in Job, LeaseExpires(j) PROVE call' \in [Call -> Request]
  <2>1. LeaseExpiresDoes(j)
    BY <1>16, LeaseExpiresEffect
  <2> QED
    BY <1>16, <2>1 DEF LeaseExpiresDoes, LeaseExpires, TypeOK, Request,
       Result, NoCall, Moves, Work, world, history
<1>17. ASSUME Crash PROVE call' \in [Call -> Request]
  BY <1>17 DEF Crash, Use, Orphaned, TypeOK, Request, Result, NoCall, Moves,
     Work, world, history
<1>18. ASSUME DaemonRestarts PROVE call' \in [Call -> Request]
  BY <1>18 DEF DaemonRestarts, Use, TypeOK, Request, Result, NoCall, Moves,
     Work, world, history
<1>19. ASSUME Environment \/ UNCHANGED vars PROVE call' \in [Call -> Request]
  BY <1>19 DEF Environment, RunChanges, WorkspaceChanges, TrustRevoked,
     SourcesEdited, vars, TypeOK, Request, Result, NoCall, Moves, Work, world,
     history
<1> QED
  BY <1>1, <1>2, <1>3, <1>4, <1>5, <1>6, <1>7, <1>8, <1>9, <1>10, <1>11,
     <1>12, <1>13, <1>14, <1>15, <1>16, <1>17, <1>18, <1>19 DEF Next,
     ManagerStep, DaemonStep

\* Containers stay well typed.
LEMMA BoxTyped ==
  ASSUME TypeOK, WorkOK, CallOK, [Next]_vars PROVE box' \in [Job -> Box]
<1>1. ASSUME NEW j \in Job, NEW s \in {NoSnapshot, content}, Enqueue(j, s)
      PROVE box' \in [Job -> Box]
  <2>1. EnqueueDoes(j)
    BY <1>1, EnqueueEffect
  <2> QED
    BY <1>1, <2>1 DEF EnqueueDoes, Enqueue, TypeOK, Box, NoBox, CallOK,
       world, history
<1>2. ASSUME NEW t \in Thread, NEW j \in Job, Claim(t, j) PROVE box' \in [Job
      -> Box]
  <2>1. ClaimDoes(t, j)
    BY <1>2, ClaimEffect
  <2> QED
    BY <1>2, <2>1 DEF ClaimDoes, Claim, Goes, TypeOK, Box, NoBox, CallOK,
       world, history
<1>3. ASSUME NEW t \in Thread, Authorize(t) PROVE box' \in [Job -> Box]
  <2>1. AuthorizeDoes(t)
    BY <1>3, AuthorizeEffect
  <2> QED
    BY <1>3, <2>1 DEF AuthorizeDoes, Authorize, Goes, Leaves, TypeOK, Box,
       NoBox, CallOK, world, history
<1>4. ASSUME NEW t \in Thread, ConnectRefused(t) PROVE box' \in [Job -> Box]
  BY <1>4 DEF ConnectRefused, Use, Goes, TypeOK, Box, NoBox, CallOK, world,
     history
<1>5. ASSUME NEW t \in Thread, HungUp(t) PROVE box' \in [Job -> Box]
  BY <1>5 DEF HungUp, Unknown, Leaves, Orphaned, TypeOK, Box, NoBox, CallOK,
     world, history
<1>6. ASSUME NEW t \in Thread, SocketBreaks(t) PROVE box' \in [Job -> Box]
  BY <1>6 DEF SocketBreaks, Use, Unknown, Leaves, Orphaned, TypeOK, Box,
     NoBox, CallOK, world, history
<1>7. ASSUME NEW t \in Thread, Record(t) PROVE box' \in [Job -> Box]
  <2>1. RecordDoes(t)
    BY <1>7, RecordEffect
  <2> QED
    BY <1>7, <2>1 DEF RecordDoes, Record, Leaves, TypeOK, Box, NoBox,
       CallOK, world, history
<1>8. ASSUME NEW t \in Thread, NEW c \in Call, Send(t, c) PROVE box' \in [Job
      -> Box]
  BY <1>8 DEF Send, Goes, TypeOK, Box, NoBox, CallOK, world, history
<1>9. ASSUME NEW t \in Thread, NEW c \in Call, Receive(t, c) PROVE box' \in
      [Job -> Box]
  BY <1>9 DEF Receive, Goes, OutcomeOf, TypeOK, Box, NoBox, CallOK, world,
     history
<1>10. ASSUME NEW c \in Call, Accept(c) PROVE box' \in [Job -> Box]
  <2>1. AcceptDoes(c)
    BY <1>10, AcceptEffect
  <2> QED
    BY <1>10, <2>1 DEF AcceptDoes, TypeOK, Box, NoBox, CallOK, world,
       history
<1>11. ASSUME NEW c \in Call, Interrupted(c) PROVE box' \in [Job -> Box]
  <2>1. InterruptedDoes(c)
    BY <1>11, InterruptedEffect
  <2> QED
    BY <1>11, <2>1 DEF InterruptedDoes, TypeOK, Box, NoBox, CallOK, world,
       history
<1>12. ASSUME NEW c \in Call, Cleanup(c) PROVE box' \in [Job -> Box]
  <2>1. CleanupDoes(c)
    BY <1>12, CleanupEffect
  <2> QED
    BY <1>12, <2>1 DEF CleanupDoes, TypeOK, Box, NoBox, CallOK, world,
       history
<1>13. ASSUME NEW c \in Call, ReplyFails(c) PROVE box' \in [Job -> Box]
  <2>1. ReplyFailsDoes(c)
    BY <1>13, ReplyFailsEffect
  <2> QED
    BY <1>13, <2>1 DEF ReplyFailsDoes, TypeOK, Box, NoBox, CallOK, world,
       history
<1>14. ASSUME NEW j \in Job, Boot(j) PROVE box' \in [Job -> Box]
  <2>1. BootDoes(j)
    BY <1>14, BootEffect
  <2> QED
    BY <1>14, <2>1, ExitsEffect DEF BootDoes, TypeOK, Box, NoBox, CallOK,
       world, history
<1>15. ASSUME NEW j \in Job, CommandEnds(j) PROVE box' \in [Job -> Box]
  <2>1. CommandEndsDoes(j)
    BY <1>15, CommandEndsEffect
  <2> QED
    BY <1>15, <2>1, ExitsEffect DEF CommandEndsDoes, TypeOK, Box, NoBox,
       CallOK, world, history
<1>16. ASSUME NEW j \in Job, LeaseExpires(j) PROVE box' \in [Job -> Box]
  <2>1. LeaseExpiresDoes(j)
    BY <1>16, LeaseExpiresEffect
  <2> QED
    BY <1>16, <2>1 DEF LeaseExpiresDoes, LeaseExpires, TypeOK, Box, NoBox,
       CallOK, world, history
<1>17. ASSUME Crash PROVE box' \in [Job -> Box]
  BY <1>17 DEF Crash, Use, Orphaned, TypeOK, Box, NoBox, CallOK, world,
     history
<1>18. ASSUME DaemonRestarts PROVE box' \in [Job -> Box]
  BY <1>18 DEF DaemonRestarts, Use, TypeOK, Box, NoBox, CallOK, world,
     history
<1>19. ASSUME Environment \/ UNCHANGED vars PROVE box' \in [Job -> Box]
  BY <1>19 DEF Environment, RunChanges, WorkspaceChanges, TrustRevoked,
     SourcesEdited, vars, TypeOK, Box, NoBox, CallOK, world, history
<1> QED
  BY <1>1, <1>2, <1>3, <1>4, <1>5, <1>6, <1>7, <1>8, <1>9, <1>10, <1>11,
     <1>12, <1>13, <1>14, <1>15, <1>16, <1>17, <1>18, <1>19 DEF Next,
     ManagerStep, DaemonStep

\* A call in use that moves on with a result that fits its phase stays sound.
LEMMA MovesCall ==
  ASSUME TypeOK, CallOK, NEW c \in Call, call[c].phase # "free",
         NEW phase \in {"running", "ended", "replied"}, NEW result, Moves(c, phase, result),
         phase = "ended" => result \in {"completed", "failed", "timed_out", "cleanup_uncertain"},
         phase = "replied" => result # "none"
  PROVE CallOK'
<1>1. call[c].job \in Job
  BY DEF CallOK
<1> QED BY <1>1 DEF Moves, CallOK

\* A used connection keeps its job and its result.
LEMMA CallStep ==
  ASSUME TypeOK, WorkOK, CallOK, BoxOK, [Next]_vars PROVE CallOK'
<1>1. ASSUME NEW j \in Job, NEW s \in {NoSnapshot, content}, Enqueue(j, s)
      PROVE CallOK'
  <2>1. EnqueueDoes(j)
    BY <1>1, EnqueueEffect
  <2> QED
    BY <1>1, <2>1, CallTyped DEF EnqueueDoes, Enqueue, TypeOK, CallOK,
       WorkOK, Request, Result, NoCall, Moves, Work, Settled, Confirmed, world,
       history
<1>2. ASSUME NEW t \in Thread, NEW j \in Job, Claim(t, j) PROVE CallOK'
  <2>1. ClaimDoes(t, j)
    BY <1>2, ClaimEffect
  <2> QED
    BY <1>2, <2>1, CallTyped DEF ClaimDoes, Claim, Goes, TypeOK, CallOK,
       WorkOK, Request, Result, NoCall, Moves, Work, Settled, Confirmed, world,
       history
<1>3. ASSUME NEW t \in Thread, Authorize(t) PROVE CallOK'
  <2>1. AuthorizeDoes(t)
    BY <1>3, AuthorizeEffect
  <2> QED
    BY <1>3, <2>1, CallTyped DEF AuthorizeDoes, Authorize, Goes, Leaves,
       TypeOK, CallOK, WorkOK, Request, Result, NoCall, Moves, Work, Settled,
       Confirmed, world, history
<1>4. ASSUME NEW t \in Thread, ConnectRefused(t) PROVE CallOK'
  BY <1>4, CallTyped DEF ConnectRefused, Use, Goes, TypeOK, CallOK, WorkOK,
     Request, Result, NoCall, Moves, Work, Settled, Confirmed, world, history
<1>5. ASSUME NEW t \in Thread, HungUp(t) PROVE CallOK'
  BY <1>5, CallTyped DEF HungUp, Unknown, Leaves, Orphaned, TypeOK, CallOK,
     WorkOK, Request, Result, NoCall, Moves, Work, Settled, Confirmed, world,
     history
<1>6. ASSUME NEW t \in Thread, SocketBreaks(t) PROVE CallOK'
  BY <1>6, CallTyped DEF SocketBreaks, Use, Unknown, Leaves, Orphaned,
     TypeOK, CallOK, WorkOK, Request, Result, NoCall, Moves, Work, Settled,
     Confirmed, world, history
<1>7. ASSUME NEW t \in Thread, Record(t) PROVE CallOK'
  <2>1. RecordDoes(t)
    BY <1>7, RecordEffect
  <2> QED
    BY <1>7, <2>1, CallTyped DEF RecordDoes, Record, Leaves, TypeOK, CallOK,
       WorkOK, Request, Result, NoCall, Moves, Work, Settled, Confirmed, world,
       history
<1>8. ASSUME NEW t \in Thread, NEW c \in Call, Send(t, c) PROVE CallOK'
  BY <1>8, CallTyped DEF Send, Goes, TypeOK, CallOK, WorkOK, Request,
     Result, NoCall, Moves, Work, Settled, Confirmed, world, history
<1>9. ASSUME NEW t \in Thread, NEW c \in Call, Receive(t, c) PROVE CallOK'
  BY <1>9, CallTyped DEF Receive, Goes, OutcomeOf, TypeOK, CallOK, WorkOK,
     Request, Result, NoCall, Moves, Work, Settled, Confirmed, world, history
<1>10. ASSUME NEW c \in Call, Accept(c) PROVE CallOK'
  <2>1. AcceptDoes(c)
    BY <1>10, AcceptEffect
  <2> QED BY <2>1, MovesCall DEF AcceptDoes
<1>11. ASSUME NEW c \in Call, Interrupted(c) PROVE CallOK'
  <2>1. InterruptedDoes(c)
    BY <1>11, InterruptedEffect
  <2> QED BY <2>1, MovesCall DEF InterruptedDoes
<1>12. ASSUME NEW c \in Call, Cleanup(c) PROVE CallOK'
  <2>1. CleanupDoes(c)
    BY <1>12, CleanupEffect
  <2> QED BY <2>1, MovesCall DEF CleanupDoes, CallOK
<1>13. ASSUME NEW c \in Call, ReplyFails(c) PROVE CallOK'
  <2>1. ReplyFailsDoes(c)
    BY <1>13, ReplyFailsEffect
  <2> QED
    BY <1>13, <2>1, CallTyped DEF ReplyFailsDoes, TypeOK, CallOK, WorkOK,
       Request, Result, NoCall, Moves, Work, Settled, Confirmed, world, history
<1>14. ASSUME NEW j \in Job, Boot(j) PROVE CallOK'
  <2>1. BootDoes(j)
    BY <1>14, BootEffect
  <2>2. ASSUME NEW r \in {"completed", "failed"}, Exits(j, r) PROVE CallOK'
    <3>1. CASE box[j].by = NoOne
      BY <2>2, <3>1, ExitsEffect DEF CallOK, NoCall
    <3>2. CASE box[j].by # NoOne
      <4>1. box[j].by \in Call /\ Moves(box[j].by, "ended", r)
        BY <2>2, <3>2, ExitsEffect
      <4>2. call[box[j].by].phase = "running"
        BY <2>1, <3>2 DEF BoxOK, BootDoes
      <4> QED BY <4>1, <4>2, MovesCall
    <3> QED BY <3>1, <3>2
  <2>3. ASSUME UNCHANGED call PROVE CallOK'
    BY <2>3 DEF CallOK
  <2> QED BY <2>1, <2>2, <2>3 DEF BootDoes
<1>15. ASSUME NEW j \in Job, CommandEnds(j) PROVE CallOK'
  <2>1. CommandEndsDoes(j)
    BY <1>15, CommandEndsEffect
  <2>2. ASSUME NEW r \in {"completed", "failed"}, Exits(j, r) PROVE CallOK'
    <3>1. CASE box[j].by = NoOne
      BY <2>2, <3>1, ExitsEffect DEF CallOK, NoCall
    <3>2. CASE box[j].by # NoOne
      <4>1. box[j].by \in Call /\ Moves(box[j].by, "ended", r)
        BY <2>2, <3>2, ExitsEffect
      <4>2. call[box[j].by].phase = "running"
        BY <2>1, <3>2 DEF BoxOK, CommandEndsDoes
      <4> QED BY <4>1, <4>2, MovesCall
    <3> QED BY <3>1, <3>2
  <2>3. ASSUME UNCHANGED call PROVE CallOK'
    BY <2>3 DEF CallOK
  <2> QED BY <2>1, <2>2, <2>3 DEF CommandEndsDoes
<1>16. ASSUME NEW j \in Job, LeaseExpires(j) PROVE CallOK'
  <2>1. LeaseExpiresDoes(j)
    BY <1>16, LeaseExpiresEffect
  <2> QED
    BY <1>16, <2>1, CallTyped DEF LeaseExpiresDoes, LeaseExpires, TypeOK,
       CallOK, WorkOK, Request, Result, NoCall, Moves, Work, Settled,
       Confirmed, world, history
<1>17. ASSUME Crash PROVE CallOK'
  BY <1>17, CallTyped DEF Crash, Use, Orphaned, TypeOK, CallOK, WorkOK,
     Request, Result, NoCall, Moves, Work, Settled, Confirmed, world, history
<1>18. ASSUME DaemonRestarts PROVE CallOK'
  BY <1>18, CallTyped DEF DaemonRestarts, Use, TypeOK, CallOK, WorkOK,
     Request, Result, NoCall, Moves, Work, Settled, Confirmed, world, history
<1>19. ASSUME Environment \/ UNCHANGED vars PROVE CallOK'
  BY <1>19, CallTyped DEF Environment, RunChanges, WorkspaceChanges,
     TrustRevoked, SourcesEdited, vars, TypeOK, CallOK, WorkOK, Request,
     Result, NoCall, Moves, Work, Settled, Confirmed, world, history
<1> QED
  BY <1>1, <1>2, <1>3, <1>4, <1>5, <1>6, <1>7, <1>8, <1>9, <1>10, <1>11,
     <1>12, <1>13, <1>14, <1>15, <1>16, <1>17, <1>18, <1>19 DEF Next,
     ManagerStep, DaemonStep

\* A container answers to the call that runs it.
LEMMA BoxStep ==
  ASSUME TypeOK, WorkOK, CallOK, BoxOK, [Next]_vars PROVE BoxOK'
<1>1. ASSUME NEW j \in Job, NEW s \in {NoSnapshot, content}, Enqueue(j, s)
      PROVE BoxOK'
  <2>1. EnqueueDoes(j)
    BY <1>1, EnqueueEffect
  <2> QED
    BY <1>1, <2>1, RunnerConstants DEF EnqueueDoes, Enqueue, TypeOK, CallOK,
       WorkOK, BoxOK, Box, NoBox, NoCall, Moves, Request, Idle, Settled,
       Confirmed, world, history
<1>2. ASSUME NEW t \in Thread, NEW j \in Job, Claim(t, j) PROVE BoxOK'
  <2>1. ClaimDoes(t, j)
    BY <1>2, ClaimEffect
  <2> QED
    BY <1>2, <2>1, RunnerConstants DEF ClaimDoes, Claim, Goes, TypeOK,
       CallOK, WorkOK, BoxOK, Box, NoBox, NoCall, Moves, Request, Idle,
       Settled, Confirmed, world, history
<1>3. ASSUME NEW t \in Thread, Authorize(t) PROVE BoxOK'
  <2>1. AuthorizeDoes(t)
    BY <1>3, AuthorizeEffect
  <2> QED
    BY <1>3, <2>1, RunnerConstants DEF AuthorizeDoes, Authorize, Goes,
       Leaves, TypeOK, CallOK, WorkOK, BoxOK, Box, NoBox, NoCall, Moves,
       Request, Idle, Settled, Confirmed, world, history
<1>4. ASSUME NEW t \in Thread, ConnectRefused(t) PROVE BoxOK'
  BY <1>4, RunnerConstants DEF ConnectRefused, Use, Goes, TypeOK, CallOK,
     WorkOK, BoxOK, Box, NoBox, NoCall, Moves, Request, Idle, Settled,
     Confirmed, world, history
<1>5. ASSUME NEW t \in Thread, HungUp(t) PROVE BoxOK'
  BY <1>5, RunnerConstants DEF HungUp, Unknown, Leaves, Orphaned, TypeOK,
     CallOK, WorkOK, BoxOK, Box, NoBox, NoCall, Moves, Request, Idle, Settled,
     Confirmed, world, history
<1>6. ASSUME NEW t \in Thread, SocketBreaks(t) PROVE BoxOK'
  BY <1>6, RunnerConstants DEF SocketBreaks, Use, Unknown, Leaves, Orphaned,
     TypeOK, CallOK, WorkOK, BoxOK, Box, NoBox, NoCall, Moves, Request, Idle,
     Settled, Confirmed, world, history
<1>7. ASSUME NEW t \in Thread, Record(t) PROVE BoxOK'
  <2>1. RecordDoes(t)
    BY <1>7, RecordEffect
  <2> QED
    BY <1>7, <2>1, RunnerConstants DEF RecordDoes, Record, Leaves, TypeOK,
       CallOK, WorkOK, BoxOK, Box, NoBox, NoCall, Moves, Request, Idle,
       Settled, Confirmed, world, history
<1>8. ASSUME NEW t \in Thread, NEW c \in Call, Send(t, c) PROVE BoxOK'
  BY <1>8, RunnerConstants DEF Send, Goes, TypeOK, CallOK, WorkOK, BoxOK,
     Box, NoBox, NoCall, Moves, Request, Idle, Settled, Confirmed, world,
     history
<1>9. ASSUME NEW t \in Thread, NEW c \in Call, Receive(t, c) PROVE BoxOK'
  BY <1>9, RunnerConstants DEF Receive, Goes, OutcomeOf, TypeOK, CallOK,
     WorkOK, BoxOK, Box, NoBox, NoCall, Moves, Request, Idle, Settled,
     Confirmed, world, history
<1>10. ASSUME NEW c \in Call, Accept(c) PROVE BoxOK'
  <2>1. AcceptDoes(c)
    BY <1>10, AcceptEffect
  <2>2. ASSUME box' = box, NEW phase, NEW result, Moves(c, phase, result) PROVE BoxOK'
    BY <2>1, <2>2, RunnerConstants DEF AcceptDoes, Moves, BoxOK, TypeOK, Box
  <2>3. ASSUME Moves(c, "running", call[c].result), call[c].job \in Job,
               box' = [box EXCEPT ![call[c].job] =
                         [at |-> "booting", by |-> c, source |-> NoSnapshot]]
        PROVE BoxOK'
    BY <2>1, <2>3, RunnerConstants DEF AcceptDoes, Moves, BoxOK, TypeOK, Box
  <2>4. call[c].job \in Job
    BY <2>1 DEF AcceptDoes, CallOK
  <2> QED BY <2>1, <2>2, <2>3, <2>4 DEF AcceptDoes
<1>11. ASSUME NEW c \in Call, Interrupted(c) PROVE BoxOK'
  <2>1. InterruptedDoes(c)
    BY <1>11, InterruptedEffect
  <2>2. CASE box[call[c].job].by # c /\ box' = box /\ Moves(c, "ended", "failed")
    BY <2>1, <2>2, RunnerConstants DEF InterruptedDoes, Moves, BoxOK, TypeOK, Box
  <2>3. CASE Moves(c, "ended", "timed_out") /\ box' = [box EXCEPT ![call[c].job] = NoBox]
    BY <2>1, <2>3, RunnerConstants DEF InterruptedDoes, Moves, BoxOK, TypeOK, Box, NoBox
  <2>4. CASE /\ box[call[c].job].by = c /\ Moves(c, "ended", "cleanup_uncertain")
             /\ box' \in [Job -> Box] /\ box'[call[c].job].by = NoOne
             /\ box'[call[c].job].at = box[call[c].job].at
             /\ box'[call[c].job].source = box[call[c].job].source
             /\ \A k \in Job \ {call[c].job} : box'[k] = box[k]
    <3>1. box[call[c].job].at # "none"
      BY <2>1, <2>4, RunnerConstants DEF InterruptedDoes, BoxOK, NoBox
    <3>2. ASSUME NEW k \in Job, k # call[c].job PROVE box[k].by # c
      BY <2>4, <3>2, RunnerConstants DEF BoxOK, NoBox
    <3>3. box'[call[c].job].at = "running" => box'[call[c].job].source \in Source
      BY <2>1, <2>4, <3>1 DEF InterruptedDoes, BoxOK
    <3>4. ASSUME NEW k \in Job, k # call[c].job
          PROVE IF box'[k].at = "none" THEN box'[k] = NoBox
                ELSE /\ box'[k].by # NoOne =>
                          call'[box'[k].by].phase = "running" /\ call'[box'[k].by].job = k
                     /\ box'[k].at = "running" => box'[k].source \in Source
      BY <2>4, <3>2, <3>4 DEF Moves, BoxOK, TypeOK, Box
    <3> QED BY <2>1, <2>4, <3>1, <3>3, <3>4 DEF InterruptedDoes, BoxOK
  <2> QED BY <2>1, <2>2, <2>3, <2>4 DEF InterruptedDoes
<1>12. ASSUME NEW c \in Call, Cleanup(c) PROVE BoxOK'
  <2>1. CleanupDoes(c)
    BY <1>12, CleanupEffect
  <2>2. ASSUME NEW k \in Job, box[k] # NoBox PROVE box[k].by # c
    BY <2>1, <2>2, RunnerConstants DEF CleanupDoes, BoxOK, NoBox
  <2>3. \A d \in Call \ {c} : call'[d] = call[d]
    BY <2>1 DEF CleanupDoes, Moves
  <2>4. ASSUME NEW k \in Job PROVE box'[k] = NoBox \/ box'[k] = box[k]
    BY <2>1, <2>4 DEF CleanupDoes, TypeOK
  <2> QED BY <2>2, <2>3, <2>4 DEF BoxOK, NoBox, TypeOK, Box
<1>13. ASSUME NEW c \in Call, ReplyFails(c) PROVE BoxOK'
  <2>1. ReplyFailsDoes(c)
    BY <1>13, ReplyFailsEffect
  <2> QED
    BY <1>13, <2>1, RunnerConstants DEF ReplyFailsDoes, TypeOK, CallOK,
       WorkOK, BoxOK, Box, NoBox, NoCall, Moves, Request, Idle, Settled,
       Confirmed, world, history
<1>14. ASSUME NEW j \in Job, Boot(j) PROVE BoxOK'
  <2>1. BootDoes(j)
    BY <1>14, BootEffect
  <2>2. ASSUME NEW r \in {"completed", "failed"}, Exits(j, r) PROVE BoxOK'
    <3>1. CASE box[j].by = NoOne
      BY <2>2, <3>1, ExitsEffect DEF BoxOK, NoBox, TypeOK
    <3>2. CASE box[j].by # NoOne
      <4>1. /\ box[j].by \in Call /\ Moves(box[j].by, "ended", r)
            /\ box' = [box EXCEPT ![j] = NoBox]
        BY <2>2, <3>2, ExitsEffect
      <4>2. call[box[j].by].job = j
        BY <2>1, <3>2 DEF BoxOK, BootDoes
      <4> QED BY <4>1, <4>2 DEF Moves, BoxOK, NoBox, TypeOK, Box
    <3> QED BY <3>1, <3>2
  <2>3. ASSUME box' \in [Job -> Box], box'[j].at = "running", box'[j].source = content,
               box'[j].by = box[j].by, UNCHANGED call, \A k \in Job \ {j} : box'[k] = box[k]
        PROVE BoxOK'
    BY <2>1, <2>3 DEF BootDoes, BoxOK, TypeOK
  <2> QED BY <2>1, <2>2, <2>3 DEF BootDoes
<1>15. ASSUME NEW j \in Job, CommandEnds(j) PROVE BoxOK'
  <2>1. CommandEndsDoes(j)
    BY <1>15, CommandEndsEffect
  <2>2. ASSUME NEW r \in {"completed", "failed"}, Exits(j, r) PROVE BoxOK'
    <3>1. CASE box[j].by = NoOne
      BY <2>2, <3>1, ExitsEffect DEF BoxOK, NoBox, TypeOK
    <3>2. CASE box[j].by # NoOne
      <4>1. /\ box[j].by \in Call /\ Moves(box[j].by, "ended", r)
            /\ box' = [box EXCEPT ![j] = NoBox]
        BY <2>2, <3>2, ExitsEffect
      <4>2. call[box[j].by].job = j
        BY <2>1, <3>2 DEF BoxOK, CommandEndsDoes
      <4> QED BY <4>1, <4>2 DEF Moves, BoxOK, NoBox, TypeOK, Box
    <3> QED BY <3>1, <3>2
  <2> QED BY <2>1, <2>2 DEF CommandEndsDoes
<1>16. ASSUME NEW j \in Job, LeaseExpires(j) PROVE BoxOK'
  <2>1. LeaseExpiresDoes(j)
    BY <1>16, LeaseExpiresEffect
  <2> QED
    BY <1>16, <2>1, RunnerConstants DEF LeaseExpiresDoes, LeaseExpires,
       TypeOK, CallOK, WorkOK, BoxOK, Box, NoBox, NoCall, Moves, Request, Idle,
       Settled, Confirmed, world, history
<1>17. ASSUME Crash PROVE BoxOK'
  BY <1>17, RunnerConstants DEF Crash, Use, Orphaned, TypeOK, CallOK,
     WorkOK, BoxOK, Box, NoBox, NoCall, Moves, Request, Idle, Settled,
     Confirmed, world, history
<1>18. ASSUME DaemonRestarts PROVE BoxOK'
  BY <1>18, RunnerConstants DEF DaemonRestarts, Use, TypeOK, CallOK, WorkOK,
     BoxOK, Box, NoBox, NoCall, Moves, Request, Idle, Settled, Confirmed,
     world, history
<1>19. ASSUME Environment \/ UNCHANGED vars PROVE BoxOK'
  BY <1>19, RunnerConstants DEF Environment, RunChanges, WorkspaceChanges,
     TrustRevoked, SourcesEdited, vars, TypeOK, CallOK, WorkOK, BoxOK, Box,
     NoBox, NoCall, Moves, Request, Idle, Settled, Confirmed, world, history
<1> QED
  BY <1>1, <1>2, <1>3, <1>4, <1>5, <1>6, <1>7, <1>8, <1>9, <1>10, <1>11,
     <1>12, <1>13, <1>14, <1>15, <1>16, <1>17, <1>18, <1>19 DEF Next,
     ManagerStep, DaemonStep

WorldTyped ==
  /\ run \in {"running", "cancelling", "completed", "ended"} /\ trusted \in BOOLEAN
  /\ workspace \in {"ready", "inspecting", "retained", "removed"} /\ content \in Source
HistoryTyped ==
  /\ passed \in [Job -> SUBSET Source] /\ failed \subseteq Job
  /\ enqueued \in [Job -> {"ready", "inspecting", "retained"}]
FaultsTyped ==
  faults \in [crashes : 0..MaxCrashes, restarts : 0..MaxRestarts,
              hiccups : 0..MaxHiccups, preemptions : 0..MaxPreemptions]

\* The rest of the system stays well typed.
LEMMA WorldStep ==
  ASSUME TypeOK, WorkOK, CallOK, BoxOK, [Next]_vars PROVE WorldTyped'
<1>1. ASSUME NEW j \in Job, NEW s \in {NoSnapshot, content}, Enqueue(j, s)
      PROVE WorldTyped'
  BY <1>1, RunnerConstants DEF Enqueue, TypeOK, WorldTyped, Source, world,
     history
<1>2. ASSUME NEW t \in Thread, NEW j \in Job, Claim(t, j) PROVE WorldTyped'
  BY <1>2, RunnerConstants DEF Claim, Goes, Due, TypeOK, WorldTyped, Source,
     world, history
<1>3. ASSUME NEW t \in Thread, Authorize(t) PROVE WorldTyped'
  BY <1>3, RunnerConstants DEF Authorize, Goes, Leaves, Becomes, Owned,
     TypeOK, WorldTyped, Source, world, history
<1>4. ASSUME NEW t \in Thread, ConnectRefused(t) PROVE WorldTyped'
  BY <1>4, RunnerConstants DEF ConnectRefused, Use, Goes, TypeOK,
     WorldTyped, Source, world, history
<1>5. ASSUME NEW t \in Thread, HungUp(t) PROVE WorldTyped'
  BY <1>5, RunnerConstants DEF HungUp, Unknown, Leaves, Orphaned, TypeOK,
     WorldTyped, Source, world, history
<1>6. ASSUME NEW t \in Thread, SocketBreaks(t) PROVE WorldTyped'
  BY <1>6, RunnerConstants DEF SocketBreaks, Use, Unknown, Leaves, Orphaned,
     TypeOK, WorldTyped, Source, world, history
<1>7. ASSUME NEW t \in Thread, Record(t) PROVE WorldTyped'
  BY <1>7, RunnerConstants DEF Record, Owned, Becomes, StatusOf, Leaves,
     TypeOK, WorldTyped, Source, world, history
<1>8. ASSUME NEW t \in Thread, NEW c \in Call, Send(t, c) PROVE WorldTyped'
  BY <1>8, RunnerConstants DEF Send, Goes, TypeOK, WorldTyped, Source,
     world, history
<1>9. ASSUME NEW t \in Thread, NEW c \in Call, Receive(t, c) PROVE WorldTyped'
  BY <1>9, RunnerConstants DEF Receive, Goes, OutcomeOf, TypeOK, WorldTyped,
     Source, world, history
<1>10. ASSUME NEW c \in Call, Accept(c) PROVE WorldTyped'
  <2>1. AcceptDoes(c)
    BY <1>10, AcceptEffect
  <2> QED
    BY <1>10, <2>1, RunnerConstants DEF AcceptDoes, TypeOK, WorldTyped,
       Source, world, history
<1>11. ASSUME NEW c \in Call, Interrupted(c) PROVE WorldTyped'
  <2>1. InterruptedDoes(c)
    BY <1>11, InterruptedEffect
  <2> QED
    BY <1>11, <2>1, RunnerConstants DEF InterruptedDoes, TypeOK, WorldTyped,
       Source, world, history
<1>12. ASSUME NEW c \in Call, Cleanup(c) PROVE WorldTyped'
  <2>1. CleanupDoes(c)
    BY <1>12, CleanupEffect
  <2> QED
    BY <1>12, <2>1, RunnerConstants DEF CleanupDoes, TypeOK, WorldTyped,
       Source, world, history
<1>13. ASSUME NEW c \in Call, ReplyFails(c) PROVE WorldTyped'
  <2>1. ReplyFailsDoes(c)
    BY <1>13, ReplyFailsEffect
  <2> QED
    BY <1>13, <2>1, RunnerConstants DEF ReplyFailsDoes, TypeOK, WorldTyped,
       Source, world, history
<1>14. ASSUME NEW j \in Job, Boot(j) PROVE WorldTyped'
  <2>1. BootDoes(j)
    BY <1>14, BootEffect
  <2> QED
    BY <1>14, <2>1, RunnerConstants, ExitsEffect DEF BootDoes, TypeOK,
       WorldTyped, Source, world, history
<1>15. ASSUME NEW j \in Job, CommandEnds(j) PROVE WorldTyped'
  <2>1. CommandEndsDoes(j)
    BY <1>15, CommandEndsEffect
  <2> QED
    BY <1>15, <2>1, RunnerConstants, ExitsEffect DEF CommandEndsDoes,
       TypeOK, WorldTyped, Source, world, history
<1>16. ASSUME NEW j \in Job, LeaseExpires(j) PROVE WorldTyped'
  BY <1>16, RunnerConstants DEF LeaseExpires, Use, TypeOK, WorldTyped,
     Source, world, history
<1>17. ASSUME Crash PROVE WorldTyped'
  BY <1>17, RunnerConstants DEF Crash, Use, Orphaned, TypeOK, WorldTyped,
     Source, world, history
<1>18. ASSUME DaemonRestarts PROVE WorldTyped'
  BY <1>18, RunnerConstants DEF DaemonRestarts, Use, TypeOK, WorldTyped,
     Source, world, history
<1>19. ASSUME Environment \/ UNCHANGED vars PROVE WorldTyped'
  <2>1. ASSUME NEW s \in {"completed", "cancelling", "ended"}, RunChanges(s) PROVE WorldTyped'
    BY <2>1 DEF RunChanges, TypeOK, WorldTyped
  <2>2. ASSUME NEW s \in {"inspecting", "retained", "removed"}, WorkspaceChanges(s)
        PROVE WorldTyped'
    BY <2>2 DEF WorkspaceChanges, TypeOK, WorldTyped
  <2>3. ASSUME SourcesEdited PROVE WorldTyped'
    BY <2>3, RunnerConstants DEF SourcesEdited, TypeOK, WorldTyped, Source
  <2>4. ASSUME TrustRevoked \/ UNCHANGED vars PROVE WorldTyped'
    BY <2>4 DEF TrustRevoked, vars, TypeOK, WorldTyped
  <2> QED BY <1>19, <2>1, <2>2, <2>3, <2>4 DEF Environment
<1> QED
  BY <1>1, <1>2, <1>3, <1>4, <1>5, <1>6, <1>7, <1>8, <1>9, <1>10, <1>11,
     <1>12, <1>13, <1>14, <1>15, <1>16, <1>17, <1>18, <1>19 DEF Next,
     ManagerStep, DaemonStep

\* The history stays well typed.
LEMMA HistoryStep ==
  ASSUME TypeOK, WorkOK, CallOK, BoxOK, [Next]_vars PROVE HistoryTyped'
<1>1. ASSUME NEW j \in Job, NEW s \in {NoSnapshot, content}, Enqueue(j, s)
      PROVE HistoryTyped'
  <2>1. EnqueueDoes(j)
    BY <1>1, EnqueueEffect
  <2> QED
    BY <1>1, <2>1 DEF EnqueueDoes, Enqueue, TypeOK, HistoryTyped, world,
       history
<1>2. ASSUME NEW t \in Thread, NEW j \in Job, Claim(t, j) PROVE HistoryTyped'
  BY <1>2 DEF Claim, Goes, Due, TypeOK, HistoryTyped, world, history
<1>3. ASSUME NEW t \in Thread, Authorize(t) PROVE HistoryTyped'
  BY <1>3 DEF Authorize, Goes, Leaves, Becomes, Owned, TypeOK, HistoryTyped,
     world, history
<1>4. ASSUME NEW t \in Thread, ConnectRefused(t) PROVE HistoryTyped'
  BY <1>4 DEF ConnectRefused, Use, Goes, TypeOK, HistoryTyped, world,
     history
<1>5. ASSUME NEW t \in Thread, HungUp(t) PROVE HistoryTyped'
  BY <1>5 DEF HungUp, Unknown, Leaves, Orphaned, TypeOK, HistoryTyped,
     world, history
<1>6. ASSUME NEW t \in Thread, SocketBreaks(t) PROVE HistoryTyped'
  BY <1>6 DEF SocketBreaks, Use, Unknown, Leaves, Orphaned, TypeOK,
     HistoryTyped, world, history
<1>7. ASSUME NEW t \in Thread, Record(t) PROVE HistoryTyped'
  BY <1>7 DEF Record, Owned, Becomes, StatusOf, Leaves, TypeOK,
     HistoryTyped, world, history
<1>8. ASSUME NEW t \in Thread, NEW c \in Call, Send(t, c) PROVE HistoryTyped'
  BY <1>8 DEF Send, Goes, TypeOK, HistoryTyped, world, history
<1>9. ASSUME NEW t \in Thread, NEW c \in Call, Receive(t, c) PROVE
      HistoryTyped'
  BY <1>9 DEF Receive, Goes, OutcomeOf, TypeOK, HistoryTyped, world, history
<1>10. ASSUME NEW c \in Call, Accept(c) PROVE HistoryTyped'
  <2>1. AcceptDoes(c)
    BY <1>10, AcceptEffect
  <2> QED
    BY <1>10, <2>1 DEF AcceptDoes, TypeOK, HistoryTyped, world, history
<1>11. ASSUME NEW c \in Call, Interrupted(c) PROVE HistoryTyped'
  <2>1. InterruptedDoes(c)
    BY <1>11, InterruptedEffect
  <2> QED
    BY <1>11, <2>1 DEF InterruptedDoes, TypeOK, HistoryTyped, world, history
<1>12. ASSUME NEW c \in Call, Cleanup(c) PROVE HistoryTyped'
  <2>1. CleanupDoes(c)
    BY <1>12, CleanupEffect
  <2> QED
    BY <1>12, <2>1 DEF CleanupDoes, TypeOK, HistoryTyped, world, history
<1>13. ASSUME NEW c \in Call, ReplyFails(c) PROVE HistoryTyped'
  <2>1. ReplyFailsDoes(c)
    BY <1>13, ReplyFailsEffect
  <2> QED
    BY <1>13, <2>1 DEF ReplyFailsDoes, TypeOK, HistoryTyped, world, history
<1>14. ASSUME NEW j \in Job, Boot(j) PROVE HistoryTyped'
  <2>1. BootDoes(j)
    BY <1>14, BootEffect
  <2> QED
    BY <1>14, <2>1, ExitsEffect DEF BootDoes, TypeOK, HistoryTyped, world,
       history
<1>15. ASSUME NEW j \in Job, CommandEnds(j) PROVE HistoryTyped'
  <2>1. CommandEndsDoes(j)
    BY <1>15, CommandEndsEffect
  <2>2. box[j].source # NoSnapshot
    BY <2>1, RunnerConstants DEF CommandEndsDoes, BoxOK, Source, NoSnapshot
  <2> QED BY <2>1, <2>2 DEF CommandEndsDoes, TypeOK, HistoryTyped
<1>16. ASSUME NEW j \in Job, LeaseExpires(j) PROVE HistoryTyped'
  BY <1>16 DEF LeaseExpires, Use, TypeOK, HistoryTyped, world, history
<1>17. ASSUME Crash PROVE HistoryTyped'
  BY <1>17 DEF Crash, Use, Orphaned, TypeOK, HistoryTyped, world, history
<1>18. ASSUME DaemonRestarts PROVE HistoryTyped'
  BY <1>18 DEF DaemonRestarts, Use, TypeOK, HistoryTyped, world, history
<1>19. ASSUME Environment \/ UNCHANGED vars PROVE HistoryTyped'
  BY <1>19 DEF Environment, RunChanges, WorkspaceChanges, TrustRevoked,
     SourcesEdited, vars, TypeOK, HistoryTyped, world, history
<1> QED
  BY <1>1, <1>2, <1>3, <1>4, <1>5, <1>6, <1>7, <1>8, <1>9, <1>10, <1>11,
     <1>12, <1>13, <1>14, <1>15, <1>16, <1>17, <1>18, <1>19 DEF Next,
     ManagerStep, DaemonStep

\* The fault counters stay within their bounds.
LEMMA FaultsStep ==
  ASSUME TypeOK, WorkOK, CallOK, BoxOK, [Next]_vars PROVE FaultsTyped'
<1>1. ASSUME NEW j \in Job, NEW s \in {NoSnapshot, content}, Enqueue(j, s)
      PROVE FaultsTyped'
  BY <1>1, RunnerConstants DEF Enqueue, TypeOK, FaultsTyped, world, history
<1>2. ASSUME NEW t \in Thread, NEW j \in Job, Claim(t, j) PROVE FaultsTyped'
  BY <1>2, RunnerConstants DEF Claim, Goes, Due, TypeOK, FaultsTyped, world,
     history
<1>3. ASSUME NEW t \in Thread, Authorize(t) PROVE FaultsTyped'
  BY <1>3, RunnerConstants DEF Authorize, Goes, Leaves, Becomes, Owned,
     TypeOK, FaultsTyped, world, history
<1>4. ASSUME NEW t \in Thread, ConnectRefused(t) PROVE FaultsTyped'
  BY <1>4, RunnerConstants DEF ConnectRefused, Use, Goes, TypeOK,
     FaultsTyped, world, history
<1>5. ASSUME NEW t \in Thread, HungUp(t) PROVE FaultsTyped'
  BY <1>5, RunnerConstants DEF HungUp, Unknown, Leaves, Orphaned, TypeOK,
     FaultsTyped, world, history
<1>6. ASSUME NEW t \in Thread, SocketBreaks(t) PROVE FaultsTyped'
  BY <1>6, RunnerConstants DEF SocketBreaks, Use, Unknown, Leaves, Orphaned,
     TypeOK, FaultsTyped, world, history
<1>7. ASSUME NEW t \in Thread, Record(t) PROVE FaultsTyped'
  BY <1>7, RunnerConstants DEF Record, Owned, Becomes, StatusOf, Leaves,
     TypeOK, FaultsTyped, world, history
<1>8. ASSUME NEW t \in Thread, NEW c \in Call, Send(t, c) PROVE FaultsTyped'
  BY <1>8, RunnerConstants DEF Send, Goes, TypeOK, FaultsTyped, world,
     history
<1>9. ASSUME NEW t \in Thread, NEW c \in Call, Receive(t, c) PROVE FaultsTyped'
  BY <1>9, RunnerConstants DEF Receive, Goes, OutcomeOf, TypeOK,
     FaultsTyped, world, history
<1>10. ASSUME NEW c \in Call, Accept(c) PROVE FaultsTyped'
  BY <1>10, RunnerConstants DEF Accept, Crowded, Use, TypeOK, FaultsTyped
<1>11. ASSUME NEW c \in Call, Interrupted(c) PROVE FaultsTyped'
  BY <1>11, RunnerConstants DEF Interrupted, Remove, DockerFails, Use, TypeOK, FaultsTyped
<1>12. ASSUME NEW c \in Call, Cleanup(c) PROVE FaultsTyped'
  BY <1>12, RunnerConstants DEF Cleanup, Remove, DockerFails, Use, TypeOK, FaultsTyped
<1>13. ASSUME NEW c \in Call, ReplyFails(c) PROVE FaultsTyped'
  BY <1>13 DEF ReplyFails, TypeOK, FaultsTyped
<1>14. ASSUME NEW j \in Job, Boot(j) PROVE FaultsTyped'
  <2>1. BootDoes(j)
    BY <1>14, BootEffect
  <2> QED
    BY <1>14, <2>1, RunnerConstants, ExitsEffect DEF BootDoes, TypeOK,
       FaultsTyped, world, history
<1>15. ASSUME NEW j \in Job, CommandEnds(j) PROVE FaultsTyped'
  <2>1. CommandEndsDoes(j)
    BY <1>15, CommandEndsEffect
  <2> QED
    BY <1>15, <2>1, RunnerConstants, ExitsEffect DEF CommandEndsDoes,
       TypeOK, FaultsTyped, world, history
<1>16. ASSUME NEW j \in Job, LeaseExpires(j) PROVE FaultsTyped'
  BY <1>16, RunnerConstants DEF LeaseExpires, Use, TypeOK, FaultsTyped,
     world, history
<1>17. ASSUME Crash PROVE FaultsTyped'
  BY <1>17, RunnerConstants DEF Crash, Use, Orphaned, TypeOK, FaultsTyped,
     world, history
<1>18. ASSUME DaemonRestarts PROVE FaultsTyped'
  BY <1>18, RunnerConstants DEF DaemonRestarts, Use, TypeOK, FaultsTyped,
     world, history
<1>19. ASSUME Environment \/ UNCHANGED vars PROVE FaultsTyped'
  BY <1>19, RunnerConstants DEF Environment, RunChanges, WorkspaceChanges,
     TrustRevoked, SourcesEdited, vars, TypeOK, FaultsTyped, world, history
<1> QED
  BY <1>1, <1>2, <1>3, <1>4, <1>5, <1>6, <1>7, <1>8, <1>9, <1>10, <1>11,
     <1>12, <1>13, <1>14, <1>15, <1>16, <1>17, <1>18, <1>19 DEF Next,
     ManagerStep, DaemonStep

\* Only a running row is leased.
LEMMA RowStep ==
  ASSUME TypeOK, WorkOK, CallOK, BoxOK, RowOK, [Next]_vars PROVE RowOK'
<1>1. ASSUME NEW j \in Job, NEW s \in {NoSnapshot, content}, Enqueue(j, s)
      PROVE RowOK'
  <2>1. EnqueueDoes(j)
    BY <1>1, EnqueueEffect
  <2> QED
    BY <1>1, <2>1 DEF EnqueueDoes, Enqueue, RowOK, Rewrites, StatusOf,
       Settled, Confirmed, world, history
<1>2. ASSUME NEW t \in Thread, NEW j \in Job, Claim(t, j) PROVE RowOK'
  <2>1. ClaimDoes(t, j)
    BY <1>2, ClaimEffect
  <2> QED
    BY <1>2, <2>1 DEF ClaimDoes, Claim, Goes, RowOK, Rewrites, StatusOf,
       Settled, Confirmed, world, history
<1>3. ASSUME NEW t \in Thread, Authorize(t) PROVE RowOK'
  <2>1. AuthorizeDoes(t)
    BY <1>3, AuthorizeEffect
  <2> QED
    BY <1>3, <2>1 DEF AuthorizeDoes, Authorize, Goes, Leaves, RowOK,
       Rewrites, StatusOf, Settled, Confirmed, world, history
<1>4. ASSUME NEW t \in Thread, ConnectRefused(t) PROVE RowOK'
  BY <1>4 DEF ConnectRefused, Use, Goes, RowOK, Rewrites, StatusOf, Settled,
     Confirmed, world, history
<1>5. ASSUME NEW t \in Thread, HungUp(t) PROVE RowOK'
  BY <1>5 DEF HungUp, Unknown, Leaves, Orphaned, RowOK, Rewrites, StatusOf,
     Settled, Confirmed, world, history
<1>6. ASSUME NEW t \in Thread, SocketBreaks(t) PROVE RowOK'
  BY <1>6 DEF SocketBreaks, Use, Unknown, Leaves, Orphaned, RowOK, Rewrites,
     StatusOf, Settled, Confirmed, world, history
<1>7. ASSUME NEW t \in Thread, Record(t) PROVE RowOK'
  <2>1. RecordDoes(t)
    BY <1>7, RecordEffect
  <2> QED
    BY <1>7, <2>1 DEF RecordDoes, Record, Leaves, RowOK, Rewrites, StatusOf,
       Settled, Confirmed, world, history
<1>8. ASSUME NEW t \in Thread, NEW c \in Call, Send(t, c) PROVE RowOK'
  BY <1>8 DEF Send, Goes, RowOK, Rewrites, StatusOf, Settled, Confirmed,
     world, history
<1>9. ASSUME NEW t \in Thread, NEW c \in Call, Receive(t, c) PROVE RowOK'
  BY <1>9 DEF Receive, Goes, OutcomeOf, RowOK, Rewrites, StatusOf, Settled,
     Confirmed, world, history
<1>10. ASSUME NEW c \in Call, Accept(c) PROVE RowOK'
  <2>1. AcceptDoes(c)
    BY <1>10, AcceptEffect
  <2> QED
    BY <1>10, <2>1 DEF AcceptDoes, RowOK, Rewrites, StatusOf, Settled,
       Confirmed, world, history
<1>11. ASSUME NEW c \in Call, Interrupted(c) PROVE RowOK'
  <2>1. InterruptedDoes(c)
    BY <1>11, InterruptedEffect
  <2> QED
    BY <1>11, <2>1 DEF InterruptedDoes, RowOK, Rewrites, StatusOf, Settled,
       Confirmed, world, history
<1>12. ASSUME NEW c \in Call, Cleanup(c) PROVE RowOK'
  <2>1. CleanupDoes(c)
    BY <1>12, CleanupEffect
  <2> QED
    BY <1>12, <2>1 DEF CleanupDoes, RowOK, Rewrites, StatusOf, Settled,
       Confirmed, world, history
<1>13. ASSUME NEW c \in Call, ReplyFails(c) PROVE RowOK'
  <2>1. ReplyFailsDoes(c)
    BY <1>13, ReplyFailsEffect
  <2> QED
    BY <1>13, <2>1 DEF ReplyFailsDoes, RowOK, Rewrites, StatusOf, Settled,
       Confirmed, world, history
<1>14. ASSUME NEW j \in Job, Boot(j) PROVE RowOK'
  <2>1. BootDoes(j)
    BY <1>14, BootEffect
  <2> QED
    BY <1>14, <2>1, ExitsEffect DEF BootDoes, RowOK, Rewrites, StatusOf,
       Settled, Confirmed, world, history
<1>15. ASSUME NEW j \in Job, CommandEnds(j) PROVE RowOK'
  <2>1. CommandEndsDoes(j)
    BY <1>15, CommandEndsEffect
  <2> QED
    BY <1>15, <2>1, ExitsEffect DEF CommandEndsDoes, RowOK, Rewrites,
       StatusOf, Settled, Confirmed, world, history
<1>16. ASSUME NEW j \in Job, LeaseExpires(j) PROVE RowOK'
  <2>1. LeaseExpiresDoes(j)
    BY <1>16, LeaseExpiresEffect
  <2> QED
    BY <1>16, <2>1 DEF LeaseExpiresDoes, LeaseExpires, RowOK, Rewrites,
       StatusOf, Settled, Confirmed, world, history
<1>17. ASSUME Crash PROVE RowOK'
  BY <1>17 DEF Crash, Use, Orphaned, RowOK, Rewrites, StatusOf, Settled,
     Confirmed, world, history
<1>18. ASSUME DaemonRestarts PROVE RowOK'
  BY <1>18 DEF DaemonRestarts, Use, RowOK, Rewrites, StatusOf, Settled,
     Confirmed, world, history
<1>19. ASSUME Environment \/ UNCHANGED vars PROVE RowOK'
  BY <1>19 DEF Environment, RunChanges, WorkspaceChanges, TrustRevoked,
     SourcesEdited, vars, RowOK, Rewrites, StatusOf, Settled, Confirmed, world,
     history
<1> QED
  BY <1>1, <1>2, <1>3, <1>4, <1>5, <1>6, <1>7, <1>8, <1>9, <1>10, <1>11,
     <1>12, <1>13, <1>14, <1>15, <1>16, <1>17, <1>18, <1>19 DEF Next,
     ManagerStep, DaemonStep

\* A client waits for one call, for the job they share.
LEMMA ClientStep ==
  ASSUME TypeOK, WorkOK, CallOK, BoxOK, ClientOK, [Next]_vars PROVE
         ClientOK'
<1>1. ASSUME NEW j \in Job, NEW s \in {NoSnapshot, content}, Enqueue(j, s)
      PROVE ClientOK'
  <2>1. EnqueueDoes(j)
    BY <1>1, EnqueueEffect
  <2> QED
    BY <1>1, <2>1, RunnerConstants DEF EnqueueDoes, Enqueue, TypeOK,
       ClientOK, WorkOK, CallOK, Moves, Idle, NoCall, Request, Work, world,
       history
<1>2. ASSUME NEW t \in Thread, NEW j \in Job, Claim(t, j) PROVE ClientOK'
  <2>1. ClaimDoes(t, j)
    BY <1>2, ClaimEffect
  <2> QED
    BY <1>2, <2>1, RunnerConstants DEF ClaimDoes, Claim, Goes, TypeOK,
       ClientOK, WorkOK, CallOK, Moves, Idle, NoCall, Request, Work, world,
       history
<1>3. ASSUME NEW t \in Thread, Authorize(t) PROVE ClientOK'
  <2>1. AuthorizeDoes(t)
    BY <1>3, AuthorizeEffect
  <2> QED
    BY <1>3, <2>1, RunnerConstants DEF AuthorizeDoes, Authorize, Goes,
       Leaves, TypeOK, ClientOK, WorkOK, CallOK, Moves, Idle, NoCall, Request,
       Work, world, history
<1>4. ASSUME NEW t \in Thread, ConnectRefused(t) PROVE ClientOK'
  BY <1>4, RunnerConstants DEF ConnectRefused, Use, Goes, TypeOK, ClientOK,
     WorkOK, CallOK, Moves, Idle, NoCall, Request, Work, world, history
<1>5. ASSUME NEW t \in Thread, HungUp(t) PROVE ClientOK'
  BY <1>5, RunnerConstants DEF HungUp, Unknown, Leaves, Orphaned, TypeOK,
     ClientOK, WorkOK, CallOK, Moves, Idle, NoCall, Request, Work, world,
     history
<1>6. ASSUME NEW t \in Thread, SocketBreaks(t) PROVE ClientOK'
  BY <1>6, RunnerConstants DEF SocketBreaks, Use, Unknown, Leaves, Orphaned,
     TypeOK, ClientOK, WorkOK, CallOK, Moves, Idle, NoCall, Request, Work,
     world, history
<1>7. ASSUME NEW t \in Thread, Record(t) PROVE ClientOK'
  <2>1. RecordDoes(t)
    BY <1>7, RecordEffect
  <2> QED
    BY <1>7, <2>1, RunnerConstants DEF RecordDoes, Record, Leaves, TypeOK,
       ClientOK, WorkOK, CallOK, Moves, Idle, NoCall, Request, Work, world,
       history
<1>8. ASSUME NEW t \in Thread, NEW c \in Call, Send(t, c) PROVE ClientOK'
  BY <1>8, RunnerConstants DEF Send, Goes, TypeOK, ClientOK, WorkOK, CallOK,
     Moves, Idle, NoCall, Request, Work, world, history
<1>9. ASSUME NEW t \in Thread, NEW c \in Call, Receive(t, c) PROVE ClientOK'
  BY <1>9, RunnerConstants DEF Receive, Goes, OutcomeOf, TypeOK, ClientOK,
     WorkOK, CallOK, Moves, Idle, NoCall, Request, Work, world, history
<1>10. ASSUME NEW c \in Call, Accept(c) PROVE ClientOK'
  <2>1. AcceptDoes(c)
    BY <1>10, AcceptEffect
  <2>2. work' = work
    BY <2>1 DEF AcceptDoes
  <2>3. \A d \in Call : call'[d].client = call[d].client /\ call'[d].job = call[d].job
    BY <2>1 DEF AcceptDoes, Moves, TypeOK
  <2> QED BY <2>2, <2>3 DEF ClientOK
<1>11. ASSUME NEW c \in Call, Interrupted(c) PROVE ClientOK'
  <2>1. InterruptedDoes(c)
    BY <1>11, InterruptedEffect
  <2>2. work' = work
    BY <2>1 DEF InterruptedDoes
  <2>3. \A d \in Call : call'[d].client = call[d].client /\ call'[d].job = call[d].job
    BY <2>1 DEF InterruptedDoes, Moves, TypeOK
  <2> QED BY <2>2, <2>3 DEF ClientOK
<1>12. ASSUME NEW c \in Call, Cleanup(c) PROVE ClientOK'
  <2>1. CleanupDoes(c)
    BY <1>12, CleanupEffect
  <2>2. work' = work
    BY <2>1 DEF CleanupDoes
  <2>3. \A d \in Call : call'[d].client = call[d].client /\ call'[d].job = call[d].job
    BY <2>1 DEF CleanupDoes, Moves, TypeOK
  <2> QED BY <2>2, <2>3 DEF ClientOK
<1>13. ASSUME NEW c \in Call, ReplyFails(c) PROVE ClientOK'
  <2>1. ReplyFailsDoes(c)
    BY <1>13, ReplyFailsEffect
  <2> QED
    BY <1>13, <2>1, RunnerConstants DEF ReplyFailsDoes, TypeOK, ClientOK,
       WorkOK, CallOK, Moves, Idle, NoCall, Request, Work, world, history
<1>14. ASSUME NEW j \in Job, Boot(j) PROVE ClientOK'
  <2>1. BootDoes(j)
    BY <1>14, BootEffect
  <2>2. work' = work
    BY <2>1 DEF BootDoes
  <2>3. \A d \in Call : call'[d].client = call[d].client /\ call'[d].job = call[d].job
    BY <2>1, ExitsEffect DEF BootDoes, Moves, TypeOK
  <2> QED BY <2>2, <2>3 DEF ClientOK
<1>15. ASSUME NEW j \in Job, CommandEnds(j) PROVE ClientOK'
  <2>1. CommandEndsDoes(j)
    BY <1>15, CommandEndsEffect
  <2>2. work' = work
    BY <2>1 DEF CommandEndsDoes
  <2>3. \A d \in Call : call'[d].client = call[d].client /\ call'[d].job = call[d].job
    BY <2>1, ExitsEffect DEF CommandEndsDoes, Moves, TypeOK
  <2> QED BY <2>2, <2>3 DEF ClientOK
<1>16. ASSUME NEW j \in Job, LeaseExpires(j) PROVE ClientOK'
  <2>1. LeaseExpiresDoes(j)
    BY <1>16, LeaseExpiresEffect
  <2> QED
    BY <1>16, <2>1, RunnerConstants DEF LeaseExpiresDoes, LeaseExpires,
       TypeOK, ClientOK, WorkOK, CallOK, Moves, Idle, NoCall, Request, Work,
       world, history
<1>17. ASSUME Crash PROVE ClientOK'
  BY <1>17, RunnerConstants DEF Crash, Use, Orphaned, TypeOK, ClientOK,
     WorkOK, CallOK, Moves, Idle, NoCall, Request, Work, world, history
<1>18. ASSUME DaemonRestarts PROVE ClientOK'
  BY <1>18, RunnerConstants DEF DaemonRestarts, Use, TypeOK, ClientOK,
     WorkOK, CallOK, Moves, Idle, NoCall, Request, Work, world, history
<1>19. ASSUME Environment \/ UNCHANGED vars PROVE ClientOK'
  BY <1>19, RunnerConstants DEF Environment, RunChanges, WorkspaceChanges,
     TrustRevoked, SourcesEdited, vars, TypeOK, ClientOK, WorkOK, CallOK,
     Moves, Idle, NoCall, Request, Work, world, history
<1> QED
  BY <1>1, <1>2, <1>3, <1>4, <1>5, <1>6, <1>7, <1>8, <1>9, <1>10, <1>11,
     <1>12, <1>13, <1>14, <1>15, <1>16, <1>17, <1>18, <1>19 DEF Next,
     ManagerStep, DaemonStep

\* Only enqueued jobs are worked on.
LEMMA KnownStep ==
  ASSUME TypeOK, WorkOK, CallOK, BoxOK, KnownOK, [Next]_vars PROVE
         KnownOK'
<1>1. ASSUME NEW j \in Job, NEW s \in {NoSnapshot, content}, Enqueue(j, s)
      PROVE KnownOK'
  <2>1. EnqueueDoes(j)
    BY <1>1, EnqueueEffect
  <2> QED
    BY <1>1, <2>1, RunnerConstants DEF EnqueueDoes, Enqueue, KnownOK,
       TypeOK, CallOK, WorkOK, Rewrites, StatusOf, Settled, Confirmed, Moves,
       Idle, NoCall, world, history
<1>2. ASSUME NEW t \in Thread, NEW j \in Job, Claim(t, j) PROVE KnownOK'
  <2>1. ClaimDoes(t, j)
    BY <1>2, ClaimEffect
  <2> QED
    BY <1>2, <2>1, RunnerConstants DEF ClaimDoes, Claim, Goes, KnownOK,
       TypeOK, CallOK, WorkOK, Rewrites, StatusOf, Settled, Confirmed, Moves,
       Idle, NoCall, world, history
<1>3. ASSUME NEW t \in Thread, Authorize(t) PROVE KnownOK'
  <2>1. AuthorizeDoes(t)
    BY <1>3, AuthorizeEffect
  <2> QED
    BY <1>3, <2>1, RunnerConstants DEF AuthorizeDoes, Authorize, Goes,
       Leaves, KnownOK, TypeOK, CallOK, WorkOK, Rewrites, StatusOf, Settled,
       Confirmed, Moves, Idle, NoCall, world, history
<1>4. ASSUME NEW t \in Thread, ConnectRefused(t) PROVE KnownOK'
  BY <1>4, RunnerConstants DEF ConnectRefused, Use, Goes, KnownOK, TypeOK,
     CallOK, WorkOK, Rewrites, StatusOf, Settled, Confirmed, Moves, Idle,
     NoCall, world, history
<1>5. ASSUME NEW t \in Thread, HungUp(t) PROVE KnownOK'
  BY <1>5, RunnerConstants DEF HungUp, Unknown, Leaves, Orphaned, KnownOK,
     TypeOK, CallOK, WorkOK, Rewrites, StatusOf, Settled, Confirmed, Moves,
     Idle, NoCall, world, history
<1>6. ASSUME NEW t \in Thread, SocketBreaks(t) PROVE KnownOK'
  BY <1>6, RunnerConstants DEF SocketBreaks, Use, Unknown, Leaves, Orphaned,
     KnownOK, TypeOK, CallOK, WorkOK, Rewrites, StatusOf, Settled, Confirmed,
     Moves, Idle, NoCall, world, history
<1>7. ASSUME NEW t \in Thread, Record(t) PROVE KnownOK'
  <2>1. RecordDoes(t)
    BY <1>7, RecordEffect
  <2> QED
    BY <1>7, <2>1, RunnerConstants DEF RecordDoes, Record, Leaves, KnownOK,
       TypeOK, CallOK, WorkOK, Rewrites, StatusOf, Settled, Confirmed, Moves,
       Idle, NoCall, world, history
<1>8. ASSUME NEW t \in Thread, NEW c \in Call, Send(t, c) PROVE KnownOK'
  BY <1>8, RunnerConstants DEF Send, Goes, KnownOK, TypeOK, CallOK, WorkOK,
     Rewrites, StatusOf, Settled, Confirmed, Moves, Idle, NoCall, world,
     history
<1>9. ASSUME NEW t \in Thread, NEW c \in Call, Receive(t, c) PROVE KnownOK'
  BY <1>9, RunnerConstants DEF Receive, Goes, OutcomeOf, KnownOK, TypeOK,
     CallOK, WorkOK, Rewrites, StatusOf, Settled, Confirmed, Moves, Idle,
     NoCall, world, history
<1>10. ASSUME NEW c \in Call, Accept(c) PROVE KnownOK'
  <2>1. AcceptDoes(c)
    BY <1>10, AcceptEffect
  <2> QED
    BY <1>10, <2>1, RunnerConstants DEF AcceptDoes, KnownOK, TypeOK, CallOK,
       WorkOK, Rewrites, StatusOf, Settled, Confirmed, Moves, Idle, NoCall,
       world, history
<1>11. ASSUME NEW c \in Call, Interrupted(c) PROVE KnownOK'
  <2>1. InterruptedDoes(c)
    BY <1>11, InterruptedEffect
  <2> QED
    BY <1>11, <2>1, RunnerConstants DEF InterruptedDoes, KnownOK, TypeOK,
       CallOK, WorkOK, Rewrites, StatusOf, Settled, Confirmed, Moves, Idle,
       NoCall, world, history
<1>12. ASSUME NEW c \in Call, Cleanup(c) PROVE KnownOK'
  <2>1. CleanupDoes(c)
    BY <1>12, CleanupEffect
  <2> QED
    BY <1>12, <2>1, RunnerConstants DEF CleanupDoes, KnownOK, TypeOK,
       CallOK, WorkOK, Rewrites, StatusOf, Settled, Confirmed, Moves, Idle,
       NoCall, world, history
<1>13. ASSUME NEW c \in Call, ReplyFails(c) PROVE KnownOK'
  <2>1. ReplyFailsDoes(c)
    BY <1>13, ReplyFailsEffect
  <2> QED
    BY <1>13, <2>1, RunnerConstants DEF ReplyFailsDoes, KnownOK, TypeOK,
       CallOK, WorkOK, Rewrites, StatusOf, Settled, Confirmed, Moves, Idle,
       NoCall, world, history
<1>14. ASSUME NEW j \in Job, Boot(j) PROVE KnownOK'
  <2>1. BootDoes(j)
    BY <1>14, BootEffect
  <2>2. ASSUME Exits(j, "failed") PROVE KnownOK'
    BY <2>1, <2>2, ExitsEffect DEF BootDoes, KnownOK, Moves, TypeOK
  <2>3. box[j] # NoBox
    BY <2>1 DEF BootDoes, NoBox
  <2> QED BY <2>1, <2>2, <2>3 DEF BootDoes, KnownOK, TypeOK
<1>15. ASSUME NEW j \in Job, CommandEnds(j) PROVE KnownOK'
  <2>1. CommandEndsDoes(j)
    BY <1>15, CommandEndsEffect
  <2> QED
    BY <1>15, <2>1, RunnerConstants, ExitsEffect DEF CommandEndsDoes,
       KnownOK, TypeOK, CallOK, WorkOK, Rewrites, StatusOf, Settled, Confirmed,
       Moves, Idle, NoCall, world, history
<1>16. ASSUME NEW j \in Job, LeaseExpires(j) PROVE KnownOK'
  <2>1. LeaseExpiresDoes(j)
    BY <1>16, LeaseExpiresEffect
  <2> QED
    BY <1>16, <2>1, RunnerConstants DEF LeaseExpiresDoes, LeaseExpires,
       KnownOK, TypeOK, CallOK, WorkOK, Rewrites, StatusOf, Settled, Confirmed,
       Moves, Idle, NoCall, world, history
<1>17. ASSUME Crash PROVE KnownOK'
  BY <1>17, RunnerConstants DEF Crash, Use, Orphaned, KnownOK, TypeOK,
     CallOK, WorkOK, Rewrites, StatusOf, Settled, Confirmed, Moves, Idle,
     NoCall, world, history
<1>18. ASSUME DaemonRestarts PROVE KnownOK'
  BY <1>18, RunnerConstants DEF DaemonRestarts, Use, KnownOK, TypeOK,
     CallOK, WorkOK, Rewrites, StatusOf, Settled, Confirmed, Moves, Idle,
     NoCall, world, history
<1>19. ASSUME Environment \/ UNCHANGED vars PROVE KnownOK'
  BY <1>19, RunnerConstants DEF Environment, RunChanges, WorkspaceChanges,
     TrustRevoked, SourcesEdited, vars, KnownOK, TypeOK, CallOK, WorkOK,
     Rewrites, StatusOf, Settled, Confirmed, Moves, Idle, NoCall, world,
     history
<1> QED
  BY <1>1, <1>2, <1>3, <1>4, <1>5, <1>6, <1>7, <1>8, <1>9, <1>10, <1>11,
     <1>12, <1>13, <1>14, <1>15, <1>16, <1>17, <1>18, <1>19 DEF Next,
     ManagerStep, DaemonStep

\* A step that rewrites one row, without a success that is not proven.
LEMMA RewriteKeepsProven ==
  ASSUME TypeOK, WorkOK, CallOK, ProvenOK, NEW j \in Job, NEW status, NEW live,
         Rewrites(j, status, live), status = "completed" => Proven(j),
         UNCHANGED <<call, box, passed>>,
         \A t \in Thread : work'[t] = work[t] \/ work'[t].at # "record"
  PROVE ProvenOK'
<1>1. \A k \in Job : Proven(k) => Proven(k)'
  BY DEF Rewrites, Proven
<1>2. \A k \in Job : job'[k].snapshot = job[k].snapshot
  BY DEF Rewrites
<1>3. \A k \in Job : job'[k].status = "completed" => Proven(k)
  BY DEF Rewrites, ProvenOK, CompletedIsProven, Proven
<1>4. CompletedIsProven'
  BY <1>1, <1>3 DEF CompletedIsProven, Proven
<1>5. \A t \in Thread : work'[t].at = "record" /\ work'[t].outcome = "completed"
                         => Proven(work'[t].job) /\ work'[t].job \in Job
  BY DEF ProvenOK, WorkOK
<1>6. \A c \in Call : call[c].phase \in {"ended", "replied"} => call[c].job \in Job
  BY DEF CallOK
<1> QED BY <1>1, <1>2, <1>4, <1>5, <1>6 DEF ProvenOK

\* A step of runnerd that adds no success that is not proven.
LEMMA DaemonKeepsProven ==
  ASSUME TypeOK, WorkOK, CallOK, ProvenOK, UNCHANGED <<job, work>>,
         \A k \in Job : passed[k] \subseteq passed'[k],
         \A c \in Call : \/ call'[c] = call[c]
                         \/ call'[c].phase \notin {"ended", "replied"}
                         \/ call'[c].result # "completed"
                         \/ \E k \in Job : call'[c].job = k /\ Proven(k)',
         \A k \in Job : box'[k].at = "running" => job[k].snapshot \in {NoSnapshot, box'[k].source}
  PROVE ProvenOK'
<1>1. \A k \in Job : Proven(k) => Proven(k)'
  BY DEF Proven
<1>2. CompletedIsProven'
  BY <1>1 DEF CompletedIsProven, ProvenOK, Proven
<1>3. \A t \in Thread : work[t].at = "record" => work[t].job \in Job
  BY DEF WorkOK
<1>4. \A c \in Call : call[c].phase \in {"ended", "replied"} => call[c].job \in Job
  BY DEF CallOK
<1> QED BY <1>1, <1>2, <1>3, <1>4 DEF ProvenOK

\* A success is proven wherever it is on its way to the row.
LEMMA ProvenStep ==
  ASSUME TypeOK, WorkOK, CallOK, BoxOK, RowOK, ClientOK, KnownOK,
         ProvenOK, [Next]_vars PROVE ProvenOK'
<1>1. ASSUME NEW j \in Job, NEW s \in {NoSnapshot, content}, Enqueue(j, s)
      PROVE ProvenOK'
  <2>1. EnqueueDoes(j)
    BY <1>1, EnqueueEffect
  <2>2. UNCHANGED <<work, call, box, passed>>
    BY <1>1 DEF Enqueue
  <2>3. \A k \in Job \ {j} : Proven(k) => Proven(k)'
    BY <2>1, <2>2 DEF EnqueueDoes, Proven
  <2>4. CompletedIsProven'
    BY <2>1, <2>2, <2>3 DEF EnqueueDoes, ProvenOK, CompletedIsProven, Proven
  <2>5. \A c \in Call : call[c].phase \in {"ended", "replied"} => call[c].job \in Job \ {j}
    BY <2>1 DEF EnqueueDoes, KnownOK, CallOK
  <2>6. \A t \in Thread : work[t].at = "record" => work[t].job \in Job \ {j}
    BY <2>1 DEF EnqueueDoes, KnownOK, WorkOK
  <2>7. box[j].at # "running"
    BY <2>1 DEF EnqueueDoes, KnownOK, NoBox
  <2> QED BY <2>1, <2>2, <2>3, <2>4, <2>5, <2>6, <2>7 DEF EnqueueDoes, ProvenOK
<1>2. ASSUME NEW t \in Thread, NEW j \in Job, Claim(t, j) PROVE ProvenOK'
  <2>1. Rewrites(j, "running", TRUE)
    BY <1>2, ClaimEffect DEF ClaimDoes
  <2>2. \A u \in Thread : work'[u] = work[u] \/ work'[u].at # "record"
    BY <1>2 DEF Claim, Goes, TypeOK
  <2> QED BY <1>2, <2>1, <2>2, RewriteKeepsProven DEF Claim, history
<1>3. ASSUME NEW t \in Thread, Authorize(t) PROVE ProvenOK'
  <2>1. AuthorizeDoes(t)
    BY <1>3, AuthorizeEffect
  <2>2. \A u \in Thread : work'[u] = work[u] \/ work'[u].at # "record"
    <3>1. CASE Leaves(t)
      BY <3>1 DEF Leaves, Idle, TypeOK
    <3>2. CASE Goes(t, "send", work[t].job, "none")
      BY <3>2 DEF Goes, TypeOK
    <3> QED BY <2>1, <3>1, <3>2 DEF AuthorizeDoes
  <2>3. CASE Rewrites(work[t].job, "rejected", FALSE)
    BY <1>3, <2>1, <2>2, <2>3, RewriteKeepsProven DEF Authorize, AuthorizeDoes, history
  <2>4. CASE job' = job
    <3>1. UNCHANGED <<job, call, box, passed>>
      BY <1>3, <2>4 DEF Authorize, history
    <3> QED BY <2>2, <3>1 DEF ProvenOK, CompletedIsProven, Proven
  <2> QED BY <2>1, <2>3, <2>4 DEF AuthorizeDoes
<1>4. ASSUME NEW t \in Thread, ConnectRefused(t) PROVE ProvenOK'
  BY <1>4 DEF ConnectRefused, Use, Goes, ProvenOK, CompletedIsProven,
     Proven, TypeOK, CallOK, WorkOK, Idle, NoCall, NoBox, world, history
<1>5. ASSUME NEW t \in Thread, HungUp(t) PROVE ProvenOK'
  BY <1>5 DEF HungUp, Unknown, Leaves, Orphaned, ProvenOK,
     CompletedIsProven, Proven, TypeOK, CallOK, WorkOK, Idle, NoCall, NoBox,
     world, history
<1>6. ASSUME NEW t \in Thread, SocketBreaks(t) PROVE ProvenOK'
  BY <1>6 DEF SocketBreaks, Use, Unknown, Leaves, Orphaned, ProvenOK,
     CompletedIsProven, Proven, TypeOK, CallOK, WorkOK, Idle, NoCall, NoBox,
     world, history
<1>7. ASSUME NEW t \in Thread, Record(t) PROVE ProvenOK'
  <2>1. RecordDoes(t)
    BY <1>7, RecordEffect
  <2>2. \A u \in Thread : work'[u] = work[u] \/ work'[u].at # "record"
    BY <2>1 DEF RecordDoes, Leaves, Idle, TypeOK
  <2>3. CASE Rewrites(work[t].job, StatusOf(work[t].outcome), FALSE)
    <3>1. StatusOf(work[t].outcome) = "completed" => Proven(work[t].job)
      BY <1>7 DEF Record, StatusOf, ProvenOK
    <3> QED BY <1>7, <2>1, <2>2, <2>3, <3>1, RewriteKeepsProven DEF Record, RecordDoes, history
  <2>4. CASE job' = job
    <3>1. UNCHANGED <<job, call, box, passed>>
      BY <1>7, <2>4 DEF Record, history
    <3> QED BY <2>2, <3>1 DEF ProvenOK, CompletedIsProven, Proven
  <2> QED BY <2>1, <2>3, <2>4 DEF RecordDoes
<1>8. ASSUME NEW t \in Thread, NEW c \in Call, Send(t, c) PROVE ProvenOK'
  BY <1>8 DEF Send, Goes, ProvenOK, CompletedIsProven, Proven, TypeOK,
     CallOK, WorkOK, Idle, NoCall, NoBox, world, history
<1>9. ASSUME NEW t \in Thread, NEW c \in Call, Receive(t, c) PROVE ProvenOK'
  <2>1. call[c].job = work[t].job
    BY <1>9, RunnerConstants DEF Receive, ClientOK
  <2>2. OutcomeOf(call[c].result) = "completed" => Proven(work[t].job)
    BY <1>9, <2>1 DEF Receive, OutcomeOf, ProvenOK
  <2>3. UNCHANGED <<job, box, passed>>
    BY <1>9 DEF Receive, history
  <2>4. \A d \in Call : call'[d] = call[d] \/ call'[d].phase = "free"
    BY <1>9 DEF Receive, NoCall, TypeOK
  <2>5. \A u \in Thread : work'[u] = work[u] \/ (work'[u].outcome = OutcomeOf(call[c].result) /\ work'[u].job = work[t].job)
    BY <1>9 DEF Receive, Goes, TypeOK
  <2> QED BY <2>2, <2>3, <2>4, <2>5 DEF ProvenOK, CompletedIsProven, Proven
<1>10. ASSUME NEW c \in Call, Accept(c) PROVE ProvenOK'
  <2>1. AcceptDoes(c)
    BY <1>10, AcceptEffect
  <2>2. \A k \in Job : passed[k] \subseteq passed'[k]
    BY <2>1 DEF AcceptDoes, history
  <2>3. \A d \in Call : call'[d] = call[d] \/ call'[d].phase \notin {"ended", "replied"} \/ call'[d].result # "completed"
    BY <2>1 DEF AcceptDoes, Moves, NoCall, TypeOK
  <2>4. \A k \in Job : box'[k].at = "running" => job[k].snapshot \in {NoSnapshot, box'[k].source}
    BY <2>1 DEF AcceptDoes, ProvenOK, NoBox, TypeOK
  <2> QED BY <2>1, <2>2, <2>3, <2>4, DaemonKeepsProven DEF AcceptDoes
<1>11. ASSUME NEW c \in Call, Interrupted(c) PROVE ProvenOK'
  <2>1. InterruptedDoes(c)
    BY <1>11, InterruptedEffect
  <2>2. \A k \in Job : passed[k] \subseteq passed'[k]
    BY <2>1 DEF InterruptedDoes, history
  <2>3. \A d \in Call : call'[d] = call[d] \/ call'[d].phase \notin {"ended", "replied"} \/ call'[d].result # "completed"
    BY <2>1 DEF InterruptedDoes, Moves, NoCall, TypeOK
  <2>4. \A k \in Job : box'[k].at = "running" => job[k].snapshot \in {NoSnapshot, box'[k].source}
    BY <2>1 DEF InterruptedDoes, ProvenOK, NoBox, TypeOK
  <2> QED BY <2>1, <2>2, <2>3, <2>4, DaemonKeepsProven DEF InterruptedDoes
<1>12. ASSUME NEW c \in Call, Cleanup(c) PROVE ProvenOK'
  <2>1. CleanupDoes(c)
    BY <1>12, CleanupEffect
  <2>2. \A k \in Job : passed[k] \subseteq passed'[k]
    BY <2>1 DEF CleanupDoes, history
  <2>3. \A k \in Job : k = call[c].job /\ call[c].result = "completed" => Proven(k)'
    BY <2>1 DEF CleanupDoes, ProvenOK, Proven, history
  <2>4. \A d \in Call : call'[d] = call[d] \/ call'[d].result # "completed" \/ (\E k \in Job : call'[d].job = k /\ Proven(k)')
    BY <2>1, <2>3 DEF CleanupDoes, Moves
  <2>5. \A k \in Job : box'[k].at = "running" => job[k].snapshot \in {NoSnapshot, box'[k].source}
    BY <2>1 DEF CleanupDoes, ProvenOK, NoBox, TypeOK
  <2> QED BY <2>1, <2>2, <2>4, <2>5, DaemonKeepsProven DEF CleanupDoes
<1>13. ASSUME NEW c \in Call, ReplyFails(c) PROVE ProvenOK'
  <2>1. ReplyFailsDoes(c)
    BY <1>13, ReplyFailsEffect
  <2>2. \A k \in Job : passed[k] \subseteq passed'[k]
    BY <2>1 DEF ReplyFailsDoes, history
  <2>3. \A d \in Call : call'[d] = call[d] \/ call'[d].phase \notin {"ended", "replied"} \/ call'[d].result # "completed"
    BY <2>1 DEF ReplyFailsDoes, Moves, NoCall, TypeOK
  <2>4. \A k \in Job : box'[k].at = "running" => job[k].snapshot \in {NoSnapshot, box'[k].source}
    BY <2>1 DEF ReplyFailsDoes, ProvenOK, NoBox, TypeOK
  <2> QED BY <2>1, <2>2, <2>3, <2>4, DaemonKeepsProven DEF ReplyFailsDoes
<1>14. ASSUME NEW j \in Job, Boot(j) PROVE ProvenOK'
  <2>1. BootDoes(j)
    BY <1>14, BootEffect
  <2>2. \A k \in Job : passed[k] \subseteq passed'[k]
    BY <2>1 DEF BootDoes
  <2>3. \A d \in Call : call'[d] = call[d] \/ call'[d].result # "completed"
    BY <2>1, ExitsEffect DEF BootDoes, Moves
  <2>4. \A k \in Job : box'[k].at = "running" => job[k].snapshot \in {NoSnapshot, box'[k].source}
    BY <2>1, ExitsEffect DEF BootDoes, ProvenOK, NoBox, TypeOK
  <2> QED BY <2>1, <2>2, <2>3, <2>4, DaemonKeepsProven DEF BootDoes
<1>15. ASSUME NEW j \in Job, CommandEnds(j) PROVE ProvenOK'
  <2>1. CommandEndsDoes(j)
    BY <1>15, CommandEndsEffect
  <2>2. Exits(j, "completed") \/ Exits(j, "failed")
    BY <2>1 DEF CommandEndsDoes
  <2>3. ASSUME NEW d \in Call, call'[d] # call[d], call'[d].result = "completed"
        PROVE \E k \in Job : call'[d].job = k /\ Proven(k)'
    <3>1. box[j].by = d /\ d # NoOne /\ Exits(j, "completed")
      BY <2>2, <2>3, ExitsEffect, RunnerConstants DEF Moves, Exits, Ends
    <3>2. call'[d].job = j
      BY <2>1, <3>1, ExitsEffect DEF BoxOK, Moves, CommandEndsDoes
    <3>3. ~Exits(j, "failed")
      BY <2>3, <3>1, ExitsEffect DEF Moves
    <3>4. box[j].source \in passed'[j]
      BY <2>1, <3>3 DEF CommandEndsDoes
    <3>5. job[j].snapshot \in {NoSnapshot, box[j].source}
      BY <2>1 DEF ProvenOK, CommandEndsDoes
    <3> QED BY <2>1, <3>2, <3>4, <3>5 DEF Proven, CommandEndsDoes
  <2>4. \A k \in Job : box'[k].at = "running" => job[k].snapshot \in {NoSnapshot, box'[k].source}
    BY <2>2, ExitsEffect DEF ProvenOK, NoBox, TypeOK
  <2> QED BY <2>1, <2>3, <2>4, DaemonKeepsProven DEF CommandEndsDoes
<1>16. ASSUME NEW j \in Job, LeaseExpires(j) PROVE ProvenOK'
  <2>1. Rewrites(j, job[j].status, FALSE) /\ job[j].status # "completed"
    BY <1>16, LeaseExpiresEffect DEF LeaseExpiresDoes, RowOK
  <2> QED BY <1>16, <2>1, RewriteKeepsProven DEF LeaseExpires, history
<1>17. ASSUME Crash PROVE ProvenOK'
  BY <1>17 DEF Crash, Use, Orphaned, ProvenOK, CompletedIsProven, Proven,
     TypeOK, CallOK, WorkOK, Idle, NoCall, NoBox, world, history
<1>18. ASSUME DaemonRestarts PROVE ProvenOK'
  <2>1. \A d \in Call : call'[d].phase \notin {"ended", "replied"}
    BY <1>18 DEF DaemonRestarts, NoCall
  <2>2. \A k \in Job : box'[k].at = "running" => job[k].snapshot \in {NoSnapshot, box'[k].source}
    <3>1. \A k \in Job : box'[k] = NoBox \/ (box'[k].at = box[k].at /\ box'[k].source = box[k].source)
      BY <1>18 DEF DaemonRestarts, TypeOK, Box
    <3> QED BY <3>1 DEF ProvenOK, NoBox
  <2>3. \A k \in Job : passed[k] \subseteq passed'[k]
    BY <1>18 DEF DaemonRestarts, history
  <2> QED BY <1>18, <2>1, <2>2, <2>3, DaemonKeepsProven DEF DaemonRestarts
<1>19. ASSUME Environment \/ UNCHANGED vars PROVE ProvenOK'
  BY <1>19 DEF Environment, RunChanges, WorkspaceChanges, TrustRevoked,
     SourcesEdited, vars, ProvenOK, CompletedIsProven, Proven, TypeOK, CallOK,
     WorkOK, Idle, NoCall, NoBox, world, history
<1> QED
  BY <1>1, <1>2, <1>3, <1>4, <1>5, <1>6, <1>7, <1>8, <1>9, <1>10, <1>11,
     <1>12, <1>13, <1>14, <1>15, <1>16, <1>17, <1>18, <1>19 DEF Next,
     ManagerStep, DaemonStep

KeepsSettled == \A k \in Job : job[k].status \in Settled => job'[k] = job[k]

\* No step touches a settled row: whoever writes a row owns its lease, and only
\* running rows are leased.
LEMMA SettledStep ==
  ASSUME TypeOK, WorkOK, CallOK, BoxOK, RowOK, [Next]_vars PROVE
         KeepsSettled
<1>1. ASSUME NEW j \in Job, NEW s \in {NoSnapshot, content}, Enqueue(j, s)
      PROVE KeepsSettled
  <2>1. EnqueueDoes(j)
    BY <1>1, EnqueueEffect
  <2> QED BY <2>1 DEF EnqueueDoes, KeepsSettled, Settled, Confirmed
<1>2. ASSUME NEW t \in Thread, NEW j \in Job, Claim(t, j) PROVE KeepsSettled
  <2>1. Rewrites(j, "running", TRUE)
    BY <1>2, ClaimEffect DEF ClaimDoes
  <2>2. job[j].status \notin Settled
    BY <1>2 DEF Claim, Due, Settled, Confirmed
  <2> QED BY <2>1, <2>2 DEF Rewrites, KeepsSettled
<1>3. ASSUME NEW t \in Thread, Authorize(t) PROVE KeepsSettled
  <2>1. AuthorizeDoes(t)
    BY <1>3, AuthorizeEffect
  <2>2. Owned(t) => job[work[t].job].status \notin Settled
    BY DEF Owned, Settled, Confirmed
  <2> QED BY <2>1, <2>2 DEF AuthorizeDoes, Rewrites, KeepsSettled
<1>4. ASSUME NEW t \in Thread, ConnectRefused(t) PROVE KeepsSettled
  BY <1>4 DEF ConnectRefused, Use, Goes, KeepsSettled, Settled, Confirmed,
     TypeOK, world, history
<1>5. ASSUME NEW t \in Thread, HungUp(t) PROVE KeepsSettled
  BY <1>5 DEF HungUp, Unknown, Leaves, Orphaned, KeepsSettled, Settled,
     Confirmed, TypeOK, world, history
<1>6. ASSUME NEW t \in Thread, SocketBreaks(t) PROVE KeepsSettled
  BY <1>6 DEF SocketBreaks, Use, Unknown, Leaves, Orphaned, KeepsSettled,
     Settled, Confirmed, TypeOK, world, history
<1>7. ASSUME NEW t \in Thread, Record(t) PROVE KeepsSettled
  <2>1. RecordDoes(t)
    BY <1>7, RecordEffect
  <2>2. Owned(t) => job[work[t].job].status \notin Settled
    BY DEF Owned, Settled, Confirmed
  <2> QED BY <2>1, <2>2 DEF RecordDoes, Rewrites, KeepsSettled
<1>8. ASSUME NEW t \in Thread, NEW c \in Call, Send(t, c) PROVE KeepsSettled
  BY <1>8 DEF Send, Goes, KeepsSettled, Settled, Confirmed, TypeOK, world,
     history
<1>9. ASSUME NEW t \in Thread, NEW c \in Call, Receive(t, c) PROVE KeepsSettled
  BY <1>9 DEF Receive, Goes, OutcomeOf, KeepsSettled, Settled, Confirmed,
     TypeOK, world, history
<1>10. ASSUME NEW c \in Call, Accept(c) PROVE KeepsSettled
  <2>1. AcceptDoes(c)
    BY <1>10, AcceptEffect
  <2> QED
    BY <1>10, <2>1 DEF AcceptDoes, KeepsSettled, Settled, Confirmed, TypeOK,
       world, history
<1>11. ASSUME NEW c \in Call, Interrupted(c) PROVE KeepsSettled
  <2>1. InterruptedDoes(c)
    BY <1>11, InterruptedEffect
  <2> QED
    BY <1>11, <2>1 DEF InterruptedDoes, KeepsSettled, Settled, Confirmed,
       TypeOK, world, history
<1>12. ASSUME NEW c \in Call, Cleanup(c) PROVE KeepsSettled
  <2>1. CleanupDoes(c)
    BY <1>12, CleanupEffect
  <2> QED
    BY <1>12, <2>1 DEF CleanupDoes, KeepsSettled, Settled, Confirmed,
       TypeOK, world, history
<1>13. ASSUME NEW c \in Call, ReplyFails(c) PROVE KeepsSettled
  <2>1. ReplyFailsDoes(c)
    BY <1>13, ReplyFailsEffect
  <2> QED
    BY <1>13, <2>1 DEF ReplyFailsDoes, KeepsSettled, Settled, Confirmed,
       TypeOK, world, history
<1>14. ASSUME NEW j \in Job, Boot(j) PROVE KeepsSettled
  <2>1. BootDoes(j)
    BY <1>14, BootEffect
  <2> QED
    BY <1>14, <2>1, ExitsEffect DEF BootDoes, KeepsSettled, Settled,
       Confirmed, TypeOK, world, history
<1>15. ASSUME NEW j \in Job, CommandEnds(j) PROVE KeepsSettled
  <2>1. CommandEndsDoes(j)
    BY <1>15, CommandEndsEffect
  <2> QED
    BY <1>15, <2>1, ExitsEffect DEF CommandEndsDoes, KeepsSettled, Settled,
       Confirmed, TypeOK, world, history
<1>16. ASSUME NEW j \in Job, LeaseExpires(j) PROVE KeepsSettled
  <2>1. Rewrites(j, job[j].status, FALSE) /\ job[j].live
    BY <1>16, LeaseExpiresEffect DEF LeaseExpiresDoes
  <2>2. job[j].status \notin Settled
    BY <2>1 DEF RowOK, Settled, Confirmed
  <2> QED BY <2>1, <2>2 DEF Rewrites, KeepsSettled
<1>17. ASSUME Crash PROVE KeepsSettled
  BY <1>17 DEF Crash, Use, Orphaned, KeepsSettled, Settled, Confirmed,
     TypeOK, world, history
<1>18. ASSUME DaemonRestarts PROVE KeepsSettled
  BY <1>18 DEF DaemonRestarts, Use, KeepsSettled, Settled, Confirmed,
     TypeOK, world, history
<1>19. ASSUME Environment \/ UNCHANGED vars PROVE KeepsSettled
  BY <1>19 DEF Environment, RunChanges, WorkspaceChanges, TrustRevoked,
     SourcesEdited, vars, KeepsSettled, Settled, Confirmed, TypeOK, world,
     history
<1> QED
  BY <1>1, <1>2, <1>3, <1>4, <1>5, <1>6, <1>7, <1>8, <1>9, <1>10, <1>11,
     <1>12, <1>13, <1>14, <1>15, <1>16, <1>17, <1>18, <1>19 DEF Next,
     ManagerStep, DaemonStep

----------------------------------------------------------------------------
(* The theorems                                                             *)

LEMMA SoundInit == Init => Sound
<1> SUFFICES ASSUME Init PROVE Sound
  OBVIOUS
<1>1. TypeOK
  BY RunnerConstants DEF Init, TypeOK, Row, Work, Request, Box, Idle, NoCall, NoBox, JobStatus,
     Source, Result, NoSnapshot
<1>2. WorkOK /\ CallOK /\ BoxOK /\ RowOK /\ ClientOK
  BY <1>1 DEF Init, WorkOK, CallOK, BoxOK, RowOK, ClientOK, Idle, NoCall, NoBox
<1>3. KnownOK
  BY <1>1, RunnerConstants DEF Init, KnownOK, Idle, NoCall, NoBox
<1>4. ProvenOK
  BY <1>1 DEF Init, ProvenOK, CompletedIsProven, Idle, NoCall, NoBox
<1> QED BY <1>1, <1>2, <1>3, <1>4 DEF Sound

LEMMA SoundStep ==
  ASSUME Sound, [Next]_vars PROVE Sound'
<1> USE DEF Sound
<1>1. /\ job' \in [Job -> Row] /\ work' \in [Thread -> Work]
      /\ call' \in [Call -> Request] /\ box' \in [Job -> Box]
  BY JobTyped, WorkTyped, CallTyped, BoxTyped
<1>2. WorldTyped' /\ HistoryTyped' /\ FaultsTyped'
  BY WorldStep, HistoryStep, FaultsStep
<1>3. TypeOK'
  BY <1>1, <1>2 DEF TypeOK, WorldTyped, HistoryTyped, FaultsTyped
<1>4. WorkOK' /\ CallOK' /\ BoxOK' /\ RowOK'
  BY WorkStep, CallStep, BoxStep, RowStep
<1>5. ClientOK' /\ KnownOK' /\ ProvenOK'
  BY ClientStep, KnownStep, ProvenStep
<1> QED BY <1>3, <1>4, <1>5

\* The invariant holds of every reachable state.
LEMMA SoundAlways == Spec => []Sound
<1>1. Sound /\ [Next]_vars => Sound'
  BY SoundStep
<1> QED BY <1>1, SoundInit, PTL DEF Spec

\* Every reachable state is well typed, the bounds on faults included.
THEOREM TypeCorrect == Spec => []TypeOK
<1>1. Sound => TypeOK
  BY DEF Sound
<1> QED BY <1>1, SoundAlways, PTL

\* A job is recorded as completed only when its command exited 0, for a
\* checkpoint job on the very sources of its snapshot; leases that expire
\* under a working thread included.
THEOREM SuccessIsProven == Spec => []CompletedIsProven
<1>1. Sound => CompletedIsProven
  BY DEF Sound, ProvenOK
<1> QED BY <1>1, SoundAlways, PTL

\* No late reply, expired lease or second claim changes a settled job.
THEOREM SettledJobsAreFinal == Spec => JobIsFinal
<1>1. Sound /\ [Next]_vars => [\A j \in Job : job[j].status \in Settled => job'[j] = job[j]]_vars
  BY SettledStep DEF Sound, KeepsSettled
<1> QED BY <1>1, SoundAlways, PTL DEF Spec, JobIsFinal

----------------------------------------------------------------------------
(* Without preemption                                                       *)

\* A lease expires only when nobody works on its job any more.
NoPreemption == MaxPreemptions = 0

\* A thread that works owns its job.
Held == \A t \in Thread : work[t].at # "idle" => Owned(t)

\* The job of a call is leased.
InForce ==
  \A c \in Call : call[c].phase # "free" =>
    job[call[c].job].status = "running" /\ job[call[c].job].live

\* Calls carry different jobs.
OneCall == \A c, d \in Call : call[c].phase # "free" /\ call[c].job = call[d].job => c = d

\* Before its thread submitted a job, and once the reply is read, no call
\* carries it.
NoCallYet ==
  \A t \in Thread, c \in Call :
    work[t].at \in {"authorize", "send", "record"} => call[c].job # work[t].job

\* A confirmed result leaves no container, in the row and on its way there.
GoneOK ==
  /\ \A t \in Thread : work[t].at = "record" /\ work[t].outcome \in Confirmed
                       => box[work[t].job] = NoBox
  /\ \A c \in Call : call[c].phase = "replied" /\ call[c].result \in Confirmed
                     => box[call[c].job] = NoBox
  /\ ConfirmedIsGone

Leased == Held /\ InForce /\ OneCall /\ NoCallYet /\ GoneOK

\* The calls carry the same jobs for the same clients as before.
Places ==
  /\ UNCHANGED <<job, work>>
  /\ \A d \in Call : /\ call'[d].job = call[d].job /\ call'[d].client = call[d].client
                     /\ call'[d].phase = "free" <=> call[d].phase = "free"

\* Only runnerd's replies take a call from its place.
LEMMA DaemonKeepsPlaces ==
  ASSUME TypeOK, CallOK, BoxOK,
         \/ \E c \in Call : Accept(c) \/ Interrupted(c) \/ Cleanup(c)
         \/ \E j \in Job : Boot(j) \/ CommandEnds(j)
  PROVE Places
<1>1. ASSUME NEW c \in Call, Accept(c) PROVE Places
  BY <1>1, AcceptEffect DEF AcceptDoes, Moves, Places
<1>2. ASSUME NEW c \in Call, Interrupted(c) PROVE Places
  BY <1>2, InterruptedEffect DEF InterruptedDoes, Moves, Places
<1>3. ASSUME NEW c \in Call, Cleanup(c) PROVE Places
  BY <1>3, CleanupEffect DEF CleanupDoes, Moves, Places
<1>4. ASSUME NEW j \in Job, NEW r \in {"completed", "failed"}, Exits(j, r), box[j].at # "none",
             UNCHANGED <<job, work>>
      PROVE Places
  <2>1. CASE box[j].by = NoOne
    BY <1>4, <2>1, ExitsEffect DEF Places
  <2>2. CASE box[j].by # NoOne
    <3>1. box[j].by \in Call /\ Moves(box[j].by, "ended", r)
      BY <1>4, <2>2, ExitsEffect
    <3>2. call[box[j].by].phase = "running"
      BY <1>4, <2>2 DEF BoxOK
    <3> QED BY <1>4, <3>1, <3>2 DEF Moves, Places
  <2> QED BY <2>1, <2>2
<1>5. ASSUME NEW j \in Job, Boot(j) PROVE Places
  BY <1>4, <1>5, BootEffect DEF BootDoes, Places
<1>6. ASSUME NEW j \in Job, CommandEnds(j) PROVE Places
  BY <1>4, <1>6, CommandEndsEffect DEF CommandEndsDoes, Places
<1> QED BY <1>1, <1>2, <1>3, <1>5, <1>6

\* A thread that works keeps its lease.
LEMMA HeldStep ==
  ASSUME TypeOK, WorkOK, CallOK, BoxOK, RowOK, ClientOK, KnownOK, Held,
         InForce, OneCall, NoCallYet, NoPreemption, [Next]_vars PROVE Held'
<1>1. ASSUME NEW j \in Job, NEW s \in {NoSnapshot, content}, Enqueue(j, s)
      PROVE Held'
  <2>1. EnqueueDoes(j)
    BY <1>1, EnqueueEffect
  <2> QED
    BY <1>1, <2>1, RunnerConstants DEF EnqueueDoes, Enqueue, TypeOK, CallOK,
       WorkOK, Rewrites, StatusOf, Settled, Confirmed, Moves, Idle, NoCall,
       Owned, Busy, NoPreemption, ClientOK, Held, world, history
<1>2. ASSUME NEW t \in Thread, NEW j \in Job, Claim(t, j) PROVE Held'
  <2>1. ClaimDoes(t, j)
    BY <1>2, ClaimEffect
  <2>2. \A u \in Thread \ {t} : work'[u] = work[u]
    BY <1>2 DEF Claim, Goes, TypeOK
  <2>3. work'[t].at = "authorize" /\ work'[t].job = j /\ Due(j) /\ UNCHANGED call
    BY <1>2 DEF Claim, Goes, TypeOK
  <2>4. ASSUME NEW u \in Thread \ {t}, work[u].at # "idle"
        PROVE work[u].job \in Job \ {j} /\ Owned(u)
    BY <2>3, <2>4 DEF Held, Owned, Due, WorkOK
  <2>5. job'[j].status = "running" /\ job'[j].holder = t /\ job'[j].live
        /\ \A k \in Job \ {j} : job'[k] = job[k]
    BY <2>1 DEF ClaimDoes, Rewrites
  <2> QED BY <2>2, <2>3, <2>4, <2>5 DEF Held, Owned
<1>3. ASSUME NEW t \in Thread, Authorize(t) PROVE Held'
  <2>1. AuthorizeDoes(t)
    BY <1>3, AuthorizeEffect
  <2> QED
    BY <1>3, <2>1, RunnerConstants DEF AuthorizeDoes, Authorize, Goes,
       Leaves, TypeOK, CallOK, WorkOK, Rewrites, StatusOf, Settled, Confirmed,
       Moves, Idle, NoCall, Owned, Busy, NoPreemption, ClientOK, Held, world,
       history
<1>4. ASSUME NEW t \in Thread, ConnectRefused(t) PROVE Held'
  BY <1>4, RunnerConstants DEF ConnectRefused, Use, Goes, TypeOK, CallOK,
     WorkOK, Rewrites, StatusOf, Settled, Confirmed, Moves, Idle, NoCall,
     Owned, Busy, NoPreemption, ClientOK, Held, world, history
<1>5. ASSUME NEW t \in Thread, HungUp(t) PROVE Held'
  BY <1>5, RunnerConstants DEF HungUp, Unknown, Leaves, Orphaned, TypeOK,
     CallOK, WorkOK, Rewrites, StatusOf, Settled, Confirmed, Moves, Idle,
     NoCall, Owned, Busy, NoPreemption, ClientOK, Held, world, history
<1>6. ASSUME NEW t \in Thread, SocketBreaks(t) PROVE Held'
  BY <1>6, RunnerConstants DEF SocketBreaks, Use, Unknown, Leaves, Orphaned,
     TypeOK, CallOK, WorkOK, Rewrites, StatusOf, Settled, Confirmed, Moves,
     Idle, NoCall, Owned, Busy, NoPreemption, ClientOK, Held, world, history
<1>7. ASSUME NEW t \in Thread, Record(t) PROVE Held'
  <2>1. RecordDoes(t)
    BY <1>7, RecordEffect
  <2> QED
    BY <1>7, <2>1, RunnerConstants DEF RecordDoes, Record, Leaves, TypeOK,
       CallOK, WorkOK, Rewrites, StatusOf, Settled, Confirmed, Moves, Idle,
       NoCall, Owned, Busy, NoPreemption, ClientOK, Held, world, history
<1>8. ASSUME NEW t \in Thread, NEW c \in Call, Send(t, c) PROVE Held'
  BY <1>8, RunnerConstants DEF Send, Goes, TypeOK, CallOK, WorkOK, Rewrites,
     StatusOf, Settled, Confirmed, Moves, Idle, NoCall, Owned, Busy,
     NoPreemption, ClientOK, Held, world, history
<1>9. ASSUME NEW t \in Thread, NEW c \in Call, Receive(t, c) PROVE Held'
  BY <1>9, RunnerConstants DEF Receive, Goes, OutcomeOf, TypeOK, CallOK,
     WorkOK, Rewrites, StatusOf, Settled, Confirmed, Moves, Idle, NoCall,
     Owned, Busy, NoPreemption, ClientOK, Held, world, history
<1>10. ASSUME NEW c \in Call, Accept(c) PROVE Held'
  <2>1. Places
    BY <1>10, DaemonKeepsPlaces
  <2> QED BY <2>1 DEF Places, Held, Owned
<1>11. ASSUME NEW c \in Call, Interrupted(c) PROVE Held'
  <2>1. Places
    BY <1>11, DaemonKeepsPlaces
  <2> QED BY <2>1 DEF Places, Held, Owned
<1>12. ASSUME NEW c \in Call, Cleanup(c) PROVE Held'
  <2>1. Places
    BY <1>12, DaemonKeepsPlaces
  <2> QED BY <2>1 DEF Places, Held, Owned
<1>13. ASSUME NEW c \in Call, ReplyFails(c) PROVE Held'
  <2>1. ReplyFailsDoes(c)
    BY <1>13, ReplyFailsEffect
  <2> QED
    BY <1>13, <2>1, RunnerConstants DEF ReplyFailsDoes, TypeOK, CallOK,
       WorkOK, Rewrites, StatusOf, Settled, Confirmed, Moves, Idle, NoCall,
       Owned, Busy, NoPreemption, ClientOK, Held, world, history
<1>14. ASSUME NEW j \in Job, Boot(j) PROVE Held'
  <2>1. Places
    BY <1>14, DaemonKeepsPlaces
  <2> QED BY <2>1 DEF Places, Held, Owned
<1>15. ASSUME NEW j \in Job, CommandEnds(j) PROVE Held'
  <2>1. Places
    BY <1>15, DaemonKeepsPlaces
  <2> QED BY <2>1 DEF Places, Held, Owned
<1>16. ASSUME NEW j \in Job, LeaseExpires(j) PROVE Held'
  <2>1. LeaseExpiresDoes(j)
    BY <1>16, LeaseExpiresEffect
  <2> QED
    BY <1>16, <2>1, RunnerConstants DEF LeaseExpiresDoes, LeaseExpires,
       TypeOK, CallOK, WorkOK, Rewrites, StatusOf, Settled, Confirmed, Moves,
       Idle, NoCall, Owned, Busy, NoPreemption, ClientOK, Held, world, history
<1>17. ASSUME Crash PROVE Held'
  BY <1>17, RunnerConstants DEF Crash, Use, Orphaned, TypeOK, CallOK,
     WorkOK, Rewrites, StatusOf, Settled, Confirmed, Moves, Idle, NoCall,
     Owned, Busy, NoPreemption, ClientOK, Held, world, history
<1>18. ASSUME DaemonRestarts PROVE Held'
  BY <1>18, RunnerConstants DEF DaemonRestarts, Use, TypeOK, CallOK, WorkOK,
     Rewrites, StatusOf, Settled, Confirmed, Moves, Idle, NoCall, Owned, Busy,
     NoPreemption, ClientOK, Held, world, history
<1>19. ASSUME Environment \/ UNCHANGED vars PROVE Held'
  BY <1>19, RunnerConstants DEF Environment, RunChanges, WorkspaceChanges,
     TrustRevoked, SourcesEdited, vars, TypeOK, CallOK, WorkOK, Rewrites,
     StatusOf, Settled, Confirmed, Moves, Idle, NoCall, Owned, Busy,
     NoPreemption, ClientOK, Held, world, history
<1> QED
  BY <1>1, <1>2, <1>3, <1>4, <1>5, <1>6, <1>7, <1>8, <1>9, <1>10, <1>11,
     <1>12, <1>13, <1>14, <1>15, <1>16, <1>17, <1>18, <1>19 DEF Next,
     ManagerStep, DaemonStep

\* The job of a call stays leased.
LEMMA InForceStep ==
  ASSUME TypeOK, WorkOK, CallOK, BoxOK, RowOK, ClientOK, KnownOK, Held,
         InForce, OneCall, NoCallYet, NoPreemption, [Next]_vars PROVE InForce'
<1>1. ASSUME NEW j \in Job, NEW s \in {NoSnapshot, content}, Enqueue(j, s)
      PROVE InForce'
  <2>1. EnqueueDoes(j)
    BY <1>1, EnqueueEffect
  <2> QED
    BY <1>1, <2>1, RunnerConstants DEF EnqueueDoes, Enqueue, TypeOK, CallOK,
       WorkOK, Rewrites, StatusOf, Settled, Confirmed, Moves, Idle, NoCall,
       Owned, Busy, NoPreemption, ClientOK, InForce, Held, NoCallYet, world,
       history
<1>2. ASSUME NEW t \in Thread, NEW j \in Job, Claim(t, j) PROVE InForce'
  <2>1. ClaimDoes(t, j)
    BY <1>2, ClaimEffect
  <2> QED
    BY <1>2, <2>1, RunnerConstants DEF ClaimDoes, Claim, Goes, TypeOK,
       CallOK, WorkOK, Rewrites, StatusOf, Settled, Confirmed, Moves, Idle,
       NoCall, Owned, Busy, NoPreemption, ClientOK, InForce, Held, NoCallYet,
       world, history
<1>3. ASSUME NEW t \in Thread, Authorize(t) PROVE InForce'
  <2>1. AuthorizeDoes(t)
    BY <1>3, AuthorizeEffect
  <2> QED
    BY <1>3, <2>1, RunnerConstants DEF AuthorizeDoes, Authorize, Goes,
       Leaves, TypeOK, CallOK, WorkOK, Rewrites, StatusOf, Settled, Confirmed,
       Moves, Idle, NoCall, Owned, Busy, NoPreemption, ClientOK, InForce, Held,
       NoCallYet, world, history
<1>4. ASSUME NEW t \in Thread, ConnectRefused(t) PROVE InForce'
  BY <1>4, RunnerConstants DEF ConnectRefused, Use, Goes, TypeOK, CallOK,
     WorkOK, Rewrites, StatusOf, Settled, Confirmed, Moves, Idle, NoCall,
     Owned, Busy, NoPreemption, ClientOK, InForce, Held, NoCallYet, world,
     history
<1>5. ASSUME NEW t \in Thread, HungUp(t) PROVE InForce'
  BY <1>5, RunnerConstants DEF HungUp, Unknown, Leaves, Orphaned, TypeOK,
     CallOK, WorkOK, Rewrites, StatusOf, Settled, Confirmed, Moves, Idle,
     NoCall, Owned, Busy, NoPreemption, ClientOK, InForce, Held, NoCallYet,
     world, history
<1>6. ASSUME NEW t \in Thread, SocketBreaks(t) PROVE InForce'
  BY <1>6, RunnerConstants DEF SocketBreaks, Use, Unknown, Leaves, Orphaned,
     TypeOK, CallOK, WorkOK, Rewrites, StatusOf, Settled, Confirmed, Moves,
     Idle, NoCall, Owned, Busy, NoPreemption, ClientOK, InForce, Held,
     NoCallYet, world, history
<1>7. ASSUME NEW t \in Thread, Record(t) PROVE InForce'
  <2>1. RecordDoes(t)
    BY <1>7, RecordEffect
  <2> QED
    BY <1>7, <2>1, RunnerConstants DEF RecordDoes, Record, Leaves, TypeOK,
       CallOK, WorkOK, Rewrites, StatusOf, Settled, Confirmed, Moves, Idle,
       NoCall, Owned, Busy, NoPreemption, ClientOK, InForce, Held, NoCallYet,
       world, history
<1>8. ASSUME NEW t \in Thread, NEW c \in Call, Send(t, c) PROVE InForce'
  BY <1>8, RunnerConstants DEF Send, Goes, TypeOK, CallOK, WorkOK, Rewrites,
     StatusOf, Settled, Confirmed, Moves, Idle, NoCall, Owned, Busy,
     NoPreemption, ClientOK, InForce, Held, NoCallYet, world, history
<1>9. ASSUME NEW t \in Thread, NEW c \in Call, Receive(t, c) PROVE InForce'
  BY <1>9, RunnerConstants DEF Receive, Goes, OutcomeOf, TypeOK, CallOK,
     WorkOK, Rewrites, StatusOf, Settled, Confirmed, Moves, Idle, NoCall,
     Owned, Busy, NoPreemption, ClientOK, InForce, Held, NoCallYet, world,
     history
<1>10. ASSUME NEW c \in Call, Accept(c) PROVE InForce'
  <2>1. Places
    BY <1>10, DaemonKeepsPlaces
  <2> QED BY <2>1 DEF Places, InForce
<1>11. ASSUME NEW c \in Call, Interrupted(c) PROVE InForce'
  <2>1. Places
    BY <1>11, DaemonKeepsPlaces
  <2> QED BY <2>1 DEF Places, InForce
<1>12. ASSUME NEW c \in Call, Cleanup(c) PROVE InForce'
  <2>1. Places
    BY <1>12, DaemonKeepsPlaces
  <2> QED BY <2>1 DEF Places, InForce
<1>13. ASSUME NEW c \in Call, ReplyFails(c) PROVE InForce'
  <2>1. ReplyFailsDoes(c)
    BY <1>13, ReplyFailsEffect
  <2> QED
    BY <1>13, <2>1, RunnerConstants DEF ReplyFailsDoes, TypeOK, CallOK,
       WorkOK, Rewrites, StatusOf, Settled, Confirmed, Moves, Idle, NoCall,
       Owned, Busy, NoPreemption, ClientOK, InForce, Held, NoCallYet, world,
       history
<1>14. ASSUME NEW j \in Job, Boot(j) PROVE InForce'
  <2>1. Places
    BY <1>14, DaemonKeepsPlaces
  <2> QED BY <2>1 DEF Places, InForce
<1>15. ASSUME NEW j \in Job, CommandEnds(j) PROVE InForce'
  <2>1. Places
    BY <1>15, DaemonKeepsPlaces
  <2> QED BY <2>1 DEF Places, InForce
<1>16. ASSUME NEW j \in Job, LeaseExpires(j) PROVE InForce'
  <2>1. LeaseExpiresDoes(j)
    BY <1>16, LeaseExpiresEffect
  <2> QED
    BY <1>16, <2>1, RunnerConstants DEF LeaseExpiresDoes, LeaseExpires,
       TypeOK, CallOK, WorkOK, Rewrites, StatusOf, Settled, Confirmed, Moves,
       Idle, NoCall, Owned, Busy, NoPreemption, ClientOK, InForce, Held,
       NoCallYet, world, history
<1>17. ASSUME Crash PROVE InForce'
  BY <1>17, RunnerConstants DEF Crash, Use, Orphaned, TypeOK, CallOK,
     WorkOK, Rewrites, StatusOf, Settled, Confirmed, Moves, Idle, NoCall,
     Owned, Busy, NoPreemption, ClientOK, InForce, Held, NoCallYet, world,
     history
<1>18. ASSUME DaemonRestarts PROVE InForce'
  BY <1>18, RunnerConstants DEF DaemonRestarts, Use, TypeOK, CallOK, WorkOK,
     Rewrites, StatusOf, Settled, Confirmed, Moves, Idle, NoCall, Owned, Busy,
     NoPreemption, ClientOK, InForce, Held, NoCallYet, world, history
<1>19. ASSUME Environment \/ UNCHANGED vars PROVE InForce'
  BY <1>19, RunnerConstants DEF Environment, RunChanges, WorkspaceChanges,
     TrustRevoked, SourcesEdited, vars, TypeOK, CallOK, WorkOK, Rewrites,
     StatusOf, Settled, Confirmed, Moves, Idle, NoCall, Owned, Busy,
     NoPreemption, ClientOK, InForce, Held, NoCallYet, world, history
<1> QED
  BY <1>1, <1>2, <1>3, <1>4, <1>5, <1>6, <1>7, <1>8, <1>9, <1>10, <1>11,
     <1>12, <1>13, <1>14, <1>15, <1>16, <1>17, <1>18, <1>19 DEF Next,
     ManagerStep, DaemonStep

\* No second call carries a job.
LEMMA OneCallStep ==
  ASSUME TypeOK, WorkOK, CallOK, BoxOK, RowOK, ClientOK, KnownOK, Held,
         InForce, OneCall, NoCallYet, NoPreemption, [Next]_vars PROVE OneCall'
<1>1. ASSUME NEW j \in Job, NEW s \in {NoSnapshot, content}, Enqueue(j, s)
      PROVE OneCall'
  <2>1. EnqueueDoes(j)
    BY <1>1, EnqueueEffect
  <2> QED
    BY <1>1, <2>1, RunnerConstants DEF EnqueueDoes, Enqueue, TypeOK, CallOK,
       WorkOK, Rewrites, StatusOf, Settled, Confirmed, Moves, Idle, NoCall,
       Owned, Busy, NoPreemption, ClientOK, OneCall, NoCallYet, world, history
<1>2. ASSUME NEW t \in Thread, NEW j \in Job, Claim(t, j) PROVE OneCall'
  <2>1. ClaimDoes(t, j)
    BY <1>2, ClaimEffect
  <2> QED
    BY <1>2, <2>1, RunnerConstants DEF ClaimDoes, Claim, Goes, TypeOK,
       CallOK, WorkOK, Rewrites, StatusOf, Settled, Confirmed, Moves, Idle,
       NoCall, Owned, Busy, NoPreemption, ClientOK, OneCall, NoCallYet, world,
       history
<1>3. ASSUME NEW t \in Thread, Authorize(t) PROVE OneCall'
  <2>1. AuthorizeDoes(t)
    BY <1>3, AuthorizeEffect
  <2> QED
    BY <1>3, <2>1, RunnerConstants DEF AuthorizeDoes, Authorize, Goes,
       Leaves, TypeOK, CallOK, WorkOK, Rewrites, StatusOf, Settled, Confirmed,
       Moves, Idle, NoCall, Owned, Busy, NoPreemption, ClientOK, OneCall,
       NoCallYet, world, history
<1>4. ASSUME NEW t \in Thread, ConnectRefused(t) PROVE OneCall'
  BY <1>4, RunnerConstants DEF ConnectRefused, Use, Goes, TypeOK, CallOK,
     WorkOK, Rewrites, StatusOf, Settled, Confirmed, Moves, Idle, NoCall,
     Owned, Busy, NoPreemption, ClientOK, OneCall, NoCallYet, world, history
<1>5. ASSUME NEW t \in Thread, HungUp(t) PROVE OneCall'
  BY <1>5, RunnerConstants DEF HungUp, Unknown, Leaves, Orphaned, TypeOK,
     CallOK, WorkOK, Rewrites, StatusOf, Settled, Confirmed, Moves, Idle,
     NoCall, Owned, Busy, NoPreemption, ClientOK, OneCall, NoCallYet, world,
     history
<1>6. ASSUME NEW t \in Thread, SocketBreaks(t) PROVE OneCall'
  BY <1>6, RunnerConstants DEF SocketBreaks, Use, Unknown, Leaves, Orphaned,
     TypeOK, CallOK, WorkOK, Rewrites, StatusOf, Settled, Confirmed, Moves,
     Idle, NoCall, Owned, Busy, NoPreemption, ClientOK, OneCall, NoCallYet,
     world, history
<1>7. ASSUME NEW t \in Thread, Record(t) PROVE OneCall'
  <2>1. RecordDoes(t)
    BY <1>7, RecordEffect
  <2> QED
    BY <1>7, <2>1, RunnerConstants DEF RecordDoes, Record, Leaves, TypeOK,
       CallOK, WorkOK, Rewrites, StatusOf, Settled, Confirmed, Moves, Idle,
       NoCall, Owned, Busy, NoPreemption, ClientOK, OneCall, NoCallYet, world,
       history
<1>8. ASSUME NEW t \in Thread, NEW c \in Call, Send(t, c) PROVE OneCall'
  BY <1>8, RunnerConstants DEF Send, Goes, TypeOK, CallOK, WorkOK, Rewrites,
     StatusOf, Settled, Confirmed, Moves, Idle, NoCall, Owned, Busy,
     NoPreemption, ClientOK, OneCall, NoCallYet, world, history
<1>9. ASSUME NEW t \in Thread, NEW c \in Call, Receive(t, c) PROVE OneCall'
  BY <1>9, RunnerConstants DEF Receive, Goes, OutcomeOf, TypeOK, CallOK,
     WorkOK, Rewrites, StatusOf, Settled, Confirmed, Moves, Idle, NoCall,
     Owned, Busy, NoPreemption, ClientOK, OneCall, NoCallYet, world, history
<1>10. ASSUME NEW c \in Call, Accept(c) PROVE OneCall'
  <2>1. Places
    BY <1>10, DaemonKeepsPlaces
  <2> QED BY <2>1 DEF Places, OneCall
<1>11. ASSUME NEW c \in Call, Interrupted(c) PROVE OneCall'
  <2>1. Places
    BY <1>11, DaemonKeepsPlaces
  <2> QED BY <2>1 DEF Places, OneCall
<1>12. ASSUME NEW c \in Call, Cleanup(c) PROVE OneCall'
  <2>1. Places
    BY <1>12, DaemonKeepsPlaces
  <2> QED BY <2>1 DEF Places, OneCall
<1>13. ASSUME NEW c \in Call, ReplyFails(c) PROVE OneCall'
  <2>1. ReplyFailsDoes(c)
    BY <1>13, ReplyFailsEffect
  <2> QED
    BY <1>13, <2>1, RunnerConstants DEF ReplyFailsDoes, TypeOK, CallOK,
       WorkOK, Rewrites, StatusOf, Settled, Confirmed, Moves, Idle, NoCall,
       Owned, Busy, NoPreemption, ClientOK, OneCall, NoCallYet, world, history
<1>14. ASSUME NEW j \in Job, Boot(j) PROVE OneCall'
  <2>1. Places
    BY <1>14, DaemonKeepsPlaces
  <2> QED BY <2>1 DEF Places, OneCall
<1>15. ASSUME NEW j \in Job, CommandEnds(j) PROVE OneCall'
  <2>1. Places
    BY <1>15, DaemonKeepsPlaces
  <2> QED BY <2>1 DEF Places, OneCall
<1>16. ASSUME NEW j \in Job, LeaseExpires(j) PROVE OneCall'
  <2>1. LeaseExpiresDoes(j)
    BY <1>16, LeaseExpiresEffect
  <2> QED
    BY <1>16, <2>1, RunnerConstants DEF LeaseExpiresDoes, LeaseExpires,
       TypeOK, CallOK, WorkOK, Rewrites, StatusOf, Settled, Confirmed, Moves,
       Idle, NoCall, Owned, Busy, NoPreemption, ClientOK, OneCall, NoCallYet,
       world, history
<1>17. ASSUME Crash PROVE OneCall'
  BY <1>17, RunnerConstants DEF Crash, Use, Orphaned, TypeOK, CallOK,
     WorkOK, Rewrites, StatusOf, Settled, Confirmed, Moves, Idle, NoCall,
     Owned, Busy, NoPreemption, ClientOK, OneCall, NoCallYet, world, history
<1>18. ASSUME DaemonRestarts PROVE OneCall'
  BY <1>18, RunnerConstants DEF DaemonRestarts, Use, TypeOK, CallOK, WorkOK,
     Rewrites, StatusOf, Settled, Confirmed, Moves, Idle, NoCall, Owned, Busy,
     NoPreemption, ClientOK, OneCall, NoCallYet, world, history
<1>19. ASSUME Environment \/ UNCHANGED vars PROVE OneCall'
  BY <1>19, RunnerConstants DEF Environment, RunChanges, WorkspaceChanges,
     TrustRevoked, SourcesEdited, vars, TypeOK, CallOK, WorkOK, Rewrites,
     StatusOf, Settled, Confirmed, Moves, Idle, NoCall, Owned, Busy,
     NoPreemption, ClientOK, OneCall, NoCallYet, world, history
<1> QED
  BY <1>1, <1>2, <1>3, <1>4, <1>5, <1>6, <1>7, <1>8, <1>9, <1>10, <1>11,
     <1>12, <1>13, <1>14, <1>15, <1>16, <1>17, <1>18, <1>19 DEF Next,
     ManagerStep, DaemonStep

\* A job is submitted once per lease.
LEMMA NoCallYetStep ==
  ASSUME TypeOK, WorkOK, CallOK, BoxOK, RowOK, ClientOK, KnownOK, Held,
         InForce, OneCall, NoCallYet, NoPreemption, [Next]_vars PROVE
         NoCallYet'
<1>1. ASSUME NEW j \in Job, NEW s \in {NoSnapshot, content}, Enqueue(j, s)
      PROVE NoCallYet'
  <2>1. EnqueueDoes(j)
    BY <1>1, EnqueueEffect
  <2> QED
    BY <1>1, <2>1, RunnerConstants DEF EnqueueDoes, Enqueue, TypeOK, CallOK,
       WorkOK, Rewrites, StatusOf, Settled, Confirmed, Moves, Idle, NoCall,
       Owned, Busy, NoPreemption, ClientOK, OneCall, NoCallYet, Held, InForce,
       world, history
<1>2. ASSUME NEW t \in Thread, NEW j \in Job, Claim(t, j) PROVE NoCallYet'
  <2>1. ClaimDoes(t, j)
    BY <1>2, ClaimEffect
  <2>2. \A u \in Thread \ {t} : work'[u] = work[u]
    BY <1>2 DEF Claim, Goes, TypeOK
  <2>3. work'[t].at = "authorize" /\ work'[t].job = j /\ Due(j) /\ UNCHANGED call
    BY <1>2 DEF Claim, Goes, TypeOK
  <2>4. \A c \in Call : call[c].job # j
    BY <2>3, RunnerConstants DEF InForce, Due, CallOK, NoCall
  <2> QED BY <2>2, <2>3, <2>4 DEF NoCallYet
<1>3. ASSUME NEW t \in Thread, Authorize(t) PROVE NoCallYet'
  <2>1. AuthorizeDoes(t)
    BY <1>3, AuthorizeEffect
  <2> QED
    BY <1>3, <2>1, RunnerConstants DEF AuthorizeDoes, Authorize, Goes,
       Leaves, TypeOK, CallOK, WorkOK, Rewrites, StatusOf, Settled, Confirmed,
       Moves, Idle, NoCall, Owned, Busy, NoPreemption, ClientOK, OneCall,
       NoCallYet, Held, InForce, world, history
<1>4. ASSUME NEW t \in Thread, ConnectRefused(t) PROVE NoCallYet'
  BY <1>4, RunnerConstants DEF ConnectRefused, Use, Goes, TypeOK, CallOK,
     WorkOK, Rewrites, StatusOf, Settled, Confirmed, Moves, Idle, NoCall,
     Owned, Busy, NoPreemption, ClientOK, OneCall, NoCallYet, Held, InForce,
     world, history
<1>5. ASSUME NEW t \in Thread, HungUp(t) PROVE NoCallYet'
  BY <1>5, RunnerConstants DEF HungUp, Unknown, Leaves, Orphaned, TypeOK,
     CallOK, WorkOK, Rewrites, StatusOf, Settled, Confirmed, Moves, Idle,
     NoCall, Owned, Busy, NoPreemption, ClientOK, OneCall, NoCallYet, Held,
     InForce, world, history
<1>6. ASSUME NEW t \in Thread, SocketBreaks(t) PROVE NoCallYet'
  BY <1>6, RunnerConstants DEF SocketBreaks, Use, Unknown, Leaves, Orphaned,
     TypeOK, CallOK, WorkOK, Rewrites, StatusOf, Settled, Confirmed, Moves,
     Idle, NoCall, Owned, Busy, NoPreemption, ClientOK, OneCall, NoCallYet,
     Held, InForce, world, history
<1>7. ASSUME NEW t \in Thread, Record(t) PROVE NoCallYet'
  <2>1. RecordDoes(t)
    BY <1>7, RecordEffect
  <2> QED
    BY <1>7, <2>1, RunnerConstants DEF RecordDoes, Record, Leaves, TypeOK,
       CallOK, WorkOK, Rewrites, StatusOf, Settled, Confirmed, Moves, Idle,
       NoCall, Owned, Busy, NoPreemption, ClientOK, OneCall, NoCallYet, Held,
       InForce, world, history
<1>8. ASSUME NEW t \in Thread, NEW c \in Call, Send(t, c) PROVE NoCallYet'
  BY <1>8, RunnerConstants DEF Send, Goes, TypeOK, CallOK, WorkOK, Rewrites,
     StatusOf, Settled, Confirmed, Moves, Idle, NoCall, Owned, Busy,
     NoPreemption, ClientOK, OneCall, NoCallYet, Held, InForce, world, history
<1>9. ASSUME NEW t \in Thread, NEW c \in Call, Receive(t, c) PROVE NoCallYet'
  BY <1>9, RunnerConstants DEF Receive, Goes, OutcomeOf, TypeOK, CallOK,
     WorkOK, Rewrites, StatusOf, Settled, Confirmed, Moves, Idle, NoCall,
     Owned, Busy, NoPreemption, ClientOK, OneCall, NoCallYet, Held, InForce,
     world, history
<1>10. ASSUME NEW c \in Call, Accept(c) PROVE NoCallYet'
  <2>1. Places
    BY <1>10, DaemonKeepsPlaces
  <2> QED BY <2>1 DEF Places, NoCallYet
<1>11. ASSUME NEW c \in Call, Interrupted(c) PROVE NoCallYet'
  <2>1. Places
    BY <1>11, DaemonKeepsPlaces
  <2> QED BY <2>1 DEF Places, NoCallYet
<1>12. ASSUME NEW c \in Call, Cleanup(c) PROVE NoCallYet'
  <2>1. Places
    BY <1>12, DaemonKeepsPlaces
  <2> QED BY <2>1 DEF Places, NoCallYet
<1>13. ASSUME NEW c \in Call, ReplyFails(c) PROVE NoCallYet'
  <2>1. ReplyFailsDoes(c)
    BY <1>13, ReplyFailsEffect
  <2> QED
    BY <1>13, <2>1, RunnerConstants DEF ReplyFailsDoes, TypeOK, CallOK,
       WorkOK, Rewrites, StatusOf, Settled, Confirmed, Moves, Idle, NoCall,
       Owned, Busy, NoPreemption, ClientOK, OneCall, NoCallYet, Held, InForce,
       world, history
<1>14. ASSUME NEW j \in Job, Boot(j) PROVE NoCallYet'
  <2>1. Places
    BY <1>14, DaemonKeepsPlaces
  <2> QED BY <2>1 DEF Places, NoCallYet
<1>15. ASSUME NEW j \in Job, CommandEnds(j) PROVE NoCallYet'
  <2>1. Places
    BY <1>15, DaemonKeepsPlaces
  <2> QED BY <2>1 DEF Places, NoCallYet
<1>16. ASSUME NEW j \in Job, LeaseExpires(j) PROVE NoCallYet'
  <2>1. LeaseExpiresDoes(j)
    BY <1>16, LeaseExpiresEffect
  <2> QED
    BY <1>16, <2>1, RunnerConstants DEF LeaseExpiresDoes, LeaseExpires,
       TypeOK, CallOK, WorkOK, Rewrites, StatusOf, Settled, Confirmed, Moves,
       Idle, NoCall, Owned, Busy, NoPreemption, ClientOK, OneCall, NoCallYet,
       Held, InForce, world, history
<1>17. ASSUME Crash PROVE NoCallYet'
  BY <1>17, RunnerConstants DEF Crash, Use, Orphaned, TypeOK, CallOK,
     WorkOK, Rewrites, StatusOf, Settled, Confirmed, Moves, Idle, NoCall,
     Owned, Busy, NoPreemption, ClientOK, OneCall, NoCallYet, Held, InForce,
     world, history
<1>18. ASSUME DaemonRestarts PROVE NoCallYet'
  BY <1>18, RunnerConstants DEF DaemonRestarts, Use, TypeOK, CallOK, WorkOK,
     Rewrites, StatusOf, Settled, Confirmed, Moves, Idle, NoCall, Owned, Busy,
     NoPreemption, ClientOK, OneCall, NoCallYet, Held, InForce, world, history
<1>19. ASSUME Environment \/ UNCHANGED vars PROVE NoCallYet'
  BY <1>19, RunnerConstants DEF Environment, RunChanges, WorkspaceChanges,
     TrustRevoked, SourcesEdited, vars, TypeOK, CallOK, WorkOK, Rewrites,
     StatusOf, Settled, Confirmed, Moves, Idle, NoCall, Owned, Busy,
     NoPreemption, ClientOK, OneCall, NoCallYet, Held, InForce, world, history
<1> QED
  BY <1>1, <1>2, <1>3, <1>4, <1>5, <1>6, <1>7, <1>8, <1>9, <1>10, <1>11,
     <1>12, <1>13, <1>14, <1>15, <1>16, <1>17, <1>18, <1>19 DEF Next,
     ManagerStep, DaemonStep

\* A confirmed result stays without a container: only a call in force starts one.
LEMMA GoneStep ==
  ASSUME TypeOK, WorkOK, CallOK, BoxOK, RowOK, ClientOK, KnownOK, Held,
         InForce, OneCall, NoCallYet, NoPreemption, GoneOK, [Next]_vars PROVE
         GoneOK'
<1>1. ASSUME NEW j \in Job, NEW s \in {NoSnapshot, content}, Enqueue(j, s)
      PROVE GoneOK'
  <2>1. EnqueueDoes(j)
    BY <1>1, EnqueueEffect
  <2> QED
    BY <1>1, <2>1, RunnerConstants DEF EnqueueDoes, Enqueue, GoneOK,
       ConfirmedIsGone, TypeOK, WorkOK, Idle, NoCall, NoBox, Rewrites,
       StatusOf, ClientOK, Confirmed, CallOK, world, history
<1>2. ASSUME NEW t \in Thread, NEW j \in Job, Claim(t, j) PROVE GoneOK'
  <2>1. ClaimDoes(t, j)
    BY <1>2, ClaimEffect
  <2> QED
    BY <1>2, <2>1, RunnerConstants DEF ClaimDoes, Claim, Goes, GoneOK,
       ConfirmedIsGone, TypeOK, WorkOK, Idle, NoCall, NoBox, Rewrites,
       StatusOf, ClientOK, Confirmed, CallOK, world, history
<1>3. ASSUME NEW t \in Thread, Authorize(t) PROVE GoneOK'
  <2>1. AuthorizeDoes(t)
    BY <1>3, AuthorizeEffect
  <2> QED
    BY <1>3, <2>1, RunnerConstants DEF AuthorizeDoes, Authorize, Goes,
       Leaves, GoneOK, ConfirmedIsGone, TypeOK, WorkOK, Idle, NoCall, NoBox,
       Rewrites, StatusOf, ClientOK, Confirmed, CallOK, world, history
<1>4. ASSUME NEW t \in Thread, ConnectRefused(t) PROVE GoneOK'
  BY <1>4, RunnerConstants DEF ConnectRefused, Use, Goes, GoneOK,
     ConfirmedIsGone, TypeOK, WorkOK, Idle, NoCall, NoBox, Rewrites, StatusOf,
     ClientOK, Confirmed, CallOK, world, history
<1>5. ASSUME NEW t \in Thread, HungUp(t) PROVE GoneOK'
  BY <1>5, RunnerConstants DEF HungUp, Unknown, Leaves, Orphaned, GoneOK,
     ConfirmedIsGone, TypeOK, WorkOK, Idle, NoCall, NoBox, Rewrites, StatusOf,
     ClientOK, Confirmed, CallOK, world, history
<1>6. ASSUME NEW t \in Thread, SocketBreaks(t) PROVE GoneOK'
  BY <1>6, RunnerConstants DEF SocketBreaks, Use, Unknown, Leaves, Orphaned,
     GoneOK, ConfirmedIsGone, TypeOK, WorkOK, Idle, NoCall, NoBox, Rewrites,
     StatusOf, ClientOK, Confirmed, CallOK, world, history
<1>7. ASSUME NEW t \in Thread, Record(t) PROVE GoneOK'
  <2>1. RecordDoes(t)
    BY <1>7, RecordEffect
  <2> QED
    BY <1>7, <2>1, RunnerConstants DEF RecordDoes, Record, Leaves, GoneOK,
       ConfirmedIsGone, TypeOK, WorkOK, Idle, NoCall, NoBox, Rewrites,
       StatusOf, ClientOK, Confirmed, CallOK, world, history
<1>8. ASSUME NEW t \in Thread, NEW c \in Call, Send(t, c) PROVE GoneOK'
  BY <1>8, RunnerConstants DEF Send, Goes, GoneOK, ConfirmedIsGone, TypeOK,
     WorkOK, Idle, NoCall, NoBox, Rewrites, StatusOf, ClientOK, Confirmed,
     CallOK, world, history
<1>9. ASSUME NEW t \in Thread, NEW c \in Call, Receive(t, c) PROVE GoneOK'
  BY <1>9, RunnerConstants DEF Receive, Goes, OutcomeOf, GoneOK,
     ConfirmedIsGone, TypeOK, WorkOK, Idle, NoCall, NoBox, Rewrites, StatusOf,
     ClientOK, Confirmed, CallOK, world, history
<1>10. ASSUME NEW c \in Call, Accept(c) PROVE GoneOK'
  <2>1. AcceptDoes(c) /\ Places /\ call[c].job \in Job
    BY <1>10, AcceptEffect, DaemonKeepsPlaces DEF AcceptDoes, CallOK
  <2>2. \A k \in Job : k # call[c].job => box'[k] = box[k]
    BY <2>1 DEF AcceptDoes, TypeOK
  <2>3. \A t \in Thread : work[t].at = "record" => work[t].job \in Job \ {call[c].job}
    BY <2>1 DEF NoCallYet, WorkOK
  <2>4. \A d \in Call \ {c} : call[d].phase = "replied" => call[d].job \in Job \ {call[c].job}
    BY <2>1 DEF AcceptDoes, OneCall, CallOK
  <2>5. /\ \A d \in Call \ {c} : call'[d] = call[d]
        /\ ~(call'[c].phase = "replied" /\ call'[c].result \in Confirmed)
    BY <2>1 DEF AcceptDoes, Moves, Confirmed
  <2>6. job[call[c].job].status \notin Confirmed
    BY <2>1 DEF AcceptDoes, InForce, Confirmed
  <2> QED BY <2>1, <2>2, <2>3, <2>4, <2>5, <2>6 DEF Places, GoneOK, ConfirmedIsGone
<1>11. ASSUME NEW c \in Call, Interrupted(c) PROVE GoneOK'
  <2>1. InterruptedDoes(c) /\ UNCHANGED <<job, work>>
    BY <1>11, InterruptedEffect DEF InterruptedDoes
  <2>2. \A k \in Job : box[k] = NoBox => box'[k] = NoBox
    BY <2>1, RunnerConstants DEF InterruptedDoes, NoBox, TypeOK
  <2>3. \A d \in Call : call'[d] = call[d] \/ call'[d].phase = "ended"
    BY <2>1 DEF InterruptedDoes, Moves
  <2>4. /\ \A t \in Thread : work[t].at = "record" => work[t].job \in Job
        /\ \A d \in Call : call[d].phase = "replied" => call[d].job \in Job
    BY DEF WorkOK, CallOK
  <2> QED BY <2>1, <2>2, <2>3, <2>4 DEF GoneOK, ConfirmedIsGone
<1>12. ASSUME NEW c \in Call, Cleanup(c) PROVE GoneOK'
  <2>1. CleanupDoes(c) /\ UNCHANGED <<job, work>>
    BY <1>12, CleanupEffect DEF CleanupDoes
  <2>2. \A k \in Job : box[k] = NoBox => box'[k] = NoBox
    BY <2>1 DEF CleanupDoes, TypeOK
  <2>3. /\ \A d \in Call \ {c} : call'[d] = call[d]
        /\ call'[c].job = call[c].job
        /\ call'[c].result \in Confirmed => box'[call[c].job] = NoBox
    BY <2>1 DEF CleanupDoes, Moves, Confirmed, TypeOK
  <2>4. /\ \A t \in Thread : work[t].at = "record" => work[t].job \in Job
        /\ \A d \in Call : call[d].phase = "replied" => call[d].job \in Job
    BY DEF WorkOK, CallOK
  <2> QED BY <2>1, <2>2, <2>3, <2>4 DEF GoneOK, ConfirmedIsGone
<1>13. ASSUME NEW c \in Call, ReplyFails(c) PROVE GoneOK'
  <2>1. ReplyFailsDoes(c) /\ UNCHANGED <<job, work>>
    BY <1>13, ReplyFailsEffect DEF ReplyFailsDoes
  <2>2. \A k \in Job : box[k] = NoBox => box'[k] = NoBox
    BY <2>1 DEF ReplyFailsDoes, TypeOK
  <2>3. \A d \in Call : call'[d] = call[d] \/ call'[d].phase = "free"
    BY <2>1 DEF ReplyFailsDoes, NoCall, TypeOK
  <2>4. /\ \A t \in Thread : work[t].at = "record" => work[t].job \in Job
        /\ \A d \in Call : call[d].phase = "replied" => call[d].job \in Job
    BY DEF WorkOK, CallOK
  <2> QED BY <2>1, <2>2, <2>3, <2>4 DEF GoneOK, ConfirmedIsGone
<1>14. ASSUME NEW j \in Job, Boot(j) PROVE GoneOK'
  <2>1. BootDoes(j) /\ UNCHANGED <<job, work>>
    BY <1>14, BootEffect DEF BootDoes
  <2>2. \A k \in Job : box[k] = NoBox => box'[k] = NoBox
    BY <2>1, ExitsEffect DEF BootDoes, NoBox, TypeOK
  <2>3. \A d \in Call : call'[d] = call[d] \/ call'[d].phase = "ended"
    BY <2>1, ExitsEffect DEF BootDoes, Moves
  <2>4. /\ \A t \in Thread : work[t].at = "record" => work[t].job \in Job
        /\ \A d \in Call : call[d].phase = "replied" => call[d].job \in Job
    BY DEF WorkOK, CallOK
  <2> QED BY <2>1, <2>2, <2>3, <2>4 DEF GoneOK, ConfirmedIsGone
<1>15. ASSUME NEW j \in Job, CommandEnds(j) PROVE GoneOK'
  <2>1. CommandEndsDoes(j) /\ UNCHANGED <<job, work>>
    BY <1>15, CommandEndsEffect DEF CommandEndsDoes
  <2>2. \A k \in Job : box[k] = NoBox => box'[k] = NoBox
    BY <2>1, ExitsEffect DEF CommandEndsDoes, NoBox, TypeOK
  <2>3. \A d \in Call : call'[d] = call[d] \/ call'[d].phase = "ended"
    BY <2>1, ExitsEffect DEF CommandEndsDoes, Moves
  <2>4. /\ \A t \in Thread : work[t].at = "record" => work[t].job \in Job
        /\ \A d \in Call : call[d].phase = "replied" => call[d].job \in Job
    BY DEF WorkOK, CallOK
  <2> QED BY <2>1, <2>2, <2>3, <2>4 DEF GoneOK, ConfirmedIsGone
<1>16. ASSUME NEW j \in Job, LeaseExpires(j) PROVE GoneOK'
  <2>1. LeaseExpiresDoes(j)
    BY <1>16, LeaseExpiresEffect
  <2> QED
    BY <1>16, <2>1, RunnerConstants DEF LeaseExpiresDoes, LeaseExpires,
       GoneOK, ConfirmedIsGone, TypeOK, WorkOK, Idle, NoCall, NoBox, Rewrites,
       StatusOf, ClientOK, Confirmed, CallOK, world, history
<1>17. ASSUME Crash PROVE GoneOK'
  BY <1>17, RunnerConstants DEF Crash, Use, Orphaned, GoneOK,
     ConfirmedIsGone, TypeOK, WorkOK, Idle, NoCall, NoBox, Rewrites, StatusOf,
     ClientOK, Confirmed, CallOK, world, history
<1>18. ASSUME DaemonRestarts PROVE GoneOK'
  BY <1>18, RunnerConstants DEF DaemonRestarts, Use, GoneOK,
     ConfirmedIsGone, TypeOK, WorkOK, Idle, NoCall, NoBox, Rewrites, StatusOf,
     ClientOK, Confirmed, CallOK, world, history
<1>19. ASSUME Environment \/ UNCHANGED vars PROVE GoneOK'
  BY <1>19, RunnerConstants DEF Environment, RunChanges, WorkspaceChanges,
     TrustRevoked, SourcesEdited, vars, GoneOK, ConfirmedIsGone, TypeOK,
     WorkOK, Idle, NoCall, NoBox, Rewrites, StatusOf, ClientOK, Confirmed,
     CallOK, world, history
<1> QED
  BY <1>1, <1>2, <1>3, <1>4, <1>5, <1>6, <1>7, <1>8, <1>9, <1>10, <1>11,
     <1>12, <1>13, <1>14, <1>15, <1>16, <1>17, <1>18, <1>19 DEF Next,
     ManagerStep, DaemonStep

LEMMA LeasedStep ==
  ASSUME Sound, Leased, NoPreemption, [Next]_vars PROVE Leased'
<1> USE DEF Sound, Leased
<1>1. Held' /\ InForce' /\ OneCall'
  BY HeldStep, InForceStep, OneCallStep
<1>2. NoCallYet' /\ GoneOK'
  BY NoCallYetStep, GoneStep
<1> QED BY <1>1, <1>2

\* Without suspended threads, so does the second invariant: calls and
\* containers belong to the lease in force.
LEMMA LeasedAlways == NoPreemption => (Spec => []Leased)
<1>1. Init => Leased
  BY RunnerConstants DEF Init, Leased, Held, InForce, OneCall, NoCallYet, GoneOK, ConfirmedIsGone,
     Idle, NoCall, NoBox
<1>2. NoPreemption /\ Sound /\ Leased /\ [Next]_vars => Leased'
  BY LeasedStep
<1>3. ASSUME NoPreemption PROVE Spec => []Leased
  <2>1. Sound /\ Leased /\ [Next]_vars => Leased'
    BY <1>2, <1>3
  <2> QED BY <1>1, <2>1, SoundAlways, PTL DEF Spec
<1> QED BY <1>3

\* Where leases outlast the work, a job recorded as completed, failed or
\* timed out has no container left, even if an earlier generation left one.
THEOREM ConfirmedJobsAreGone == MaxPreemptions = 0 => (Spec => []ConfirmedIsGone)
<1>1. Leased => ConfirmedIsGone
  BY DEF Leased, GoneOK
<1>2. ASSUME MaxPreemptions = 0 PROVE Spec => []ConfirmedIsGone
  <2>1. Spec => []Leased
    BY <1>2, LeasedAlways DEF NoPreemption
  <2> QED BY <1>1, <2>1, PTL
<1> QED BY <1>2

\* Where leases outlast the work, a job never has two requests inside
\* runnerd: a lost reply or a crash of the manager starts no second sandbox.
THEOREM SandboxesAreUnique == MaxPreemptions = 0 => (Spec => []NoDuplicateSandbox)
<1>1. ASSUME Leased PROVE NoDuplicateSandbox
  <2> SUFFICES ASSUME NEW j \in Job PROVE Cardinality({c \in InSlots : call[c].job = j}) <= 1
    BY DEF NoDuplicateSandbox
  <2> DEFINE mine == {c \in InSlots : call[c].job = j}
  <2>1. \A c, d \in mine : c = d
    BY <1>1 DEF Leased, OneCall, InSlots
  <2>2. CASE mine = {}
    BY <2>2, FS_EmptySet
  <2>3. ASSUME NEW c \in mine PROVE Cardinality(mine) <= 1
    <3>1. mine = {c}
      BY <2>1, <2>3
    <3> HIDE DEF mine
    <3>2. Cardinality(mine) = 1
      BY <3>1, FS_Singleton
    <3> QED BY <3>2
  <2> QED BY <2>2, <2>3
<1>2. ASSUME MaxPreemptions = 0 PROVE Spec => []NoDuplicateSandbox
  <2>1. Spec => []Leased
    BY <1>2, LeasedAlways DEF NoPreemption
  <2> QED BY <1>1, <2>1, PTL
<1> QED BY <1>2

=============================================================================
