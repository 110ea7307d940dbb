---------------------------- MODULE CodexProofs -----------------------------
(***************************************************************************)
(* Theorems about the two programs that run the Codex model: the lane of   *)
(* the control plane (CodexLane) for any set of workers, and the           *)
(* operator's stand-alone script (CodexTask) for any set of launches, both *)
(* for any bounds on what goes wrong.                                      *)
(***************************************************************************)
EXTENDS CodexLane, CodexTask, TLAPS, FiniteSetTheorems

----------------------------------------------------------------------------
(* The inductive invariant                                                  *)

\* The request that each waiting worker waits for.
Asks == [claiming |-> "claim", acknowledging |-> "preflight", entering |-> "heartbeat",
         beating |-> "heartbeat", reporting |-> "phase"]
Free == {"down", "poll", "claiming"}

\* A worker that does j and asks c was given the run, and had its workspace
\* accepted by the broker.
Given(j, c) == j.at \notin Free \/ c.answer = "claimed"
Accepted(j) == j.at \in {"enter", "entering", "model", "beating", "report", "reporting"}

\* These roles completed, and no other reported.
Filed(roles) == \A r \in Role : reports[r] = IF r \in roles THEN "completed" ELSE "none"

\* The run's stage tells its generation, its lease and the reports it has.
StageOK ==
  /\ Settled <=> run.stage = "settled"
  /\ Settled => ~run.held /\ ~run.live
  /\ run.stage = "dispatch_pending" =>
       /\ run.status = "queued" /\ run.gen = 0 /\ ~run.held /\ ~run.cancel /\ ~run.verified
       /\ Filed({})
  /\ run.stage = "codex_preflight_pending" =>
       run.status = "queued" /\ run.gen = 1 /\ ~run.cancel /\ ~run.verified /\ Filed({})
  /\ run.stage \in Role =>
       /\ run.status = "running" /\ run.gen = 1 /\ run.verified /\ ~run.cancel
       /\ Filed(Before(run.stage))
  /\ run.stage = "cancel_requested" => run.status = "running" /\ run.gen = 2 /\ run.cancel

\* A worker waits for the request it sent, with the generation it was given.
Placed(j, c) ==
  /\ j.at \in Free => j = [Resting EXCEPT !.at = j.at]
  /\ j.at \notin Free => j.gen = 1 /\ (Accepted(j) \/ j.role = "architect")
  /\ IF j.at \in DOMAIN Asks
     THEN /\ c.op = Asks[j.at] /\ c.role = j.role /\ c.outcome = j.outcome
          /\ c.answer = "pending" => c.gen = j.gen
     ELSE c = NoCall

\* What an answer says of the run.
Truthful(c) ==
  /\ c.answer = "claimed" => c.op = "claim" /\ c.gen = 1
  /\ c.answer = "ok" /\ c.op = "preflight" => run.verified
  /\ c.answer = "ok" /\ c.op = "phase" => reports[c.role] = "completed" /\ ~Last(c.role)

Backed(j) == run.verified /\ \A r \in Before(j.role) : reports[r] = "completed"

Fits(j, c) ==
  Placed(j, c) /\ Truthful(c) /\ (Given(j, c) => run.gen # 0) /\ (Accepted(j) => Backed(j))

WorkOK == \A w \in Worker : Fits(work[w], call[w])

LateOK == \A c \in late : c.op # "claim" => c.gen = 1

\* At most one worker was given the run and has not given it up.
GivenOnce ==
  \A v, w \in Worker : Given(work[v], call[v]) /\ Given(work[w], call[w]) => v = w

Sound == TypeOK /\ StageOK /\ WorkOK /\ LateOK /\ GivenOnce

----------------------------------------------------------------------------
(* What the broker does to the row                                          *)

\* What a step keeps of a claimed run: a workspace that was verified, the
\* reports that were recorded, and that it was claimed.
Keeps ==
  /\ run' \in Row /\ reports' \in [Role -> Outcome] /\ StageOK'
  /\ run.gen # 0 => run'.gen # 0
  /\ run.verified => run'.verified
  /\ \A r \in Role : reports[r] = "completed" => reports'[r] = "completed"
  /\ Settled => UNCHANGED <<run, reports>>

\* The run is settled with this status.
Settles(status) ==
  /\ run' \in Row /\ run'.status = status /\ run'.stage = "settled" /\ run'.gen # 0
  /\ ~run'.held /\ ~run'.live /\ run'.verified = run.verified

\* A row and its reports, as the invariant has them.
LEMMA Rows ==
  ASSUME TypeOK, StageOK
  PROVE /\ run \in Row /\ reports \in [Role -> Outcome]
        /\ run.gen \in Nat /\ run.gen <= 3 /\ (~Settled => run.gen <= 2)
        /\ Settled \/ run.stage \in Role \union {"dispatch_pending", "codex_preflight_pending",
                                                 "cancel_requested"}
<1>1. /\ run \in Row /\ reports \in [Role -> Outcome] /\ run.gen \in 0..3
      /\ run.stage \in Role \union {"dispatch_pending", "codex_preflight_pending",
                                    "cancel_requested", "settled"}
  BY DEF TypeOK, Row
<1>2. ~Settled => run.stage # "settled"
  BY DEF StageOK
<1>3. ~Settled => run.gen <= 2
  BY <1>1, <1>2 DEF StageOK
<1> QED BY <1>1, <1>2, <1>3

\* terminal settles a run that is not settled yet.
LEMMA FinishedSettles ==
  ASSUME TypeOK, StageOK, ~Settled, NEW status \in {"failed", "cancelled"}, run' = Finished(status)
  PROVE Settles(status)
<1>1. run \in Row /\ run.gen \in Nat /\ run.gen <= 2
  BY Rows
<1>2. run.gen + 1 \in 0..3 /\ run.gen + 1 # 0
  BY <1>1
<1> QED BY <1>1, <1>2 DEF Finished, Settles, Row

LEMMA OneVerdict == Verdict \in {"failed", "cancelled"}
BY DEF Verdict

\* A step that settles the run keeps what its stage told.
LEMMA SettlingKeeps ==
  ASSUME TypeOK, StageOK, ~Settled, NEW status \in {"failed", "cancelled", "completed"},
         Settles(status), reports' \in [Role -> Outcome],
         \A r \in Role : reports[r] = "completed" => reports'[r] = "completed"
  PROVE Keeps /\ Settled'
<1>1. run'.stage = "settled" /\ run'.status = status /\ ~run'.held /\ ~run'.live
  BY DEF Settles
<1>2. Settled'
  BY <1>1 DEF Settled
<1>3. run'.stage \notin Role
  BY <1>1 DEF Role
<1>4. StageOK'
  BY <1>1, <1>2, <1>3 DEF StageOK
<1> QED BY <1>1, <1>2, <1>4 DEF Keeps, Settles

LEMMA NothingKeeps ==
  ASSUME TypeOK, StageOK, UNCHANGED <<run, reports>> PROVE Keeps
<1>1. StageOK'
  BY DEF StageOK, Settled, Filed, Before, Role
<1> QED BY <1>1, Rows DEF Keeps

\* What a request does to the row, and what its answer tells.
Answers(c, answer) ==
  /\ Keeps
  /\ answer = "claimed" => c.op = "claim" /\ run.gen = 0 /\ run'.gen = 1 /\ run'.live
  /\ answer = "ok" /\ c.op = "preflight" => run'.verified
  /\ answer = "ok" /\ c.op = "phase" => reports'[c.role] = "completed" /\ ~Last(c.role)
  /\ run'.status = "cancelled" /\ run.status # "cancelled" =>
       c.op = "claim" /\ run.status = "running" /\ ~run.live
  /\ run'.status = "running" /\ ~run'.live => run.status = "running" /\ ~run.live
  /\ answer = "ok" => run'.status # "cancelled"

\* What owned refuses is settled only if the request held the row, and then it fails.
LEMMA RefusedAnswers ==
  ASSUME TypeOK, StageOK, NEW c \in Stray, c.gen = 1, NEW states, NEW answer,
         states => ~Settled,
         Refused(c, states, answer)
  PROVE Answers(c, answer)
<1>1. answer = "refused" /\ UNCHANGED reports
  BY DEF Refused
<1>2. CASE Holds(c, states) /\ Lapsed
  <2>1. run' = Finished(Verdict) /\ ~Settled /\ run.gen = 1
    BY <1>2 DEF Refused, Holds
  <2>2. ~run.cancel
    <3>1. run.stage \in Role \union {"dispatch_pending", "codex_preflight_pending",
                                     "cancel_requested"}
      BY <2>1, Rows
    <3> QED BY <2>1, <3>1 DEF StageOK
  <2>3. Settles("failed")
    BY <2>1, <2>2, FinishedSettles DEF Verdict
  <2>4. Keeps
    BY <1>1, <2>1, <2>3, SettlingKeeps, Rows
  <2> QED BY <1>1, <2>3, <2>4 DEF Answers, Settles
<1>3. CASE ~(Holds(c, states) /\ Lapsed)
  <2>1. UNCHANGED <<run, reports>>
    BY <1>1, <1>3 DEF Refused
  <2> QED BY <1>1, <2>1, NothingKeeps DEF Answers
<1> QED BY <1>2, <1>3

\* A claim: the sweep of expired runs, the checks, and the new lease.
LEMMA ClaimAnswers ==
  ASSUME TypeOK, StageOK, NEW c \in Stray, c.op = "claim", NEW answer, HandleClaim(c, answer)
  PROVE Answers(c, answer)
<1>0. run \in Row /\ reports \in [Role -> Outcome] /\ UNCHANGED reports
  BY Rows DEF HandleClaim
<1>1. CASE Expired
  <2>1. run' = Finished(Verdict) /\ answer = "none" /\ ~run.live
    BY <1>1 DEF HandleClaim, Swept, Expired
  <2>2. ~Settled /\ (run.status = "running" \/ ~run.cancel)
    BY <1>1 DEF Expired, Pending, Settled, StageOK
  <2>3. Settles(Verdict)
    BY <2>1, <2>2, FinishedSettles, OneVerdict
  <2>4. Keeps
    BY <1>0, <2>2, <2>3, SettlingKeeps, OneVerdict
  <2>5. run'.status = "cancelled" => run.status = "running"
    BY <2>2, <2>3 DEF Settles, Verdict
  <2> QED BY <2>1, <2>3, <2>4, <2>5, OneVerdict DEF Answers, Settles
<1>2. CASE ~Expired /\ ~Claimable
  <2>1. UNCHANGED <<run, reports>> /\ answer = "none"
    BY <1>2 DEF HandleClaim
  <2> QED BY <2>1, NothingKeeps DEF Answers
<1>3. CASE ~Expired /\ Claimable /\ (world.overdue \/ ~world.trusted \/ ~world.bound)
  <2>1. run' = Finished(Verdict) /\ answer = "none" /\ ~Settled /\ ~run.cancel
    BY <1>3 DEF HandleClaim, Claimable, Settled, StageOK
  <2>2. Settles("failed")
    BY <2>1, FinishedSettles DEF Verdict
  <2>3. Keeps
    BY <1>0, <2>1, <2>2, SettlingKeeps
  <2> QED BY <2>1, <2>2, <2>3 DEF Answers, Settles
<1>4. CASE ~Expired /\ Claimable /\ ~(world.overdue \/ ~world.trusted \/ ~world.bound)
  <2>1. /\ run' = [run EXCEPT !.gen = @ + 1, !.held = TRUE, !.live = TRUE,
                              !.stage = "codex_preflight_pending"]
        /\ answer = "claimed"
    BY <1>4 DEF HandleClaim
  <2>2. run.status = "queued" /\ run.gen = 0 /\ ~run.cancel /\ ~run.verified
    BY <1>4 DEF Claimable, StageOK
  <2>3. /\ run' \in Row /\ run'.gen = 1 /\ run'.held /\ run'.live /\ run'.status = "queued"
        /\ run'.stage = "codex_preflight_pending" /\ ~run'.cancel /\ ~run'.verified
    <3>1. run' = [run EXCEPT !.gen = 1, !.held = TRUE, !.live = TRUE,
                             !.stage = "codex_preflight_pending"]
      BY <1>0, <2>1, <2>2 DEF Row
    <3>2. run' \in Row
      <4>1. 1 \in 0..3
        OBVIOUS
      <4> QED BY <1>0, <3>1, <4>1 DEF Row
    <3>3. /\ run'.gen = 1 /\ run'.held /\ run'.live /\ run'.stage = "codex_preflight_pending"
          /\ run'.status = run.status /\ run'.cancel = run.cancel /\ run'.verified = run.verified
      BY <1>0, <3>1 DEF Row
    <3> QED BY <2>2, <3>2, <3>3
  <2>4. ~Settled /\ ~Settled' /\ run'.stage \notin Role
    BY <2>2, <2>3 DEF Settled, Role
  <2>5. StageOK'
    BY <1>0, <1>4, <2>3, <2>4 DEF StageOK, Filed, Claimable
  <2>6. Keeps
    BY <1>0, <2>2, <2>3, <2>4, <2>5 DEF Keeps
  <2> QED BY <2>1, <2>2, <2>3, <2>6 DEF Answers
<1> QED BY <1>1, <1>2, <1>3, <1>4

\* An acknowledgement verifies the workspace of the run once.
LEMMA PreflightAnswers ==
  ASSUME TypeOK, StageOK, NEW c \in Stray, c.op = "preflight", c.gen = 1, NEW answer,
         HandlePreflight(c, answer)
  PROVE Answers(c, answer)
<1>0. run \in Row /\ reports \in [Role -> Outcome]
  BY Rows
<1>1. CASE ~Holds(c, Pending) \/ Lapsed
  <2>1. Pending => ~Settled
    BY DEF Pending, Settled
  <2>2. Refused(c, Pending, answer)
    BY <1>1 DEF HandlePreflight
  <2> QED BY <2>1, <2>2, RefusedAnswers
<1>2. CASE ~(~Holds(c, Pending) \/ Lapsed) /\ (~Trusted \/ run.verified)
  <2>1. UNCHANGED <<run, reports>> /\ answer = "refused"
    BY <1>2 DEF HandlePreflight
  <2> QED BY <2>1, NothingKeeps DEF Answers
<1>3. CASE ~(~Holds(c, Pending) \/ Lapsed) /\ ~(~Trusted \/ run.verified)
  <2>1. /\ run' = [run EXCEPT !.verified = TRUE, !.status = "running",
                              !.stage = "architect", !.live = TRUE]
        /\ answer = "ok" /\ UNCHANGED reports
    BY <1>3 DEF HandlePreflight
  <2>2. Pending /\ run.gen = 1 /\ ~run.cancel
    BY <1>3 DEF Holds, Pending, StageOK
  <2>3. /\ run' \in Row /\ run'.gen = 1 /\ run'.live /\ run'.verified /\ ~run'.cancel
        /\ run'.status = "running" /\ run'.stage = "architect" /\ run'.held = run.held
    BY <1>0, <2>1, <2>2 DEF Row, Role
  <2>4. ~Settled /\ ~Settled' /\ run'.stage \in Role
    BY <2>2, <2>3 DEF Settled, Role, Pending
  <2>5. Filed(Before(run.stage))'
    BY <2>1, <2>2, <2>3 DEF StageOK, Filed, Before, Pending
  <2>6. StageOK'
    BY <2>3, <2>4, <2>5 DEF StageOK
  <2>7. Keeps
    BY <1>0, <2>1, <2>2, <2>3, <2>4, <2>6 DEF Keeps
  <2> QED BY <2>1, <2>3, <2>7 DEF Answers
<1> QED BY <1>1, <1>2, <1>3

\* A heartbeat renews the lease of a run it holds.
LEMMA BeatAnswers ==
  ASSUME TypeOK, StageOK, NEW c \in Stray, c.op = "heartbeat", c.gen = 1, NEW answer,
         HandleBeat(c, answer)
  PROVE Answers(c, answer)
<1> DEFINE active == run.status = "running" \/ Pending
<1>0. run \in Row /\ reports \in [Role -> Outcome] /\ (active => ~Settled)
  BY Rows DEF Pending, Settled
<1>1. CASE ~Holds(c, active) \/ Lapsed
  <2>1. Refused(c, active, answer)
    BY <1>1 DEF HandleBeat
  <2> HIDE DEF active
  <2> QED BY <1>0, <2>1, RefusedAnswers
<1>2. CASE ~(~Holds(c, active) \/ Lapsed)
  <2>1. run' = [run EXCEPT !.live = TRUE] /\ answer = "ok" /\ UNCHANGED reports /\ active
    BY <1>2 DEF HandleBeat, Holds
  <2>2. /\ run' \in Row /\ run'.live /\ run'.gen = run.gen /\ run'.held = run.held
        /\ run'.status = run.status /\ run'.stage = run.stage
        /\ run'.verified = run.verified /\ run'.cancel = run.cancel
    BY <1>0, <2>1 DEF Row
  <2>3. StageOK'
    BY <1>0, <2>1, <2>2 DEF StageOK, Settled, Filed, Role
  <2>4. Keeps
    BY <1>0, <2>1, <2>2, <2>3 DEF Keeps
  <2>5. run.status # "cancelled"
    BY <2>1 DEF Pending
  <2> QED BY <2>1, <2>2, <2>4, <2>5 DEF Answers
<1> QED BY <1>1, <1>2

\* What a report adds to the reports is one more completed role, or it ends the run.
LEMMA ReportsGrow ==
  ASSUME TypeOK, StageOK, NEW c \in Stray, c.role \in Role, run.stage = c.role,
         reports' = IF world.trusted THEN [reports EXCEPT ![c.role] = c.outcome] ELSE reports
  PROVE /\ reports' \in [Role -> Outcome]
        /\ \A r \in Role : reports[r] = "completed" => reports'[r] = "completed"
        /\ world.trusted /\ c.outcome = "completed" =>
             /\ reports'[c.role] = "completed"
             /\ ~Last(c.role) => After[c.role] \in Role /\ Filed(Before(After[c.role]))'
<1>1. reports \in [Role -> Outcome] /\ c.outcome \in Outcome
  BY Rows DEF Stray, Call
<1>2. Filed(Before(c.role)) /\ c.role \notin Before(c.role)
  BY DEF StageOK, Before
<1>3. reports[c.role] = "none"
  BY <1>2 DEF Filed
<1>4. ~Last(c.role) => /\ After[c.role] \in Role
                       /\ Before(After[c.role]) = Before(c.role) \union {c.role}
  BY DEF Last, After, Before, Role
<1>5. CASE world.trusted
  <2>1. reports' = [reports EXCEPT ![c.role] = c.outcome]
    BY <1>5
  <2> QED BY <1>1, <1>2, <1>3, <1>4, <2>1 DEF Filed
<1> QED BY <1>1, <1>5

\* A report files its role's outcome and moves the run on, or settles it.
LEMMA PhaseAnswers ==
  ASSUME TypeOK, StageOK, NEW c \in Stray, c.op = "phase", c.gen = 1, NEW answer,
         HandlePhase(c, answer)
  PROVE Answers(c, answer)
<1> DEFINE running == run.status = "running"
<1>0. run \in Row /\ reports \in [Role -> Outcome] /\ c.role \in Role /\ (running => ~Settled)
  BY Rows DEF Settled, Stray, Call
<1>1. CASE ~Holds(c, running) \/ Lapsed
  <2>1. Refused(c, running, answer)
    BY <1>1 DEF HandlePhase
  <2> HIDE DEF running
  <2> QED BY <1>0, <2>1, RefusedAnswers
<1>2. CASE ~(~Holds(c, running) \/ Lapsed) /\ (run.stage # c.role \/ ~world.bound)
  <2>1. UNCHANGED <<run, reports>> /\ answer = "refused"
    BY <1>2 DEF HandlePhase
  <2> QED BY <2>1, NothingKeeps DEF Answers
<1>3. CASE ~(~Holds(c, running) \/ Lapsed) /\ ~(run.stage # c.role \/ ~world.bound)
  <2>1. /\ run' = Reported(c)
        /\ reports' = IF world.trusted THEN [reports EXCEPT ![c.role] = c.outcome] ELSE reports
        /\ answer = IF run'.status = "running" THEN "ok" ELSE "ended"
    BY <1>3 DEF HandlePhase
  <2>2. running /\ run.stage = c.role /\ ~Settled
    BY <1>0, <1>3 DEF Holds
  <2>3. /\ reports' \in [Role -> Outcome]
        /\ \A r \in Role : reports[r] = "completed" => reports'[r] = "completed"
        /\ world.trusted /\ c.outcome = "completed" =>
             /\ reports'[c.role] = "completed"
             /\ ~Last(c.role) => After[c.role] \in Role /\ Filed(Before(After[c.role]))'
    BY <1>0, <2>1, <2>2, ReportsGrow
  <2>4. CASE ~world.trusted \/ c.outcome # "completed"
    <3>1. Settles("failed")
      BY <2>1, <2>2, <2>4, FinishedSettles DEF Reported
    <3>2. Keeps
      BY <2>2, <2>3, <3>1, SettlingKeeps
    <3> QED BY <2>1, <3>1, <3>2 DEF Answers, Settles
  <2>5. CASE ~(~world.trusted \/ c.outcome # "completed") /\ Last(c.role)
    <3>1. run' = [run EXCEPT !.status = "completed", !.stage = "settled",
                             !.held = FALSE, !.live = FALSE]
      BY <2>1, <2>5 DEF Reported
    <3>2. run.gen = 1
      BY <1>0, <2>2 DEF StageOK
    <3>3. Settles("completed")
      <4>1. run' \in Row
        BY <1>0, <3>1 DEF Row
      <4>2. run'.status = "completed" /\ run'.stage = "settled" /\ ~run'.held /\ ~run'.live
        BY <1>0, <3>1 DEF Row
      <4>3. run'.gen = 1 /\ run'.verified = run.verified
        BY <1>0, <3>1, <3>2 DEF Row
      <4> QED BY <4>1, <4>2, <4>3 DEF Settles
    <3>4. Keeps
      BY <2>2, <2>3, <3>3, SettlingKeeps
    <3> QED BY <2>1, <3>3, <3>4 DEF Answers, Settles
  <2>6. CASE ~(~world.trusted \/ c.outcome # "completed") /\ ~Last(c.role)
    <3>1. run' = [run EXCEPT !.stage = After[c.role], !.live = TRUE]
      BY <2>1, <2>6 DEF Reported
    <3>2. After[c.role] \in Role /\ Filed(Before(After[c.role]))' /\ reports'[c.role] = "completed"
      BY <2>3, <2>6
    <3>3. run.gen = 1 /\ run.verified /\ ~run.cancel
      BY <1>0, <2>2 DEF StageOK
    <3>4. /\ run' \in Row /\ run'.live /\ run'.gen = 1 /\ run'.status = "running"
          /\ run'.stage = After[c.role] /\ run'.verified /\ ~run'.cancel
      BY <1>0, <2>2, <3>1, <3>2, <3>3 DEF Row
    <3>5. Filed(Before(run.stage))' /\ run'.stage \in Role /\ ~Settled'
      BY <3>2, <3>4 DEF Filed, Settled
    <3>6. StageOK'
      BY <3>4, <3>5 DEF StageOK, Role
    <3>7. Keeps
      BY <2>2, <2>3, <3>3, <3>4, <3>6 DEF Keeps
    <3> QED BY <2>1, <2>6, <3>2, <3>4, <3>7 DEF Answers
  <2> QED BY <2>4, <2>5, <2>6
<1> QED BY <1>1, <1>2, <1>3

\* Every request, awaited or not.
LEMMA HandlesAnswers ==
  ASSUME TypeOK, StageOK, NEW c \in Stray, c.op # "claim" => c.gen = 1, NEW answer,
         Handles(c, answer)
  PROVE Answers(c, answer)
<1>1. CASE c.op = "claim" /\ HandleClaim(c, answer)
  BY <1>1, ClaimAnswers
<1>2. CASE c.op = "preflight" /\ HandlePreflight(c, answer)
  BY <1>2, PreflightAnswers
<1>3. CASE c.op = "heartbeat" /\ HandleBeat(c, answer)
  BY <1>3, BeatAnswers
<1>4. CASE c.op = "phase" /\ HandlePhase(c, answer)
  BY <1>4, PhaseAnswers
<1> QED BY <1>1, <1>2, <1>3, <1>4 DEF Handles

----------------------------------------------------------------------------
(* What a step of one worker does                                           *)

\* The faults stay within their bounds.
Faults == [crashes : 0..MaxCrashes, timeouts : 0..MaxTimeouts, disturbs : 0..MaxDisturbs]

LEMMA UseCounts ==
  ASSUME TypeOK
  PROVE /\ faults.crashes < MaxCrashes /\ Use("crashes") => faults' \in Faults
        /\ faults.timeouts < MaxTimeouts /\ Use("timeouts") => faults' \in Faults
        /\ faults.disturbs < MaxDisturbs /\ Use("disturbs") => faults' \in Faults
<1>1. faults \in Faults /\ MaxCrashes \in Nat /\ MaxTimeouts \in Nat /\ MaxDisturbs \in Nat
  BY LaneBounds DEF TypeOK, Faults
<1>2. /\ faults.crashes < MaxCrashes => faults.crashes + 1 \in 0..MaxCrashes
      /\ faults.timeouts < MaxTimeouts => faults.timeouts + 1 \in 0..MaxTimeouts
      /\ faults.disturbs < MaxDisturbs => faults.disturbs + 1 \in 0..MaxDisturbs
  BY <1>1 DEF Faults
<1> QED BY <1>1, <1>2 DEF Use, Faults

\* A worker whose job and request change keeps the invariant when the new ones
\* fit the row, and when it is not given the run that another one has.
LEMMA WorkerKeeps ==
  ASSUME Sound, Keeps, NEW w \in Worker, NEW j \in Job, NEW c \in Call,
         work' = [work EXCEPT ![w] = j], call' = [call EXCEPT ![w] = c],
         Fits(j, c)', Given(j, c) => Given(work[w], call[w]) \/ run.gen = 0,
         world' \in [trusted : BOOLEAN, bound : BOOLEAN, clean : BOOLEAN, overdue : BOOLEAN],
         late' \subseteq late \union {call[w]}, late' \subseteq Stray,
         call[w] \in late' /\ call[w].op # "claim" => call[w].gen = 1, faults' \in Faults
  PROVE Sound'
<1>1. /\ work' \in [Worker -> Job] /\ work'[w] = j /\ \A v \in Worker \ {w} : work'[v] = work[v]
      /\ call' \in [Worker -> Call] /\ call'[w] = c /\ \A v \in Worker \ {w} : call'[v] = call[v]
  BY DEF Sound, TypeOK
<1>2. TypeOK'
  BY <1>1 DEF TypeOK, Keeps, Faults
<1>3. StageOK'
  BY DEF Keeps
<1>4. WorkOK'
  <2>1. SUFFICES ASSUME NEW v \in Worker PROVE Fits(work[v], call[v])'
    BY DEF WorkOK
  <2>2. CASE v = w
    BY <1>1, <2>2
  <2>3. CASE v # w
    <3>1. work'[v] = work[v] /\ call'[v] = call[v] /\ Fits(work[v], call[v])
      BY <1>1, <2>3 DEF Sound, WorkOK
    <3>2. work[v] \in Job /\ call[v] \in Call
      BY DEF Sound, TypeOK
    <3>3. call[v].role \in Role /\ Before(work[v].role) \subseteq Role
      BY <3>2 DEF Job, Call, Before, Role
    <3>4. Placed(work[v], call[v])'
      BY <3>1 DEF Fits, Placed
    <3>5. Truthful(call[v])'
      BY <3>1, <3>3 DEF Fits, Truthful, Keeps
    <3>6. Given(work[v], call[v])' => run'.gen # 0
      BY <3>1 DEF Fits, Given, Keeps
    <3>7. Accepted(work[v])' => Backed(work[v])'
      BY <3>1, <3>3 DEF Fits, Accepted, Backed, Keeps
    <3> QED BY <3>4, <3>5, <3>6, <3>7 DEF Fits
  <2> QED BY <2>2, <2>3
<1>5. LateOK'
  BY DEF Sound, LateOK
<1>6. GivenOnce'
  <2>1. \A v \in Worker : Given(work[v], call[v]) => run.gen # 0
    BY DEF Sound, WorkOK, Fits
  <2>2. \A v \in Worker : Given(work[v], call[v])' =>
          Given(work[v], call[v]) \/ (v = w /\ run.gen = 0)
    BY <1>1 DEF Given
  <2> QED BY <2>1, <2>2 DEF Sound, GivenOnce
<1> QED BY <1>2, <1>3, <1>4, <1>5, <1>6 DEF Sound

\* A step that leaves every worker alone.
LEMMA OthersKeep ==
  ASSUME Sound, Keeps, UNCHANGED <<work, call>>, late' \subseteq late, faults' \in Faults,
         world' \in [trusted : BOOLEAN, bound : BOOLEAN, clean : BOOLEAN, overdue : BOOLEAN]
  PROVE Sound'
<1>1. TypeOK'
  BY DEF Sound, TypeOK, Keeps, Faults
<1>2. WorkOK'
  <2>1. SUFFICES ASSUME NEW v \in Worker PROVE Fits(work[v], call[v])'
    BY DEF WorkOK
  <2>2. work'[v] = work[v] /\ call'[v] = call[v] /\ Fits(work[v], call[v])
    BY DEF Sound, WorkOK
  <2>3. work[v] \in Job /\ call[v] \in Call
    BY DEF Sound, TypeOK
  <2>4. call[v].role \in Role /\ Before(work[v].role) \subseteq Role
    BY <2>3 DEF Job, Call, Before, Role
  <2>5. Placed(work[v], call[v])'
    BY <2>2 DEF Fits, Placed
  <2>6. Truthful(call[v])'
    BY <2>2, <2>4 DEF Fits, Truthful, Keeps
  <2>7. Given(work[v], call[v])' => run'.gen # 0
    BY <2>2 DEF Fits, Given, Keeps
  <2>8. Accepted(work[v])' => Backed(work[v])'
    BY <2>2, <2>4 DEF Fits, Accepted, Backed, Keeps
  <2> QED BY <2>5, <2>6, <2>7, <2>8 DEF Fits
<1>3. LateOK' /\ GivenOnce'
  BY DEF Sound, LateOK, GivenOnce, Given
<1> QED BY <1>1, <1>2, <1>3 DEF Sound, Keeps

\* The answer to a request, or none, leaves at most this request behind.
LEMMA GetsAnswer ==
  ASSUME Sound, NEW w \in Worker, work[w].at \in DOMAIN Asks, NEW answer \in Replies, Gets(w, answer)
  PROVE /\ call' = [call EXCEPT ![w] = NoCall] /\ NoCall \in Call
        /\ answer = "lost" \/ call[w].answer = answer
        /\ late' \subseteq late \union {call[w]} /\ late' \subseteq Stray
        /\ call[w] \in late' /\ call[w].op # "claim" => call[w].gen = 1
        /\ faults' \in Faults
<1>1. call[w] \in Call /\ Placed(work[w], call[w]) /\ late \subseteq Stray /\ faults \in Faults
  BY DEF Sound, TypeOK, WorkOK, Fits, Faults
<1>2. call[w].op # "none"
  BY <1>1 DEF Placed, Asks
<1>3. call[w].op # "claim" /\ call[w].answer = "pending" => call[w].gen = 1
  BY <1>1 DEF Placed, Asks, Free
<1>4. call[w] \in late /\ call[w].op # "claim" => call[w].gen = 1
  BY DEF Sound, LateOK
<1>5. NoCall \in Call
  BY DEF NoCall, Call, Role, Outcome, Answer
<1>6. /\ call' = [call EXCEPT ![w] = NoCall]
      /\ \/ call[w].answer = answer /\ UNCHANGED <<late, faults>>
         \/ /\ answer = "lost" /\ faults.timeouts < MaxTimeouts /\ Use("timeouts")
            /\ late' = IF call[w].answer = "pending" THEN late \union {call[w]} ELSE late
  BY DEF Gets
<1>7. faults' \in Faults
  BY <1>1, <1>6, UseCounts DEF Sound
<1> QED BY <1>1, <1>2, <1>3, <1>4, <1>5, <1>6, <1>7 DEF Stray

\* A request that is sent says what the worker does.
LEMMA SendsRequest ==
  ASSUME Sound, NEW w \in Worker, NEW op, NEW at, Sends(w, op, at), UNCHANGED <<run, reports, world, late, faults>>,
         at \in DOMAIN Asks, op = Asks[at], (at \in Free) <=> (work[w].at \in Free),
         Accepted([work[w] EXCEPT !.at = at]) <=> Accepted(work[w])
  PROVE Sound'
<1>1. work[w] \in Job /\ Fits(work[w], call[w]) /\ op \in {Asks[k] : k \in DOMAIN Asks}
  BY DEF Sound, TypeOK, WorkOK
<1>2. PICK j \in Job : /\ j = [work[w] EXCEPT !.at = at] /\ j.at = at /\ j.gen = work[w].gen
                       /\ j.role = work[w].role /\ j.outcome = work[w].outcome
  BY <1>1 DEF Job, Asks
<1>3. PICK c \in Call : /\ call' = [call EXCEPT ![w] = c]
                        /\ c.op = op /\ c.gen = j.gen /\ c.role = j.role
                        /\ c.outcome = j.outcome /\ c.answer = "pending"
  <2> DEFINE c == [op |-> op, gen |-> work[w].gen, role |-> work[w].role,
                   outcome |-> work[w].outcome, answer |-> "pending"]
  <2>1. c \in Call
    BY <1>1 DEF Call, Job, Asks, Answer
  <2>2. call' = [call EXCEPT ![w] = c]
    BY DEF Sends
  <2>3. /\ c.op = op /\ c.gen = j.gen /\ c.role = j.role
        /\ c.outcome = j.outcome /\ c.answer = "pending"
    BY <1>2
  <2> QED BY <2>1, <2>2, <2>3
<1>4. work[w].at \in Free => j = [Resting EXCEPT !.at = at]
  BY <1>1, <1>2 DEF Fits, Placed, Resting, Job
<1>5. work' = [work EXCEPT ![w] = j]
  BY <1>2 DEF Sends, Goes
<1>6. Accepted(j) <=> Accepted(work[w])
  BY <1>2
<1>7. Given(j, c) => Given(work[w], call[w])
  BY <1>2, <1>3 DEF Given
<1>8. Placed(j, c)
  BY <1>1, <1>2, <1>3, <1>4, <1>6 DEF Fits, Placed
<1>9. Truthful(c)
  BY <1>3 DEF Truthful
<1>10. Accepted(j) => Backed(j)
  BY <1>1, <1>2, <1>6 DEF Fits, Backed
<1>11. Fits(j, c)'
  BY <1>1, <1>7, <1>8, <1>9, <1>10 DEF Fits, Placed, Truthful, Given, Accepted, Backed
<1>12. /\ Keeps /\ faults' \in Faults /\ late' \subseteq Stray /\ late' \subseteq late \union {call[w]}
       /\ world' \in [trusted : BOOLEAN, bound : BOOLEAN, clean : BOOLEAN, overdue : BOOLEAN]
  BY NothingKeeps DEF Sound, TypeOK, Faults
<1>13. call[w] \in late' /\ call[w].op # "claim" => call[w].gen = 1
  BY DEF Sound, LateOK
<1> QED BY <1>3, <1>5, <1>7, <1>11, <1>12, <1>13, WorkerKeeps

\* A worker that no longer waits, or does not wait yet.
LEMMA MovesOn ==
  ASSUME Sound, NEW w \in Worker, NEW j \in Job, UNCHANGED <<run, reports, world>>,
         work' = [work EXCEPT ![w] = j], call' = [call EXCEPT ![w] = NoCall], NoCall \in Call,
         j.at \notin DOMAIN Asks, j.at \in Free => j = [Resting EXCEPT !.at = j.at],
         j.at \notin Free =>
           j.gen = 1 /\ (Accepted(j) \/ j.role = "architect") /\ Given(work[w], call[w]),
         Accepted(j) => Backed(j),
         late' \subseteq late \union {call[w]}, late' \subseteq Stray,
         call[w] \in late' /\ call[w].op # "claim" => call[w].gen = 1, faults' \in Faults
  PROVE Sound'
<1>1. Placed(j, NoCall)
  BY DEF Placed
<1>2. Truthful(NoCall) /\ (Given(j, NoCall) => j.at \notin Free)
  BY DEF Truthful, NoCall, Given
<1>3. Given(j, NoCall) => Given(work[w], call[w]) /\ run.gen # 0
  BY <1>2 DEF Sound, WorkOK, Fits
<1>4. Fits(j, NoCall)'
  BY <1>1, <1>2, <1>3 DEF Fits, Placed, Truthful, Given, Accepted, Backed, NoCall
<1>5. Keeps
  BY NothingKeeps DEF Sound
<1> QED BY <1>3, <1>4, <1>5, WorkerKeeps DEF Sound, TypeOK

----------------------------------------------------------------------------
(* Every step keeps the invariant                                           *)

\* The invariant, for one worker.
LEMMA AtWorker ==
  ASSUME Sound, NEW w \in Worker
  PROVE /\ work[w] \in Job /\ call[w] \in Call /\ Fits(work[w], call[w])
        /\ late \subseteq Stray /\ faults \in Faults /\ NoCall \in Call /\ Resting \in Job
        /\ Down \in Job
        /\ call[w] \in late /\ call[w].op # "claim" => call[w].gen = 1
        /\ work[w].at \notin DOMAIN Asks => call[w] = NoCall
        /\ work[w].at \notin Free => Given(work[w], call[w]) /\ work[w].gen = 1
<1>1. work[w] \in Job /\ call[w] \in Call /\ Fits(work[w], call[w])
  BY DEF Sound, TypeOK, WorkOK
<1>2. NoCall \in Call /\ Resting \in Job /\ Down \in Job
  BY DEF NoCall, Call, Resting, Down, Job, Role, Outcome, Answer
<1> QED BY <1>1, <1>2 DEF Sound, TypeOK, Faults, LateOK, Fits, Placed, Given

\* A worker that stops, with or without its container.
LEMMA StopsKeep ==
  ASSUME Sound, NEW w \in Worker, UNCHANGED <<run, reports, world>>, NEW j \in {Resting, Down},
         work' = [work EXCEPT ![w] = j], call' = [call EXCEPT ![w] = NoCall],
         late' \subseteq late \union {call[w]}, late' \subseteq Stray,
         call[w] \in late' /\ call[w].op # "claim" => call[w].gen = 1, faults' \in Faults
  PROVE Sound'
<1>1. j \in Job /\ NoCall \in Call
  BY AtWorker
<1>2. j.at \in {"poll", "down"} /\ j = [Resting EXCEPT !.at = j.at]
  BY DEF Resting, Down
<1>3. j.at \in Free /\ j.at \notin DOMAIN Asks /\ ~Accepted(j)
  BY <1>2 DEF Free, Asks, Accepted
<1> QED BY <1>1, <1>2, <1>3, MovesOn

\* A worker that was given the run and goes on, without waiting for anything.
LEMMA GoesOn ==
  ASSUME Sound, NEW w \in Worker, UNCHANGED <<run, reports, world>>, NEW j \in Job,
         work' = [work EXCEPT ![w] = j], call' = [call EXCEPT ![w] = NoCall],
         j.at \notin Free, j.at \notin DOMAIN Asks, j.gen = 1, Given(work[w], call[w]),
         Accepted(j) \/ j.role = "architect", Accepted(j) => Backed(j),
         late' \subseteq late \union {call[w]}, late' \subseteq Stray,
         call[w] \in late' /\ call[w].op # "claim" => call[w].gen = 1, faults' \in Faults
  PROVE Sound'
<1>1. NoCall \in Call
  BY AtWorker
<1> QED BY <1>1, MovesOn

LEMMA PollKeeps ==
  ASSUME Sound, NEW w \in Worker, Poll(w), UNCHANGED <<run, reports, world>> PROVE Sound'
<1>1. Sends(w, "claim", "claiming") /\ UNCHANGED <<run, reports, world, late, faults>>
  BY DEF Poll
<1>2. "claiming" \in DOMAIN Asks /\ "claim" = Asks["claiming"] /\ work[w].at \in Free
  BY DEF Poll, Asks, Free
<1>3. "claiming" \in Free /\ ~Accepted([work[w] EXCEPT !.at = "claiming"]) /\ ~Accepted(work[w])
  BY <1>2, AtWorker DEF Free, Accepted, Job
<1> QED BY <1>1, <1>2, <1>3, SendsRequest

LEMMA TakeClaimKeeps ==
  ASSUME Sound, NEW w \in Worker, TakeClaim(w), UNCHANGED <<run, reports, world>> PROVE Sound'
<1>1. PICK answer \in Replies :
        /\ Gets(w, answer)
        /\ work' = [work EXCEPT ![w] =
             IF answer = "lost" THEN Down
             ELSE IF answer = "claimed"
             THEN [Resting EXCEPT !.at = "verify", !.gen = call[w].gen] ELSE Resting]
  BY DEF TakeClaim
<1>2. work[w].at \in DOMAIN Asks
  BY DEF TakeClaim, Asks
<1>3. /\ call' = [call EXCEPT ![w] = NoCall] /\ late' \subseteq late \union {call[w]}
      /\ answer = "lost" \/ call[w].answer = answer
      /\ late' \subseteq Stray /\ faults' \in Faults
      /\ call[w] \in late' /\ call[w].op # "claim" => call[w].gen = 1
  BY <1>1, <1>2, GetsAnswer
<1>4. CASE answer = "lost" \/ answer # "claimed"
  <2>1. PICK j \in {Resting, Down} : work' = [work EXCEPT ![w] = j]
    BY <1>1, <1>4
  <2> QED BY <1>3, <2>1, StopsKeep
<1>5. CASE answer # "lost" /\ answer = "claimed"
  <2>1. call[w].answer = "claimed" /\ call[w].gen = 1
    BY <1>3, <1>5, AtWorker DEF Fits, Truthful
  <2>2. PICK j \in Job : /\ j = [Resting EXCEPT !.at = "verify", !.gen = 1]
                         /\ j.at = "verify" /\ j.gen = 1 /\ j.role = "architect"
    <3>0. 1 \in 0..3
      OBVIOUS
    <3>1. [Resting EXCEPT !.at = "verify", !.gen = 1] \in Job
      BY <3>0, AtWorker DEF Resting, Job, Role, Outcome
    <3> QED BY <3>1, AtWorker DEF Resting, Job, Role, Outcome
  <2>3. work' = [work EXCEPT ![w] = j]
    BY <1>1, <1>5, <2>1, <2>2
  <2>4. Given(work[w], call[w]) /\ j.at \notin Free /\ j.at \notin DOMAIN Asks /\ ~Accepted(j)
    BY <2>1, <2>2 DEF Given, Free, Asks, Accepted
  <2> QED BY <1>3, <2>2, <2>3, <2>4, GoesOn
<1> QED BY <1>4, <1>5

LEMMA VerifyKeeps ==
  ASSUME Sound, NEW w \in Worker, Verify(w), UNCHANGED <<run, reports, world>> PROVE Sound'
<1>1. work[w].at = "verify"
  BY DEF Verify
<1>2. CASE Sends(w, "preflight", "acknowledging") /\ UNCHANGED <<late, faults>>
  <2>1. "acknowledging" \in DOMAIN Asks /\ "preflight" = Asks["acknowledging"]
    BY DEF Asks
  <2>2. "acknowledging" \notin Free /\ work[w].at \notin Free
    BY <1>1 DEF Free
  <2>3. ~Accepted([work[w] EXCEPT !.at = "acknowledging"]) /\ ~Accepted(work[w])
    BY <1>1, AtWorker DEF Accepted, Job
  <2> QED BY <1>2, <2>1, <2>2, <2>3, SendsRequest
<1>3. CASE work' = [work EXCEPT ![w] = Resting] /\ Quiet
  <2>1. call[w] = NoCall /\ call \in [Worker -> Call]
    BY <1>1, AtWorker DEF Asks, Sound, TypeOK
  <2>2. call' = [call EXCEPT ![w] = NoCall]
    BY <1>3, <2>1 DEF Quiet
  <2>3. /\ late' \subseteq late \union {call[w]} /\ late' \subseteq Stray /\ faults' \in Faults
        /\ call[w] \in late' /\ call[w].op # "claim" => call[w].gen = 1
    BY <1>3, AtWorker DEF Quiet
  <2> QED BY <1>3, <2>2, <2>3, StopsKeep
<1> QED BY <1>2, <1>3 DEF Verify

LEMMA AcknowledgeKeeps ==
  ASSUME Sound, NEW w \in Worker, Acknowledge(w), UNCHANGED <<run, reports, world>> PROVE Sound'
<1>1. PICK answer \in Replies :
        /\ Gets(w, answer)
        /\ work' = [work EXCEPT ![w] = IF answer = "ok" THEN [@ EXCEPT !.at = "enter"] ELSE Resting]
  BY DEF Acknowledge
<1>2. work[w].at \in DOMAIN Asks /\ work[w].at = "acknowledging" /\ work[w].at \notin Free
  BY DEF Acknowledge, Asks, Free
<1>3. /\ call' = [call EXCEPT ![w] = NoCall] /\ late' \subseteq late \union {call[w]}
      /\ answer = "lost" \/ call[w].answer = answer
      /\ late' \subseteq Stray /\ faults' \in Faults
      /\ call[w] \in late' /\ call[w].op # "claim" => call[w].gen = 1
  BY <1>1, <1>2, GetsAnswer
<1>4. CASE answer # "ok"
  <2>1. work' = [work EXCEPT ![w] = Resting]
    BY <1>1, <1>4
  <2> QED BY <1>3, <2>1, StopsKeep
<1>5. CASE answer = "ok"
  <2>1. work' = [work EXCEPT ![w] = [work[w] EXCEPT !.at = "enter"]]
    BY <1>1, <1>5, AtWorker DEF Sound, TypeOK
  <2>2. PICK j \in Job : /\ j = [work[w] EXCEPT !.at = "enter"] /\ j.at = "enter"
                         /\ j.gen = work[w].gen /\ j.role = work[w].role
    <3>1. [work[w] EXCEPT !.at = "enter"] \in Job
      BY AtWorker DEF Job
    <3> QED BY <3>1, AtWorker DEF Job
  <2>3. call[w].answer = "ok" /\ call[w].op = "preflight" /\ run.verified
    <3>1. call[w].answer = "ok" /\ call[w].op = Asks["acknowledging"]
      BY <1>2, <1>3, <1>5, AtWorker DEF Fits, Placed
    <3> QED BY <3>1, AtWorker DEF Fits, Asks, Truthful
  <2>4. work[w].gen = 1 /\ Given(work[w], call[w]) /\ work[w].role = "architect"
    BY <1>2, AtWorker DEF Fits, Placed, Accepted
  <2>5. Backed(j)
    BY <2>2, <2>3, <2>4 DEF Backed, Before
  <2>6. j.at \notin Free /\ j.at \notin DOMAIN Asks /\ Accepted(j)
    BY <2>2 DEF Free, Asks, Accepted
  <2> QED BY <1>3, <2>1, <2>2, <2>4, <2>5, <2>6, GoesOn
<1> QED BY <1>4, <1>5


\* A phase is entered on a heartbeat; without the workspace it fails.
LEMMA EndsKeeps ==
  ASSUME Sound, NEW w \in Worker, NEW outcome \in Outcome, Ends(w, outcome), Accepted(work[w]),
         UNCHANGED <<run, reports, world>>, call' = [call EXCEPT ![w] = NoCall],
         late' \subseteq late \union {call[w]}, late' \subseteq Stray,
         call[w] \in late' /\ call[w].op # "claim" => call[w].gen = 1, faults' \in Faults
  PROVE Sound'
<1>1. PICK j \in Job : /\ j = [work[w] EXCEPT !.at = "report", !.outcome = outcome]
                       /\ j.at = "report" /\ j.gen = work[w].gen /\ j.role = work[w].role
  <2>1. [work[w] EXCEPT !.at = "report", !.outcome = outcome] \in Job
    BY AtWorker DEF Job
  <2> QED BY <2>1, AtWorker DEF Job
<1>2. work' = [work EXCEPT ![w] = j]
  BY <1>1 DEF Ends, Sound, TypeOK
<1>3. work[w].at \notin Free
  BY DEF Accepted, Free
<1>4. j.gen = 1 /\ Given(work[w], call[w]) /\ Backed(j)
  BY <1>1, <1>3, AtWorker DEF Fits, Backed
<1>5. j.at \notin Free /\ j.at \notin DOMAIN Asks /\ Accepted(j)
  BY <1>1 DEF Free, Asks, Accepted
<1> QED BY <1>2, <1>4, <1>5, GoesOn

\* A worker that does not wait, and asks nobody.
LEMMA StaysQuiet ==
  ASSUME Sound, NEW w \in Worker, work[w].at \notin DOMAIN Asks, Quiet
  PROVE /\ call' = [call EXCEPT ![w] = NoCall]
        /\ late' \subseteq late \union {call[w]} /\ late' \subseteq Stray /\ faults' \in Faults
        /\ call[w] \in late' /\ call[w].op # "claim" => call[w].gen = 1
<1>1. call[w] = NoCall /\ call \in [Worker -> Call]
  BY AtWorker DEF Sound, TypeOK
<1>2. call' = [call EXCEPT ![w] = NoCall]
  BY <1>1 DEF Quiet
<1> QED BY <1>2, AtWorker DEF Quiet

\* A worker that goes on with its role once its heartbeat was answered.
LEMMA GoesToModel ==
  ASSUME Sound, NEW w \in Worker, Goes(w, "model"), Accepted(work[w]),
         UNCHANGED <<run, reports, world>>, call' = [call EXCEPT ![w] = NoCall],
         late' \subseteq late \union {call[w]}, late' \subseteq Stray,
         call[w] \in late' /\ call[w].op # "claim" => call[w].gen = 1, faults' \in Faults
  PROVE Sound'
<1>1. PICK j \in Job : /\ j = [work[w] EXCEPT !.at = "model"] /\ j.at = "model"
                       /\ j.gen = work[w].gen /\ j.role = work[w].role
  <2>1. [work[w] EXCEPT !.at = "model"] \in Job
    BY AtWorker DEF Job
  <2> QED BY <2>1, AtWorker DEF Job
<1>2. work' = [work EXCEPT ![w] = j]
  BY <1>1 DEF Goes, Sound, TypeOK
<1>3. work[w].at \notin Free
  BY DEF Accepted, Free
<1>4. j.gen = 1 /\ Given(work[w], call[w]) /\ Backed(j)
  BY <1>1, <1>3, AtWorker DEF Fits, Backed
<1>5. j.at \notin Free /\ j.at \notin DOMAIN Asks /\ Accepted(j)
  BY <1>1 DEF Free, Asks, Accepted
<1> QED BY <1>2, <1>4, <1>5, GoesOn

\* The model starts, or the phase fails.
LEMMA StartModelKeeps ==
  ASSUME Sound, NEW w \in Worker, StartModel(w), UNCHANGED <<run, reports, world>> PROVE Sound'
<1>1. PICK answer \in Replies :
        Gets(w, answer) /\ IF answer = "ok" THEN Goes(w, "model") ELSE Ends(w, "workspace_failed")
  BY DEF StartModel
<1>2. work[w].at \in DOMAIN Asks /\ Accepted(work[w]) /\ "workspace_failed" \in Outcome
  BY DEF StartModel, Asks, Accepted, Outcome
<1>3. /\ call' = [call EXCEPT ![w] = NoCall] /\ late' \subseteq late \union {call[w]}
      /\ late' \subseteq Stray /\ faults' \in Faults
      /\ call[w] \in late' /\ call[w].op # "claim" => call[w].gen = 1
  BY <1>1, <1>2, GetsAnswer
<1>4. CASE answer = "ok"
  BY <1>1, <1>2, <1>3, <1>4, GoesToModel
<1>5. CASE answer # "ok"
  BY <1>1, <1>2, <1>3, <1>5, EndsKeeps
<1> QED BY <1>4, <1>5

\* The model goes on, or is stopped.
LEMMA KeepGoingKeeps ==
  ASSUME Sound, NEW w \in Worker, KeepGoing(w), UNCHANGED <<run, reports, world>> PROVE Sound'
<1>1. PICK answer \in Replies :
        Gets(w, answer) /\ IF answer = "ok" THEN Goes(w, "model") ELSE Ends(w, "workspace_failed")
  BY DEF KeepGoing
<1>2. work[w].at \in DOMAIN Asks /\ Accepted(work[w]) /\ "workspace_failed" \in Outcome
  BY DEF KeepGoing, Asks, Accepted, Outcome
<1>3. /\ call' = [call EXCEPT ![w] = NoCall] /\ late' \subseteq late \union {call[w]}
      /\ late' \subseteq Stray /\ faults' \in Faults
      /\ call[w] \in late' /\ call[w].op # "claim" => call[w].gen = 1
  BY <1>1, <1>2, GetsAnswer
<1>4. CASE answer = "ok"
  BY <1>1, <1>2, <1>3, <1>4, GoesToModel
<1>5. CASE answer # "ok"
  BY <1>1, <1>2, <1>3, <1>5, EndsKeeps
<1> QED BY <1>4, <1>5

LEMMA EnterKeeps ==
  ASSUME Sound, NEW w \in Worker, Enter(w), UNCHANGED <<run, reports, world>> PROVE Sound'
<1>1. work[w].at = "enter"
  BY DEF Enter
<1>2. CASE Sends(w, "heartbeat", "entering") /\ UNCHANGED <<late, faults>>
  <2>1. "entering" \in DOMAIN Asks /\ "heartbeat" = Asks["entering"]
    BY DEF Asks
  <2>2. "entering" \notin Free /\ work[w].at \notin Free
    BY <1>1 DEF Free
  <2>3. Accepted([work[w] EXCEPT !.at = "entering"]) /\ Accepted(work[w])
    BY <1>1, AtWorker DEF Accepted, Job
  <2> QED BY <1>2, <2>1, <2>2, <2>3, SendsRequest
<1>3. CASE Ends(w, "workspace_failed") /\ Quiet
  <2>1. Accepted(work[w]) /\ "workspace_failed" \in Outcome /\ work[w].at \notin DOMAIN Asks
    BY <1>1 DEF Accepted, Outcome, Asks
  <2> QED BY <1>3, <2>1, StaysQuiet, EndsKeeps
<1> QED BY <1>2, <1>3 DEF Enter

LEMMA BeatKeeps ==
  ASSUME Sound, NEW w \in Worker, Beat(w), UNCHANGED <<run, reports, world>> PROVE Sound'
<1>1. work[w].at = "model"
  BY DEF Beat
<1>2. CASE Sends(w, "heartbeat", "beating") /\ UNCHANGED <<late, faults>>
  <2>1. "beating" \in DOMAIN Asks /\ "heartbeat" = Asks["beating"]
    BY DEF Asks
  <2>2. "beating" \notin Free /\ work[w].at \notin Free
    BY <1>1 DEF Free
  <2>3. Accepted([work[w] EXCEPT !.at = "beating"]) /\ Accepted(work[w])
    BY <1>1, AtWorker DEF Accepted, Job
  <2> QED BY <1>2, <2>1, <2>2, <2>3, SendsRequest
<1> QED BY <1>2 DEF Beat

LEMMA ReportKeeps ==
  ASSUME Sound, NEW w \in Worker, Report(w), UNCHANGED <<run, reports, world>> PROVE Sound'
<1>1. work[w].at = "report"
  BY DEF Report
<1>2. CASE Sends(w, "phase", "reporting") /\ UNCHANGED <<late, faults>>
  <2>1. "reporting" \in DOMAIN Asks /\ "phase" = Asks["reporting"]
    BY DEF Asks
  <2>2. "reporting" \notin Free /\ work[w].at \notin Free
    BY <1>1 DEF Free
  <2>3. Accepted([work[w] EXCEPT !.at = "reporting"]) /\ Accepted(work[w])
    BY <1>1, AtWorker DEF Accepted, Job
  <2> QED BY <1>2, <2>1, <2>2, <2>3, SendsRequest
<1> QED BY <1>2 DEF Report

LEMMA FinishKeeps ==
  ASSUME Sound, NEW w \in Worker, Finish(w), UNCHANGED <<run, reports, world>> PROVE Sound'
<1>1. PICK outcome \in Outcome : Ends(w, outcome)
  BY DEF Finish, Outcome
<1>2. Accepted(work[w]) /\ work[w].at \notin DOMAIN Asks /\ Quiet
  BY DEF Finish, Accepted, Asks
<1> QED BY <1>1, <1>2, StaysQuiet, EndsKeeps

\* An answered report moves the worker on to the next role.
LEMMA ReportsKeeps ==
  ASSUME Sound, NEW w \in Worker, Reports(w), UNCHANGED <<run, reports, world>> PROVE Sound'
<1>1. PICK answer \in Replies :
        /\ Gets(w, answer)
        /\ work' = [work EXCEPT ![w] =
             IF answer = "ok" THEN [@ EXCEPT !.at = "enter", !.role = After[work[w].role], !.outcome = "none"]
             ELSE IF answer = "ended" THEN Resting ELSE Down]
  BY DEF Reports
<1>2. /\ work[w].at = "reporting" /\ work[w].at \in DOMAIN Asks /\ work[w].at \notin Free
      /\ Accepted(work[w])
  BY DEF Reports, Asks, Free, Accepted
<1>3. /\ call' = [call EXCEPT ![w] = NoCall] /\ late' \subseteq late \union {call[w]}
      /\ answer = "lost" \/ call[w].answer = answer
      /\ late' \subseteq Stray /\ faults' \in Faults
      /\ call[w] \in late' /\ call[w].op # "claim" => call[w].gen = 1
  BY <1>1, <1>2, GetsAnswer
<1>4. CASE answer # "ok"
  <2>1. PICK j \in {Resting, Down} : work' = [work EXCEPT ![w] = j]
    BY <1>1, <1>4
  <2> QED BY <1>3, <2>1, StopsKeep
<1>5. CASE answer = "ok"
  <2>1. /\ call[w].answer = "ok" /\ call[w].op = Asks["reporting"] /\ call[w].role = work[w].role
    BY <1>2, <1>3, <1>5, AtWorker DEF Fits, Placed
  <2>2. reports[work[w].role] = "completed" /\ ~Last(work[w].role) /\ work[w].role \in Role
    BY <2>1, AtWorker DEF Fits, Asks, Truthful, Job
  <2>3. /\ After[work[w].role] \in Role
        /\ Before(After[work[w].role]) = Before(work[w].role) \union {work[w].role}
    BY <2>2 DEF Last, After, Before, Role
  <2>4. PICK j \in Job :
          /\ j = [work[w] EXCEPT !.at = "enter", !.role = After[work[w].role], !.outcome = "none"]
          /\ j.at = "enter" /\ j.gen = work[w].gen /\ j.role = After[work[w].role]
    <3>1. [work[w] EXCEPT !.at = "enter", !.role = After[work[w].role], !.outcome = "none"] \in Job
      BY <2>3, AtWorker DEF Job, Outcome
    <3> QED BY <3>1, <2>3, AtWorker DEF Job, Outcome
  <2>5. work' = [work EXCEPT ![w] = j]
    <3>1. work[w] = [at |-> work[w].at, gen |-> work[w].gen, role |-> work[w].role,
                     outcome |-> work[w].outcome]
      BY AtWorker DEF Job
    <3>2. work' = [work EXCEPT ![w] = [@ EXCEPT !.at = "enter", !.role = After[work[w].role],
                                                !.outcome = "none"]]
      BY <1>1, <1>5
    <3> QED BY <2>4, <3>1, <3>2
  <2>6. j.gen = 1 /\ Given(work[w], call[w]) /\ Backed(work[w])
    BY <1>2, <2>4, AtWorker DEF Fits
  <2>7. Backed(j)
    BY <2>2, <2>3, <2>4, <2>6 DEF Backed
  <2>8. j.at \notin Free /\ j.at \notin DOMAIN Asks /\ Accepted(j)
    BY <2>4 DEF Free, Asks, Accepted
  <2> QED BY <1>3, <2>5, <2>6, <2>7, <2>8, GoesOn
<1> QED BY <1>4, <1>5

\* The container is killed.
LEMMA CrashKeeps ==
  ASSUME Sound, NEW w \in Worker, Crash(w) PROVE Sound'
<1>1. /\ work' = [work EXCEPT ![w] = Down] /\ call' = [call EXCEPT ![w] = NoCall]
      /\ UNCHANGED <<run, reports, world>>
  BY DEF Crash
<1>2. faults' \in Faults
  BY UseCounts DEF Crash, Sound
<1>3. call[w] \in Call /\ Placed(work[w], call[w]) /\ late \subseteq Stray
  BY AtWorker DEF Fits
<1>4. call[w].answer = "pending" =>
        call[w].op # "none" /\ (call[w].op # "claim" => call[w].gen = 1)
  BY <1>3 DEF Placed, Asks, Free, NoCall
<1>5. late' = IF call[w].answer = "pending" THEN late \union {call[w]} ELSE late
  BY DEF Crash
<1>6. /\ late' \subseteq late \union {call[w]} /\ late' \subseteq Stray
      /\ call[w] \in late' /\ call[w].op # "claim" => call[w].gen = 1
  BY <1>3, <1>4, <1>5, AtWorker DEF Stray
<1> QED BY <1>1, <1>2, <1>6, StopsKeep

LEMMA StartWorkerKeeps ==
  ASSUME Sound, NEW w \in Worker, StartWorker(w) PROVE Sound'
<1>1. work[w].at = "down" /\ UNCHANGED <<run, reports, world>> /\ Quiet
  BY DEF StartWorker, Down, Resting, Quiet
<1>2. work[w].at \notin DOMAIN Asks
  BY <1>1 DEF Asks
<1>3. work' = [work EXCEPT ![w] = Resting]
  BY DEF StartWorker
<1> QED BY <1>1, <1>2, <1>3, StaysQuiet, StopsKeep

LEMMA WorkerStepKeeps ==
  ASSUME Sound, NEW w \in Worker, WorkerStep(w) PROVE Sound'
<1>1. UNCHANGED <<run, reports, world>>
  BY DEF WorkerStep
<1> QED BY <1>1, PollKeeps, TakeClaimKeeps, VerifyKeeps, AcknowledgeKeeps, EnterKeeps,
           StartModelKeeps, BeatKeeps, KeepGoingKeeps, FinishKeeps, ReportKeeps, ReportsKeeps
        DEF WorkerStep

\* A request that waits for its answer.
LEMMA AskedOK ==
  ASSUME Sound, NEW w \in Worker, Handle(w)
  PROVE call[w] \in Stray /\ (call[w].op # "claim" => call[w].gen = 1)
<1>1. call[w].op # "none" /\ call[w].answer = "pending"
  BY DEF Handle
<1>2. Placed(work[w], call[w]) /\ call[w] \in Stray
  BY <1>1, AtWorker DEF Fits, Stray
<1> QED BY <1>1, <1>2 DEF Placed, Asks, Free, NoCall

\* The broker's answer to a request says what it did to the row.
LEMMA HandleKeeps ==
  ASSUME Sound, NEW w \in Worker, Handle(w) PROVE Sound'
<1>1. PICK answer \in Answer :
        /\ Handles(call[w], answer)
        /\ call' = [call EXCEPT ![w].answer = answer, ![w].gen = run'.gen]
  BY DEF Handle
<1>2. call[w].op # "none" /\ call[w].answer = "pending" /\ UNCHANGED <<world, work, late, faults>>
  BY DEF Handle
<1>3. Placed(work[w], call[w]) /\ work[w] \in Job /\ call[w] \in Stray
  BY <1>2, AtWorker DEF Fits, Stray
<1>4. call[w].op # "claim" => call[w].gen = 1
  BY AskedOK
<1>5. Answers(call[w], answer)
  BY <1>1, <1>3, <1>4, HandlesAnswers DEF Sound
<1>6. Keeps /\ run'.gen \in 0..3
  BY <1>5 DEF Answers, Keeps, Row
<1>7. PICK c \in Call : /\ call' = [call EXCEPT ![w] = c]
                        /\ c.op = call[w].op /\ c.role = call[w].role
                        /\ c.outcome = call[w].outcome /\ c.gen = run'.gen /\ c.answer = answer
  <2> DEFINE c == [call[w] EXCEPT !.answer = answer, !.gen = run'.gen]
  <2>1. c \in Call
    BY <1>3, <1>6 DEF Stray, Call
  <2>2. /\ c.op = call[w].op /\ c.role = call[w].role
        /\ c.outcome = call[w].outcome /\ c.gen = run'.gen /\ c.answer = answer
    BY <1>3 DEF Stray, Call
  <2>3. call' = [call EXCEPT ![w] = c]
    BY <1>1 DEF Sound, TypeOK
  <2> QED BY <2>1, <2>2, <2>3
<1>8. PICK j \in Job : j = work[w]
  BY <1>3
<1>9. work' = [work EXCEPT ![w] = j]
  BY <1>2, <1>8 DEF Sound, TypeOK
<1>10. answer \in Answer /\ answer # "pending"
  BY DEF Answer
<1>11. call[w].op = "claim" => work[w].at \in Free
  BY <1>2, <1>3 DEF Placed, Asks, Free, NoCall
<1>12. Given(j, c) => Given(work[w], call[w]) \/ run.gen = 0
  BY <1>5, <1>7, <1>8 DEF Given, Answers
<1>13. Placed(j, c)
  BY <1>2, <1>3, <1>7, <1>8, <1>10 DEF Placed, NoCall
<1>14. Truthful(c)'
  BY <1>5, <1>7 DEF Truthful, Answers
<1>15. Given(j, c) => run'.gen # 0
  <2>1. Given(work[w], call[w]) => run.gen # 0
    BY AtWorker DEF Fits
  <2>2. answer = "claimed" => run'.gen = 1
    BY <1>5 DEF Answers
  <2> QED BY <1>6, <1>7, <1>8, <2>1, <2>2 DEF Given, Keeps
<1>16. Accepted(j) => Backed(j)'
  <2>1. Accepted(j) => Backed(j)
    BY <1>8, AtWorker DEF Fits
  <2>2. Before(j.role) \subseteq Role
    BY DEF Before, Role
  <2> QED BY <1>6, <2>1, <2>2 DEF Backed, Keeps
<1>17. Fits(j, c)'
  BY <1>13, <1>14, <1>15, <1>16 DEF Fits, Placed, Truthful, Given, Accepted, Backed
<1>18. call[w] \in late /\ call[w].op # "claim" => call[w].gen = 1
  BY AtWorker
<1>19. /\ late' \subseteq late \union {call[w]} /\ late' \subseteq Stray /\ faults' \in Faults
       /\ world' \in [trusted : BOOLEAN, bound : BOOLEAN, clean : BOOLEAN, overdue : BOOLEAN]
  BY <1>2, AtWorker DEF Sound, TypeOK
<1> QED BY <1>2, <1>6, <1>7, <1>9, <1>12, <1>17, <1>18, <1>19, WorkerKeeps

\* What is known of the faults and the world.
LEMMA Around ==
  ASSUME Sound
  PROVE /\ faults \in Faults /\ TypeOK /\ StageOK
        /\ world \in [trusted : BOOLEAN, bound : BOOLEAN, clean : BOOLEAN, overdue : BOOLEAN]
BY DEF Sound, TypeOK, Faults

LEMMA HandleLateKeeps ==
  ASSUME Sound, NEW c \in late, HandleLate(c) PROVE Sound' /\ Keeps
<1>1. PICK answer \in Answer : Handles(c, answer)
  BY DEF HandleLate
<1>2. c \in Stray /\ (c.op # "claim" => c.gen = 1)
  BY DEF Sound, TypeOK, LateOK
<1>3. Keeps
  BY <1>1, <1>2, Around, HandlesAnswers DEF Answers
<1>4. /\ late' \subseteq late /\ UNCHANGED <<work, call>> /\ faults' \in Faults
      /\ world' \in [trusted : BOOLEAN, bound : BOOLEAN, clean : BOOLEAN, overdue : BOOLEAN]
  BY Around DEF HandleLate
<1> QED BY <1>3, <1>4, OthersKeep

\* abort_execution settles a queued run and fences a running one.
LEMMA AbortKeeps ==
  ASSUME Sound, Abort PROVE Sound' /\ Keeps
<1>0. run \in Row /\ reports \in [Role -> Outcome] /\ ~Settled /\ ~run.cancel /\ UNCHANGED reports
  BY Around, Rows DEF Abort, Cancellable
<1>1. ASSUME run.status = "queued" PROVE Keeps
  <2>1. run' = [Finished("cancelled") EXCEPT !.cancel = TRUE]
    BY <1>1 DEF Abort
  <2>2. run.gen \in Nat /\ run.gen <= 2
    BY <1>0, Around, Rows
  <2>3. PICK g \in 0..3 : g = run.gen + 1 /\ g # 0
    BY <2>2
  <2>4. run' = [run EXCEPT !.status = "cancelled", !.stage = "settled", !.gen = g,
                           !.held = FALSE, !.live = FALSE, !.cancel = TRUE]
    BY <1>0, <2>1, <2>3 DEF Finished, Row
  <2>5. Settles("cancelled")
    BY <1>0, <2>3, <2>4 DEF Settles, Row
  <2> QED BY <1>0, <2>5, SettlingKeeps, Around
<1>2. ASSUME run.status # "queued" PROVE Keeps
  <2>1. run' = [run EXCEPT !.cancel = TRUE, !.stage = "cancel_requested", !.gen = @ + 1]
    BY <1>2 DEF Abort, Fenced
  <2>2. run.status = "running" /\ run.stage \in Role
    <3>1. run.stage \in Role \union {"dispatch_pending", "codex_preflight_pending",
                                     "cancel_requested"}
      BY <1>0, Around, Rows
    <3> QED BY <1>0, <1>2, <3>1, Around DEF StageOK
  <2>3. run.gen = 1 /\ run.verified
    BY <2>2, Around DEF StageOK
  <2>4. /\ run' = [run EXCEPT !.cancel = TRUE, !.stage = "cancel_requested", !.gen = 2]
        /\ 2 \in 0..3
    BY <2>1, <2>3
  <2>5. /\ run' \in Row /\ run'.gen = 2 /\ run'.status = "running" /\ run'.live = run.live
        /\ run'.stage = "cancel_requested" /\ run'.verified = run.verified /\ run'.cancel
    BY <1>0, <2>2, <2>4 DEF Row
  <2>6. ~Settled' /\ run'.stage \notin Role
    BY <2>5 DEF Settled, Role
  <2>7. StageOK'
    BY <2>5, <2>6 DEF StageOK
  <2> QED BY <1>0, <2>2, <2>3, <2>5, <2>7 DEF Keeps
<1>3. Keeps
  BY <1>1, <1>2
<1>4. /\ late' \subseteq late /\ UNCHANGED <<work, call>> /\ faults' \in Faults
      /\ world' \in [trusted : BOOLEAN, bound : BOOLEAN, clean : BOOLEAN, overdue : BOOLEAN]
  BY Around DEF Abort
<1> QED BY <1>3, <1>4, OthersKeep

\* A lease that ends takes nothing from the row but itself.
LEMMA LeaseEndsKeeps ==
  ASSUME Sound, LeaseEnds PROVE Sound' /\ Keeps
<1>1. run \in Row /\ reports \in [Role -> Outcome] /\ StageOK /\ ~Settled
  BY Around, Rows DEF LeaseEnds, StageOK
<1>2. run' = [run EXCEPT !.live = FALSE] /\ UNCHANGED reports
  BY DEF LeaseEnds
<1>3. /\ run' \in Row /\ ~run'.live /\ run'.gen = run.gen /\ run'.held = run.held
      /\ run'.status = run.status /\ run'.stage = run.stage
      /\ run'.verified = run.verified /\ run'.cancel = run.cancel
  BY <1>1, <1>2 DEF Row
<1>4. StageOK'
  BY <1>1, <1>2, <1>3 DEF StageOK, Settled, Filed, Role
<1>5. Keeps
  BY <1>1, <1>2, <1>3, <1>4 DEF Keeps
<1>6. /\ late' \subseteq late /\ UNCHANGED <<work, call>> /\ faults' \in Faults
      /\ world' \in [trusted : BOOLEAN, bound : BOOLEAN, clean : BOOLEAN, overdue : BOOLEAN]
  BY Around DEF LeaseEnds
<1> QED BY <1>5, <1>6, OthersKeep

\* What changes around the run, and requests that are lost.
LEMMA WorldKeeps ==
  ASSUME Sound, Disturb \/ DeadlinePasses \/ (\E c \in late : Lose(c)) \/ UNCHANGED vars
  PROVE Sound'
<1>1. UNCHANGED <<run, reports, work, call>> /\ late' \subseteq late
  BY DEF Disturb, DeadlinePasses, Lose, vars
<1>2. faults' \in Faults
  BY Around, UseCounts DEF Disturb, DeadlinePasses, Lose, vars
<1>3. world' \in [trusted : BOOLEAN, bound : BOOLEAN, clean : BOOLEAN, overdue : BOOLEAN]
  <2>1. CASE Disturb
    <3>1. PICK part \in {"trusted", "bound", "clean"} : world' = [world EXCEPT ![part] = FALSE]
      BY <2>1 DEF Disturb
    <3> QED BY <3>1, Around
  <2>2. CASE DeadlinePasses
    BY <2>2, Around DEF DeadlinePasses
  <2>3. CASE UNCHANGED world
    BY <2>3, Around
  <2> QED BY <2>1, <2>2, <2>3 DEF Lose, vars
<1>4. Keeps
  BY <1>1, Around, NothingKeeps
<1> QED BY <1>1, <1>2, <1>3, <1>4, OthersKeep

----------------------------------------------------------------------------
(* The theorems                                                             *)

LEMMA InitSound == Init => Sound
<1> SUFFICES ASSUME Init PROVE Sound
  OBVIOUS
<1>1. /\ run = [status |-> "queued", stage |-> "dispatch_pending", gen |-> 0, held |-> FALSE,
                live |-> FALSE, verified |-> FALSE, cancel |-> FALSE]
      /\ reports = [r \in Role |-> "none"] /\ late = {}
      /\ work = [w \in Worker |-> Down] /\ call = [w \in Worker |-> NoCall]
      /\ world = [trusted |-> TRUE, bound |-> TRUE, clean |-> TRUE, overdue |-> FALSE]
      /\ faults = [crashes |-> 0, timeouts |-> 0, disturbs |-> 0]
  BY DEF Init
<1>2. Down \in Job /\ NoCall \in Call
  BY DEF Down, Resting, Job, NoCall, Call, Role, Outcome, Answer
<1>3. run \in Row
  BY <1>1 DEF Row
<1>4. faults \in Faults
  BY <1>1, LaneBounds DEF Faults
<1>5. TypeOK
  BY <1>1, <1>2, <1>3, <1>4 DEF TypeOK, Faults, Outcome
<1>6. StageOK
  BY <1>1 DEF StageOK, Settled, Role, Filed
<1>7. Down.at = "down" /\ Down = [Resting EXCEPT !.at = Down.at]
  BY DEF Down, Resting
<1>8. Fits(Down, NoCall)
  BY <1>7 DEF Fits, Placed, Truthful, Given, Accepted, NoCall, Free, Asks
<1>9. WorkOK /\ LateOK
  BY <1>1, <1>8 DEF WorkOK, LateOK
<1>10. ~Given(Down, NoCall)
  BY <1>7 DEF Given, Free, NoCall
<1>11. GivenOnce
  BY <1>1, <1>10 DEF GivenOnce
<1> QED BY <1>5, <1>6, <1>9, <1>11 DEF Sound

LEMMA NextSound == Sound /\ [Next]_vars => Sound'
<1> SUFFICES ASSUME Sound, [Next]_vars PROVE Sound'
  OBVIOUS
<1>1. ASSUME NEW w \in Worker, Handle(w) \/ WorkerStep(w) \/ StartWorker(w) \/ Crash(w)
      PROVE Sound'
  BY <1>1, HandleKeeps, WorkerStepKeeps, StartWorkerKeeps, CrashKeeps
<1>2. ASSUME NEW c \in late, HandleLate(c) \/ Lose(c) PROVE Sound'
  BY <1>2, HandleLateKeeps, WorldKeeps
<1>3. CASE Abort
  BY <1>3, AbortKeeps
<1>4. CASE Disturb \/ DeadlinePasses \/ UNCHANGED vars
  BY <1>4, WorldKeeps
<1>5. CASE LeaseEnds
  BY <1>5, LeaseEndsKeeps
<1> QED BY <1>1, <1>2, <1>3, <1>4, <1>5 DEF Next

\* Every reachable state satisfies the inductive invariant.
LEMMA SoundAlways == Spec => []Sound
<1> QED BY InitSound, NextSound, PTL DEF Spec

\* Every reachable state is well typed: what the broker, the workers and their
\* requests hold.
THEOREM TypeCorrect == Spec => []TypeOK
<1>1. Sound => TypeOK
  BY DEF Sound
<1> QED BY <1>1, SoundAlways, PTL

\* The model never runs twice at once, however many workers there are, whatever
\* leases expire and whatever requests arrive late.
THEOREM ModelRunsOnce == Spec => []OneInference
<1>1. ASSUME Sound PROVE OneInference
  <2> DEFINE busy == {w \in Worker : Inferring(w)}
  <2>1. \A v, w \in busy : v = w
    <3>1. \A w \in busy : Given(work[w], call[w])
      BY DEF Inferring, Given, Free
    <3> QED BY <1>1, <3>1 DEF Sound, GivenOnce
  <2>2. CASE busy = {}
    BY <2>2, FS_EmptySet DEF OneInference
  <2>3. CASE busy # {}
    <3>1. PICK w \in Worker : busy = {w}
      BY <2>1, <2>3
    <3>2. Cardinality(busy) = 1
      BY <3>1, FS_Singleton
    <3> QED BY <3>2 DEF OneInference
  <2> QED BY <2>2, <2>3
<1> QED BY <1>1, SoundAlways, PTL

\* The model runs only in a workspace that its worker verified and the broker
\* accepted, and only after every earlier role completed.
THEOREM ModelsAreBacked == Spec => []InferenceIsBacked
<1>1. ASSUME Sound PROVE InferenceIsBacked
  BY <1>1 DEF Sound, WorkOK, Fits, Accepted, Backed, Inferring, InferenceIsBacked
<1> QED BY <1>1, SoundAlways, PTL

\* A settled run is never written again, by a late request or a late cancel.
LEMMA SettledStays ==
  ASSUME Sound, [Next]_vars PROVE Settled => UNCHANGED <<run, reports>>
<1>1. ASSUME NEW w \in Worker, Handle(w) PROVE Settled => UNCHANGED <<run, reports>>
  <2>1. PICK answer : Handles(call[w], answer)
    BY <1>1 DEF Handle
  <2>2. call[w] \in Stray /\ (call[w].op # "claim" => call[w].gen = 1)
    BY <1>1, AskedOK
  <2> QED BY <2>1, <2>2, Around, HandlesAnswers DEF Answers, Keeps
<1>2. ASSUME NEW w \in Worker, WorkerStep(w) \/ StartWorker(w) \/ Crash(w)
      PROVE UNCHANGED <<run, reports>>
  BY <1>2 DEF WorkerStep, StartWorker, Crash
<1>3. ASSUME NEW c \in late, HandleLate(c) PROVE Settled => UNCHANGED <<run, reports>>
  BY <1>3, HandleLateKeeps DEF Keeps
<1>4. ASSUME Abort \/ LeaseEnds PROVE Settled => UNCHANGED <<run, reports>>
  BY <1>4, AbortKeeps, LeaseEndsKeeps DEF Keeps
<1>5. ASSUME NEW c \in late, Lose(c) PROVE UNCHANGED <<run, reports>>
  BY <1>5 DEF Lose
<1>6. ASSUME Disturb \/ DeadlinePasses \/ UNCHANGED vars PROVE UNCHANGED <<run, reports>>
  BY <1>6 DEF Disturb, DeadlinePasses, vars
<1> QED BY <1>1, <1>2, <1>3, <1>4, <1>5, <1>6 DEF Next

\* No step writes the row or the reports of a settled run.
THEOREM SettledRunsAreFinal == Spec => SettledIsFinal
<1>1. Sound /\ [Next]_vars => (Settled => UNCHANGED <<run, reports>>)
  BY SettledStays
<1>2. Sound /\ [Next]_vars => [Settled => UNCHANGED <<run, reports>>]_vars
  BY <1>1
<1> QED BY <1>2, SoundAlways, PTL DEF Spec, SettledIsFinal

----------------------------------------------------------------------------
(* One worker: the deployment                                               *)

\* The one worker of a deployment whose requests do not outlive a lease.
Alone == Punctual /\ \A v, w \in Worker : v = w

\* The worker's workspace is accepted, or is about to be.
Ready(j, c) == Accepted(j) \/ (c.op = "preflight" /\ c.answer = "ok")

\* No claim can sweep the run of a worker that may still start its model.
Unswept ==
  \A w \in Worker : Given(work[w], call[w]) /\ run.status = "running" /\ ~run.live =>
    \A c \in late : c.op # "claim"

Stopped == run.status = "cancelled" => \A w \in Worker : ~Ready(work[w], call[w])

\* A worker that is ready has a verified run, and was given it.
LEMMA ReadyIsGiven ==
  ASSUME Sound, NEW w \in Worker, Ready(work[w], call[w])
  PROVE Given(work[w], call[w]) /\ run.verified
<1>1. Fits(work[w], call[w])
  BY AtWorker
<1>2. work[w].at \notin Free
  BY <1>1 DEF Ready, Accepted, Free, Fits, Placed, Asks, NoCall
<1>3. run.verified
  BY <1>1 DEF Ready, Fits, Truthful, Backed
<1> QED BY <1>2, <1>3 DEF Given

\* What a worker's step leaves behind: nothing, or a request other than a
\* claim, unless it gave the run up.
Leaves(w) ==
  /\ Given(work[w], call[w])' =>
       Given(work[w], call[w]) /\ (late' = late \/ call[w].op # "claim")
  /\ Ready(work[w], call[w])' => Ready(work[w], call[w])
  /\ late' \subseteq late \union {call[w]}

\* The worker's answer, and the request it leaves behind if it got none.
LEMMA GetsLeaves ==
  ASSUME Sound, NEW w \in Worker, NEW answer \in Replies, Gets(w, answer)
  PROVE /\ call'[w] = NoCall /\ late' \subseteq late \union {call[w]}
        /\ answer # "lost" => late' = late /\ call[w].answer = answer
BY DEF Gets, Sound, TypeOK

\* A phase that ended leaves nothing behind.
LEMMA EndsLeaves ==
  ASSUME Sound, NEW w \in Worker, NEW outcome, Ends(w, outcome), Accepted(work[w]),
         UNCHANGED <<call, late>>
  PROVE Leaves(w)
<1>1. /\ call[w].op # "claim" \/ late' = late
      /\ call'[w] = call[w] /\ Given(work[w], call[w])
  BY DEF Given, Accepted, Free
<1> QED BY <1>1 DEF Leaves, Ready

\* Every step of a worker.
LEMMA StepLeaves ==
  ASSUME Sound, NEW w \in Worker, WorkerStep(w) \/ StartWorker(w) \/ Crash(w)
  PROVE Leaves(w)
<1> USE DEF Leaves, Given, Ready
<1>0. /\ work \in [Worker -> Job] /\ call \in [Worker -> Call] /\ Placed(work[w], call[w])
      /\ NoCall.op = "none" /\ NoCall.answer = "none" /\ Resting.at = "poll" /\ Down.at = "down"
  BY AtWorker DEF Sound, TypeOK, Fits, NoCall, Resting, Down
<1>1. ASSUME NEW op, NEW at, Sends(w, op, at), UNCHANGED late, (at \in Free) <=> (work[w].at \in Free),
             Accepted([work[w] EXCEPT !.at = at]) <=> Accepted(work[w])
      PROVE Leaves(w)
  <2>1. work'[w] = [work[w] EXCEPT !.at = at] /\ work'[w].at = at
    BY <1>0, <1>1 DEF Sends, Goes, Job
  <2>2. call'[w].answer = "pending"
    BY <1>0, <1>1 DEF Sends
  <2> QED BY <1>1, <2>1, <2>2
<1>2. ASSUME NEW j, work' = [work EXCEPT ![w] = j], call' = [call EXCEPT ![w] = NoCall],
             late' \subseteq late \union {call[w]}, j.at \in Free, ~Accepted(j)
      PROVE Leaves(w)
  BY <1>0, <1>2
<1>3. ASSUME NEW j, work' = [work EXCEPT ![w] = j], call'[w] = NoCall, Accepted(j) => Ready(work[w], call[w]),
             Given(work[w], call[w]), late' \subseteq late \union {call[w]},
             late' = late \/ call[w].op # "claim"
      PROVE Leaves(w)
  BY <1>0, <1>3
<1>4. CASE Poll(w)
  <2>1. Sends(w, "claim", "claiming") /\ UNCHANGED late /\ work[w].at = "poll"
    BY <1>4 DEF Poll
  <2>2. ("claiming" \in Free) <=> (work[w].at \in Free)
    BY <2>1 DEF Free
  <2>3. Accepted([work[w] EXCEPT !.at = "claiming"]) <=> Accepted(work[w])
    BY <1>0, <2>1 DEF Accepted, Job
  <2> QED BY <1>1, <2>1, <2>2, <2>3
<1>5. CASE Beat(w)
  <2>1. Sends(w, "heartbeat", "beating") /\ UNCHANGED late /\ work[w].at = "model"
    BY <1>5 DEF Beat
  <2>2. ("beating" \in Free) <=> (work[w].at \in Free)
    BY <2>1 DEF Free
  <2>3. Accepted([work[w] EXCEPT !.at = "beating"]) <=> Accepted(work[w])
    BY <1>0, <2>1 DEF Accepted, Job
  <2> QED BY <1>1, <2>1, <2>2, <2>3
<1>6. CASE Report(w)
  <2>1. Sends(w, "phase", "reporting") /\ UNCHANGED late /\ work[w].at = "report"
    BY <1>6 DEF Report
  <2>2. ("reporting" \in Free) <=> (work[w].at \in Free)
    BY <2>1 DEF Free
  <2>3. Accepted([work[w] EXCEPT !.at = "reporting"]) <=> Accepted(work[w])
    BY <1>0, <2>1 DEF Accepted, Job
  <2> QED BY <1>1, <2>1, <2>2, <2>3
<1>7. CASE TakeClaim(w)
  <2>1. PICK answer \in Replies :
          /\ Gets(w, answer)
          /\ work' = [work EXCEPT ![w] =
               IF answer = "lost" THEN Down
               ELSE IF answer = "claimed"
               THEN [Resting EXCEPT !.at = "verify", !.gen = call[w].gen] ELSE Resting]
    BY <1>7 DEF TakeClaim
  <2>2. call' = [call EXCEPT ![w] = NoCall] /\ late' \subseteq late \union {call[w]}
    BY <2>1, GetsLeaves DEF Gets
  <2>3. CASE answer = "claimed"
    <3>1. [Resting EXCEPT !.at = "verify", !.gen = call[w].gen].at = "verify"
      BY DEF Resting
    <3>2. late' = late /\ call[w].answer = "claimed" /\ call'[w] = NoCall
      BY <2>1, <2>3, GetsLeaves
    <3> QED BY <1>3, <2>1, <2>2, <2>3, <3>1, <3>2 DEF Accepted
  <2>4. CASE answer # "claimed"
    <3>1. PICK j \in {Resting, Down} : work' = [work EXCEPT ![w] = j]
      BY <2>1, <2>4
    <3> QED BY <1>0, <1>2, <2>2, <3>1 DEF Accepted, Free
  <2> QED BY <2>3, <2>4
<1>8. CASE Verify(w)
  <2>1. work[w].at = "verify" /\ call[w] = NoCall
    BY <1>0, <1>8 DEF Verify, Placed, Asks
  <2>2. CASE Sends(w, "preflight", "acknowledging") /\ UNCHANGED late
    <3>1. "acknowledging" \notin Free /\ work[w].at \notin Free
      BY <2>1 DEF Free
    <3>2. Accepted([work[w] EXCEPT !.at = "acknowledging"]) <=> Accepted(work[w])
      BY <1>0, <2>1 DEF Accepted, Job
    <3> QED BY <1>1, <2>2, <3>1, <3>2
  <2>3. CASE work' = [work EXCEPT ![w] = Resting] /\ UNCHANGED <<call, late>>
    <3>1. call' = [call EXCEPT ![w] = NoCall]
      BY <1>0, <2>1, <2>3
    <3> QED BY <1>0, <1>2, <2>3, <3>1 DEF Accepted, Free
  <2> QED BY <1>8, <2>2, <2>3 DEF Verify, Quiet
<1>9. CASE Acknowledge(w)
  <2>1. work[w].at = "acknowledging" /\ call[w].op = "preflight"
    BY <1>0, <1>9 DEF Acknowledge, Placed, Asks
  <2>2. PICK answer \in Replies :
          /\ Gets(w, answer)
          /\ work' = [work EXCEPT ![w] = IF answer = "ok" THEN [@ EXCEPT !.at = "enter"] ELSE Resting]
    BY <1>9 DEF Acknowledge
  <2>3. call' = [call EXCEPT ![w] = NoCall] /\ late' \subseteq late \union {call[w]}
    BY <2>2, GetsLeaves DEF Gets
  <2>4. CASE answer = "ok"
    <3>1. work' = [work EXCEPT ![w] = [@ EXCEPT !.at = "enter"]]
      BY <2>2, <2>4
    <3>2. call[w].answer = "ok" /\ call'[w] = NoCall
      BY <2>2, <2>4, GetsLeaves
    <3>3. Given(work[w], call[w])
      BY <2>1 DEF Free
    <3> QED BY <1>0, <1>3, <2>1, <2>3, <3>1, <3>2, <3>3
  <2>5. CASE answer # "ok"
    <3>1. work' = [work EXCEPT ![w] = Resting]
      BY <2>2, <2>5
    <3> QED BY <1>0, <1>2, <2>3, <3>1 DEF Accepted, Free
  <2> QED BY <2>4, <2>5
<1>10. CASE Enter(w)
  <2>1. work[w].at = "enter" /\ call[w] = NoCall
    BY <1>0, <1>10 DEF Enter, Placed, Asks
  <2>2. CASE Sends(w, "heartbeat", "entering") /\ UNCHANGED late
    <3>1. "entering" \notin Free /\ work[w].at \notin Free
      BY <2>1 DEF Free
    <3>2. Accepted([work[w] EXCEPT !.at = "entering"]) <=> Accepted(work[w])
      BY <1>0, <2>1 DEF Accepted, Job
    <3> QED BY <1>1, <2>2, <3>1, <3>2
  <2>3. CASE Ends(w, "workspace_failed") /\ UNCHANGED <<call, late>>
    BY <2>1, <2>3, EndsLeaves DEF Accepted
  <2> QED BY <1>10, <2>2, <2>3 DEF Enter, Quiet
<1>11. CASE Finish(w)
  <2>1. work[w].at = "model" /\ call[w] = NoCall /\ UNCHANGED <<call, late>>
    BY <1>0, <1>11 DEF Finish, Placed, Asks, Quiet
  <2>2. PICK outcome : Ends(w, outcome)
    BY <1>11 DEF Finish
  <2> QED BY <2>1, <2>2, EndsLeaves DEF Accepted
<1>12. CASE StartModel(w)
  <2>1. work[w].at = "entering" /\ call[w].op = "heartbeat"
    BY <1>0, <1>12 DEF StartModel, Placed, Asks
  <2>2. PICK answer \in Replies :
          Gets(w, answer) /\ IF answer = "ok" THEN Goes(w, "model") ELSE Ends(w, "workspace_failed")
    BY <1>12 DEF StartModel
  <2>3. PICK j : work' = [work EXCEPT ![w] = j]
    BY <2>2 DEF Goes, Ends
  <2>4. call'[w] = NoCall /\ late' \subseteq late \union {call[w]}
    BY <2>2, GetsLeaves
  <2>5. Given(work[w], call[w]) /\ Accepted(work[w])
    BY <2>1 DEF Free, Accepted
  <2> QED BY <1>3, <2>1, <2>3, <2>4, <2>5
<1>13. CASE KeepGoing(w)
  <2>1. work[w].at = "beating" /\ call[w].op = "heartbeat"
    BY <1>0, <1>13 DEF KeepGoing, Placed, Asks
  <2>2. PICK answer \in Replies :
          Gets(w, answer) /\ IF answer = "ok" THEN Goes(w, "model") ELSE Ends(w, "workspace_failed")
    BY <1>13 DEF KeepGoing
  <2>3. PICK j : work' = [work EXCEPT ![w] = j]
    BY <2>2 DEF Goes, Ends
  <2>4. call'[w] = NoCall /\ late' \subseteq late \union {call[w]}
    BY <2>2, GetsLeaves
  <2>5. Given(work[w], call[w]) /\ Accepted(work[w])
    BY <2>1 DEF Free, Accepted
  <2> QED BY <1>3, <2>1, <2>3, <2>4, <2>5
<1>14. CASE Reports(w)
  <2>1. work[w].at = "reporting" /\ call[w].op = "phase"
    BY <1>0, <1>14 DEF Reports, Placed, Asks
  <2>2. PICK answer \in Replies : Gets(w, answer) /\ \E j : work' = [work EXCEPT ![w] = j]
    BY <1>14 DEF Reports
  <2>3. call'[w] = NoCall /\ late' \subseteq late \union {call[w]}
    BY <2>2, GetsLeaves
  <2>4. Given(work[w], call[w]) /\ Accepted(work[w])
    BY <2>1 DEF Free, Accepted
  <2>5. PICK j : work' = [work EXCEPT ![w] = j]
    BY <2>2
  <2> QED BY <1>3, <2>1, <2>3, <2>4, <2>5
<1>15. CASE StartWorker(w)
  <2>1. work[w].at = "down" /\ UNCHANGED <<call, late>> /\ work' = [work EXCEPT ![w] = Resting]
    BY <1>0, <1>15 DEF StartWorker
  <2>2. call[w] = NoCall
    BY <1>0, <2>1 DEF Placed, Asks
  <2>3. call' = [call EXCEPT ![w] = NoCall]
    BY <1>0, <2>1, <2>2
  <2> QED BY <1>0, <1>2, <2>1, <2>3 DEF Accepted, Free
<1>16. CASE Crash(w)
  <2>1. /\ work' = [work EXCEPT ![w] = Down] /\ call' = [call EXCEPT ![w] = NoCall]
        /\ late' \subseteq late \union {call[w]}
    BY <1>16 DEF Crash
  <2> QED BY <1>0, <1>2, <2>1 DEF Accepted, Free
<1> QED BY <1>4, <1>5, <1>6, <1>7, <1>8, <1>9, <1>10, <1>11, <1>12, <1>13, <1>14, <1>15, <1>16 DEF WorkerStep

\* With one worker, the run of a worker that is ready is not swept from under it.
LEMMA OneWorkerStops ==
  ASSUME Alone, Sound, Unswept, Stopped, [Next]_vars PROVE Unswept' /\ Stopped'
<1>0. \A v, w \in Worker : v = w
  BY DEF Alone
<1>1. ASSUME NEW w \in Worker, Handle(w) PROVE Unswept' /\ Stopped'
  <2>1. PICK answer \in Answer :
          /\ Handles(call[w], answer)
          /\ call' = [call EXCEPT ![w].answer = answer, ![w].gen = run'.gen]
    BY <1>1 DEF Handle
  <2>2. call[w] \in Stray /\ Answers(call[w], answer)
    BY <1>1, <2>1, AskedOK, Around, HandlesAnswers
  <2>3. call[w].answer = "pending" /\ UNCHANGED <<work, late>>
    BY <1>1 DEF Handle
  <2>4. call'[w].answer = answer /\ call'[w].op = call[w].op
    BY <2>1, <2>2 DEF Sound, TypeOK, Stray, Call
  <2>5. Given(work[w], call[w])' => Given(work[w], call[w]) \/ (answer = "claimed" /\ run'.live)
    BY <2>2, <2>3, <2>4 DEF Given, Answers
  <2>6. Unswept'
    BY <1>0, <2>2, <2>3, <2>5 DEF Unswept, Answers
  <2>7. ASSUME run'.status = "cancelled" PROVE ~Ready(work[w], call[w])'
    <3>1. Ready(work[w], call[w])' => Accepted(work[w])
      BY <2>2, <2>3, <2>4, <2>7 DEF Ready, Answers
    <3>2. CASE run.status = "cancelled"
      BY <3>1, <3>2 DEF Stopped, Ready
    <3>3. CASE run.status # "cancelled"
      <4>1. call[w].op = "claim"
        BY <2>2, <2>7, <3>3 DEF Answers
      <4>2. ~Accepted(work[w])
        <5>1. Placed(work[w], call[w]) /\ call[w].op # "none"
          BY <4>1, AtWorker DEF Fits
        <5>2. work[w].at \in DOMAIN Asks /\ Asks[work[w].at] = "claim"
          BY <4>1, <5>1 DEF Placed, NoCall
        <5> QED BY <5>2 DEF Asks, Accepted
      <4> QED BY <3>1, <4>2
    <3> QED BY <3>2, <3>3
  <2> QED BY <1>0, <2>6, <2>7 DEF Stopped
<1>2. ASSUME NEW w \in Worker, WorkerStep(w) \/ StartWorker(w) \/ Crash(w)
      PROVE Unswept' /\ Stopped'
  <2>1. Leaves(w) /\ UNCHANGED run
    BY <1>2, StepLeaves DEF WorkerStep, StartWorker, Crash
  <2>2. Stopped'
    BY <1>0, <2>1 DEF Stopped, Leaves
  <2>3. Unswept'
    BY <1>0, <2>1 DEF Unswept, Leaves
  <2> QED BY <2>2, <2>3
<1>3. ASSUME NEW c \in late, HandleLate(c) PROVE Unswept' /\ Stopped'
  <2>1. PICK answer \in Answer : Handles(c, answer)
    BY <1>3 DEF HandleLate
  <2>2. c \in Stray /\ (c.op # "claim" => c.gen = 1)
    BY DEF Sound, TypeOK, LateOK
  <2>3. Answers(c, answer)
    BY <2>1, <2>2, Around, HandlesAnswers
  <2>4. UNCHANGED <<work, call>> /\ late' \subseteq late
    BY <1>3 DEF HandleLate
  <2>5. Unswept'
    BY <2>3, <2>4 DEF Unswept, Answers, Given
  <2>6. ASSUME NEW w \in Worker, run'.status = "cancelled", Ready(work[w], call[w]) PROVE FALSE
    <3>1. run.status # "cancelled"
      BY <2>6 DEF Stopped
    <3>2. c.op = "claim" /\ run.status = "running" /\ ~run.live
      BY <2>3, <2>6, <3>1 DEF Answers
    <3> QED BY <2>6, <3>2, ReadyIsGiven DEF Unswept
  <2> QED BY <2>4, <2>5, <2>6 DEF Stopped, Ready
<1>4. ASSUME Abort PROVE Unswept' /\ Stopped'
  <2>1. UNCHANGED <<work, call, late>> /\ ~Settled /\ run \in Row
    BY <1>4, Around, Rows DEF Abort, Cancellable
  <2>2. CASE run.status = "queued"
    <3>1. run' = [Finished("cancelled") EXCEPT !.cancel = TRUE]
      BY <1>4, <2>2 DEF Abort
    <3>2. run'.status = "cancelled"
      BY <2>1, <3>1 DEF Finished, Row
    <3>3. ~run.verified
      BY <2>1, <2>2, Around, Rows DEF StageOK
    <3> QED BY <2>1, <3>2, <3>3, ReadyIsGiven DEF Unswept, Stopped, Ready
  <2>3. CASE run.status # "queued"
    <3>1. run'.status = run.status /\ run'.live = run.live
      BY <1>4, <2>1, <2>3 DEF Abort, Fenced, Row
    <3> QED BY <2>1, <3>1 DEF Unswept, Stopped, Ready, Given
  <2> QED BY <2>2, <2>3
<1>5. ASSUME LeaseEnds PROVE Unswept' /\ Stopped'
  <2>1. UNCHANGED <<work, call, late>> /\ late = {} /\ run'.status = run.status
    BY <1>5, Around, Rows DEF LeaseEnds, Alone, Row
  <2> QED BY <2>1 DEF Unswept, Stopped, Ready
<1>6. ASSUME UNCHANGED <<run, work, call>>, late' \subseteq late PROVE Unswept' /\ Stopped'
  BY <1>6 DEF Unswept, Stopped, Ready, Given
<1>7. ASSUME Disturb \/ DeadlinePasses \/ (\E c \in late : Lose(c)) \/ UNCHANGED vars
      PROVE UNCHANGED <<run, work, call>> /\ late' \subseteq late
  BY <1>7 DEF Disturb, DeadlinePasses, Lose, vars
<1> QED BY <1>1, <1>2, <1>3, <1>4, <1>5, <1>6, <1>7 DEF Next

\* With one worker and requests that do not outlive a lease, a run is not
\* recorded as cancelled while its model runs.
THEOREM CancelledModelsStop == Alone => (Spec => []CancelledHasStopped)
<1>1. ASSUME Init PROVE Unswept /\ Stopped
  BY <1>1 DEF Init, Unswept, Stopped
<1>2. Unswept /\ Stopped => CancelledHasStopped
  BY DEF Stopped, CancelledHasStopped, Ready, Accepted, Inferring
<1>3. ASSUME Alone PROVE Spec => []CancelledHasStopped
  <2>1. Sound /\ Unswept /\ Stopped /\ [Next]_vars => Unswept' /\ Stopped'
    BY <1>3, OneWorkerStops
  <2> QED BY <1>1, <1>2, <2>1, SoundAlways, PTL DEF Spec
<1> QED BY <1>3

----------------------------------------------------------------------------
(* The operator's stand-alone task.                                         *)

LEMMA TaskTypeInit == TaskInit => TaskTypeOK
BY CodexTaskConstants DEF TaskInit, TaskTypeOK, Place, Over, NoModel

LEMMA TaskTypeStep == TaskTypeOK /\ [TaskNext]_taskVars => TaskTypeOK'
<1> SUFFICES ASSUME TaskTypeOK, [TaskNext]_taskVars PROVE TaskTypeOK'
  OBVIOUS
<1> USE DEF TaskTypeOK, Place, Over, Ending, OutcomeOf
<1>1. ASSUME NEW l \in Launch, Script(l) PROVE TaskTypeOK'
  <2>1. CASE Check(l) \/ Leave(l) \/ JudgeFails(l)
    BY <2>1 DEF Check, Leave, JudgeFails, Moves
  <2>2. CASE TakeLock(l)
    BY <2>2 DEF TakeLock, Moves
  <2>7. CASE AddWorktree(l)
    <3>1. PICK at \in {"refused", "output"} : Moves(l, at)
      BY <2>7 DEF AddWorktree
    <3>2. launch' \in [Launch -> [at : Place, outcome : Ending \union {"none"}]]
      BY <3>1 DEF Moves
    <3> QED
      BY <2>7, <3>2 DEF AddWorktree
  <2>3. CASE MakeOutput(l)
    BY <2>3 DEF MakeOutput, Moves, RunningSummary
  <2>4. CASE Start(l)
    <3>1. model' = [NoModel EXCEPT !.by = l, !.leader = "running", !.stray = Strays]
          \/ model' = model
      BY <2>4 DEF Start
    <3>2. model' \in [by : Launch \union {NoOne},
                      leader : {"none", "running", "killed"} \union DOMAIN OutcomeOf,
                      turn : BOOLEAN, final : BOOLEAN, stray : BOOLEAN]
      BY <3>1, CodexTaskConstants DEF NoModel
    <3> QED
      BY <2>4, <3>2 DEF Start, Moves
  <2>5. CASE Returned(l) \/ Judge(l)
    BY <2>5 DEF Returned, Judge
  <2>6. CASE WriteSummary(l)
    BY <2>6 DEF WriteSummary, Moves, Recorded
  <2>8. CASE Timeout(l)
    BY <2>8 DEF Timeout, Moves
  <2>9. CASE Terminate(l) \/ KillGroup(l) \/ StopInterrupted(l)
    <3>1. model' \in [by : Launch \union {NoOne},
                      leader : {"none", "running", "killed"} \union DOMAIN OutcomeOf,
                      turn : BOOLEAN, final : BOOLEAN, stray : BOOLEAN]
      BY <2>9 DEF Terminate, KillGroup, StopInterrupted, StopGroup, Hit
    <3>2. launch' \in [Launch -> [at : Place, outcome : Ending \union {"none"}]]
      BY <2>9 DEF Terminate, KillGroup, StopInterrupted, Moves
    <3> QED
      BY <2>9, <3>1, <3>2 DEF Terminate, KillGroup, StopInterrupted
  <2> QED
    BY <1>1, <2>1, <2>2, <2>3, <2>4, <2>5, <2>6, <2>7, <2>8, <2>9 DEF Script
<1>2. ASSUME NEW l \in Launch, Interrupt(l) \/ Kill(l) PROVE TaskTypeOK'
  BY <1>2 DEF Interrupt, Kill, Dies, Moves
<1>3. CASE Edit \/ ModelReports \/ Exit \/ StrayEnds \/ UNCHANGED taskVars
  BY <1>3 DEF Edit, ModelReports, Exit, StrayEnds, taskVars
<1> QED
  BY <1>1, <1>2, <1>3 DEF TaskNext

\* A launch that is past the worktree made it.
Waiting == {"wait", "term", "grace", "stop"}
Maker == {"output", "start", "judge", "write", "failed", "done"} \union Waiting

\* There is one such launch; before it starts its model there is none, and until
\* its last step the summary says that the task is running.
MakerOK(l) ==
  /\ launch[l].at \in Maker =>
       /\ disk.branch /\ tree # "absent" /\ \A k \in Launch : launch[k].at \in Maker => k = l
  /\ launch[l].at \in {"output", "start"} => model = NoModel
  /\ launch[l].at \in Waiting => model.by = l
  /\ launch[l].at \in {"start", "judge", "write"} \union Waiting => disk.summary = "running"

\* The outcome that is about to be recorded is what became of the model.
EndingOK(l) ==
  launch[l].at \in {"judge", "write"} =>
    /\ launch[l].outcome = "completed" => model.leader = "zero" /\ model.by = l
    /\ launch[l].at = "write" /\ launch[l].outcome = "completed" =>
         /\ model.turn /\ model.final
         /\ ~Strays /\ l \in ReadOnly => tree = "base"

\* A launch that settled on a timeout had a model, and stopped its whole group.
StopOK(l) == launch[l].outcome = "local_timeout" => ~Alive /\ model # NoModel

TaskSound ==
  /\ TaskTypeOK /\ (model.stray => Strays) /\ (~disk.branch => model = NoModel)
  /\ CompletedIsWhole /\ CompletedIsUntouched /\ (disk.summary = "local_timeout" => ~Alive)
  /\ \A l \in Launch : MakerOK(l) /\ EndingOK(l) /\ StopOK(l)

LEMMA MovesOne ==
  ASSUME TaskTypeOK, NEW l \in Launch, NEW at, Moves(l, at)
  PROVE  /\ launch'[l].at = at /\ launch'[l].outcome = launch[l].outcome
         /\ \A k \in Launch \ {l} : launch'[k] = launch[k]
BY DEF TaskTypeOK, Moves

\* Before and beside the model: only one launch gets past the branch.
LEMMA EntryKeeps ==
  ASSUME TaskSound, TaskTypeOK', NEW l \in Launch,
         Check(l) \/ TakeLock(l) \/ Leave(l) \/ JudgeFails(l)
  PROVE  TaskSound'
<1>1. PICK at \in {"refused", "lock", "add", "leave", "failed"} :
        Moves(l, at) /\ (at = "failed" => launch[l].at = "judge")
  BY DEF Check, TakeLock, Leave, JudgeFails
<1>2. /\ launch'[l].at = at /\ launch'[l].outcome = launch[l].outcome
      /\ \A k \in Launch \ {l} : launch'[k] = launch[k]
      /\ UNCHANGED <<disk, tree, model>>
  BY <1>1, MovesOne DEF TaskSound, Check, TakeLock, Leave, JudgeFails
<1> QED
  BY <1>1, <1>2
  DEF TaskSound, MakerOK, EndingOK, StopOK, Maker, Waiting, Alive, CompletedIsWhole,
      CompletedIsUntouched

LEMMA AddKeeps ==
  ASSUME TaskSound, TaskTypeOK', NEW l \in Launch, AddWorktree(l)
  PROVE  TaskSound'
<1>1. CASE disk.branch
  <2>1. /\ launch'[l].at = "refused" /\ launch'[l].outcome = launch[l].outcome
        /\ \A k \in Launch \ {l} : launch'[k] = launch[k]
        /\ UNCHANGED <<disk, tree, model>>
    BY <1>1, MovesOne DEF AddWorktree, TaskSound
  <2> QED
    BY <2>1 DEF TaskSound, MakerOK, EndingOK, StopOK, Maker, Waiting, Alive, CompletedIsWhole,
                CompletedIsUntouched
<1>2. CASE ~disk.branch
  <2>1. /\ launch'[l].at \in {"output", "refused"} /\ launch'[l].outcome = launch[l].outcome
        /\ \A k \in Launch \ {l} : launch'[k] = launch[k]
        /\ UNCHANGED model
    BY <1>2, MovesOne DEF AddWorktree, TaskSound
  <2>2. disk'.branch /\ disk'.summary = disk.summary /\ tree' = "base"
    BY <1>2 DEF AddWorktree, TaskSound, TaskTypeOK
  <2>3. \A k \in Launch : launch[k].at \notin Maker
    BY <1>2 DEF TaskSound, MakerOK
  <2> QED
    BY <1>2, <2>1, <2>2, <2>3
    DEF TaskSound, MakerOK, EndingOK, StopOK, Maker, Waiting, Alive, CompletedIsWhole,
        CompletedIsUntouched
<1> QED
  BY <1>1, <1>2

\* The launch that made the worktree goes on to start the model.
LEMMA StartKeeps ==
  ASSUME TaskSound, TaskTypeOK', NEW l \in Launch, MakeOutput(l) \/ Start(l)
  PROVE  TaskSound'
<1>0. /\ launch[l].at \in {"output", "start"} /\ MakerOK(l)
      /\ \A k \in Launch \ {l} : launch[k].at \notin Maker /\ launch'[k] = launch[k]
      /\ UNCHANGED tree
  BY DEF MakeOutput, Start, TaskSound, TaskTypeOK, MakerOK, Maker, Waiting, Moves
<1>1. CASE MakeOutput(l)
  <2>1. /\ launch'[l].at = "start" /\ launch'[l].outcome = launch[l].outcome
        /\ model' = model /\ model = NoModel
        /\ disk'.branch = disk.branch /\ disk'.summary = "running"
    BY <1>0, <1>1, MovesOne DEF MakeOutput, TaskSound, TaskTypeOK, MakerOK, RunningSummary
  <2> QED
    BY <1>0, <2>1
    DEF TaskSound, MakerOK, EndingOK, StopOK, Maker, Waiting, Alive, CompletedIsWhole,
        CompletedIsUntouched
<1>2. CASE Start(l)
  <2>1. launch[l].at = "start" /\ disk.summary = "running" /\ disk.branch /\ disk' = disk
    BY <1>0, <1>2 DEF Start, MakerOK, Maker
  <2>3. model = NoModel
    BY <2>1, <1>0 DEF MakerOK
  <2>2. \/ /\ launch'[l].at = "wait" /\ launch'[l].outcome = launch[l].outcome
           /\ model'.stray = Strays /\ model'.by = l
        \/ launch'[l].at = "judge" /\ launch'[l].outcome = "launch_failed" /\ model' = model
    <3>1. CASE Moves(l, "wait")
               /\ model' = [NoModel EXCEPT !.by = l, !.leader = "running", !.stray = Strays]
      BY <3>1, MovesOne DEF TaskSound, NoModel
    <3>2. CASE model' = model
               /\ launch' = [launch EXCEPT ![l] = [at |-> "judge", outcome |-> "launch_failed"]]
      BY <3>2 DEF TaskSound, TaskTypeOK
    <3> QED
      BY <1>2, <3>1, <3>2 DEF Start
  <2> QED
    BY <1>0, <2>1, <2>2, <2>3
    DEF TaskSound, MakerOK, EndingOK, StopOK, Maker, Waiting, CompletedIsWhole,
        CompletedIsUntouched
<1> QED
  BY <1>1, <1>2

\* It waits for the model, which ends by itself or is stopped, ...
LEMMA WaitKeeps ==
  ASSUME TaskSound, TaskTypeOK', NEW l \in Launch, Returned(l) \/ Timeout(l)
  PROVE  TaskSound'
<1>0. /\ launch[l].at = "wait" /\ disk.summary = "running" /\ disk.branch /\ model.by = l
      /\ TaskTypeOK /\ \A k \in Launch \ {l} : launch[k].at \notin Maker /\ launch'[k] = launch[k]
      /\ UNCHANGED <<disk, tree, model>>
  BY DEF Returned, Timeout, TaskSound, TaskTypeOK, MakerOK, Maker, Waiting, Moves
<1>1. CASE Returned(l)
  <2>1. launch'[l] = [at |-> "judge", outcome |-> OutcomeOf[model.leader]]
    BY <1>0, <1>1 DEF Returned, TaskTypeOK
  <2>2. /\ launch'[l].at = "judge" /\ launch'[l].outcome # "local_timeout"
        /\ launch'[l].outcome = "completed" => model.leader = "zero"
    BY <1>1, <2>1 DEF Returned, OutcomeOf
  <2> QED
    BY <1>0, <2>2
    DEF TaskSound, MakerOK, EndingOK, StopOK, Maker, Waiting, Alive, CompletedIsWhole,
        CompletedIsUntouched
<1>2. CASE Timeout(l)
  <2>1. launch'[l].at = "term" /\ launch'[l].outcome = launch[l].outcome
    BY <1>0, <1>2, MovesOne DEF Timeout
  <2> QED
    BY <1>0, <2>1
    DEF TaskSound, MakerOK, EndingOK, StopOK, Maker, Waiting, Alive, CompletedIsWhole,
        CompletedIsUntouched
<1> QED
  BY <1>1, <1>2

\* ... by SIGTERM, which its group may ignore, and SIGKILL, which it may not ...
LEMMA StopKeeps ==
  ASSUME TaskSound, TaskTypeOK', NEW l \in Launch,
         Terminate(l) \/ KillGroup(l) \/ StopInterrupted(l)
  PROVE  TaskSound'
<1>0. /\ launch[l].at \in Waiting /\ disk.summary = "running" /\ disk.branch /\ model.by = l
      /\ TaskTypeOK /\ \A k \in Launch \ {l} : launch[k].at \notin Maker /\ launch'[k] = launch[k]
      /\ UNCHANGED <<disk, tree>>
  BY DEF Terminate, KillGroup, StopInterrupted, TaskSound, TaskTypeOK, MakerOK, Maker, Waiting,
         Moves
<1>1. ASSUME NEW leader \in BOOLEAN, NEW stray \in BOOLEAN
      PROVE  /\ Hit(leader, stray).by = l
             /\ Hit(leader, stray).stray => model.stray
             /\ Hit(leader, stray).leader = "running" => model.leader = "running" /\ ~leader
             /\ stray => ~Hit(leader, stray).stray
  BY <1>0 DEF Hit, TaskTypeOK
<1>2. model'.by = l /\ model' # NoModel /\ (model'.stray => model.stray) /\ (Alive' => Alive)
  <2>1. \E leader, stray \in BOOLEAN : model' = Hit(leader, stray)
    BY DEF Terminate, KillGroup, StopInterrupted, StopGroup
  <2> QED
    BY <1>1, <2>1, CodexTaskConstants DEF Alive, NoModel
<1>3. CASE Terminate(l) \/ StopInterrupted(l)
  <2>1. /\ launch'[l].at \in {"grace", "dead"} /\ launch'[l].outcome = launch[l].outcome
    BY <1>0, <1>3, MovesOne DEF Terminate, StopInterrupted
  <2> QED
    BY <1>0, <1>2, <2>1
    DEF TaskSound, MakerOK, EndingOK, StopOK, Maker, Waiting, CompletedIsWhole,
        CompletedIsUntouched
<1>4. CASE KillGroup(l)
  <2>1. launch'[l].at = "judge" /\ launch'[l].outcome = "local_timeout"
    BY <1>0, <1>4 DEF KillGroup, TaskTypeOK
  <2>2. ~Alive'
    BY <1>1, <1>4 DEF KillGroup, StopGroup, Alive
  <2> QED
    BY <1>0, <1>2, <2>1, <2>2
    DEF TaskSound, MakerOK, EndingOK, StopOK, Maker, Waiting, CompletedIsWhole,
        CompletedIsUntouched
<1> QED
  BY <1>3, <1>4

\* ... and records what became of it.
LEMMA RecordKeeps ==
  ASSUME TaskSound, TaskTypeOK', NEW l \in Launch, Judge(l) \/ WriteSummary(l)
  PROVE  TaskSound'
<1>0. /\ launch[l].at \in {"judge", "write"} /\ disk.summary = "running" /\ disk.branch
      /\ MakerOK(l) /\ EndingOK(l) /\ StopOK(l) /\ TaskTypeOK
      /\ \A k \in Launch \ {l} : launch[k].at \notin Maker /\ launch'[k] = launch[k]
      /\ UNCHANGED <<tree, model>>
  BY DEF Judge, WriteSummary, TaskSound, TaskTypeOK, MakerOK, Maker, Moves
<1>1. CASE Judge(l)
  <2>1. /\ launch[l].at = "judge" /\ launch'[l].at = "write" /\ disk' = disk
        /\ launch'[l].outcome = "local_timeout" => launch[l].outcome = "local_timeout"
        /\ launch'[l].outcome = "completed" =>
             launch[l].outcome = "completed" /\ WholeReport(l) /\ ~ReaderWrote(l)
    BY <1>0, <1>1 DEF Judge, TaskTypeOK
  <2>2. EndingOK(l)'
    BY <1>0, <2>1
    DEF EndingOK, MakerOK, Maker, Alive, WholeReport, ReaderWrote, TaskTypeOK
  <2> QED
    BY <1>0, <2>1, <2>2
    DEF TaskSound, MakerOK, EndingOK, StopOK, Maker, Waiting, Alive, CompletedIsWhole,
        CompletedIsUntouched
<1>2. CASE WriteSummary(l)
  <2>1. /\ launch[l].at = "write" /\ launch'[l].at = "done"
        /\ launch'[l].outcome = launch[l].outcome
        /\ disk'.branch = disk.branch /\ disk'.summary = launch[l].outcome
    BY <1>0, <1>2, MovesOne DEF WriteSummary, Recorded, TaskTypeOK
  <2>2. CompletedIsWhole' /\ CompletedIsUntouched' /\ (disk'.summary = "local_timeout" => ~Alive)
    BY <1>0, <2>1 DEF CompletedIsWhole, CompletedIsUntouched, EndingOK, StopOK
  <2> QED
    BY <1>0, <2>1, <2>2 DEF TaskSound, MakerOK, EndingOK, StopOK, Maker, Waiting, Alive
<1> QED
  BY <1>1, <1>2

\* A signal ends the launch where it is, or sends it to the handler.
LEMMA SignalKeeps ==
  ASSUME TaskSound, TaskTypeOK', NEW l \in Launch, Interrupt(l) \/ Kill(l)
  PROVE  TaskSound'
<1>1. \/ Moves(l, "dead")
      \/ launch[l].at = "wait" /\ Moves(l, "stop")
  BY DEF Interrupt, Kill, Dies
<1>2. /\ launch'[l].at = "dead" \/ (launch[l].at = "wait" /\ launch'[l].at = "stop")
      /\ launch'[l].outcome = launch[l].outcome
      /\ \A k \in Launch \ {l} : launch'[k] = launch[k]
      /\ UNCHANGED <<disk, tree, model>>
  BY <1>1, MovesOne DEF Interrupt, Kill, Dies, TaskSound
<1> QED
  BY <1>2
  DEF TaskSound, MakerOK, EndingOK, StopOK, Maker, Waiting, Alive, CompletedIsWhole,
      CompletedIsUntouched

\* What the model does by itself changes nothing that was, or will be, recorded.
LEMMA ModelKeeps ==
  ASSUME TaskSound, TaskTypeOK', Edit \/ ModelReports \/ Exit \/ StrayEnds
  PROVE  TaskSound'
<1>0. launch' = launch /\ disk' = disk /\ Alive /\ model # NoModel
      /\ TaskTypeOK
  BY DEF Edit, ModelReports, Exit, StrayEnds, Alive, NoModel, TaskSound
<1>1. CASE Edit
  <2>1. model' = model /\ tree' = "changed" /\ tree = "base"
    BY <1>1 DEF Edit
  <2>2. model.leader = "zero" => Strays
    BY <1>0 DEF Alive, TaskSound
  <2> QED
    BY <1>0, <2>1, <2>2
    DEF TaskSound, MakerOK, EndingOK, StopOK, Maker, Waiting, Alive, CompletedIsWhole,
        CompletedIsUntouched
<1>2. CASE ModelReports \/ Exit
  <2>1. /\ model.leader = "running" /\ tree' = tree /\ model' # NoModel
        /\ model'.stray = model.stray /\ model'.by = model.by
    BY <1>0, <1>2 DEF ModelReports, Exit, TaskTypeOK, NoModel
  <2>2. \A l \in Launch : launch[l].at \notin {"output", "start"}
    BY <1>0 DEF TaskSound, MakerOK
  <2> QED
    BY <1>0, <2>1, <2>2
    DEF TaskSound, MakerOK, EndingOK, StopOK, Maker, Waiting, Alive, CompletedIsWhole,
        CompletedIsUntouched
<1>3. CASE StrayEnds
  <2>1. /\ tree' = tree /\ model'.leader = model.leader /\ ~model'.stray
        /\ model'.by = model.by /\ model'.turn = model.turn /\ model'.final = model.final
    BY <1>0, <1>3 DEF StrayEnds, TaskTypeOK
  <2>2. \A l \in Launch : launch[l].at \notin {"output", "start"}
    BY <1>0 DEF TaskSound, MakerOK
  <2> QED
    BY <1>0, <1>3, <2>1, <2>2
    DEF StrayEnds, TaskSound, MakerOK, EndingOK, StopOK, Maker, Waiting, Alive, CompletedIsWhole,
        CompletedIsUntouched
<1> QED
  BY <1>1, <1>2, <1>3

LEMMA TaskSoundStep == TaskSound /\ [TaskNext]_taskVars => TaskSound'
<1> SUFFICES ASSUME TaskSound, [TaskNext]_taskVars PROVE TaskSound'
  OBVIOUS
<1>0. TaskTypeOK'
  BY TaskTypeStep DEF TaskSound
<1>1. CASE \E l \in Launch : Script(l) \/ Interrupt(l) \/ Kill(l)
  BY <1>0, <1>1, EntryKeeps, AddKeeps, StartKeeps, WaitKeeps, StopKeeps, RecordKeeps,
     SignalKeeps
  DEF Script
<1>2. CASE Edit \/ ModelReports \/ Exit \/ StrayEnds
  BY <1>0, <1>2, ModelKeeps
<1>3. CASE UNCHANGED taskVars
  BY <1>0, <1>3
  DEF taskVars, TaskSound, MakerOK, EndingOK, StopOK, Alive, CompletedIsWhole,
      CompletedIsUntouched
<1> QED
  BY <1>1, <1>2, <1>3 DEF TaskNext

LEMMA TaskSoundAlways == TaskSpec => []TaskSound
<1>1. TaskInit => TaskSound
  <2> SUFFICES ASSUME TaskInit PROVE TaskSound
    OBVIOUS
  <2>1. /\ model = NoModel /\ disk.summary = "none" /\ ~model.stray
        /\ \A l \in Launch : launch[l].at = "check" /\ launch[l].outcome = "none"
    BY DEF TaskInit, NoModel
  <2> QED
    BY <2>1, TaskTypeInit
    DEF TaskSound, MakerOK, EndingOK, StopOK, Maker, Waiting, CompletedIsWhole, CompletedIsUntouched
<1> QED
  BY <1>1, TaskSoundStep, PTL DEF TaskSpec

\* The state of the stand-alone task stays well-formed.
THEOREM TaskTypeCorrect == TaskSpec => []TaskTypeOK
BY TaskTypeInit, TaskTypeStep, PTL DEF TaskSpec

\* However many launches share a task id, and wherever they are interrupted or
\* killed: run.json says "completed" only of a model that ended by itself, with a
\* completed turn and a report.
THEOREM CompletedTasksAreWhole == TaskSpec => []CompletedIsWhole
BY TaskSoundAlways, PTL DEF TaskSound

\* A read-only task recorded as completed left the worktree at its base, if its
\* model leaves no descendant behind.
THEOREM ReadersLeaveNoEdits == TaskSpec => []CompletedIsUntouched
BY TaskSoundAlways, PTL DEF TaskSound

\* From the moment a launch settles on local_timeout, and for as long as run.json says
\* so, no process of the model's group is alive, whatever ignored SIGTERM, whatever the
\* leader left behind and wherever a signal ends the script.
THEOREM TimedOutTasksStop == TaskSpec => []TimedOutHasStopped
<1>1. TaskSound => TimedOutHasStopped
  BY DEF TaskSound, StopOK, TimedOutHasStopped
<1> QED
  BY <1>1, TaskSoundAlways, PTL

=============================================================================
