------------------------ MODULE CheckpointGateProofs -------------------------
(***************************************************************************)
(* Theorems about CheckpointGate, for any workers, commands and bounds.    *)
(***************************************************************************)
EXTENDS CheckpointGate, TLAPS

----------------------------------------------------------------------------
(* The inductive invariant                                                  *)

\* Only the owner of the lease can prompt the lead: while it is in the middle of a
\* poll the lead rests.
RestOK == poll[owner].at # "rest" => ~lead.busy

\* What the owner found is still so when it acts on it.
PollOK ==
  /\ \A w \in Worker : poll[w].at \in {"rows", "recheck", "prompt"} => poll[w].prompt \in Prompt
  /\ poll[owner].at = "prompt" => sent[poll[owner].prompt] = 0
  /\ poll[owner].at = "apply" /\ faults.strays = 0 => content = 0 \/ Validated(content)

\* Nobody prompts the lead of a run that is completed.
DoneOK == run = "completed" => ~lead.busy

Sound ==
  /\ TypeOK /\ RestOK /\ PollOK /\ DoneOK /\ CompletedIsValidated /\ PromptedOnce

----------------------------------------------------------------------------
(* What the steps do                                                        *)

\* Only this worker's poll changes: it goes on, or ends.
Others(w) == poll' \in [Worker -> Poll] /\ \A v \in Worker \ {w} : poll'[v] = poll[v]
Went(w, at, source, prompt) ==
  /\ Others(w) /\ poll'[w].at = at
  /\ poll'[w].source = source /\ poll'[w].prompt = prompt
Rested(w) == Others(w) /\ poll'[w].at = "rest"
Failed(w, codes) ==
  /\ Rested(w)
  /\ \/ Owned(w) /\ run' \in codes
     \/ ~Owned(w) /\ run' = run

Places == {"rest", "digest", "ensure", "rows", "recheck", "prompt", "gate", "apply", "repair"}

LEMMA GoesWent ==
  ASSUME TypeOK, NEW w \in Worker, NEW at \in Places, NEW source \in Source,
         NEW prompt \in Prompt \union {Task}, Goes(w, at, source, prompt)
  PROVE Went(w, at, source, prompt)
<1>1. [at |-> at, source |-> source, prompt |-> prompt] \in Poll
  BY DEF Poll, Places
<1>2. PICK p \in Poll : p = [at |-> at, source |-> source, prompt |-> prompt]
  BY <1>1
<1>3. p.at = at /\ p.source = source /\ p.prompt = prompt
  BY <1>2
<1>4. poll' = [poll EXCEPT ![w] = p]
  BY <1>2 DEF Goes
<1> QED BY <1>3, <1>4 DEF TypeOK, Went, Others

LEMMA RestsRested == ASSUME TypeOK, NEW w \in Worker, Rests(w) PROVE Rested(w)
<1>1. 0 \in Source
  BY GateConstants DEF Source
<1>2. PICK p \in Poll : p = Resting
  BY <1>1 DEF Resting, Poll
<1>3. p.at = "rest"
  BY <1>2 DEF Resting
<1> QED BY <1>2, <1>3 DEF TypeOK, Rests, Rested, Others

LEMMA FailsFailed ==
  ASSUME TypeOK, NEW w \in Worker, NEW code \in Code \union {"completed"}, Fails(w, code)
  PROVE Failed(w, {code})
BY RestsRested DEF Fails, Failed

\* The messages of the gate are prompts.
LEMMA Prompts ==
  /\ \A d \in Digest : Evidence(d) \in Prompt
  /\ \A s \in Source : Required(s) \in Prompt
  /\ \A s \in Source, c \in Commands : Format(s, c) \in Prompt
BY DEF Prompt

LEMMA ReplyTypes ==
  ASSUME TypeOK PROVE lead.reply.commands \in Commands /\ lead.reply.id \in Message
BY DEF TypeOK, Lead, Reply

Stays == UNCHANGED <<owner, lead, sent, jobs, world>>

ObserveDoes(w) ==
  /\ Owned(w) /\ ~lead.busy /\ Stays
  /\ \/ Failed(w, Code)
     \/ /\ \E at \in {"digest", "repair", "gate"} : Went(w, at, 0, Task)
        /\ UNCHANGED run
LEMMA ObserveEffect == ASSUME TypeOK, NEW w \in Worker, Observe(w) PROVE ObserveDoes(w)
<1> DEFINE kind == lead.reply.kind
<1>1. Owned(w) /\ ~lead.busy /\ Stays
  BY DEF Observe, Stays
<1>2. kind \in {"final", "checkpoint", "wrapped", "malformed"}
  BY DEF Observe, TypeOK, Lead, Reply, Kind
<1>3. CASE kind = "malformed"
  <2>1. Failed(w, {"checkpoint_rejected"})
    BY <1>3, FailsFailed DEF Observe, Code
  <2> QED BY <1>1, <2>1 DEF ObserveDoes, Failed, Code
<1>4. CASE kind # "malformed"
  <2>1. 0 \in Source
    BY GateConstants DEF Source
  <2>2. PICK at \in {"digest", "repair", "gate"} : Goes(w, at, 0, Task) /\ UNCHANGED run
    BY <1>2, <1>4 DEF Observe
  <2>3. Went(w, at, 0, Task)
    BY <2>1, <2>2, GoesWent DEF Places
  <2> QED BY <1>1, <2>2, <2>3 DEF ObserveDoes
<1> QED BY <1>3, <1>4

TakeDigestDoes(w) ==
  /\ poll[w].at = "digest" /\ Stays
  /\ \/ Failed(w, Code)
     \/ Went(w, "ensure", content, Task) /\ UNCHANGED run
LEMMA TakeDigestEffect ==
  ASSUME TypeOK, NEW w \in Worker, TakeDigest(w) PROVE TakeDigestDoes(w)
<1>1. poll[w].at = "digest" /\ Stays /\ content \in Source
  BY DEF TakeDigest, Stays, TypeOK
<1>2. CASE intact
  BY <1>1, <1>2, GoesWent DEF TakeDigest, TakeDigestDoes, Places
<1>3. CASE ~intact
  <2>1. Failed(w, {"checkpoint_rejected"})
    BY <1>3, FailsFailed DEF TakeDigest, Code
  <2> QED BY <1>1, <2>1 DEF TakeDigestDoes, Failed, Code
<1> QED BY <1>2, <1>3

EnsureDoes(w) ==
  /\ poll[w].at = "ensure" /\ UNCHANGED <<owner, lead, sent, world>>
  /\ \/ Failed(w, Code) /\ UNCHANGED jobs
     \/ /\ \E p \in Prompt : Went(w, "rows", poll[w].source, p)
        /\ \E d \in Digest : jobs' = [jobs EXCEPT ![d] = IF @ = "none" THEN "pending" ELSE @]
        /\ UNCHANGED run
LEMMA EnsureEffect == ASSUME TypeOK, NEW w \in Worker, Ensure(w) PROVE EnsureDoes(w)
<1> DEFINE d == DigestOf(w)
<1>1. poll[w].at = "ensure" /\ UNCHANGED <<owner, lead, sent, world>>
  BY DEF Ensure
<1>2. poll[w].source \in Source
  BY DEF TypeOK, Poll
<1>3. d \in Digest /\ d.source = poll[w].source
  BY <1>2, ReplyTypes DEF DigestOf, Digest
<1>4. CASE ~Owned(w) \/ ~trusted \/ CycleLimit(d)
  <2>1. Failed(w, {"checkpoint_rejected"}) /\ UNCHANGED jobs
    BY <1>4, FailsFailed DEF Ensure, Code
  <2> QED BY <1>1, <2>1 DEF EnsureDoes, Failed, Code
<1>5. CASE ~(~Owned(w) \/ ~trusted \/ CycleLimit(d))
  <2>1. /\ jobs' = [jobs EXCEPT ![d] = IF @ = "none" THEN "pending" ELSE @]
        /\ Goes(w, "rows", d.source, Evidence(d)) /\ UNCHANGED run
    BY <1>5 DEF Ensure
  <2>2. Evidence(d) \in Prompt
    BY <1>3, Prompts
  <2>3. Went(w, "rows", poll[w].source, Evidence(d))
    BY <1>2, <1>3, <2>1, <2>2, GoesWent DEF Places
  <2> HIDE DEF d
  <2> QED BY <1>1, <1>3, <2>1, <2>2, <2>3 DEF EnsureDoes
<1> QED BY <1>4, <1>5

ReadRowsDoes(w) ==
  /\ poll[w].at = "rows" /\ UNCHANGED run /\ Stays
  /\ Rested(w) \/ Went(w, "recheck", poll[w].source, poll[w].prompt)
LEMMA ReadRowsEffect == ASSUME TypeOK, NEW w \in Worker, ReadRows(w) PROVE ReadRowsDoes(w)
<1>1. poll[w].source \in Source /\ poll[w].prompt \in Prompt \union {Task}
  BY DEF TypeOK, Poll
<1> QED BY <1>1, GoesWent, RestsRested DEF ReadRows, ReadRowsDoes, Stays, Places

RecheckDoes(w) ==
  /\ poll[w].at = "recheck" /\ Stays
  /\ \/ Failed(w, Code)
     \/ Rested(w) /\ UNCHANGED run
     \/ /\ ~There(poll[w].prompt) /\ Went(w, "prompt", poll[w].source, poll[w].prompt)
        /\ UNCHANGED run
LEMMA RecheckEffect == ASSUME TypeOK, NEW w \in Worker, Recheck(w) PROVE RecheckDoes(w)
<1>1. /\ poll[w].at = "recheck" /\ Stays
      /\ poll[w].source \in Source /\ poll[w].prompt \in Prompt \union {Task}
  BY DEF Recheck, Stays, TypeOK, Poll
<1>2. ASSUME NEW code \in Code, Fails(w, code) PROVE RecheckDoes(w)
  <2>1. Failed(w, {code})
    BY <1>2, FailsFailed
  <2> QED BY <1>1, <2>1 DEF RecheckDoes, Failed
<1>3. CASE ~intact \/ content # poll[w].source
  BY <1>2, <1>3 DEF Recheck, Code
<1>4. CASE intact /\ content = poll[w].source
  BY <1>1, <1>4, GoesWent, RestsRested DEF Recheck, RecheckDoes, Places
<1> QED BY <1>3, <1>4

SendPromptDoes(w) ==
  /\ poll[w].at = "prompt" /\ Rested(w) /\ UNCHANGED <<owner, jobs, world>>
  /\ \/ Owned(w) /\ Accepts(poll[w].prompt) /\ UNCHANGED run
     \/ Failed(w, Code) /\ UNCHANGED <<sent, lead>>
LEMMA SendPromptEffect ==
  ASSUME TypeOK, NEW w \in Worker, SendPrompt(w) PROVE SendPromptDoes(w)
<1>1. poll[w].at = "prompt" /\ UNCHANGED <<owner, jobs, world>>
  BY DEF SendPrompt
<1>2. CASE Owned(w) /\ trusted
  BY <1>1, <1>2, RestsRested DEF SendPrompt, SendPromptDoes
<1>3. CASE ~(Owned(w) /\ trusted)
  <2>1. Failed(w, {"trust_rejected"}) /\ UNCHANGED <<sent, lead>>
    BY <1>3, FailsFailed DEF SendPrompt, Code
  <2> QED BY <1>1, <2>1 DEF SendPromptDoes, Failed, Code
<1> QED BY <1>2, <1>3

GateDoes(w) ==
  /\ poll[w].at = "gate" /\ Stays
  /\ \/ Failed(w, Code)
     \/ Rested(w) /\ UNCHANGED run
     \/ /\ content = 0 \/ Validated(content)
        /\ Went(w, "apply", content, Task) /\ UNCHANGED run
     \/ /\ \E p \in Prompt : ~There(p) /\ Went(w, "prompt", content, p)
        /\ UNCHANGED run
LEMMA GateEffect == ASSUME TypeOK, NEW w \in Worker, Gate(w) PROVE GateDoes(w)
<1>1. poll[w].at = "gate" /\ Stays /\ content \in Source /\ Required(content) \in Prompt
  BY Prompts DEF Gate, Stays, TypeOK
<1>2. ASSUME NEW code \in Code, Fails(w, code) PROVE GateDoes(w)
  <2>1. Failed(w, {code})
    BY <1>2, FailsFailed
  <2> QED BY <1>1, <2>1 DEF GateDoes, Failed
<1>3. CASE ~intact
  BY <1>2, <1>3 DEF Gate, Code
<1>4. CASE intact /\ (content = 0 \/ Validated(content))
  BY <1>1, <1>4, GoesWent DEF Gate, GateDoes, Places
<1>5. CASE intact /\ ~(content = 0 \/ Validated(content)) /\ ~There(Required(content))
  <2>1. PICK p \in Prompt : p = Required(content)
    BY <1>1
  <2>2. Goes(w, "prompt", content, p) /\ ~There(p) /\ UNCHANGED run
    BY <1>5, <2>1 DEF Gate
  <2>3. Went(w, "prompt", content, p)
    BY <1>1, <2>2, GoesWent DEF Places
  <2> QED BY <1>1, <2>2, <2>3 DEF GateDoes
<1>6. CASE intact /\ ~(content = 0 \/ Validated(content)) /\ There(Required(content))
  BY <1>1, <1>2, <1>6, RestsRested DEF Gate, GateDoes, Code
<1> QED BY <1>3, <1>4, <1>5, <1>6

ApplyDoes(w) == poll[w].at = "apply" /\ Stays /\ Failed(w, {"completed"})
LEMMA ApplyEffect == ASSUME TypeOK, NEW w \in Worker, Apply(w) PROVE ApplyDoes(w)
BY FailsFailed DEF Apply, ApplyDoes, Stays

RepairDoes(w) ==
  /\ poll[w].at = "repair" /\ Stays
  /\ \/ Failed(w, Code)
     \/ /\ \E p \in Prompt : ~There(p) /\ Went(w, "prompt", content, p)
        /\ UNCHANGED run
LEMMA RepairEffect == ASSUME TypeOK, NEW w \in Worker, Repair(w) PROVE RepairDoes(w)
<1> DEFINE p == Format(content, lead.reply.commands)
<1>1. poll[w].at = "repair" /\ Stays /\ content \in Source /\ p \in Prompt
  BY Prompts, ReplyTypes DEF Repair, Stays, TypeOK
<1>2. ASSUME NEW code \in Code, Fails(w, code) PROVE RepairDoes(w)
  <2>1. Failed(w, {code})
    BY <1>2, FailsFailed
  <2> QED BY <1>1, <2>1 DEF RepairDoes, Failed
<1>3. CASE intact /\ ~There(p)
  <2>1. Goes(w, "prompt", content, p) /\ UNCHANGED run
    BY <1>3 DEF Repair
  <2> HIDE DEF p
  <2>2. Went(w, "prompt", content, p)
    BY <1>1, <2>1, GoesWent DEF Places
  <2> QED BY <1>1, <1>3, <2>1, <2>2 DEF RepairDoes
<1>4. CASE ~(intact /\ ~There(p))
  BY <1>2, <1>4 DEF Repair, Code
<1> QED BY <1>3, <1>4

Faults == [takeovers : 0..MaxTakeovers, hiccups : 0..MaxHiccups, strays : 0..MaxStrays]

PromptFailsDoes(w) ==
  /\ poll[w].at = "prompt" /\ Rested(w)
  /\ faults' \in Faults /\ faults'.strays = faults.strays
  /\ UNCHANGED <<run, owner, lead, sent, jobs, content, intact, trusted>>
LEMMA PromptFailsEffect ==
  ASSUME TypeOK, NEW w \in Worker, PromptFails(w) PROVE PromptFailsDoes(w)
<1>1. faults.hiccups + 1 \in 0..MaxHiccups
  BY GateConstants DEF TypeOK, PromptFails
<1> QED BY <1>1, RestsRested DEF TypeOK, Faults, PromptFails, PromptFailsDoes

TakeOverDoes(w) ==
  /\ run = "running" /\ owner' = w /\ Rested(w)
  /\ faults' \in Faults /\ faults'.strays = faults.strays
  /\ UNCHANGED <<run, lead, sent, jobs, content, intact, trusted>>
LEMMA TakeOverEffect == ASSUME TypeOK, NEW w \in Worker, TakeOver(w) PROVE TakeOverDoes(w)
<1>1. faults.takeovers + 1 \in 0..MaxTakeovers
  BY GateConstants DEF TypeOK, TakeOver
<1> QED BY <1>1, RestsRested DEF TypeOK, Faults, TakeOver, TakeOverDoes

EditDoes ==
  /\ content' \in Source /\ faults' \in Faults
  /\ ~lead.busy => faults'.strays > 0
  /\ faults'.strays >= faults.strays
  /\ UNCHANGED <<run, owner, poll, lead, sent, jobs, intact, trusted>>
LEMMA EditEffect == ASSUME TypeOK, Edit PROVE EditDoes
<1>1. faults \in Faults /\ MaxStrays \in Nat
  BY GateConstants DEF TypeOK, Faults
<1>2. CASE lead.busy
  BY <1>1, <1>2 DEF Edit, EditDoes, Faults
<1>3. CASE ~lead.busy
  <2>1. faults.strays + 1 \in 0..MaxStrays /\ faults.strays + 1 > 0
    BY <1>1, <1>3 DEF Edit, Faults
  <2>2. faults' \in Faults /\ faults'.strays = faults.strays + 1
    BY <1>1, <1>3, <2>1 DEF Edit, Faults
  <2> QED BY <1>1, <1>3, <2>1, <2>2 DEF Edit, EditDoes, Faults
<1> QED BY <1>2, <1>3

AnswerDoes ==
  /\ lead' \in Lead /\ ~lead'.busy /\ lead'.parent = lead.parent
  /\ UNCHANGED <<run, owner, poll, sent, jobs, world>>
LEMMA AnswerEffect == ASSUME TypeOK, Answer PROVE AnswerDoes
<1>1. PICK kind \in Kind \ {"none"}, c \in Commands :
        lead' = [lead EXCEPT !.busy = FALSE,
                             !.reply = [id |-> @.id + 1, kind |-> kind, commands |-> c]]
  BY DEF Answer
<1>2. lead.reply.id + 1 \in Message /\ lead \in Lead
  BY GateConstants DEF Answer, TypeOK, Lead, Reply, Message
<1>3. [id |-> lead.reply.id + 1, kind |-> kind, commands |-> c] \in Reply
  BY <1>2 DEF Reply
<1>4. PICK r \in Reply : r = [id |-> lead.reply.id + 1, kind |-> kind, commands |-> c]
  BY <1>3
<1>5. lead' = [lead EXCEPT !.busy = FALSE, !.reply = r]
  BY <1>1, <1>2, <1>4
<1> QED BY <1>2, <1>5 DEF Answer, AnswerDoes, Lead

----------------------------------------------------------------------------
(* The invariant is inductive                                               *)

\* Every step keeps the types.
LEMMA TypeStep ==
  ASSUME Sound, [Next]_vars PROVE TypeOK'
<1>1. ASSUME NEW w \in Worker, Observe(w) PROVE TypeOK'
  <2>1. ObserveDoes(w)
    BY <1>1, ObserveEffect DEF Sound
  <2> QED
    BY <2>1 DEF ObserveDoes, Others, Went, Rested, Failed, Stays, world,
       Faults, Sound, TypeOK, Code
<1>2. ASSUME NEW w \in Worker, TakeDigest(w) PROVE TypeOK'
  <2>1. TakeDigestDoes(w)
    BY <1>2, TakeDigestEffect DEF Sound
  <2> QED
    BY <2>1 DEF TakeDigestDoes, Others, Went, Rested, Failed, Stays, world,
       Faults, Sound, TypeOK, Code
<1>3. ASSUME NEW w \in Worker, Ensure(w) PROVE TypeOK'
  <2>1. EnsureDoes(w)
    BY <1>3, EnsureEffect DEF Sound
  <2> QED
    BY <2>1 DEF EnsureDoes, Others, Went, Rested, Failed, Stays, world,
       Faults, Sound, TypeOK, Code
<1>4. ASSUME NEW w \in Worker, ReadRows(w) PROVE TypeOK'
  <2>1. ReadRowsDoes(w)
    BY <1>4, ReadRowsEffect DEF Sound
  <2> QED
    BY <2>1 DEF ReadRowsDoes, Others, Went, Rested, Failed, Stays, world,
       Faults, Sound, TypeOK, Code
<1>5. ASSUME NEW w \in Worker, Recheck(w) PROVE TypeOK'
  <2>1. RecheckDoes(w)
    BY <1>5, RecheckEffect DEF Sound
  <2> QED
    BY <2>1 DEF RecheckDoes, Others, Went, Rested, Failed, Stays, world,
       Faults, Sound, TypeOK, Code
<1>6. ASSUME NEW w \in Worker, SendPrompt(w) PROVE TypeOK'
  <2>1. SendPromptDoes(w)
    BY <1>6, SendPromptEffect DEF Sound
  <2>2. poll[w].prompt \in Prompt
    BY <2>1 DEF SendPromptDoes, Sound, PollOK
  <2>3. ASSUME Accepts(poll[w].prompt) PROVE sent' \in [Prompt -> 0..2] /\ lead' \in Lead
    <3>1. \A n \in 0..2 : (IF n < 2 THEN n + 1 ELSE n) \in 0..2
      OBVIOUS
    <3> QED
      BY <2>2, <2>3, <3>1 DEF Accepts, Sound, TypeOK, Lead
  <2> QED
    BY <2>1, <2>3 DEF SendPromptDoes, Rested, Failed, Others, world, Sound, TypeOK, Code
<1>7. ASSUME NEW w \in Worker, PromptFails(w) PROVE TypeOK'
  <2>1. PromptFailsDoes(w)
    BY <1>7, PromptFailsEffect DEF Sound
  <2> QED
    BY <2>1 DEF PromptFailsDoes, Others, Went, Rested, Failed, Stays, world,
       Faults, Sound, TypeOK, Code
<1>8. ASSUME NEW w \in Worker, Gate(w) PROVE TypeOK'
  <2>1. GateDoes(w)
    BY <1>8, GateEffect DEF Sound
  <2> QED
    BY <2>1 DEF GateDoes, Others, Went, Rested, Failed, Stays, world,
       Faults, Sound, TypeOK, Code
<1>9. ASSUME NEW w \in Worker, Apply(w) PROVE TypeOK'
  <2>1. ApplyDoes(w)
    BY <1>9, ApplyEffect DEF Sound
  <2> QED
    BY <2>1 DEF ApplyDoes, Others, Went, Rested, Failed, Stays, world,
       Faults, Sound, TypeOK, Code
<1>10. ASSUME NEW w \in Worker, Repair(w) PROVE TypeOK'
  <2>1. RepairDoes(w)
    BY <1>10, RepairEffect DEF Sound
  <2> QED
    BY <2>1 DEF RepairDoes, Others, Went, Rested, Failed, Stays, world,
       Faults, Sound, TypeOK, Code
<1>11. ASSUME NEW w \in Worker, TakeOver(w) PROVE TypeOK'
  <2>1. TakeOverDoes(w)
    BY <1>11, TakeOverEffect DEF Sound
  <2> QED
    BY <2>1 DEF TakeOverDoes, Others, Went, Rested, Failed, Stays, world,
       Faults, Sound, TypeOK, Code
<1>12. ASSUME NEW d \in Digest, JobsEnd(d) PROVE TypeOK'
  BY <1>12 DEF JobsEnd, world, Sound, TypeOK, Code
<1>13. ASSUME Edit PROVE TypeOK'
  <2>1. EditDoes
    BY <1>13, EditEffect DEF Sound
  <2> QED
    BY <2>1 DEF EditDoes, Others, Went, Rested, Failed, Stays, world,
       Faults, Sound, TypeOK, Code
<1>14. ASSUME Answer PROVE TypeOK'
  <2>1. AnswerDoes
    BY <1>14, AnswerEffect DEF Sound
  <2> QED
    BY <2>1 DEF AnswerDoes, Others, Went, Rested, Failed, Stays, world,
       Faults, Sound, TypeOK, Code
<1>15. ASSUME Disturb PROVE TypeOK'
  BY <1>15 DEF Disturb, world, Sound, TypeOK, Code
<1>16. ASSUME UNCHANGED vars PROVE TypeOK'
  BY <1>16 DEF vars, world, Sound, TypeOK, Code
<1> QED
  BY <1>1, <1>2, <1>3, <1>4, <1>5, <1>6, <1>7, <1>8, <1>9, <1>10, <1>11,
     <1>12, <1>13, <1>14, <1>15, <1>16 DEF Next, PollStep

\* The lead rests while the owner is in the middle of a poll.
LEMMA RestStep ==
  ASSUME Sound, [Next]_vars PROVE RestOK'
<1>1. ASSUME NEW w \in Worker, Observe(w) PROVE RestOK'
  <2>1. ObserveDoes(w)
    BY <1>1, ObserveEffect DEF Sound
  <2> QED
    BY <2>1 DEF ObserveDoes, Others, Went, Rested, Failed, Stays, world,
       Faults, Sound, TypeOK, RestOK, Owned, Accepts
<1>2. ASSUME NEW w \in Worker, TakeDigest(w) PROVE RestOK'
  <2>1. TakeDigestDoes(w)
    BY <1>2, TakeDigestEffect DEF Sound
  <2> QED
    BY <2>1 DEF TakeDigestDoes, Others, Went, Rested, Failed, Stays, world,
       Faults, Sound, TypeOK, RestOK, Owned, Accepts
<1>3. ASSUME NEW w \in Worker, Ensure(w) PROVE RestOK'
  <2>1. EnsureDoes(w)
    BY <1>3, EnsureEffect DEF Sound
  <2> QED
    BY <2>1 DEF EnsureDoes, Others, Went, Rested, Failed, Stays, world,
       Faults, Sound, TypeOK, RestOK, Owned, Accepts
<1>4. ASSUME NEW w \in Worker, ReadRows(w) PROVE RestOK'
  <2>1. ReadRowsDoes(w)
    BY <1>4, ReadRowsEffect DEF Sound
  <2> QED
    BY <2>1 DEF ReadRowsDoes, Others, Went, Rested, Failed, Stays, world,
       Faults, Sound, TypeOK, RestOK, Owned, Accepts
<1>5. ASSUME NEW w \in Worker, Recheck(w) PROVE RestOK'
  <2>1. RecheckDoes(w)
    BY <1>5, RecheckEffect DEF Sound
  <2> QED
    BY <2>1 DEF RecheckDoes, Others, Went, Rested, Failed, Stays, world,
       Faults, Sound, TypeOK, RestOK, Owned, Accepts
<1>6. ASSUME NEW w \in Worker, SendPrompt(w) PROVE RestOK'
  <2>1. SendPromptDoes(w)
    BY <1>6, SendPromptEffect DEF Sound
  <2> QED
    BY <2>1 DEF SendPromptDoes, Others, Went, Rested, Failed, Stays, world,
       Faults, Sound, TypeOK, RestOK, Owned, Accepts
<1>7. ASSUME NEW w \in Worker, PromptFails(w) PROVE RestOK'
  <2>1. PromptFailsDoes(w)
    BY <1>7, PromptFailsEffect DEF Sound
  <2> QED
    BY <2>1 DEF PromptFailsDoes, Others, Went, Rested, Failed, Stays, world,
       Faults, Sound, TypeOK, RestOK, Owned, Accepts
<1>8. ASSUME NEW w \in Worker, Gate(w) PROVE RestOK'
  <2>1. GateDoes(w)
    BY <1>8, GateEffect DEF Sound
  <2> QED
    BY <2>1 DEF GateDoes, Others, Went, Rested, Failed, Stays, world,
       Faults, Sound, TypeOK, RestOK, Owned, Accepts
<1>9. ASSUME NEW w \in Worker, Apply(w) PROVE RestOK'
  <2>1. ApplyDoes(w)
    BY <1>9, ApplyEffect DEF Sound
  <2> QED
    BY <2>1 DEF ApplyDoes, Others, Went, Rested, Failed, Stays, world,
       Faults, Sound, TypeOK, RestOK, Owned, Accepts
<1>10. ASSUME NEW w \in Worker, Repair(w) PROVE RestOK'
  <2>1. RepairDoes(w)
    BY <1>10, RepairEffect DEF Sound
  <2> QED
    BY <2>1 DEF RepairDoes, Others, Went, Rested, Failed, Stays, world,
       Faults, Sound, TypeOK, RestOK, Owned, Accepts
<1>11. ASSUME NEW w \in Worker, TakeOver(w) PROVE RestOK'
  <2>1. TakeOverDoes(w)
    BY <1>11, TakeOverEffect DEF Sound
  <2> QED
    BY <2>1 DEF TakeOverDoes, Others, Went, Rested, Failed, Stays, world,
       Faults, Sound, TypeOK, RestOK, Owned, Accepts
<1>12. ASSUME NEW d \in Digest, JobsEnd(d) PROVE RestOK'
  BY <1>12 DEF JobsEnd, world, Sound, TypeOK, RestOK, Owned, Accepts
<1>13. ASSUME Edit PROVE RestOK'
  <2>1. EditDoes
    BY <1>13, EditEffect DEF Sound
  <2> QED
    BY <2>1 DEF EditDoes, Others, Went, Rested, Failed, Stays, world,
       Faults, Sound, TypeOK, RestOK, Owned, Accepts
<1>14. ASSUME Answer PROVE RestOK'
  <2>1. AnswerDoes
    BY <1>14, AnswerEffect DEF Sound
  <2> QED
    BY <2>1 DEF AnswerDoes, Others, Went, Rested, Failed, Stays, world,
       Faults, Sound, TypeOK, RestOK, Owned, Accepts
<1>15. ASSUME Disturb PROVE RestOK'
  BY <1>15 DEF Disturb, world, Sound, TypeOK, RestOK, Owned, Accepts
<1>16. ASSUME UNCHANGED vars PROVE RestOK'
  BY <1>16 DEF vars, world, Sound, TypeOK, RestOK, Owned, Accepts
<1> QED
  BY <1>1, <1>2, <1>3, <1>4, <1>5, <1>6, <1>7, <1>8, <1>9, <1>10, <1>11,
     <1>12, <1>13, <1>14, <1>15, <1>16 DEF Next, PollStep

\* What the owner found stays so until it acts.
LEMMA FoundStep ==
  ASSUME Sound, [Next]_vars PROVE PollOK'
<1>1. ASSUME NEW w \in Worker, Observe(w) PROVE PollOK'
  <2>1. ObserveDoes(w)
    BY <1>1, ObserveEffect DEF Sound
  <2> QED
    BY <2>1 DEF ObserveDoes, Others, Went, Rested, Failed, Stays, world,
       Faults, Sound, TypeOK, RestOK, PollOK, Owned, Accepts, There, Validated
<1>2. ASSUME NEW w \in Worker, TakeDigest(w) PROVE PollOK'
  <2>1. TakeDigestDoes(w)
    BY <1>2, TakeDigestEffect DEF Sound
  <2> QED
    BY <2>1 DEF TakeDigestDoes, Others, Went, Rested, Failed, Stays, world,
       Faults, Sound, TypeOK, RestOK, PollOK, Owned, Accepts, There, Validated
<1>3. ASSUME NEW w \in Worker, Ensure(w) PROVE PollOK'
  <2>1. EnsureDoes(w)
    BY <1>3, EnsureEffect DEF Sound
  <2> QED
    BY <2>1 DEF EnsureDoes, Others, Went, Rested, Failed, Stays, world,
       Faults, Sound, TypeOK, RestOK, PollOK, Owned, Accepts, There, Validated
<1>4. ASSUME NEW w \in Worker, ReadRows(w) PROVE PollOK'
  <2>1. ReadRowsDoes(w)
    BY <1>4, ReadRowsEffect DEF Sound
  <2> QED
    BY <2>1 DEF ReadRowsDoes, Others, Went, Rested, Failed, Stays, world,
       Faults, Sound, TypeOK, RestOK, PollOK, Owned, Accepts, There, Validated
<1>5. ASSUME NEW w \in Worker, Recheck(w) PROVE PollOK'
  <2>1. RecheckDoes(w)
    BY <1>5, RecheckEffect DEF Sound
  <2> QED
    BY <2>1 DEF RecheckDoes, Others, Went, Rested, Failed, Stays, world,
       Faults, Sound, TypeOK, RestOK, PollOK, Owned, Accepts, There, Validated
<1>6. ASSUME NEW w \in Worker, SendPrompt(w) PROVE PollOK'
  <2>1. SendPromptDoes(w)
    BY <1>6, SendPromptEffect DEF Sound
  <2> QED
    BY <2>1 DEF SendPromptDoes, Others, Went, Rested, Failed, Stays, world,
       Faults, Sound, TypeOK, RestOK, PollOK, Owned, Accepts, There, Validated
<1>7. ASSUME NEW w \in Worker, PromptFails(w) PROVE PollOK'
  <2>1. PromptFailsDoes(w)
    BY <1>7, PromptFailsEffect DEF Sound
  <2> QED
    BY <2>1 DEF PromptFailsDoes, Others, Went, Rested, Failed, Stays, world,
       Faults, Sound, TypeOK, RestOK, PollOK, Owned, Accepts, There, Validated
<1>8. ASSUME NEW w \in Worker, Gate(w) PROVE PollOK'
  <2>1. GateDoes(w)
    BY <1>8, GateEffect DEF Sound
  <2> QED
    BY <2>1 DEF GateDoes, Others, Went, Rested, Failed, Stays, world,
       Faults, Sound, TypeOK, RestOK, PollOK, Owned, Accepts, There, Validated
<1>9. ASSUME NEW w \in Worker, Apply(w) PROVE PollOK'
  <2>1. ApplyDoes(w)
    BY <1>9, ApplyEffect DEF Sound
  <2> QED
    BY <2>1 DEF ApplyDoes, Others, Went, Rested, Failed, Stays, world,
       Faults, Sound, TypeOK, RestOK, PollOK, Owned, Accepts, There, Validated
<1>10. ASSUME NEW w \in Worker, Repair(w) PROVE PollOK'
  <2>1. RepairDoes(w)
    BY <1>10, RepairEffect DEF Sound
  <2> QED
    BY <2>1 DEF RepairDoes, Others, Went, Rested, Failed, Stays, world,
       Faults, Sound, TypeOK, RestOK, PollOK, Owned, Accepts, There, Validated
<1>11. ASSUME NEW w \in Worker, TakeOver(w) PROVE PollOK'
  <2>1. TakeOverDoes(w)
    BY <1>11, TakeOverEffect DEF Sound
  <2> QED
    BY <2>1 DEF TakeOverDoes, Others, Went, Rested, Failed, Stays, world,
       Faults, Sound, TypeOK, RestOK, PollOK, Owned, Accepts, There, Validated
<1>12. ASSUME NEW d \in Digest, JobsEnd(d) PROVE PollOK'
  BY <1>12 DEF JobsEnd, world, Sound, TypeOK, RestOK, PollOK, Owned,
     Accepts, There, Validated
<1>13. ASSUME Edit PROVE PollOK'
  <2>1. EditDoes
    BY <1>13, EditEffect DEF Sound
  <2> QED
    BY <2>1 DEF EditDoes, Others, Went, Rested, Failed, Stays, world,
       Faults, Sound, TypeOK, RestOK, PollOK, Owned, Accepts, There, Validated
<1>14. ASSUME Answer PROVE PollOK'
  <2>1. AnswerDoes
    BY <1>14, AnswerEffect DEF Sound
  <2> QED
    BY <2>1 DEF AnswerDoes, Others, Went, Rested, Failed, Stays, world,
       Faults, Sound, TypeOK, RestOK, PollOK, Owned, Accepts, There, Validated
<1>15. ASSUME Disturb PROVE PollOK'
  BY <1>15 DEF Disturb, world, Sound, TypeOK, RestOK, PollOK, Owned,
     Accepts, There, Validated
<1>16. ASSUME UNCHANGED vars PROVE PollOK'
  BY <1>16 DEF vars, world, Sound, TypeOK, RestOK, PollOK, Owned, Accepts,
     There, Validated
<1> QED
  BY <1>1, <1>2, <1>3, <1>4, <1>5, <1>6, <1>7, <1>8, <1>9, <1>10, <1>11,
     <1>12, <1>13, <1>14, <1>15, <1>16 DEF Next, PollStep

\* Nobody prompts the lead of a completed run, and its sources stay validated.
LEMMA DoneStep ==
  ASSUME Sound, [Next]_vars PROVE DoneOK' /\ CompletedIsValidated'
<1>1. ASSUME NEW w \in Worker, Observe(w) PROVE DoneOK' /\ CompletedIsValidated'
  <2>1. ObserveDoes(w)
    BY <1>1, ObserveEffect DEF Sound
  <2> QED
    BY <2>1 DEF ObserveDoes, Others, Went, Rested, Failed, Stays, world,
       Faults, Sound, TypeOK, RestOK, PollOK, DoneOK, CompletedIsValidated,
       Owned, Accepts, Validated, Code
<1>2. ASSUME NEW w \in Worker, TakeDigest(w) PROVE DoneOK' /\ CompletedIsValidated'
  <2>1. TakeDigestDoes(w)
    BY <1>2, TakeDigestEffect DEF Sound
  <2> QED
    BY <2>1 DEF TakeDigestDoes, Others, Went, Rested, Failed, Stays, world,
       Faults, Sound, TypeOK, RestOK, PollOK, DoneOK, CompletedIsValidated,
       Owned, Accepts, Validated, Code
<1>3. ASSUME NEW w \in Worker, Ensure(w) PROVE DoneOK' /\ CompletedIsValidated'
  <2>1. EnsureDoes(w)
    BY <1>3, EnsureEffect DEF Sound
  <2> QED
    BY <2>1 DEF EnsureDoes, Others, Went, Rested, Failed, Stays, world,
       Faults, Sound, TypeOK, RestOK, PollOK, DoneOK, CompletedIsValidated,
       Owned, Accepts, Validated, Code
<1>4. ASSUME NEW w \in Worker, ReadRows(w) PROVE DoneOK' /\ CompletedIsValidated'
  <2>1. ReadRowsDoes(w)
    BY <1>4, ReadRowsEffect DEF Sound
  <2> QED
    BY <2>1 DEF ReadRowsDoes, Others, Went, Rested, Failed, Stays, world,
       Faults, Sound, TypeOK, RestOK, PollOK, DoneOK, CompletedIsValidated,
       Owned, Accepts, Validated, Code
<1>5. ASSUME NEW w \in Worker, Recheck(w) PROVE DoneOK' /\ CompletedIsValidated'
  <2>1. RecheckDoes(w)
    BY <1>5, RecheckEffect DEF Sound
  <2> QED
    BY <2>1 DEF RecheckDoes, Others, Went, Rested, Failed, Stays, world,
       Faults, Sound, TypeOK, RestOK, PollOK, DoneOK, CompletedIsValidated,
       Owned, Accepts, Validated, Code
<1>6. ASSUME NEW w \in Worker, SendPrompt(w) PROVE DoneOK' /\ CompletedIsValidated'
  <2>1. SendPromptDoes(w)
    BY <1>6, SendPromptEffect DEF Sound
  <2> QED
    BY <2>1 DEF SendPromptDoes, Others, Went, Rested, Failed, Stays, world,
       Faults, Sound, TypeOK, RestOK, PollOK, DoneOK, CompletedIsValidated,
       Owned, Accepts, Validated, Code
<1>7. ASSUME NEW w \in Worker, PromptFails(w) PROVE DoneOK' /\ CompletedIsValidated'
  <2>1. PromptFailsDoes(w)
    BY <1>7, PromptFailsEffect DEF Sound
  <2> QED
    BY <2>1 DEF PromptFailsDoes, Others, Went, Rested, Failed, Stays, world,
       Faults, Sound, TypeOK, RestOK, PollOK, DoneOK, CompletedIsValidated,
       Owned, Accepts, Validated, Code
<1>8. ASSUME NEW w \in Worker, Gate(w) PROVE DoneOK' /\ CompletedIsValidated'
  <2>1. GateDoes(w)
    BY <1>8, GateEffect DEF Sound
  <2> QED
    BY <2>1 DEF GateDoes, Others, Went, Rested, Failed, Stays, world,
       Faults, Sound, TypeOK, RestOK, PollOK, DoneOK, CompletedIsValidated,
       Owned, Accepts, Validated, Code
<1>9. ASSUME NEW w \in Worker, Apply(w) PROVE DoneOK' /\ CompletedIsValidated'
  <2>1. ApplyDoes(w)
    BY <1>9, ApplyEffect DEF Sound
  <2> QED
    BY <2>1 DEF ApplyDoes, Others, Went, Rested, Failed, Stays, world,
       Faults, Sound, TypeOK, RestOK, PollOK, DoneOK, CompletedIsValidated,
       Owned, Accepts, Validated, Code
<1>10. ASSUME NEW w \in Worker, Repair(w) PROVE DoneOK' /\ CompletedIsValidated'
  <2>1. RepairDoes(w)
    BY <1>10, RepairEffect DEF Sound
  <2> QED
    BY <2>1 DEF RepairDoes, Others, Went, Rested, Failed, Stays, world,
       Faults, Sound, TypeOK, RestOK, PollOK, DoneOK, CompletedIsValidated,
       Owned, Accepts, Validated, Code
<1>11. ASSUME NEW w \in Worker, TakeOver(w) PROVE DoneOK' /\ CompletedIsValidated'
  <2>1. TakeOverDoes(w)
    BY <1>11, TakeOverEffect DEF Sound
  <2> QED
    BY <2>1 DEF TakeOverDoes, Others, Went, Rested, Failed, Stays, world,
       Faults, Sound, TypeOK, RestOK, PollOK, DoneOK, CompletedIsValidated,
       Owned, Accepts, Validated, Code
<1>12. ASSUME NEW d \in Digest, JobsEnd(d) PROVE DoneOK' /\ CompletedIsValidated'
  BY <1>12 DEF JobsEnd, world, Sound, TypeOK, RestOK, PollOK, DoneOK,
     CompletedIsValidated, Owned, Accepts, Validated, Code
<1>13. ASSUME Edit PROVE DoneOK' /\ CompletedIsValidated'
  <2>1. EditDoes
    BY <1>13, EditEffect DEF Sound
  <2> QED
    BY <2>1 DEF EditDoes, Others, Went, Rested, Failed, Stays, world,
       Faults, Sound, TypeOK, RestOK, PollOK, DoneOK, CompletedIsValidated,
       Owned, Accepts, Validated, Code
<1>14. ASSUME Answer PROVE DoneOK' /\ CompletedIsValidated'
  <2>1. AnswerDoes
    BY <1>14, AnswerEffect DEF Sound
  <2> QED
    BY <2>1 DEF AnswerDoes, Others, Went, Rested, Failed, Stays, world,
       Faults, Sound, TypeOK, RestOK, PollOK, DoneOK, CompletedIsValidated,
       Owned, Accepts, Validated, Code
<1>15. ASSUME Disturb PROVE DoneOK' /\ CompletedIsValidated'
  BY <1>15 DEF Disturb, world, Sound, TypeOK, RestOK, PollOK, DoneOK,
     CompletedIsValidated, Owned, Accepts, Validated, Code
<1>16. ASSUME UNCHANGED vars PROVE DoneOK' /\ CompletedIsValidated'
  BY <1>16 DEF vars, world, Sound, TypeOK, RestOK, PollOK, DoneOK,
     CompletedIsValidated, Owned, Accepts, Validated, Code
<1> QED
  BY <1>1, <1>2, <1>3, <1>4, <1>5, <1>6, <1>7, <1>8, <1>9, <1>10, <1>11,
     <1>12, <1>13, <1>14, <1>15, <1>16 DEF Next, PollStep

\* A prompt is sent by the owner, and was not sent before.
LEMMA OnceStep ==
  ASSUME Sound, [Next]_vars PROVE PromptedOnce'
<1>1. ASSUME NEW w \in Worker, Observe(w) PROVE PromptedOnce'
  <2>1. ObserveDoes(w)
    BY <1>1, ObserveEffect DEF Sound
  <2> QED
    BY <2>1 DEF ObserveDoes, Others, Went, Rested, Failed, Stays, world,
       Faults, Sound, TypeOK, PollOK, PromptedOnce, Owned, Accepts
<1>2. ASSUME NEW w \in Worker, TakeDigest(w) PROVE PromptedOnce'
  <2>1. TakeDigestDoes(w)
    BY <1>2, TakeDigestEffect DEF Sound
  <2> QED
    BY <2>1 DEF TakeDigestDoes, Others, Went, Rested, Failed, Stays, world,
       Faults, Sound, TypeOK, PollOK, PromptedOnce, Owned, Accepts
<1>3. ASSUME NEW w \in Worker, Ensure(w) PROVE PromptedOnce'
  <2>1. EnsureDoes(w)
    BY <1>3, EnsureEffect DEF Sound
  <2> QED
    BY <2>1 DEF EnsureDoes, Others, Went, Rested, Failed, Stays, world,
       Faults, Sound, TypeOK, PollOK, PromptedOnce, Owned, Accepts
<1>4. ASSUME NEW w \in Worker, ReadRows(w) PROVE PromptedOnce'
  <2>1. ReadRowsDoes(w)
    BY <1>4, ReadRowsEffect DEF Sound
  <2> QED
    BY <2>1 DEF ReadRowsDoes, Others, Went, Rested, Failed, Stays, world,
       Faults, Sound, TypeOK, PollOK, PromptedOnce, Owned, Accepts
<1>5. ASSUME NEW w \in Worker, Recheck(w) PROVE PromptedOnce'
  <2>1. RecheckDoes(w)
    BY <1>5, RecheckEffect DEF Sound
  <2> QED
    BY <2>1 DEF RecheckDoes, Others, Went, Rested, Failed, Stays, world,
       Faults, Sound, TypeOK, PollOK, PromptedOnce, Owned, Accepts
<1>6. ASSUME NEW w \in Worker, SendPrompt(w) PROVE PromptedOnce'
  <2>1. SendPromptDoes(w)
    BY <1>6, SendPromptEffect DEF Sound
  <2> QED
    BY <2>1 DEF SendPromptDoes, Others, Went, Rested, Failed, Stays, world,
       Faults, Sound, TypeOK, PollOK, PromptedOnce, Owned, Accepts
<1>7. ASSUME NEW w \in Worker, PromptFails(w) PROVE PromptedOnce'
  <2>1. PromptFailsDoes(w)
    BY <1>7, PromptFailsEffect DEF Sound
  <2> QED
    BY <2>1 DEF PromptFailsDoes, Others, Went, Rested, Failed, Stays, world,
       Faults, Sound, TypeOK, PollOK, PromptedOnce, Owned, Accepts
<1>8. ASSUME NEW w \in Worker, Gate(w) PROVE PromptedOnce'
  <2>1. GateDoes(w)
    BY <1>8, GateEffect DEF Sound
  <2> QED
    BY <2>1 DEF GateDoes, Others, Went, Rested, Failed, Stays, world,
       Faults, Sound, TypeOK, PollOK, PromptedOnce, Owned, Accepts
<1>9. ASSUME NEW w \in Worker, Apply(w) PROVE PromptedOnce'
  <2>1. ApplyDoes(w)
    BY <1>9, ApplyEffect DEF Sound
  <2> QED
    BY <2>1 DEF ApplyDoes, Others, Went, Rested, Failed, Stays, world,
       Faults, Sound, TypeOK, PollOK, PromptedOnce, Owned, Accepts
<1>10. ASSUME NEW w \in Worker, Repair(w) PROVE PromptedOnce'
  <2>1. RepairDoes(w)
    BY <1>10, RepairEffect DEF Sound
  <2> QED
    BY <2>1 DEF RepairDoes, Others, Went, Rested, Failed, Stays, world,
       Faults, Sound, TypeOK, PollOK, PromptedOnce, Owned, Accepts
<1>11. ASSUME NEW w \in Worker, TakeOver(w) PROVE PromptedOnce'
  <2>1. TakeOverDoes(w)
    BY <1>11, TakeOverEffect DEF Sound
  <2> QED
    BY <2>1 DEF TakeOverDoes, Others, Went, Rested, Failed, Stays, world,
       Faults, Sound, TypeOK, PollOK, PromptedOnce, Owned, Accepts
<1>12. ASSUME NEW d \in Digest, JobsEnd(d) PROVE PromptedOnce'
  BY <1>12 DEF JobsEnd, world, Sound, TypeOK, PollOK, PromptedOnce, Owned,
     Accepts
<1>13. ASSUME Edit PROVE PromptedOnce'
  <2>1. EditDoes
    BY <1>13, EditEffect DEF Sound
  <2> QED
    BY <2>1 DEF EditDoes, Others, Went, Rested, Failed, Stays, world,
       Faults, Sound, TypeOK, PollOK, PromptedOnce, Owned, Accepts
<1>14. ASSUME Answer PROVE PromptedOnce'
  <2>1. AnswerDoes
    BY <1>14, AnswerEffect DEF Sound
  <2> QED
    BY <2>1 DEF AnswerDoes, Others, Went, Rested, Failed, Stays, world,
       Faults, Sound, TypeOK, PollOK, PromptedOnce, Owned, Accepts
<1>15. ASSUME Disturb PROVE PromptedOnce'
  BY <1>15 DEF Disturb, world, Sound, TypeOK, PollOK, PromptedOnce, Owned,
     Accepts
<1>16. ASSUME UNCHANGED vars PROVE PromptedOnce'
  BY <1>16 DEF vars, world, Sound, TypeOK, PollOK, PromptedOnce, Owned,
     Accepts
<1> QED
  BY <1>1, <1>2, <1>3, <1>4, <1>5, <1>6, <1>7, <1>8, <1>9, <1>10, <1>11,
     <1>12, <1>13, <1>14, <1>15, <1>16 DEF Next, PollStep

----------------------------------------------------------------------------
(* Theorems                                                                 *)

LEMMA InitSound == Init => Sound
<1> SUFFICES ASSUME Init PROVE Sound
  OBVIOUS
<1>1. 0 \in Source /\ 0 \in Message /\ Task \in Prompt \union {Task}
  BY GateConstants DEF Source, Message
<1>2. Resting \in Poll
  BY <1>1 DEF Resting, Poll
<1>3. (CHOOSE c \in Commands : TRUE) \in Commands
  BY GateConstants
<1>4. lead \in Lead
  BY <1>1, <1>3 DEF Init, Lead, Reply, Kind
<1>5. faults \in [takeovers : 0..MaxTakeovers, hiccups : 0..MaxHiccups, strays : 0..MaxStrays]
  BY GateConstants DEF Init
<1>6. TypeOK
  BY <1>1, <1>2, <1>4, <1>5 DEF Init, TypeOK
<1>7. poll[owner].at = "rest" /\ \A w \in Worker : poll[w].at = "rest"
  BY DEF Init, Resting
<1> QED BY <1>6, <1>7 DEF Init, Sound, RestOK, PollOK, DoneOK, CompletedIsValidated, PromptedOnce

\* The invariant holds of every reachable state.
LEMMA SoundAlways == Spec => []Sound
<1>1. Sound /\ [Next]_vars => Sound'
  BY TypeStep, RestStep, FoundStep, DoneStep, OnceStep DEF Sound
<1> QED BY <1>1, InitSound, PTL DEF Spec

\* The variables keep their types.
THEOREM TypeCorrect == Spec => []TypeOK
<1>1. Sound => TypeOK
  BY DEF Sound
<1> QED BY <1>1, SoundAlways, PTL

\* Without an edit from outside, a run is completed over the base commit, or over
\* sources whose checkpoint succeeded: polls, takeovers and late answers cannot
\* let other sources through.
THEOREM CompletionsAreValidated == Spec => []CompletedIsValidated
<1>1. Sound => CompletedIsValidated
  BY DEF Sound
<1> QED BY <1>1, SoundAlways, PTL

\* The lead never receives the same evidence, demand or repair twice.
THEOREM PromptsAreSentOnce == Spec => []PromptedOnce
<1>1. Sound => PromptedOnce
  BY DEF Sound
<1> QED BY <1>1, SoundAlways, PTL

=============================================================================
