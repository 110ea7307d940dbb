------------------------ MODULE RepositorySyncProofs ------------------------
(***************************************************************************)
(* Theorems about RepositorySync, for any workers, clients, profiles and   *)
(* bounds.                                                                 *)
(***************************************************************************)
EXTENDS RepositorySync, TLAPS

----------------------------------------------------------------------------
(* The inductive invariant                                                  *)

\* Between taking the file lock and releasing it.
Inside(j) == j.at \in {"start", "head", "fetch", "verify", "moved"}

\* A mirror is fetched once, and once more if the remote moved meanwhile.
TriesOK ==
  \A w \in Worker :
    /\ work[w].at \in {"enter", "start", "head"} => work[w].tries = 0
    /\ work[w].at = "fetch" => work[w].tries \in {0, 1}

\* A worker that remembers the version of the row knows the profile in it.
ProfileOK ==
  \A w \in Worker : w \in fresh /\ work[w].at # "idle" => work[w].profile = row.profile

\* Only the worker inside has the lock, and only a worker that is up works.
LockOK ==
  \A w \in Worker :
    /\ Inside(work[w]) => lock = w
    /\ work[w].at # "idle" => w \in up

\* Where the commit that a worker announced is.
FetchedOK ==
  \A w \in Worker :
    /\ work[w].at \in {"head", "fetch", "verify", "moved"} => (work[w].created <=> ~mirror.there)
    /\ work[w].at = "verify" =>
         work[w].head \in (IF work[w].created THEN staging[w] ELSE mirror.has)
    /\ work[w].at = "done" => mirror.there /\ work[w].head \in mirror.has

\* Readiness is never detached from a mirror that is there.
MirroredOK ==
  row.status = "ready" => /\ mirror.there => row.commit \in mirror.has
                          /\ up # {} => mirror.there

Proven == TypeOK /\ TriesOK /\ ProfileOK /\ ReadyIsProven
Mirrored == Proven /\ LockOK /\ FetchedOK /\ MirroredOK

----------------------------------------------------------------------------
(* What the steps do                                                        *)

\* Only this worker's job changes: it goes on, or leaves.
Others(w) == work' \in [Worker -> Job] /\ \A v \in Worker \ {w} : work'[v] = work[v]
Moves(w, at) ==
  /\ Others(w) /\ work'[w].at = at /\ work'[w].head = work[w].head
  /\ work'[w].profile = work[w].profile /\ work'[w].created = work[w].created
  /\ work'[w].tries = work[w].tries
Idles(w) == Others(w) /\ work'[w] = Idle

LEMMA IdleIsAJob == Idle \in Job /\ Idle.at = "idle"
<1>1. (CHOOSE p \in Profile : TRUE) \in Profile
  BY SyncConstants
<1>2. 0 \in 0..2
  OBVIOUS
<1> QED BY <1>1, <1>2 DEF Idle, Job

LEMMA OneJob ==
  ASSUME TypeOK, NEW w \in Worker, NEW j \in Job, work' = [work EXCEPT ![w] = j]
  PROVE Others(w) /\ work'[w] = j
BY DEF TypeOK, Others

LEMMA GoesMoves ==
  ASSUME TypeOK, NEW w \in Worker, NEW at \in {"start", "failed", "refused", "done"}, Goes(w, at)
  PROVE Moves(w, at)
<1> DEFINE j == [work[w] EXCEPT !.at = at]
<1>1. work[w] \in Job
  BY DEF TypeOK
<1>2. j \in Job
  BY <1>1 DEF Job
<1>3. /\ j.at = at /\ j.head = work[w].head /\ j.profile = work[w].profile
      /\ j.created = work[w].created /\ j.tries = work[w].tries
  BY <1>1 DEF Job
<1>4. work' = [work EXCEPT ![w] = j]
  BY DEF Goes
<1> HIDE DEF j
<1> QED BY <1>2, <1>3, <1>4, OneJob DEF Moves, Others

LEMMA LeavesIdles == ASSUME TypeOK, NEW w \in Worker, Leaves(w) PROVE Idles(w)
BY IdleIsAJob, OneJob DEF Leaves, Idles

\* An unpublished mirror is removed with its worker's lock.
Drops(w) ==
  /\ lock' = IF lock = w THEN NoOne ELSE lock
  /\ staging' \in [Worker -> SUBSET Commit] /\ \A v \in Worker \ {w} : staging'[v] = staging[v]

LEMMA DropsStaging ==
  ASSUME TypeOK, NEW w \in Worker, Free(w), DropStaging(w) PROVE Drops(w)
BY DEF TypeOK, Free, DropStaging, Drops

\* A fault that is counted stays within its bound.
LEMMA UseCounts ==
  ASSUME TypeOK, NEW fault \in {"updates", "skips", "others"},
         (fault = "updates" => faults.updates < MaxUpdates)
         /\ (fault = "skips" => faults.skips < MaxSkips)
         /\ (fault = "others" => faults.others < MaxFaults),
         Use(fault)
  PROVE faults' \in [updates : 0..MaxUpdates, skips : 0..MaxSkips, others : 0..MaxFaults]
<1>1. /\ faults \in [updates : 0..MaxUpdates, skips : 0..MaxSkips, others : 0..MaxFaults]
      /\ MaxUpdates \in Nat /\ MaxSkips \in Nat /\ MaxFaults \in Nat
  BY SyncConstants DEF TypeOK
<1>2. /\ faults.updates < MaxUpdates => faults.updates + 1 \in 0..MaxUpdates
      /\ faults.skips < MaxSkips => faults.skips + 1 \in 0..MaxSkips
      /\ faults.others < MaxFaults => faults.others + 1 \in 0..MaxFaults
  BY <1>1
<1> QED BY <1>1, <1>2 DEF Use

LEMMA FaultCounts ==
  ASSUME TypeOK, Fault
  PROVE faults' \in [updates : 0..MaxUpdates, skips : 0..MaxSkips, others : 0..MaxFaults]
BY UseCounts DEF Fault

\* A row that is queued again.
LEMMA RequeuedRow ==
  ASSUME NEW changed \in Row
  PROVE /\ Requeued(changed) \in Row /\ Requeued(changed).status = "pending_validation"
        /\ Requeued(changed).profile = changed.profile
BY DEF Requeued, Row, Status

UpdateDoes ==
  /\ row' = row \/ (row' \in Row /\ row'.status = "pending_validation")
  /\ fresh' = {}
  /\ faults' \in [updates : 0..MaxUpdates, skips : 0..MaxSkips, others : 0..MaxFaults]
  /\ UNCHANGED <<lease, work, up, lock, mirror, staging, remote, proven>>

LEMMA UpdateEffect == ASSUME TypeOK, NEW c \in Client, Update(c) PROVE UpdateDoes
<1>1. row \in Row
  BY DEF TypeOK
<1>2. [row EXCEPT !.enabled = ~@] \in Row
  BY <1>1 DEF Row
<1>3. \A p \in Profile : [row EXCEPT !.profile = p] \in Row
  BY <1>1 DEF Row
<1>4. row' = row \/ (row' \in Row /\ row'.status = "pending_validation")
  <2>1. row' = row \/ \E changed \in Row : row' = Requeued(changed)
    BY <1>2, <1>3 DEF Update
  <2> QED BY <2>1, RequeuedRow
<1>5. faults' \in [updates : 0..MaxUpdates, skips : 0..MaxSkips, others : 0..MaxFaults]
  BY UseCounts DEF Update
<1> QED BY <1>4, <1>5 DEF Update, UpdateDoes, disk

ValidateDoes ==
  /\ row' \in Row /\ row'.status = "pending_validation" /\ fresh' = {}
  /\ faults' \in [updates : 0..MaxUpdates, skips : 0..MaxSkips, others : 0..MaxFaults]
  /\ UNCHANGED <<lease, work, up, lock, mirror, staging, remote, proven>>

LEMMA ValidateEffect == ASSUME TypeOK, NEW c \in Client, Validate(c) PROVE ValidateDoes
<1>1. row' \in Row /\ row'.status = "pending_validation"
  BY RequeuedRow DEF Validate, TypeOK
<1>2. faults' \in [updates : 0..MaxUpdates, skips : 0..MaxSkips, others : 0..MaxFaults]
  BY UseCounts DEF Validate
<1> QED BY <1>1, <1>2 DEF Validate, ValidateDoes, disk

\* A claimed row is being validated, by the only worker that remembers its version.
ClaimDoes(w) ==
  /\ row' \in Row /\ row'.status = "validating" /\ row'.profile = row.profile
  /\ fresh' = {w} /\ w \in up
  /\ lease' = [holder |-> w, live |-> TRUE]
  /\ Others(w) /\ work'[w].at = "enter" /\ work'[w].profile = row.profile /\ work'[w].tries = 0
  /\ UNCHANGED <<up, lock, mirror, staging, remote, proven, faults>>

LEMMA ClaimEffect == ASSUME TypeOK, NEW w \in Worker, Claim(w) PROVE ClaimDoes(w)
<1> DEFINE j == [Idle EXCEPT !.at = "enter", !.profile = row.profile]
<1>1. row \in Row /\ row' = [row EXCEPT !.status = "validating"]
  BY DEF Claim, TypeOK
<1>2. row' \in Row /\ row'.status = "validating" /\ row'.profile = row.profile
  BY <1>1 DEF Row, Status
<1>3. row.profile \in Profile
  BY <1>1 DEF Row
<1>4. j \in Job /\ j.at = "enter" /\ j.profile = row.profile /\ j.tries = Idle.tries
  BY <1>3, IdleIsAJob DEF Job
<1>5. work' = [work EXCEPT ![w] = j]
  BY DEF Claim
<1>6. Idle.tries = 0
  BY DEF Idle
<1> HIDE DEF j
<1> QED BY <1>2, <1>4, <1>5, <1>6, OneJob DEF Claim, ClaimDoes, disk

EnterDoes(w) ==
  /\ work[w].at = "enter"
  /\ \/ lock = NoOne /\ lock' = w /\ Moves(w, "start")
     \/ lock' = lock /\ Moves(w, "failed")
  /\ UNCHANGED <<row, lease, fresh, up, mirror, staging, remote, proven, faults>>

LEMMA EnterEffect == ASSUME TypeOK, NEW w \in Worker, Enter(w) PROVE EnterDoes(w)
BY GoesMoves DEF Enter, EnterDoes

ErrorDoes(w) ==
  /\ Moves(w, "failed") \/ Moves(w, "refused")
  /\ Drops(w) /\ work[w].at # "idle"
  /\ UNCHANGED <<row, lease, fresh, up, mirror, remote, proven, faults>>

LEMMA ErrorEffect == ASSUME TypeOK, NEW w \in Worker, Error(w) PROVE ErrorDoes(w)
<1>1. work[w].at \in DOMAIN Fails /\ \E at \in Fails[work[w].at] : Breaks(w, at)
  BY DEF Error
<1>2. work[w].at # "idle" /\ Fails[work[w].at] \subseteq {"failed", "refused"}
  BY <1>1 DEF Fails, CredentialFails, AddressFails, RootFails, SizeFails, SpaceFails,
              CommandFails, HeadFails, RegistryFails
<1>3. PICK at \in {"failed", "refused"} : Breaks(w, at)
  BY <1>1, <1>2
<1>4. Moves(w, at) /\ Drops(w) /\ UNCHANGED mirror
  BY <1>3, GoesMoves, DropsStaging DEF Breaks
<1> QED BY <1>2, <1>4 DEF Error, ErrorDoes

LostDoes(w) ==
  /\ Idles(w) /\ Drops(w)
  /\ UNCHANGED <<row, lease, fresh, up, mirror, remote, proven, faults>>

LEMMA LostEffect == ASSUME TypeOK, NEW w \in Worker, Lost(w) PROVE LostDoes(w)
BY LeavesIdles, DropsStaging DEF Lost, LostDoes

StartDoes(w) ==
  /\ work[w].at = "start" /\ Others(w)
  /\ work'[w].at = "head" /\ (work'[w].created <=> ~mirror.there)
  /\ work'[w].profile = work[w].profile /\ work'[w].tries = work[w].tries
  /\ staging' \in [Worker -> SUBSET Commit]
  /\ UNCHANGED <<row, lease, fresh, up, lock, mirror, remote, proven, faults>>

LEMMA StartEffect == ASSUME TypeOK, NEW w \in Worker, Start(w) PROVE StartDoes(w)
<1> DEFINE j == [work[w] EXCEPT !.at = "head", !.created = ~mirror.there]
<1>1. work[w] \in Job
  BY DEF TypeOK
<1>2. j \in Job
  BY <1>1 DEF Job
<1>3. /\ j.at = "head" /\ (j.created <=> ~mirror.there)
      /\ j.profile = work[w].profile /\ j.tries = work[w].tries
  BY <1>1 DEF Job
<1>4. work' = [work EXCEPT ![w] = j]
  BY DEF Start
<1>5. staging' \in [Worker -> SUBSET Commit]
  BY DEF Start, SweepStaging
<1> HIDE DEF j
<1> QED BY <1>2, <1>3, <1>4, <1>5, OneJob DEF Start, StartDoes

ListRemoteDoes(w) ==
  /\ work[w].at = "head" /\ Others(w)
  /\ work'[w].at = "fetch" /\ work'[w].created = work[w].created
  /\ work'[w].profile = work[w].profile /\ work'[w].tries = work[w].tries
  /\ UNCHANGED <<row, lease, fresh, up, lock, mirror, staging, remote, proven, faults>>

LEMMA ListRemoteEffect ==
  ASSUME TypeOK, NEW w \in Worker, ListRemote(w) PROVE ListRemoteDoes(w)
<1> DEFINE j == [work[w] EXCEPT !.at = "fetch", !.head = remote]
<1>1. work[w] \in Job /\ remote \in Commit
  BY DEF TypeOK
<1>2. j \in Job
  BY <1>1 DEF Job
<1>3. /\ j.at = "fetch" /\ j.created = work[w].created
      /\ j.profile = work[w].profile /\ j.tries = work[w].tries
  BY <1>1 DEF Job
<1>4. work' = [work EXCEPT ![w] = j]
  BY DEF ListRemote
<1> HIDE DEF j
<1> QED BY <1>2, <1>3, <1>4, OneJob DEF ListRemote, ListRemoteDoes, disk

\* A fetch adds the remote's head where the worker builds its mirror.
FetchDoes(w) ==
  /\ work[w].at = "fetch" /\ Others(w) /\ work'[w].at \in {"fetch", "verify", "moved"}
  /\ work'[w].at = "fetch" => work[w].tries = 0
  /\ work'[w].at = "verify" => work'[w].head = remote
  /\ work'[w].tries = work[w].tries + 1
  /\ work'[w].profile = work[w].profile /\ work'[w].created = work[w].created
  /\ staging' \in [Worker -> SUBSET Commit] /\ \A v \in Worker \ {w} : staging'[v] = staging[v]
  /\ mirror' \in [there : BOOLEAN, has : SUBSET Commit, head : Commit \union {NoCommit}]
  /\ mirror'.there = mirror.there /\ mirror.has \subseteq mirror'.has
  /\ remote \in (IF work[w].created THEN staging'[w] ELSE mirror'.has)
  /\ UNCHANGED <<row, lease, fresh, up, lock, remote, proven, faults>>

LEMMA FetchEffect == ASSUME TypeOK, TriesOK, NEW w \in Worker, Fetch(w) PROVE FetchDoes(w)
<1>1. work[w] \in Job /\ work[w].at = "fetch" /\ work[w].tries \in {0, 1} /\ remote \in Commit
  BY DEF TypeOK, TriesOK, Fetch
<1>2. work[w].tries + 1 \in 0..2
  BY <1>1
<1>3. PICK next \in {"fetch", "verify", "moved"} :
        /\ next = IF HeadMatches(w) THEN "verify"
                  ELSE IF work[w].tries = 0 THEN "fetch" ELSE "moved"
        /\ work' = [work EXCEPT ![w] = [@ EXCEPT !.tries = work[w].tries + 1, !.at = next]]
  BY DEF Fetch
<1> DEFINE j == [work[w] EXCEPT !.tries = work[w].tries + 1, !.at = next]
<1>4. j \in Job
  BY <1>1, <1>2 DEF Job
<1>5. /\ j.at = next /\ j.tries = work[w].tries + 1 /\ j.head = work[w].head
      /\ j.profile = work[w].profile /\ j.created = work[w].created
  BY <1>1 DEF Job
<1>6. work' = [work EXCEPT ![w] = j]
  BY <1>3
<1> HIDE DEF j
<1>7. Others(w) /\ work'[w] = j
  BY <1>4, <1>6, OneJob
<1>8. next = "verify" => j.head = remote
  BY <1>3, <1>5 DEF HeadMatches
<1>9. next = "fetch" => work[w].tries = 0
  BY <1>3
<1>10. /\ staging' \in [Worker -> SUBSET Commit]
       /\ \A v \in Worker \ {w} : staging'[v] = staging[v]
       /\ mirror' \in [there : BOOLEAN, has : SUBSET Commit, head : Commit \union {NoCommit}]
       /\ mirror'.there = mirror.there /\ mirror.has \subseteq mirror'.has
       /\ remote \in (IF work[w].created THEN staging'[w] ELSE mirror'.has)
  <2>1. /\ staging \in [Worker -> SUBSET Commit]
        /\ mirror \in [there : BOOLEAN, has : SUBSET Commit, head : Commit \union {NoCommit}]
    BY DEF TypeOK
  <2>2. CASE work[w].created
    <3>1. staging' = [staging EXCEPT ![w] = @ \union {remote}] /\ UNCHANGED mirror
      BY <2>2 DEF Fetch, FetchInto
    <3>2. staging[w] \union {remote} \in SUBSET Commit
      BY <1>1, <2>1
    <3> QED BY <2>1, <2>2, <3>1, <3>2
  <2>3. CASE ~work[w].created
    <3>1. mirror' = [mirror EXCEPT !.has = @ \union {remote}, !.head = remote] /\ UNCHANGED staging
      BY <2>3 DEF Fetch, FetchInto
    <3>2. mirror.has \union {remote} \in SUBSET Commit
      BY <1>1, <2>1
    <3> QED BY <1>1, <2>1, <2>3, <3>1, <3>2
  <2> QED BY <2>2, <2>3
<1> QED BY <1>1, <1>3, <1>5, <1>7, <1>8, <1>9, <1>10 DEF Fetch, FetchDoes

MovedDoes(w) ==
  /\ Moves(w, "failed") /\ Drops(w) /\ work[w].at = "moved"
  /\ UNCHANGED <<row, lease, fresh, up, mirror, remote, proven, faults>>

LEMMA MovedEffect == ASSUME TypeOK, NEW w \in Worker, Moved(w) PROVE MovedDoes(w)
BY GoesMoves, DropsStaging DEF Moved, MovedDoes, Breaks

PublishDoes(w) ==
  /\ work[w].at = "verify" /\ Moves(w, "done") /\ Drops(w)
  /\ mirror' \in [there : BOOLEAN, has : SUBSET Commit, head : Commit \union {NoCommit}]
  /\ IF work[w].created THEN mirror'.there /\ mirror'.has = staging[w] ELSE mirror' = mirror
  /\ UNCHANGED <<row, lease, fresh, up, remote, proven, faults>>

LEMMA PublishEffect == ASSUME TypeOK, NEW w \in Worker, Publish(w) PROVE PublishDoes(w)
<1>1. Moves(w, "done") /\ Drops(w) /\ work[w].at = "verify"
  BY GoesMoves, DropsStaging DEF Publish
<1>2. /\ mirror \in [there : BOOLEAN, has : SUBSET Commit, head : Commit \union {NoCommit}]
      /\ staging[w] \in SUBSET Commit /\ work[w].head \in Commit \union {NoCommit}
  BY DEF TypeOK, Job
<1>3. mirror' = IF work[w].created
                THEN [there |-> TRUE, has |-> staging[w], head |-> work[w].head]
                ELSE mirror
  BY DEF Publish
<1> QED BY <1>1, <1>2, <1>3 DEF Publish, PublishDoes

\* A verdict is written by a worker that still owns the row, and is forgotten else.
RecordDoes(w) ==
  /\ Idles(w)
  /\ \/ UNCHANGED <<row, lease, fresh, proven>>
     \/ /\ w \in fresh /\ row' \in Row /\ row'.status \in {"ready", "unavailable", "invalid"}
        /\ lease' = [holder |-> NoOne, live |-> FALSE] /\ fresh' = {}
        /\ row'.profile = row.profile /\ row'.enabled = row.enabled /\ row.enabled
        /\ row'.status = "ready" =>
             /\ work[w].at = "done" /\ proven' = work[w].profile /\ row'.commit = work[w].head
        /\ row'.status # "ready" => proven' = proven
  /\ UNCHANGED <<up, lock, mirror, staging, remote, faults>>

LEMMA RecordEffect == ASSUME TypeOK, NEW w \in Worker, Record(w) PROVE RecordDoes(w)
<1>1. Idles(w) /\ UNCHANGED <<up, lock, mirror, staging, remote, faults>>
  BY LeavesIdles DEF Record, disk
<1>2. PICK status \in {"ready", "unavailable", "invalid"}, due \in {"now", "later", "never"} :
        /\ Records(w, status, due)
        /\ status = "ready" => work[w].at = "done"
  BY DEF Record
<1>3. CASE ~Owned(w)
  BY <1>1, <1>2, <1>3 DEF Records, RecordDoes
<1>4. CASE Owned(w)
  <2>1. /\ row' = [row EXCEPT !.status = status, !.due = due,
                              !.commit = IF status = "ready" THEN work[w].head ELSE @]
        /\ lease' = [holder |-> NoOne, live |-> FALSE] /\ fresh' = {}
        /\ proven' = IF status = "ready" THEN work[w].profile ELSE proven
    BY <1>2, <1>4 DEF Records
  <2>2. row \in Row /\ work[w].head \in Commit \union {NoCommit} /\ w \in fresh /\ row.enabled
    BY <1>4 DEF TypeOK, Job, Owned
  <2>3. PICK commit \in Commit \union {NoCommit} :
          /\ row' = [row EXCEPT !.status = status, !.due = due, !.commit = commit]
          /\ status = "ready" => commit = work[w].head
    BY <2>1, <2>2 DEF Row
  <2>4. row' \in Row
    BY <2>2, <2>3 DEF Row, Status
  <2>5. /\ row'.status = status /\ row'.profile = row.profile
        /\ row'.enabled = row.enabled /\ row'.commit = commit
    BY <2>2, <2>3 DEF Row
  <2> QED BY <1>1, <1>2, <2>1, <2>2, <2>3, <2>4, <2>5 DEF RecordDoes
<1> QED BY <1>3, <1>4

\* A worker that starts queues a row whose mirror is missing, or finds it locked.
StartUpDoes(w) ==
  /\ up' = up \union {w}
  /\ \/ /\ Missing /\ row' \in Row /\ row'.status = "pending_validation" /\ fresh' = {}
        /\ lease' = [holder |-> NoOne, live |-> FALSE] /\ faults' = faults
     \/ ~Missing /\ UNCHANGED <<row, lease, fresh, faults>>
     \/ MaxSkips # 0 /\ UNCHANGED <<row, lease, fresh>>
  /\ faults' \in [updates : 0..MaxUpdates, skips : 0..MaxSkips, others : 0..MaxFaults]
  /\ UNCHANGED <<work, lock, mirror, staging, remote, proven>>

LEMMA StartUpEffect == ASSUME TypeOK, NEW w \in Worker, StartUp(w) PROVE StartUpDoes(w)
<1>1. up' = up \union {w} /\ UNCHANGED <<work, lock, mirror, staging, remote, proven>>
  BY DEF StartUp, disk
<1>2. CASE /\ IF Missing
              THEN /\ row' = Requeued(row) /\ fresh' = {}
                   /\ lease' = [holder |-> NoOne, live |-> FALSE]
              ELSE UNCHANGED <<row, lease, fresh>>
           /\ UNCHANGED faults
  <2>1. Missing => row' \in Row /\ row'.status = "pending_validation"
    BY <1>2, RequeuedRow DEF TypeOK
  <2>2. faults' \in [updates : 0..MaxUpdates, skips : 0..MaxSkips, others : 0..MaxFaults]
    BY <1>2 DEF TypeOK
  <2> QED BY <1>1, <1>2, <2>1, <2>2 DEF StartUpDoes
<1>3. CASE faults.skips < MaxSkips /\ Use("skips") /\ UNCHANGED <<row, lease, fresh>>
  <2>1. faults' \in [updates : 0..MaxUpdates, skips : 0..MaxSkips, others : 0..MaxFaults]
    BY <1>3, UseCounts
  <2>2. faults.skips \in 0..MaxSkips /\ MaxSkips \in Nat
    BY SyncConstants DEF TypeOK
  <2>3. MaxSkips # 0
    BY <1>3, <2>2
  <2> QED BY <1>1, <1>3, <2>1, <2>3 DEF StartUpDoes
<1> QED BY <1>2, <1>3 DEF StartUp

CrashDoes(w) ==
  /\ Idles(w) /\ up' = up \ {w} /\ lock' = IF lock = w THEN NoOne ELSE lock
  /\ faults' \in [updates : 0..MaxUpdates, skips : 0..MaxSkips, others : 0..MaxFaults]
  /\ UNCHANGED <<row, lease, fresh, mirror, staging, remote, proven>>

LEMMA CrashEffect == ASSUME TypeOK, NEW w \in Worker, Crash(w) PROVE CrashDoes(w)
BY LeavesIdles, FaultCounts DEF Crash, CrashDoes, Free

DueDoes ==
  /\ row' \in Row /\ row'.status = row.status /\ row'.profile = row.profile
  /\ row'.enabled = row.enabled /\ row'.commit = row.commit
  /\ UNCHANGED <<lease, fresh, work, up, lock, mirror, staging, remote, proven, faults>>

LEMMA DueEffect == ASSUME TypeOK, Due PROVE DueDoes
<1>1. row \in Row /\ row' = [row EXCEPT !.due = "now"]
  BY DEF TypeOK, Due
<1>2. /\ row' \in Row /\ row'.status = row.status /\ row'.profile = row.profile
      /\ row'.enabled = row.enabled /\ row'.commit = row.commit
  BY <1>1 DEF Row
<1> QED BY <1>2 DEF Due, DueDoes, disk

----------------------------------------------------------------------------
(* Every step keeps the invariant                                           *)

\* Types.
LEMMA TypeKept ==
  ASSUME Proven, [Next]_vars PROVE TypeOK'
<1>1. ASSUME NEW c \in Client, Read(c) PROVE TypeOK'
  BY <1>1 DEF Read, disk, Proven, TypeOK, Drops
<1>2. ASSUME NEW c \in Client, Update(c) PROVE TypeOK'
  <2>1. UpdateDoes
    BY <1>2, UpdateEffect DEF Proven
  <2> QED
    BY <2>1 DEF UpdateDoes, Others, Moves, Idles, Proven, TypeOK, Drops
<1>3. ASSUME NEW c \in Client, Validate(c) PROVE TypeOK'
  <2>1. ValidateDoes
    BY <1>3, ValidateEffect DEF Proven
  <2> QED
    BY <2>1 DEF ValidateDoes, Others, Moves, Idles, Proven, TypeOK, Drops
<1>4. ASSUME NEW w \in Worker, Claim(w) PROVE TypeOK'
  <2>1. ClaimDoes(w)
    BY <1>4, ClaimEffect DEF Proven
  <2>2. lease' \in [holder : Worker \union {NoOne}, live : BOOLEAN]
    BY <2>1 DEF ClaimDoes
  <2> QED BY <2>1, <2>2 DEF ClaimDoes, Others, Proven, TypeOK
<1>5. ASSUME NEW w \in Worker, Enter(w) PROVE TypeOK'
  <2>1. EnterDoes(w)
    BY <1>5, EnterEffect DEF Proven
  <2> QED
    BY <2>1 DEF EnterDoes, Others, Moves, Idles, Proven, TypeOK, Drops
<1>6. ASSUME NEW w \in Worker, Error(w) PROVE TypeOK'
  <2>1. ErrorDoes(w)
    BY <1>6, ErrorEffect DEF Proven
  <2> QED
    BY <2>1 DEF ErrorDoes, Others, Moves, Idles, Proven, TypeOK, Drops
<1>7. ASSUME NEW w \in Worker, Lost(w) PROVE TypeOK'
  <2>1. LostDoes(w)
    BY <1>7, LostEffect DEF Proven
  <2> QED
    BY <2>1 DEF LostDoes, Others, Moves, Idles, Proven, TypeOK, Drops
<1>8. ASSUME NEW w \in Worker, Start(w) PROVE TypeOK'
  <2>1. StartDoes(w)
    BY <1>8, StartEffect DEF Proven
  <2> QED
    BY <2>1 DEF StartDoes, Others, Moves, Idles, Proven, TypeOK, Drops
<1>9. ASSUME NEW w \in Worker, ListRemote(w) PROVE TypeOK'
  <2>1. ListRemoteDoes(w)
    BY <1>9, ListRemoteEffect DEF Proven
  <2> QED
    BY <2>1 DEF ListRemoteDoes, Others, Moves, Idles, Proven, TypeOK, Drops
<1>10. ASSUME NEW w \in Worker, Fetch(w) PROVE TypeOK'
  <2>1. FetchDoes(w)
    BY <1>10, FetchEffect DEF Proven
  <2> QED
    BY <2>1 DEF FetchDoes, Others, Moves, Idles, Proven, TypeOK, Drops
<1>11. ASSUME NEW w \in Worker, Moved(w) PROVE TypeOK'
  <2>1. MovedDoes(w)
    BY <1>11, MovedEffect DEF Proven
  <2> QED
    BY <2>1 DEF MovedDoes, Others, Moves, Idles, Proven, TypeOK, Drops
<1>12. ASSUME NEW w \in Worker, Publish(w) PROVE TypeOK'
  <2>1. PublishDoes(w)
    BY <1>12, PublishEffect DEF Proven
  <2> QED
    BY <2>1 DEF PublishDoes, Others, Moves, Idles, Proven, TypeOK, Drops
<1>13. ASSUME NEW w \in Worker, Record(w) PROVE TypeOK'
  <2>1. RecordDoes(w) /\ work[w].profile \in Profile
    BY <1>13, RecordEffect DEF Proven, TypeOK, Job
  <2>a. row \in Row /\ lease \in [holder : Worker \union {NoOne}, live : BOOLEAN]
    BY DEF Proven, TypeOK
  <2>b. lease' = lease \/ lease' = [holder |-> NoOne, live |-> FALSE]
    BY <2>1 DEF RecordDoes
  <2>c. row' \in Row
    BY <2>1, <2>a DEF RecordDoes
  <2>d. lease' \in [holder : Worker \union {NoOne}, live : BOOLEAN]
    <3>1. [holder |-> NoOne, live |-> FALSE] \in [holder : Worker \union {NoOne}, live : BOOLEAN]
      OBVIOUS
    <3>2. CASE lease' = lease
      BY <2>a, <3>2
    <3>3. CASE lease' = [holder |-> NoOne, live |-> FALSE]
      BY <3>1, <3>3
    <3> QED BY <2>b, <3>2, <3>3
  <2>2. lease' \in [holder : Worker \union {NoOne}, live : BOOLEAN] /\ row' \in Row
    BY <2>c, <2>d
  <2>3. proven' = proven \/ proven' = work[w].profile
    BY <2>1 DEF RecordDoes
  <2>4. proven' \in Profile /\ fresh' \subseteq Worker \union Client
    BY <2>1, <2>3 DEF RecordDoes, Proven, TypeOK
  <2> QED BY <2>1, <2>2, <2>4 DEF RecordDoes, Idles, Others, Proven, TypeOK
<1>14. ASSUME NEW w \in Worker, StartUp(w) PROVE TypeOK'
  <2>1. StartUpDoes(w)
    BY <1>14, StartUpEffect DEF Proven
  <2>2. /\ row' \in Row \/ row' = row
        /\ lease' = [holder |-> NoOne, live |-> FALSE] \/ lease' = lease
        /\ fresh' \subseteq fresh
    BY <2>1 DEF StartUpDoes
  <2>a. row \in Row /\ lease \in [holder : Worker \union {NoOne}, live : BOOLEAN]
    BY DEF Proven, TypeOK
  <2>c. row' \in Row
    BY <2>2, <2>a
  <2>d. lease' \in [holder : Worker \union {NoOne}, live : BOOLEAN]
    <3>1. [holder |-> NoOne, live |-> FALSE] \in [holder : Worker \union {NoOne}, live : BOOLEAN]
      OBVIOUS
    <3>2. CASE lease' = lease
      BY <2>a, <3>2
    <3>3. CASE lease' = [holder |-> NoOne, live |-> FALSE]
      BY <3>1, <3>3
    <3> QED BY <2>2, <3>2, <3>3
  <2>3. lease' \in [holder : Worker \union {NoOne}, live : BOOLEAN] /\ row' \in Row
    BY <2>c, <2>d
  <2> QED BY <2>1, <2>2, <2>3 DEF StartUpDoes, Proven, TypeOK
<1>15. ASSUME NEW w \in Worker, Crash(w) PROVE TypeOK'
  <2>1. CrashDoes(w)
    BY <1>15, CrashEffect DEF Proven
  <2> QED
    BY <2>1 DEF CrashDoes, Others, Moves, Idles, Proven, TypeOK, Drops
<1>16. ASSUME Due PROVE TypeOK'
  <2>1. DueDoes
    BY <1>16, DueEffect DEF Proven
  <2> QED
    BY <2>1 DEF DueDoes, Others, Moves, Idles, Proven, TypeOK, Drops
<1>17. ASSUME LeaseExpires PROVE TypeOK'
  <2>1. lease' \in [holder : Worker \union {NoOne}, live : BOOLEAN] /\ faults' \in [updates : 0..MaxUpdates, skips : 0..MaxSkips, others : 0..MaxFaults]
    BY <1>17, FaultCounts DEF LeaseExpires, Proven, TypeOK
  <2> QED BY <1>17, <2>1 DEF LeaseExpires, disk, Proven, TypeOK
<1>18. ASSUME VolumeLost PROVE TypeOK'
  <2>1. faults' \in [updates : 0..MaxUpdates, skips : 0..MaxSkips, others : 0..MaxFaults]
    BY <1>18, FaultCounts DEF VolumeLost, Proven
  <2>2. work' \in [Worker -> Job] /\ staging' \in [Worker -> SUBSET Commit]
    BY <1>18, IdleIsAJob DEF VolumeLost
  <2>3. mirror' \in [there : BOOLEAN, has : SUBSET Commit, head : Commit \union {NoCommit}]
    BY <1>18 DEF VolumeLost, NoMirror
  <2>4. lock' \in Worker \union {Reader, NoOne} /\ up' \subseteq Worker
    BY <1>18 DEF VolumeLost
  <2> QED BY <1>18, <2>1, <2>2, <2>3, <2>4 DEF VolumeLost, Proven, TypeOK
<1>19. ASSUME RemoteMoves PROVE TypeOK'
  <2>1. remote' \in Commit
    BY <1>19, SyncConstants DEF RemoteMoves, Proven, TypeOK, Commit
  <2> QED BY <1>19, <2>1 DEF RemoteMoves, disk, Proven, TypeOK
<1>20. ASSUME ReadMirror PROVE TypeOK'
  <2>1. lock' \in Worker \union {Reader, NoOne} /\ faults' \in [updates : 0..MaxUpdates, skips : 0..MaxSkips, others : 0..MaxFaults]
    BY <1>20, FaultCounts DEF ReadMirror, Proven, TypeOK
  <2> QED BY <1>20, <2>1 DEF ReadMirror, Proven, TypeOK
<1>21. ASSUME UNCHANGED vars PROVE TypeOK'
  BY <1>21 DEF vars, disk, Proven, TypeOK, Drops
<1> QED
  BY <1>1, <1>2, <1>3, <1>4, <1>5, <1>6, <1>7, <1>8, <1>9, <1>10, <1>11,
     <1>12, <1>13, <1>14, <1>15, <1>16, <1>17, <1>18, <1>19, <1>20, <1>21 DEF
     Next, WorkerStep

\* The tries of a fetch.
LEMMA TriesKept ==
  ASSUME Proven, [Next]_vars PROVE TriesOK'
<1>1. ASSUME NEW c \in Client, Read(c) PROVE TriesOK'
  BY <1>1, IdleIsAJob DEF Read, disk, Proven, TypeOK, TriesOK
<1>2. ASSUME NEW c \in Client, Update(c) PROVE TriesOK'
  <2>1. UpdateDoes
    BY <1>2, UpdateEffect DEF Proven
  <2> QED
    BY <2>1, IdleIsAJob DEF UpdateDoes, Others, Moves, Idles, Proven,
       TypeOK, TriesOK
<1>3. ASSUME NEW c \in Client, Validate(c) PROVE TriesOK'
  <2>1. ValidateDoes
    BY <1>3, ValidateEffect DEF Proven
  <2> QED
    BY <2>1, IdleIsAJob DEF ValidateDoes, Others, Moves, Idles, Proven,
       TypeOK, TriesOK
<1>4. ASSUME NEW w \in Worker, Claim(w) PROVE TriesOK'
  <2>1. ClaimDoes(w)
    BY <1>4, ClaimEffect DEF Proven
  <2> QED
    BY <2>1, IdleIsAJob DEF ClaimDoes, Others, Moves, Idles, Proven, TypeOK,
       TriesOK
<1>5. ASSUME NEW w \in Worker, Enter(w) PROVE TriesOK'
  <2>1. EnterDoes(w)
    BY <1>5, EnterEffect DEF Proven
  <2> QED
    BY <2>1, IdleIsAJob DEF EnterDoes, Others, Moves, Idles, Proven, TypeOK,
       TriesOK
<1>6. ASSUME NEW w \in Worker, Error(w) PROVE TriesOK'
  <2>1. ErrorDoes(w)
    BY <1>6, ErrorEffect DEF Proven
  <2> QED
    BY <2>1, IdleIsAJob DEF ErrorDoes, Others, Moves, Idles, Proven, TypeOK,
       TriesOK
<1>7. ASSUME NEW w \in Worker, Lost(w) PROVE TriesOK'
  <2>1. LostDoes(w)
    BY <1>7, LostEffect DEF Proven
  <2> QED
    BY <2>1, IdleIsAJob DEF LostDoes, Others, Moves, Idles, Proven, TypeOK,
       TriesOK
<1>8. ASSUME NEW w \in Worker, Start(w) PROVE TriesOK'
  <2>1. StartDoes(w)
    BY <1>8, StartEffect DEF Proven
  <2> QED
    BY <2>1, IdleIsAJob DEF StartDoes, Others, Moves, Idles, Proven, TypeOK,
       TriesOK
<1>9. ASSUME NEW w \in Worker, ListRemote(w) PROVE TriesOK'
  <2>1. ListRemoteDoes(w)
    BY <1>9, ListRemoteEffect DEF Proven
  <2> QED
    BY <2>1, IdleIsAJob DEF ListRemoteDoes, Others, Moves, Idles, Proven,
       TypeOK, TriesOK
<1>10. ASSUME NEW w \in Worker, Fetch(w) PROVE TriesOK'
  <2>1. FetchDoes(w)
    BY <1>10, FetchEffect DEF Proven
  <2> QED
    BY <2>1, IdleIsAJob DEF FetchDoes, Others, Moves, Idles, Proven, TypeOK,
       TriesOK
<1>11. ASSUME NEW w \in Worker, Moved(w) PROVE TriesOK'
  <2>1. MovedDoes(w)
    BY <1>11, MovedEffect DEF Proven
  <2> QED
    BY <2>1, IdleIsAJob DEF MovedDoes, Others, Moves, Idles, Proven, TypeOK,
       TriesOK
<1>12. ASSUME NEW w \in Worker, Publish(w) PROVE TriesOK'
  <2>1. PublishDoes(w)
    BY <1>12, PublishEffect DEF Proven
  <2> QED
    BY <2>1, IdleIsAJob DEF PublishDoes, Others, Moves, Idles, Proven,
       TypeOK, TriesOK
<1>13. ASSUME NEW w \in Worker, Record(w) PROVE TriesOK'
  <2>1. RecordDoes(w)
    BY <1>13, RecordEffect DEF Proven
  <2> QED
    BY <2>1, IdleIsAJob DEF RecordDoes, Others, Moves, Idles, Proven,
       TypeOK, TriesOK
<1>14. ASSUME NEW w \in Worker, StartUp(w) PROVE TriesOK'
  <2>1. StartUpDoes(w)
    BY <1>14, StartUpEffect DEF Proven
  <2> QED
    BY <2>1, IdleIsAJob DEF StartUpDoes, Others, Moves, Idles, Proven,
       TypeOK, TriesOK
<1>15. ASSUME NEW w \in Worker, Crash(w) PROVE TriesOK'
  <2>1. CrashDoes(w)
    BY <1>15, CrashEffect DEF Proven
  <2> QED
    BY <2>1, IdleIsAJob DEF CrashDoes, Others, Moves, Idles, Proven, TypeOK,
       TriesOK
<1>16. ASSUME Due PROVE TriesOK'
  <2>1. DueDoes
    BY <1>16, DueEffect DEF Proven
  <2> QED
    BY <2>1, IdleIsAJob DEF DueDoes, Others, Moves, Idles, Proven, TypeOK,
       TriesOK
<1>17. ASSUME LeaseExpires PROVE TriesOK'
  BY <1>17, IdleIsAJob DEF LeaseExpires, disk, Proven, TypeOK, TriesOK
<1>18. ASSUME VolumeLost PROVE TriesOK'
  BY <1>18, IdleIsAJob DEF VolumeLost, disk, Proven, TypeOK, TriesOK
<1>19. ASSUME RemoteMoves PROVE TriesOK'
  BY <1>19, IdleIsAJob DEF RemoteMoves, disk, Proven, TypeOK, TriesOK
<1>20. ASSUME ReadMirror PROVE TriesOK'
  BY <1>20, IdleIsAJob DEF ReadMirror, disk, Proven, TypeOK, TriesOK
<1>21. ASSUME UNCHANGED vars PROVE TriesOK'
  BY <1>21, IdleIsAJob DEF vars, disk, Proven, TypeOK, TriesOK
<1> QED
  BY <1>1, <1>2, <1>3, <1>4, <1>5, <1>6, <1>7, <1>8, <1>9, <1>10, <1>11,
     <1>12, <1>13, <1>14, <1>15, <1>16, <1>17, <1>18, <1>19, <1>20, <1>21 DEF
     Next, WorkerStep

\* A version of the row names one profile.
LEMMA ProfileKept ==
  ASSUME Proven, [Next]_vars PROVE ProfileOK'
<1>1. ASSUME NEW c \in Client, Read(c) PROVE ProfileOK'
  BY <1>1, IdleIsAJob, SyncConstants DEF Read, disk, Proven, ProfileOK
<1>2. ASSUME NEW c \in Client, Update(c) PROVE ProfileOK'
  <2>1. UpdateDoes
    BY <1>2, UpdateEffect DEF Proven
  <2> QED
    BY <2>1, IdleIsAJob, SyncConstants DEF UpdateDoes, Others, Moves, Idles,
       Proven, ProfileOK
<1>3. ASSUME NEW c \in Client, Validate(c) PROVE ProfileOK'
  <2>1. ValidateDoes
    BY <1>3, ValidateEffect DEF Proven
  <2> QED
    BY <2>1, IdleIsAJob, SyncConstants DEF ValidateDoes, Others, Moves,
       Idles, Proven, ProfileOK
<1>4. ASSUME NEW w \in Worker, Claim(w) PROVE ProfileOK'
  <2>1. ClaimDoes(w)
    BY <1>4, ClaimEffect DEF Proven
  <2> QED
    BY <2>1, IdleIsAJob, SyncConstants DEF ClaimDoes, Others, Moves, Idles,
       Proven, ProfileOK
<1>5. ASSUME NEW w \in Worker, Enter(w) PROVE ProfileOK'
  <2>1. EnterDoes(w)
    BY <1>5, EnterEffect DEF Proven
  <2> QED
    BY <2>1, IdleIsAJob, SyncConstants DEF EnterDoes, Others, Moves, Idles,
       Proven, ProfileOK
<1>6. ASSUME NEW w \in Worker, Error(w) PROVE ProfileOK'
  <2>1. ErrorDoes(w)
    BY <1>6, ErrorEffect DEF Proven
  <2> QED
    BY <2>1, IdleIsAJob, SyncConstants DEF ErrorDoes, Others, Moves, Idles,
       Proven, ProfileOK
<1>7. ASSUME NEW w \in Worker, Lost(w) PROVE ProfileOK'
  <2>1. LostDoes(w)
    BY <1>7, LostEffect DEF Proven
  <2> QED
    BY <2>1, IdleIsAJob, SyncConstants DEF LostDoes, Others, Moves, Idles,
       Proven, ProfileOK
<1>8. ASSUME NEW w \in Worker, Start(w) PROVE ProfileOK'
  <2>1. StartDoes(w)
    BY <1>8, StartEffect DEF Proven
  <2> QED
    BY <2>1, IdleIsAJob, SyncConstants DEF StartDoes, Others, Moves, Idles,
       Proven, ProfileOK
<1>9. ASSUME NEW w \in Worker, ListRemote(w) PROVE ProfileOK'
  <2>1. ListRemoteDoes(w)
    BY <1>9, ListRemoteEffect DEF Proven
  <2> QED
    BY <2>1, IdleIsAJob, SyncConstants DEF ListRemoteDoes, Others, Moves,
       Idles, Proven, ProfileOK
<1>10. ASSUME NEW w \in Worker, Fetch(w) PROVE ProfileOK'
  <2>1. FetchDoes(w)
    BY <1>10, FetchEffect DEF Proven
  <2> QED
    BY <2>1, IdleIsAJob, SyncConstants DEF FetchDoes, Others, Moves, Idles,
       Proven, ProfileOK
<1>11. ASSUME NEW w \in Worker, Moved(w) PROVE ProfileOK'
  <2>1. MovedDoes(w)
    BY <1>11, MovedEffect DEF Proven
  <2> QED
    BY <2>1, IdleIsAJob, SyncConstants DEF MovedDoes, Others, Moves, Idles,
       Proven, ProfileOK
<1>12. ASSUME NEW w \in Worker, Publish(w) PROVE ProfileOK'
  <2>1. PublishDoes(w)
    BY <1>12, PublishEffect DEF Proven
  <2> QED
    BY <2>1, IdleIsAJob, SyncConstants DEF PublishDoes, Others, Moves,
       Idles, Proven, ProfileOK
<1>13. ASSUME NEW w \in Worker, Record(w) PROVE ProfileOK'
  <2>1. RecordDoes(w)
    BY <1>13, RecordEffect DEF Proven
  <2> QED
    BY <2>1, IdleIsAJob, SyncConstants DEF RecordDoes, Others, Moves, Idles,
       Proven, ProfileOK
<1>14. ASSUME NEW w \in Worker, StartUp(w) PROVE ProfileOK'
  <2>1. StartUpDoes(w)
    BY <1>14, StartUpEffect DEF Proven
  <2> QED
    BY <2>1, IdleIsAJob, SyncConstants DEF StartUpDoes, Others, Moves,
       Idles, Proven, ProfileOK
<1>15. ASSUME NEW w \in Worker, Crash(w) PROVE ProfileOK'
  <2>1. CrashDoes(w)
    BY <1>15, CrashEffect DEF Proven
  <2> QED
    BY <2>1, IdleIsAJob, SyncConstants DEF CrashDoes, Others, Moves, Idles,
       Proven, ProfileOK
<1>16. ASSUME Due PROVE ProfileOK'
  <2>1. DueDoes
    BY <1>16, DueEffect DEF Proven
  <2> QED
    BY <2>1, IdleIsAJob, SyncConstants DEF DueDoes, Others, Moves, Idles,
       Proven, ProfileOK
<1>17. ASSUME LeaseExpires PROVE ProfileOK'
  BY <1>17, IdleIsAJob, SyncConstants DEF LeaseExpires, disk, Proven,
     ProfileOK
<1>18. ASSUME VolumeLost PROVE ProfileOK'
  BY <1>18, IdleIsAJob, SyncConstants DEF VolumeLost, disk, Proven,
     ProfileOK
<1>19. ASSUME RemoteMoves PROVE ProfileOK'
  BY <1>19, IdleIsAJob, SyncConstants DEF RemoteMoves, disk, Proven,
     ProfileOK
<1>20. ASSUME ReadMirror PROVE ProfileOK'
  BY <1>20, IdleIsAJob, SyncConstants DEF ReadMirror, disk, Proven,
     ProfileOK
<1>21. ASSUME UNCHANGED vars PROVE ProfileOK'
  BY <1>21, IdleIsAJob, SyncConstants DEF vars, disk, Proven, ProfileOK
<1> QED
  BY <1>1, <1>2, <1>3, <1>4, <1>5, <1>6, <1>7, <1>8, <1>9, <1>10, <1>11,
     <1>12, <1>13, <1>14, <1>15, <1>16, <1>17, <1>18, <1>19, <1>20, <1>21 DEF
     Next, WorkerStep

\* Readiness is proven for the profile in the row.
LEMMA ReadyKept ==
  ASSUME Proven, [Next]_vars PROVE ReadyIsProven'
<1>1. ASSUME NEW c \in Client, Read(c) PROVE ReadyIsProven'
  BY <1>1 DEF Read, disk, Proven, ProfileOK, ReadyIsProven
<1>2. ASSUME NEW c \in Client, Update(c) PROVE ReadyIsProven'
  <2>1. UpdateDoes
    BY <1>2, UpdateEffect DEF Proven
  <2> QED
    BY <2>1 DEF UpdateDoes, Others, Moves, Idles, Proven, ProfileOK,
       ReadyIsProven
<1>3. ASSUME NEW c \in Client, Validate(c) PROVE ReadyIsProven'
  <2>1. ValidateDoes
    BY <1>3, ValidateEffect DEF Proven
  <2> QED
    BY <2>1 DEF ValidateDoes, Others, Moves, Idles, Proven, ProfileOK,
       ReadyIsProven
<1>4. ASSUME NEW w \in Worker, Claim(w) PROVE ReadyIsProven'
  <2>1. ClaimDoes(w)
    BY <1>4, ClaimEffect DEF Proven
  <2> QED
    BY <2>1 DEF ClaimDoes, Others, Moves, Idles, Proven, ProfileOK,
       ReadyIsProven
<1>5. ASSUME NEW w \in Worker, Enter(w) PROVE ReadyIsProven'
  <2>1. EnterDoes(w)
    BY <1>5, EnterEffect DEF Proven
  <2> QED
    BY <2>1 DEF EnterDoes, Others, Moves, Idles, Proven, ProfileOK,
       ReadyIsProven
<1>6. ASSUME NEW w \in Worker, Error(w) PROVE ReadyIsProven'
  <2>1. ErrorDoes(w)
    BY <1>6, ErrorEffect DEF Proven
  <2> QED
    BY <2>1 DEF ErrorDoes, Others, Moves, Idles, Proven, ProfileOK,
       ReadyIsProven
<1>7. ASSUME NEW w \in Worker, Lost(w) PROVE ReadyIsProven'
  <2>1. LostDoes(w)
    BY <1>7, LostEffect DEF Proven
  <2> QED
    BY <2>1 DEF LostDoes, Others, Moves, Idles, Proven, ProfileOK,
       ReadyIsProven
<1>8. ASSUME NEW w \in Worker, Start(w) PROVE ReadyIsProven'
  <2>1. StartDoes(w)
    BY <1>8, StartEffect DEF Proven
  <2> QED
    BY <2>1 DEF StartDoes, Others, Moves, Idles, Proven, ProfileOK,
       ReadyIsProven
<1>9. ASSUME NEW w \in Worker, ListRemote(w) PROVE ReadyIsProven'
  <2>1. ListRemoteDoes(w)
    BY <1>9, ListRemoteEffect DEF Proven
  <2> QED
    BY <2>1 DEF ListRemoteDoes, Others, Moves, Idles, Proven, ProfileOK,
       ReadyIsProven
<1>10. ASSUME NEW w \in Worker, Fetch(w) PROVE ReadyIsProven'
  <2>1. FetchDoes(w)
    BY <1>10, FetchEffect DEF Proven
  <2> QED
    BY <2>1 DEF FetchDoes, Others, Moves, Idles, Proven, ProfileOK,
       ReadyIsProven
<1>11. ASSUME NEW w \in Worker, Moved(w) PROVE ReadyIsProven'
  <2>1. MovedDoes(w)
    BY <1>11, MovedEffect DEF Proven
  <2> QED
    BY <2>1 DEF MovedDoes, Others, Moves, Idles, Proven, ProfileOK,
       ReadyIsProven
<1>12. ASSUME NEW w \in Worker, Publish(w) PROVE ReadyIsProven'
  <2>1. PublishDoes(w)
    BY <1>12, PublishEffect DEF Proven
  <2> QED
    BY <2>1 DEF PublishDoes, Others, Moves, Idles, Proven, ProfileOK,
       ReadyIsProven
<1>13. ASSUME NEW w \in Worker, Record(w) PROVE ReadyIsProven'
  <2>1. RecordDoes(w)
    BY <1>13, RecordEffect DEF Proven
  <2> QED
    BY <2>1 DEF RecordDoes, Others, Moves, Idles, Proven, ProfileOK,
       ReadyIsProven
<1>14. ASSUME NEW w \in Worker, StartUp(w) PROVE ReadyIsProven'
  <2>1. StartUpDoes(w)
    BY <1>14, StartUpEffect DEF Proven
  <2> QED
    BY <2>1 DEF StartUpDoes, Others, Moves, Idles, Proven, ProfileOK,
       ReadyIsProven
<1>15. ASSUME NEW w \in Worker, Crash(w) PROVE ReadyIsProven'
  <2>1. CrashDoes(w)
    BY <1>15, CrashEffect DEF Proven
  <2> QED
    BY <2>1 DEF CrashDoes, Others, Moves, Idles, Proven, ProfileOK,
       ReadyIsProven
<1>16. ASSUME Due PROVE ReadyIsProven'
  <2>1. DueDoes
    BY <1>16, DueEffect DEF Proven
  <2> QED
    BY <2>1 DEF DueDoes, Others, Moves, Idles, Proven, ProfileOK,
       ReadyIsProven
<1>17. ASSUME LeaseExpires PROVE ReadyIsProven'
  BY <1>17 DEF LeaseExpires, disk, Proven, ProfileOK, ReadyIsProven
<1>18. ASSUME VolumeLost PROVE ReadyIsProven'
  BY <1>18 DEF VolumeLost, disk, Proven, ProfileOK, ReadyIsProven
<1>19. ASSUME RemoteMoves PROVE ReadyIsProven'
  BY <1>19 DEF RemoteMoves, disk, Proven, ProfileOK, ReadyIsProven
<1>20. ASSUME ReadMirror PROVE ReadyIsProven'
  BY <1>20 DEF ReadMirror, disk, Proven, ProfileOK, ReadyIsProven
<1>21. ASSUME UNCHANGED vars PROVE ReadyIsProven'
  BY <1>21 DEF vars, disk, Proven, ProfileOK, ReadyIsProven
<1> QED
  BY <1>1, <1>2, <1>3, <1>4, <1>5, <1>6, <1>7, <1>8, <1>9, <1>10, <1>11,
     <1>12, <1>13, <1>14, <1>15, <1>16, <1>17, <1>18, <1>19, <1>20, <1>21 DEF
     Next, WorkerStep

\* The file lock.
LEMMA LockKept ==
  ASSUME Mirrored, [Next]_vars PROVE LockOK'
<1>1. ASSUME NEW c \in Client, Read(c) PROVE LockOK'
  BY <1>1, IdleIsAJob, SyncConstants DEF Read, disk, Mirrored, LockOK,
     Inside, Drops
<1>2. ASSUME NEW c \in Client, Update(c) PROVE LockOK'
  <2>1. UpdateDoes
    BY <1>2, UpdateEffect DEF Proven, Mirrored
  <2> QED
    BY <2>1, IdleIsAJob, SyncConstants DEF UpdateDoes, Others, Moves, Idles,
       Mirrored, LockOK, Inside, Drops
<1>3. ASSUME NEW c \in Client, Validate(c) PROVE LockOK'
  <2>1. ValidateDoes
    BY <1>3, ValidateEffect DEF Proven, Mirrored
  <2> QED
    BY <2>1, IdleIsAJob, SyncConstants DEF ValidateDoes, Others, Moves,
       Idles, Mirrored, LockOK, Inside, Drops
<1>4. ASSUME NEW w \in Worker, Claim(w) PROVE LockOK'
  <2>1. ClaimDoes(w)
    BY <1>4, ClaimEffect DEF Proven, Mirrored
  <2> QED
    BY <2>1, IdleIsAJob, SyncConstants DEF ClaimDoes, Others, Moves, Idles,
       Mirrored, LockOK, Inside, Drops
<1>5. ASSUME NEW w \in Worker, Enter(w) PROVE LockOK'
  <2>1. EnterDoes(w)
    BY <1>5, EnterEffect DEF Proven, Mirrored
  <2> QED
    BY <2>1, IdleIsAJob, SyncConstants DEF EnterDoes, Others, Moves, Idles,
       Mirrored, LockOK, Inside, Drops
<1>6. ASSUME NEW w \in Worker, Error(w) PROVE LockOK'
  <2>1. ErrorDoes(w)
    BY <1>6, ErrorEffect DEF Proven, Mirrored
  <2> QED
    BY <2>1, IdleIsAJob, SyncConstants DEF ErrorDoes, Others, Moves, Idles,
       Mirrored, LockOK, Inside, Drops
<1>7. ASSUME NEW w \in Worker, Lost(w) PROVE LockOK'
  <2>1. LostDoes(w)
    BY <1>7, LostEffect DEF Proven, Mirrored
  <2> QED
    BY <2>1, IdleIsAJob, SyncConstants DEF LostDoes, Others, Moves, Idles,
       Mirrored, LockOK, Inside, Drops
<1>8. ASSUME NEW w \in Worker, Start(w) PROVE LockOK'
  <2>1. StartDoes(w)
    BY <1>8, StartEffect DEF Proven, Mirrored
  <2> QED
    BY <2>1, IdleIsAJob, SyncConstants DEF StartDoes, Others, Moves, Idles,
       Mirrored, LockOK, Inside, Drops
<1>9. ASSUME NEW w \in Worker, ListRemote(w) PROVE LockOK'
  <2>1. ListRemoteDoes(w)
    BY <1>9, ListRemoteEffect DEF Proven, Mirrored
  <2> QED
    BY <2>1, IdleIsAJob, SyncConstants DEF ListRemoteDoes, Others, Moves,
       Idles, Mirrored, LockOK, Inside, Drops
<1>10. ASSUME NEW w \in Worker, Fetch(w) PROVE LockOK'
  <2>1. FetchDoes(w)
    BY <1>10, FetchEffect DEF Proven, Mirrored
  <2> QED
    BY <2>1, IdleIsAJob, SyncConstants DEF FetchDoes, Others, Moves, Idles,
       Mirrored, LockOK, Inside, Drops
<1>11. ASSUME NEW w \in Worker, Moved(w) PROVE LockOK'
  <2>1. MovedDoes(w)
    BY <1>11, MovedEffect DEF Proven, Mirrored
  <2> QED
    BY <2>1, IdleIsAJob, SyncConstants DEF MovedDoes, Others, Moves, Idles,
       Mirrored, LockOK, Inside, Drops
<1>12. ASSUME NEW w \in Worker, Publish(w) PROVE LockOK'
  <2>1. PublishDoes(w)
    BY <1>12, PublishEffect DEF Proven, Mirrored
  <2> QED
    BY <2>1, IdleIsAJob, SyncConstants DEF PublishDoes, Others, Moves,
       Idles, Mirrored, LockOK, Inside, Drops
<1>13. ASSUME NEW w \in Worker, Record(w) PROVE LockOK'
  <2>1. RecordDoes(w)
    BY <1>13, RecordEffect DEF Proven, Mirrored
  <2> QED
    BY <2>1, IdleIsAJob, SyncConstants DEF RecordDoes, Others, Moves, Idles,
       Mirrored, LockOK, Inside, Drops
<1>14. ASSUME NEW w \in Worker, StartUp(w) PROVE LockOK'
  <2>1. StartUpDoes(w)
    BY <1>14, StartUpEffect DEF Proven, Mirrored
  <2> QED
    BY <2>1, IdleIsAJob, SyncConstants DEF StartUpDoes, Others, Moves,
       Idles, Mirrored, LockOK, Inside, Drops
<1>15. ASSUME NEW w \in Worker, Crash(w) PROVE LockOK'
  <2>1. CrashDoes(w)
    BY <1>15, CrashEffect DEF Proven, Mirrored
  <2> QED
    BY <2>1, IdleIsAJob, SyncConstants DEF CrashDoes, Others, Moves, Idles,
       Mirrored, LockOK, Inside, Drops
<1>16. ASSUME Due PROVE LockOK'
  <2>1. DueDoes
    BY <1>16, DueEffect DEF Proven, Mirrored
  <2> QED
    BY <2>1, IdleIsAJob, SyncConstants DEF DueDoes, Others, Moves, Idles,
       Mirrored, LockOK, Inside, Drops
<1>17. ASSUME LeaseExpires PROVE LockOK'
  BY <1>17, IdleIsAJob, SyncConstants DEF LeaseExpires, disk, Mirrored,
     LockOK, Inside, Drops
<1>18. ASSUME VolumeLost PROVE LockOK'
  BY <1>18, IdleIsAJob, SyncConstants DEF VolumeLost, disk, Mirrored,
     LockOK, Inside, Drops
<1>19. ASSUME RemoteMoves PROVE LockOK'
  BY <1>19, IdleIsAJob, SyncConstants DEF RemoteMoves, disk, Mirrored,
     LockOK, Inside, Drops
<1>20. ASSUME ReadMirror PROVE LockOK'
  BY <1>20, IdleIsAJob, SyncConstants DEF ReadMirror, disk, Mirrored,
     LockOK, Inside, Drops
<1>21. ASSUME UNCHANGED vars PROVE LockOK'
  BY <1>21, IdleIsAJob, SyncConstants DEF vars, disk, Mirrored, LockOK,
     Inside, Drops
<1> QED
  BY <1>1, <1>2, <1>3, <1>4, <1>5, <1>6, <1>7, <1>8, <1>9, <1>10, <1>11,
     <1>12, <1>13, <1>14, <1>15, <1>16, <1>17, <1>18, <1>19, <1>20, <1>21 DEF
     Next, WorkerStep

\* The commits that were fetched.
LEMMA FetchedKept ==
  ASSUME Mirrored, [Next]_vars PROVE FetchedOK'
<1>1. ASSUME NEW c \in Client, Read(c) PROVE FetchedOK'
  BY <1>1, IdleIsAJob DEF Read, disk, Mirrored, LockOK, FetchedOK, Inside,
     Drops
<1>2. ASSUME NEW c \in Client, Update(c) PROVE FetchedOK'
  <2>1. UpdateDoes
    BY <1>2, UpdateEffect DEF Proven, Mirrored
  <2> QED
    BY <2>1, IdleIsAJob DEF UpdateDoes, Others, Moves, Idles, Mirrored,
       LockOK, FetchedOK, Inside, Drops
<1>3. ASSUME NEW c \in Client, Validate(c) PROVE FetchedOK'
  <2>1. ValidateDoes
    BY <1>3, ValidateEffect DEF Proven, Mirrored
  <2> QED
    BY <2>1, IdleIsAJob DEF ValidateDoes, Others, Moves, Idles, Mirrored,
       LockOK, FetchedOK, Inside, Drops
<1>4. ASSUME NEW w \in Worker, Claim(w) PROVE FetchedOK'
  <2>1. ClaimDoes(w)
    BY <1>4, ClaimEffect DEF Proven, Mirrored
  <2> QED
    BY <2>1, IdleIsAJob DEF ClaimDoes, Others, Moves, Idles, Mirrored,
       LockOK, FetchedOK, Inside, Drops
<1>5. ASSUME NEW w \in Worker, Enter(w) PROVE FetchedOK'
  <2>1. EnterDoes(w)
    BY <1>5, EnterEffect DEF Proven, Mirrored
  <2> QED
    BY <2>1, IdleIsAJob DEF EnterDoes, Others, Moves, Idles, Mirrored,
       LockOK, FetchedOK, Inside, Drops
<1>6. ASSUME NEW w \in Worker, Error(w) PROVE FetchedOK'
  <2>1. ErrorDoes(w)
    BY <1>6, ErrorEffect DEF Proven, Mirrored
  <2> QED
    BY <2>1, IdleIsAJob DEF ErrorDoes, Others, Moves, Idles, Mirrored,
       LockOK, FetchedOK, Inside, Drops
<1>7. ASSUME NEW w \in Worker, Lost(w) PROVE FetchedOK'
  <2>1. LostDoes(w)
    BY <1>7, LostEffect DEF Proven, Mirrored
  <2> QED
    BY <2>1, IdleIsAJob DEF LostDoes, Others, Moves, Idles, Mirrored,
       LockOK, FetchedOK, Inside, Drops
<1>8. ASSUME NEW w \in Worker, Start(w) PROVE FetchedOK'
  <2>1. StartDoes(w)
    BY <1>8, StartEffect DEF Proven, Mirrored
  <2> QED
    BY <2>1, IdleIsAJob DEF StartDoes, Others, Moves, Idles, Mirrored,
       LockOK, FetchedOK, Inside, Drops
<1>9. ASSUME NEW w \in Worker, ListRemote(w) PROVE FetchedOK'
  <2>1. ListRemoteDoes(w)
    BY <1>9, ListRemoteEffect DEF Proven, Mirrored
  <2> QED
    BY <2>1, IdleIsAJob DEF ListRemoteDoes, Others, Moves, Idles, Mirrored,
       LockOK, FetchedOK, Inside, Drops
<1>10. ASSUME NEW w \in Worker, Fetch(w) PROVE FetchedOK'
  <2>1. FetchDoes(w)
    BY <1>10, FetchEffect DEF Proven, Mirrored
  <2> QED
    BY <2>1, IdleIsAJob DEF FetchDoes, Others, Moves, Idles, Mirrored,
       LockOK, FetchedOK, Inside, Drops
<1>11. ASSUME NEW w \in Worker, Moved(w) PROVE FetchedOK'
  <2>1. MovedDoes(w)
    BY <1>11, MovedEffect DEF Proven, Mirrored
  <2> QED
    BY <2>1, IdleIsAJob DEF MovedDoes, Others, Moves, Idles, Mirrored,
       LockOK, FetchedOK, Inside, Drops
<1>12. ASSUME NEW w \in Worker, Publish(w) PROVE FetchedOK'
  <2>1. PublishDoes(w)
    BY <1>12, PublishEffect DEF Proven, Mirrored
  <2> QED
    BY <2>1, IdleIsAJob DEF PublishDoes, Others, Moves, Idles, Mirrored,
       LockOK, FetchedOK, Inside, Drops
<1>13. ASSUME NEW w \in Worker, Record(w) PROVE FetchedOK'
  <2>1. RecordDoes(w)
    BY <1>13, RecordEffect DEF Proven, Mirrored
  <2> QED
    BY <2>1, IdleIsAJob DEF RecordDoes, Others, Moves, Idles, Mirrored,
       LockOK, FetchedOK, Inside, Drops
<1>14. ASSUME NEW w \in Worker, StartUp(w) PROVE FetchedOK'
  <2>1. StartUpDoes(w)
    BY <1>14, StartUpEffect DEF Proven, Mirrored
  <2> QED
    BY <2>1, IdleIsAJob DEF StartUpDoes, Others, Moves, Idles, Mirrored,
       LockOK, FetchedOK, Inside, Drops
<1>15. ASSUME NEW w \in Worker, Crash(w) PROVE FetchedOK'
  <2>1. CrashDoes(w)
    BY <1>15, CrashEffect DEF Proven, Mirrored
  <2> QED
    BY <2>1, IdleIsAJob DEF CrashDoes, Others, Moves, Idles, Mirrored,
       LockOK, FetchedOK, Inside, Drops
<1>16. ASSUME Due PROVE FetchedOK'
  <2>1. DueDoes
    BY <1>16, DueEffect DEF Proven, Mirrored
  <2> QED
    BY <2>1, IdleIsAJob DEF DueDoes, Others, Moves, Idles, Mirrored, LockOK,
       FetchedOK, Inside, Drops
<1>17. ASSUME LeaseExpires PROVE FetchedOK'
  BY <1>17, IdleIsAJob DEF LeaseExpires, disk, Mirrored, LockOK, FetchedOK,
     Inside, Drops
<1>18. ASSUME VolumeLost PROVE FetchedOK'
  BY <1>18, IdleIsAJob DEF VolumeLost, disk, Mirrored, LockOK, FetchedOK,
     Inside, Drops
<1>19. ASSUME RemoteMoves PROVE FetchedOK'
  BY <1>19, IdleIsAJob DEF RemoteMoves, disk, Mirrored, LockOK, FetchedOK,
     Inside, Drops
<1>20. ASSUME ReadMirror PROVE FetchedOK'
  BY <1>20, IdleIsAJob DEF ReadMirror, disk, Mirrored, LockOK, FetchedOK,
     Inside, Drops
<1>21. ASSUME UNCHANGED vars PROVE FetchedOK'
  BY <1>21, IdleIsAJob DEF vars, disk, Mirrored, LockOK, FetchedOK, Inside,
     Drops
<1> QED
  BY <1>1, <1>2, <1>3, <1>4, <1>5, <1>6, <1>7, <1>8, <1>9, <1>10, <1>11,
     <1>12, <1>13, <1>14, <1>15, <1>16, <1>17, <1>18, <1>19, <1>20, <1>21 DEF
     Next, WorkerStep

\* Readiness and the mirror.
LEMMA MirroredKept ==
  ASSUME MaxSkips = 0, Mirrored, [Next]_vars PROVE MirroredOK'
<1>1. ASSUME NEW c \in Client, Read(c) PROVE MirroredOK'
  BY <1>1, IdleIsAJob DEF Read, disk, Mirrored, Proven, LockOK, FetchedOK,
     MirroredOK, ReadyIsProven, Inside
<1>2. ASSUME NEW c \in Client, Update(c) PROVE MirroredOK'
  <2>1. UpdateDoes
    BY <1>2, UpdateEffect DEF Proven, Mirrored
  <2> QED
    BY <2>1, IdleIsAJob DEF UpdateDoes, Others, Moves, Idles, Mirrored,
       Proven, LockOK, FetchedOK, MirroredOK, ReadyIsProven, Inside
<1>3. ASSUME NEW c \in Client, Validate(c) PROVE MirroredOK'
  <2>1. ValidateDoes
    BY <1>3, ValidateEffect DEF Proven, Mirrored
  <2> QED
    BY <2>1, IdleIsAJob DEF ValidateDoes, Others, Moves, Idles, Mirrored,
       Proven, LockOK, FetchedOK, MirroredOK, ReadyIsProven, Inside
<1>4. ASSUME NEW w \in Worker, Claim(w) PROVE MirroredOK'
  <2>1. ClaimDoes(w)
    BY <1>4, ClaimEffect DEF Proven, Mirrored
  <2> QED
    BY <2>1, IdleIsAJob DEF ClaimDoes, Others, Moves, Idles, Mirrored,
       Proven, LockOK, FetchedOK, MirroredOK, ReadyIsProven, Inside
<1>5. ASSUME NEW w \in Worker, Enter(w) PROVE MirroredOK'
  <2>1. EnterDoes(w)
    BY <1>5, EnterEffect DEF Proven, Mirrored
  <2> QED
    BY <2>1, IdleIsAJob DEF EnterDoes, Others, Moves, Idles, Mirrored,
       Proven, LockOK, FetchedOK, MirroredOK, ReadyIsProven, Inside
<1>6. ASSUME NEW w \in Worker, Error(w) PROVE MirroredOK'
  <2>1. ErrorDoes(w)
    BY <1>6, ErrorEffect DEF Proven, Mirrored
  <2> QED
    BY <2>1, IdleIsAJob DEF ErrorDoes, Others, Moves, Idles, Mirrored,
       Proven, LockOK, FetchedOK, MirroredOK, ReadyIsProven, Inside
<1>7. ASSUME NEW w \in Worker, Lost(w) PROVE MirroredOK'
  <2>1. LostDoes(w)
    BY <1>7, LostEffect DEF Proven, Mirrored
  <2> QED
    BY <2>1, IdleIsAJob DEF LostDoes, Others, Moves, Idles, Mirrored,
       Proven, LockOK, FetchedOK, MirroredOK, ReadyIsProven, Inside
<1>8. ASSUME NEW w \in Worker, Start(w) PROVE MirroredOK'
  <2>1. StartDoes(w)
    BY <1>8, StartEffect DEF Proven, Mirrored
  <2> QED
    BY <2>1, IdleIsAJob DEF StartDoes, Others, Moves, Idles, Mirrored,
       Proven, LockOK, FetchedOK, MirroredOK, ReadyIsProven, Inside
<1>9. ASSUME NEW w \in Worker, ListRemote(w) PROVE MirroredOK'
  <2>1. ListRemoteDoes(w)
    BY <1>9, ListRemoteEffect DEF Proven, Mirrored
  <2> QED
    BY <2>1, IdleIsAJob DEF ListRemoteDoes, Others, Moves, Idles, Mirrored,
       Proven, LockOK, FetchedOK, MirroredOK, ReadyIsProven, Inside
<1>10. ASSUME NEW w \in Worker, Fetch(w) PROVE MirroredOK'
  <2>1. FetchDoes(w)
    BY <1>10, FetchEffect DEF Proven, Mirrored
  <2> QED
    BY <2>1, IdleIsAJob DEF FetchDoes, Others, Moves, Idles, Mirrored,
       Proven, LockOK, FetchedOK, MirroredOK, ReadyIsProven, Inside
<1>11. ASSUME NEW w \in Worker, Moved(w) PROVE MirroredOK'
  <2>1. MovedDoes(w)
    BY <1>11, MovedEffect DEF Proven, Mirrored
  <2> QED
    BY <2>1, IdleIsAJob DEF MovedDoes, Others, Moves, Idles, Mirrored,
       Proven, LockOK, FetchedOK, MirroredOK, ReadyIsProven, Inside
<1>12. ASSUME NEW w \in Worker, Publish(w) PROVE MirroredOK'
  <2>1. PublishDoes(w)
    BY <1>12, PublishEffect DEF Proven, Mirrored
  <2> QED
    BY <2>1, IdleIsAJob DEF PublishDoes, Others, Moves, Idles, Mirrored,
       Proven, LockOK, FetchedOK, MirroredOK, ReadyIsProven, Inside
<1>13. ASSUME NEW w \in Worker, Record(w) PROVE MirroredOK'
  <2>1. RecordDoes(w)
    BY <1>13, RecordEffect DEF Proven, Mirrored
  <2> QED
    BY <2>1, IdleIsAJob DEF RecordDoes, Others, Moves, Idles, Mirrored,
       Proven, LockOK, FetchedOK, MirroredOK, ReadyIsProven, Inside
<1>14. ASSUME NEW w \in Worker, StartUp(w) PROVE MirroredOK'
  <2>1. StartUpDoes(w)
    BY <1>14, StartUpEffect DEF Proven, Mirrored
  <2> QED
    BY <2>1, IdleIsAJob DEF StartUpDoes, Others, Moves, Idles, Mirrored,
       Proven, LockOK, FetchedOK, MirroredOK, ReadyIsProven, Inside, Missing
<1>15. ASSUME NEW w \in Worker, Crash(w) PROVE MirroredOK'
  <2>1. CrashDoes(w)
    BY <1>15, CrashEffect DEF Proven, Mirrored
  <2> QED
    BY <2>1, IdleIsAJob DEF CrashDoes, Others, Moves, Idles, Mirrored,
       Proven, LockOK, FetchedOK, MirroredOK, ReadyIsProven, Inside
<1>16. ASSUME Due PROVE MirroredOK'
  <2>1. DueDoes
    BY <1>16, DueEffect DEF Proven, Mirrored
  <2> QED
    BY <2>1, IdleIsAJob DEF DueDoes, Others, Moves, Idles, Mirrored, Proven,
       LockOK, FetchedOK, MirroredOK, ReadyIsProven, Inside
<1>17. ASSUME LeaseExpires PROVE MirroredOK'
  <2>1. UNCHANGED <<row, up, mirror>>
    BY <1>17 DEF LeaseExpires, disk
  <2> QED BY <2>1 DEF Mirrored, MirroredOK
<1>18. ASSUME VolumeLost PROVE MirroredOK'
  <2>1. mirror'.there = FALSE /\ up' = {} /\ row' = row
    BY <1>18 DEF VolumeLost, NoMirror
  <2> QED BY <2>1 DEF MirroredOK
<1>19. ASSUME RemoteMoves PROVE MirroredOK'
  BY <1>19, IdleIsAJob DEF RemoteMoves, disk, Mirrored, Proven, LockOK,
     FetchedOK, MirroredOK, ReadyIsProven, Inside
<1>20. ASSUME ReadMirror PROVE MirroredOK'
  BY <1>20, IdleIsAJob DEF ReadMirror, disk, Mirrored, Proven, LockOK,
     FetchedOK, MirroredOK, ReadyIsProven, Inside
<1>21. ASSUME UNCHANGED vars PROVE MirroredOK'
  BY <1>21, IdleIsAJob DEF vars, disk, Mirrored, Proven, LockOK, FetchedOK,
     MirroredOK, ReadyIsProven, Inside
<1> QED
  BY <1>1, <1>2, <1>3, <1>4, <1>5, <1>6, <1>7, <1>8, <1>9, <1>10, <1>11,
     <1>12, <1>13, <1>14, <1>15, <1>16, <1>17, <1>18, <1>19, <1>20, <1>21 DEF
     Next, WorkerStep

----------------------------------------------------------------------------
(* The theorems                                                             *)

LEMMA InitProven == Init => Proven
<1> SUFFICES ASSUME Init PROVE Proven
  OBVIOUS
<1>1. PICK p \in Profile :
        /\ row = [status |-> "pending_validation", enabled |-> TRUE, due |-> "now",
                  profile |-> p, commit |-> NoCommit]
        /\ proven = p
  BY DEF Init
<1>2. row \in Row /\ row.status = "pending_validation"
  BY <1>1 DEF Row, Status
<1>3. work = [w \in Worker |-> Idle] /\ work \in [Worker -> Job] /\ fresh = {}
  BY IdleIsAJob DEF Init
<1>4. faults \in [updates : 0..MaxUpdates, skips : 0..MaxSkips, others : 0..MaxFaults]
  BY SyncConstants DEF Init
<1>5. /\ lease \in [holder : Worker \union {NoOne}, live : BOOLEAN]
      /\ up \subseteq Worker /\ lock \in Worker \union {Reader, NoOne}
      /\ mirror \in [there : BOOLEAN, has : SUBSET Commit, head : Commit \union {NoCommit}]
      /\ staging \in [Worker -> SUBSET Commit] /\ remote \in Commit
  BY SyncConstants DEF Init, NoMirror, Commit
<1>6. TypeOK
  BY <1>1, <1>2, <1>3, <1>4, <1>5 DEF TypeOK
<1>7. TriesOK /\ ProfileOK /\ ReadyIsProven
  BY <1>2, <1>3, IdleIsAJob DEF TriesOK, ProfileOK, ReadyIsProven
<1> QED BY <1>6, <1>7 DEF Proven

LEMMA InitMirrored == Init => Mirrored
<1> SUFFICES ASSUME Init PROVE Mirrored
  OBVIOUS
<1>1. row.status = "pending_validation" /\ work = [w \in Worker |-> Idle]
  BY DEF Init
<1>2. LockOK /\ FetchedOK /\ MirroredOK
  BY <1>1, IdleIsAJob DEF LockOK, FetchedOK, MirroredOK, Inside
<1> QED BY <1>2, InitProven DEF Mirrored

LEMMA NextProven == Proven /\ [Next]_vars => Proven'
BY TypeKept, TriesKept, ProfileKept, ReadyKept DEF Proven

\* What every reachable state satisfies, whatever fails.
LEMMA ProvenAlways == Spec => []Proven
BY InitProven, NextProven, PTL DEF Spec

\* Every reachable state is well typed, for any workers, clients and profiles.
THEOREM TypeCorrect == Spec => []TypeOK
<1>1. Proven => TypeOK
  BY DEF Proven
<1> QED BY <1>1, ProvenAlways, PTL

\* A ready repository is enabled and was proven with the auth profile that it
\* names, whatever was edited while it was synchronised.
THEOREM ReadinessIsProven == Spec => []ReadyIsProven
<1>1. Proven => ReadyIsProven
  BY DEF Proven
<1> QED BY <1>1, ProvenAlways, PTL

\* When no start-up finds the row locked, the commit of a ready repository is in
\* its mirror while a worker is up, whatever crashes and whatever is lost.
THEOREM ReadinessIsMirrored == MaxSkips = 0 => (Spec => []ReadyIsMirrored)
<1>1. ASSUME MaxSkips = 0 PROVE Spec => []ReadyIsMirrored
  <2>1. Mirrored /\ [Next]_vars => Mirrored'
    BY <1>1, NextProven, LockKept, FetchedKept, MirroredKept DEF Mirrored
  <2>2. Mirrored => ReadyIsMirrored
    BY DEF Mirrored, MirroredOK, ReadyIsMirrored
  <2> QED BY <2>1, <2>2, InitMirrored, PTL DEF Spec
<1> QED BY <1>1

=============================================================================
