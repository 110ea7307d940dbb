--------------------------- MODULE RepositorySync ---------------------------
(***************************************************************************)
(* One registered repository: its row, the managers' versioned edits of it *)
(* (main.py), and the Repo Manager that leases it, synchronises a bare     *)
(* mirror under a file lock and records the result                         *)
(* (repository_manager.py).                                                *)
(*                                                                         *)
(* A version of the row is named by who still holds it: "fresh" is the set *)
(* of workers and clients whose remembered version is the row's.           *)
(***************************************************************************)
EXTENDS Integers, FiniteSets

CONSTANTS
  Worker,          \* Repo Manager workers
  Client,          \* managers at the API
  NoOne,
  Profile,         \* auth profiles the row may refer to
  MaxRemote,       \* bound: commits pushed to the remote
  MaxUpdates,      \* bound: edits and validation requests
  MaxFaults,       \* bound: crashes of a worker, leases that expire under a live worker,
                   \* losses of the mirror volume and its use by others, together
  MaxSkips         \* bound: start-ups that find the row locked

Reader == "workspace manager"

ASSUME SyncConstants ==
  /\ Worker \intersect Client = {} /\ NoOne \notin Worker \union Client
  /\ Reader \notin Worker \union {NoOne}
  /\ Profile # {}
  /\ {MaxRemote, MaxUpdates, MaxFaults, MaxSkips} \subseteq Nat

VARIABLES
  row,      \* status, enabled, due, auth profile and commit of the repository
  lease,    \* who holds the synchronisation lease, and whether it is unexpired
  fresh,    \* who remembers the row's current version
  work,     \* what each worker is doing
  up,       \* the workers that have finished their start-up
  lock,     \* who holds the file lock of the mirror
  mirror,   \* the commits in the published mirror, and the head of its branch
  staging,  \* the unpublished mirrors, by the worker that made them
  remote,   \* the head of the remote's default branch
  proven,   \* history: the profile under which the row was last proven ready
  faults    \* how many edits, skips and other faults have happened

vars == <<row, lease, fresh, work, up, lock, mirror, staging, remote, proven, faults>>
disk == <<lock, mirror, staging>>

Commit == 0..MaxRemote
NoCommit == -1
NoMirror == [there |-> FALSE, has |-> {}, head |-> NoCommit]
Status == {"pending_validation", "validating", "ready", "unavailable", "invalid"}
Idle == [at |-> "idle", head |-> NoCommit, profile |-> CHOOSE p \in Profile : TRUE,
         created |-> FALSE, tries |-> 0]

\* The row, and what a worker does.
Row == [status : Status, enabled : BOOLEAN, due : {"now", "later", "never"},
        profile : Profile, commit : Commit \union {NoCommit}]
Job == [at : {"idle", "enter", "start", "head", "fetch", "verify", "moved", "done", "failed",
              "refused"},
        head : Commit \union {NoCommit}, profile : Profile, created : BOOLEAN, tries : 0..2]

Init ==
  \E p \in Profile :
    /\ row = [status |-> "pending_validation", enabled |-> TRUE, due |-> "now",
              profile |-> p, commit |-> NoCommit]
    /\ lease = [holder |-> NoOne, live |-> FALSE]
    /\ fresh = {} /\ work = [w \in Worker |-> Idle] /\ up = {}
    /\ lock = NoOne /\ mirror = NoMirror
    /\ staging = [w \in Worker |-> {}]
    /\ remote = 0 /\ proven = p
    /\ faults = [updates |-> 0, skips |-> 0, others |-> 0]

Use(fault) == faults' = [faults EXCEPT ![fault] = @ + 1]
Fault == faults.others < MaxFaults /\ Use("others")

----------------------------------------------------------------------------
(* The API                                                                  *)

Read(c) ==
  /\ c \notin fresh /\ fresh' = fresh \union {c}
  /\ UNCHANGED <<row, lease, work, up, disk, remote, proven, faults>>

\* Whatever is no longer proven goes back to the queue, if it is enabled.
Requeued(changed) ==
  [changed EXCEPT !.status = "pending_validation",
                  !.due = IF changed.enabled THEN "now" ELSE "never"]

\* update_repository: the policy changes, or the profile or the switch.
Update(c) ==
  /\ c \in fresh /\ faults.updates < MaxUpdates /\ Use("updates")
  /\ \/ UNCHANGED row
     \/ row' = Requeued([row EXCEPT !.enabled = ~@])
     \/ \E p \in Profile \ {row.profile} : row' = Requeued([row EXCEPT !.profile = p])
  /\ fresh' = {}
  /\ UNCHANGED <<lease, work, up, disk, remote, proven>>

\* request_repository_validation
Validate(c) ==
  /\ c \in fresh /\ row.enabled /\ faults.updates < MaxUpdates /\ Use("updates")
  /\ row' = Requeued(row)
  /\ fresh' = {}
  /\ UNCHANGED <<lease, work, up, disk, remote, proven>>

----------------------------------------------------------------------------
(* The lease                                                                *)

\* Mutant: the status and the version of the row are not compared.
OwnedByLease(w) == lease.holder = w /\ lease.live

Owned(w) ==
  /\ row.enabled /\ row.status = "validating" /\ w \in fresh
  /\ lease.holder = w /\ lease.live

\* Mutant: a lease that was never released is not taken over.
NeverExpired == lease.holder # NoOne

Held == lease.holder # NoOne /\ lease.live

Goes(w, at) == work' = [work EXCEPT ![w].at = at]
Leaves(w) == work' = [work EXCEPT ![w] = Idle]

Claim(w) ==
  /\ w \in up /\ work[w] = Idle
  /\ row.enabled /\ row.due = "now" /\ ~Held
  /\ row' = [row EXCEPT !.status = "validating"]
  /\ lease' = [holder |-> w, live |-> TRUE]
  /\ fresh' = {w}
  /\ work' = [work EXCEPT ![w] = [Idle EXCEPT !.at = "enter", !.profile = row.profile]]
  /\ UNCHANGED <<up, disk, remote, proven, faults>>

\* sync_next_at comes.
Due ==
  /\ row.due = "later" /\ row' = [row EXCEPT !.due = "now"]
  /\ UNCHANGED <<lease, fresh, work, up, disk, remote, proven, faults>>

LeaseExpires ==
  /\ lease.live
  /\ IF work[lease.holder] = Idle THEN UNCHANGED faults
     ELSE Fault
  /\ lease' = [lease EXCEPT !.live = FALSE]
  /\ UNCHANGED <<row, fresh, work, up, disk, remote, proven>>

----------------------------------------------------------------------------
(* The synchronisation                                                      *)

Free(w) == lock' = (IF lock = w THEN NoOne ELSE lock)

\* The finally clause: an unpublished mirror is removed.
DropStaging(w) == staging' = [staging EXCEPT ![w] = {}]

\* An error ends the attempt; the lock is released, then the row is written.
Breaks(w, at) == Goes(w, at) /\ Free(w) /\ DropStaging(w) /\ UNCHANGED mirror

\* How each part of a synchronisation may fail: for now or for good.
CredentialFails == {"failed", "refused"}  \* no such profile, or of another host
AddressFails == {"failed", "refused"}     \* no answer, or a forbidden address
RootFails == {"refused"}                  \* the storage root is not a directory of ours
SizeFails == {"refused"}                  \* too large, or a symbolic link inside
SpaceFails == {"failed"}                  \* the volume is nearly full
CommandFails == {"failed", "refused"}     \* exit code or timeout, or too much output
HeadFails == {"failed", "refused"}        \* no head, or an unusable branch name
RegistryFails == {"refused"}              \* the row's remote is not canonical

Fails ==
  [enter  |-> RegistryFails \union CredentialFails \union AddressFails \union RootFails,
   start  |-> SizeFails \union SpaceFails,
   head   |-> CommandFails \union HeadFails,
   fetch  |-> CommandFails,
   verify |-> CommandFails \union SizeFails]

Error(w) ==
  /\ work[w].at \in DOMAIN Fails
  /\ \E at \in Fails[work[w].at] : Breaks(w, at)
  /\ UNCHANGED <<row, lease, fresh, up, remote, proven, faults>>

\* _repository_lock, shared with the workspace manager's readers.
Enter(w) ==
  /\ work[w].at = "enter"
  /\ IF lock # NoOne THEN Goes(w, "failed") /\ UNCHANGED lock
     ELSE Goes(w, "start") /\ lock' = w
  /\ UNCHANGED <<row, lease, fresh, up, mirror, staging, remote, proven, faults>>

\* _ensure_lease before every command: the worker that lost it stops.
Lost(w) ==
  /\ work[w].at \in {"start", "head", "fetch", "verify"} /\ ~Owned(w)
  /\ Leaves(w) /\ Free(w) /\ DropStaging(w)
  /\ UNCHANGED <<row, lease, fresh, up, mirror, remote, proven, faults>>

SweepStaging == staging' = [w \in Worker |-> {}]

Start(w) ==
  /\ work[w].at = "start" /\ Owned(w)
  /\ SweepStaging
  /\ work' = [work EXCEPT ![w] = [@ EXCEPT !.at = "head", !.created = ~mirror.there]]
  /\ UNCHANGED <<row, lease, fresh, up, lock, mirror, remote, proven, faults>>

\* git ls-remote, then the new mirror is initialised in staging.
ListRemote(w) ==
  /\ work[w].at = "head" /\ Owned(w)
  /\ work' = [work EXCEPT ![w] = [@ EXCEPT !.at = "fetch", !.head = remote]]
  /\ UNCHANGED <<row, lease, fresh, up, disk, remote, proven, faults>>

HeadMatches(w) == remote = work[w].head

\* git fetch --prune, into staging or into the mirror.
FetchInto(w) ==
  IF work[w].created
  THEN staging' = [staging EXCEPT ![w] = @ \union {remote}] /\ UNCHANGED mirror
  ELSE /\ mirror' = [mirror EXCEPT !.has = @ \union {remote}, !.head = remote]
       /\ UNCHANGED staging

\* A fetch that finds another head than announced is repeated once.  The lease
\* was there when the command began and may be lost while it runs.
Fetch(w) ==
  /\ work[w].at = "fetch"
  /\ FetchInto(w)
  /\ LET next == IF HeadMatches(w) THEN "verify"
                 ELSE IF work[w].tries = 0 THEN "fetch" ELSE "moved"
     IN work' = [work EXCEPT ![w] = [@ EXCEPT !.tries = work[w].tries + 1, !.at = next]]
  /\ UNCHANGED <<row, lease, fresh, up, lock, remote, proven, faults>>

\* remote_changed_during_sync
Moved(w) ==
  /\ work[w].at = "moved" /\ Breaks(w, "failed")
  /\ UNCHANGED <<row, lease, fresh, up, remote, proven, faults>>

\* fsck, the size check and the rename that publishes a new mirror.
Publish(w) ==
  /\ work[w].at = "verify"
  /\ mirror' = IF work[w].created
               THEN [there |-> TRUE, has |-> staging[w], head |-> work[w].head]
               ELSE mirror
  /\ DropStaging(w) /\ Free(w) /\ Goes(w, "done")
  /\ UNCHANGED <<row, lease, fresh, up, remote, proven, faults>>

\* mark_success, mark_failure
Records(w, status, due) ==
  IF Owned(w)
  THEN /\ row' = [row EXCEPT !.status = status, !.due = due,
                             !.commit = IF status = "ready" THEN work[w].head ELSE @]
       /\ lease' = [holder |-> NoOne, live |-> FALSE]
       /\ fresh' = {}
       /\ proven' = IF status = "ready" THEN work[w].profile ELSE proven
  ELSE UNCHANGED <<row, lease, fresh, proven>>

Record(w) ==
  /\ \/ work[w].at = "done" /\ Records(w, "ready", "later")
     \/ work[w].at = "failed" /\ Records(w, "unavailable", "later")
     \/ work[w].at = "refused" /\ Records(w, "invalid", "never")
  /\ Leaves(w)
  /\ UNCHANGED <<up, disk, remote, faults>>

----------------------------------------------------------------------------
(* Start-up, crashes and the rest of the system                             *)

\* Mutant: readiness is not compared with the mirrors at start-up.
NothingMissing == FALSE

Missing == row.enabled /\ row.status = "ready" /\ ~mirror.there

\* reconcile_mirror_cache; a row locked by another transaction is skipped.
StartUp(w) ==
  /\ w \notin up /\ up' = up \union {w}
  /\ \/ /\ IF Missing
           THEN /\ row' = Requeued(row) /\ fresh' = {}
                /\ lease' = [holder |-> NoOne, live |-> FALSE]
           ELSE UNCHANGED <<row, lease, fresh>>
        /\ UNCHANGED faults
     \/ faults.skips < MaxSkips /\ Use("skips") /\ UNCHANGED <<row, lease, fresh>>
  /\ UNCHANGED <<work, disk, remote, proven>>

Crash(w) ==
  /\ w \in up /\ Fault
  /\ up' = up \ {w} /\ Leaves(w) /\ Free(w)
  /\ UNCHANGED <<row, lease, fresh, mirror, staging, remote, proven>>

\* The mirror volume is replaced by an empty one; the workers are restarted.
VolumeLost ==
  /\ Fault
  /\ lock # Reader /\ lock' = NoOne
  /\ mirror' = NoMirror /\ staging' = [w \in Worker |-> {}]
  /\ up' = {} /\ work' = [w \in Worker |-> Idle]
  /\ UNCHANGED <<row, lease, fresh, remote, proven>>

RemoteMoves ==
  /\ remote < MaxRemote /\ remote' = remote + 1
  /\ UNCHANGED <<row, lease, fresh, work, up, disk, proven, faults>>

\* The workspace manager prepares a workspace under the shared lock.
ReadMirror ==
  /\ \/ lock = NoOne /\ mirror.there /\ Fault /\ lock' = Reader
     \/ lock = Reader /\ lock' = NoOne /\ UNCHANGED faults
  /\ UNCHANGED <<row, lease, fresh, work, up, mirror, staging, remote, proven>>

WorkerStep(w) ==
  \/ Enter(w) \/ Error(w) \/ Lost(w) \/ Start(w) \/ ListRemote(w)
  \/ Fetch(w) \/ Moved(w) \/ Publish(w) \/ Record(w)

Next ==
  \/ \E c \in Client : Read(c) \/ Update(c) \/ Validate(c)
  \/ \E w \in Worker : Claim(w) \/ WorkerStep(w) \/ StartUp(w) \/ Crash(w)
  \/ Due \/ LeaseExpires \/ VolumeLost \/ RemoteMoves \/ ReadMirror

Spec == Init /\ [][Next]_vars

\* Workers are started, claim what is due and go on; time passes.
FairSpec ==
  /\ Spec
  /\ \A w \in Worker : WF_vars(StartUp(w)) /\ WF_vars(Claim(w)) /\ WF_vars(WorkerStep(w))
  /\ WF_vars(LeaseExpires)

----------------------------------------------------------------------------
(* Properties                                                               *)

TypeOK ==
  /\ row \in Row
  /\ lease \in [holder : Worker \union {NoOne}, live : BOOLEAN]
  /\ fresh \subseteq Worker \union Client
  /\ work \in [Worker -> Job] /\ staging \in [Worker -> SUBSET Commit]
  /\ up \subseteq Worker
  /\ lock \in Worker \union {Reader, NoOne}
  /\ mirror \in [there : BOOLEAN, has : SUBSET Commit, head : Commit \union {NoCommit}]
  /\ remote \in Commit /\ proven \in Profile
  /\ faults \in [updates : 0..MaxUpdates, skips : 0..MaxSkips, others : 0..MaxFaults]

\* A ready repository is enabled and was proven with the auth profile it
\* names now, whatever was edited while it was being synchronised.
ReadyIsProven == row.status = "ready" => row.enabled /\ proven = row.profile

\* While a worker is up, the commit of a ready repository is in its mirror:
\* a workspace never starts from readiness detached from local storage.
ReadyIsMirrored ==
  row.status = "ready" /\ up # {} => mirror.there /\ row.commit \in mirror.has

\* An enabled repository that waits for validation gets a verdict: an edit
\* under a running synchronisation, a crash, a lost lease or a busy mirror
\* only delays it.
ValidationEnds ==
  row.status \in {"pending_validation", "validating"} ~>
    row.status \in {"ready", "unavailable", "invalid"} \/ ~row.enabled

=============================================================================
