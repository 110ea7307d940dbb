-------------------------- MODULE TelegramNotifier --------------------------
(***************************************************************************)
(* The opt-in notifier (notifications/telegram_notifier.py): it polls the  *)
(* audit log by creation time, sends every new event to Telegram and keeps *)
(* its cursors and the delivered ids in a local SQLite file.  An event may *)
(* be committed long after the time it carries.                            *)
(***************************************************************************)
EXTENDS Integers, FiniteSets

CONSTANTS
  Process,       \* notifier processes that share the state volume
  NoOne,
  MaxEvent,      \* bound: audit events, numbered by their ids
  MaxTime,       \* bound: the clock of PostgreSQL
  Settle,        \* settle_seconds
  Overlap,       \* overlap_seconds
  Interval,      \* reconciliation_interval_seconds
  Window,        \* reconciliation_window_days
  Keep,          \* how long delivered ids are kept
  Batch,         \* batch_size
  MaxDelay,      \* bound: the longest delay of a commit
  MaxGap,        \* bound: the longest time without a scan
  MaxFaults      \* bound: refused messages and failed reads, crashes and
                 \* messages sent without a confirmation, all together

ASSUME NotifierConstants ==
  /\ NoOne \notin Process
  /\ {MaxEvent, MaxTime, Settle, Overlap, Window, MaxDelay, MaxFaults} \subseteq Nat
  /\ {Interval, Batch, MaxGap} \subseteq Nat \ {0}
  /\ Keep \in Nat /\ Keep >= Window /\ Keep >= Overlap

VARIABLES
  now,       \* the clock
  events,    \* when each audit event was created and committed
  store,     \* the cursors in the state file
  marked,    \* the delivered ids in the state file, with their times
  owner,     \* the process that holds the lock of the state file
  poll,      \* the poll of that process
  sent,      \* history: how often each event reached Telegram
  faults

vars == <<now, events, store, marked, owner, poll, sent, faults>>

Event == 1..MaxEvent
Never == -1
Time == 0..MaxTime
Nothing == 0

Store == [started : Time \union {Never}, scan : Time \union {Never},
          swept : Time \union {Never}, backoff : Nat \union {Never}]
Poll == [at : {"idle", "page", "send", "answer", "mark"}, clock : Time \union {Never},
         pass : {"backlog", "sweep"}, page : SUBSET Event, last : Event \union {Nothing},
         more : BOOLEAN, event : Event \union {Nothing}]

Rest == [at |-> "idle", clock |-> Never, pass |-> "backlog", page |-> {}, last |-> Nothing,
         more |-> FALSE, event |-> Nothing]

Init ==
  /\ now = 0 /\ events = [e \in Event |-> [created |-> Never, committed |-> Never]]
  /\ store = [started |-> Never, scan |-> Never, swept |-> Never, backoff |-> Never]
  /\ marked = [e \in Event |-> Never]
  /\ owner = NoOne /\ poll = Rest
  /\ sent = [e \in Event |-> 0]
  /\ faults = [failures |-> 0, interrupts |-> 0]

Fault(kind) ==
  /\ faults.failures + faults.interrupts < MaxFaults
  /\ faults' = [faults EXCEPT ![kind] = @ + 1]

----------------------------------------------------------------------------
(* The audit log and the clock                                              *)

Create(e) ==
  /\ events[e].created = Never
  /\ events' = [events EXCEPT ![e].created = now]
  /\ UNCHANGED <<now, store, marked, owner, poll, sent, faults>>

Commit(e) ==
  /\ events[e].created # Never /\ events[e].committed = Never
  /\ events' = [events EXCEPT ![e].committed = now]
  /\ UNCHANGED <<now, store, marked, owner, poll, sent, faults>>

\* The clock of the last scan that was complete.
Scanned == store.scan + Settle

\* Time passes; no transaction is longer than MaxDelay, and no outage of the
\* notifier longer than MaxGap.
Tick ==
  /\ now < MaxTime /\ now' = now + 1
  /\ \A e \in Event : events[e].created # Never /\ events[e].committed = Never =>
       now < events[e].created + MaxDelay
  /\ store.started # Never => now < Scanned + MaxGap
  /\ UNCHANGED <<events, store, marked, owner, poll, sent, faults>>

----------------------------------------------------------------------------
(* The process: main, StateStore, poll_once                                 *)

\* Mutant: the state file is opened by whoever comes.
Unlocked(p) == owner' = p

\* flock: a second process stops when it finds the lock held.
Locked(p) == owner = NoOne /\ owner' = p

Start(p) ==
  /\ owner # p /\ Locked(p) /\ poll' = Rest
  /\ UNCHANGED <<now, events, store, marked, sent, faults>>

Crash ==
  /\ owner # NoOne /\ Fault("interrupts")
  /\ owner' = NoOne /\ poll' = Rest
  /\ UNCHANGED <<now, events, store, marked, sent>>

Until == poll.clock - Settle

\* The reading of the clock, bootstrap and the early returns of poll_once.
Begin ==
  /\ owner # NoOne /\ poll.at = "idle"
  /\ IF store.started = Never
     THEN /\ store' = [store EXCEPT !.started = now, !.scan = now, !.swept = now]
          /\ UNCHANGED poll
     ELSE /\ now >= store.backoff /\ now - Settle > store.scan
          /\ poll' = [Rest EXCEPT !.at = "page", !.clock = now]
          /\ UNCHANGED store
  /\ UNCHANGED <<now, events, marked, owner, sent, faults>>

Larger(a, b) == IF a > b THEN a ELSE b

Since ==
  Larger(store.started,
         IF poll.pass = "backlog" THEN store.scan - Overlap ELSE Until - Window)

\* ORDER BY created_at, id
Precedes(e, f) ==
  \/ events[e].created < events[f].created
  \/ events[e].created = events[f].created /\ e < f

\* The rows of the next page's query: read committed, one transaction.
Rows ==
  {e \in Event : /\ events[e].committed # Never
                 /\ events[e].created \in Since..Until
                 /\ poll.last # Nothing => Precedes(poll.last, e)}

\* LIMIT: the first rows, all of them if there are no more than the batch.
IsPage(page) ==
  /\ \A e \in page, f \in Rows \ page : Precedes(e, f)
  /\ Cardinality(page) = Batch \/ (page = Rows /\ Cardinality(page) < Batch)

IsLast(e, page) == e \in page /\ \A f \in page : f = e \/ Precedes(f, e)

ReadPage ==
  /\ poll.at = "page"
  /\ \E page \in SUBSET Rows :
       /\ IsPage(page)
       /\ \E last \in Event \union {Nothing} :
            /\ IF page = {} THEN last = poll.last ELSE IsLast(last, page)
            /\ poll' = [poll EXCEPT !.at = "send", !.page = page, !.last = last,
                          !.more = Cardinality(page) = Batch]
  /\ UNCHANGED <<now, events, store, marked, owner, sent, faults>>

\* Mutant: a poll that fails has scanned its range.
Advances == store' = [store EXCEPT !.scan = Until]

\* A poll that fails leaves the cursors alone.
Stays == UNCHANGED store

\* The database or Telegram refuses; the poll is abandoned.
Fail ==
  /\ poll.at \in {"page", "send"} /\ Fault("failures")
  /\ poll' = Rest /\ Stays
  /\ UNCHANGED <<now, events, marked, owner, sent>>

\* The event that the loop comes to.
Oldest(e) == e \in poll.page /\ \A f \in poll.page : f = e \/ Precedes(e, f)

\* An event that was delivered is passed over; another is sent.
Send ==
  /\ poll.at = "send"
  /\ \E e \in poll.page :
       /\ Oldest(e)
       /\ poll' = IF marked[e] # Never THEN [poll EXCEPT !.page = @ \ {e}]
                                       ELSE [poll EXCEPT !.at = "answer", !.event = e]
  /\ UNCHANGED <<now, events, store, marked, owner, sent, faults>>

Delivers == sent' = [sent EXCEPT ![poll.event] = @ + 1]

Confirmed ==
  /\ poll.at = "answer" /\ Delivers
  /\ poll' = [poll EXCEPT !.at = "mark"]
  /\ UNCHANGED <<now, events, store, marked, owner, faults>>

\* The message arrives, its confirmation does not.
Unconfirmed ==
  /\ poll.at = "answer" /\ Delivers
  /\ Fault("interrupts") /\ poll' = Rest
  /\ UNCHANGED <<now, events, store, marked, owner>>

\* Telegram's HTTP 429 names the time of the next attempt.
RateLimited ==
  /\ poll.at = "answer" /\ Fault("failures") /\ poll' = Rest
  /\ \E t \in now + 1 .. Scanned + MaxGap : store' = [store EXCEPT !.backoff = t]
  /\ UNCHANGED <<now, events, marked, owner, sent>>

Mark ==
  /\ poll.at = "mark"
  /\ marked' = [marked EXCEPT ![poll.event] = poll.clock]
  /\ poll' = [poll EXCEPT !.at = "send", !.page = @ \ {poll.event}, !.event = Nothing]
  /\ UNCHANGED <<now, events, store, owner, sent, faults>>

NextPage ==
  /\ poll.at = "send" /\ poll.page = {} /\ poll.more
  /\ poll' = [poll EXCEPT !.at = "page"]
  /\ UNCHANGED <<now, events, store, marked, owner, sent, faults>>

\* Mutant: the retrospective pass is never due.
NeverDue == FALSE

SweepDue == poll.clock - store.swept >= Interval

Keeps(e) == marked[e] >= poll.clock - Keep

\* The poll is over: old ids are dropped.
Complete ==
  /\ poll' = Rest
  /\ marked' = [e \in Event |-> IF Keeps(e) THEN marked[e] ELSE Never]

EndPass ==
  /\ poll.at = "send" /\ poll.page = {} /\ ~poll.more
  /\ IF poll.pass = "sweep"
     THEN store' = [store EXCEPT !.swept = poll.clock] /\ Complete
     ELSE /\ store' = [store EXCEPT !.scan = Until]
          /\ IF SweepDue
             THEN /\ poll' = [poll EXCEPT !.at = "page", !.pass = "sweep", !.last = Nothing]
                  /\ UNCHANGED marked
             ELSE Complete
  /\ UNCHANGED <<now, events, owner, sent, faults>>

PollStep ==
  Begin \/ ReadPage \/ Send \/ Confirmed \/ Mark \/ NextPage \/ EndPass

Next ==
  \/ \E e \in Event : Create(e) \/ Commit(e)
  \/ \E p \in Process : Start(p)
  \/ Tick \/ Crash \/ PollStep \/ Fail \/ Unconfirmed \/ RateLimited

Spec == Init /\ [][Next]_vars

\* Time passes, transactions end, the service is restarted and goes on polling.
FairSpec ==
  Spec /\ WF_vars(Tick) /\ WF_vars(\E e \in Event : Commit(e)) /\ WF_vars(\E p \in Process : Start(p)) /\ WF_vars(PollStep)

----------------------------------------------------------------------------
(* Properties                                                               *)

TypeOK ==
  /\ now \in Time
  /\ events \in [Event -> [created : Time \union {Never}, committed : Time \union {Never}]]
  /\ store \in Store
  /\ marked \in [Event -> Time \union {Never}]
  /\ owner \in Process \union {NoOne}
  /\ poll \in Poll
  /\ sent \in [Event -> Nat]
  /\ faults \in [failures : Nat, interrupts : Nat]
  /\ faults.failures + faults.interrupts <= MaxFaults

\* An event reaches Telegram once, and once more for each interruption
\* between a message and its mark: never because of a page, an overlap, a
\* retrospective pass, a second process or a dropped id.
RepeatsAreInterruptions == \A e \in Event : sent[e] <= 1 + faults.interrupts

\* The cursor has passed no event that was committed within the settling
\* time, delivered or not: failed polls, pages and restarts lose nothing.
CursorIsHonest ==
  \A e \in Event :
    /\ events[e].committed # Never
    /\ events[e].committed < events[e].created + Settle
    /\ store.scan > store.started
    /\ events[e].created \in store.started..store.scan
    => sent[e] > 0

\* The time a retrospective pass may need, with every failure on the way.
SweepTime == Interval + Settle + 1 + MaxGap * (1 + MaxFaults)

\* Every event committed early enough before the last poll is delivered.
EveryEventArrives ==
  \A e \in Event :
    [](/\ events[e].committed # Never /\ store.started # Never
       /\ events[e].created >= store.started
       /\ events[e].committed <= MaxTime - SweepTime
       => <>(sent[e] > 0))

=============================================================================
