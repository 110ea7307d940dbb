------------------------ MODULE TelegramNotifierProofs ------------------------
(***************************************************************************)
(* Theorems about TelegramNotifier, for any processes, events, times and   *)
(* fault bounds.                                                           *)
(***************************************************************************)
EXTENDS TelegramNotifier, TLAPS

----------------------------------------------------------------------------
(* The inductive invariant                                                  *)

Polling == poll.at # "idle"

\* A poll belongs to the owner of the state file; it reads up to a time that has
\* settled, from the cursor of the last one.
PollOK ==
  /\ owner = NoOne => ~Polling
  /\ Polling => /\ store.started # Never
                /\ poll.clock \in 0..now /\ store.scan <= Until
                /\ poll.pass = "sweep" => store.scan = Until
                /\ \A e \in poll.page : events[e].created \in Since..Until
                /\ poll.last # Nothing => events[poll.last].created # Never
  /\ poll.at \in {"answer", "mark"} => poll.event \in poll.page /\ marked[poll.event] = Never
  /\ poll.at = "mark" => sent[poll.event] > 0

\* The cursor starts where the service started, and moves to settled times.
CursorOK ==
  /\ IF store.started = Never THEN store.scan = Never ELSE store.scan >= store.started
  /\ store.scan > store.started => store.scan + Settle <= now

\* No query reads the event any more.
Gone(e) == events[e].created < store.scan - Overlap /\ events[e].created < store.scan - Window

\* What the marks are good for: without one, an event that may be read again has
\* been sent in interrupted polls only.
MarksOK ==
  \A e \in Event :
    /\ events[e].created = Never =>
         events[e].committed = Never /\ sent[e] = 0 /\ marked[e] = Never
    /\ marked[e] # Never => sent[e] > 0 /\ events[e].created + Settle <= marked[e]
    /\ marked[e] = Never =>
         Gone(e) \/ (poll.at = "mark" /\ poll.event = e) \/ sent[e] <= faults.interrupts

\* Committed within the settling time.
Prompt(e) == events[e].committed # Never /\ events[e].committed < events[e].created + Settle

After(e) == poll.last = Nothing \/ Precedes(poll.last, e)

\* What is still to come of a scan.
Ahead(e) ==
  IF poll.at = "page" THEN After(e) ELSE e \in poll.page \/ (poll.more /\ After(e))

ScanOK ==
  Polling /\ poll.pass = "backlog" =>
    \A e \in Event : Prompt(e) /\ events[e].created \in Since..Until => sent[e] > 0 \/ Ahead(e)

Sound ==
  TypeOK /\ PollOK /\ CursorOK /\ MarksOK /\ ScanOK /\ RepeatsAreInterruptions /\ CursorIsHonest

----------------------------------------------------------------------------
(* Types                                                                    *)

LEMMA FaultCounts ==
  ASSUME TypeOK, NEW kind \in {"failures", "interrupts"}, Fault(kind)
  PROVE  /\ faults' \in [failures : Nat, interrupts : Nat]
         /\ faults'.failures + faults'.interrupts <= MaxFaults
         /\ faults'.interrupts = IF kind = "interrupts" THEN faults.interrupts + 1
                                                        ELSE faults.interrupts
BY NotifierConstants DEF TypeOK, Fault

LEMMA RestTyped == Rest \in Poll /\ Rest.at = "idle"
BY DEF Rest, Poll

LEMMA TypeStep == ASSUME Sound, [Next]_vars PROVE TypeOK'
<1> USE NotifierConstants
<1>0. TypeOK /\ PollOK /\ CursorOK
  BY DEF Sound
<1>t. now \in Time /\ Never \notin Time /\ Time \subseteq Int /\ Never \in Int
  BY <1>0 DEF TypeOK, Time, Never
<1>1. ASSUME NEW e \in Event, Create(e) PROVE TypeOK'
  <2>1. events' \in [Event -> [created : Time \union {Never}, committed : Time \union {Never}]]
    BY <1>0, <1>1, <1>t DEF Create, TypeOK
  <2> QED BY <1>0, <1>1, <2>1 DEF Create, TypeOK
<1>2. ASSUME NEW e \in Event, Commit(e) PROVE TypeOK'
  <2>1. events' \in [Event -> [created : Time \union {Never}, committed : Time \union {Never}]]
    BY <1>0, <1>2, <1>t DEF Commit, TypeOK
  <2> QED BY <1>0, <1>2, <2>1 DEF Commit, TypeOK
<1>3. ASSUME NEW p \in Process, Start(p) PROVE TypeOK'
  BY <1>0, <1>3, RestTyped DEF Start, Locked, TypeOK
<1>4. CASE Tick
  <2>1. now' \in Time
    BY <1>0, <1>4 DEF Tick, TypeOK, Time
  <2> QED BY <1>0, <1>4, <2>1 DEF Tick, TypeOK
<1>5. CASE Crash
  BY <1>0, <1>5, RestTyped, FaultCounts DEF Crash, TypeOK
<1>6. CASE Begin
  <2>1. store' \in Store
    BY <1>0, <1>6, <1>t DEF Begin, TypeOK, Store
  <2>2. [Rest EXCEPT !.at = "page", !.clock = now] \in Poll
    BY <1>t, RestTyped DEF Poll
  <2> QED BY <1>0, <1>6, <2>1, <2>2 DEF Begin, TypeOK
<1>7. CASE ReadPage
  <2> PICK page \in SUBSET Rows, last \in Event \union {Nothing} :
        poll' = [poll EXCEPT !.at = "send", !.page = page, !.last = last,
                   !.more = Cardinality(page) = Batch]
    BY <1>7 DEF ReadPage
  <2>1. poll' \in Poll
    BY <1>0 DEF TypeOK, Poll, Rows
  <2> QED BY <1>0, <1>7, <2>1 DEF ReadPage, TypeOK
<1>8. CASE Send
  <2> PICK e \in poll.page :
        poll' = IF marked[e] # Never THEN [poll EXCEPT !.page = @ \ {e}]
                                     ELSE [poll EXCEPT !.at = "answer", !.event = e]
    BY <1>8 DEF Send
  <2>1. poll' \in Poll
    BY <1>0 DEF TypeOK, Poll
  <2> QED BY <1>0, <1>8, <2>1 DEF Send, TypeOK
<1>9. ASSUME Delivers PROVE sent' \in [Event -> Nat]
  <2>1. sent \in [Event -> Nat] /\ sent' = [sent EXCEPT ![poll.event] = @ + 1]
    BY <1>0, <1>9 DEF Delivers, TypeOK
  <2>2. CASE poll.event \in Event
    <3>1. sent[poll.event] + 1 \in Nat
      BY <2>1, <2>2
    <3> QED BY <2>1, <3>1
  <2>3. CASE poll.event \notin Event
    BY <2>1, <2>3
  <2> QED BY <2>2, <2>3
<1>10. CASE Confirmed
  <2>1. poll' \in Poll
    BY <1>0, <1>10 DEF Confirmed, TypeOK, Poll
  <2> QED BY <1>0, <1>9, <1>10, <2>1 DEF Confirmed, TypeOK
<1>11. CASE Mark
  <2>1. poll' \in Poll
    BY <1>0, <1>11 DEF Mark, TypeOK, Poll
  <2>2. marked' \in [Event -> Time \union {Never}]
    BY <1>0, <1>11 DEF Mark, TypeOK, Poll
  <2> QED BY <1>0, <1>11, <2>1, <2>2 DEF Mark, TypeOK
<1>12. CASE NextPage
  <2>1. poll' \in Poll
    BY <1>0, <1>12 DEF NextPage, TypeOK, Poll
  <2> QED BY <1>0, <1>12, <2>1 DEF NextPage, TypeOK
<1>13. CASE EndPass
  <2>1. /\ Polling /\ poll \in Poll /\ store \in Store
    BY <1>0, <1>13 DEF EndPass, Polling, TypeOK
  <2>2. Until \in Time /\ poll.clock \in Time
    <3>1. /\ poll.clock \in 0..now /\ store.scan <= Until /\ store.started # Never
          /\ store.scan >= store.started
      BY <1>0, <2>1 DEF PollOK, CursorOK
    <3>2. store.started \in Time /\ store.scan \in Int
      BY <2>1, <3>1, <1>t DEF Store
    <3> QED BY <3>1, <3>2, <1>0 DEF Until, TypeOK, Time
  <2>3. ASSUME Complete PROVE poll' \in Poll /\ marked' \in [Event -> Time \union {Never}]
    BY <1>0, <2>3, RestTyped DEF Complete, TypeOK
  <2>4. store' \in Store
    BY <1>13, <2>1, <2>2 DEF EndPass, Store
  <2>5. [poll EXCEPT !.at = "page", !.pass = "sweep", !.last = Nothing] \in Poll
    BY <2>1 DEF Poll
  <2> QED BY <1>0, <1>13, <2>3, <2>4, <2>5 DEF EndPass, TypeOK
<1>14. CASE Fail
  BY <1>0, <1>14, RestTyped, FaultCounts DEF Fail, Stays, TypeOK
<1>15. CASE Unconfirmed
  BY <1>0, <1>9, <1>15, RestTyped, FaultCounts DEF Unconfirmed, TypeOK
<1>16. CASE RateLimited
  <2>1. store' \in Store
    <3> PICK t \in now + 1 .. Scanned + MaxGap : store' = [store EXCEPT !.backoff = t]
      BY <1>16 DEF RateLimited
    <3>1. t \in Nat
      BY <1>0 DEF TypeOK, Time, Store, Scanned, Never
    <3> QED BY <1>0, <3>1 DEF TypeOK, Store
  <2> QED BY <1>0, <1>16, <2>1, RestTyped, FaultCounts DEF RateLimited, TypeOK
<1>17. CASE UNCHANGED vars
  BY <1>0, <1>17 DEF vars, TypeOK
<1> QED
  BY <1>1, <1>2, <1>3, <1>4, <1>5, <1>6, <1>7, <1>8, <1>10, <1>11, <1>12, <1>13,
     <1>14, <1>15, <1>16, <1>17 DEF Next, PollStep

----------------------------------------------------------------------------
(* The poll                                                                 *)

\* All times are integers.
LEMMA Numbers ==
  ASSUME TypeOK
  PROVE  /\ now \in Nat /\ store.scan \in Int /\ store.started \in Int /\ store.swept \in Int
         /\ poll.clock \in Int /\ Until \in Int /\ Since \in Int
         /\ \A e \in Event : /\ events[e].created \in Int /\ events[e].committed \in Int
                             /\ marked[e] \in Int /\ sent[e] \in Nat
         /\ faults.interrupts \in Nat
         /\ Settle \in Nat /\ Overlap \in Nat /\ Window \in Nat /\ Keep \in Int /\ Batch \in Nat
         /\ store.started # Never => store.started >= 0
         /\ \A e \in Event : events[e].created # Never => events[e].created >= 0
<1> USE NotifierConstants
<1>1. Time \subseteq Int /\ Never \in Int /\ \A t \in Time : t >= 0
  BY DEF Time, Never
<1>2. store \in Store /\ poll \in Poll
  BY DEF TypeOK
<1>3. store.scan \in Int /\ store.started \in Int /\ store.swept \in Int /\ poll.clock \in Int
  BY <1>1, <1>2 DEF Store, Poll
<1>4. Until \in Int
  BY <1>3 DEF Until
<1>5. Since \in Int
  BY <1>3, <1>4 DEF Since, Larger
<1>6. now \in Nat
  BY DEF TypeOK, Time
<1>7. \A e \in Event : /\ events[e].created \in Time \union {Never}
                       /\ events[e].committed \in Time \union {Never}
                       /\ marked[e] \in Time \union {Never} /\ sent[e] \in Nat
  BY DEF TypeOK
<1>8. faults.interrupts \in Nat
  BY DEF TypeOK
<1>9. store.started # Never => store.started >= 0
  BY <1>1, <1>2 DEF Store
<1>10. /\ Settle \in Nat /\ Overlap \in Nat /\ Window \in Nat /\ Keep \in Int
       /\ Batch \in Nat
  OBVIOUS
<1>11. \A e \in Event : /\ events[e].created \in Int /\ events[e].committed \in Int
                        /\ marked[e] \in Int
                        /\ events[e].created # Never => events[e].created >= 0
  BY <1>1, <1>7
<1> HIDE NotifierConstants
<1> QED BY <1>3, <1>4, <1>5, <1>6, <1>7, <1>8, <1>9, <1>10, <1>11

\* What a poll reads was created when the service ran.
LEMMA SinceStarted == ASSUME TypeOK, PollOK, Polling PROVE Since >= store.started /\ Since >= 0
BY Numbers DEF PollOK, Since, Larger

\* Neither time nor the audit log changes what is known of an event.
LogMoves ==
  /\ \A e \in Event : events[e].created # Never => events'[e].created = events[e].created
  /\ \A e \in Event : events[e].committed # Never => events'[e].committed = events[e].committed
  /\ \A e \in Event : events[e].created = Never =>
       /\ events'[e].created \in {Never, now} /\ events[e].committed = Never
       /\ events'[e].committed = Never
  /\ \A e \in Event : events[e].committed = Never => events'[e].committed \in {Never, now}
  /\ now' \in Nat /\ now' >= now
  /\ UNCHANGED <<store, marked, owner, poll, sent, faults>>

LEMMA LogEffect ==
  ASSUME TypeOK, MarksOK, Tick \/ \E e \in Event : Create(e) \/ Commit(e)
  PROVE  LogMoves
<1>0. now \in Nat /\ \A e \in Event : events[e].created = Never => events[e].committed = Never
  BY Numbers DEF MarksOK
<1>1. CASE Tick
  BY <1>0, <1>1 DEF Tick, LogMoves
<1>2. ASSUME NEW e \in Event, Create(e) PROVE LogMoves
  BY <1>0, <1>2 DEF Create, LogMoves, TypeOK
<1>3. ASSUME NEW e \in Event, Commit(e) PROVE LogMoves
  BY <1>0, <1>3 DEF Commit, LogMoves, TypeOK
<1> QED BY <1>1, <1>2, <1>3

LEMMA LogKeeps ==
  ASSUME Sound, LogMoves
  PROVE  PollOK' /\ CursorOK' /\ MarksOK' /\ ScanOK' /\ RepeatsAreInterruptions' /\ CursorIsHonest'
<1> USE DEF LogMoves
<1>0. TypeOK /\ PollOK /\ CursorOK /\ MarksOK
  BY DEF Sound
<1>1. Until' = Until /\ Since' = Since
  BY DEF Until, Since, Larger
<1>2. \A e \in Event : Polling /\ events[e].created >= Since => events'[e].created = events[e].created
  BY <1>0, Numbers, SinceStarted DEF Never
<1>3. PollOK'
  <2>1. poll.page \subseteq Event /\ poll.last \in Event \union {Nothing}
    BY <1>0 DEF TypeOK, Poll
  <2>2. Polling => poll.clock \in 0..now'
    BY <1>0, Numbers DEF PollOK, TypeOK, Time
  <2>3. Polling => \A e \in poll.page : events'[e].created \in Since..Until
    BY <1>0, <1>2, <2>1, Numbers DEF PollOK
  <2>4. Polling /\ poll.last # Nothing => events'[poll.last].created # Never
    BY <1>0, <2>1 DEF PollOK
  <2> QED BY <1>0, <1>1, <2>2, <2>3, <2>4 DEF PollOK, Polling
<1>4. CursorOK'
  BY <1>0, Numbers DEF CursorOK
<1>5. MarksOK'
  <2> SUFFICES ASSUME NEW e \in Event
               PROVE  /\ events'[e].created = Never =>
                           events'[e].committed = Never /\ sent[e] = 0 /\ marked[e] = Never
                      /\ marked[e] # Never => sent[e] > 0 /\ events'[e].created + Settle <= marked[e]
                      /\ marked[e] = Never => \/ Gone(e)'
                                              \/ poll.at = "mark" /\ poll.event = e
                                              \/ sent[e] <= faults.interrupts
    BY DEF MarksOK
  <2>1. CASE events[e].created # Never
    BY <1>0, <2>1 DEF MarksOK, Gone
  <2>2. CASE events[e].created = Never
    BY <1>0, <2>2, Numbers DEF MarksOK
  <2> QED BY <2>1, <2>2
<1>6. ScanOK'
  <2> SUFFICES ASSUME Polling, poll.pass = "backlog", NEW e \in Event, Prompt(e)',
                      events'[e].created \in Since..Until
               PROVE  sent[e] > 0 \/ Ahead(e)'
    BY <1>1 DEF ScanOK, Polling
  <2>1. poll.clock <= now /\ poll.clock = Until + Settle /\ Since >= 0
    BY <1>0, Numbers, SinceStarted DEF PollOK, Until
  <2>2. events[e].created # Never
    BY <1>0 DEF Prompt, MarksOK
  <2>3. events'[e] .created = events[e].created
    BY <2>2
  <2>4. events[e].committed # Never
    <3> SUFFICES ASSUME events[e].committed = Never PROVE FALSE
      OBVIOUS
    <3>1. events'[e].committed = now
      BY DEF Prompt
    <3> QED BY <1>0, <2>1, <2>3, <3>1, Numbers DEF Prompt
  <2>5. Prompt(e)
    BY <2>3, <2>4 DEF Prompt
  <2>6. sent[e] > 0 \/ Ahead(e)
    BY <2>3, <2>5 DEF Sound, ScanOK
  <2>7. After(e) => After(e)'
    <3>1. poll.last # Nothing => poll.last \in Event /\ events[poll.last].created # Never
      BY <1>0 DEF PollOK, TypeOK, Poll
    <3> QED BY <2>3, <3>1 DEF After, Precedes
  <2> QED BY <2>6, <2>7 DEF Ahead
<1>7. RepeatsAreInterruptions'
  BY DEF Sound, RepeatsAreInterruptions
<1>8. CursorIsHonest'
  <2> SUFFICES ASSUME NEW e \in Event, Prompt(e)', store.scan > store.started,
                      events'[e].created \in store.started..store.scan
               PROVE  sent[e] > 0
    BY DEF CursorIsHonest, Prompt
  <2>1. store.scan + Settle <= now
    BY <1>0 DEF CursorOK
  <2>2. events[e].created # Never
    BY <1>0 DEF Prompt, MarksOK
  <2>3. events'[e] .created = events[e].created
    BY <2>2
  <2>4. events[e].committed # Never
    <3> SUFFICES ASSUME events[e].committed = Never PROVE FALSE
      OBVIOUS
    <3>1. events'[e].committed = now
      BY DEF Prompt
    <3> QED BY <1>0, <2>1, <2>3, <3>1, Numbers DEF Prompt
  <2> QED BY <2>3, <2>4 DEF Sound, CursorIsHonest, Prompt
<1> QED BY <1>3, <1>4, <1>5, <1>6, <1>7, <1>8

----------------------------------------------------------------------------
(* What the process does                                                    *)

\* The events of a page can be read again.
LEMMA PageStands ==
  ASSUME TypeOK, PollOK, Polling, NEW e \in poll.page
  PROVE  e \in Event /\ ~Gone(e) /\ events[e].created # Never
<1>1. e \in Event
  BY DEF TypeOK, Poll
<1>2. events[e].created >= Since /\ Since >= 0 /\ store.scan <= Until
  BY <1>1, Numbers, SinceStarted DEF PollOK
<1>3. events[e].created # Never
  BY <1>1, <1>2, Numbers DEF Never
<1>4. Since >= store.scan - Overlap \/ Since >= Until - Window
  BY Numbers DEF Since, Larger
<1>5. ~Gone(e)
  BY <1>1, <1>2, <1>4, Numbers DEF Gone
<1> QED BY <1>1, <1>3, <1>5

\* So an event that is being sent was sent in interrupted polls only.
LEMMA AnsweredBefore ==
  ASSUME Sound, poll.at = "answer"
  PROVE  /\ poll.event \in Event /\ poll.event \in poll.page /\ marked[poll.event] = Never
         /\ sent[poll.event] <= faults.interrupts
BY PageStands DEF Sound, PollOK, MarksOK, Polling

\* The poll is abandoned, having sent one message at most.
Abandons ==
  /\ poll'.at = "idle"
  /\ store'.started = store.started /\ store'.scan = store.scan
  /\ faults'.interrupts \in Nat /\ faults'.interrupts >= faults.interrupts
  /\ \A e \in Event : \/ sent'[e] = sent[e]
                      \/ /\ poll.at = "answer" /\ e = poll.event /\ sent'[e] = sent[e] + 1
                         /\ faults'.interrupts = faults.interrupts + 1
  /\ poll.at = "mark" => faults'.interrupts = faults.interrupts + 1
  /\ UNCHANGED <<now, events, marked>>

LEMMA AbandonEffect ==
  ASSUME Sound, Crash \/ Fail \/ Unconfirmed \/ RateLimited \/ \E p \in Process : Start(p)
  PROVE  Abandons
<1>0. TypeOK /\ PollOK /\ faults.interrupts \in Nat /\ Rest.at = "idle"
  BY Numbers, RestTyped DEF Sound
<1>1. CASE Crash
  BY <1>0, <1>1, FaultCounts DEF Crash, Abandons
<1>2. CASE Fail
  BY <1>0, <1>2, FaultCounts DEF Fail, Stays, Abandons
<1>3. CASE Unconfirmed
  <2>1. \A e \in Event : sent'[e] = IF e = poll.event THEN sent[e] + 1 ELSE sent[e]
    BY <1>0, <1>3 DEF Unconfirmed, Delivers, TypeOK
  <2> QED BY <1>0, <1>3, <2>1, FaultCounts DEF Unconfirmed, Abandons
<1>4. CASE RateLimited
  <2>1. store'.started = store.started /\ store'.scan = store.scan
    BY <1>0, <1>4 DEF RateLimited, TypeOK, Store
  <2> QED BY <1>0, <1>4, <2>1, FaultCounts DEF RateLimited, Abandons
<1>5. ASSUME NEW p \in Process, Start(p) PROVE Abandons
  BY <1>0, <1>5, NotifierConstants DEF Start, Locked, Abandons, PollOK, Polling
<1> QED BY <1>1, <1>2, <1>3, <1>4, <1>5

LEMMA AbandonKeeps ==
  ASSUME Sound, Abandons
  PROVE  PollOK' /\ CursorOK' /\ MarksOK' /\ ScanOK' /\ RepeatsAreInterruptions' /\ CursorIsHonest'
<1> USE DEF Abandons
<1>0. TypeOK /\ PollOK /\ CursorOK /\ MarksOK
  BY DEF Sound
<1>1. PollOK' /\ ScanOK'
  BY DEF PollOK, ScanOK, Polling
<1>2. CursorOK'
  BY <1>0 DEF CursorOK
<1>3. ASSUME NEW e \in Event
      PROVE  /\ sent'[e] >= sent[e] /\ sent'[e] <= 1 + faults'.interrupts
             /\ sent'[e] # sent[e] => sent'[e] <= faults'.interrupts /\ marked[e] = Never
                                      /\ events[e].created # Never
  <2>1. sent[e] \in Nat /\ faults.interrupts \in Nat /\ faults'.interrupts \in Nat
    BY <1>0, Numbers
  <2>2. sent[e] <= 1 + faults.interrupts
    BY DEF Sound, RepeatsAreInterruptions
  <2>3. CASE sent'[e] = sent[e]
    BY <2>1, <2>2, <2>3
  <2>4. CASE sent'[e] # sent[e]
    <3>1. /\ poll.at = "answer" /\ e = poll.event /\ sent'[e] = sent[e] + 1
          /\ faults'.interrupts = faults.interrupts + 1
      BY <2>4
    <3>2. sent[e] <= faults.interrupts /\ marked[e] = Never /\ e \in poll.page
      BY <3>1, AnsweredBefore
    <3>3. events[e].created # Never
      BY <1>0, <3>1, <3>2, PageStands DEF Polling
    <3> QED BY <2>1, <3>1, <3>2, <3>3
  <2> QED BY <2>3, <2>4
<1>4. RepeatsAreInterruptions'
  BY <1>3 DEF RepeatsAreInterruptions
<1>5. MarksOK'
  <2> SUFFICES ASSUME NEW e \in Event
               PROVE  /\ events[e].created = Never =>
                           events[e].committed = Never /\ sent'[e] = 0 /\ marked[e] = Never
                      /\ marked[e] # Never => sent'[e] > 0 /\ events[e].created + Settle <= marked[e]
                      /\ marked[e] = Never => Gone(e)' \/ sent'[e] <= faults'.interrupts
    BY DEF MarksOK
  <2>1. CASE sent'[e] # sent[e]
    BY <1>3, <2>1
  <2>2. CASE sent'[e] = sent[e]
    <3>1. sent[e] \in Nat /\ faults.interrupts \in Nat /\ sent[e] <= 1 + faults.interrupts
      BY <1>0, Numbers DEF Sound, RepeatsAreInterruptions
    <3>2. Gone(e)' = Gone(e)
      BY DEF Gone
    <3> QED BY <1>0, <2>2, <3>1, <3>2 DEF MarksOK
  <2> QED BY <2>1, <2>2
<1>6. CursorIsHonest'
  <2> SUFFICES ASSUME NEW e \in Event, events[e].committed # Never,
                      events[e].committed < events[e].created + Settle, store.scan > store.started,
                      events[e].created \in store.started..store.scan
               PROVE  sent'[e] > 0
    BY DEF CursorIsHonest
  <2>1. sent[e] > 0 /\ sent[e] \in Nat
    BY <1>0, Numbers DEF Sound, CursorIsHonest
  <2> QED BY <1>3, <2>1
<1> QED BY <1>1, <1>2, <1>4, <1>5, <1>6

LEMMA BeginKeeps ==
  ASSUME Sound, Begin
  PROVE  PollOK' /\ CursorOK' /\ MarksOK' /\ ScanOK' /\ RepeatsAreInterruptions' /\ CursorIsHonest'
<1>0. TypeOK /\ PollOK /\ CursorOK /\ MarksOK
  BY DEF Sound
<1>1. /\ UNCHANGED <<now, events, marked, owner, sent, faults>>
      /\ owner # NoOne /\ poll.at = "idle"
  BY DEF Begin
<1>2. CASE store.started = Never
  <2>1. store'.started = now /\ store'.scan = now /\ poll' = poll /\ store.scan = Never
    BY <1>0, <1>2 DEF Begin, TypeOK, Store, CursorOK
  <2>2. PollOK' /\ ScanOK'
    BY <1>1, <2>1 DEF PollOK, ScanOK, Polling
  <2>3. CursorOK' /\ CursorIsHonest'
    BY <1>0, <1>1, <2>1, Numbers DEF CursorOK, CursorIsHonest, Never
  <2>4. \A e \in Event : ~Gone(e)
    BY <1>0, <2>1, Numbers DEF Gone, Never
  <2>5. MarksOK' /\ RepeatsAreInterruptions'
    BY <1>0, <1>1, <2>1, <2>4 DEF MarksOK, Sound, RepeatsAreInterruptions
  <2> QED BY <2>2, <2>3, <2>5
<1>3. CASE store.started # Never
  <2>1. /\ now - Settle > store.scan /\ store' = store
        /\ poll' = [Rest EXCEPT !.at = "page", !.clock = now]
    BY <1>3 DEF Begin
  <2>2. /\ poll'.at = "page" /\ poll'.clock = now /\ poll'.page = {} /\ poll'.last = Nothing
        /\ poll'.pass = "backlog"
    BY <2>1 DEF Rest
  <2>3. PollOK'
    BY <1>0, <1>1, <1>3, <2>1, <2>2, Numbers DEF PollOK, Polling, Until
  <2>4. ScanOK'
    BY <2>2 DEF ScanOK, Ahead, After
  <2>5. CursorOK' /\ MarksOK' /\ RepeatsAreInterruptions' /\ CursorIsHonest'
    BY <1>1, <2>1, <2>2 DEF Sound, CursorOK, MarksOK, Gone, RepeatsAreInterruptions, CursorIsHonest
  <2> QED BY <2>3, <2>4, <2>5
<1> QED BY <1>2, <1>3

\* A step inside a poll: nothing outside it changes but marks and what was sent.
Inside ==
  /\ Polling /\ Polling'
  /\ poll'.clock = poll.clock /\ poll'.pass = poll.pass
  /\ UNCHANGED <<now, events, store, owner, faults>>

LEMMA InsideKeeps ==
  ASSUME Sound, Inside
  PROVE  /\ Since' = Since /\ Until' = Until /\ CursorOK'
         /\ \A e \in Event : Gone(e)' = Gone(e) /\ Prompt(e)' = Prompt(e)
BY DEF Sound, Inside, Since, Until, Larger, CursorOK, Gone, Prompt

LEMMA ReadPageKeeps ==
  ASSUME Sound, ReadPage
  PROVE  PollOK' /\ CursorOK' /\ MarksOK' /\ ScanOK' /\ RepeatsAreInterruptions' /\ CursorIsHonest'
<1>0. TypeOK /\ PollOK /\ CursorOK /\ MarksOK /\ ScanOK
  BY DEF Sound
<1> PICK page \in SUBSET Rows, last \in Event \union {Nothing} :
      /\ IsPage(page) /\ IF page = {} THEN last = poll.last ELSE IsLast(last, page)
      /\ poll' = [poll EXCEPT !.at = "send", !.page = page, !.last = last,
                    !.more = Cardinality(page) = Batch]
  BY DEF ReadPage
<1>1. /\ poll.at = "page" /\ poll'.at = "send" /\ poll'.page = page /\ poll'.last = last
      /\ poll'.more = (Cardinality(page) = Batch)
      /\ poll'.clock = poll.clock /\ poll'.pass = poll.pass
      /\ UNCHANGED <<now, events, store, marked, owner, sent, faults>>
  BY <1>0 DEF ReadPage, TypeOK, Poll
<1>2. Inside
  BY <1>1 DEF Inside, Polling
<1>3. page \subseteq Event /\ \A e \in page : events[e].created \in Since..Until
                                              /\ events[e].committed # Never
  BY DEF Rows
<1>4. \A e \in page : events[e].created # Never
  BY <1>0, <1>3 DEF MarksOK
<1>5. last # Nothing => events[last].created # Never
  BY <1>0, <1>1, <1>4 DEF IsLast, PollOK, Polling
<1>6. PollOK'
  BY <1>0, <1>1, <1>2, <1>3, <1>5, InsideKeeps DEF PollOK, Inside
<1>7. ScanOK'
  <2> SUFFICES ASSUME poll.pass = "backlog", NEW e \in Event, Prompt(e),
                      events[e].created \in Since..Until, sent[e] <= 0
               PROVE  Ahead(e)'
    BY <1>0, <1>1, <1>2, InsideKeeps, Numbers DEF ScanOK
  <2>1. After(e)
    BY <1>0, <1>1, Numbers DEF ScanOK, Polling, Ahead
  <2>2. e \in Rows
    BY <2>1 DEF Rows, After, Prompt
  <2>3. CASE e \in page
    BY <1>1, <2>3 DEF Ahead
  <2>4. CASE e \notin page
    <3>1. poll'.more
      BY <1>1, <2>2, <2>4 DEF IsPage
    <3>2. page # {} => Precedes(last, e)
      BY <2>2, <2>4 DEF IsPage, IsLast
    <3>3. After(e)'
      BY <1>1, <2>1, <3>2 DEF After, Precedes
    <3> QED BY <1>1, <3>1, <3>3 DEF Ahead
  <2> QED BY <2>3, <2>4
<1>8. MarksOK'
  BY <1>0, <1>1, <1>2, InsideKeeps DEF MarksOK
<1>9. RepeatsAreInterruptions' /\ CursorIsHonest'
  BY <1>1 DEF Sound, RepeatsAreInterruptions, CursorIsHonest
<1> QED BY <1>2, <1>6, <1>7, <1>8, <1>9, InsideKeeps

\* The page shrinks by an event that was sent, or an event is being sent.
LEMMA LoopKeeps ==
  ASSUME Sound, Send \/ Confirmed \/ Mark \/ NextPage
  PROVE  PollOK' /\ CursorOK' /\ MarksOK' /\ ScanOK' /\ RepeatsAreInterruptions' /\ CursorIsHonest'
<1> USE DEF Sound
<1>1. CASE Send
  <2> PICK e \in poll.page :
        poll' = IF marked[e] # Never THEN [poll EXCEPT !.page = @ \ {e}]
                                     ELSE [poll EXCEPT !.at = "answer", !.event = e]
    BY <1>1 DEF Send
  <2>1. e \in Event
    BY DEF TypeOK, Poll
  <2>2. /\ poll.at = "send" /\ UNCHANGED <<now, events, store, marked, owner, sent, faults>>
        /\ poll'.clock = poll.clock /\ poll'.pass = poll.pass /\ poll'.last = poll.last
        /\ poll'.more = poll.more
        /\ \/ marked[e] # Never /\ poll'.at = "send" /\ poll'.page = poll.page \ {e}
           \/ /\ marked[e] = Never /\ poll'.at = "answer" /\ poll'.page = poll.page
              /\ poll'.event = e
    BY <1>1 DEF Send, TypeOK, Poll
  <2>3. Inside
    BY <2>2 DEF Inside, Polling
  <2>4. PollOK'
    BY <2>2, <2>3, InsideKeeps DEF PollOK, Inside
  <2>5. marked[e] # Never => sent[e] > 0
    BY <2>1 DEF MarksOK
  <2>6. \A f \in Event : After(f)' = After(f)
    BY <2>2 DEF After, Precedes
  <2>7. ScanOK'
    BY <2>2, <2>3, <2>5, <2>6, InsideKeeps DEF ScanOK, Ahead, Inside
  <2>8. MarksOK' /\ RepeatsAreInterruptions' /\ CursorIsHonest'
    BY <2>2, <2>3, InsideKeeps DEF MarksOK, RepeatsAreInterruptions, CursorIsHonest
  <2> QED BY <2>3, <2>4, <2>7, <2>8, InsideKeeps
<1>2. CASE Confirmed
  <2>1. /\ poll.at = "answer" /\ UNCHANGED <<now, events, store, marked, owner, faults>>
        /\ poll'.at = "mark" /\ poll'.clock = poll.clock /\ poll'.pass = poll.pass
        /\ poll'.last = poll.last /\ poll'.more = poll.more /\ poll'.page = poll.page
        /\ poll'.event = poll.event
    BY <1>2 DEF Confirmed, TypeOK, Poll
  <2>2. \A e \in Event : sent'[e] = IF e = poll.event THEN sent[e] + 1 ELSE sent[e]
    BY <1>2 DEF Confirmed, Delivers, TypeOK
  <2>3. Inside
    BY <2>1 DEF Inside, Polling
  <2>4. /\ poll.event \in Event /\ poll.event \in poll.page /\ marked[poll.event] = Never
        /\ sent[poll.event] <= faults.interrupts /\ events[poll.event].created # Never
    BY <2>1, AnsweredBefore, PageStands DEF Polling
  <2>5. /\ \A e \in Event : sent[e] \in Nat /\ sent[e] <= 1 + faults.interrupts
        /\ faults.interrupts \in Nat
    BY Numbers DEF RepeatsAreInterruptions
  <2>6. PollOK'
    BY <2>1, <2>2, <2>3, <2>4, <2>5, InsideKeeps DEF PollOK, Inside
  <2>7. \A f \in Event : After(f)' = After(f)
    BY <2>1 DEF After, Precedes
  <2>8. ScanOK'
    BY <2>1, <2>2, <2>3, <2>5, <2>7, InsideKeeps DEF ScanOK, Ahead, Inside
  <2>9. MarksOK'
    BY <2>1, <2>2, <2>3, <2>4, <2>5, InsideKeeps DEF MarksOK
  <2>10. RepeatsAreInterruptions' /\ CursorIsHonest'
    BY <2>1, <2>2, <2>4, <2>5 DEF RepeatsAreInterruptions, CursorIsHonest
  <2> QED BY <2>3, <2>6, <2>8, <2>9, <2>10, InsideKeeps
<1>3. CASE Mark
  <2>1. /\ poll.at = "mark" /\ UNCHANGED <<now, events, store, owner, sent, faults>>
        /\ poll'.at = "send" /\ poll'.clock = poll.clock /\ poll'.pass = poll.pass
        /\ poll'.last = poll.last /\ poll'.more = poll.more
        /\ poll'.page = poll.page \ {poll.event}
    BY <1>3 DEF Mark, TypeOK, Poll
  <2>2. Inside
    BY <2>1 DEF Inside, Polling
  <2>3. \A e \in Event : marked'[e] = IF e = poll.event THEN poll.clock ELSE marked[e]
    BY <1>3 DEF Mark, TypeOK
  <2>4. /\ poll.event \in Event /\ sent[poll.event] > 0
        /\ events[poll.event].created + Settle <= poll.clock
        /\ events[poll.event].created # Never /\ poll.clock # Never
    <3>1. poll.event \in Event /\ sent[poll.event] > 0 /\ events[poll.event].created # Never
      BY <2>1, PageStands DEF PollOK, Polling
    <3>2. events[poll.event].created <= Until /\ poll.clock >= 0
      BY <2>1, <3>1, Numbers DEF PollOK, Polling
    <3> QED BY <3>1, <3>2, Numbers DEF Until, Never
  <2>5. PollOK'
    BY <2>1, <2>2, InsideKeeps DEF PollOK, Inside
  <2>6. \A f \in Event : After(f)' = After(f)
    BY <2>1 DEF After, Precedes
  <2>7. ScanOK'
    BY <2>1, <2>2, <2>4, <2>6, InsideKeeps DEF ScanOK, Ahead, Inside
  <2>8. MarksOK'
    BY <2>1, <2>2, <2>3, <2>4, InsideKeeps DEF MarksOK
  <2>9. RepeatsAreInterruptions' /\ CursorIsHonest'
    BY <2>1 DEF RepeatsAreInterruptions, CursorIsHonest
  <2> QED BY <2>2, <2>5, <2>7, <2>8, <2>9, InsideKeeps
<1>4. CASE NextPage
  <2>1. /\ poll.at = "send" /\ poll.page = {} /\ poll.more
        /\ poll'.at = "page" /\ poll'.clock = poll.clock /\ poll'.pass = poll.pass
        /\ poll'.last = poll.last /\ poll'.page = poll.page
        /\ UNCHANGED <<now, events, store, marked, owner, sent, faults>>
    BY <1>4 DEF NextPage, TypeOK, Poll
  <2>2. Inside
    BY <2>1 DEF Inside, Polling
  <2>3. PollOK'
    BY <2>1, <2>2, InsideKeeps DEF PollOK, Inside
  <2>4. \A f \in Event : After(f)' = After(f)
    BY <2>1 DEF After, Precedes
  <2>5. ScanOK'
    BY <2>1, <2>2, <2>4, InsideKeeps DEF ScanOK, Ahead, Inside
  <2>6. MarksOK' /\ RepeatsAreInterruptions' /\ CursorIsHonest'
    BY <2>1, <2>2, InsideKeeps DEF MarksOK, RepeatsAreInterruptions, CursorIsHonest
  <2> QED BY <2>2, <2>3, <2>5, <2>6, InsideKeeps
<1> QED BY <1>1, <1>2, <1>3, <1>4

\* A backlog scan that is over has sent what had settled.
LEMMA ScanIsHonest ==
  ASSUME Sound, poll.at = "send", poll.page = {}, ~poll.more, poll.pass = "backlog",
         NEW e \in Event, Prompt(e), events[e].created \in store.started..Until
  PROVE  sent[e] > 0
<1>0. TypeOK /\ PollOK /\ CursorOK /\ ScanOK /\ CursorIsHonest
  BY DEF Sound
<1>1. events[e].created \in Int /\ store.started # Never
  BY <1>0, Numbers DEF PollOK, Polling
<1>2. CASE events[e].created >= Since
  BY <1>0, <1>1, <1>2, Numbers DEF ScanOK, Polling, Ahead
<1>3. CASE events[e].created < Since
  <2>1. events[e].created < store.scan - Overlap
    BY <1>0, <1>1, <1>3, Numbers DEF Since, Larger
  <2>2. events[e].created \in store.started..store.scan /\ store.scan > store.started
    BY <1>0, <1>1, <2>1, Numbers
  <2> QED BY <1>0, <2>2 DEF CursorIsHonest, Prompt
<1> QED BY <1>0, <1>1, <1>2, <1>3, Numbers

\* A mark is dropped only when no query reads its event any more.
LEMMA PruneKeeps ==
  ASSUME Sound, Polling, Complete, store'.scan = Until, UNCHANGED events, NEW e \in Event
  PROVE  /\ marked'[e] = marked[e] \/ marked'[e] = Never
         /\ marked'[e] # marked[e] => Gone(e)'
<1>0. TypeOK /\ PollOK /\ MarksOK
  BY DEF Sound
<1>1. marked'[e] = IF Keeps(e) THEN marked[e] ELSE Never
  BY <1>0 DEF Complete, TypeOK
<1>2. ASSUME ~Keeps(e), marked[e] # Never PROVE Gone(e)'
  <2>1. events[e].created + Settle <= marked[e] /\ marked[e] < poll.clock - Keep
    BY <1>0, <1>2, Numbers DEF MarksOK, Keeps
  <2>2. events[e].created < Until - Keep
    BY <1>0, <2>1, Numbers DEF Until
  <2> QED BY <1>0, <2>2, Numbers, NotifierConstants DEF Gone
<1> QED BY <1>1, <1>2

LEMMA EndPassKeeps ==
  ASSUME Sound, EndPass
  PROVE  PollOK' /\ CursorOK' /\ MarksOK' /\ ScanOK' /\ RepeatsAreInterruptions' /\ CursorIsHonest'
<1>0. TypeOK /\ PollOK /\ CursorOK /\ MarksOK
  BY DEF Sound
<1>1. /\ poll.at = "send" /\ poll.page = {} /\ ~poll.more /\ Polling
      /\ UNCHANGED <<now, events, owner, sent, faults>>
  BY DEF EndPass, Polling
<1>2. store.started # Never /\ poll.clock \in 0..now /\ store.scan <= Until /\ owner # NoOne
  BY <1>0, <1>1 DEF PollOK
<1>3. store'.started = store.started /\ store'.scan = Until
  BY <1>0, <1>1 DEF EndPass, TypeOK, Store, PollOK, Poll
<1>4. poll.pass = "sweep" => store.scan = Until
  BY <1>0, <1>1 DEF PollOK
<1>5. \/ /\ poll.pass = "backlog" /\ marked' = marked /\ poll'.at = "page" /\ poll'.page = {}
         /\ poll'.clock = poll.clock /\ poll'.pass = "sweep" /\ poll'.last = Nothing
      \/ Complete /\ poll'.at = "idle"
  BY <1>0, <1>1, RestTyped DEF EndPass, TypeOK, Poll, Complete
<1>6. PollOK'
  BY <1>1, <1>2, <1>3, <1>5, <1>0, Numbers DEF PollOK, Polling, Until
<1>7. ScanOK'
  BY <1>5 DEF ScanOK, Polling
<1>8. CursorOK'
  BY <1>0, <1>1, <1>2, <1>3, Numbers DEF CursorOK, Until
<1>9. ASSUME NEW e \in Event
      PROVE  /\ marked'[e] = marked[e] \/ marked'[e] = Never
             /\ marked'[e] # marked[e] => Gone(e)'
             /\ Gone(e) => Gone(e)'
  <2>1. Gone(e) => Gone(e)'
    BY <1>0, <1>1, <1>2, <1>3, Numbers DEF Gone
  <2> QED BY <1>1, <1>3, <1>5, <2>1, PruneKeeps
<1>10. MarksOK'
  <2> SUFFICES ASSUME NEW e \in Event
               PROVE  /\ events[e].created = Never =>
                           events[e].committed = Never /\ sent[e] = 0 /\ marked'[e] = Never
                      /\ marked'[e] # Never =>
                           sent[e] > 0 /\ events[e].created + Settle <= marked'[e]
                      /\ marked'[e] = Never => Gone(e)' \/ sent[e] <= faults.interrupts
    BY <1>1 DEF MarksOK
  <2> QED BY <1>0, <1>1, <1>9 DEF MarksOK
<1>11. CursorIsHonest'
  <2> SUFFICES ASSUME NEW e \in Event, Prompt(e), Until > store.started,
                      events[e].created \in store.started..Until
               PROVE  sent[e] > 0
    BY <1>1, <1>3 DEF CursorIsHonest, Prompt
  <2>1. CASE poll.pass = "backlog"
    BY <1>1, <2>1, ScanIsHonest
  <2>2. CASE poll.pass = "sweep"
    BY <1>4, <2>2 DEF Sound, CursorIsHonest, Prompt
  <2> QED BY <1>0, <2>1, <2>2 DEF TypeOK, Poll
<1>12. RepeatsAreInterruptions'
  BY <1>1 DEF Sound, RepeatsAreInterruptions
<1> QED BY <1>6, <1>7, <1>8, <1>10, <1>11, <1>12

----------------------------------------------------------------------------
(* The theorems                                                             *)

LEMMA InitSound == Init => Sound
<1> SUFFICES ASSUME Init PROVE Sound
  OBVIOUS
<1>1. now = 0 /\ owner = NoOne /\ poll = Rest /\ poll.at = "idle" /\ poll \in Poll
  BY RestTyped DEF Init
<1>2. /\ store = [started |-> Never, scan |-> Never, swept |-> Never, backoff |-> Never]
      /\ faults = [failures |-> 0, interrupts |-> 0]
      /\ \A e \in Event : /\ events[e].created = Never /\ events[e].committed = Never
                          /\ marked[e] = Never /\ sent[e] = 0
  BY DEF Init
<1>3. TypeOK
  BY <1>1, <1>2, NotifierConstants DEF Init, TypeOK, Store, Time
<1>4. PollOK /\ CursorOK /\ ScanOK
  BY <1>1, <1>2 DEF PollOK, CursorOK, ScanOK, Polling, Never
<1>5. MarksOK /\ RepeatsAreInterruptions /\ CursorIsHonest
  BY <1>2 DEF MarksOK, RepeatsAreInterruptions, CursorIsHonest
<1> QED BY <1>3, <1>4, <1>5 DEF Sound

LEMMA NextSound == Sound /\ [Next]_vars => Sound'
<1> SUFFICES ASSUME Sound, [Next]_vars PROVE Sound'
  OBVIOUS
<1>1. TypeOK'
  BY TypeStep
<1>2. CASE Tick \/ \E e \in Event : Create(e) \/ Commit(e)
  <2>1. LogMoves
    BY <1>2, LogEffect DEF Sound
  <2> QED BY <1>1, <2>1, LogKeeps DEF Sound
<1>3. CASE Crash \/ Fail \/ Unconfirmed \/ RateLimited \/ \E p \in Process : Start(p)
  <2>1. Abandons
    BY <1>3, AbandonEffect
  <2> QED BY <1>1, <2>1, AbandonKeeps DEF Sound
<1>4. CASE PollStep
  BY <1>1, <1>4, BeginKeeps, ReadPageKeeps, LoopKeeps, EndPassKeeps DEF PollStep, Sound
<1>5. CASE UNCHANGED vars
  BY <1>1, <1>5 DEF vars, Sound, PollOK, CursorOK, MarksOK, ScanOK, Polling, Gone, Prompt,
     After, Ahead, Precedes, Since, Until, Larger, RepeatsAreInterruptions, CursorIsHonest
<1> QED BY <1>2, <1>3, <1>4, <1>5 DEF Next

\* The invariant holds of every reachable state.
LEMMA SoundAlways == Spec => []Sound
BY InitSound, NextSound, PTL DEF Spec

\* Every reachable state is well typed.
THEOREM TypeCorrect == Spec => []TypeOK
<1>1. Sound => TypeOK
  BY DEF Sound
<1> QED BY <1>1, SoundAlways, PTL

\* However polls, pages, retrospective passes, restarts and dropped ids interleave
\* with late commits, an event reaches Telegram once, and once more for each
\* interruption between a message and its mark.
THEOREM RepetitionsAreInterruptions == Spec => []RepeatsAreInterruptions
<1>1. Sound => RepeatsAreInterruptions
  BY DEF Sound
<1> QED BY <1>1, SoundAlways, PTL

\* The cursor passes no event that was committed within the settling time before
\* the event was sent, whatever polls fail and whichever pages they had read.
THEOREM CursorsAreHonest == Spec => []CursorIsHonest
<1>1. Sound => CursorIsHonest
  BY DEF Sound
<1> QED BY <1>1, SoundAlways, PTL
=============================================================================
