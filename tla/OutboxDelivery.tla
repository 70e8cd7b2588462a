---------------------------- MODULE OutboxDelivery ----------------------------
(***************************************************************************)
(* Delivery of the stored domain events to the message broker: the         *)
(* publishers of src/evaluation/publisher.go, each a single loop that      *)
(* claims a batch of outbox records under a lease, publishes them one      *)
(* after the other and reports the result to the PostgreSQL repository,    *)
(* and that releases expired leases in between.                            *)
(*                                                                         *)
(* The handover events of src/responsibility/delivery.go have a table of   *)
(* their own with simpler rules: a claim leaves the status PENDING, an     *)
(* expired lease can be claimed without being released first, and there is *)
(* no report of a failure, so no retry schedule and no dead letter; and an *)
(* event is not due before the time of its handover.  Its workers are not  *)
(* part of the repository; they are taken to run the same loop.  A         *)
(* behaviour is about one table.                                           *)
(*                                                                         *)
(* Deadlines are kept as the time left until them.  The order of a batch   *)
(* is not modelled: RETURNING promises none.  Every publisher has its own  *)
(* worker id.                                                              *)
(***************************************************************************)
EXTENDS Naturals, FiniteSets, FiniteSetsExt

CONSTANTS Event,           \* the domain events, one outbox record each
          Worker,
          BatchSize, LockDuration, PublishTimeout, MaxAttempts,
          BaseDelay, MaxDelay, Multiplier,  \* the retry policy
          CallTime,        \* how long a repository call may take
          None,
          MaxFaults,       \* bound: crashes, failed repository calls and failed
                           \* publications of handover events
          Cap              \* bound: attempts and deliveries count up to this

ASSUME ConfigAssumption ==
  /\ {BatchSize, LockDuration, PublishTimeout, MaxAttempts, BaseDelay,
      Multiplier} \subseteq Nat \ {0}
  /\ PublishTimeout < LockDuration
  /\ MaxDelay \in Nat /\ MaxDelay >= BaseDelay
ASSUME CallTimeAssumption == CallTime \in Nat /\ PublishTimeout + CallTime < LockDuration
ASSUME BoundsAssumption == MaxFaults \in Nat /\ Cap \in Nat /\ Cap > MaxAttempts
ASSUME NoneAssumption == None \notin Worker \cup Event

Status == {"PENDING", "PUBLISHING", "PUBLISHED", "RETRY_SCHEDULED", "DEAD_LETTERED"}
IsTerminal(s) == s \in {"PUBLISHED", "DEAD_LETTERED"}

VARIABLES table,      \* evaluation_outbox or responsibility_handover_events
          record,     \* the outbox record of each event, None before it is stored
          delivered,  \* how often the broker has accepted each event
          publisher,  \* the state of each worker's loop
          faults

vars == <<table, record, delivered, publisher, faults>>

Record == [status : Status, attempts : 0 .. Cap, owner : Worker \cup {None},
           lease : 0 .. LockDuration, wait : 0 .. MaxDelay]
ASSUME RecordAssumption == None \notin Record

\* batch holds the claimed copies not dealt with yet: their attempts.
Publisher == [pc : {"idle", "publish", "mark", "fail"},
              batch : [Event -> 0 .. Cap], current : Event \cup {None},
              lease : 0 .. LockDuration, elapsed : 0 .. PublishTimeout + CallTime]

Idle == [pc |-> "idle", batch |-> [e \in Event |-> 0], current |-> None,
         lease |-> 0, elapsed |-> 0]

Init ==
  /\ table \in {"outbox", "handovers"}
  /\ record = [e \in Event |-> None]
  /\ delivered = [e \in Event |-> 0]
  /\ publisher = [w \in Worker |-> Idle]
  /\ faults = 0

-----------------------------------------------------------------------------
Claimed(w) == {e \in Event : publisher[w].batch[e] > 0}

Counted(n) == Min({n + 1, Cap})

\* OutboxRetryPolicy.Delay: the delay is multiplied until it would pass the
\* maximum.
Delay(attempt) ==
  LET d[i \in 1 .. attempt] ==
        IF i = 1 THEN BaseDelay
        ELSE IF d[i - 1] >= MaxDelay \div Multiplier THEN MaxDelay
        ELSE d[i - 1] * Multiplier
  IN Min({d[attempt], MaxDelay})

\* The status of a claimed record.
InFlight == IF table = "outbox" THEN "PUBLISHING" ELSE "PENDING"

\* The transaction that saves the evaluation, or the handover, inserts the
\* record.  A handover may be dated ahead of the clock; the bound is BaseDelay.
Insert(e) ==
  /\ record[e] = None
  /\ \E ahead \in {0, BaseDelay} :
       /\ table = "outbox" => ahead = 0
       /\ record' = [record EXCEPT ![e] = [status |-> "PENDING", attempts |-> 0,
                                           owner |-> None, lease |-> 0, wait |-> ahead]]
  /\ UNCHANGED <<table, delivered, publisher, faults>>

\* wait is the time until the next attempt, or until the handover.
Ready == {e \in Event :
            /\ record[e] # None
            /\ record[e].status \in {"PENDING", "RETRY_SCHEDULED"}
            /\ record[e].wait = 0 /\ record[e].lease = 0}

ClaimReady(w) ==
  \E S \in SUBSET Ready :
    /\ publisher[w].pc = "idle"
    /\ S # {} /\ Cardinality(S) = Min({BatchSize, Cardinality(Ready)})
    /\ record' = [e \in Event |->
         IF e \in S THEN [record[e] EXCEPT !.status = InFlight,
                            !.attempts = Counted(@), !.owner = w,
                            !.lease = LockDuration]
         ELSE record[e]]
    /\ publisher' = [publisher EXCEPT ![w] =
         [Idle EXCEPT !.pc = "publish", !.lease = LockDuration,
            !.batch = [e \in Event |-> IF e \in S THEN Counted(record[e].attempts)
                                       ELSE 0]]]
    /\ UNCHANGED <<table, delivered, faults>>

\* Mutant: the event counts as published whatever the broker answers.
PublishUnanswered(w, e, accepted, ok) ==
  /\ publisher[w].pc = "publish" /\ e \in Claimed(w)
  /\ delivered' = [delivered EXCEPT ![e] = IF accepted THEN Counted(@) ELSE @]
  /\ publisher' = [publisher EXCEPT ![w].pc = "mark", ![w].current = e]
  /\ UNCHANGED <<table, record, faults>>

\* The broker accepts the event or not; an error after it has accepted is the
\* timeout of the call.
Publish(w, e, accepted, ok) ==
  /\ publisher[w].pc = "publish" /\ e \in Claimed(w)
  /\ ok => accepted
  /\ delivered' = [delivered EXCEPT ![e] = IF accepted THEN Counted(@) ELSE @]
  /\ publisher' = [publisher EXCEPT ![w].pc = IF ok THEN "mark" ELSE "fail",
                                    ![w].current = e]
  /\ IF ok \/ table = "outbox" THEN UNCHANGED faults
     ELSE faults < MaxFaults /\ faults' = faults + 1
  /\ UNCHANGED <<table, record>>

\* Mutant: the update looks neither at the status nor at the owner.
OwnsAny(w, e) == TRUE

\* The update of MarkPublished and of persistFailedRecord finds its row.
Owns(w, e) == record[e].status = InFlight /\ record[e].owner = w

\* The loop goes on with the rest of the batch.
Proceed(w, e) ==
  LET rest == [publisher[w].batch EXCEPT ![e] = 0] IN
  publisher' = [publisher EXCEPT ![w] =
    IF \E f \in Event : rest[f] > 0
    THEN [@ EXCEPT !.pc = "publish", !.batch = rest, !.current = None, !.elapsed = 0]
    ELSE Idle]

\* PublishOnce returns an error: the rest of the batch stays claimed.
Abandon(w) == publisher' = [publisher EXCEPT ![w] = Idle]

\* Mutant: the record keeps its owner.
PublishedOwned(w, e) ==
  record' = [record EXCEPT ![e].status = "PUBLISHED", ![e].wait = 0, ![e].lease = 0]

Published(w, e) ==
  record' = [record EXCEPT ![e].status = "PUBLISHED", ![e].wait = 0,
                           ![e].owner = None, ![e].lease = 0]

\* RegisterFailure on the claimed copy, and its update of the row.
Failed(w, e) ==
  LET n == publisher[w].batch[e]
      dead == n >= MaxAttempts
  IN record' = [record EXCEPT
       ![e].status = IF dead THEN "DEAD_LETTERED" ELSE "RETRY_SCHEDULED",
       ![e].wait = IF dead THEN 0 ELSE Delay(n),
       ![e].attempts = n, ![e].owner = None, ![e].lease = 0]

\* What a worker reports to the table: nothing of a failed handover event.
Silent == IF table = "outbox" THEN {} ELSE {"fail"}

\* The publication succeeded and is reported.
MarkPublished(w) ==
  LET e == publisher[w].current IN
  /\ publisher[w].pc = "mark" /\ Owns(w, e)
  /\ Published(w, e) /\ Proceed(w, e)
  /\ UNCHANGED <<table, delivered, faults>>

\* The publication failed and is reported (ScheduleRetry, MarkDeadLettered).
PersistFailure(w) ==
  LET e == publisher[w].current IN
  /\ table = "outbox" /\ publisher[w].pc = "fail" /\ Owns(w, e)
  /\ Failed(w, e) /\ Proceed(w, e)
  /\ UNCHANGED <<table, delivered, faults>>

\* A handover event that was not published waits for its lease to expire.  The
\* broker's failures count as faults there: no bound on attempts ends them.
LeaveToLease(w) ==
  /\ table = "handovers" /\ publisher[w].pc = "fail"
  /\ Proceed(w, publisher[w].current)
  /\ UNCHANGED <<table, record, delivered, faults>>

\* The record is no longer the worker's (ErrOutboxConcurrentModification).
LeaseLost(w) ==
  /\ publisher[w].pc \in {"mark", "fail"} \ Silent /\ ~Owns(w, publisher[w].current)
  /\ Abandon(w)
  /\ UNCHANGED <<table, record, delivered, faults>>

\* The report is lost, or its answer is.
ReportFails(w) ==
  LET e == publisher[w].current IN
  /\ publisher[w].pc \in {"mark", "fail"} \ Silent /\ faults < MaxFaults
  /\ \/ UNCHANGED record
     \/ publisher[w].pc = "mark" /\ Owns(w, e) /\ Published(w, e)
     \/ publisher[w].pc = "fail" /\ Owns(w, e) /\ Failed(w, e)
  /\ Abandon(w)
  /\ faults' = faults + 1
  /\ UNCHANGED <<table, delivered>>

\* A worker crashes, or is stopped, in the middle of a batch.
Crash(w) ==
  /\ publisher[w].pc # "idle" /\ faults < MaxFaults
  /\ Abandon(w)
  /\ faults' = faults + 1
  /\ UNCHANGED <<table, record, delivered>>

\* Mutant: leases are released while they run.
ExpiredAny == {e \in Event : /\ record[e] # None
                             /\ record[e].status = InFlight
                             /\ record[e].owner # None}

\* Mutant: the cleanup looks for records that wait for a retry.
ExpiredRetries == {e \in Event : /\ record[e] # None
                                 /\ record[e].status = "RETRY_SCHEDULED"
                                 /\ record[e].lease = 0}

Expired == {e \in Event : /\ record[e] # None
                          /\ record[e].status = InFlight
                          /\ record[e].owner # None
                          /\ record[e].lease = 0}

ReleaseExpiredLocks(w) ==
  /\ publisher[w].pc = "idle" /\ Expired # {}
  /\ record' = [e \in Event |->
       IF e \in Expired
       THEN [record[e] EXCEPT
               !.status = IF table = "outbox" THEN "RETRY_SCHEDULED" ELSE @,
               !.wait = 0, !.owner = None, !.lease = 0]
       ELSE record[e]]
  /\ UNCHANGED <<table, delivered, publisher, faults>>

Busy(w) == IF publisher[w].pc = "publish" THEN PublishTimeout
           ELSE PublishTimeout + CallTime

Less(n) == IF n > 0 THEN n - 1 ELSE 0

\* Time passes, but a publication ends with its timeout and a report within
\* CallTime after it.
Tick ==
  /\ \A w \in Worker : publisher[w].pc # "idle" => publisher[w].elapsed < Busy(w)
  /\ record' = [e \in Event |->
       IF record[e] = None THEN None
       ELSE [record[e] EXCEPT !.lease = Less(@), !.wait = Less(@)]]
  /\ publisher' = [w \in Worker |->
       IF publisher[w].pc = "idle" THEN Idle
       ELSE [publisher[w] EXCEPT !.lease = Less(@), !.elapsed = @ + 1]]
  /\ UNCHANGED <<table, delivered, faults>>

-----------------------------------------------------------------------------
Work(w) ==
  \/ ClaimReady(w)
  \/ \E e \in Event, accepted, ok \in BOOLEAN : Publish(w, e, accepted, ok)
  \/ MarkPublished(w) \/ PersistFailure(w) \/ LeaveToLease(w) \/ LeaseLost(w)

Next ==
  \/ Tick
  \/ \E e \in Event : Insert(e)
  \/ \E w \in Worker : Work(w) \/ ReportFails(w) \/ Crash(w) \/ ReleaseExpiredLocks(w)

\* The publishers' tickers run: a worker goes on with its loop, now and then
\* an idle one claims and releases, and time does not stop.
Fairness ==
  /\ WF_vars(Tick)
  /\ \A w \in Worker : WF_vars(Work(w)) /\ SF_vars(ReleaseExpiredLocks(w))

Spec == Init /\ [][Next]_vars /\ Fairness

-----------------------------------------------------------------------------
\* Every variable holds a value of its kind, and an event of the outbox has an
\* owner just while it is being published, a handover event only while it is
\* pending.
TypeOK ==
  /\ table \in {"outbox", "handovers"}
  /\ record \in [Event -> Record \cup {None}]
  /\ delivered \in [Event -> 0 .. Cap]
  /\ publisher \in [Worker -> Publisher]
  /\ faults \in 0 .. MaxFaults
  /\ \A e \in Event : record[e] # None =>
       /\ record[e].owner # None => record[e].status = InFlight
       /\ record[e].status = "PUBLISHING" => record[e].owner # None

\* Deliveries are on record, however leases expire and change hands between a
\* publication and its report: nothing is reported as published that the broker
\* has not accepted, and the broker has accepted an event at most once per
\* counted attempt.
PublishedIsDelivered ==
  \A e \in Event :
    IF record[e] = None THEN delivered[e] = 0
    ELSE /\ record[e].status = "PUBLISHED" => delivered[e] > 0
         /\ delivered[e] <= record[e].attempts

\* Two workers hold a claim on the same event only when the lease of one of
\* them has run out.
LeasesAreExclusive ==
  \A v, w \in Worker : \A e \in Claimed(v) \cap Claimed(w) :
    v # w => publisher[v].lease = 0 \/ publisher[w].lease = 0

\* A published or dead-lettered record is final, and attempts are never
\* uncounted: no late report of a worker that has lost its lease overwrites
\* what others have done since.
LateReportsChangeNothing ==
  [][\A e \in Event : record[e] # None =>
       /\ IsTerminal(record[e].status) => record'[e] = record[e]
       /\ record'[e].attempts >= record[e].attempts]_vars

\* Every stored event is published or dead-lettered in the end, in spite of
\* crashes, lost reports and an unreliable broker; a handover event is
\* published, once the broker has stopped failing.
EventsSettle ==
  \A e \in Event : record[e] # None
    ~> record[e] # None /\ IsTerminal(record[e].status)
=============================================================================
