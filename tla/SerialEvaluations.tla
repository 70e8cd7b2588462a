-------------------------- MODULE SerialEvaluations --------------------------
(***************************************************************************)
(* What the evaluation services of src/pds promise: the stored evaluations *)
(* change as if the operations ran one at a time, each on the latest       *)
(* stored aggregate, and every change reaches the outbox together with the *)
(* aggregate.  PDSService, where requests overlap and saves can fail,      *)
(* implements this specification.                                          *)
(***************************************************************************)
EXTENDS PDSOperations

CONSTANTS Eval,    \* evaluation identifiers
          MaxTime  \* bound: the clock stops here

ASSUME MaxTimeAssumption == MaxTime \in Nat \ {0}

VARIABLES clock,     \* the service clock
          evidence,  \* the evidence ingested for the session
          db,        \* the stored snapshot of each evaluation, or None
          outbox     \* the events stored for each evaluation

vars == <<clock, evidence, db, outbox>>

\* The times at which a request served by now may have read the clock.
Past == 1 .. clock

Init ==
  /\ clock = 1
  /\ evidence = {}
  /\ db = [e \in Eval |-> None]
  /\ outbox = [e \in Eval |-> <<>>]

Tick ==
  /\ clock < MaxTime
  /\ clock' = clock + 1
  /\ UNCHANGED <<evidence, db, outbox>>

Ingest ==
  /\ \E o \in EvidenceObject : evidence' = evidence \cup {o}
  /\ UNCHANGED <<clock, db, outbox>>

\* Snapshot and events of the changed aggregate b are stored together.
Put(e, b) ==
  /\ db' = [db EXCEPT ![e] = Snapshot(b)]
  /\ outbox' = [outbox EXCEPT ![e] = @ \o b.domainEvents]
  /\ UNCHANGED <<clock, evidence>>

Create(e) ==
  /\ db[e] = None
  /\ \E p \in Policy, t \in Past :
       Put(e, Created(Plan[p], t)) \/ Put(e, CreatedForPolicy(p, t))

StartEvaluation(e) ==
  /\ db[e] # None
  /\ \E t \in Past : CanStart(db[e], t) /\ Put(e, Start(db[e], t))

RecordOutcome(e) ==
  /\ db[e] # None
  /\ \E r \in Rule, s \in CallerStatus, t \in Past \cup CallerTime :
       LET o == [status |-> s, evaluatedAt |-> t] IN
       /\ CanRecordRuleOutcome(db[e], r, o)
       /\ Put(e, RecordRuleOutcome(db[e], r, o))

BindEvidence(e) ==
  /\ db[e] # None
  /\ \E p \in Qualifiable, S \in SUBSET evidence, t \in Past :
       /\ CanBindEvidenceSet(db[e], Qualification(p, S, t))
       /\ Put(e, BindEvidenceSet(db[e], Qualification(p, S, t)))

BindPolicy(e) ==
  /\ db[e] # None
  /\ \E p \in Policy, t \in Past \cup CallerTime :
       LET b == [policy |-> p, boundAt |-> t] IN
       /\ CanBindVerificationPolicy(db[e], b)
       /\ Put(e, BindVerificationPolicy(db[e], b))

ExecuteRules(e) ==
  /\ db[e] # None
  /\ \E t \in Past : CanExecute(db[e], t) /\ Put(e, Execute(db[e], t))

CompleteEvaluation(e) ==
  /\ db[e] # None
  /\ \E t \in Past : CanComplete(db[e], t) /\ Put(e, Complete(db[e], t))

ExpireTimedOut(e) ==
  /\ db[e] # None
  /\ \E t \in Past : CanExpireTimedOut(db[e], t) /\ Put(e, Expire(db[e], t))

Next ==
  \/ Tick \/ Ingest
  \/ \E e \in Eval :
       \/ Create(e) \/ StartEvaluation(e) \/ RecordOutcome(e)
       \/ BindEvidence(e) \/ BindPolicy(e) \/ ExecuteRules(e)
       \/ CompleteEvaluation(e) \/ ExpireTimedOut(e)

Spec == Init /\ [][Next]_vars

-----------------------------------------------------------------------------
\* Every stored evaluation is an aggregate without pending events, and the
\* outbox holds events.
TypeOK ==
  /\ clock \in 1 .. MaxTime
  /\ evidence \subseteq EvidenceObject
  /\ db \in [Eval -> Aggregate \cup {None}]
  /\ \A e \in Eval : db[e] # None => db[e].domainEvents = <<>>
  /\ outbox \in [Eval -> Seq(DomainEvent)]

\* The transactional outbox is the changelog of the evaluation: exactly one
\* event for every version up to the stored one, in version order.
OneEventPerVersion ==
  \A e \in Eval :
    /\ db[e] = None => outbox[e] = <<>>
    /\ db[e] # None =>
         /\ Len(outbox[e]) = db[e].version
         /\ \A i \in 1 .. Len(outbox[e]) : outbox[e][i].version = i

\* A completed decision can be recomputed from the stored record: it has an
\* outcome for every required rule and its result and reasons are the ones
\* DeriveResult computes from the outcomes.  An undecided one has no result.
DecisionFollowsOutcomes ==
  \A e \in Eval : db[e] # None => DecisionFollowsFrom(db[e])

\* Execute has stored its batch of outcomes.
Executed(e) == \E i \in 1 .. Len(outbox[e]) :
                 outbox[e][i].type = "RuleOutcomeBatchRecorded"

\* "fails closed before that deadline": an evaluation is EXPIRED only if the
\* timeout of the phase it was in had really passed.
ExpiredOnlyAfterDeadline ==
  \A e \in Eval : db[e] # None => ExpiredInTime(db[e])

\* What is decided stays: a step never deletes an evaluation or takes a
\* version back, a terminal evaluation never changes, and neither does a
\* start time, a binding, the rule plan or a recorded outcome.
DecisionsAreKept ==
  [][\A e \in Eval : db[e] # None => db'[e] # None /\ Kept(db[e], db'[e])]_vars
=============================================================================
