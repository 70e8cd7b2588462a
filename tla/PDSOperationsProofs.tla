------------------------- MODULE PDSOperationsProofs -------------------------
(***************************************************************************)
(* Proofs about the operations of PDSOperations, for every set of rules,   *)
(* policies and evidence objects and every timeout.                        *)
(*                                                                         *)
(* The argument is the same for all operations.  Good(a) is what is true   *)
(* of a stored aggregate a.  An operation that succeeds on a good          *)
(* aggregate yields one whose snapshot is good again, keeps what a had     *)
(* decided, and numbers its new events from a's version on (Advances).     *)
(***************************************************************************)
EXTENDS PDSOperations, SequenceTheorems, TLAPS

Good(a) ==
  /\ a \in Aggregate
  /\ a.domainEvents = <<>>
  /\ a.version # 0
  /\ a.state = "CREATED" => a.startedAt = Zero
  /\ a.state = "RUNNING" => a.startedAt # Zero
  /\ DecisionFollowsFrom(a)
  /\ ExpiredInTime(a)

\* The events of b carry, in order, the versions after v up to b's.
Numbered(b, v) ==
  /\ b.version = v + Len(b.domainEvents)
  /\ \A i \in 1 .. Len(b.domainEvents) : b.domainEvents[i].version = v + i

Advances(a, b) ==
  /\ b \in Aggregate
  /\ Numbered(b, a.version)
  /\ Good(Snapshot(b))
  /\ Kept(a, Snapshot(b))
  /\ Snapshot(b).version = a.version => Snapshot(b) = a

\* The fields the properties speak of.
Field == {"state", "result", "reasonCodes", "createdAt", "startedAt",
          "expiredAt", "version", "ruleOutcomes", "requiredRuleIDs",
          "evidenceBinding", "policyBinding"}

Same(a, b, changed) == \A f \in Field \ changed : b[f] = a[f]

-----------------------------------------------------------------------------
\* Emit, which every mutation ends with, adds one version and its event.
LEMMA EmitAggregate ==
  ASSUME NEW a \in Aggregate, NEW type \in EventType
  PROVE  Emit(a, type) \in Aggregate
<1> DEFINE ev == [type |-> type, version |-> a.version + 1]
<1>1. ev \in DomainEvent
  BY DEF Aggregate, DomainEvent
<1>2. a.domainEvents \in Seq(DomainEvent) /\ a.version + 1 \in Nat
  BY DEF Aggregate
<1>3. Append(a.domainEvents, ev) \in Seq(DomainEvent)
  BY <1>1, <1>2
<1>4. Emit(a, type) = [a EXCEPT !.version = a.version + 1,
                                !.domainEvents = Append(a.domainEvents, ev)]
  BY DEF Emit, Aggregate
<1> HIDE DEF ev
<1> QED BY <1>2, <1>3, <1>4 DEF Aggregate

\* A snapshot is an aggregate that differs in the pending events only.
LEMMA SnapshotFields ==
  ASSUME NEW a \in Aggregate
  PROVE  /\ Snapshot(a) \in Aggregate
         /\ Snapshot(a).domainEvents = <<>>
         /\ Same(a, Snapshot(a), {})
<1>1. <<>> \in Seq(DomainEvent)
  OBVIOUS
<1>2. Snapshot(a) \in Aggregate
  BY <1>1 DEF Snapshot, Aggregate
<1>3. Snapshot(a).domainEvents = <<>>
  BY DEF Snapshot, Aggregate
<1>4. Same(a, Snapshot(a), {})
  BY DEF Snapshot, Aggregate, Same, Field
<1> QED BY <1>2, <1>3, <1>4

\* What a mutation c of a stored aggregate becomes when it is emitted.
LEMMA EmitStored ==
  ASSUME NEW c \in Aggregate, c.domainEvents = <<>>, NEW type \in EventType
  PROVE  /\ Emit(c, type) \in Aggregate
         /\ Numbered(Emit(c, type), c.version)
         /\ Snapshot(Emit(c, type)) \in Aggregate
         /\ Snapshot(Emit(c, type)).domainEvents = <<>>
         /\ Snapshot(Emit(c, type)).version = c.version + 1
         /\ Same(c, Snapshot(Emit(c, type)), {"version"})
<1> DEFINE b == Emit(c, type)
           ev == [type |-> type, version |-> c.version + 1]
<1>1. b \in Aggregate
  BY EmitAggregate
<1>2. b.version = c.version + 1 /\ b.domainEvents = Append(c.domainEvents, ev)
  BY DEF Emit, Aggregate
<1>3. Same(c, b, {"version"})
  BY DEF Emit, Aggregate, Same, Field
<1>4. Append(c.domainEvents, ev) = <<ev>>
  <2> HIDE DEF ev
  <2> QED OBVIOUS
<1>5. Numbered(b, c.version)
  <2>1. Len(<<ev>>) = 1 /\ <<ev>>[1] = ev /\ ev.version = c.version + 1
    OBVIOUS
  <2> HIDE DEF b, ev
  <2> QED BY <1>2, <1>4, <2>1, c.version \in Nat DEF Numbered, Aggregate
<1>6. Snapshot(b) \in Aggregate /\ Snapshot(b).domainEvents = <<>> /\ Same(b, Snapshot(b), {})
  BY <1>1, SnapshotFields
<1> HIDE DEF b
<1>7. Snapshot(b).version = c.version + 1
  BY <1>2, <1>6 DEF Same, Field
<1>8. Same(c, Snapshot(b), {"version"})
  BY <1>3, <1>6 DEF Same, Field
<1> QED BY <1>1, <1>5, <1>6, <1>7, <1>8 DEF b

\* An operation that returns at once changes nothing.
LEMMA NothingChanges ==
  ASSUME NEW a, Good(a)
  PROVE  Advances(a, a)
<1>1. a \in Aggregate /\ a.domainEvents = <<>>
  BY DEF Good
<1>2. Snapshot(a) = a
  BY <1>1 DEF Snapshot, Aggregate
<1>3. Numbered(a, a.version)
  BY <1>1 DEF Numbered, Aggregate
<1>4. Kept(a, a)
  BY <1>1 DEF Kept, Aggregate
<1> QED BY <1>1, <1>2, <1>3, <1>4 DEF Advances

\* c has everything that a has fixed.
Extends(a, c) ==
  /\ c.version = a.version
  /\ c.createdAt = a.createdAt /\ c.requiredRuleIDs = a.requiredRuleIDs
  /\ a.startedAt # Zero => c.startedAt = a.startedAt
  /\ a.evidenceBinding # None => c.evidenceBinding = a.evidenceBinding
  /\ a.policyBinding # None => c.policyBinding = a.policyBinding
  /\ \A r \in RecordedRules(a) : c.ruleOutcomes[r] = a.ruleOutcomes[r]

\* The common part of all mutations: the method changes the fields of a, giving
\* c, and emits its event.
LEMMA MutationAdvances ==
  ASSUME NEW a, Good(a), ~IsTerminal(a.state),
         NEW c, Good(c), Extends(a, c), NEW type \in EventType
  PROVE  Advances(a, Emit(c, type))
<1> DEFINE s == Snapshot(Emit(c, type))
<1>1. /\ a.version \in Nat /\ c.version = a.version
      /\ c \in Aggregate /\ c.domainEvents = <<>>
  BY DEF Good, Aggregate, Extends
<1>2. /\ Emit(c, type) \in Aggregate /\ Numbered(Emit(c, type), c.version)
      /\ s \in Aggregate /\ s.domainEvents = <<>> /\ s.version = c.version + 1
      /\ Same(c, s, {"version"})
  BY <1>1, EmitStored
<1> HIDE DEF s
<1>3. /\ s.state = c.state /\ s.result = c.result /\ s.reasonCodes = c.reasonCodes
      /\ s.createdAt = c.createdAt /\ s.startedAt = c.startedAt
      /\ s.expiredAt = c.expiredAt /\ s.ruleOutcomes = c.ruleOutcomes
      /\ s.requiredRuleIDs = c.requiredRuleIDs
      /\ s.evidenceBinding = c.evidenceBinding /\ s.policyBinding = c.policyBinding
  BY <1>2 DEF Same, Field
<1>4. /\ DecisionFollowsFrom(s)
      /\ ExpiredInTime(s)
  BY <1>3 DEF Good, DecisionFollowsFrom, ExpiredInTime, CanDeriveResult,
     DerivedResult, DerivedReasons, HasStatus, RequiredRulesComplete,
     MissingRequiredRuleIDs, RequiredRules, RecordedRules
<1>5. Good(s)
  BY <1>1, <1>2, <1>3, <1>4 DEF Good
<1>6. Kept(a, s)
  BY <1>1, <1>2, <1>3 DEF Kept, Extends, RecordedRules
<1> QED BY <1>1, <1>2, <1>5, <1>6 DEF Advances, s

-----------------------------------------------------------------------------
\* Start moves a CREATED aggregate on and sets its start time.
LEMMA StartAdvances ==
  ASSUME NEW a, Good(a), NEW t \in Time, CanStart(a, t)
  PROVE  Advances(a, Start(a, t))
<1> DEFINE c == [a EXCEPT !.state = "RUNNING", !.startedAt = t]
<1>1. a \in Aggregate /\ a.state = "CREATED" /\ a.startedAt = Zero /\ t # Zero
      /\ a.result = "UNKNOWN"
  BY DEF Good, CanStart, CanTransitionTo, DecisionFollowsFrom
<1>2. c \in Aggregate /\ c.domainEvents = <<>>
  BY <1>1 DEF Good, Aggregate, State, Time
<1>3. c.state = "RUNNING" /\ c.startedAt = t /\ Same(a, c, {"state", "startedAt"})
  BY <1>1 DEF Aggregate, Same, Field
<1> HIDE DEF c
<1>4. Good(c)
  BY <1>1, <1>2, <1>3 DEF Good, DecisionFollowsFrom, ExpiredInTime, Same, Field
<1>5. Extends(a, c) /\ ~IsTerminal(a.state)
  BY <1>1, <1>3 DEF Extends, Same, Field, IsTerminal
<1>6. \A y \in EventType : Advances(a, Emit(c, y))
  BY <1>4, <1>5, MutationAdvances
<1> QED BY <1>6 DEF Start, c, EventType

\* BindEvidenceSet sets the binding once.
LEMMA BindEvidenceAdvances ==
  ASSUME NEW a, Good(a), NEW b \in EvidenceSetBinding, CanBindEvidenceSet(a, b)
  PROVE  Advances(a, BindEvidenceSet(a, b))
<1> DEFINE c == [a EXCEPT !.evidenceBinding = b]
<1>1. CASE a.evidenceBinding = b
  BY <1>1, NothingChanges DEF BindEvidenceSet
<1>2. CASE a.evidenceBinding # b
  <2>1. a \in Aggregate /\ a.evidenceBinding = None /\ ~IsTerminal(a.state)
    BY <1>2 DEF Good, CanBindEvidenceSet
  <2>2. c \in Aggregate /\ c.domainEvents = <<>>
    BY <2>1 DEF Good, Aggregate
  <2>3. Same(a, c, {"evidenceBinding"})
    BY <2>1 DEF Aggregate, Same, Field
  <2> HIDE DEF c
  <2>4. DecisionFollowsFrom(c) /\ ExpiredInTime(c)
    BY <2>1, <2>3 DEF Good, DecisionFollowsFrom, ExpiredInTime, Same, Field, IsTerminal
  <2>5. Good(c)
    BY <2>2, <2>3, <2>4 DEF Good, Same, Field
  <2>6. Extends(a, c)
    BY <2>1, <2>3 DEF Extends, Same, Field
  <2>7. \A y \in EventType : Advances(a, Emit(c, y))
    BY <2>1, <2>5, <2>6, MutationAdvances
  <2> QED BY <1>2, <2>7 DEF BindEvidenceSet, c, EventType
<1> QED BY <1>1, <1>2

\* BindVerificationPolicy sets the binding once.
LEMMA BindPolicyAdvances ==
  ASSUME NEW a, Good(a), NEW b \in PolicyBinding, CanBindVerificationPolicy(a, b)
  PROVE  Advances(a, BindVerificationPolicy(a, b))
<1> DEFINE c == [a EXCEPT !.policyBinding = b]
<1>1. CASE a.policyBinding = b
  BY <1>1, NothingChanges DEF BindVerificationPolicy
<1>2. CASE a.policyBinding # b
  <2>1. a \in Aggregate /\ a.policyBinding = None /\ ~IsTerminal(a.state)
    BY <1>2 DEF Good, CanBindVerificationPolicy
  <2>2. c \in Aggregate /\ c.domainEvents = <<>>
    BY <2>1 DEF Good, Aggregate
  <2>3. Same(a, c, {"policyBinding"})
    BY <2>1 DEF Aggregate, Same, Field
  <2> HIDE DEF c
  <2>4. DecisionFollowsFrom(c) /\ ExpiredInTime(c)
    BY <2>1, <2>3 DEF Good, DecisionFollowsFrom, ExpiredInTime, Same, Field, IsTerminal
  <2>5. Good(c)
    BY <2>2, <2>3, <2>4 DEF Good, Same, Field
  <2>6. Extends(a, c)
    BY <2>1, <2>3 DEF Extends, Same, Field
  <2>7. \A y \in EventType : Advances(a, Emit(c, y))
    BY <2>1, <2>5, <2>6, MutationAdvances
  <2> QED BY <1>2, <2>7 DEF BindVerificationPolicy, c, EventType
<1> QED BY <1>1, <1>2

\* Recording outcomes for rules that have none.
LEMMA OutcomesAdvance ==
  ASSUME NEW a, Good(a), a.state = "RUNNING", NEW os \in RuleOutcomes,
         \A r \in RecordedRules(a) : os[r] = a.ruleOutcomes[r],
         NEW type \in EventType
  PROVE  Advances(a, Emit([a EXCEPT !.ruleOutcomes = os], type))
<1> DEFINE c == [a EXCEPT !.ruleOutcomes = os]
<1>1. a \in Aggregate /\ ~IsTerminal(a.state)
  BY DEF Good, IsTerminal
<1>2. c \in Aggregate /\ c.domainEvents = <<>>
  BY <1>1 DEF Good, Aggregate
<1>3. Same(a, c, {"ruleOutcomes"}) /\ c.ruleOutcomes = os
  BY <1>1 DEF Aggregate, Same, Field
<1> HIDE DEF c
<1>4. DecisionFollowsFrom(c) /\ ExpiredInTime(c)
  BY <1>1, <1>3 DEF Good, DecisionFollowsFrom, ExpiredInTime, Same, Field
<1>5. Good(c)
  BY <1>2, <1>3, <1>4 DEF Good, Same, Field
<1>6. Extends(a, c)
  BY <1>3 DEF Extends, Same, Field
<1> QED BY <1>1, <1>5, <1>6, MutationAdvances DEF c

\* RecordOutcome never overwrites.
LEMMA RecordOutcomeAdvances ==
  ASSUME NEW a, Good(a), NEW r \in Rule, NEW o \in RuleOutcome,
         CanRecordRuleOutcome(a, r, o)
  PROVE  Advances(a, RecordRuleOutcome(a, r, o))
<1> DEFINE os == Merged(a, [x \in {r} |-> o])
<1>1. CASE r \in RecordedRules(a)
  BY <1>1, NothingChanges DEF RecordRuleOutcome
<1>2. CASE r \notin RecordedRules(a)
  <2>1. a.state = "RUNNING" /\ a.ruleOutcomes \in RuleOutcomes
    BY DEF CanRecordRuleOutcome, CanRecordRuleOutcomes, Good, Aggregate
  <2>2. os = [x \in Rule |-> IF x = r THEN o ELSE a.ruleOutcomes[x]]
    BY DEF Merged
  <2>3. os \in RuleOutcomes
    BY <2>1, <2>2 DEF RuleOutcomes
  <2>4. \A x \in RecordedRules(a) : os[x] = a.ruleOutcomes[x]
    BY <1>2, <2>2 DEF RecordedRules
  <2> HIDE DEF os
  <2>5. \A y \in EventType : Advances(a, Emit([a EXCEPT !.ruleOutcomes = os], y))
    BY <2>1, <2>3, <2>4, OutcomesAdvance
  <2> QED BY <1>2, <2>5 DEF RecordRuleOutcome, os, EventType
<1> QED BY <1>1, <1>2

\* Execute records a first outcome for every required rule.
LEMMA ExecuteAdvances ==
  ASSUME NEW a, Good(a), NEW t \in Time, CanExecute(a, t)
  PROVE  Advances(a, Execute(a, t))
<1> DEFINE os == Merged(a, Outcomes(a, t))
<1>1. CASE DOMAIN Pending(a, Outcomes(a, t)) = {}
  BY <1>1, NothingChanges DEF Execute, RecordRuleOutcomeBatch
<1>2. CASE DOMAIN Pending(a, Outcomes(a, t)) # {}
  <2>1. /\ a \in Aggregate /\ a.state = "RUNNING" /\ a.ruleOutcomes \in RuleOutcomes
        /\ RecordedRules(a) = {} /\ a.policyBinding # None /\ a.evidenceBinding # None
    BY DEF CanExecute, CanRecordRuleOutcomeBatch, ReadyToExecute, Good, Aggregate
  <2>2. /\ a.policyBinding.policy \in Policy
        /\ a.evidenceBinding.evidence \in SUBSET EvidenceObject
    BY <2>1 DEF Aggregate, PolicyBinding, EvidenceSetBinding
  <2>3. \A r \in Rule : r \in RequiredRules(a) => Decision(a, r) \in Status
    BY <2>2, DecideAssumption DEF Decision, CanExecute
  <2>4. os = [r \in Rule |-> IF r \in RequiredRules(a)
                             THEN [status |-> Decision(a, r), evaluatedAt |-> t]
                             ELSE a.ruleOutcomes[r]]
    BY DEF Merged, Outcomes
  <2>5. os \in RuleOutcomes
    BY <2>1, <2>3, <2>4 DEF RuleOutcomes, RuleOutcome
  <2>6. \A r \in RecordedRules(a) : os[r] = a.ruleOutcomes[r]
    BY <2>1
  <2> HIDE DEF os
  <2>7. \A y \in EventType : Advances(a, Emit([a EXCEPT !.ruleOutcomes = os], y))
    BY <2>1, <2>5, <2>6, OutcomesAdvance
  <2> QED BY <1>2, <2>7 DEF Execute, RecordRuleOutcomeBatch, os, EventType
<1> QED BY <1>1, <1>2

\* Complete decides by DeriveResult.
LEMMA CompleteAdvances ==
  ASSUME NEW a, Good(a), NEW t \in Time, CanComplete(a, t)
  PROVE  Advances(a, Complete(a, t))
<1> DEFINE c == [a EXCEPT !.state = "COMPLETED", !.result = DerivedResult(a),
                          !.reasonCodes = DerivedReasons(a), !.completedAt = t]
           type == CompletionEvent(DerivedResult(a))
<1>1. /\ a \in Aggregate /\ a.state = "RUNNING" /\ a.startedAt # Zero
      /\ CanDeriveResult(a) /\ ~IsTerminal(a.state)
  BY DEF Good, CanComplete, CanCompleteAt, CanTransitionTo, IsTerminal
<1>2. /\ DerivedResult(a) \in Result
      /\ DerivedReasons(a) \in SUBSET ReasonCode
      /\ type \in EventType
  <2>1. DerivedResult(a) \in Result
    BY DEF DerivedResult, Result
  <2>2. DerivedReasons(a) \in SUBSET ReasonCode
    BY DEF DerivedReasons, RecordedRules, ReasonCode
  <2>3. type \in EventType
    BY DEF CompletionEvent, EventType
  <2> QED BY <2>1, <2>2, <2>3
<1>3. c \in Aggregate /\ c.domainEvents = <<>>
  BY <1>1, <1>2 DEF Good, Aggregate, State, Time
<1>4. /\ c.state = "COMPLETED" /\ c.result = DerivedResult(a)
      /\ c.reasonCodes = DerivedReasons(a)
      /\ Same(a, c, {"state", "result", "reasonCodes"})
  BY <1>1 DEF Aggregate, Same, Field
<1> HIDE DEF c, type
<1>5. c.ruleOutcomes = a.ruleOutcomes /\ c.requiredRuleIDs = a.requiredRuleIDs
  BY <1>4 DEF Same, Field
<1>6. DecisionFollowsFrom(c)
  BY <1>1, <1>4, <1>5 DEF DecisionFollowsFrom, CanDeriveResult, DerivedResult,
     DerivedReasons, HasStatus, RequiredRulesComplete, MissingRequiredRuleIDs,
     RequiredRules, RecordedRules
<1>7. Good(c)
  BY <1>1, <1>3, <1>4, <1>6 DEF Good, ExpiredInTime, Same, Field
<1>8. Extends(a, c)
  BY <1>4 DEF Extends, Same, Field
<1>9. Advances(a, Emit(c, type))
  BY <1>1, <1>2, <1>7, <1>8, MutationAdvances
<1> QED BY <1>9 DEF Complete, CompleteAt, c, type

\* Expire, called by ExpireTimedOut, ends an aggregate whose deadline passed.
LEMMA ExpireAdvances ==
  ASSUME NEW a, Good(a), NEW t \in Time, CanExpireTimedOut(a, t)
  PROVE  Advances(a, Expire(a, t))
<1> DEFINE c == [a EXCEPT !.state = "EXPIRED", !.result = "SYSTEM_EXCEPTION",
                          !.reasonCodes = {Timeout}, !.expiredAt = t]
<1>1. a \in Aggregate /\ ~IsTerminal(a.state) /\ TimedOut(a, t)
  BY DEF Good, CanExpireTimedOut, CanExpire
<1>2. c \in Aggregate /\ c.domainEvents = <<>>
  BY <1>1 DEF Good, Aggregate, State, Result, Time, ReasonCode
<1>3. /\ c.state = "EXPIRED" /\ c.expiredAt = t
      /\ Same(a, c, {"state", "result", "reasonCodes", "expiredAt"})
  BY <1>1 DEF Aggregate, Same, Field
<1> HIDE DEF c
<1>4. ExpiredInTime(c)
  BY <1>1, <1>3 DEF ExpiredInTime, TimedOut, Good, Same, Field
<1>5. Good(c)
  BY <1>2, <1>3, <1>4 DEF Good, DecisionFollowsFrom, Same, Field
<1>6. Extends(a, c)
  BY <1>3 DEF Extends, Same, Field
<1>7. \A y \in EventType : Advances(a, Emit(c, y))
  BY <1>1, <1>5, <1>6, MutationAdvances
<1> QED BY <1>7 DEF Expire, c, EventType

-----------------------------------------------------------------------------
\* Events are numbered on when another one is emitted.
LEMMA EmitNumbered ==
  ASSUME NEW c \in Aggregate, NEW type \in EventType, Numbered(c, 0)
  PROVE  Numbered(Emit(c, type), 0)
<1> DEFINE ev == [type |-> type, version |-> c.version + 1]
           b == Emit(c, type)
<1>1. /\ b.version = c.version + 1 /\ b.domainEvents = Append(c.domainEvents, ev)
      /\ ev.version = c.version + 1
  BY DEF Emit, Aggregate
<1>2. c.domainEvents \in Seq(DomainEvent) /\ c.version \in Nat
  BY DEF Aggregate
<1> HIDE DEF ev, b
<1> DEFINE n == Len(c.domainEvents)
<1>3. /\ n \in Nat /\ Len(b.domainEvents) = n + 1
      /\ b.domainEvents[n + 1] = ev
      /\ \A i \in 1 .. n : b.domainEvents[i] = c.domainEvents[i]
  BY <1>1, <1>2
<1>4. c.version = n /\ \A i \in 1 .. n : c.domainEvents[i].version = i
  BY <1>2 DEF Numbered
<1> HIDE DEF n
<1>5. \A i \in 1 .. n + 1 : b.domainEvents[i].version = i
  BY <1>1, <1>3, <1>4
<1>6. Numbered(b, 0)
  BY <1>1, <1>3, <1>4, <1>5 DEF Numbered
<1> QED BY <1>6 DEF b

\* Events numbered from v on continue events numbered up to v.
LEMMA ConcatNumbered ==
  ASSUME NEW old \in Seq(DomainEvent), NEW new \in Seq(DomainEvent),
         \A i \in 1 .. Len(old) : old[i].version = i,
         \A i \in 1 .. Len(new) : new[i].version = Len(old) + i
  PROVE  /\ old \o new \in Seq(DomainEvent)
         /\ Len(old \o new) = Len(old) + Len(new)
         /\ \A i \in 1 .. Len(old \o new) : (old \o new)[i].version = i
<1> DEFINE all == old \o new
<1>1. /\ all \in Seq(DomainEvent) /\ Len(all) = Len(old) + Len(new)
      /\ \A i \in 1 .. Len(old) + Len(new) :
           all[i] = IF i <= Len(old) THEN old[i] ELSE new[i - Len(old)]
  BY ConcatProperties
<1>2. Len(old) \in Nat /\ Len(new) \in Nat
  OBVIOUS
<1> HIDE DEF all
<1>3. ASSUME NEW i \in 1 .. Len(all) PROVE all[i].version = i
  <2>1. CASE i <= Len(old)
    BY <1>1, <1>2, <2>1
  <2>2. CASE i > Len(old)
    <3>1. i - Len(old) \in 1 .. Len(new) /\ all[i] = new[i - Len(old)]
      BY <1>1, <1>2, <2>2
    <3> QED BY <1>2, <3>1
  <2> QED BY <1>2, <2>1, <2>2
<1> QED BY <1>1, <1>3 DEF all

\* A new evaluation with its rule plan, as Create stores it.
Fresh(b) == b \in Aggregate /\ Numbered(b, 0) /\ Good(Snapshot(b))

\* A new aggregate, with or without a policy, has one event for every version
\* and neither outcomes nor a decision.
LEMMA CreatedFresh ==
  ASSUME NEW plan \in Seq(Rule), NEW t \in Time
  PROVE  Fresh(Created(plan, t)) /\ Created(plan, t).policyBinding = None
<1> DEFINE n == Len(plan)
           first == <<[type |-> "Created", version |-> 1]>>
           more == [i \in 1 .. n |->
                      [type |-> "RequiredRuleRegistered", version |-> 1 + i]]
           evs == first \o more
           b == Created(plan, t)
<1>1. n \in Nat
  OBVIOUS
<1>2. first \in Seq(DomainEvent) /\ Len(first) = 1 /\ first[1].version = 1
  BY DEF DomainEvent, EventType
<1>3. more \in Seq(DomainEvent) /\ Len(more) = n
  <2>1. \A i \in 1 .. n :
          [type |-> "RequiredRuleRegistered", version |-> 1 + i] \in DomainEvent
    BY DEF DomainEvent, EventType
  <2> QED BY <1>1, <2>1
<1>4. \A i \in 1 .. n : more[i].version = 1 + i
  OBVIOUS
<1> HIDE DEF first, more
<1>5. evs \in Seq(DomainEvent) /\ Len(evs) = 1 + n
      /\ \A i \in 1 .. Len(evs) : evs[i].version = i
  <2>1. /\ \A i \in 1 .. Len(first) : first[i].version = i
        /\ \A i \in 1 .. Len(more) : more[i].version = Len(first) + i
    BY <1>2, <1>3, <1>4
  <2>2. /\ evs \in Seq(DomainEvent) /\ Len(evs) = Len(first) + Len(more)
        /\ \A i \in 1 .. Len(evs) : evs[i].version = i
    BY <1>2, <1>3, <2>1, ConcatNumbered
  <2> QED BY <1>2, <1>3, <2>2
<1>6. b = [NewEvaluation(t) EXCEPT !.requiredRuleIDs = plan, !.version = 1 + n,
                                   !.domainEvents = evs]
  BY DEF Created, WithPlan, NewEvaluation, first, more
<1> HIDE DEF evs, n
<1>7. b = [state |-> "CREATED", result |-> "UNKNOWN", reasonCodes |-> {},
           createdAt |-> t, startedAt |-> Zero, completedAt |-> Zero,
           cancelledAt |-> Zero, expiredAt |-> Zero, cancellationReason |-> FALSE,
           version |-> 1 + n, domainEvents |-> evs,
           ruleOutcomes |-> [r \in Rule |-> None], requiredRuleIDs |-> plan,
           checkpoints |-> [x \in {} |-> None], history |-> <<>>,
           evidenceBinding |-> None, policyBinding |-> None]
  BY <1>6, ZenonT(30) DEF NewEvaluation
<1> HIDE DEF b
<1>8. [r \in Rule |-> None] \in RuleOutcomes
  BY DEF RuleOutcomes
<1>9. b \in Aggregate
  BY <1>1, <1>5, <1>7, <1>8 DEF Aggregate, State, Result, ReasonCode, Time, Zero
<1>10. /\ b.version = 1 + n /\ b.domainEvents = evs /\ b.policyBinding = None
       /\ b.state = "CREATED" /\ b.startedAt = Zero /\ b.result = "UNKNOWN"
  BY <1>7
<1>11. Numbered(b, 0)
  BY <1>1, <1>5, <1>10 DEF Numbered
<1>12. Snapshot(b) \in Aggregate /\ Snapshot(b).domainEvents = <<>>
       /\ Same(b, Snapshot(b), {})
  BY <1>9, SnapshotFields
<1>13. Good(Snapshot(b))
  BY <1>1, <1>10, <1>12 DEF Good, DecisionFollowsFrom, ExpiredInTime, Same, Field
<1> QED BY <1>9, <1>10, <1>11, <1>13 DEF Fresh, b

\* CreateForPolicy also binds the policy before the first save.
LEMMA CreatedForPolicyFresh ==
  ASSUME NEW p \in Policy, NEW t \in Time
  PROVE  Fresh(CreatedForPolicy(p, t))
<1> DEFINE a == Created(Plan[p], t)
           b == [policy |-> p, boundAt |-> t]
           c == [a EXCEPT !.policyBinding = b]
<1>1. Plan[p] \in Seq(Rule)
  BY PlanAssumption
<1>2. Fresh(a) /\ a.policyBinding = None
  BY <1>1, CreatedFresh
<1>3. b \in PolicyBinding /\ b # None
  BY NoneAssumption DEF PolicyBinding
<1> HIDE DEF a, b
<1>4. c \in Aggregate /\ Same(a, c, {"policyBinding"}) /\ c.domainEvents = a.domainEvents
  BY <1>2, <1>3 DEF Fresh, Aggregate, Same, Field
<1>5. CreatedForPolicy(p, t) = Emit(c, "VerificationPolicyBound")
  BY <1>2, <1>3 DEF CreatedForPolicy, BindVerificationPolicy, a, b
<1> HIDE DEF c
<1>6. Numbered(c, 0)
  BY <1>2, <1>4 DEF Fresh, Numbered, Same, Field
<1> DEFINE d == Emit(c, "VerificationPolicyBound")
<1>7. d \in Aggregate /\ Numbered(d, 0) /\ Same(c, d, {"version"})
  <2>1. "VerificationPolicyBound" \in EventType
    BY DEF EventType
  <2>2. d \in Aggregate /\ Numbered(d, 0)
    BY <1>4, <1>6, <2>1, EmitAggregate, EmitNumbered
  <2>3. Same(c, d, {"version"})
    BY <1>4 DEF Emit, Aggregate, Same, Field
  <2> QED BY <2>2, <2>3
<1>12. d.version = c.version + 1 /\ c.version \in Nat
  BY <1>4 DEF Emit, Aggregate
<1> HIDE DEF d
<1>8. /\ Snapshot(d) \in Aggregate /\ Snapshot(d).domainEvents = <<>>
      /\ Same(d, Snapshot(d), {})
  BY <1>7, SnapshotFields
<1>9. Same(a, Snapshot(a), {})
  BY <1>2, SnapshotFields DEF Fresh
<1>10. Same(Snapshot(a), Snapshot(d), {"version", "policyBinding"})
  BY <1>4, <1>7, <1>8, <1>9 DEF Same, Field
<1>11. Good(Snapshot(d))
  <2> DEFINE x == Snapshot(a)
             y == Snapshot(d)
  <2>1. /\ y.state = x.state /\ y.result = x.result /\ y.reasonCodes = x.reasonCodes
        /\ y.createdAt = x.createdAt /\ y.startedAt = x.startedAt
        /\ y.expiredAt = x.expiredAt /\ y.ruleOutcomes = x.ruleOutcomes
        /\ y.requiredRuleIDs = x.requiredRuleIDs
    BY <1>10 DEF Same, Field
  <2>4. y.version = c.version + 1
    BY <1>12, <1>8 DEF Same, Field
  <2>2. Good(x)
    BY <1>2 DEF Fresh
  <2> HIDE DEF x, y
  <2>3. DecisionFollowsFrom(y) /\ ExpiredInTime(y)
    BY <2>1, <2>2 DEF Good, DecisionFollowsFrom, ExpiredInTime, CanDeriveResult,
       DerivedResult, DerivedReasons, HasStatus, RequiredRulesComplete,
       MissingRequiredRuleIDs, RequiredRules, RecordedRules
  <2> QED BY <1>12, <1>8, <2>4, <2>1, <2>2, <2>3 DEF Good, y
<1> QED BY <1>5, <1>7, <1>11 DEF Fresh, d

=============================================================================
