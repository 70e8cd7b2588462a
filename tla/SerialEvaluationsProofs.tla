----------------------- MODULE SerialEvaluationsProofs -----------------------
(***************************************************************************)
(* Proofs about SerialEvaluations for every set of evaluations, rules,     *)
(* policies and evidence objects, and about VerifiableDecisions for every  *)
(* content of the evidence and every document of the policies.  They rest  *)
(* on PDSOperationsProofs: each operation advances a good aggregate.       *)
(***************************************************************************)
EXTENDS VerifiableDecisions, PDSOperationsProofs, WellFoundedInduction

(***************************************************************************)
(* The inductive invariant: all stored aggregates are good, and the outbox *)
(* numbers their events.                                                   *)
(***************************************************************************)
Inv ==
  /\ TypeOK
  /\ OneEventPerVersion
  /\ \A e \in Eval : db[e] # None => Good(db[e])

StoredVersion(e) == IF db[e] = None THEN 0 ELSE db[e].version

\* Storing a good aggregate whose events go on where the outbox stops.
LEMMA PutKeepsInv ==
  ASSUME Inv, NEW e \in Eval, NEW b \in Aggregate, Put(e, b),
         Numbered(b, StoredVersion(e)), Good(Snapshot(b))
  PROVE  Inv' /\ db'[e] = Snapshot(b) /\ \A f \in Eval \ {e} : db'[f] = db[f]
<1> DEFINE s == Snapshot(b)
           all == outbox[e] \o b.domainEvents
<1>1. /\ db \in [Eval -> Aggregate \cup {None}] /\ outbox \in [Eval -> Seq(DomainEvent)]
      /\ db' = [db EXCEPT ![e] = s] /\ outbox' = [outbox EXCEPT ![e] = all]
      /\ clock' = clock /\ evidence' = evidence
  BY DEF Inv, TypeOK, Put
<1>2. s \in Aggregate /\ s.domainEvents = <<>> /\ s.version = b.version /\ s # None
  <2>1. s \in Aggregate /\ s.domainEvents = <<>> /\ Same(b, s, {})
    BY SnapshotFields
  <2> QED BY <2>1, NoneAssumption DEF Same, Field
<1>3. /\ outbox[e] \in Seq(DomainEvent) /\ b.domainEvents \in Seq(DomainEvent)
      /\ Len(outbox[e]) = StoredVersion(e)
      /\ \A i \in 1 .. Len(outbox[e]) : outbox[e][i].version = i
  BY <1>1 DEF Inv, OneEventPerVersion, StoredVersion, Aggregate
<1>4. \A i \in 1 .. Len(b.domainEvents) : b.domainEvents[i].version = Len(outbox[e]) + i
  BY <1>3 DEF Numbered
<1>5. /\ all \in Seq(DomainEvent) /\ Len(all) = Len(outbox[e]) + Len(b.domainEvents)
      /\ \A i \in 1 .. Len(all) : all[i].version = i
  BY <1>3, <1>4, ConcatNumbered
<1>6. Len(all) = s.version
  BY <1>2, <1>3, <1>5 DEF Numbered
<1> HIDE DEF s, all
<1>7. /\ db'[e] = s /\ outbox'[e] = all
      /\ \A f \in Eval \ {e} : db'[f] = db[f] /\ outbox'[f] = outbox[f]
  BY <1>1
<1>8. TypeOK'
  BY <1>1, <1>2, <1>5, <1>7 DEF Inv, TypeOK
<1>9. OneEventPerVersion'
  BY <1>2, <1>5, <1>6, <1>7 DEF Inv, OneEventPerVersion
<1>10. \A f \in Eval : db'[f] # None => Good(db'[f])
  BY <1>7 DEF Inv, s
<1> QED BY <1>7, <1>8, <1>9, <1>10 DEF Inv, s

Keeps == \A e \in Eval : db[e] # None => db'[e] # None /\ Kept(db[e], db'[e])

\* A step of the system is an operation on a stored aggregate,
LEMMA AdvanceStep ==
  ASSUME Inv, NEW e \in Eval, db[e] # None, NEW b, Advances(db[e], b), Put(e, b)
  PROVE  Inv' /\ Keeps
<1>1. Inv' /\ db'[e] = Snapshot(b) /\ \A f \in Eval \ {e} : db'[f] = db[f]
  BY PutKeepsInv DEF Advances, StoredVersion
<1>2. Snapshot(b) # None
  BY NoneAssumption DEF Advances, Good
<1>3. \A f \in Eval : db[f] # None => Kept(db[f], db[f])
  BY DEF Inv, Good, Kept, Aggregate
<1> QED BY <1>1, <1>2, <1>3 DEF Keeps, Advances

\* and the creation of one.
LEMMA FreshStep ==
  ASSUME Inv, NEW e \in Eval, db[e] = None, NEW b, Fresh(b), Put(e, b)
  PROVE  Inv' /\ Keeps
<1>1. Inv' /\ db'[e] = Snapshot(b) /\ \A f \in Eval \ {e} : db'[f] = db[f]
  BY PutKeepsInv DEF Fresh, StoredVersion
<1>2. \A f \in Eval : db[f] # None => Kept(db[f], db[f])
  BY DEF Inv, Good, Kept, Aggregate
<1> QED BY <1>1, <1>2 DEF Keeps

\* The initial state has no evaluations.
LEMMA InitInv == Init => Inv
<1> SUFFICES ASSUME Init PROVE Inv
  OBVIOUS
<1>1. \A e \in Eval : db[e] = None /\ outbox[e] = <<>>
  BY DEF Init
<1>2. TypeOK
  BY <1>1, MaxTimeAssumption DEF Init, TypeOK
<1> QED BY <1>1, <1>2 DEF Inv, OneEventPerVersion

\* Every step keeps the invariant and what is decided: one case per operation.
LEMMA NextInv == Inv /\ [Next]_vars => Inv' /\ Keeps
<1> SUFFICES ASSUME Inv, [Next]_vars PROVE Inv' /\ Keeps
  OBVIOUS
<1>1. \A t \in Past : t \in Time
  BY DEF Past, Time, Inv, TypeOK
<1>2. \A t \in Past \cup CallerTime : t \in Time
  BY <1>1, CallerAssumption
<1>3. ASSUME UNCHANGED <<db, outbox>>, clock' \in 1 .. MaxTime,
             evidence' \subseteq EvidenceObject
      PROVE  Inv' /\ Keeps
  <2>1. \A f \in Eval : db[f] # None => Kept(db[f], db[f])
    BY DEF Inv, Good, Kept, Aggregate
  <2>2. TypeOK' /\ OneEventPerVersion'
    BY <1>3 DEF Inv, TypeOK, OneEventPerVersion
  <2> QED BY <1>3, <2>1, <2>2 DEF Inv, Keeps
<1>4. CASE Tick
  BY <1>3, <1>4, MaxTimeAssumption DEF Tick, Inv, TypeOK
<1>5. CASE Ingest
  BY <1>3, <1>5 DEF Ingest, Inv, TypeOK
<1>6. CASE UNCHANGED vars
  BY <1>3, <1>6 DEF vars, Inv, TypeOK
<1>7. ASSUME NEW e \in Eval, Create(e) PROVE Inv' /\ Keeps
  <2>1. db[e] = None
    BY <1>7 DEF Create
  <2>2. PICK p \in Policy, t \in Past :
          Put(e, Created(Plan[p], t)) \/ Put(e, CreatedForPolicy(p, t))
    BY <1>7 DEF Create
  <2>3. Fresh(Created(Plan[p], t)) /\ Fresh(CreatedForPolicy(p, t))
    BY <1>1, PlanAssumption, CreatedFresh, CreatedForPolicyFresh
  <2> QED BY <2>1, <2>2, <2>3, FreshStep
<1>8. ASSUME NEW e \in Eval, db[e] # None PROVE Good(db[e])
  BY <1>8 DEF Inv
<1>9. ASSUME NEW e \in Eval, StartEvaluation(e) PROVE Inv' /\ Keeps
  <2>1. PICK t \in Past : CanStart(db[e], t) /\ Put(e, Start(db[e], t))
    BY <1>9 DEF StartEvaluation
  <2>2. db[e] # None /\ Advances(db[e], Start(db[e], t))
    BY <1>1, <1>8, <1>9, <2>1, StartAdvances DEF StartEvaluation
  <2> QED BY <2>1, <2>2, AdvanceStep
<1>10. ASSUME NEW e \in Eval, RecordOutcome(e) PROVE Inv' /\ Keeps
  <2>1. PICK r \in Rule, s \in CallerStatus, t \in Past \cup CallerTime :
          LET o == [status |-> s, evaluatedAt |-> t] IN
          /\ CanRecordRuleOutcome(db[e], r, o)
          /\ Put(e, RecordRuleOutcome(db[e], r, o))
    BY <1>10 DEF RecordOutcome
  <2> DEFINE o == [status |-> s, evaluatedAt |-> t]
  <2>2. o \in RuleOutcome
    BY <1>2, CallerAssumption DEF RuleOutcome
  <2>3. CanRecordRuleOutcome(db[e], r, o) /\ Put(e, RecordRuleOutcome(db[e], r, o))
    BY <2>1
  <2> HIDE DEF o
  <2>4. db[e] # None /\ Advances(db[e], RecordRuleOutcome(db[e], r, o))
    BY <1>8, <1>10, <2>2, <2>3, RecordOutcomeAdvances DEF RecordOutcome
  <2> QED BY <2>3, <2>4, AdvanceStep
<1>11. ASSUME NEW e \in Eval, BindEvidence(e) PROVE Inv' /\ Keeps
  <2>1. PICK p \in Qualifiable, S \in SUBSET evidence, t \in Past :
          /\ CanBindEvidenceSet(db[e], Qualification(p, S, t))
          /\ Put(e, BindEvidenceSet(db[e], Qualification(p, S, t)))
    BY <1>11 DEF BindEvidence
  <2>2. S \subseteq EvidenceObject /\ t \in Time
    BY <1>1 DEF Inv, TypeOK
  <2>3. Qualification(p, S, t) \in EvidenceSetBinding
    BY <2>2 DEF Qualification, EvidenceSetBinding, QualificationStatus
  <2>4. db[e] # None /\ Advances(db[e], BindEvidenceSet(db[e], Qualification(p, S, t)))
    BY <1>8, <1>11, <2>1, <2>3, BindEvidenceAdvances DEF BindEvidence
  <2> QED BY <2>1, <2>4, AdvanceStep
<1>12. ASSUME NEW e \in Eval, BindPolicy(e) PROVE Inv' /\ Keeps
  <2>1. PICK p \in Policy, t \in Past \cup CallerTime :
          LET b == [policy |-> p, boundAt |-> t] IN
          /\ CanBindVerificationPolicy(db[e], b)
          /\ Put(e, BindVerificationPolicy(db[e], b))
    BY <1>12 DEF BindPolicy
  <2> DEFINE b == [policy |-> p, boundAt |-> t]
  <2>2. b \in PolicyBinding
    BY <1>2 DEF PolicyBinding
  <2>3. /\ CanBindVerificationPolicy(db[e], b)
        /\ Put(e, BindVerificationPolicy(db[e], b))
    BY <2>1
  <2> HIDE DEF b
  <2>4. db[e] # None /\ Advances(db[e], BindVerificationPolicy(db[e], b))
    BY <1>8, <1>12, <2>2, <2>3, BindPolicyAdvances DEF BindPolicy
  <2> QED BY <2>3, <2>4, AdvanceStep
<1>13. ASSUME NEW e \in Eval, ExecuteRules(e) PROVE Inv' /\ Keeps
  <2>1. PICK t \in Past : CanExecute(db[e], t) /\ Put(e, Execute(db[e], t))
    BY <1>13 DEF ExecuteRules
  <2>2. db[e] # None /\ Advances(db[e], Execute(db[e], t))
    BY <1>1, <1>8, <1>13, <2>1, ExecuteAdvances DEF ExecuteRules
  <2> QED BY <2>1, <2>2, AdvanceStep
<1>14. ASSUME NEW e \in Eval, CompleteEvaluation(e) PROVE Inv' /\ Keeps
  <2>1. PICK t \in Past : CanComplete(db[e], t) /\ Put(e, Complete(db[e], t))
    BY <1>14 DEF CompleteEvaluation
  <2>2. db[e] # None /\ Advances(db[e], Complete(db[e], t))
    BY <1>1, <1>8, <1>14, <2>1, CompleteAdvances DEF CompleteEvaluation
  <2> QED BY <2>1, <2>2, AdvanceStep
<1>15. ASSUME NEW e \in Eval, ExpireTimedOut(e) PROVE Inv' /\ Keeps
  <2>1. PICK t \in Past : CanExpireTimedOut(db[e], t) /\ Put(e, Expire(db[e], t))
    BY <1>15 DEF ExpireTimedOut
  <2>2. db[e] # None /\ Advances(db[e], Expire(db[e], t))
    BY <1>1, <1>8, <1>15, <2>1, ExpireAdvances DEF ExpireTimedOut
  <2> QED BY <2>1, <2>2, AdvanceStep
<1> QED BY <1>4, <1>5, <1>6, <1>7, <1>9, <1>10, <1>11, <1>12, <1>13, <1>14, <1>15
         DEF Next

-----------------------------------------------------------------------------
\* The inductive invariant holds throughout.
LEMMA InvHolds == Spec => []Inv
<1>1. Inv /\ [Next]_vars => Inv'
  BY NextInv
<1> QED BY <1>1, InitInv, PTL DEF Spec

\* Type correctness: what the services store is always an aggregate without
\* pending events, whatever the evaluations, rules, policies and evidence are.
THEOREM TypeCorrect == Spec => []TypeOK
<1>1. Inv => TypeOK
  BY DEF Inv
<1> QED BY <1>1, InvHolds, PTL

\* The transactional outbox is the exact changelog of every evaluation: the
\* events of a save carry the versions that follow the stored one.
THEOREM OutboxIsChangelog == Spec => []OneEventPerVersion
<1>1. Inv => OneEventPerVersion
  BY DEF Inv
<1> QED BY <1>1, InvHolds, PTL

\* A stored decision is the one DeriveResult computes from the stored outcomes.
THEOREM DecisionsDerived == Spec => []DecisionFollowsOutcomes
<1>1. Inv => DecisionFollowsOutcomes
  BY DEF Inv, Good, DecisionFollowsOutcomes
<1> QED BY <1>1, InvHolds, PTL

\* ExpireTimedOut "fails closed before that deadline" for every TimeoutPolicy.
THEOREM ExpiryRespectsDeadline == Spec => []ExpiredOnlyAfterDeadline
<1>1. Inv => ExpiredOnlyAfterDeadline
  BY DEF Inv, Good, ExpiredOnlyAfterDeadline
<1> QED BY <1>1, InvHolds, PTL

\* No operation undoes a decision, a start time, a binding, the rule plan or a
\* recorded outcome.
THEOREM DecisionsKept == Spec => DecisionsAreKept
<1>1. Inv /\ [Next]_vars => [Keeps]_vars
  BY NextInv
<1> QED BY <1>1, InvHolds, PTL DEF Spec, DecisionsAreKept, Keeps

(***************************************************************************)
(* What a stored aggregate owes to the operations that made it: a rule     *)
(* plan admits no outcome outside of it, QUALIFIED evidence has passed a   *)
(* qualifier, and what is completed was completed by now.                  *)
(***************************************************************************)
Founded(a) ==
  /\ a.requiredRuleIDs # <<>> => RecordedRules(a) \subseteq RequiredRules(a)
  /\ a.evidenceBinding # None /\ a.evidenceBinding.status = "QUALIFIED" =>
       \E p \in Qualifiable, t \in 1 .. MaxTime :
         Qualifies(p, a.evidenceBinding.evidence, t)
  /\ a.state = "COMPLETED" => a.completedAt \in Past

\* What Execute leaves behind, for good.
ByExecute(a) ==
  /\ ReadyToExecute(a)
  /\ a.requiredRuleIDs # <<>>
  /\ RequiredRules(a) \subseteq RecordedRules(a)
  /\ \A r \in RequiredRules(a) : a.ruleOutcomes[r].status = Decision(a, r)

VInv ==
  \A e \in Eval : /\ db[e] # None => Founded(db[e])
                  /\ Executed(e) => db[e] # None /\ ByExecute(db[e])

HasBatch(b) ==
  \E i \in 1 .. Len(b.domainEvents) : b.domainEvents[i].type = "RuleOutcomeBatchRecorded"

\* Storing an aggregate that is founded, and decided by Execute if one of the
\* events, old or new, says so.
LEMMA PutKeepsVInv ==
  ASSUME Inv, VInv, NEW e \in Eval, NEW b \in Aggregate, Put(e, b),
         Founded(Snapshot(b)),
         Executed(e) \/ HasBatch(b) => ByExecute(Snapshot(b))
  PROVE  VInv'
<1> DEFINE s == Snapshot(b)
           all == outbox[e] \o b.domainEvents
<1>1. /\ db \in [Eval -> Aggregate \cup {None}] /\ outbox \in [Eval -> Seq(DomainEvent)]
      /\ db' = [db EXCEPT ![e] = s] /\ outbox' = [outbox EXCEPT ![e] = all]
      /\ clock' = clock
  BY DEF Inv, TypeOK, Put
<1>2. s # None
  BY SnapshotFields, NoneAssumption
<1>3. outbox[e] \in Seq(DomainEvent) /\ b.domainEvents \in Seq(DomainEvent)
  BY <1>1 DEF Aggregate
<1>4. /\ Len(all) = Len(outbox[e]) + Len(b.domainEvents)
      /\ \A i \in 1 .. Len(outbox[e]) + Len(b.domainEvents) :
           all[i] = IF i <= Len(outbox[e]) THEN outbox[e][i]
                    ELSE b.domainEvents[i - Len(outbox[e])]
  BY <1>3, ConcatProperties
<1> HIDE DEF s, all
<1>5. /\ db'[e] = s /\ outbox'[e] = all
      /\ \A f \in Eval \ {e} : db'[f] = db[f] /\ outbox'[f] = outbox[f]
  BY <1>1
<1>6. Executed(e)' => Executed(e) \/ HasBatch(b)
  <2> SUFFICES ASSUME NEW i \in 1 .. Len(all), all[i].type = "RuleOutcomeBatchRecorded"
               PROVE  Executed(e) \/ HasBatch(b)
    BY <1>5 DEF Executed
  <2>1. Len(outbox[e]) \in Nat /\ Len(b.domainEvents) \in Nat
    BY <1>3
  <2>2. /\ i \in 1 .. Len(outbox[e]) + Len(b.domainEvents)
        /\ all[i] = IF i <= Len(outbox[e]) THEN outbox[e][i]
                    ELSE b.domainEvents[i - Len(outbox[e])]
    BY <1>4
  <2>3. \A m, k \in Nat : \A j \in 1 .. m + k :
          IF j <= m THEN j \in 1 .. m ELSE j - m \in 1 .. k
    OBVIOUS
  <2>4. CASE i <= Len(outbox[e])
    <3>1. i \in 1 .. Len(outbox[e])
      BY <2>1, <2>2, <2>3, <2>4
    <3> QED BY <2>2, <2>4, <3>1 DEF Executed
  <2>5. CASE ~(i <= Len(outbox[e]))
    <3>1. i - Len(outbox[e]) \in 1 .. Len(b.domainEvents)
      BY <2>1, <2>2, <2>3, <2>5
    <3>2. all[i] = b.domainEvents[i - Len(outbox[e])]
      BY <2>2, <2>5
    <3> QED BY <3>1, <3>2 DEF HasBatch
  <2> QED BY <2>4, <2>5
<1>7. \A f \in Eval \ {e} : Executed(f)' => Executed(f)
  BY <1>5 DEF Executed
<1> QED BY <1>1, <1>2, <1>5, <1>6, <1>7 DEF VInv, s, Founded, Past

\* The fields on which Founded and ByExecute depend.
Foundation(a) ==
  <<a.state, a.completedAt, a.ruleOutcomes, a.requiredRuleIDs, a.evidenceBinding,
    a.policyBinding>>

\* They stand as long as these fields do,
LEMMA SameFoundation ==
  ASSUME NEW a, NEW b, Foundation(a) = Foundation(b)
  PROVE  (Founded(a) <=> Founded(b)) /\ (ByExecute(a) <=> ByExecute(b))
<1>1. /\ a.state = b.state /\ a.completedAt = b.completedAt
      /\ a.ruleOutcomes = b.ruleOutcomes /\ a.requiredRuleIDs = b.requiredRuleIDs
      /\ a.evidenceBinding = b.evidenceBinding /\ a.policyBinding = b.policyBinding
  BY DEF Foundation
<1>2. RecordedRules(a) = RecordedRules(b) /\ RequiredRules(a) = RequiredRules(b)
  BY <1>1 DEF RecordedRules, RequiredRules
<1>3. \A r : Decision(a, r) = Decision(b, r)
  BY <1>1 DEF Decision
<1>4. Founded(a) <=> Founded(b)
  BY <1>1, <1>2 DEF Founded
<1>5. ByExecute(a) <=> ByExecute(b)
  BY <1>1, <1>2, <1>3 DEF ByExecute, ReadyToExecute
<1> QED BY <1>4, <1>5

\* and neither Emit nor the save changes them.
LEMMA EmitFoundation ==
  ASSUME NEW c \in Aggregate, c.domainEvents = <<>>, NEW type \in EventType
  PROVE  /\ Foundation(Snapshot(Emit(c, type))) = Foundation(c)
         /\ HasBatch(Emit(c, type)) => type = "RuleOutcomeBatchRecorded"
<1> DEFINE ev == [type |-> type, version |-> c.version + 1]
           b == Emit(c, type)
<1>1. b \in Aggregate
  BY EmitAggregate
<1>2. b.domainEvents = Append(c.domainEvents, ev) /\ Foundation(b) = Foundation(c)
  BY DEF Emit, Aggregate, Foundation
<1>3. Foundation(Snapshot(b)) = Foundation(b)
  <2> HIDE DEF b
  <2> QED BY <1>1 DEF Snapshot, Aggregate, Foundation
<1>4. HasBatch(b) => type = "RuleOutcomeBatchRecorded"
  <2>1. ev.type = type
    OBVIOUS
  <2> HIDE DEF ev, b
  <2>2. b.domainEvents = <<ev>>
    BY <1>2
  <2> QED BY <2>1, <2>2 DEF HasBatch
<1> QED BY <1>2, <1>3, <1>4 DEF b

\* A method that changes the stored aggregate into c and emits its event.
LEMMA MutationKeepsVInv ==
  ASSUME Inv, VInv, NEW e \in Eval, NEW c \in Aggregate, c.domainEvents = <<>>,
         NEW type \in EventType, Put(e, Emit(c, type)), Founded(c),
         Executed(e) \/ type = "RuleOutcomeBatchRecorded" => ByExecute(c)
  PROVE  VInv'
<1> DEFINE b == Emit(c, type)
<1>1. /\ Foundation(Snapshot(b)) = Foundation(c)
      /\ HasBatch(b) => type = "RuleOutcomeBatchRecorded"
  BY EmitFoundation
<1>2. b \in Aggregate
  BY EmitAggregate
<1>3. Put(e, b)
  OBVIOUS
<1> HIDE DEF b
<1>4. Founded(Snapshot(b)) /\ (ByExecute(c) => ByExecute(Snapshot(b)))
  BY <1>1, SameFoundation
<1> QED BY <1>1, <1>2, <1>3, <1>4, PutKeepsVInv

\* A method that returns at once.
LEMMA RepetitionKeepsVInv ==
  ASSUME Inv, VInv, NEW e \in Eval, db[e] # None, Put(e, db[e])
  PROVE  VInv'
<1> DEFINE a == db[e]
<1>1. a \in Aggregate /\ a.domainEvents = <<>>
  BY DEF Inv, Good
<1>2. Founded(a) /\ (Executed(e) => ByExecute(a))
  BY DEF VInv
<1>3. Put(e, a)
  OBVIOUS
<1> HIDE DEF a
<1>4. Snapshot(a) = a
  BY <1>1 DEF Snapshot, Aggregate
<1>5. ~HasBatch(a)
  BY <1>1 DEF HasBatch
<1> QED BY <1>1, <1>2, <1>3, <1>4, <1>5, PutKeepsVInv

\* The operations, one by one.  Start, Complete and Expire change neither
\* outcomes nor bindings.
LEMMA StartKeepsVInv ==
  ASSUME Inv, VInv, NEW e \in Eval, StartEvaluation(e)
  PROVE  VInv'
<1> DEFINE a == db[e]
<1>1. PICK t \in Past : CanStart(a, t) /\ Put(e, Start(a, t))
  BY DEF StartEvaluation
<1>2. /\ a \in Aggregate /\ a.domainEvents = <<>> /\ Founded(a) /\ t \in Nat
      /\ Executed(e) => ByExecute(a)
  BY DEF StartEvaluation, Inv, TypeOK, VInv, Good, Past
<1> HIDE DEF a
<1> DEFINE c == [a EXCEPT !.state = "RUNNING", !.startedAt = t]
<1>3. c \in Aggregate /\ c.domainEvents = <<>>
  BY <1>2 DEF Aggregate, State, Time
<1>4. /\ c.state = "RUNNING" /\ c.ruleOutcomes = a.ruleOutcomes
      /\ c.requiredRuleIDs = a.requiredRuleIDs /\ c.evidenceBinding = a.evidenceBinding
      /\ c.policyBinding = a.policyBinding
  BY <1>2 DEF Aggregate
<1>5. Put(e, Emit(c, "Started"))
  BY <1>1 DEF Start
<1> HIDE DEF c
<1>6. Founded(c) /\ (ByExecute(a) => ByExecute(c))
  BY <1>2, <1>4 DEF Founded, ByExecute, ReadyToExecute, RecordedRules, RequiredRules,
     Decision
<1>7. "Started" \in EventType
  BY DEF EventType
<1> QED BY <1>2, <1>3, <1>5, <1>6, <1>7, MutationKeepsVInv

\* Complete sets the completion time, which is past.
LEMMA CompleteKeepsVInv ==
  ASSUME Inv, VInv, NEW e \in Eval, CompleteEvaluation(e)
  PROVE  VInv'
<1> DEFINE a == db[e]
<1>1. PICK t \in Past : CanComplete(a, t) /\ Put(e, Complete(a, t))
  BY DEF CompleteEvaluation
<1>2. /\ a \in Aggregate /\ a.domainEvents = <<>> /\ Founded(a) /\ t \in Nat
      /\ Executed(e) => ByExecute(a)
  BY DEF CompleteEvaluation, Inv, TypeOK, VInv, Good, Past
<1> HIDE DEF a
<1> DEFINE x == DerivedResult(a)
           y == DerivedReasons(a)
           c == [a EXCEPT !.state = "COMPLETED", !.result = x, !.reasonCodes = y,
                          !.completedAt = t]
           type == CompletionEvent(x)
<1>3. x \in Result
  BY DEF DerivedResult, Result
<1>4. y \in SUBSET ReasonCode
  BY DEF DerivedReasons, RecordedRules, ReasonCode
<1>5. type \in EventType /\ type # "RuleOutcomeBatchRecorded"
  BY DEF CompletionEvent, EventType
<1>6. Put(e, Emit(c, type))
  BY <1>1 DEF Complete, CompleteAt
<1> HIDE DEF x, y, type
<1>7. c \in Aggregate /\ c.domainEvents = <<>>
  BY <1>2, <1>3, <1>4 DEF Aggregate, State, Time
<1>8. /\ c.completedAt = t /\ c.ruleOutcomes = a.ruleOutcomes
      /\ c.requiredRuleIDs = a.requiredRuleIDs /\ c.evidenceBinding = a.evidenceBinding
      /\ c.policyBinding = a.policyBinding
  BY <1>2 DEF Aggregate
<1> HIDE DEF c
<1>9. Founded(c) /\ (ByExecute(a) => ByExecute(c))
  BY <1>2, <1>8 DEF Founded, ByExecute, ReadyToExecute, RecordedRules, RequiredRules,
     Decision
<1> QED BY <1>2, <1>5, <1>6, <1>7, <1>9, MutationKeepsVInv

\* Expire decides nothing.
LEMMA ExpireKeepsVInv ==
  ASSUME Inv, VInv, NEW e \in Eval, ExpireTimedOut(e)
  PROVE  VInv'
<1> DEFINE a == db[e]
<1>1. PICK t \in Past : CanExpireTimedOut(a, t) /\ Put(e, Expire(a, t))
  BY DEF ExpireTimedOut
<1>2. /\ a \in Aggregate /\ a.domainEvents = <<>> /\ Founded(a) /\ t \in Nat
      /\ Executed(e) => ByExecute(a)
  BY DEF ExpireTimedOut, Inv, TypeOK, VInv, Good, Past
<1> HIDE DEF a
<1> DEFINE c == [a EXCEPT !.state = "EXPIRED", !.result = "SYSTEM_EXCEPTION",
                          !.reasonCodes = {Timeout}, !.expiredAt = t]
<1>3. c \in Aggregate /\ c.domainEvents = <<>>
  BY <1>2 DEF Aggregate, State, Result, ReasonCode, Time
<1>4. /\ c.state = "EXPIRED" /\ c.ruleOutcomes = a.ruleOutcomes
      /\ c.requiredRuleIDs = a.requiredRuleIDs /\ c.evidenceBinding = a.evidenceBinding
      /\ c.policyBinding = a.policyBinding
  BY <1>2 DEF Aggregate
<1>5. Put(e, Emit(c, "Expired"))
  BY <1>1 DEF Expire
<1> HIDE DEF c
<1>6. Founded(c) /\ (ByExecute(a) => ByExecute(c))
  BY <1>2, <1>4 DEF Founded, ByExecute, ReadyToExecute, RecordedRules, RequiredRules,
     Decision
<1>7. "Expired" \in EventType
  BY DEF EventType
<1> QED BY <1>2, <1>3, <1>5, <1>6, <1>7, MutationKeepsVInv

\* QualifyAndBind binds evidence once, before any rule is decided.
LEMMA BindEvidenceKeepsVInv ==
  ASSUME Inv, VInv, NEW e \in Eval, BindEvidence(e)
  PROVE  VInv'
<1> DEFINE a == db[e]
<1>1. PICK p \in Qualifiable, S \in SUBSET evidence, t \in Past :
        /\ CanBindEvidenceSet(a, Qualification(p, S, t))
        /\ Put(e, BindEvidenceSet(a, Qualification(p, S, t)))
  BY DEF BindEvidence
<1>2. /\ a \in Aggregate /\ a.domainEvents = <<>> /\ Founded(a) /\ a # None
      /\ Executed(e) => ByExecute(a)
      /\ S \subseteq EvidenceObject /\ t \in 1 .. MaxTime /\ t \in Time
  BY MaxTimeAssumption DEF BindEvidence, Inv, TypeOK, VInv, Good, Past, Time
<1> DEFINE q == Qualification(p, S, t)
           c == [a EXCEPT !.evidenceBinding = q]
<1>3. CASE a.evidenceBinding = q
  BY <1>1, <1>2, <1>3, RepetitionKeepsVInv DEF BindEvidenceSet
<1>4. CASE a.evidenceBinding # q
  <2>1. a.evidenceBinding = None
    BY <1>1, <1>4 DEF CanBindEvidenceSet
  <2>2. /\ q \in EvidenceSetBinding /\ q.evidence = S
        /\ q.status = "QUALIFIED" => Qualifies(p, S, t)
    BY <1>2 DEF Qualification, EvidenceSetBinding, QualificationStatus
  <2>3. Put(e, Emit(c, "EvidenceSetBound"))
    BY <1>1, <1>4 DEF BindEvidenceSet
  <2> HIDE DEF a, q
  <2>4. c \in Aggregate /\ c.domainEvents = <<>>
    BY <1>2, <2>2 DEF Aggregate
  <2>5. /\ c.state = a.state /\ c.completedAt = a.completedAt
        /\ c.ruleOutcomes = a.ruleOutcomes /\ c.requiredRuleIDs = a.requiredRuleIDs
        /\ c.evidenceBinding = q
    BY <1>2 DEF Aggregate
  <2> HIDE DEF c
  <2>6. Founded(c)
    BY <1>2, <2>2, <2>5 DEF Founded, RecordedRules, RequiredRules
  <2>7. ~Executed(e)
    BY <1>2, <2>1 DEF ByExecute, ReadyToExecute
  <2>8. "EvidenceSetBound" \in EventType
    BY DEF EventType
  <2> QED BY <2>3, <2>4, <2>6, <2>7, <2>8, MutationKeepsVInv
<1> QED BY <1>3, <1>4

\* A policy is bound once, too.
LEMMA BindPolicyKeepsVInv ==
  ASSUME Inv, VInv, NEW e \in Eval, BindPolicy(e)
  PROVE  VInv'
<1> DEFINE a == db[e]
<1>1. PICK p \in Policy, t \in Past \cup CallerTime :
        LET b == [policy |-> p, boundAt |-> t] IN
        /\ CanBindVerificationPolicy(a, b)
        /\ Put(e, BindVerificationPolicy(a, b))
  BY DEF BindPolicy
<1>2. /\ a \in Aggregate /\ a.domainEvents = <<>> /\ Founded(a) /\ a # None
      /\ Executed(e) => ByExecute(a)
      /\ t \in Time
  BY CallerAssumption DEF BindPolicy, Inv, TypeOK, VInv, Good, Past, Time
<1> DEFINE b == [policy |-> p, boundAt |-> t]
           c == [a EXCEPT !.policyBinding = b]
<1>3. CASE a.policyBinding = b
  BY <1>1, <1>2, <1>3, RepetitionKeepsVInv DEF BindVerificationPolicy
<1>4. CASE a.policyBinding # b
  <2>1. a.policyBinding = None
    BY <1>1, <1>4 DEF CanBindVerificationPolicy
  <2>2. b \in PolicyBinding
    BY <1>2 DEF PolicyBinding
  <2>3. Put(e, Emit(c, "VerificationPolicyBound"))
    BY <1>1, <1>4 DEF BindVerificationPolicy
  <2> HIDE DEF a, b
  <2>4. c \in Aggregate /\ c.domainEvents = <<>>
    BY <1>2, <2>2 DEF Aggregate
  <2>5. /\ c.state = a.state /\ c.completedAt = a.completedAt
        /\ c.ruleOutcomes = a.ruleOutcomes /\ c.requiredRuleIDs = a.requiredRuleIDs
        /\ c.evidenceBinding = a.evidenceBinding
    BY <1>2 DEF Aggregate
  <2> HIDE DEF c
  <2>6. Founded(c)
    BY <1>2, <2>5 DEF Founded, RecordedRules, RequiredRules
  <2>7. ~Executed(e)
    BY <1>2, <2>1 DEF ByExecute, ReadyToExecute
  <2>8. "VerificationPolicyBound" \in EventType
    BY DEF EventType
  <2> QED BY <2>3, <2>4, <2>6, <2>7, <2>8, MutationKeepsVInv
<1> QED BY <1>3, <1>4

\* RecordOutcome finds nothing to record once Execute has decided all rules.
LEMMA RecordOutcomeKeepsVInv ==
  ASSUME Inv, VInv, NEW e \in Eval, RecordOutcome(e)
  PROVE  VInv'
<1> DEFINE a == db[e]
<1>1. PICK r \in Rule, s \in CallerStatus, t \in Past \cup CallerTime :
        LET o == [status |-> s, evaluatedAt |-> t] IN
        /\ CanRecordRuleOutcome(a, r, o)
        /\ Put(e, RecordRuleOutcome(a, r, o))
  BY DEF RecordOutcome
<1>2. /\ a \in Aggregate /\ a.domainEvents = <<>> /\ Founded(a) /\ a # None
      /\ Executed(e) => ByExecute(a)
      /\ t \in Time /\ s \in Status
  <2>1. s \in Status
    BY CallerAssumption
  <2>2. t \in Time
    <3>1. Past \subseteq Nat
      BY DEF Past
    <3> QED BY <3>1, CallerAssumption DEF Time
  <2>3. a # None /\ a.domainEvents = <<>>
    BY DEF RecordOutcome, Inv, TypeOK
  <2> QED BY <2>1, <2>2, <2>3 DEF Inv, VInv, Good
<1> DEFINE o == [status |-> s, evaluatedAt |-> t]
           os == Merged(a, [x \in {r} |-> o])
           c == [a EXCEPT !.ruleOutcomes = os]
<1>3. CASE r \in RecordedRules(a)
  BY <1>1, <1>2, <1>3, RepetitionKeepsVInv DEF RecordRuleOutcome
<1>4. CASE r \notin RecordedRules(a)
  <2>1. a.requiredRuleIDs = <<>> \/ r \in RequiredRules(a)
    BY <1>1 DEF CanRecordRuleOutcome, CanRecordRuleOutcomes, InPlan, IsRuleRequired
  <2>2. o \in RuleOutcome
    BY <1>2 DEF RuleOutcome
  <2>3. Put(e, Emit(c, "RuleOutcomeRecorded"))
    BY <1>1, <1>4 DEF RecordRuleOutcome
  <2> HIDE DEF a, o
  <2>4. os = [x \in Rule |-> IF x = r THEN o ELSE a.ruleOutcomes[x]]
    BY DEF Merged
  <2>5. os \in RuleOutcomes
    BY <1>2, <2>2, <2>4 DEF RuleOutcomes, Aggregate
  <2> HIDE DEF os
  <2>6. c \in Aggregate /\ c.domainEvents = <<>>
    BY <1>2, <2>5 DEF Aggregate
  <2>7. /\ c.state = a.state /\ c.completedAt = a.completedAt
        /\ c.ruleOutcomes = os /\ c.requiredRuleIDs = a.requiredRuleIDs
        /\ c.evidenceBinding = a.evidenceBinding
    BY <1>2 DEF Aggregate
  <2> HIDE DEF c
  <2>8. RecordedRules(c) \subseteq RecordedRules(a) \cup {r}
    BY <2>4, <2>7 DEF RecordedRules
  <2>9. RequiredRules(c) = RequiredRules(a)
    BY <2>7 DEF RequiredRules
  <2>10. Founded(c)
    BY <1>2, <2>1, <2>7, <2>8, <2>9 DEF Founded
  <2>11. ~Executed(e)
    BY <1>2, <1>4, <2>1 DEF ByExecute
  <2>12. "RuleOutcomeRecorded" \in EventType
    BY DEF EventType
  <2> QED BY <2>3, <2>6, <2>10, <2>11, <2>12, MutationKeepsVInv
<1> QED BY <1>3, <1>4

\* Execute decides all rules at once, on QUALIFIED evidence.
LEMMA ExecuteKeepsVInv ==
  ASSUME Inv, VInv, NEW e \in Eval, ExecuteRules(e)
  PROVE  VInv'
<1> DEFINE a == db[e]
<1>1. PICK t \in Past : CanExecute(a, t) /\ Put(e, Execute(a, t))
  BY DEF ExecuteRules
<1>2. /\ a \in Aggregate /\ a.domainEvents = <<>> /\ Founded(a) /\ a # None
      /\ t \in Time
  BY DEF ExecuteRules, Inv, TypeOK, VInv, Good, Past, Time
<1> DEFINE os == Merged(a, Outcomes(a, t))
           c == [a EXCEPT !.ruleOutcomes = os]
           type == "RuleOutcomeBatchRecorded"
<1>3. CASE DOMAIN Pending(a, Outcomes(a, t)) = {}
  BY <1>1, <1>2, <1>3, RepetitionKeepsVInv DEF Execute, RecordRuleOutcomeBatch
<1>4. CASE DOMAIN Pending(a, Outcomes(a, t)) # {}
  <2>1. Put(e, Emit(c, type))
    BY <1>1, <1>4 DEF Execute, RecordRuleOutcomeBatch
  <2>2. DOMAIN Pending(a, Outcomes(a, t)) \subseteq RequiredRules(a)
    BY DEF Pending, Outcomes
  <2>3. RequiredRules(a) # {}
    BY <1>4, <2>2
  <2> HIDE DEF a
  <2>4. a.requiredRuleIDs # <<>>
    BY <2>3 DEF RequiredRules
  <2>5. /\ ReadyToExecute(a) /\ RecordedRules(a) = {}
        /\ a.policyBinding.policy \in Policy
        /\ a.evidenceBinding.evidence \in SUBSET EvidenceObject
        /\ \A r \in RequiredRules(a) : Decision(a, r) # Failure
    BY <1>1, <1>2 DEF CanExecute, ReadyToExecute, Aggregate, PolicyBinding,
       EvidenceSetBinding
  <2>6. RequiredRules(a) \subseteq Rule
    BY <1>2 DEF RequiredRules, Aggregate
  <2>7. \A r \in RequiredRules(a) : Decision(a, r) \in Status
    BY <2>5, <2>6, DecideAssumption DEF Decision
  <2>8. os = [r \in Rule |-> IF r \in RequiredRules(a)
                             THEN [status |-> Decision(a, r), evaluatedAt |-> t]
                             ELSE a.ruleOutcomes[r]]
    BY DEF Merged, Outcomes
  <2>9. \A r \in RequiredRules(a) : os[r] \in RuleOutcome /\ os[r].status = Decision(a, r)
    BY <1>2, <2>6, <2>7, <2>8 DEF RuleOutcome
  <2>10. os \in RuleOutcomes
    <3>1. \A r \in Rule : os[r] \in RuleOutcome \cup {None}
      BY <1>2, <2>8, <2>9 DEF RuleOutcomes, Aggregate
    <3> QED BY <2>8, <3>1 DEF RuleOutcomes
  <2>11. \A r \in Rule : r \notin RequiredRules(a) => os[r] = None
    BY <2>5, <2>8 DEF RecordedRules
  <2> HIDE DEF os
  <2>12. c \in Aggregate /\ c.domainEvents = <<>>
    BY <1>2, <2>10 DEF Aggregate
  <2>13. /\ c.state = a.state /\ c.completedAt = a.completedAt
         /\ c.ruleOutcomes = os /\ c.requiredRuleIDs = a.requiredRuleIDs
         /\ c.evidenceBinding = a.evidenceBinding /\ c.policyBinding = a.policyBinding
    BY <1>2 DEF Aggregate
  <2> HIDE DEF c
  <2>14. RequiredRules(c) = RequiredRules(a) /\ \A r : Decision(c, r) = Decision(a, r)
    BY <2>13 DEF RequiredRules, Decision
  <2>15. RecordedRules(c) = RequiredRules(a)
    BY <2>6, <2>9, <2>11, <2>13, AbsenceAssumption DEF RecordedRules
  <2>16. Founded(c)
    BY <1>2, <2>13, <2>14, <2>15 DEF Founded
  <2>17. ByExecute(c)
    BY <2>4, <2>5, <2>9, <2>13, <2>14, <2>15 DEF ByExecute, ReadyToExecute
  <2>18. type \in EventType
    BY DEF EventType
  <2> HIDE DEF type
  <2> QED BY <2>1, <2>12, <2>16, <2>17, <2>18, MutationKeepsVInv
<1> QED BY <1>3, <1>4

\* The events of a new evaluation say nothing of outcomes.
LEMMA CreatedHasNoBatch ==
  ASSUME NEW p \in Policy, NEW t \in Time
  PROVE  ~HasBatch(Created(Plan[p], t)) /\ ~HasBatch(CreatedForPolicy(p, t))
<1> DEFINE plan == Plan[p]
           first == <<[type |-> "Created", version |-> 1]>>
           more == [i \in 1 .. Len(plan) |->
                      [type |-> "RequiredRuleRegistered", version |-> 1 + i]]
           a == Created(plan, t)
           b == [policy |-> p, boundAt |-> t]
           ev == [type |-> "VerificationPolicyBound", version |-> a.version + 1]
           Quiet(s) == \A i \in 1 .. Len(s) : s[i].type # "RuleOutcomeBatchRecorded"
<1>1. plan \in Seq(Rule) /\ Len(plan) \in Nat
  BY PlanAssumption
<1>2. a.domainEvents = first \o more
  BY DEF Created, WithPlan, NewEvaluation
<1>3. a \in Aggregate /\ a.policyBinding = None
  BY <1>1, CreatedFresh DEF Fresh
<1>4. CreatedForPolicy(p, t).domainEvents = Append(a.domainEvents, ev)
  <2>1. a.policyBinding # b
    BY <1>3, NoneAssumption DEF PolicyBinding
  <2>2. CreatedForPolicy(p, t) = Emit([a EXCEPT !.policyBinding = b],
                                      "VerificationPolicyBound")
    BY <2>1 DEF CreatedForPolicy, BindVerificationPolicy
  <2> HIDE DEF a, b
  <2> QED BY <1>3, <2>2 DEF Emit, Aggregate
<1>5. /\ Len(first) = 1 /\ first \in Seq(DomainEvent) /\ Quiet(first)
      /\ more \in Seq(DomainEvent) /\ Quiet(more) /\ ev.type = "VerificationPolicyBound"
  BY <1>1 DEF DomainEvent, EventType
<1> HIDE DEF first, more, a, ev
<1>6. Quiet(first \o more)
  BY <1>5, ConcatProperties
<1>7. Quiet(Append(a.domainEvents, ev))
  <2>1. a.domainEvents \in Seq(DomainEvent) /\ Quiet(a.domainEvents)
    BY <1>2, <1>3, <1>6 DEF Aggregate
  <2> QED BY <1>5, <2>1
<1>8. ~HasBatch(a) /\ ~HasBatch(CreatedForPolicy(p, t))
  BY <1>2, <1>4, <1>6, <1>7 DEF HasBatch
<1> QED BY <1>8 DEF a

\* A new evaluation has no outcomes, no evidence and no end.
LEMMA CreatedIsFounded ==
  ASSUME NEW p \in Policy, NEW t \in Time
  PROVE  /\ Founded(Snapshot(Created(Plan[p], t)))
         /\ Founded(Snapshot(CreatedForPolicy(p, t)))
<1> DEFINE a == Created(Plan[p], t)
           b == [policy |-> p, boundAt |-> t]
           Blank(x) == /\ x \in Aggregate /\ x.state = "CREATED" /\ x.evidenceBinding = None
                       /\ x.ruleOutcomes = [r \in Rule |-> None]
<1>1. a \in Aggregate
  BY PlanAssumption, CreatedFresh DEF Fresh
<1>2. Blank(a)
  BY <1>1 DEF Created, WithPlan, NewEvaluation
<1>3. CreatedForPolicy(p, t) =
        IF a.policyBinding = b THEN a
        ELSE Emit([a EXCEPT !.policyBinding = b], "VerificationPolicyBound")
  BY DEF CreatedForPolicy, BindVerificationPolicy
<1>4. b \in PolicyBinding
  BY DEF PolicyBinding
<1> HIDE DEF a, b
<1>5. Blank(Emit([a EXCEPT !.policyBinding = b], "VerificationPolicyBound"))
  <2> DEFINE c == [a EXCEPT !.policyBinding = b]
  <2>1. Blank(c)
    BY <1>2, <1>4 DEF Aggregate
  <2>2. "VerificationPolicyBound" \in EventType
    BY DEF EventType
  <2> HIDE DEF c
  <2>3. Emit(c, "VerificationPolicyBound") \in Aggregate
    BY <2>1, <2>2, EmitAggregate
  <2>4. Blank(Emit(c, "VerificationPolicyBound"))
    BY <2>1, <2>3 DEF Emit, Aggregate
  <2> QED BY <2>4 DEF c
<1>6. ASSUME NEW x, Blank(x) PROVE Founded(Snapshot(x))
  <2>1. Same(x, Snapshot(x), {})
    BY <1>6, SnapshotFields
  <2>2. /\ Snapshot(x).state = "CREATED" /\ Snapshot(x).evidenceBinding = None
        /\ Snapshot(x).ruleOutcomes = [r \in Rule |-> None]
    BY <1>6, <2>1 DEF Same, Field
  <2>3. RecordedRules(Snapshot(x)) = {}
    BY <2>2 DEF RecordedRules
  <2> QED BY <2>2, <2>3 DEF Founded
<1>7. Blank(CreatedForPolicy(p, t))
  BY <1>2, <1>3, <1>5
<1> QED BY <1>2, <1>6, <1>7 DEF a

\* Create stores it.
LEMMA CreateKeepsVInv ==
  ASSUME Inv, VInv, NEW e \in Eval, Create(e)
  PROVE  VInv'
<1>1. PICK p \in Policy, t \in Past :
        Put(e, Created(Plan[p], t)) \/ Put(e, CreatedForPolicy(p, t))
  BY DEF Create
<1>2. t \in Time /\ ~Executed(e)
  <2>1. outbox[e] = <<>>
    BY DEF Create, Inv, OneEventPerVersion
  <2> QED BY <2>1 DEF Executed, Past, Time, Inv, TypeOK
<1>3. PICK b : /\ b \in Aggregate /\ Put(e, b) /\ ~HasBatch(b) /\ Founded(Snapshot(b))
  BY <1>1, <1>2, CreatedFresh, CreatedForPolicyFresh, CreatedHasNoBatch,
     CreatedIsFounded, PlanAssumption DEF Fresh
<1> QED BY <1>2, <1>3, PutKeepsVInv

\* Every step keeps what the stored aggregates are founded on; a later clock
\* only adds to the past.
LEMMA NextVInv == Inv /\ VInv /\ [Next]_vars => VInv'
<1> SUFFICES ASSUME Inv, VInv, [Next]_vars PROVE VInv'
  OBVIOUS
<1>1. ASSUME UNCHANGED <<db, outbox>>, clock' \in Nat, clock <= clock' PROVE VInv'
  <2>1. \A t \in Past : t \in Past'
    BY <1>1 DEF Past, Inv, TypeOK
  <2>2. \A e \in Eval : db'[e] = db[e] /\ (Executed(e)' <=> Executed(e))
    BY <1>1 DEF Executed
  <2>3. \A a : Founded(a) => Founded(a)'
    BY <2>1 DEF Founded
  <2> QED BY <2>2, <2>3 DEF VInv
<1>2. CASE Tick
  BY <1>1, <1>2 DEF Tick, Inv, TypeOK
<1>3. CASE Ingest
  BY <1>1, <1>3 DEF Ingest, Inv, TypeOK
<1>4. CASE UNCHANGED vars
  BY <1>1, <1>4 DEF vars, Inv, TypeOK
<1>5. ASSUME NEW e \in Eval,
             \/ Create(e) \/ StartEvaluation(e) \/ RecordOutcome(e)
             \/ BindEvidence(e) \/ BindPolicy(e) \/ ExecuteRules(e)
             \/ CompleteEvaluation(e) \/ ExpireTimedOut(e)
      PROVE  VInv'
  BY <1>5, CreateKeepsVInv, StartKeepsVInv, RecordOutcomeKeepsVInv,
     BindEvidenceKeepsVInv, BindPolicyKeepsVInv, ExecuteKeepsVInv, CompleteKeepsVInv,
     ExpireKeepsVInv
<1> QED BY <1>2, <1>3, <1>4, <1>5 DEF Next

\* The invariant holds throughout.
LEMMA VInvHolds == Spec => [](Inv /\ VInv)
<1>1. Init => VInv
  BY DEF Init, VInv, Executed
<1>2. Inv /\ VInv /\ [Next]_vars => VInv'
  BY NextVInv
<1> QED BY <1>1, <1>2, InvHolds, PTL DEF Spec

-----------------------------------------------------------------------------
(***************************************************************************)
(* What qualification means.                                               *)
(***************************************************************************)
Observes(o, p) == <<o.source, o.type, o.observedAt>> = <<p.source, p.type, p.observedAt>>

\* Evidence objects as the store keeps them: an identifier belongs to one object.
Identified(S) ==
  \A o \in S : /\ o.id \in Nat /\ o.observedAt \in Nat
               /\ \A p \in S : p.id = o.id => p = o

\* QualifySet, for any qualification policy, evidence and time: a set qualifies
\* exactly if it is not empty, every object passes on its own and belongs to the
\* session, and no two objects observe the same.
THEOREM QualifiedSets ==
  ASSUME NEW q, NEW S, Identified(S), NEW session, NEW t
  PROVE  Bundles!QualifySet(q, S, session, t) = "QUALIFIED" <=>
           /\ S # {}
           /\ \A o \in S : Bundles!QualifyReasons(q, o, t) = {} /\ o.session = session
           /\ \A o, p \in S : Observes(o, p) => o = p
<1> DEFINE G(o) == Bundles!Group(S, session, o)
           R(o) == Bundles!SetReasons(S, session, o)
<1>1. ASSUME NEW o \in S, NEW p \in S
      PROVE  p \in G(o) <=> p.session = session /\ Observes(o, p)
  BY DEF Bundles!Group, Observes
<1>2. ASSUME NEW o \in S PROVE G(o) \subseteq S
  BY DEF Bundles!Group
<1>3. ASSUME NEW o \in S
      PROVE  R(o) = {} <=> /\ o.session = session
                           /\ \A p \in G(o) : p.payload = o.payload
                           /\ \A p \in G(o) : ~Bundles!Earlier(p, o)
  BY DEF Bundles!SetReasons, Bundles!When
<1>4. ASSUME NEW o \in S, NEW p \in S, Observes(o, p), o # p
      PROVE  Bundles!Earlier(p, o) \/ Bundles!Earlier(o, p)
  <2>1. /\ o.id \in Nat /\ p.id \in Nat /\ o.id # p.id
        /\ o.observedAt = p.observedAt
    BY <1>4 DEF Identified, Observes
  <2> QED BY <2>1 DEF Bundles!Earlier
<1>5. ASSUME NEW o \in S PROVE ~Bundles!Earlier(o, o)
  <2>1. o.id \in Nat /\ o.observedAt \in Nat
    BY DEF Identified
  <2> QED BY <2>1 DEF Bundles!Earlier
<1>6. Bundles!QualifySet(q, S, session, t) = "QUALIFIED" <=>
        S # {} /\ \A o \in S : Bundles!QualifyReasons(q, o, t) = {} /\ R(o) = {}
  BY DEF Bundles!QualifySet, Bundles!Reasons
<1> HIDE DEF G, R
<1>7. ASSUME \A o \in S : R(o) = {}
      PROVE  \A o, p \in S : Observes(o, p) => o = p
  <2> SUFFICES ASSUME NEW o \in S, NEW p \in S, Observes(o, p), o # p PROVE FALSE
    OBVIOUS
  <2>1. Observes(p, o)
    BY DEF Observes
  <2>2. o.session = session /\ p.session = session
    BY <1>3, <1>7
  <2>3. p \in G(o) /\ o \in G(p)
    BY <1>1, <2>1, <2>2
  <2> QED BY <1>3, <1>4, <1>7, <2>3
<1>8. ASSUME \A o \in S : o.session = session, \A o, p \in S : Observes(o, p) => o = p
      PROVE  \A o \in S : R(o) = {}
  <2> SUFFICES ASSUME NEW o \in S PROVE R(o) = {}
    OBVIOUS
  <2>1. \A p \in G(o) : p = o
    BY <1>1, <1>2, <1>8
  <2> QED BY <1>3, <1>5, <1>8, <2>1
<1> QED BY <1>3, <1>6, <1>7, <1>8

\* The contents of evidence objects are identified by them.
LEMMA ContentsIdentified ==
  ASSUME NEW S \in SUBSET EvidenceObject
  PROVE  /\ Identified(Contents(S))
         /\ \A o \in Contents(S) : o.session = Session
         /\ Bundles!IDs(Contents(S)) = S
<1>1. \A o \in Contents(S) : \E k \in S :
        /\ o = Content[k] /\ k \in Nat /\ o.id = k
        /\ o.session = Session /\ o.observedAt \in Nat
  BY ContentAssumption DEF Contents
<1>2. \A k \in S : Content[k] \in Contents(S) /\ Content[k].id = k
  BY ContentAssumption DEF Contents
<1>3. Identified(Contents(S))
  BY <1>1 DEF Identified
<1>4. Bundles!IDs(Contents(S)) = S
  BY <1>1, <1>2 DEF Bundles!IDs
<1> QED BY <1>1, <1>3, <1>4

\* Execute never decides on ambiguous evidence, whatever the documents, the
\* evidence and the interleaving of the requests are: the binding it reads is
\* QUALIFIED and has never been replaced.
THEOREM EvidenceUnambiguous == Spec => []EvidenceIsUnambiguous
<1>1. Inv /\ VInv => EvidenceIsUnambiguous
  <2> SUFFICES ASSUME Inv, VInv, NEW e \in Eval, Executed(e),
                      NEW o \in Contents(db[e].evidenceBinding.evidence),
                      NEW p \in Contents(db[e].evidenceBinding.evidence),
                      Observes(o, p)
               PROVE  o = p
    BY DEF EvidenceIsUnambiguous, Observes
  <2> DEFINE S == db[e].evidenceBinding.evidence
  <2>1. /\ db[e] # None /\ Founded(db[e]) /\ ReadyToExecute(db[e])
        /\ db[e] \in Aggregate
    BY DEF VInv, ByExecute, Inv, TypeOK
  <2>2. S \in SUBSET EvidenceObject
    BY <2>1 DEF ReadyToExecute, Aggregate, EvidenceSetBinding
  <2>3. PICK v \in Qualifiable, t \in 1 .. MaxTime : Qualifies(v, S, t)
    BY <2>1 DEF Founded, ReadyToExecute
  <2> HIDE DEF S
  <2>4. Bundles!QualifiesUnder(Document[v], Contents(S), Session, t)
    BY <2>2, <2>3, QualifierAssumption
  <2>5. Identified(Contents(S))
    BY <2>2, ContentsIdentified
  <2>6. \A x, y \in Contents(S) : Observes(x, y) => x = y
    BY <2>4, <2>5, QualifiedSets DEF Bundles!QualifiesUnder
  <2> QED BY <2>6 DEF S
<1> QED BY <1>1, VInvHolds, PTL

-----------------------------------------------------------------------------
(***************************************************************************)
(* The verifier's loop over the outcomes.                                  *)
(***************************************************************************)
\* Induction over the natural numbers, for a set of them.
LEMMA SetInduction ==
  ASSUME NEW S, 0 \in S, \A n \in Nat : n \in S => n + 1 \in S
  PROVE  Nat \subseteq S
<1> DEFINE R == {ss \in Nat \X Nat : ss[1] < ss[2]}
           T == Nat \ S
<1>1. IsWellFoundedOn(R, Nat)
  BY NatLessThanWellFounded DEF OpToRel
<1>2. \A m, n \in Nat : m < n => <<m, n>> \in R
  OBVIOUS
<1> HIDE DEF R
<1>3. ASSUME T # {} PROVE FALSE
  <2>1. PICK n \in T : \A m \in T : <<m, n>> \notin R
    BY <1>1, <1>3, WFMin
  <2>2. n \in Nat /\ n # 0 /\ n - 1 \in Nat /\ n - 1 < n /\ (n - 1) + 1 = n
    BY <2>1
  <2>3. n - 1 \in S
    BY <1>2, <2>1, <2>2
  <2> QED BY <2>1, <2>2, <2>3
<1> QED BY <1>3

\* The status that decides among the first n outcomes, as a result: the rule by
\* which DeriveResult decides.
Among(outcomes, n, s) == \E i \in 1 .. n : outcomes[i].status = s

Strongest(outcomes, n) ==
  CASE Among(outcomes, n, "FAIL") -> "REJECTED"
    [] ~Among(outcomes, n, "FAIL") /\ Among(outcomes, n, "INCONCLUSIVE")
         -> "MANUAL_REVIEW"
    [] /\ ~Among(outcomes, n, "FAIL") /\ ~Among(outcomes, n, "INCONCLUSIVE")
       /\ Among(outcomes, n, "WARNING") -> "VERIFIED_WITH_EXCEPTION"
    [] OTHER -> "VERIFIED"

\* One more outcome.
LEMMA StrongestStep ==
  ASSUME NEW outcomes, NEW n \in Nat \ {0}
  PROVE  Strongest(outcomes, n) =
           Bundles!UpdateVerificationResult(Strongest(outcomes, n - 1), outcomes[n].status)
<1>1. \A s : Among(outcomes, n, s) <=> Among(outcomes, n - 1, s) \/ outcomes[n].status = s
  BY DEF Among
<1> DEFINE x == Strongest(outcomes, n - 1)
           st == outcomes[n].status
<1>2. CASE st = "FAIL"
  BY <1>1, <1>2 DEF Strongest, Bundles!UpdateVerificationResult
<1>3. CASE st = "INCONCLUSIVE"
  BY <1>1, <1>3 DEF Strongest, Bundles!UpdateVerificationResult
<1>4. CASE st = "WARNING"
  BY <1>1, <1>4 DEF Strongest, Bundles!UpdateVerificationResult
<1>5. CASE st \notin {"FAIL", "INCONCLUSIVE", "WARNING"}
  <2>1. Bundles!UpdateVerificationResult(x, st) = x
    BY <1>5, Zenon DEF Bundles!UpdateVerificationResult
  <2>2. Strongest(outcomes, n) = x
    BY <1>1, <1>5 DEF Strongest
  <2> QED BY <2>1, <2>2
<1> QED BY <1>2, <1>3, <1>4, <1>5

\* The loop of VerifyDecision, which updates the result with one outcome after
\* the other, ends with the result that the strongest outcome decides: the order
\* of the rules does not matter.
THEOREM LoopFindsStrongest ==
  ASSUME NEW outcomes, Len(outcomes) \in Nat
  PROVE  Bundles!RecalculatedResult(outcomes) = Strongest(outcomes, Len(outcomes))
<1> DEFINE n == Len(outcomes)
           U(x, i) == Bundles!UpdateVerificationResult(x, outcomes[i].status)
           Eq(g) == g = [i \in 0 .. n |-> IF i = 0 THEN "VERIFIED" ELSE U(g[i - 1], i)]
           f == [i \in 0 .. n |-> Strongest(outcomes, i)]
           after == CHOOSE g : Eq(g)
<1>1. Bundles!RecalculatedResult(outcomes) = after[n]
  BY DEF Bundles!RecalculatedResult
<1>2. Strongest(outcomes, 0) = "VERIFIED"
  BY DEF Strongest, Among
<1>3. \A i \in 1 .. n : Strongest(outcomes, i) = U(Strongest(outcomes, i - 1), i)
  BY StrongestStep
<1> HIDE DEF U
<1>4. Eq(f)
  <2>1. \A i \in 0 .. n : f[i] = IF i = 0 THEN "VERIFIED" ELSE U(f[i - 1], i)
    BY <1>2, <1>3
  <2> QED BY <2>1
<1>5. Eq(after)
  BY <1>4
<1> DEFINE S == {i \in Nat : i <= n => after[i] = Strongest(outcomes, i)}
<1> HIDE DEF after, n
<1>6. 0 \in S
  BY <1>2, <1>5 DEF n
<1>7. ASSUME NEW i \in Nat, i \in S PROVE i + 1 \in S
  <2> SUFFICES ASSUME i + 1 <= n PROVE after[i + 1] = Strongest(outcomes, i + 1)
    OBVIOUS
  <2>1. n \in Nat /\ i + 1 \in 0 .. n /\ i + 1 \in 1 .. n /\ i + 1 # 0 /\ (i + 1) - 1 = i /\ i <= n
    BY DEF n
  <2>2. after[i + 1] = U(after[i], i + 1)
    BY <1>5, <2>1
  <2>3. Strongest(outcomes, i + 1) = U(Strongest(outcomes, i), i + 1)
    BY <1>3, <2>1
  <2> QED BY <1>7, <2>1, <2>2, <2>3
<1>8. n \in S
  <2> HIDE DEF S
  <2> QED BY <1>6, <1>7, SetInduction DEF n
<1> QED BY <1>1, <1>8 DEF n

-----------------------------------------------------------------------------
(***************************************************************************)
(* The verifier repeats the decision.                                      *)
(***************************************************************************)
\* What is packed is what the verifier unpacks: Build and VerifyBundle agree on
\* the root.
LEMMA BuiltBundleVerifies ==
  ASSUME NEW id, id # None, NEW t, t > 0, NEW trace, NEW S, NEW policy,
         NEW b, b = Bundles!Build(id, t, trace, S, policy)
  PROVE  /\ Bundles!VerifyBundle(b)
         /\ b.objects = [trace |-> trace, policy |-> policy, evidence |-> S]
         /\ b.manifest.evaluation = trace.evaluation
         /\ b.manifest.session = trace.session
         /\ b.manifest.policy = trace.policyBinding
<1> DEFINE objects == [trace |-> trace, policy |-> policy, evidence |-> S]
           M(root) == [bundleID |-> id, evaluation |-> trace.evaluation,
                       session |-> trace.session, generatedAt |-> t,
                       policy |-> trace.policyBinding, objects |-> objects,
                       bundleRoot |-> root]
<1> HIDE DEF objects
<1>1. \A x, y : [M(x) EXCEPT !.bundleRoot = y] = M(y)
  OBVIOUS
<1>2. \A x : Bundles!CalculateRoot(M(x)) = M(None)
  BY <1>1 DEF Bundles!CalculateRoot
<1>3. Bundles!WithRoot(M(None)) = M(M(None))
  BY <1>1, <1>2 DEF Bundles!WithRoot
<1>4. b = [manifest |-> Bundles!WithRoot(M(None)), objects |-> objects]
  BY DEF Bundles!Build, objects
<1>5. b.manifest = M(M(None)) /\ b.objects = objects
  BY <1>3, <1>4
<1>6. /\ b.manifest.bundleID = id /\ b.manifest.generatedAt = t
      /\ b.manifest.objects = objects /\ b.manifest.bundleRoot = M(None)
      /\ b.manifest.evaluation = trace.evaluation /\ b.manifest.session = trace.session
      /\ b.manifest.policy = trace.policyBinding
  BY <1>5
<1>7. Bundles!VerifyBundle(b)
  <2>1. Bundles!CalculateRoot(b.manifest) = b.manifest.bundleRoot
    BY <1>2, <1>5, <1>6
  <2> HIDE DEF M
  <2> QED BY <1>5, <1>6, <2>1 DEF Bundles!VerifyBundle
<1> QED BY <1>5, <1>6, <1>7 DEF objects

\* The trace of a decision by Execute and Complete, and what it is based on.
LEMMA TraceOfDecision ==
  ASSUME Inv, VInv, NEW e \in Eval, Executed(e), db[e].state = "COMPLETED"
  PROVE  /\ db[e] \in Aggregate
         /\ db[e].policyBinding # None /\ db[e].policyBinding.policy \in Policy
         /\ db[e].evidenceBinding # None /\ db[e].evidenceBinding.status = "QUALIFIED"
         /\ db[e].evidenceBinding.evidence \in SUBSET EvidenceObject
         /\ db[e].requiredRuleIDs \in Seq(Rule) \ {<<>>}
         /\ RecordedRules(db[e]) = RequiredRules(db[e])
         /\ \A r \in RequiredRules(db[e]) :
              db[e].ruleOutcomes[r].status = Decision(db[e], r)
         /\ db[e].result = DerivedResult(db[e])
         /\ db[e].completedAt \in 1 .. clock /\ clock \in Nat \ {0}
<1> DEFINE a == db[e]
<1>1. a # None /\ Good(a) /\ Founded(a) /\ ByExecute(a) /\ clock \in Nat \ {0}
  <2>1. a # None
    BY DEF VInv
  <2>2. clock \in Nat \ {0}
    BY DEF Inv, TypeOK
  <2> QED BY <2>1, <2>2 DEF VInv, Inv
<1>2. a.state = "COMPLETED"
  OBVIOUS
<1> HIDE DEF a
<1>3. /\ a \in Aggregate /\ a.result = DerivedResult(a)
      /\ a.completedAt \in 1 .. clock
  BY <1>1, <1>2 DEF Good, DecisionFollowsFrom, Founded, Past
<1>4. /\ a.policyBinding # None /\ a.evidenceBinding # None
      /\ a.evidenceBinding.status = "QUALIFIED" /\ a.requiredRuleIDs # <<>>
      /\ RecordedRules(a) = RequiredRules(a)
      /\ \A r \in RequiredRules(a) : a.ruleOutcomes[r].status = Decision(a, r)
  BY <1>1 DEF ByExecute, ReadyToExecute, Founded
<1>5. /\ a.policyBinding.policy \in Policy /\ a.requiredRuleIDs \in Seq(Rule)
      /\ a.evidenceBinding.evidence \in SUBSET EvidenceObject
  BY <1>3, <1>4 DEF Aggregate, PolicyBinding, EvidenceSetBinding
<1> QED BY <1>1, <1>3, <1>4, <1>5 DEF a

\* The verifier's loop over the outcomes of a trace finds the result of
\* DeriveResult.
LEMMA LoopDerivesResult ==
  ASSUME NEW a, a.requiredRuleIDs \in Seq(Rule), RecordedRules(a) = RequiredRules(a),
         NEW outcomes,
         outcomes = [i \in 1 .. Len(a.requiredRuleIDs) |->
                       [rule |-> a.requiredRuleIDs[i],
                        status |-> a.ruleOutcomes[a.requiredRuleIDs[i]].status]]
  PROVE  Bundles!RecalculatedResult(outcomes) = DerivedResult(a)
<1> DEFINE n == Len(a.requiredRuleIDs)
<1>1. n \in Nat
  OBVIOUS
<1>2. Len(outcomes) = n
  BY <1>1
<1>3. \A i \in 1 .. n : outcomes[i].status = a.ruleOutcomes[a.requiredRuleIDs[i]].status
  OBVIOUS
<1>4. \A s : Among(outcomes, n, s) <=> HasStatus(a, s)
  BY <1>3 DEF Among, HasStatus, RequiredRules
<1> HIDE DEF n
<1>5. Strongest(outcomes, n) = DerivedResult(a)
  BY <1>4 DEF Strongest, DerivedResult
<1> QED BY <1>1, <1>2, <1>5, LoopFindsStrongest

\* Build accepts the bound evidence of a decision, at any later time.
LEMMA DecisionCanBeBuilt ==
  ASSUME Inv, VInv, NEW e \in Eval, Executed(e), db[e].state = "COMPLETED"
  PROVE  /\ Bundles!CanBuild("bundle", clock, DecisionTrace(e),
                             Contents(db[e].evidenceBinding.evidence))
         /\ Bundles!BuildObjects(DecisionTrace(e), Contents(db[e].evidenceBinding.evidence))
         /\ DecisionTrace(e).evidenceBinding # None
         /\ \A o \in DecisionTrace(e).evidenceBinding.evidence : o.status = "QUALIFIED"
<1> DEFINE a == db[e]
           S == a.evidenceBinding.evidence
           trace == DecisionTrace(e)
           status == a.evidenceBinding.status
           binding == [session |-> Session,
                       evidence |-> {[id |-> o, status |-> status] : o \in S}]
<1>1. /\ a \in Aggregate /\ a.policyBinding.policy \in Policy
      /\ status = "QUALIFIED" /\ S \in SUBSET EvidenceObject
      /\ a.completedAt \in 1 .. clock /\ clock \in Nat \ {0} /\ a.state = "COMPLETED"
  BY TraceOfDecision
<1>2. /\ trace.session = Session /\ trace.state = a.state
      /\ trace.finalizedAt = a.completedAt /\ trace.evidenceBinding = binding
      /\ trace.policyBinding = Document[a.policyBinding.policy]
  BY DEF DecisionTrace
<1> HIDE DEF a, S, trace, status
<1>3. Bundles!IDs(binding.evidence) = S /\ binding.session = Session
  <2>1. \A o \in S : \E x \in binding.evidence : x.id = o
    <3> SUFFICES ASSUME NEW o \in S PROVE \E x \in binding.evidence : x.id = o
      OBVIOUS
    <3> WITNESS [id |-> o, status |-> status] \in binding.evidence
    <3> QED OBVIOUS
  <2>2. \A x \in binding.evidence : x.id \in S
    OBVIOUS
  <2>3. binding.session = Session
    OBVIOUS
  <2> HIDE DEF binding
  <2>4. Bundles!IDs(binding.evidence) = S
    BY <2>1, <2>2 DEF Bundles!IDs
  <2> QED BY <2>3, <2>4
<1>4. \A o \in binding.evidence : o.status = "QUALIFIED"
  BY <1>1
<1>5. binding \in TraceBinding
  BY <1>1 DEF TraceBinding, QualificationStatus
<1> HIDE DEF binding
<1>6. binding # None /\ "bundle" # None
  BY <1>5, AbsenceAssumption
<1>7. Document[a.policyBinding.policy] # None
  BY <1>1, DocumentAssumption
<1>8. Bundles!BuildObjects(trace, Contents(S))
  BY <1>1, <1>2, <1>3, ContentsIdentified DEF Bundles!BuildObjects
<1>9. Bundles!CanBuild("bundle", clock, trace, Contents(S))
  BY <1>1, <1>2, <1>3, <1>6, <1>7, <1>8 DEF Bundles!CanBuild
<1> QED BY <1>2, <1>4, <1>6, <1>8, <1>9 DEF a, S, trace

\* The rules of an admissible document compile, so that the service and the
\* verifier decide them alike.
LEMMA DecidedAsCompiled ==
  ASSUME NEW p \in Policy, NEW r \in Rule, NEW S \in SUBSET EvidenceObject,
         Bundles!ValidatePolicyDocument(Document[p]),
         r \in Bundles!Range(Document[p].required)
  PROVE  Decide(p, r, S) = Bundles!DecideBy(Document[p], r, Contents(S), None)
<1>1. Bundles!CompileRule(Document[p], r)
  BY DEF Bundles!ValidatePolicyDocument
<1>2. Decide(p, r, S) = Bundles!DecideBy(Document[p], r, Contents(S), Failure)
  BY OperatorAssumption
<1> QED BY <1>1, <1>2 DEF Bundles!DecideBy

\* A verifier with nothing but the evidence bundle repeats exactly the decisions
\* made by an admissible document and by all of its rules: VerifyDecision has the
\* same answer as Execute and Complete for any documents, evidence and rules, and
\* whatever else the services do between the requests.
THEOREM DecisionsVerified == Spec => []DecisionsVerify
<1>1. Inv /\ VInv => DecisionsVerify
  <2> SUFFICES ASSUME Inv, VInv, NEW e \in Eval, Executed(e), db[e].state = "COMPLETED"
               PROVE  LET version == Document[db[e].policyBinding.policy]
                          trace == DecisionTrace(e)
                          bound == Contents(db[e].evidenceBinding.evidence)
                          snapshot == [kind |-> "snapshot", version |-> version]
                      IN /\ Bundles!CanBuild("bundle", clock, trace, bound)
                         /\ Bundles!VerifyDecision(
                              Bundles!Build("bundle", clock, trace, bound, snapshot))
                              <=> /\ Bundles!ValidatePolicyDocument(version)
                                  /\ db[e].requiredRuleIDs = version.required
    BY DEF DecisionsVerify
  <2> DEFINE a == db[e]
             policy == a.policyBinding.policy
             version == Document[policy]
             trace == DecisionTrace(e)
             S == a.evidenceBinding.evidence
             bound == Contents(S)
             snapshot == [kind |-> "snapshot", version |-> version]
             b == Bundles!Build("bundle", clock, trace, bound, snapshot)
             required == a.requiredRuleIDs
             outcomes == [i \in 1 .. Len(required) |->
                            [rule |-> required[i],
                             status |-> a.ruleOutcomes[required[i]].status]]
  <2>1. /\ a \in Aggregate /\ policy \in Policy
        /\ S \in SUBSET EvidenceObject
        /\ required \in Seq(Rule) \ {<<>>}
        /\ RecordedRules(a) = RequiredRules(a)
        /\ \A r \in RequiredRules(a) : a.ruleOutcomes[r].status = Decision(a, r)
        /\ a.result = DerivedResult(a) /\ a.state = "COMPLETED"
        /\ a.completedAt \in 1 .. clock /\ clock \in Nat \ {0}
    BY TraceOfDecision
  <2>2. /\ Bundles!CanBuild("bundle", clock, trace, bound)
        /\ Bundles!BuildObjects(trace, bound)
        /\ trace.evidenceBinding # None
        /\ \A o \in trace.evidenceBinding.evidence : o.status = "QUALIFIED"
    BY DecisionCanBeBuilt
  <2>3. /\ trace.state = a.state /\ trace.result = a.result
        /\ trace.required = required /\ trace.outcomes = outcomes
        /\ trace.finalizedAt = a.completedAt /\ trace.policyBinding = version
    BY DEF DecisionTrace
  <2> HIDE DEF a, policy, version, trace, S, bound, snapshot, b, required, outcomes
  <2>4. /\ Bundles!VerifyBundle(b)
        /\ b.objects = [trace |-> trace, policy |-> snapshot, evidence |-> bound]
        /\ b.manifest.evaluation = trace.evaluation
        /\ b.manifest.session = trace.session
        /\ b.manifest.policy = trace.policyBinding
    <3>1. "bundle" # None /\ clock > 0
      BY <2>1, AbsenceAssumption
    <3>2. b = Bundles!Build("bundle", clock, trace, bound, snapshot)
      BY DEF b
    <3> QED BY <3>1, <3>2, BuiltBundleVerifies
  <2>5. b.objects.policy.kind = "snapshot" /\ b.objects.policy.version = version
        /\ b.objects.trace = trace /\ b.objects.evidence = bound
    <3>1. snapshot.kind = "snapshot" /\ snapshot.version = version
      BY DEF snapshot
    <3>2. /\ b.objects.policy = snapshot /\ b.objects.trace = trace
          /\ b.objects.evidence = bound
      BY <2>4
    <3> QED BY <3>1, <3>2
  <2>6. ASSUME Bundles!ValidatePolicyDocument(version), required = version.required
        PROVE  outcomes = Bundles!Recalculated(b)
    <3>1. ASSUME NEW i \in 1 .. Len(required)
          PROVE  a.ruleOutcomes[required[i]].status =
                   Bundles!DecideBy(version, required[i], bound, None)
      <4>1. required[i] \in RequiredRules(a) /\ required[i] \in Rule
        BY <2>1, <3>1 DEF RequiredRules, required
      <4>2. required[i] \in Bundles!Range(version.required)
        BY <2>1, <2>6, <3>1 DEF Bundles!Range
      <4>3. Decide(policy, required[i], S) =
              Bundles!DecideBy(version, required[i], bound, None)
        BY <2>1, <2>6, <4>1, <4>2, DecidedAsCompiled DEF version, bound
      <4>4. a.ruleOutcomes[required[i]].status = Decide(policy, required[i], S)
        BY <2>1, <4>1 DEF Decision, policy, S
      <4> QED BY <4>3, <4>4
    <3>2. outcomes = [i \in 1 .. Len(required) |->
                        [rule |-> required[i],
                         status |-> Bundles!DecideBy(version, required[i], bound, None)]]
      BY <3>1 DEF outcomes
    <3> QED BY <2>3, <2>5, <3>2 DEF Bundles!Recalculated
  <2>7. a.result = Bundles!RecalculatedResult(outcomes)
    <3>1. outcomes = [i \in 1 .. Len(a.requiredRuleIDs) |->
                        [rule |-> a.requiredRuleIDs[i],
                         status |-> a.ruleOutcomes[a.requiredRuleIDs[i]].status]]
      BY DEF outcomes, required
    <3>2. a.requiredRuleIDs \in Seq(Rule)
      BY <2>1 DEF required
    <3> QED BY <2>1, <3>1, <3>2, LoopDerivesResult
  <2>8. Bundles!HasPolicySnapshot(b) /\ Bundles!VerificationInputs(b)
    BY <2>2, <2>3, <2>4, <2>5 DEF Bundles!HasPolicySnapshot, Bundles!VerificationInputs
  <2>9. Bundles!VerifyDecision(b) <=>
          Bundles!ValidatePolicyDocument(version) /\ required = version.required
    <3>1. trace.finalizedAt > 0 /\ trace.required # <<>> /\ trace.state = "COMPLETED"
      BY <2>1, <2>3
    <3> QED BY <2>3, <2>4, <2>5, <2>6, <2>7, <2>8, <3>1 DEF Bundles!VerifyDecision
  <2> QED BY <2>2, <2>9 DEF a, policy, version, trace, S, bound, snapshot, b, required
<1> QED BY <1>1, VInvHolds, PTL

=============================================================================
