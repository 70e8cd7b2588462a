---------------------------- MODULE PDSOperations ----------------------------
(***************************************************************************)
(* What one request of src/pds does to the aggregate it has loaded: for    *)
(* every operation that can change an evaluation, when it succeeds on an   *)
(* aggregate a at time t and what it makes of a, and when it answers at    *)
(* once because an earlier request has done the work.                      *)
(*                                                                         *)
(* Policies, evidence and rule operators enter as they are used here: a    *)
(* policy version is its rule plan and a qualifier, which accepts an       *)
(* evidence set or not at a given time, and a rule operator is a function  *)
(* of the bound policy version and of the bound evidence.  PolicyDocument  *)
(* defines them.                                                           *)
(***************************************************************************)
EXTENDS Evaluation

CONSTANTS Policy,          \* policy versions
          Plan,            \* the required rules of each, in order
          EvidenceObject,  \* evidence objects of the session
          Qualifiable,     \* the policy versions that have a qualifier
          Qualifies(_, _, _), \* does it accept an evidence set at a time?
          Decide(_, _, _), \* what the operator of a policy and rule decides of
                           \* an evidence set: a status, or Failure
          Failure,
          CallerTime,      \* times that a caller of the Go API may pass,
          CallerStatus,    \* and statuses that it may report
          CreatedTimeout, RunningTimeout  \* the TimeoutPolicy; 0 is disabled

ASSUME PlanAssumption ==
  /\ Plan \in [Policy -> Seq(Rule)]
  /\ \A p \in Policy : \A i, j \in 1 .. Len(Plan[p]) :
       Plan[p][i] = Plan[p][j] => i = j
ASSUME QualifiableAssumption == Qualifiable \subseteq Policy
ASSUME DecideAssumption ==
  \A p \in Policy, r \in Rule, S \in SUBSET EvidenceObject :
    Decide(p, r, S) \in Status \cup {Failure}
ASSUME CallerAssumption ==
  /\ CallerTime \subseteq Time \ {Zero} /\ CallerStatus \subseteq Status
  /\ CreatedTimeout \in Nat /\ RunningTimeout \in Nat
  /\ CreatedTimeout + RunningTimeout > 0

QualificationStatus == {"QUALIFIED", "REJECTED", "UNAVAILABLE"}
EvidenceSetBinding == [evidence : SUBSET EvidenceObject, qualifiedAt : Time,
                       status : QualificationStatus, ownSession : BOOLEAN]
PolicyBinding == [policy : Policy, boundAt : Time]

\* The aggregates the services handle: none of them uses checkpoints or history.
Aggregate ==
  [state : State, result : Result, reasonCodes : SUBSET ReasonCode,
   createdAt : Time, startedAt : Time, completedAt : Time, cancelledAt : Time,
   expiredAt : Time, cancellationReason : BOOLEAN, version : Nat,
   domainEvents : Seq(DomainEvent),
   ruleOutcomes : RuleOutcomes, requiredRuleIDs : Seq(Rule),
   checkpoints : {[n \in {} |-> None]}, history : {<<>>},
   evidenceBinding : EvidenceSetBinding \cup {None},
   policyBinding : PolicyBinding \cup {None}]

ASSUME NoneAssumption == None \notin EvidenceSetBinding \cup PolicyBinding \cup Aggregate

-----------------------------------------------------------------------------
(***************************************************************************)
(* Creation.  The rules of a plan are registered one by one on the new     *)
(* aggregate: a version and an event each.                                 *)
(***************************************************************************)
\* Mutant: the events of the plan all carry one version.
WithPlanOneVersion(e, plan) ==
  [e EXCEPT !.requiredRuleIDs = plan,
            !.version = @ + 1,
            !.domainEvents = @ \o [i \in 1 .. Len(plan) |->
               [type |-> "RequiredRuleRegistered", version |-> e.version + 1]]]

WithPlan(e, plan) ==
  [e EXCEPT !.requiredRuleIDs = plan,
            !.version = @ + Len(plan),
            !.domainEvents = @ \o [i \in 1 .. Len(plan) |->
               [type |-> "RequiredRuleRegistered", version |-> e.version + i]]]

Created(plan, t) == WithPlan(NewEvaluation(t), plan)

CreatedForPolicy(p, t) ==
  BindVerificationPolicy(Created(Plan[p], t), [policy |-> p, boundAt |-> t])

-----------------------------------------------------------------------------
(***************************************************************************)
(* Evidence, policy and rule execution.                                    *)
(***************************************************************************)
\* The binding made of QualifySession's result over the evidence S of the
\* session of the evaluation, with the qualifier of policy version p.
Qualification(p, S, t) ==
  [evidence |-> S, qualifiedAt |-> t, ownSession |-> TRUE,
   status |-> CASE S = {} -> "UNAVAILABLE"
                [] S # {} /\ Qualifies(p, S, t) -> "QUALIFIED"
                [] OTHER -> "REJECTED"]

CanResolveAndBindPolicy(a, p, t) ==
  /\ a.requiredRuleIDs = Plan[p]
  /\ CanBindVerificationPolicy(a, [policy |-> p, boundAt |-> t])

\* What Execute demands before it looks at the outcomes.
ReadyToExecute(a) ==
  /\ a.evidenceBinding # None
  /\ a.evidenceBinding.status = "QUALIFIED"
  /\ a.policyBinding # None

AlreadyExecuted(a) ==
  /\ ReadyToExecute(a)
  /\ RecordedRules(a) # {}
  /\ RequiredRulesComplete(a)

Decision(a, r) ==
  Decide(a.policyBinding.policy, r, a.evidenceBinding.evidence)

PolicyRules(p) == {Plan[p][i] : i \in 1 .. Len(Plan[p])}

Outcomes(a, t) ==
  [r \in RequiredRules(a) |-> [status |-> Decision(a, r), evaluatedAt |-> t]]

CanExecute(a, t) ==
  /\ ReadyToExecute(a)
  /\ RecordedRules(a) = {}
  /\ RequiredRules(a) \subseteq PolicyRules(a.policyBinding.policy)
  /\ \A r \in RequiredRules(a) : Decision(a, r) # Failure
  /\ CanRecordRuleOutcomeBatch(a, Outcomes(a, t), t)

Execute(a, t) == RecordRuleOutcomeBatch(a, Outcomes(a, t))

-----------------------------------------------------------------------------
(***************************************************************************)
(* The end of an evaluation.                                               *)
(***************************************************************************)
CanComplete(a, t) ==
  /\ CanDeriveResult(a)
  /\ CanCompleteAt(a, DerivedResult(a), DerivedReasons(a), t)

\* Mutant: the reasons are lost.
CompleteUnreasoned(a, t) == CompleteAt(a, DerivedResult(a), {}, t)

Complete(a, t) == CompleteAt(a, DerivedResult(a), DerivedReasons(a), t)

\* Mutant: both deadlines count from the creation.
TimedOutSinceCreation(a, now) ==
  \/ /\ a.state = "CREATED" /\ CreatedTimeout # 0
     /\ now >= a.createdAt + CreatedTimeout
  \/ /\ a.state = "RUNNING" /\ RunningTimeout # 0 /\ a.startedAt # Zero
     /\ now >= a.createdAt + RunningTimeout

\* now is not before the deadline of the phase a is in.
TimedOut(a, now) ==
  \/ /\ a.state = "CREATED" /\ CreatedTimeout # 0
     /\ now >= a.createdAt + CreatedTimeout
  \/ /\ a.state = "RUNNING" /\ RunningTimeout # 0 /\ a.startedAt # Zero
     /\ now >= a.startedAt + RunningTimeout

CanExpireTimedOut(a, t) == TimedOut(a, t) /\ CanExpire(a, t)

-----------------------------------------------------------------------------
(***************************************************************************)
(* What the properties say of single aggregates.                           *)
(***************************************************************************)
\* The decision of a is the one DeriveResult computes from its outcomes.
DecisionFollowsFrom(a) ==
  /\ a.state = "COMPLETED" =>
       /\ CanDeriveResult(a)
       /\ a.result = DerivedResult(a)
       /\ a.reasonCodes = DerivedReasons(a)
  /\ a.state \in {"CREATED", "RUNNING"} => a.result = "UNKNOWN"

\* The deadline of the phase in which a expired had passed.
ExpiredInTime(a) ==
  a.state = "EXPIRED" =>
    IF a.startedAt = Zero
    THEN CreatedTimeout # 0 /\ a.expiredAt >= a.createdAt + CreatedTimeout
    ELSE RunningTimeout # 0 /\ a.expiredAt >= a.startedAt + RunningTimeout

\* b has everything that a has decided: the whole of a terminal a, and its
\* start time, bindings, rule plan and recorded outcomes.
Kept(a, b) ==
  /\ b.version >= a.version
  /\ IsTerminal(a.state) => b = a
  /\ b.createdAt = a.createdAt /\ b.requiredRuleIDs = a.requiredRuleIDs
  /\ a.startedAt # Zero => b.startedAt = a.startedAt
  /\ a.evidenceBinding # None => b.evidenceBinding = a.evidenceBinding
  /\ a.policyBinding # None => b.policyBinding = a.policyBinding
  /\ \A r \in RecordedRules(a) :
       r \in RecordedRules(b) /\ b.ruleOutcomes[r] = a.ruleOutcomes[r]
=============================================================================
