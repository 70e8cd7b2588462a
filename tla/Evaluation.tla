----------------------------- MODULE Evaluation -----------------------------
(***************************************************************************)
(* The Evaluation aggregate of src/evaluation as a data type: the record   *)
(* that EvaluationAggregate holds and, for every method that changes it,   *)
(* the condition under which the method succeeds (CanX) and the aggregate  *)
(* it leaves (X).  A method that fails returns an error and leaves the     *)
(* aggregate alone, so failure is ~CanX.                                   *)
(*                                                                         *)
(* Abstractions.  Times are naturals; 0 is both Go's zero time and a nil   *)
(* *time.Time.  The slice ruleOutcomes, which holds at most one outcome    *)
(* per rule, is a function of the rules, None where nothing is recorded.   *)
(* A non-PASS outcome of rule r carries the one reason code r.             *)
(* Identifiers of the evaluation and of its session are left to the        *)
(* modules that hold several; of the session of an evidence binding it is  *)
(* only said whether it is the one of the evaluation (ownSession).  The    *)
(* reasons in a binding, which its statuses determine, are left out.       *)
(***************************************************************************)
EXTENDS Naturals, Sequences, FiniteSets

CONSTANTS Rule,  \* rule identifiers
          None   \* a nil pointer

Time == Nat
Zero == 0

State == {"CREATED", "RUNNING", "COMPLETED", "CANCELLED", "EXPIRED"}
Result == {"UNKNOWN", "VERIFIED", "VERIFIED_WITH_EXCEPTION", "REJECTED",
           "MANUAL_REVIEW", "SYSTEM_EXCEPTION"}
Status == {"PASS", "WARNING", "FAIL", "INCONCLUSIVE"}

RuleOutcome == [status : Status, evaluatedAt : Time]
RuleOutcomes == [Rule -> RuleOutcome \cup {None}]

Timeout == "EVALUATION_TIMEOUT"
ReasonCode == Rule \cup {Timeout}

\* The event types, without the Evaluation prefix and the Event suffix.
EventType ==
  {"Created", "Started", "Completed", "Rejected", "ManualReviewRequired",
   "SystemException", "Cancelled", "Expired", "EvidenceSetBound",
   "VerificationPolicyBound", "RequiredRuleRegistered", "RuleOutcomeRecorded",
   "RuleOutcomeBatchRecorded", "RuleOutcomeReplaced", "RuleOutcomeBatchReplaced",
   "RuleOutcomeRemoved", "RuleOutcomeBatchRemoved", "RuleOutcomesReset",
   "CheckpointCreated", "RolledBack", "HistoryRecorded"}
DomainEvent == [type : EventType, version : Nat]

CanTransitionTo(s, target) ==
  \/ s = "CREATED" /\ target \in {"RUNNING", "CANCELLED", "EXPIRED"}
  \/ s = "RUNNING" /\ target \in {"COMPLETED", "CANCELLED", "EXPIRED"}

IsTerminal(s) == s \in {"COMPLETED", "CANCELLED", "EXPIRED"}

-----------------------------------------------------------------------------
(***************************************************************************)
(* Reading an aggregate.                                                   *)
(***************************************************************************)
RequiredRules(e) == {e.requiredRuleIDs[i] : i \in 1 .. Len(e.requiredRuleIDs)}

IsRuleRequired(e, r) == r \in RequiredRules(e)

RecordedRules(e) == {r \in Rule : e.ruleOutcomes[r] # None}

MissingRequiredRuleIDs(e) == RequiredRules(e) \ RecordedRules(e)

RequiredRulesComplete(e) == MissingRequiredRuleIDs(e) = {}

HasStatus(e, s) == \E r \in RecordedRules(e) : e.ruleOutcomes[r].status = s

\* DeriveResult fails when a required rule is missing or nothing is recorded.
CanDeriveResult(e) == RequiredRulesComplete(e) /\ RecordedRules(e) # {}

DerivedResult(e) ==
  CASE HasStatus(e, "FAIL") -> "REJECTED"
    [] ~HasStatus(e, "FAIL") /\ HasStatus(e, "INCONCLUSIVE") -> "MANUAL_REVIEW"
    [] /\ ~HasStatus(e, "FAIL") /\ ~HasStatus(e, "INCONCLUSIVE")
       /\ HasStatus(e, "WARNING") -> "VERIFIED_WITH_EXCEPTION"
    [] OTHER -> "VERIFIED"

DerivedReasons(e) ==
  {r \in RecordedRules(e) : e.ruleOutcomes[r].status # "PASS"}

-----------------------------------------------------------------------------
(***************************************************************************)
(* Every mutation bumps the version and appends one domain event carrying  *)
(* the new version.                                                        *)
(***************************************************************************)
Emit(e, type) ==
  [e EXCEPT !.version = @ + 1,
            !.domainEvents = Append(@, [type |-> type, version |-> e.version + 1])]

NewEvaluation(at) ==
  [state |-> "CREATED", result |-> "UNKNOWN", reasonCodes |-> {},
   createdAt |-> at, startedAt |-> Zero, completedAt |-> Zero,
   cancelledAt |-> Zero, expiredAt |-> Zero, cancellationReason |-> FALSE,
   version |-> 1, domainEvents |-> <<[type |-> "Created", version |-> 1]>>,
   ruleOutcomes |-> [r \in Rule |-> None], requiredRuleIDs |-> <<>>,
   checkpoints |-> [n \in {} |-> None], history |-> <<>>,
   evidenceBinding |-> None, policyBinding |-> None]

CanStart(e, at) ==
  /\ CanTransitionTo(e.state, "RUNNING")
  /\ at # Zero /\ at >= e.createdAt

Start(e, at) ==
  Emit([e EXCEPT !.state = "RUNNING", !.startedAt = at], "Started")

\* Mutant: completes with required rules missing.
CanCompleteAtIncomplete(e, result, reasons, at) ==
  /\ CanTransitionTo(e.state, "COMPLETED")
  /\ at # Zero /\ e.startedAt # Zero /\ at >= e.startedAt
  /\ result \in Result \ {"UNKNOWN"}
  /\ (result = "VERIFIED") <=> (reasons = {})

CanCompleteAt(e, result, reasons, at) ==
  /\ CanTransitionTo(e.state, "COMPLETED")
  /\ at # Zero /\ e.startedAt # Zero /\ at >= e.startedAt
  /\ result \in Result \ {"UNKNOWN"}
  /\ RequiredRulesComplete(e)
  /\ (result = "VERIFIED") <=> (reasons = {})

CompletionEvent(result) ==
  CASE result = "REJECTED" -> "Rejected"
    [] result = "MANUAL_REVIEW" -> "ManualReviewRequired"
    [] result = "SYSTEM_EXCEPTION" -> "SystemException"
    [] OTHER -> "Completed"

CompleteAt(e, result, reasons, at) ==
  Emit([e EXCEPT !.state = "COMPLETED", !.result = result,
                 !.reasonCodes = reasons, !.completedAt = at],
       CompletionEvent(result))

CanCancel(e) == ~IsTerminal(e.state)

\* Cancel takes time.Now itself and checks it against nothing.
Cancel(e, now) ==
  Emit([e EXCEPT !.state = "CANCELLED", !.cancelledAt = now,
                 !.cancellationReason = TRUE], "Cancelled")

CanExpire(e, at) == ~IsTerminal(e.state) /\ at # Zero /\ at >= e.createdAt

\* Mutant: the result is the name of the state.
ExpireResultless(e, at) ==
  Emit([e EXCEPT !.state = "EXPIRED", !.result = "EXPIRED",
                 !.reasonCodes = {Timeout}, !.expiredAt = at], "Expired")

Expire(e, at) ==
  Emit([e EXCEPT !.state = "EXPIRED", !.result = "SYSTEM_EXCEPTION",
                 !.reasonCodes = {Timeout}, !.expiredAt = at], "Expired")

-----------------------------------------------------------------------------
(***************************************************************************)
(* Bindings and the rule plan.  Repeating a call with an equal argument    *)
(* succeeds and changes nothing.                                           *)
(***************************************************************************)
\* normalizeEvidenceBinding accepts b.
NormalEvidenceBinding(b) ==
  /\ b.qualifiedAt # Zero
  /\ \/ b.status = "QUALIFIED" /\ b.evidence # {}
     \/ b.status = "UNAVAILABLE" /\ b.evidence = {}
     \/ b.status = "REJECTED"

CanBindEvidenceSet(e, b) ==
  /\ ~IsTerminal(e.state)
  /\ RecordedRules(e) = {}
  /\ NormalEvidenceBinding(b) /\ b.ownSession
  /\ e.evidenceBinding \in {None, b}

BindEvidenceSet(e, b) ==
  IF e.evidenceBinding = b THEN e
  ELSE Emit([e EXCEPT !.evidenceBinding = b], "EvidenceSetBound")

\* Mutant: another policy may take the place of the bound one.
CanRebindVerificationPolicy(e, b) ==
  /\ ~IsTerminal(e.state)
  /\ RecordedRules(e) = {}
  /\ b.boundAt >= e.createdAt

CanBindVerificationPolicy(e, b) ==
  /\ ~IsTerminal(e.state)
  /\ RecordedRules(e) = {}
  /\ b.boundAt >= e.createdAt
  /\ e.policyBinding \in {None, b}

BindVerificationPolicy(e, b) ==
  IF e.policyBinding = b THEN e
  ELSE Emit([e EXCEPT !.policyBinding = b], "VerificationPolicyBound")

\* Mutant: extends the rule plan of a terminal evaluation.
CanRegisterRequiredRuleAnytime(e, at) == at # Zero /\ at >= e.createdAt

CanRegisterRequiredRule(e, at) ==
  ~IsTerminal(e.state) /\ at # Zero /\ at >= e.createdAt

RegisterRequiredRule(e, r) ==
  IF IsRuleRequired(e, r) THEN e
  ELSE Emit([e EXCEPT !.requiredRuleIDs = Append(@, r)], "RequiredRuleRegistered")

-----------------------------------------------------------------------------
(***************************************************************************)
(* Rule outcomes.  A batch is a function on the rules it names (the code   *)
(* folds equal duplicates together and rejects unequal ones).              *)
(***************************************************************************)
InPlan(e, r) == e.requiredRuleIDs = <<>> \/ IsRuleRequired(e, r)

\* The outcomes of a batch that are not recorded yet.
Pending(e, batch) ==
  [r \in DOMAIN batch \ RecordedRules(e) |-> batch[r]]

Merged(e, batch) ==
  [r \in Rule |-> IF r \in DOMAIN batch THEN batch[r] ELSE e.ruleOutcomes[r]]

CanRecordRuleOutcomes(e, batch) ==
  /\ e.state = "RUNNING"
  /\ e.startedAt # Zero
  /\ \A r \in DOMAIN batch :
       /\ batch[r].evaluatedAt >= e.startedAt
       /\ InPlan(e, r)
       /\ r \in RecordedRules(e) => e.ruleOutcomes[r] = batch[r]

CanRecordRuleOutcome(e, r, o) == CanRecordRuleOutcomes(e, [x \in {r} |-> o])

RecordRuleOutcome(e, r, o) ==
  IF r \in RecordedRules(e) THEN e
  ELSE Emit([e EXCEPT !.ruleOutcomes = Merged(e, [x \in {r} |-> o])],
            "RuleOutcomeRecorded")

\* Mutant: one version for the batch, but an event per outcome.
RecordRuleOutcomesOneVersion(e, batch) ==
  LET n == Cardinality(DOMAIN Pending(e, batch)) IN
  [e EXCEPT !.ruleOutcomes = Merged(e, batch),
            !.version = IF n = 0 THEN @ ELSE @ + 1,
            !.domainEvents = @ \o [i \in 1 .. n |->
               [type |-> "RuleOutcomeRecorded", version |-> e.version + 1]]]

\* One version and one event for each new outcome.
RecordRuleOutcomesAtomic(e, batch) ==
  LET n == Cardinality(DOMAIN Pending(e, batch)) IN
  [e EXCEPT !.ruleOutcomes = Merged(e, batch),
            !.version = @ + n,
            !.domainEvents = @ \o [i \in 1 .. n |->
               [type |-> "RuleOutcomeRecorded", version |-> e.version + i]]]

CanRecordRuleOutcomeBatch(e, batch, at) ==
  /\ e.state = "RUNNING"
  /\ DOMAIN batch # {} =>
       /\ at # Zero /\ at >= e.startedAt
       /\ CanRecordRuleOutcomes(e, batch)

\* One version and one event for the whole batch.
RecordRuleOutcomeBatch(e, batch) ==
  IF DOMAIN Pending(e, batch) = {} THEN e
  ELSE Emit([e EXCEPT !.ruleOutcomes = Merged(e, batch)],
            "RuleOutcomeBatchRecorded")

\* A replacement must name recorded rules and may not be older than what it
\* replaces, nor younger than the replacement time.
CanReplaceRuleOutcomes(e, batch, at) ==
  /\ e.state = "RUNNING"
  /\ DOMAIN batch # {} => at # Zero /\ e.startedAt # Zero /\ at >= e.startedAt
  /\ \A r \in DOMAIN batch :
       /\ batch[r].evaluatedAt \in e.startedAt .. at
       /\ InPlan(e, r)
       /\ r \in RecordedRules(e)
       /\ batch[r].evaluatedAt >= e.ruleOutcomes[r].evaluatedAt

ReplaceRuleOutcomes(e, batch, type) ==
  IF Merged(e, batch) = e.ruleOutcomes THEN e
  ELSE Emit([e EXCEPT !.ruleOutcomes = Merged(e, batch)], type)

CanRemoveRuleOutcomes(e, rules, at) ==
  /\ e.state = "RUNNING"
  /\ rules # {} =>
       /\ at # Zero /\ e.startedAt # Zero /\ at >= e.startedAt
       /\ rules \subseteq RecordedRules(e)

RemoveRuleOutcomes(e, rules, type) ==
  IF rules = {} THEN e
  ELSE Emit([e EXCEPT !.ruleOutcomes =
               [r \in Rule |-> IF r \in rules THEN None ELSE e.ruleOutcomes[r]]],
            type)

CanResetRuleOutcomes(e, at) ==
  e.state = "RUNNING" /\ at # Zero /\ e.startedAt # Zero /\ at >= e.startedAt

ResetRuleOutcomes(e) ==
  RemoveRuleOutcomes(e, RecordedRules(e), "RuleOutcomesReset")
-----------------------------------------------------------------------------
(***************************************************************************)
(* Checkpoints, history and all-or-nothing mutation.                       *)
(***************************************************************************)
CanCreateCheckpoint(e, name, at) ==
  /\ e.state = "RUNNING"
  /\ at # Zero /\ e.startedAt # Zero /\ at >= e.startedAt
  /\ name \notin DOMAIN e.checkpoints

\* The checkpoint carries the version before its own event.
CreateCheckpoint(e, name, at) ==
  LET cp == [ruleOutcomes |-> e.ruleOutcomes, version |-> e.version,
             createdAt |-> at]
  IN Emit([e EXCEPT !.checkpoints =
             [n \in DOMAIN @ \cup {name} |-> IF n = name THEN cp ELSE @[n]]],
          "CheckpointCreated")

CanRollbackToCheckpoint(e, name, at) ==
  /\ e.state = "RUNNING"
  /\ name \in DOMAIN e.checkpoints
  /\ at # Zero /\ e.startedAt # Zero /\ at >= e.startedAt
  /\ at >= e.checkpoints[name].createdAt

\* Mutant: the version goes back with the outcomes.
RollbackVersionToo(e, name) ==
  [Emit(e, "RolledBack") EXCEPT
     !.ruleOutcomes = e.checkpoints[name].ruleOutcomes, !.version = e.version]

RollbackToCheckpoint(e, name) ==
  Emit([e EXCEPT !.ruleOutcomes = e.checkpoints[name].ruleOutcomes], "RolledBack")

\* What a history entry keeps of the aggregate.
HistoryEntry(e, at) ==
  [version |-> e.version, state |-> e.state, result |-> e.result,
   reasonCodes |-> e.reasonCodes, requiredRuleIDs |-> e.requiredRuleIDs,
   ruleOutcomes |-> e.ruleOutcomes, recordedAt |-> at]

\* validateEvaluationHistoryEntry
ValidHistoryEntry(h) ==
  h.version # 0 /\ h.recordedAt # Zero /\ h.result \in Result /\ h.state \in State

CanRecordHistory(e, at) ==
  /\ at # Zero /\ at >= e.createdAt
  /\ \A i \in 1 .. Len(e.history) : e.history[i].version # e.version
  /\ ValidHistoryEntry(HistoryEntry(e, at))

\* The history event repeats the current version: nothing is bumped.
RecordHistory(e, at) ==
  [e EXCEPT !.history = Append(@, HistoryEntry(e, at)),
            !.domainEvents =
               Append(@, [type |-> "HistoryRecorded", version |-> e.version])]

\* Mutant: the start time is not restored either.
RestoreWithoutStart(e, before) ==
  [before EXCEPT !.cancellationReason = e.cancellationReason,
                 !.evidenceBinding = e.evidenceBinding,
                 !.policyBinding = e.policyBinding, !.startedAt = e.startedAt]

\* captureMutableState(before) followed, after the mutation left e, by
\* restoreMutableState: cancellationReason and the two bindings are in neither.
RestoreMutableState(e, before) ==
  [before EXCEPT !.cancellationReason = e.cancellationReason,
                 !.evidenceBinding = e.evidenceBinding,
                 !.policyBinding = e.policyBinding]

-----------------------------------------------------------------------------
(***************************************************************************)
(* The persistence boundary: domain events are not part of a snapshot, and *)
(* both stores rehydrate a snapshot, which validates it, when they save.   *)
(***************************************************************************)
Snapshot(e) == [e EXCEPT !.domainEvents = <<>>]

ValidSnapshot(s) ==
  /\ s.version # 0 /\ s.createdAt # Zero /\ s.result \in Result /\ s.state \in State
  /\ CASE s.state = "CREATED" -> /\ s.startedAt = Zero /\ s.completedAt = Zero
                                 /\ s.cancelledAt = Zero /\ s.expiredAt = Zero
       [] s.state = "RUNNING" -> /\ s.startedAt # Zero /\ s.completedAt = Zero
                                 /\ s.cancelledAt = Zero /\ s.expiredAt = Zero
       [] s.state = "COMPLETED" -> /\ s.startedAt # Zero /\ s.completedAt # Zero
                                   /\ s.result # "UNKNOWN"
       [] s.state = "CANCELLED" -> s.cancelledAt # Zero /\ s.cancellationReason
       [] s.state = "EXPIRED" -> s.expiredAt # Zero
  /\ \A r \in RecordedRules(s) :
       s.ruleOutcomes[r].status \in Status /\ s.ruleOutcomes[r].evaluatedAt # Zero
  /\ \A i \in 1 .. Len(s.history) : ValidHistoryEntry(s.history[i])
  /\ s.evidenceBinding # None =>
       NormalEvidenceBinding(s.evidenceBinding) /\ s.evidenceBinding.ownSession
  /\ s.policyBinding # None => s.policyBinding.boundAt >= s.createdAt
  /\ \A n \in DOMAIN s.checkpoints : s.checkpoints[n].createdAt # Zero
=============================================================================
