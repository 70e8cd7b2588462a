------------------------ MODULE EvaluationAggregate ------------------------
(***************************************************************************)
(* One Evaluation aggregate in the hands of a caller that may use every    *)
(* method of src/evaluation, in any order and with any timestamps, and     *)
(* that now and then persists it (BuildOutboxRecords and Snapshot, then    *)
(* ClearDomainEvents, or a rehydrated copy).                               *)
(*                                                                         *)
(* ApplyAtomicMutation calls a function of the caller with the aggregate   *)
(* itself, and this function may again use any of the methods, as often as *)
(* it likes, so the call has a beginning, steps in between and an end.  A  *)
(* function that calls ApplyAtomicMutation again or saves the aggregate    *)
(* half way is left out.                                                   *)
(***************************************************************************)
EXTENDS Evaluation

CONSTANTS EvidenceBinding, \* evidence set bindings that callers pass
          PolicyBinding,   \* normalised policy bindings
          CheckpointName,  \* names a caller gives to checkpoints
          OutcomeStatus,   \* the rule outcome statuses callers report
          ReportedResult,  \* the results callers pass to CompleteAt
          MaxTime,         \* bound: callers use the times 0 .. MaxTime
          MaxVersion,      \* bound: no method is called beyond this version
          MaxHistory,      \* bound: at most this many history entries
          MaxMutation      \* bound: versions that an atomic mutation adds

ASSUME NoneAssumption == /\ None \notin EvidenceBinding
                         /\ None \notin PolicyBinding
ASSUME BoundsAssumption == /\ MaxTime \in Nat \ {0}
                           /\ MaxVersion \in Nat \ {0}
                           /\ MaxHistory \in Nat /\ MaxMutation \in Nat
                           /\ OutcomeStatus \subseteq Status
                           /\ ReportedResult \subseteq Result

VARIABLES agg,       \* the aggregate
          before,    \* what it was when the ApplyAtomicMutation under way began,
                     \* or None
          published  \* versions of the events already handed to the outbox

vars == <<agg, before, published>>

Clock == 0 .. MaxTime
Batch == UNION {[S -> [status : OutcomeStatus, evaluatedAt : Clock \ {Zero}]] :
                  S \in {T \in SUBSET Rule : IsFiniteSet(T)}}
Singles == {b \in Batch : Cardinality(DOMAIN b) = 1}
Reasons == {{}, Rule}

-----------------------------------------------------------------------------
(***************************************************************************)
(* What one successful call of each method can leave of the aggregate e.   *)
(***************************************************************************)
Started(e) == {Start(e, at) : at \in {t \in Clock : CanStart(e, t)}}

Completed(e) ==
  {CompleteAt(e, c[1], c[2], c[3]) :
     c \in {x \in ReportedResult \X Reasons \X Clock : CanCompleteAt(e, x[1], x[2], x[3])}}

Cancelled(e) == {Cancel(e, now) : now \in {t \in Clock \ {Zero} : CanCancel(e)}}

Expired(e) == {Expire(e, at) : at \in {t \in Clock : CanExpire(e, t)}}

EvidenceBound(e) ==
  {BindEvidenceSet(e, b) : b \in {x \in EvidenceBinding : CanBindEvidenceSet(e, x)}}

PolicyBound(e) ==
  {BindVerificationPolicy(e, b) :
     b \in {x \in PolicyBinding : CanBindVerificationPolicy(e, x)}}

RuleRegistered(e) ==
  {RegisterRequiredRule(e, r) :
     r \in {x \in Rule : \E at \in Clock : CanRegisterRequiredRule(e, at)}}

OutcomeRecorded(e) ==
  {RecordRuleOutcome(e, p[1], p[2][p[1]]) :
     p \in {x \in Rule \X Singles :
              x[1] \in DOMAIN x[2] /\ CanRecordRuleOutcome(e, x[1], x[2][x[1]])}}

OutcomesRecorded(e) ==
  {RecordRuleOutcomesAtomic(e, b) : b \in {x \in Batch : CanRecordRuleOutcomes(e, x)}}

BatchRecorded(e) ==
  {RecordRuleOutcomeBatch(e, b) :
     b \in {x \in Batch : \E at \in Clock : CanRecordRuleOutcomeBatch(e, x, at)}}

Replaced(e) ==
  {ReplaceRuleOutcomes(e, b, "RuleOutcomeReplaced") :
     b \in {x \in Singles : \E at \in Clock : CanReplaceRuleOutcomes(e, x, at)}}

BatchReplaced(e) ==
  {ReplaceRuleOutcomes(e, b, "RuleOutcomeBatchReplaced") :
     b \in {x \in Batch : \E at \in Clock : CanReplaceRuleOutcomes(e, x, at)}}

Removed(e) ==
  {RemoveRuleOutcomes(e, {r}, "RuleOutcomeRemoved") :
     r \in {x \in Rule : \E at \in Clock : CanRemoveRuleOutcomes(e, {x}, at)}}

BatchRemoved(e) ==
  {RemoveRuleOutcomes(e, S, "RuleOutcomeBatchRemoved") :
     S \in {x \in SUBSET Rule : \E at \in Clock : CanRemoveRuleOutcomes(e, x, at)}}

OutcomesReset(e) ==
  {ResetRuleOutcomes(e) : at \in {t \in Clock : CanResetRuleOutcomes(e, t)}}

CheckpointCreated(e) ==
  {CreateCheckpoint(e, c[1], c[2]) :
     c \in {x \in CheckpointName \X Clock : CanCreateCheckpoint(e, x[1], x[2])}}

RolledBack(e) ==
  {RollbackToCheckpoint(e, n) :
     n \in {x \in CheckpointName :
              \E at \in Clock : CanRollbackToCheckpoint(e, x, at)}}

HistoryRecorded(e) ==
  {RecordHistory(e, at) : at \in {t \in Clock : CanRecordHistory(e, t)}}

-----------------------------------------------------------------------------
Init ==
  /\ agg \in {NewEvaluation(at) : at \in Clock \ {Zero}}
  /\ before = None
  /\ published = 0

InBounds(f) ==
  /\ f.version <= MaxVersion /\ Len(f.history) <= MaxHistory
  /\ before # None => f.version <= before.version + MaxMutation

\* A call, by the caller or by the function it gave to ApplyAtomicMutation, that
\* leaves the aggregate in one of the given states.
Call(successors) ==
  /\ agg' \in {f \in successors : InBounds(f)}
  /\ UNCHANGED <<before, published>>

DoStart == Call(Started(agg))
DoComplete == Call(Completed(agg))
DoCancel == Call(Cancelled(agg))
DoExpire == Call(Expired(agg))
DoBindEvidence == Call(EvidenceBound(agg))
DoBindPolicy == Call(PolicyBound(agg))
DoRegisterRule == Call(RuleRegistered(agg))
DoRecordOutcome == Call(OutcomeRecorded(agg))
DoRecordOutcomes == Call(OutcomesRecorded(agg))
DoRecordBatch == Call(BatchRecorded(agg))
DoReplace == Call(Replaced(agg))
DoReplaceBatch == Call(BatchReplaced(agg))
DoRemove == Call(Removed(agg))
DoRemoveBatch == Call(BatchRemoved(agg))
DoReset == Call(OutcomesReset(agg))
DoCheckpoint == Call(CheckpointCreated(agg))
DoRollback == Call(RolledBack(agg))

DoRecordHistory == Call(HistoryRecorded(agg))

\* captureMutableState.  Bound: only where the mutation has room for its
\* versions and for the history entry.
ApplyAtomicMutation ==
  /\ before = None
  /\ agg.version + MaxMutation <= MaxVersion /\ Len(agg.history) < MaxHistory
  /\ before' = agg
  /\ UNCHANGED <<agg, published>>

\* The mutation returned no error, nor did the RecordHistory that follows it.
ApplyAtomicMutationSucceeds ==
  /\ before # None
  /\ agg' \in {f \in HistoryRecorded(agg) : InBounds(f)}
  /\ before' = None
  /\ UNCHANGED published

\* The mutation, whatever it had done, or RecordHistory returned an error.
ApplyAtomicMutationFails ==
  /\ before # None
  /\ agg' = RestoreMutableState(agg, before)
  /\ before' = None
  /\ UNCHANGED published

\* The caller saves: the outbox gets the pending events, and the caller goes
\* on with the aggregate (ClearDomainEvents) or with a rehydrated snapshot.
Persist ==
  /\ before = None
  /\ agg.domainEvents # <<>>
  /\ ValidSnapshot(Snapshot(agg))
  /\ agg' = Snapshot(agg)
  /\ published' = agg.version
  /\ UNCHANGED before

Next ==
  \/ DoStart \/ DoComplete \/ DoCancel \/ DoExpire
  \/ DoBindEvidence \/ DoBindPolicy \/ DoRegisterRule
  \/ DoRecordOutcome \/ DoRecordOutcomes \/ DoRecordBatch
  \/ DoReplace \/ DoReplaceBatch \/ DoRemove \/ DoRemoveBatch \/ DoReset
  \/ DoCheckpoint \/ DoRollback \/ DoRecordHistory
  \/ ApplyAtomicMutation \/ ApplyAtomicMutationSucceeds \/ ApplyAtomicMutationFails
  \/ Persist

Spec == Init /\ [][Next]_vars

-----------------------------------------------------------------------------
\* The pending domain events are the changelog of the versions not yet saved:
\* one after the other they count the versions from the last save up to the
\* current one, each event one version except that a history event repeats the
\* version it records, whatever mix of single and batch mutations and of failed
\* ApplyAtomicMutation calls came before.
EventsFollowVersions ==
  LET events == agg.domainEvents
      VersionAfter(i) == IF i = 0 THEN published ELSE events[i].version
  IN /\ \A i \in 1 .. Len(events) :
          IF events[i].type = "HistoryRecorded"
          THEN events[i].version = VersionAfter(i - 1)
          ELSE events[i].version = VersionAfter(i - 1) + 1
     /\ agg.version = VersionAfter(Len(events))

\* What the aggregate is to its caller: during ApplyAtomicMutation, what it was
\* before.
Outer == IF before = None THEN agg ELSE before

\* All but the history and the pending events.
Contents(e) == [e EXCEPT !.history = <<>>, !.domainEvents = <<>>]

\* A version number identifies what the aggregate is, to a caller who compares
\* versions as both stores do: it never goes back, neither in a rollback to a
\* checkpoint nor in a mutation that is taken back, and while it stays the same
\* so does all the rest but the history and the pending events.  The exception
\* is a failed ApplyAtomicMutation: it may leave another cancellation reason and
\* other bindings under the old version, and nothing else (what it should leave
\* is FailedMutationRestoresAll).
VersionIdentifiesContents ==
  [][/\ Outer'.version >= Outer.version
     /\ Outer'.version = Outer.version =>
          Contents(Outer) =
            IF ApplyAtomicMutationFails
            THEN Contents([Outer' EXCEPT !.cancellationReason = Outer.cancellationReason,
                                         !.evidenceBinding = Outer.evidenceBinding,
                                         !.policyBinding = Outer.policyBinding])
            ELSE Contents(Outer')]_vars

\* Whatever sequence of methods produced it, an aggregate can be saved: the
\* validation in RehydrateEvaluation never refuses a snapshot it took itself.
SnapshotRehydrates == ValidSnapshot(Snapshot(agg))

\* A decision stands on complete evidence of its own run: a completed
\* evaluation has an outcome for every required rule, no outcome predates the
\* start, and the start and the completion are in order.
DecisionStandsOnOutcomes ==
  /\ agg.state = "COMPLETED" =>
       /\ RequiredRulesComplete(agg)
       /\ agg.createdAt <= agg.startedAt /\ agg.startedAt <= agg.completedAt
  /\ \A r \in RecordedRules(agg) :
       agg.ruleOutcomes[r].evaluatedAt >= agg.startedAt

\* A terminal aggregate is final: apart from recording history and handing
\* over its events, no method changes it any more, and ApplyAtomicMutation does
\* not, whatever its function does before it fails.
TerminalIsFinal ==
  [][IsTerminal(Outer.state) => Contents(Outer') = Contents(Outer)]_vars

\* "If either step fails, all mutable aggregate state is restored" (the
\* comment of ApplyAtomicMutation): a failed call leaves no trace.
FailedMutationRestoresAll == [][ApplyAtomicMutationFails => agg' = before]_vars
=============================================================================
