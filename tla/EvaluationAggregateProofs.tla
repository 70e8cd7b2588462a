---------------------- MODULE EvaluationAggregateProofs ----------------------
(***************************************************************************)
(* Theorems about one aggregate under every method, for any rules,         *)
(* bindings, checkpoint names, times and numbers of calls.                 *)
(*                                                                         *)
(* Sound(e, p) is what is true of an aggregate e that was last saved at    *)
(* version p.  Every method keeps it, and however many of them an atomic   *)
(* mutation calls, taking them back keeps it too, because of what every    *)
(* method leaves alone (Step).                                             *)
(***************************************************************************)
EXTENDS EvaluationAggregate, FiniteSetTheorems, SequenceTheorems, TLAPS

Entry == [version : Nat, state : State, result : Result,
          reasonCodes : SUBSET ReasonCode, requiredRuleIDs : Seq(Rule),
          ruleOutcomes : RuleOutcomes, recordedAt : Time]
Checkpoint == [ruleOutcomes : RuleOutcomes, version : Nat, createdAt : Time]
Checkpoints == UNION {[S -> Checkpoint] : S \in SUBSET CheckpointName}

Aggregate ==
  [state : State, result : Result, reasonCodes : SUBSET ReasonCode,
   createdAt : Time, startedAt : Time, completedAt : Time, cancelledAt : Time,
   expiredAt : Time, cancellationReason : BOOLEAN, version : Nat,
   domainEvents : Seq(DomainEvent), ruleOutcomes : RuleOutcomes,
   requiredRuleIDs : Seq(Rule), checkpoints : Checkpoints, history : Seq(Entry),
   evidenceBinding : EvidenceBinding \cup {None},
   policyBinding : PolicyBinding \cup {None}]

\* The pending events of e count its versions from p on.
Changelog(events, version, p) ==
  LET VersionAfter(i) == IF i = 0 THEN p ELSE events[i].version
  IN /\ \A i \in 1 .. Len(events) :
          IF events[i].type = "HistoryRecorded"
          THEN events[i].version = VersionAfter(i - 1)
          ELSE events[i].version = VersionAfter(i - 1) + 1
     /\ version = VersionAfter(Len(events))

\* The timestamps that the state of e calls for.
Phase(e) ==
  /\ e.createdAt # Zero
  /\ e.state = "CREATED" => e.startedAt = Zero
  /\ e.state = "RUNNING" => e.startedAt # Zero
  /\ e.state \in {"CREATED", "RUNNING"} =>
       e.completedAt = Zero /\ e.cancelledAt = Zero /\ e.expiredAt = Zero
  /\ e.state = "COMPLETED" => /\ e.startedAt # Zero /\ e.completedAt # Zero
                              /\ e.completedAt >= e.startedAt
                              /\ e.result # "UNKNOWN" /\ RequiredRulesComplete(e)
  /\ e.state = "CANCELLED" => e.cancelledAt # Zero /\ e.cancellationReason
  /\ e.state = "EXPIRED" => e.expiredAt # Zero
  /\ e.startedAt # Zero => e.startedAt >= e.createdAt
  /\ e.policyBinding # None => e.policyBinding.boundAt >= e.createdAt

\* Outcomes that were recorded after the start.
Recorded(outcomes, start) ==
  \A r \in Rule : outcomes[r] # None =>
    outcomes[r].evaluatedAt # Zero /\ outcomes[r].evaluatedAt >= start

\* Nothing is recorded before the start, and what is recorded now or in a
\* checkpoint is of this run.
OutcomesOK(e) ==
  /\ e.state = "CREATED" => RecordedRules(e) = {} /\ DOMAIN e.checkpoints = {}
  /\ Recorded(e.ruleOutcomes, e.startedAt)
  /\ \A n \in DOMAIN e.checkpoints : Recorded(e.checkpoints[n].ruleOutcomes, e.startedAt)

\* What RehydrateEvaluation asks of the other parts of e.
Parts(e) ==
  /\ e.version # 0
  /\ \A i \in 1 .. Len(e.history) : ValidHistoryEntry(e.history[i])
  /\ \A n \in DOMAIN e.checkpoints : e.checkpoints[n].createdAt # Zero
  /\ e.evidenceBinding # None =>
       NormalEvidenceBinding(e.evidenceBinding) /\ e.evidenceBinding.ownSession

Sound(e, p) ==
  /\ e \in Aggregate
  /\ Changelog(e.domainEvents, e.version, p)
  /\ Phase(e) /\ OutcomesOK(e) /\ Parts(e)

\* What a method that succeeds on e and leaves f never does.
Step(e, f) ==
  /\ f.createdAt = e.createdAt
  /\ e.cancellationReason => f.cancellationReason
  /\ f.version >= e.version
  /\ f.version = e.version => Contents(f) = Contents(e)
  /\ IsTerminal(e.state) => Contents(f) = Contents(e)

\* An atomic mutation works on what the methods have made of before.
SInv ==
  /\ published \in Nat /\ Sound(agg, published)
  /\ before # None => Sound(before, published) /\ Step(before, agg)

Field == {"state", "result", "reasonCodes", "createdAt", "startedAt", "completedAt",
          "cancelledAt", "expiredAt", "cancellationReason", "version", "domainEvents",
          "ruleOutcomes", "requiredRuleIDs", "checkpoints", "history",
          "evidenceBinding", "policyBinding"}

Same(a, b, changed) == \A f \in Field \ changed : b[f] = a[f]

-----------------------------------------------------------------------------
\* The changelog goes on with one event,
LEMMA ChangelogAppend ==
  ASSUME NEW events \in Seq(DomainEvent), NEW v \in Nat, NEW p \in Nat,
         Changelog(events, v, p), NEW ev \in DomainEvent,
         ev.version = IF ev.type = "HistoryRecorded" THEN v ELSE v + 1
  PROVE  Changelog(Append(events, ev), ev.version, p)
<1> DEFINE new == Append(events, ev)
           n == Len(events)
<1>1. n \in Nat /\ Len(new) = n + 1 /\ new[n + 1] = ev
      /\ \A i \in 1 .. n : new[i] = events[i]
  OBVIOUS
<1>2. v = IF n = 0 THEN p ELSE events[n].version
  BY DEF Changelog
<1>3. ASSUME NEW i \in 1 .. n
      PROVE  IF new[i].type = "HistoryRecorded"
             THEN new[i].version = IF i - 1 = 0 THEN p ELSE new[i - 1].version
             ELSE new[i].version = (IF i - 1 = 0 THEN p ELSE new[i - 1].version) + 1
  <2>1. i - 1 # 0 => new[i - 1] = events[i - 1]
    BY <1>1
  <2>2. new[i] = events[i]
    BY <1>1
  <2>3. IF events[i].type = "HistoryRecorded"
        THEN events[i].version = IF i - 1 = 0 THEN p ELSE events[i - 1].version
        ELSE events[i].version = (IF i - 1 = 0 THEN p ELSE events[i - 1].version) + 1
    BY DEF Changelog
  <2> QED BY <2>1, <2>2, <2>3
<1>4. IF ev.type = "HistoryRecorded"
      THEN ev.version = IF n = 0 THEN p ELSE new[n].version
      ELSE ev.version = (IF n = 0 THEN p ELSE new[n].version) + 1
  BY <1>1, <1>2
<1> HIDE DEF new, n
<1>5. \A i \in 1 .. n + 1 :
        IF new[i].type = "HistoryRecorded"
        THEN new[i].version = IF i - 1 = 0 THEN p ELSE new[i - 1].version
        ELSE new[i].version = (IF i - 1 = 0 THEN p ELSE new[i - 1].version) + 1
  <2>1. \A i \in 1 .. n + 1 : i \in 1 .. n \/ i = n + 1
    BY <1>1
  <2>2. n + 1 - 1 = n
    BY <1>1
  <2> QED BY <1>1, <1>3, <1>4, <2>1, <2>2
<1>6. Changelog(new, ev.version, p)
  BY <1>1, <1>5 DEF Changelog
<1> QED BY <1>6 DEF new

\* and with one event for each of several versions.
LEMMA ChangelogExtend ==
  ASSUME NEW events \in Seq(DomainEvent), NEW v \in Nat, NEW p \in Nat,
         Changelog(events, v, p), NEW n \in Nat,
         NEW new \in Seq(DomainEvent), Len(new) = n,
         \A i \in 1 .. n : new[i].type # "HistoryRecorded" /\ new[i].version = v + i
  PROVE  Changelog(events \o new, v + n, p)
<1> DEFINE all == events \o new
           m == Len(events)
<1>1. m \in Nat /\ Len(all) = m + n
      /\ (\A i \in 1 .. m : all[i] = events[i])
      /\ \A i \in 1 .. n : all[m + i] = new[i]
  <2>1. /\ Len(all) = m + Len(new)
        /\ \A i \in 1 .. m + Len(new) : all[i] = IF i <= m THEN events[i] ELSE new[i - m]
    BY ConcatProperties
  <2>2. m \in Nat
    BY LenProperties
  <2> HIDE DEF all, m
  <2>3. \A i \in 1 .. n : m + i \in 1 .. m + n /\ ~(m + i <= m) /\ (m + i) - m = i
    BY <2>2
  <2> QED BY <2>1, <2>2, <2>3
<1>2. v = IF m = 0 THEN p ELSE events[m].version
  BY DEF Changelog
<1> HIDE DEF all, m
<1>3. ASSUME NEW i \in 1 .. m + n
      PROVE  IF all[i].type = "HistoryRecorded"
             THEN all[i].version = IF i - 1 = 0 THEN p ELSE all[i - 1].version
             ELSE all[i].version = (IF i - 1 = 0 THEN p ELSE all[i - 1].version) + 1
  <2>1. CASE i \in 1 .. m
    <3>1. IF events[i].type = "HistoryRecorded"
          THEN events[i].version = IF i - 1 = 0 THEN p ELSE events[i - 1].version
          ELSE events[i].version = (IF i - 1 = 0 THEN p ELSE events[i - 1].version) + 1
      BY <2>1 DEF Changelog, m
    <3>2. all[i] = events[i] /\ (i - 1 # 0 => all[i - 1] = events[i - 1])
      BY <1>1, <2>1
    <3> QED BY <3>1, <3>2
  <2>2. CASE i = m + 1
    <3>1. n > 0 /\ all[i] = new[1] /\ new[1].type # "HistoryRecorded" /\ new[1].version = v + 1
      BY <1>1, <2>2
    <3>2. i - 1 = m
      BY <1>1, <2>2
    <3>3. m # 0 => all[m] = events[m]
      BY <1>1
    <3> QED BY <1>2, <3>1, <3>2, <3>3
  <2>3. CASE i > m + 1
    <3>1. PICK j \in 2 .. n : i = m + j
      <4>1. i - m \in 2 .. n /\ i = m + (i - m)
        BY <1>1, <2>3
      <4> QED BY <4>1
    <3>2. j \in 1 .. n /\ j - 1 \in 1 .. n /\ i - 1 = m + (j - 1) /\ i - 1 # 0
      BY <1>1, <3>1
    <3>3. all[i] = new[j] /\ all[i - 1] = new[j - 1]
      BY <1>1, <3>1, <3>2
    <3>4. new[j].version = v + j /\ new[j - 1].version = v + (j - 1)
          /\ new[j].type # "HistoryRecorded"
      BY <3>2
    <3>5. v + j = v + (j - 1) + 1
      BY <3>1
    <3> QED BY <3>2, <3>3, <3>4, <3>5
  <2> QED BY <1>1, <2>1, <2>2, <2>3
<1>4. v + n = IF m + n = 0 THEN p ELSE all[m + n].version
  <2>1. CASE n = 0
    BY <1>1, <1>2, <2>1
  <2>2. CASE n # 0
    <3>1. n \in 1 .. n
      BY <2>2
    <3>2. all[m + n] = new[n] /\ new[n].version = v + n /\ m + n # 0
      BY <1>1, <2>2, <3>1
    <3> QED BY <3>2
  <2> QED BY <2>1, <2>2
<1>5. Changelog(all, v + n, p)
  BY <1>1, <1>3, <1>4 DEF Changelog
<1> QED BY <1>5 DEF all

\* Emit, which ends most methods, adds one version and its event.
LEMMA EmitFields ==
  ASSUME NEW c \in Aggregate, NEW type \in EventType
  PROVE  /\ Emit(c, type) \in Aggregate /\ Emit(c, type).version = c.version + 1
         /\ Emit(c, type).domainEvents =
              Append(c.domainEvents, [type |-> type, version |-> c.version + 1])
         /\ [type |-> type, version |-> c.version + 1] \in DomainEvent
         /\ Same(c, Emit(c, type), {"version", "domainEvents"})
<1> DEFINE ev == [type |-> type, version |-> c.version + 1]
<1>1. c.domainEvents \in Seq(DomainEvent) /\ c.version + 1 \in Nat
  BY DEF Aggregate
<1>2. ev \in DomainEvent
  BY <1>1 DEF DomainEvent
<1>3. Emit(c, type) = [c EXCEPT !.version = c.version + 1,
                                !.domainEvents = Append(c.domainEvents, ev)]
  BY DEF Emit, Aggregate
<1> HIDE DEF ev
<1>4. Append(c.domainEvents, ev) \in Seq(DomainEvent)
  BY <1>1, <1>2
<1>5. Emit(c, type) \in Aggregate
  BY <1>1, <1>3, <1>4 DEF Aggregate
<1>6. Emit(c, type).version = c.version + 1
      /\ Emit(c, type).domainEvents = Append(c.domainEvents, ev)
  BY <1>3 DEF Aggregate
<1>7. Same(c, Emit(c, type), {"version", "domainEvents"})
  BY <1>3 DEF Aggregate, Same, Field
<1> QED BY <1>2, <1>5, <1>6, <1>7 DEF ev

\* What an aggregate says depends on the fields only.
LEMMA SameLifecycle ==
  ASSUME NEW c, NEW f, Same(c, f, {"version", "domainEvents"}), Phase(c), OutcomesOK(c)
  PROVE  Phase(f) /\ OutcomesOK(f)
<1>1. /\ f.state = c.state /\ f.result = c.result /\ f.createdAt = c.createdAt
      /\ f.startedAt = c.startedAt /\ f.completedAt = c.completedAt
      /\ f.cancelledAt = c.cancelledAt /\ f.expiredAt = c.expiredAt
      /\ f.cancellationReason = c.cancellationReason /\ f.ruleOutcomes = c.ruleOutcomes
      /\ f.requiredRuleIDs = c.requiredRuleIDs /\ f.checkpoints = c.checkpoints
      /\ f.policyBinding = c.policyBinding
  BY DEF Same, Field
<1>2. RequiredRulesComplete(f) = RequiredRulesComplete(c) /\ RecordedRules(f) = RecordedRules(c)
  BY <1>1 DEF RequiredRulesComplete, MissingRequiredRuleIDs, RequiredRules, RecordedRules
<1>3. Phase(f)
  BY <1>1, <1>2 DEF Phase
<1>4. OutcomesOK(f)
  BY <1>1, <1>2 DEF OutcomesOK
<1> QED BY <1>3, <1>4

\* The common part of the methods: one that succeeds on e changes its fields,
\* giving c, and emits its event.
LEMMA Emitted ==
  ASSUME NEW p \in Nat, NEW e, Sound(e, p), ~IsTerminal(e.state),
         NEW c \in Aggregate, c.version = e.version, c.domainEvents = e.domainEvents,
         c.history = e.history, c.createdAt = e.createdAt,
         e.cancellationReason => c.cancellationReason, Phase(c), OutcomesOK(c), Parts(c),
         NEW type \in EventType \ {"HistoryRecorded"}
  PROVE  Sound(Emit(c, type), p) /\ Step(e, Emit(c, type))
<1> DEFINE ev == [type |-> type, version |-> c.version + 1]
<1>1. PICK f : f = Emit(c, type)
  OBVIOUS
<1>2. /\ f \in Aggregate /\ f.version = c.version + 1
      /\ f.domainEvents = Append(c.domainEvents, ev) /\ ev \in DomainEvent
      /\ Same(c, f, {"version", "domainEvents"})
  BY <1>1, EmitFields
<1>3. ev.version = c.version + 1 /\ ev.type # "HistoryRecorded"
  OBVIOUS
<1> HIDE DEF ev
<1>4. e \in Aggregate /\ e.version \in Nat /\ e.domainEvents \in Seq(DomainEvent)
      /\ e.history \in Seq(Entry)
  BY DEF Sound, Aggregate
<1>5. Changelog(f.domainEvents, f.version, p)
  <2>1. Changelog(e.domainEvents, e.version, p)
    BY DEF Sound
  <2>2. Changelog(Append(e.domainEvents, ev), ev.version, p)
    BY <1>2, <1>3, <1>4, <2>1, ChangelogAppend
  <2> QED BY <1>2, <1>3, <2>2
<1>6. Phase(f) /\ OutcomesOK(f)
  BY <1>2, SameLifecycle
<1>7. f.history = c.history /\ f.checkpoints = c.checkpoints /\ f.createdAt = e.createdAt
      /\ f.cancellationReason = c.cancellationReason /\ f.evidenceBinding = c.evidenceBinding
  BY <1>2 DEF Same, Field
<1>8. f.version > e.version /\ f.version # 0
  BY <1>2, <1>4
<1>9. Parts(f)
  BY <1>7, <1>8 DEF Parts
<1>10. f.version >= e.version /\ f.version # e.version
  BY <1>2, <1>4
<1> QED BY <1>1, <1>2, <1>5, <1>6, <1>7, <1>9, <1>10 DEF Sound, Step

-----------------------------------------------------------------------------
\* What time.Now returns is a time of the model.
LEMMA ClockTime ==
  Clock \subseteq Time
BY BoundsAssumption DEF Clock, Time

\* A method that finds nothing to do.
LEMMA NothingChanges ==
  ASSUME NEW p, NEW e, Sound(e, p)
  PROVE  Step(e, e)
<1>1. e.version \in Nat
  BY DEF Sound, Aggregate
<1> QED BY <1>1 DEF Step

\* Most methods leave the history, the checkpoints and the evidence alone.
LEMMA MutationSound ==
  ASSUME NEW p \in Nat, NEW e, Sound(e, p), ~IsTerminal(e.state),
         NEW c \in Aggregate, c.version = e.version, c.domainEvents = e.domainEvents,
         c.history = e.history, c.checkpoints = e.checkpoints, c.createdAt = e.createdAt,
         c.evidenceBinding = e.evidenceBinding,
         e.cancellationReason => c.cancellationReason, Phase(c), OutcomesOK(c),
         NEW type \in EventType \ {"HistoryRecorded"}
  PROVE  Sound(Emit(c, type), p) /\ Step(e, Emit(c, type))
<1>1. Parts(c)
  BY DEF Sound, Parts
<1> QED BY <1>1, Emitted

\* Start keeps the aggregate sound.
LEMMA StartedSound ==
  ASSUME NEW p \in Nat, NEW e, Sound(e, p), NEW f \in Started(e)
  PROVE  Sound(f, p) /\ Step(e, f)
<1>1. PICK at \in Clock : CanStart(e, at) /\ f = Start(e, at)
  BY DEF Started
<1>2. PICK c : c = [e EXCEPT !.state = "RUNNING", !.startedAt = at]
  OBVIOUS
<1>3. e \in Aggregate /\ at \in Time /\ at # Zero /\ at >= e.createdAt /\ e.state = "CREATED"
      /\ "RUNNING" \in State
  BY <1>1, ClockTime DEF Sound, CanStart, CanTransitionTo, State
<1>4. c \in Aggregate /\ c.state = "RUNNING" /\ c.startedAt = at
      /\ Same(e, c, {"state", "startedAt"})
  BY <1>2, <1>3 DEF Aggregate, Same, Field
<1>5. c.version = e.version /\ c.domainEvents = e.domainEvents /\ c.history = e.history
      /\ c.checkpoints = e.checkpoints /\ c.createdAt = e.createdAt
      /\ c.evidenceBinding = e.evidenceBinding
      /\ c.cancellationReason = e.cancellationReason /\ c.completedAt = e.completedAt
      /\ c.cancelledAt = e.cancelledAt /\ c.expiredAt = e.expiredAt
      /\ c.policyBinding = e.policyBinding /\ c.ruleOutcomes = e.ruleOutcomes
  BY <1>4 DEF Same, Field
<1>6. Phase(c)
  BY <1>3, <1>4, <1>5 DEF Sound, Phase
<1>7. OutcomesOK(c)
  <2>1. RecordedRules(e) = {} /\ DOMAIN e.checkpoints = {}
    BY <1>3 DEF Sound, OutcomesOK
  <2>2. \A r \in Rule : c.ruleOutcomes[r] = None
    BY <1>5, <2>1 DEF RecordedRules
  <2> QED BY <1>4, <1>5, <2>1, <2>2 DEF OutcomesOK, Recorded
<1>8. "Started" \in EventType \ {"HistoryRecorded"} /\ ~IsTerminal(e.state)
  BY <1>3 DEF EventType, IsTerminal
<1>9. f = Emit(c, "Started")
  BY <1>1, <1>2 DEF Start
<1> QED BY <1>4, <1>5, <1>6, <1>7, <1>8, <1>9, MutationSound

\* Complete keeps it: every required rule has its outcome by then.
LEMMA CompletedSound ==
  ASSUME NEW p \in Nat, NEW e, Sound(e, p), NEW f \in Completed(e)
  PROVE  Sound(f, p) /\ Step(e, f)
<1>1. PICK result \in ReportedResult, reasons \in Reasons, at \in Clock :
        CanCompleteAt(e, result, reasons, at) /\ f = CompleteAt(e, result, reasons, at)
  BY DEF Completed
<1>2. PICK c : c = [e EXCEPT !.state = "COMPLETED", !.result = result,
                             !.reasonCodes = reasons, !.completedAt = at]
  OBVIOUS
<1>3. /\ e \in Aggregate /\ at \in Time /\ at # Zero /\ at >= e.startedAt /\ e.startedAt # Zero
      /\ e.state = "RUNNING" /\ result \in Result /\ result # "UNKNOWN"
      /\ reasons \in SUBSET ReasonCode /\ RequiredRulesComplete(e) /\ "COMPLETED" \in State
  BY <1>1, ClockTime DEF Sound, CanCompleteAt, CanTransitionTo, State, Reasons, ReasonCode
<1>4. c \in Aggregate /\ c.state = "COMPLETED" /\ c.result = result /\ c.completedAt = at
      /\ Same(e, c, {"state", "result", "reasonCodes", "completedAt"})
  BY <1>2, <1>3 DEF Aggregate, Same, Field
<1>5. c.version = e.version /\ c.domainEvents = e.domainEvents /\ c.history = e.history
      /\ c.checkpoints = e.checkpoints /\ c.createdAt = e.createdAt
      /\ c.evidenceBinding = e.evidenceBinding
      /\ c.cancellationReason = e.cancellationReason /\ c.startedAt = e.startedAt
      /\ c.policyBinding = e.policyBinding /\ c.ruleOutcomes = e.ruleOutcomes
      /\ c.requiredRuleIDs = e.requiredRuleIDs
  BY <1>4 DEF Same, Field
<1>6. RequiredRulesComplete(c)
  BY <1>3, <1>5
  DEF RequiredRulesComplete, MissingRequiredRuleIDs, RequiredRules, RecordedRules
<1>7. Phase(c)
  BY <1>3, <1>4, <1>5, <1>6 DEF Sound, Phase
<1>8. OutcomesOK(c)
  BY <1>4, <1>5 DEF Sound, OutcomesOK
<1>9. CompletionEvent(result) \in EventType \ {"HistoryRecorded"} /\ ~IsTerminal(e.state)
  BY <1>3 DEF EventType, IsTerminal, CompletionEvent
<1>10. f = Emit(c, CompletionEvent(result))
  BY <1>1, <1>2 DEF CompleteAt
<1> QED BY <1>4, <1>5, <1>7, <1>8, <1>9, <1>10, MutationSound

\* Cancel keeps it.
LEMMA CancelledSound ==
  ASSUME NEW p \in Nat, NEW e, Sound(e, p), NEW f \in Cancelled(e)
  PROVE  Sound(f, p) /\ Step(e, f)
<1>1. PICK now \in Clock \ {Zero} : CanCancel(e) /\ f = Cancel(e, now)
  BY DEF Cancelled
<1>2. PICK c : c = [e EXCEPT !.state = "CANCELLED", !.cancelledAt = now,
                             !.cancellationReason = TRUE]
  OBVIOUS
<1>3. e \in Aggregate /\ now \in Time /\ now # Zero /\ "CANCELLED" \in State
  BY <1>1, ClockTime DEF Sound, State
<1>4. c \in Aggregate /\ c.state = "CANCELLED" /\ c.cancelledAt = now /\ c.cancellationReason
      /\ Same(e, c, {"state", "cancelledAt", "cancellationReason"})
  BY <1>2, <1>3 DEF Aggregate, Same, Field
<1>5. c.version = e.version /\ c.domainEvents = e.domainEvents /\ c.history = e.history
      /\ c.checkpoints = e.checkpoints /\ c.createdAt = e.createdAt
      /\ c.evidenceBinding = e.evidenceBinding
      /\ c.startedAt = e.startedAt
      /\ c.policyBinding = e.policyBinding /\ c.ruleOutcomes = e.ruleOutcomes
  BY <1>4 DEF Same, Field
<1>6. Phase(c)
  BY <1>3, <1>4, <1>5 DEF Sound, Phase
<1>7. OutcomesOK(c)
  BY <1>4, <1>5 DEF Sound, OutcomesOK
<1>8. "Cancelled" \in EventType \ {"HistoryRecorded"} /\ ~IsTerminal(e.state)
  BY <1>1 DEF EventType, CanCancel
<1>9. f = Emit(c, "Cancelled")
  BY <1>1, <1>2 DEF Cancel
<1> QED BY <1>4, <1>5, <1>6, <1>7, <1>8, <1>9, MutationSound

\* Expire keeps it.
LEMMA ExpiredSound ==
  ASSUME NEW p \in Nat, NEW e, Sound(e, p), NEW f \in Expired(e)
  PROVE  Sound(f, p) /\ Step(e, f)
<1>1. PICK at \in Clock : CanExpire(e, at) /\ f = Expire(e, at)
  BY DEF Expired
<1>2. PICK c : c = [e EXCEPT !.state = "EXPIRED", !.result = "SYSTEM_EXCEPTION",
                             !.reasonCodes = {Timeout}, !.expiredAt = at]
  OBVIOUS
<1>3. e \in Aggregate /\ at \in Time /\ at # Zero /\ "EXPIRED" \in State
      /\ "SYSTEM_EXCEPTION" \in Result /\ {Timeout} \in SUBSET ReasonCode
  BY <1>1, ClockTime DEF Sound, State, Result, ReasonCode, CanExpire
<1>4. c \in Aggregate /\ c.state = "EXPIRED" /\ c.expiredAt = at
      /\ Same(e, c, {"state", "result", "reasonCodes", "expiredAt"})
  BY <1>2, <1>3 DEF Aggregate, Same, Field
<1>5. c.version = e.version /\ c.domainEvents = e.domainEvents /\ c.history = e.history
      /\ c.checkpoints = e.checkpoints /\ c.createdAt = e.createdAt
      /\ c.evidenceBinding = e.evidenceBinding
      /\ c.startedAt = e.startedAt /\ c.cancellationReason = e.cancellationReason
      /\ c.policyBinding = e.policyBinding /\ c.ruleOutcomes = e.ruleOutcomes
  BY <1>4 DEF Same, Field
<1>6. Phase(c)
  BY <1>3, <1>4, <1>5 DEF Sound, Phase
<1>7. OutcomesOK(c)
  BY <1>4, <1>5 DEF Sound, OutcomesOK
<1>8. "Expired" \in EventType \ {"HistoryRecorded"} /\ ~IsTerminal(e.state)
  BY <1>1 DEF EventType, CanExpire
<1>9. f = Emit(c, "Expired")
  BY <1>1, <1>2 DEF Expire
<1> QED BY <1>4, <1>5, <1>6, <1>7, <1>8, <1>9, MutationSound

\* The bindings, and a rule of the plan.
LEMMA BoundSound ==
  ASSUME NEW p \in Nat, NEW e, Sound(e, p), ~IsTerminal(e.state),
         NEW c \in Aggregate, Same(e, c, {"evidenceBinding", "policyBinding", "requiredRuleIDs"}),
         c.policyBinding # None => c.policyBinding.boundAt >= e.createdAt,
         c.evidenceBinding # None =>
           NormalEvidenceBinding(c.evidenceBinding) /\ c.evidenceBinding.ownSession,
         NEW type \in EventType \ {"HistoryRecorded"}
  PROVE  Sound(Emit(c, type), p) /\ Step(e, Emit(c, type))
<1>1. c.version = e.version /\ c.domainEvents = e.domainEvents /\ c.history = e.history
      /\ c.checkpoints = e.checkpoints /\ c.createdAt = e.createdAt /\ c.state = e.state
      /\ c.startedAt = e.startedAt /\ c.cancellationReason = e.cancellationReason
      /\ c.completedAt = e.completedAt /\ c.cancelledAt = e.cancelledAt
      /\ c.expiredAt = e.expiredAt /\ c.ruleOutcomes = e.ruleOutcomes
  BY DEF Same, Field
<1>2. c.state # "COMPLETED"
  BY <1>1 DEF IsTerminal
<1>3. Phase(c)
  BY <1>1, <1>2 DEF Sound, Phase, IsTerminal
<1>4. OutcomesOK(c)
  BY <1>1 DEF Sound, OutcomesOK, RecordedRules
<1>5. Parts(c)
  BY <1>1 DEF Sound, Parts
<1> QED BY <1>1, <1>3, <1>4, <1>5, Emitted

\* Binding the evidence snapshot keeps it.
LEMMA EvidenceBoundSound ==
  ASSUME NEW p \in Nat, NEW e, Sound(e, p), NEW f \in EvidenceBound(e)
  PROVE  Sound(f, p) /\ Step(e, f)
<1>1. PICK b \in EvidenceBinding : CanBindEvidenceSet(e, b) /\ f = BindEvidenceSet(e, b)
  BY DEF EvidenceBound
<1>2. CASE f = e
  BY <1>2, NothingChanges
<1>3. CASE f # e
  <2>1. PICK c : c = [e EXCEPT !.evidenceBinding = b]
    OBVIOUS
  <2>2. f = Emit(c, "EvidenceSetBound")
    BY <1>1, <1>3, <2>1 DEF BindEvidenceSet
  <2>3. c \in Aggregate /\ Same(e, c, {"evidenceBinding"}) /\ c.evidenceBinding = b
    BY <2>1 DEF Sound, Aggregate, Same, Field
  <2>4. Same(e, c, {"evidenceBinding", "policyBinding", "requiredRuleIDs"})
        /\ c.policyBinding = e.policyBinding
    BY <2>3 DEF Same, Field
  <2>5. "EvidenceSetBound" \in EventType \ {"HistoryRecorded"} /\ ~IsTerminal(e.state)
    BY <1>1 DEF EventType, CanBindEvidenceSet
  <2>6. c.policyBinding # None => c.policyBinding.boundAt >= e.createdAt
    BY <2>4 DEF Sound, Phase
  <2>7. NormalEvidenceBinding(c.evidenceBinding) /\ c.evidenceBinding.ownSession
    BY <1>1, <2>3 DEF CanBindEvidenceSet
  <2> QED BY <2>2, <2>3, <2>4, <2>5, <2>6, <2>7, BoundSound
<1> QED BY <1>2, <1>3

\* Binding the policy keeps it.
LEMMA PolicyBoundSound ==
  ASSUME NEW p \in Nat, NEW e, Sound(e, p), NEW f \in PolicyBound(e)
  PROVE  Sound(f, p) /\ Step(e, f)
<1>1. PICK b \in PolicyBinding :
        CanBindVerificationPolicy(e, b) /\ f = BindVerificationPolicy(e, b)
  BY DEF PolicyBound
<1>2. CASE f = e
  BY <1>2, NothingChanges
<1>3. CASE f # e
  <2>1. PICK c : c = [e EXCEPT !.policyBinding = b]
    OBVIOUS
  <2>2. f = Emit(c, "VerificationPolicyBound")
    BY <1>1, <1>3, <2>1 DEF BindVerificationPolicy
  <2>3. c \in Aggregate /\ Same(e, c, {"policyBinding"}) /\ c.policyBinding = b
    BY <2>1 DEF Sound, Aggregate, Same, Field
  <2>4. Same(e, c, {"evidenceBinding", "policyBinding", "requiredRuleIDs"})
        /\ c.evidenceBinding = e.evidenceBinding
    BY <2>3 DEF Same, Field
  <2>5. "VerificationPolicyBound" \in EventType \ {"HistoryRecorded"} /\ ~IsTerminal(e.state)
        /\ b.boundAt >= e.createdAt
    BY <1>1 DEF EventType, CanBindVerificationPolicy
  <2>6. Parts(e)
    BY DEF Sound
  <2> QED BY <2>2, <2>3, <2>4, <2>5, <2>6, BoundSound DEF Parts
<1> QED BY <1>2, <1>3

\* Registering required rules keeps it.
LEMMA RuleRegisteredSound ==
  ASSUME NEW p \in Nat, NEW e, Sound(e, p), NEW f \in RuleRegistered(e)
  PROVE  Sound(f, p) /\ Step(e, f)
<1>1. PICK r \in Rule : /\ \E at \in Clock : CanRegisterRequiredRule(e, at)
                        /\ f = RegisterRequiredRule(e, r)
  BY DEF RuleRegistered
<1>2. CASE f = e
  BY <1>2, NothingChanges
<1>3. CASE f # e
  <2>1. e \in Aggregate /\ e.requiredRuleIDs \in Seq(Rule)
    BY DEF Sound, Aggregate
  <2>2. PICK c : c = [e EXCEPT !.requiredRuleIDs = Append(e.requiredRuleIDs, r)]
    OBVIOUS
  <2>3. f = Emit(c, "RequiredRuleRegistered")
    BY <1>1, <1>3, <2>1, <2>2 DEF RegisterRequiredRule, Aggregate
  <2>4. Append(e.requiredRuleIDs, r) \in Seq(Rule)
    BY <2>1
  <2>5. c \in Aggregate /\ Same(e, c, {"requiredRuleIDs"})
    BY <2>1, <2>2, <2>4 DEF Aggregate, Same, Field
  <2>6. Same(e, c, {"evidenceBinding", "policyBinding", "requiredRuleIDs"})
        /\ c.policyBinding = e.policyBinding /\ c.evidenceBinding = e.evidenceBinding
    BY <2>5 DEF Same, Field
  <2>7. "RequiredRuleRegistered" \in EventType \ {"HistoryRecorded"} /\ ~IsTerminal(e.state)
    BY <1>1 DEF EventType, CanRegisterRequiredRule
  <2>8. c.policyBinding # None => c.policyBinding.boundAt >= e.createdAt
    BY <2>6 DEF Sound, Phase
  <2>9. Parts(e)
    BY DEF Sound
  <2> QED BY <2>3, <2>5, <2>6, <2>7, <2>8, <2>9, BoundSound DEF Parts
<1> QED BY <1>2, <1>3

-----------------------------------------------------------------------------
\* A method of a running evaluation that changes its outcomes.
LEMMA OutcomesSound ==
  ASSUME NEW p \in Nat, NEW e, Sound(e, p), e.state = "RUNNING",
         NEW o \in RuleOutcomes, Recorded(o, e.startedAt),
         NEW type \in EventType \ {"HistoryRecorded"}
  PROVE  /\ Sound(Emit([e EXCEPT !.ruleOutcomes = o], type), p)
         /\ Step(e, Emit([e EXCEPT !.ruleOutcomes = o], type))
<1>1. PICK c : c = [e EXCEPT !.ruleOutcomes = o]
  OBVIOUS
<1>2. c \in Aggregate /\ Same(e, c, {"ruleOutcomes"}) /\ c.ruleOutcomes = o
  BY <1>1 DEF Sound, Aggregate, Same, Field
<1>3. c.version = e.version /\ c.domainEvents = e.domainEvents /\ c.history = e.history
      /\ c.checkpoints = e.checkpoints /\ c.createdAt = e.createdAt
      /\ c.evidenceBinding = e.evidenceBinding /\ c.state = e.state
      /\ c.startedAt = e.startedAt /\ c.cancellationReason = e.cancellationReason
      /\ c.completedAt = e.completedAt /\ c.cancelledAt = e.cancelledAt
      /\ c.expiredAt = e.expiredAt /\ c.policyBinding = e.policyBinding
  BY <1>2 DEF Same, Field
<1>4. Phase(c)
  BY <1>3 DEF Sound, Phase
<1>5. OutcomesOK(c)
  BY <1>2, <1>3 DEF Sound, OutcomesOK
<1>6. ~IsTerminal(e.state)
  BY DEF IsTerminal
<1> QED BY <1>1, <1>2, <1>3, <1>4, <1>5, <1>6, MutationSound

\* The outcomes of a batch, where they are not before the start, are good ones.
LEMMA MergedRecorded ==
  ASSUME NEW p \in Nat, NEW e, Sound(e, p), NEW S \in SUBSET Rule,
         NEW b \in [S -> [status : OutcomeStatus, evaluatedAt : Clock \ {Zero}]],
         \A r \in S : b[r].evaluatedAt >= e.startedAt
  PROVE  Merged(e, b) \in RuleOutcomes /\ Recorded(Merged(e, b), e.startedAt)
<1>1. e.ruleOutcomes \in RuleOutcomes /\ Recorded(e.ruleOutcomes, e.startedAt)
  BY DEF Sound, Aggregate, OutcomesOK
<1>2. \A r \in S : b[r] \in RuleOutcome /\ b[r].evaluatedAt # Zero
  BY ClockTime, BoundsAssumption DEF RuleOutcome
<1>3. Merged(e, b) = [r \in Rule |-> IF r \in S THEN b[r] ELSE e.ruleOutcomes[r]]
  BY DEF Merged
<1>4. Merged(e, b) \in RuleOutcomes
  BY <1>1, <1>2, <1>3 DEF RuleOutcomes
<1>5. Recorded(Merged(e, b), e.startedAt)
  BY <1>1, <1>2, <1>3 DEF Recorded
<1> QED BY <1>4, <1>5

\* A batch of outcomes has one outcome for each of finitely many rules.
LEMMA BatchTyped ==
  ASSUME NEW b \in Batch
  PROVE  \E S \in SUBSET Rule :
           /\ IsFiniteSet(S) /\ DOMAIN b = S
           /\ b \in [S -> [status : OutcomeStatus, evaluatedAt : Clock \ {Zero}]]
BY DEF Batch

\* Recording one outcome keeps the aggregate sound.
LEMMA OutcomeRecordedSound ==
  ASSUME NEW p \in Nat, NEW e, Sound(e, p), NEW f \in OutcomeRecorded(e)
  PROVE  Sound(f, p) /\ Step(e, f)
<1>1. PICK r \in Rule, b \in Singles :
        /\ r \in DOMAIN b /\ CanRecordRuleOutcome(e, r, b[r])
        /\ f = RecordRuleOutcome(e, r, b[r])
  BY DEF OutcomeRecorded
<1>2. b \in Batch
  BY DEF Singles
<1>3. b[r] \in [status : OutcomeStatus, evaluatedAt : Clock \ {Zero}]
  BY <1>1, <1>2, BatchTyped
<1>4. PICK c : c = [x \in {r} |-> b[r]]
  OBVIOUS
<1>5. c \in [{r} -> [status : OutcomeStatus, evaluatedAt : Clock \ {Zero}]]
      /\ DOMAIN c = {r} /\ {r} \in SUBSET Rule
  BY <1>3, <1>4
<1>6. e.state = "RUNNING" /\ \A x \in {r} : c[x].evaluatedAt >= e.startedAt
  BY <1>1, <1>4, <1>5 DEF CanRecordRuleOutcome, CanRecordRuleOutcomes
<1>7. Merged(e, c) \in RuleOutcomes /\ Recorded(Merged(e, c), e.startedAt)
  BY <1>5, <1>6, MergedRecorded
<1>8. f = e \/ f = Emit([e EXCEPT !.ruleOutcomes = Merged(e, c)], "RuleOutcomeRecorded")
  BY <1>1, <1>4 DEF RecordRuleOutcome
<1>9. "RuleOutcomeRecorded" \in EventType \ {"HistoryRecorded"}
  BY DEF EventType
<1> QED BY <1>6, <1>7, <1>8, <1>9, OutcomesSound, NothingChanges

\* Recording a batch of outcomes keeps it.
LEMMA BatchRecordedSound ==
  ASSUME NEW p \in Nat, NEW e, Sound(e, p), NEW f \in BatchRecorded(e)
  PROVE  Sound(f, p) /\ Step(e, f)
<1>1. PICK b \in Batch : /\ \E at \in Clock : CanRecordRuleOutcomeBatch(e, b, at)
                         /\ f = RecordRuleOutcomeBatch(e, b)
  BY DEF BatchRecorded
<1>2. CASE f = e
  BY <1>2, NothingChanges
<1>3. CASE f # e
  <2>1. DOMAIN b # {}
    BY <1>1, <1>3 DEF RecordRuleOutcomeBatch, Pending
  <2>2. e.state = "RUNNING" /\ \A r \in DOMAIN b : b[r].evaluatedAt >= e.startedAt
    BY <1>1, <2>1 DEF CanRecordRuleOutcomeBatch, CanRecordRuleOutcomes
  <2>3. Merged(e, b) \in RuleOutcomes /\ Recorded(Merged(e, b), e.startedAt)
    BY <2>2, BatchTyped, MergedRecorded
  <2>4. f = Emit([e EXCEPT !.ruleOutcomes = Merged(e, b)], "RuleOutcomeBatchRecorded")
    BY <1>1, <1>3 DEF RecordRuleOutcomeBatch
  <2>5. "RuleOutcomeBatchRecorded" \in EventType \ {"HistoryRecorded"}
    BY DEF EventType
  <2> QED BY <2>2, <2>3, <2>4, <2>5, OutcomesSound
<1> QED BY <1>2, <1>3

\* Replacing outcomes keeps it.
LEMMA ReplacedSound ==
  ASSUME NEW p \in Nat, NEW e, Sound(e, p), NEW f \in Replaced(e) \cup BatchReplaced(e)
  PROVE  Sound(f, p) /\ Step(e, f)
<1>1. PICK b \in Batch, type \in {"RuleOutcomeReplaced", "RuleOutcomeBatchReplaced"} :
        /\ \E at \in Clock : CanReplaceRuleOutcomes(e, b, at)
        /\ f = ReplaceRuleOutcomes(e, b, type)
  BY DEF Replaced, BatchReplaced, Singles
<1>2. f = e \/ f = Emit([e EXCEPT !.ruleOutcomes = Merged(e, b)], type)
  BY <1>1 DEF ReplaceRuleOutcomes
<1>3. e.state = "RUNNING" /\ \A r \in DOMAIN b : b[r].evaluatedAt >= e.startedAt
  <2>1. PICK at \in Clock : CanReplaceRuleOutcomes(e, b, at)
    BY <1>1
  <2>2. at \in Nat /\ e.startedAt \in Nat
    BY ClockTime DEF Sound, Aggregate, Time
  <2> QED BY <2>1, <2>2 DEF CanReplaceRuleOutcomes
<1>4. Merged(e, b) \in RuleOutcomes /\ Recorded(Merged(e, b), e.startedAt)
  BY <1>3, BatchTyped, MergedRecorded
<1>5. type \in EventType \ {"HistoryRecorded"}
  BY DEF EventType
<1> QED BY <1>2, <1>3, <1>4, <1>5, OutcomesSound, NothingChanges

\* Removing or resetting outcomes keeps it.
LEMMA RemovedSound ==
  ASSUME NEW p \in Nat, NEW e, Sound(e, p),
         NEW f \in Removed(e) \cup BatchRemoved(e) \cup OutcomesReset(e)
  PROVE  Sound(f, p) /\ Step(e, f)
<1>1. PICK S \in SUBSET Rule,
           type \in {"RuleOutcomeRemoved", "RuleOutcomeBatchRemoved", "RuleOutcomesReset"} :
        e.state = "RUNNING" /\ f = RemoveRuleOutcomes(e, S, type)
  <2>1. CASE f \in Removed(e)
    <3>1. PICK r \in Rule : /\ \E at \in Clock : CanRemoveRuleOutcomes(e, {r}, at)
                            /\ f = RemoveRuleOutcomes(e, {r}, "RuleOutcomeRemoved")
      BY <2>1 DEF Removed
    <3>2. {r} \in SUBSET Rule /\ e.state = "RUNNING"
      BY <3>1 DEF CanRemoveRuleOutcomes
    <3> QED BY <3>1, <3>2
  <2>2. CASE f \in BatchRemoved(e)
    <3>1. PICK S \in SUBSET Rule : /\ \E at \in Clock : CanRemoveRuleOutcomes(e, S, at)
                                   /\ f = RemoveRuleOutcomes(e, S, "RuleOutcomeBatchRemoved")
      BY <2>2 DEF BatchRemoved
    <3>2. e.state = "RUNNING"
      BY <3>1 DEF CanRemoveRuleOutcomes
    <3> QED BY <3>1, <3>2
  <2>3. CASE f \in OutcomesReset(e)
    <3>1. RecordedRules(e) \in SUBSET Rule
      BY DEF RecordedRules
    <3>2. f = RemoveRuleOutcomes(e, RecordedRules(e), "RuleOutcomesReset") /\ e.state = "RUNNING"
      BY <2>3 DEF OutcomesReset, ResetRuleOutcomes, CanResetRuleOutcomes
    <3> QED BY <3>1, <3>2
  <2> QED BY <2>1, <2>2, <2>3
<1>2. PICK o : o = [r \in Rule |-> IF r \in S THEN None ELSE e.ruleOutcomes[r]]
  OBVIOUS
<1>3. e.ruleOutcomes \in RuleOutcomes /\ Recorded(e.ruleOutcomes, e.startedAt)
  BY DEF Sound, Aggregate, OutcomesOK
<1>4. o \in RuleOutcomes /\ Recorded(o, e.startedAt)
  BY <1>2, <1>3 DEF RuleOutcomes, Recorded
<1>5. f = e \/ f = Emit([e EXCEPT !.ruleOutcomes = o], type)
  BY <1>1, <1>2 DEF RemoveRuleOutcomes
<1>6. type \in EventType \ {"HistoryRecorded"}
  BY DEF EventType
<1> QED BY <1>1, <1>4, <1>5, <1>6, OutcomesSound, NothingChanges

\* RollbackToCheckpoint keeps it: the checkpoint was of a sound aggregate.
LEMMA RolledBackSound ==
  ASSUME NEW p \in Nat, NEW e, Sound(e, p), NEW f \in RolledBack(e)
  PROVE  Sound(f, p) /\ Step(e, f)
<1>1. PICK n \in CheckpointName : /\ \E at \in Clock : CanRollbackToCheckpoint(e, n, at)
                                  /\ f = RollbackToCheckpoint(e, n)
  BY DEF RolledBack
<1>2. e.state = "RUNNING" /\ n \in DOMAIN e.checkpoints
  BY <1>1 DEF CanRollbackToCheckpoint
<1>3. PICK o : o = e.checkpoints[n].ruleOutcomes
  OBVIOUS
<1>4. o \in RuleOutcomes
  <2>1. PICK S \in SUBSET CheckpointName : e.checkpoints \in [S -> Checkpoint]
    BY DEF Sound, Aggregate, Checkpoints
  <2> QED BY <1>2, <1>3, <2>1 DEF Checkpoint
<1>5. Recorded(o, e.startedAt)
  BY <1>2, <1>3 DEF Sound, OutcomesOK
<1>6. f = Emit([e EXCEPT !.ruleOutcomes = o], "RolledBack")
  BY <1>1, <1>3 DEF RollbackToCheckpoint
<1>7. "RolledBack" \in EventType \ {"HistoryRecorded"}
  BY DEF EventType
<1> QED BY <1>2, <1>4, <1>5, <1>6, <1>7, OutcomesSound

\* The batch that counts a version for each new outcome: where it has none, it
\* changes nothing, so that its version still says what the aggregate is.
LEMMA OutcomesRecordedSound ==
  ASSUME NEW p \in Nat, NEW e, Sound(e, p), NEW f \in OutcomesRecorded(e)
  PROVE  Sound(f, p) /\ Step(e, f)
<1>1. PICK b \in Batch : CanRecordRuleOutcomes(e, b) /\ f = RecordRuleOutcomesAtomic(e, b)
  BY DEF OutcomesRecorded
<1>2. PICK S \in SUBSET Rule :
        /\ IsFiniteSet(S) /\ DOMAIN b = S
        /\ b \in [S -> [status : OutcomeStatus, evaluatedAt : Clock \ {Zero}]]
  BY BatchTyped
<1>3. e.state = "RUNNING" /\ \A r \in S : b[r].evaluatedAt >= e.startedAt
  BY <1>1, <1>2 DEF CanRecordRuleOutcomes
<1>4. PICK o : o = Merged(e, b)
  OBVIOUS
<1>5. o \in RuleOutcomes /\ Recorded(o, e.startedAt)
  BY <1>2, <1>3, <1>4, MergedRecorded
<1>6. PICK n : n = Cardinality(DOMAIN Pending(e, b))
  OBVIOUS
<1>7. DOMAIN Pending(e, b) = S \ RecordedRules(e) /\ IsFiniteSet(S \ RecordedRules(e))
  BY <1>2, FS_Subset DEF Pending
<1>8. n \in Nat /\ (n = 0 <=> S \ RecordedRules(e) = {})
  BY <1>6, <1>7, FS_CardinalityType, FS_EmptySet
<1>9. e \in Aggregate /\ e.version \in Nat /\ e.domainEvents \in Seq(DomainEvent)
      /\ e.history \in Seq(Entry) /\ e.ruleOutcomes \in RuleOutcomes
  BY DEF Sound, Aggregate
<1>10. PICK new : new = [i \in 1 .. n |-> [type |-> "RuleOutcomeRecorded",
                                           version |-> e.version + i]]
  OBVIOUS
<1>11. new \in Seq(DomainEvent) /\ Len(new) = n
       /\ \A i \in 1 .. n : new[i].type # "HistoryRecorded" /\ new[i].version = e.version + i
  <2>1. \A i \in 1 .. n : new[i] \in DomainEvent
    BY <1>8, <1>9, <1>10 DEF DomainEvent, EventType
  <2>2. new \in [1 .. n -> DomainEvent]
    BY <1>10, <2>1
  <2>3. new \in Seq(DomainEvent) /\ Len(new) = n
    BY <1>8, <2>2
  <2> QED BY <1>10, <2>3
<1>12. f = [e EXCEPT !.ruleOutcomes = o, !.version = e.version + n,
                     !.domainEvents = e.domainEvents \o new]
  BY <1>1, <1>4, <1>6, <1>9, <1>10 DEF RecordRuleOutcomesAtomic, Aggregate
<1>13. e.domainEvents \o new \in Seq(DomainEvent) /\ e.version + n \in Nat
  BY <1>8, <1>9, <1>11
<1>14. /\ f \in Aggregate /\ f.ruleOutcomes = o /\ f.version = e.version + n
       /\ f.domainEvents = e.domainEvents \o new
       /\ Same(e, f, {"ruleOutcomes", "version", "domainEvents"})
  BY <1>5, <1>9, <1>12, <1>13 DEF Aggregate, Same, Field
<1>15. f.history = e.history /\ f.checkpoints = e.checkpoints /\ f.createdAt = e.createdAt
       /\ f.state = e.state /\ f.result = e.result /\ f.reasonCodes = e.reasonCodes
       /\ f.startedAt = e.startedAt /\ f.cancellationReason = e.cancellationReason
       /\ f.completedAt = e.completedAt /\ f.cancelledAt = e.cancelledAt
       /\ f.expiredAt = e.expiredAt /\ f.policyBinding = e.policyBinding
       /\ f.requiredRuleIDs = e.requiredRuleIDs /\ f.evidenceBinding = e.evidenceBinding
  BY <1>14 DEF Same, Field
<1>16. Changelog(f.domainEvents, f.version, p)
  BY <1>8, <1>9, <1>11, <1>14, ChangelogExtend DEF Sound
<1>17. Phase(f)
  BY <1>3, <1>15 DEF Sound, Phase
<1>18. OutcomesOK(f)
  BY <1>3, <1>5, <1>14, <1>15 DEF Sound, OutcomesOK
<1>19. Parts(f)
  <2>1. f.version # 0
    BY <1>8, <1>9, <1>14 DEF Sound, Parts
  <2> QED BY <1>15, <2>1 DEF Sound, Parts
<1>20. ASSUME f.version = e.version PROVE Contents(f) = Contents(e)
  <2>1. n = 0
    BY <1>8, <1>9, <1>14, <1>20
  <2>2. \A r \in S : r \in RecordedRules(e) /\ e.ruleOutcomes[r] = b[r]
    BY <1>1, <1>2, <1>8, <2>1 DEF CanRecordRuleOutcomes
  <2>3. o = e.ruleOutcomes
    BY <1>2, <1>4, <1>9, <2>2 DEF Merged, RuleOutcomes
  <2> QED BY <1>9, <1>12, <1>20, <2>1, <2>3 DEF Contents, Aggregate
<1>21. f.version >= e.version
  BY <1>8, <1>9, <1>14
<1> QED
  BY <1>3, <1>14, <1>15, <1>16, <1>17, <1>18, <1>19, <1>20, <1>21 DEF Sound, Step, IsTerminal

-----------------------------------------------------------------------------
\* A checkpoint holds outcomes of this run, and the time it was made at.
LEMMA CheckpointCreatedSound ==
  ASSUME NEW p \in Nat, NEW e, Sound(e, p), NEW f \in CheckpointCreated(e)
  PROVE  Sound(f, p) /\ Step(e, f)
<1>1. PICK name \in CheckpointName, at \in Clock :
        CanCreateCheckpoint(e, name, at) /\ f = CreateCheckpoint(e, name, at)
  BY DEF CheckpointCreated
<1>2. e \in Aggregate /\ e.version \in Nat /\ e.ruleOutcomes \in RuleOutcomes
      /\ e.history \in Seq(Entry)
  BY DEF Sound, Aggregate
<1>3. PICK S \in SUBSET CheckpointName : e.checkpoints \in [S -> Checkpoint]
  BY DEF Sound, Aggregate, Checkpoints
<1>4. PICK cp : cp = [ruleOutcomes |-> e.ruleOutcomes, version |-> e.version, createdAt |-> at]
  OBVIOUS
<1>5. cp \in Checkpoint /\ cp.ruleOutcomes = e.ruleOutcomes /\ cp.createdAt # Zero
  BY <1>1, <1>2, <1>4, ClockTime DEF Checkpoint, CanCreateCheckpoint
<1>6. PICK cps : cps = [n \in S \cup {name} |-> IF n = name THEN cp ELSE e.checkpoints[n]]
  OBVIOUS
<1>7. cps \in Checkpoints /\ DOMAIN cps = S \cup {name} /\ cps[name] = cp
      /\ \A n \in S \cup {name} : n = name \/ (n \in S /\ cps[n] = e.checkpoints[n])
  <2>1. cps \in [S \cup {name} -> Checkpoint]
    BY <1>3, <1>5, <1>6
  <2>2. S \cup {name} \in SUBSET CheckpointName
    OBVIOUS
  <2>3. cps \in Checkpoints
    BY <2>1, <2>2 DEF Checkpoints
  <2> QED BY <1>6, <2>3
<1>8. PICK c : c = [e EXCEPT !.checkpoints = cps]
  OBVIOUS
<1>9. f = Emit(c, "CheckpointCreated")
  BY <1>1, <1>2, <1>3, <1>4, <1>6, <1>8 DEF CreateCheckpoint, Aggregate
<1>10. c \in Aggregate /\ c.checkpoints = cps /\ Same(e, c, {"checkpoints"})
  BY <1>2, <1>7, <1>8 DEF Aggregate, Same, Field
<1>11. c.version = e.version /\ c.domainEvents = e.domainEvents /\ c.history = e.history
       /\ c.ruleOutcomes = e.ruleOutcomes /\ c.createdAt = e.createdAt /\ c.state = e.state
       /\ c.startedAt = e.startedAt /\ c.cancellationReason = e.cancellationReason
       /\ c.completedAt = e.completedAt /\ c.cancelledAt = e.cancelledAt
       /\ c.expiredAt = e.expiredAt /\ c.policyBinding = e.policyBinding
       /\ c.evidenceBinding = e.evidenceBinding
  BY <1>10 DEF Same, Field
<1>12. e.state = "RUNNING"
  BY <1>1 DEF CanCreateCheckpoint
<1>13. Phase(c)
  BY <1>11, <1>12 DEF Sound, Phase
<1>14. OutcomesOK(c)
  BY <1>3, <1>5, <1>7, <1>10, <1>11, <1>12 DEF Sound, OutcomesOK
<1>15. Parts(c)
  BY <1>3, <1>5, <1>7, <1>10, <1>11 DEF Sound, Parts
<1>16. "CheckpointCreated" \in EventType \ {"HistoryRecorded"} /\ ~IsTerminal(e.state)
  BY <1>12 DEF EventType, IsTerminal
<1> QED BY <1>9, <1>10, <1>11, <1>13, <1>14, <1>15, <1>16, Emitted

\* A history entry repeats the version and changes none of the contents.
LEMMA HistoryRecordedSound ==
  ASSUME NEW p \in Nat, NEW e, Sound(e, p), NEW f \in HistoryRecorded(e)
  PROVE  Sound(f, p) /\ Step(e, f)
<1>1. PICK at \in Clock : CanRecordHistory(e, at) /\ f = RecordHistory(e, at)
  BY DEF HistoryRecorded
<1>2. e \in Aggregate /\ e.version \in Nat /\ e.history \in Seq(Entry)
      /\ e.domainEvents \in Seq(DomainEvent)
  BY DEF Sound, Aggregate
<1>3. PICK h : h = HistoryEntry(e, at)
  OBVIOUS
<1>4. h \in Entry /\ ValidHistoryEntry(h)
  <2>1. h \in Entry
    BY <1>2, <1>3, ClockTime DEF HistoryEntry, Entry, Aggregate
  <2>2. ValidHistoryEntry(h)
    BY <1>1, <1>3 DEF CanRecordHistory
  <2> QED BY <2>1, <2>2
<1>5. PICK ev : ev = [type |-> "HistoryRecorded", version |-> e.version]
  OBVIOUS
<1>6. ev \in DomainEvent /\ ev.type = "HistoryRecorded" /\ ev.version = e.version
  BY <1>2, <1>5 DEF DomainEvent, EventType
<1>7. f = [e EXCEPT !.history = Append(e.history, h),
                    !.domainEvents = Append(e.domainEvents, ev)]
  BY <1>1, <1>2, <1>3, <1>5 DEF RecordHistory, Aggregate
<1>8. Append(e.history, h) \in Seq(Entry) /\ Append(e.domainEvents, ev) \in Seq(DomainEvent)
  BY <1>2, <1>4, <1>6
<1>9. /\ f \in Aggregate /\ f.history = Append(e.history, h)
      /\ f.domainEvents = Append(e.domainEvents, ev)
      /\ Same(e, f, {"history", "domainEvents"})
  BY <1>2, <1>7, <1>8 DEF Aggregate, Same, Field
<1>10. f.version = e.version /\ f.checkpoints = e.checkpoints /\ f.createdAt = e.createdAt
       /\ f.cancellationReason = e.cancellationReason /\ f.state = e.state
       /\ f.result = e.result /\ f.reasonCodes = e.reasonCodes
       /\ f.requiredRuleIDs = e.requiredRuleIDs /\ f.ruleOutcomes = e.ruleOutcomes
       /\ f.startedAt = e.startedAt /\ f.completedAt = e.completedAt
       /\ f.cancelledAt = e.cancelledAt /\ f.expiredAt = e.expiredAt
       /\ f.policyBinding = e.policyBinding /\ f.evidenceBinding = e.evidenceBinding
  BY <1>9 DEF Same, Field
<1>11. Changelog(f.domainEvents, f.version, p)
  BY <1>2, <1>6, <1>9, <1>10, ChangelogAppend DEF Sound
<1>12. RequiredRulesComplete(f) = RequiredRulesComplete(e)
       /\ RecordedRules(f) = RecordedRules(e)
  BY <1>10
  DEF RequiredRulesComplete, MissingRequiredRuleIDs, RequiredRules, RecordedRules
<1>13. Phase(f)
  BY <1>10, <1>12 DEF Sound, Phase
<1>14. OutcomesOK(f)
  BY <1>10, <1>12 DEF Sound, OutcomesOK
<1>15. \A i \in 1 .. Len(f.history) : ValidHistoryEntry(f.history[i])
  <2>1. Len(f.history) = Len(e.history) + 1 /\ f.history[Len(e.history) + 1] = h
        /\ \A i \in 1 .. Len(e.history) : f.history[i] = e.history[i]
    BY <1>2, <1>4, <1>9
  <2>2. \A i \in 1 .. Len(f.history) : i \in 1 .. Len(e.history) \/ i = Len(e.history) + 1
    BY <1>2, <2>1
  <2> QED BY <1>4, <2>1, <2>2 DEF Sound, Parts
<1>16. Parts(f)
  BY <1>10, <1>15 DEF Sound, Parts
<1>17. Contents(f) = Contents(e)
  BY <1>2, <1>7 DEF Contents, Aggregate
<1> QED BY <1>2, <1>9, <1>10, <1>11, <1>13, <1>14, <1>16, <1>17 DEF Sound, Step

-----------------------------------------------------------------------------
\* Aggregates with the same contents differ in the history and the events only.
LEMMA ContentsFields ==
  ASSUME NEW e \in Aggregate, NEW f \in Aggregate, Contents(f) = Contents(e)
  PROVE  Same(e, f, {"history", "domainEvents"})
<1>1. PICK c, d : c = Contents(e) /\ d = Contents(f)
  OBVIOUS
<1>2. Same(e, c, {"history", "domainEvents"}) /\ Same(f, d, {"history", "domainEvents"})
  BY <1>1 DEF Aggregate, Same, Field, Contents
<1> QED BY <1>1, <1>2 DEF Same

\* Two methods in a row may do no more than one.
LEMMA StepTransitive ==
  ASSUME NEW e \in Aggregate, NEW f \in Aggregate, NEW g \in Aggregate, Step(e, f), Step(f, g)
  PROVE  Step(e, g)
<1>1. e.version \in Nat /\ f.version \in Nat /\ g.version \in Nat
  BY DEF Aggregate
<1>2. f.version >= e.version /\ g.version >= f.version
  BY DEF Step
<1>3. g.version = e.version => f.version = e.version /\ g.version = f.version
  BY <1>1, <1>2
<1>4. g.version = e.version => Contents(g) = Contents(e)
  BY <1>3 DEF Step
<1>5. ASSUME IsTerminal(e.state) PROVE Contents(g) = Contents(e)
  <2>1. Contents(f) = Contents(e)
    BY <1>5 DEF Step
  <2>2. f.state = e.state
    BY <2>1, ContentsFields DEF Same, Field
  <2> QED BY <1>5, <2>1, <2>2 DEF Step
<1>6. g.version >= e.version
  BY <1>1, <1>2
<1> QED BY <1>4, <1>5, <1>6 DEF Step

\* What restoreMutableState makes of e, which a mutation has turned into f: the
\* version is the one of e and, but for the bindings and the cancellation
\* reason, so is the rest.
Back(e, g) ==
  /\ g.version = e.version
  /\ Contents(e) = Contents([g EXCEPT !.cancellationReason = e.cancellationReason,
                                      !.evidenceBinding = e.evidenceBinding,
                                      !.policyBinding = e.policyBinding])
  /\ IsTerminal(e.state) => Contents(g) = Contents(e)

\* restoreMutableState leaves a sound aggregate, although it leaves what the
\* failed mutation made of the bindings and of the cancellation reason.
LEMMA RestoredSound ==
  ASSUME NEW p \in Nat, NEW e, Sound(e, p), NEW f, Sound(f, p), Step(e, f)
  PROVE  Sound(RestoreMutableState(f, e), p) /\ Back(e, RestoreMutableState(f, e))
<1>1. PICK g : g = RestoreMutableState(f, e)
  OBVIOUS
<1>2. e \in Aggregate /\ f \in Aggregate
  BY DEF Sound
<1>3. /\ g \in Aggregate /\ g.cancellationReason = f.cancellationReason
      /\ g.policyBinding = f.policyBinding /\ g.evidenceBinding = f.evidenceBinding
      /\ Same(e, g, {"cancellationReason", "evidenceBinding", "policyBinding"})
  BY <1>1, <1>2 DEF RestoreMutableState, Aggregate, Same, Field
<1>4. g.version = e.version /\ g.checkpoints = e.checkpoints /\ g.createdAt = e.createdAt
      /\ g.domainEvents = e.domainEvents /\ g.history = e.history /\ g.state = e.state
      /\ g.result = e.result /\ g.reasonCodes = e.reasonCodes
      /\ g.requiredRuleIDs = e.requiredRuleIDs /\ g.ruleOutcomes = e.ruleOutcomes
      /\ g.startedAt = e.startedAt /\ g.completedAt = e.completedAt
      /\ g.cancelledAt = e.cancelledAt /\ g.expiredAt = e.expiredAt
  BY <1>3 DEF Same, Field
<1>5. RequiredRulesComplete(g) = RequiredRulesComplete(e) /\ RecordedRules(g) = RecordedRules(e)
  BY <1>4 DEF RequiredRulesComplete, MissingRequiredRuleIDs, RequiredRules, RecordedRules
<1>6. g.policyBinding # None => g.policyBinding.boundAt >= g.createdAt
  BY <1>3, <1>4 DEF Sound, Phase, Step
<1>7. e.cancellationReason => g.cancellationReason
  BY <1>3 DEF Step
<1>8. Phase(g)
  BY <1>4, <1>5, <1>6, <1>7 DEF Sound, Phase
<1>9. OutcomesOK(g)
  BY <1>4, <1>5 DEF Sound, OutcomesOK
<1>10. Parts(g)
  BY <1>3, <1>4 DEF Sound, Parts
<1>11. Sound(g, p)
  BY <1>3, <1>4, <1>8, <1>9, <1>10 DEF Sound
<1>12. ASSUME IsTerminal(e.state) PROVE Contents(g) = Contents(e)
  <2>1. Same(e, f, {"history", "domainEvents"})
    BY <1>2, <1>12, ContentsFields DEF Step
  <2>2. f.cancellationReason = e.cancellationReason /\ f.policyBinding = e.policyBinding
        /\ f.evidenceBinding = e.evidenceBinding
    BY <2>1 DEF Same, Field
  <2>3. g = e
    BY <1>1, <1>2, <2>2 DEF RestoreMutableState, Aggregate
  <2> QED BY <2>3
<1>13. [g EXCEPT !.cancellationReason = e.cancellationReason,
                 !.evidenceBinding = e.evidenceBinding,
                 !.policyBinding = e.policyBinding] = e
  BY <1>1, <1>2 DEF RestoreMutableState, Aggregate
<1> QED BY <1>1, <1>4, <1>11, <1>12, <1>13 DEF Back

\* Saving: the events are handed over, and the changelog starts again.
LEMMA SnapshotSound ==
  ASSUME NEW p \in Nat, NEW e, Sound(e, p)
  PROVE  Sound(Snapshot(e), e.version) /\ Step(e, Snapshot(e))
<1>1. PICK g : g = Snapshot(e)
  OBVIOUS
<1>2. e \in Aggregate /\ <<>> \in Seq(DomainEvent) /\ e.version \in Nat
  <2>1. e \in Aggregate
    BY DEF Sound
  <2>2. e.version \in Nat
    BY <2>1 DEF Aggregate
  <2> QED BY <2>1, <2>2
<1>3. g \in Aggregate /\ g.domainEvents = <<>> /\ Same(e, g, {"domainEvents"})
  BY <1>1, <1>2 DEF Snapshot, Aggregate, Same, Field
<1>4. g.version = e.version /\ g.checkpoints = e.checkpoints /\ g.createdAt = e.createdAt
      /\ g.history = e.history /\ g.cancellationReason = e.cancellationReason
      /\ g.evidenceBinding = e.evidenceBinding
  BY <1>3 DEF Same, Field
<1>5. Same(e, g, {"version", "domainEvents"})
  BY <1>3 DEF Same
<1>6. Phase(g) /\ OutcomesOK(g)
  BY <1>5, SameLifecycle DEF Sound
<1>7. Changelog(g.domainEvents, g.version, e.version)
  BY <1>3, <1>4 DEF Changelog
<1>8. Parts(g)
  BY <1>4 DEF Sound, Parts
<1>9. Contents(g) = Contents(e)
  BY <1>1, <1>2 DEF Contents, Snapshot, Aggregate
<1> QED BY <1>1, <1>2, <1>3, <1>4, <1>6, <1>7, <1>8, <1>9 DEF Sound, Step

-----------------------------------------------------------------------------
\* NewEvaluation is sound.
LEMMA NewSound ==
  ASSUME NEW at \in Clock \ {Zero}
  PROVE  Sound(NewEvaluation(at), 0)
<1>1. PICK e : e = NewEvaluation(at)
  OBVIOUS
<1>2. PICK ev : ev = [type |-> "Created", version |-> 1]
  OBVIOUS
<1>3. ev \in DomainEvent /\ ev.type = "Created" /\ ev.version = 1
  BY <1>2 DEF DomainEvent, EventType
<1>4. <<ev>> \in Seq(DomainEvent) /\ Len(<<ev>>) = 1 /\ <<ev>>[1] = ev
  BY <1>3
<1>5. [n \in {} |-> None] \in Checkpoints
  <2>1. [n \in {} |-> None] \in [{} -> Checkpoint]
    OBVIOUS
  <2> QED BY <2>1 DEF Checkpoints
<1>6. [r \in Rule |-> None] \in RuleOutcomes
  BY DEF RuleOutcomes
<1>7. <<>> \in Seq(Rule) /\ <<>> \in Seq(Entry) /\ at \in Time /\ 0 \in Time
  BY ClockTime DEF Time
<1>8. e \in Aggregate
  BY <1>1, <1>2, <1>4, <1>5, <1>6, <1>7
  DEF NewEvaluation, Aggregate, State, Result, Zero
<1>9. e.version = 1 /\ e.domainEvents = <<ev>> /\ e.state = "CREATED" /\ e.createdAt = at
      /\ e.startedAt = Zero /\ e.completedAt = Zero /\ e.cancelledAt = Zero
      /\ e.expiredAt = Zero /\ e.policyBinding = None /\ e.history = <<>>
      /\ e.ruleOutcomes = [r \in Rule |-> None] /\ e.checkpoints = [n \in {} |-> None]
      /\ e.evidenceBinding = None
  BY <1>1, <1>2 DEF NewEvaluation
<1>10. Changelog(e.domainEvents, e.version, 0)
  <2>1. Changelog(<<ev>>, 1, 0)
    BY <1>3, <1>4 DEF Changelog
  <2> QED BY <1>9, <2>1
<1>11. Phase(e)
  BY <1>9 DEF Phase
<1>12. OutcomesOK(e)
  BY <1>9 DEF OutcomesOK, Recorded, RecordedRules
<1>13. Parts(e)
  BY <1>9 DEF Parts
<1> QED BY <1>1, <1>8, <1>10, <1>11, <1>12, <1>13 DEF Sound

\* The invariant holds initially.
LEMMA InitSInv ==
  Init => SInv
BY NewSound DEF Init, SInv

\* A call on the aggregate, by the caller or within an atomic mutation.
LEMMA CallSound ==
  ASSUME SInv, NEW T, Call(T),
         \A f \in T : Sound(f, published) /\ Step(agg, f)
  PROVE  SInv' /\ Step(Outer, Outer')
<1>1. /\ Sound(agg', published) /\ Step(agg, agg')
      /\ published' = published /\ before' = before
  BY DEF Call
<1>2. before # None => Sound(before, published) /\ Step(before, agg)
  BY DEF SInv
<1>3. ASSUME before # None PROVE Step(before, agg')
  <2>1. before \in Aggregate /\ agg \in Aggregate /\ agg' \in Aggregate
    BY <1>1, <1>2, <1>3 DEF SInv, Sound
  <2> QED BY <1>1, <1>2, <1>3, <2>1, StepTransitive
<1>4. SInv'
  BY <1>1, <1>2, <1>3 DEF SInv
<1>5. Step(Outer, Outer')
  <2>1. CASE before = None
    BY <1>1, <2>1 DEF Outer
  <2>2. CASE before # None
    BY <1>1, <1>2, <2>2, NothingChanges DEF Outer
  <2> QED BY <2>1, <2>2
<1> QED BY <1>4, <1>5

\* One step: what it leaves is sound again, and it shows the caller what one
\* method may do or, where an atomic mutation fails, nothing but the leftovers.
LEMMA NextSound ==
  ASSUME SInv, Next
  PROVE  /\ SInv'
         /\ IF ApplyAtomicMutationFails THEN Back(Outer, Outer') ELSE Step(Outer, Outer')
<1>1. published \in Nat /\ Sound(agg, published)
      /\ (before # None => Sound(before, published) /\ Step(before, agg))
  BY DEF SInv
<1>2. ApplyAtomicMutationFails => before' # before
  BY DEF ApplyAtomicMutationFails
<1>3. ASSUME NEW T, Call(T), \A f \in T : Sound(f, published) /\ Step(agg, f)
      PROVE  /\ SInv'
             /\ IF ApplyAtomicMutationFails THEN Back(Outer, Outer') ELSE Step(Outer, Outer')
  <2>1. before' = before
    BY <1>3 DEF Call
  <2> QED BY <1>2, <1>3, <2>1, CallSound
<1>4. CASE DoStart \/ DoComplete \/ DoCancel \/ DoExpire
  BY <1>1, <1>3, <1>4, StartedSound, CompletedSound, CancelledSound, ExpiredSound
  DEF DoStart, DoComplete, DoCancel, DoExpire
<1>5. CASE DoBindEvidence \/ DoBindPolicy \/ DoRegisterRule
  BY <1>1, <1>3, <1>5, EvidenceBoundSound, PolicyBoundSound, RuleRegisteredSound
  DEF DoBindEvidence, DoBindPolicy, DoRegisterRule
<1>6. CASE DoRecordOutcome \/ DoRecordOutcomes \/ DoRecordBatch
  BY <1>1, <1>3, <1>6, OutcomeRecordedSound, OutcomesRecordedSound, BatchRecordedSound
  DEF DoRecordOutcome, DoRecordOutcomes, DoRecordBatch
<1>7. CASE DoReplace \/ DoReplaceBatch
  BY <1>1, <1>3, <1>7, ReplacedSound DEF DoReplace, DoReplaceBatch
<1>8. CASE DoRemove \/ DoRemoveBatch \/ DoReset
  BY <1>1, <1>3, <1>8, RemovedSound DEF DoRemove, DoRemoveBatch, DoReset
<1>9. CASE DoCheckpoint \/ DoRollback \/ DoRecordHistory
  BY <1>1, <1>3, <1>9, CheckpointCreatedSound, RolledBackSound, HistoryRecordedSound
  DEF DoCheckpoint, DoRollback, DoRecordHistory
<1>10. CASE ApplyAtomicMutation
  <2>1. before = None /\ before' = agg /\ agg' = agg /\ published' = published
    BY <1>10 DEF ApplyAtomicMutation
  <2>2. Step(agg, agg)
    BY <1>1, NothingChanges
  <2>3. SInv'
    BY <1>1, <2>1, <2>2 DEF SInv
  <2>4. Outer = agg /\ Outer' = agg /\ ~ApplyAtomicMutationFails
    BY <2>1 DEF Outer, ApplyAtomicMutationFails
  <2> QED BY <2>2, <2>3, <2>4
<1>11. CASE ApplyAtomicMutationFails
  <2>1. before # None /\ agg' = RestoreMutableState(agg, before) /\ before' = None
        /\ published' = published
    BY <1>11 DEF ApplyAtomicMutationFails
  <2>2. Sound(agg', published) /\ Back(before, agg')
    BY <1>1, <2>1, RestoredSound
  <2> QED BY <1>1, <1>11, <2>1, <2>2 DEF SInv, Outer
<1>12. CASE ApplyAtomicMutationSucceeds /\ ~ApplyAtomicMutationFails
  <2>1. before # None /\ agg' \in HistoryRecorded(agg) /\ before' = None
        /\ published' = published
    BY <1>12 DEF ApplyAtomicMutationSucceeds
  <2>2. Sound(agg', published) /\ Step(agg, agg')
    BY <1>1, <2>1, HistoryRecordedSound
  <2>3. Step(before, agg')
    BY <1>1, <2>1, <2>2, StepTransitive DEF Sound
  <2> QED BY <1>1, <1>12, <2>1, <2>2, <2>3 DEF SInv, Outer
<1>13. CASE Persist
  <2>1. agg' = Snapshot(agg) /\ published' = agg.version /\ before = None /\ before' = None
    BY <1>13 DEF Persist
  <2>2. Sound(Snapshot(agg), agg.version) /\ Step(agg, Snapshot(agg)) /\ agg.version \in Nat
    BY <1>1, SnapshotSound DEF Sound, Aggregate
  <2>3. ~ApplyAtomicMutationFails
    BY <2>1 DEF ApplyAtomicMutationFails
  <2> QED BY <2>1, <2>2, <2>3 DEF SInv, Outer
<1> QED
  BY <1>4, <1>5, <1>6, <1>7, <1>8, <1>9, <1>10, <1>11, <1>12, <1>13 DEF Next

\* The invariant of the aggregate and of what is stored of it always holds.
LEMMA SInvHolds ==
  Spec => []SInv
<1>1. SInv /\ [Next]_vars => SInv'
  BY NextSound DEF SInv, vars
<1> QED BY <1>1, InitSInv, PTL DEF Spec

-----------------------------------------------------------------------------
\* The pending events of an aggregate are the changelog of its unsaved versions,
\* whichever methods of src/evaluation were called, in whatever order and with
\* whatever arguments, and however often ApplyAtomicMutation failed.
THEOREM AggregateKeepsChangelog ==
  Spec => []EventsFollowVersions
<1>1. SInv => EventsFollowVersions
  BY DEF SInv, Sound, Changelog, EventsFollowVersions
<1> QED BY <1>1, SInvHolds, PTL

\* A version number identifies the contents of the aggregate for its caller: it
\* never goes back, and under the same version the contents are the same, but for
\* the bindings and the cancellation reason when ApplyAtomicMutation has failed,
\* whatever its function did and however often it is called.
THEOREM VersionsIdentify ==
  Spec => VersionIdentifiesContents
<1>1. SInv /\ [Next]_vars =>
        [/\ Outer'.version >= Outer.version
         /\ Outer'.version = Outer.version =>
              Contents(Outer) =
                IF ApplyAtomicMutationFails
                THEN Contents([Outer' EXCEPT !.cancellationReason = Outer.cancellationReason,
                                             !.evidenceBinding = Outer.evidenceBinding,
                                             !.policyBinding = Outer.policyBinding])
                ELSE Contents(Outer')]_vars
  <2>1. SUFFICES ASSUME SInv, Next
                 PROVE  /\ Outer'.version >= Outer.version
                        /\ Outer'.version = Outer.version =>
                             Contents(Outer) =
                               IF ApplyAtomicMutationFails
                               THEN Contents([Outer' EXCEPT
                                      !.cancellationReason = Outer.cancellationReason,
                                      !.evidenceBinding = Outer.evidenceBinding,
                                      !.policyBinding = Outer.policyBinding])
                               ELSE Contents(Outer')
    OBVIOUS
  <2>2. CASE ApplyAtomicMutationFails
    <3>1. Back(Outer, Outer')
      BY <2>1, <2>2, NextSound
    <3>2. Outer.version \in Nat
      BY <2>1 DEF SInv, Sound, Aggregate, Outer
    <3> QED BY <2>2, <3>1, <3>2 DEF Back
  <2>3. CASE ~ApplyAtomicMutationFails
    <3>1. Step(Outer, Outer')
      BY <2>1, <2>3, NextSound
    <3> QED BY <2>3, <3>1 DEF Step
  <2> QED BY <2>2, <2>3
<1> QED BY <1>1, SInvHolds, PTL DEF Spec, VersionIdentifiesContents

\* RehydrateEvaluation accepts the snapshot of every aggregate that the methods
\* of src/evaluation can produce.
THEOREM SnapshotsRehydrate ==
  Spec => []SnapshotRehydrates
<1>1. SInv => SnapshotRehydrates
  <2> SUFFICES ASSUME SInv PROVE ValidSnapshot(Snapshot(agg))
    BY DEF SnapshotRehydrates
  <2>1. PICK s, v : s = Snapshot(agg) /\ v = agg.version
    OBVIOUS
  <2>2. Sound(s, v) /\ v \in Nat
    <3>1. Sound(Snapshot(agg), agg.version)
      BY SnapshotSound DEF SInv
    <3> QED BY <2>1, <3>1 DEF SInv, Sound, Aggregate
  <2>3. s.state \in State /\ s.result \in Result /\ Parts(s)
    BY <2>2 DEF Sound, Aggregate
  <2>5. \A r \in RecordedRules(s) :
          s.ruleOutcomes[r].status \in Status /\ s.ruleOutcomes[r].evaluatedAt # Zero
    <3>1. s.ruleOutcomes \in RuleOutcomes /\ Recorded(s.ruleOutcomes, s.startedAt)
      BY <2>2 DEF Sound, Aggregate, OutcomesOK
    <3> QED BY <3>1 DEF Recorded, RecordedRules, RuleOutcomes, RuleOutcome
  <2>6. Phase(s)
    BY <2>2 DEF Sound
  <2>7. s.state = "CREATED" \/ s.state = "RUNNING" \/ s.state = "COMPLETED"
        \/ s.state = "CANCELLED" \/ s.state = "EXPIRED"
    BY <2>3 DEF State
  <2>8. ValidSnapshot(s)
    BY <2>3, <2>5, <2>6, <2>7 DEF ValidSnapshot, Phase, Parts
  <2> QED BY <2>1, <2>8
<1> QED BY <1>1, SInvHolds, PTL

\* CompleteAt decides only with an outcome for every required rule, all of them
\* of the run that Start began, and nothing that the methods do afterwards or
\* did before, rollbacks included, makes that untrue.
THEOREM DecisionsStand ==
  Spec => []DecisionStandsOnOutcomes
<1>1. SInv => DecisionStandsOnOutcomes
  BY DEF SInv, Sound, Phase, OutcomesOK, Recorded, RecordedRules, DecisionStandsOnOutcomes
<1> QED BY <1>1, SInvHolds, PTL

\* After COMPLETED, CANCELLED or EXPIRED no method changes anything but the
\* history and the pending events, not even an atomic mutation that fails.
THEOREM TerminalStays ==
  Spec => TerminalIsFinal
<1>1. SInv /\ [Next]_vars =>
        [IsTerminal(Outer.state) => Contents(Outer') = Contents(Outer)]_vars
  <2>1. SUFFICES ASSUME SInv, Next, IsTerminal(Outer.state)
                 PROVE  Contents(Outer') = Contents(Outer)
    OBVIOUS
  <2>2. Back(Outer, Outer') \/ Step(Outer, Outer')
    BY <2>1, NextSound
  <2> QED BY <2>1, <2>2 DEF Back, Step
<1> QED BY <1>1, SInvHolds, PTL DEF Spec, TerminalIsFinal

=============================================================================
