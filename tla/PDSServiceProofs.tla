--------------------------- MODULE PDSServiceProofs ---------------------------
(***************************************************************************)
(* PDSService implements SerialEvaluations, for every set of evaluations   *)
(* and any number of overlapping requests.                                 *)
(***************************************************************************)
EXTENDS PDSService, PDSOperationsProofs

\* b is what one of the operations makes of the stored aggregate a, at some
\* time up to now and with evidence ingested by now.
Outcome(a, b, now, seen) ==
  \/ \E t \in 1 .. now : CanStart(a, t) /\ b = Start(a, t)
  \/ \E r \in Rule, s \in CallerStatus, t \in (1 .. now) \cup CallerTime :
       LET o == [status |-> s, evaluatedAt |-> t] IN
       CanRecordRuleOutcome(a, r, o) /\ b = RecordRuleOutcome(a, r, o)
  \/ \E p \in Qualifiable, S \in SUBSET seen, t \in 1 .. now :
       /\ CanBindEvidenceSet(a, Qualification(p, S, t))
       /\ b = BindEvidenceSet(a, Qualification(p, S, t))
  \/ \E p \in Policy, t \in (1 .. now) \cup CallerTime :
       LET x == [policy |-> p, boundAt |-> t] IN
       CanBindVerificationPolicy(a, x) /\ b = BindVerificationPolicy(a, x)
  \/ \E t \in 1 .. now : CanExecute(a, t) /\ b = Execute(a, t)
  \/ \E t \in 1 .. now : CanComplete(a, t) /\ b = Complete(a, t)
  \/ \E t \in 1 .. now : CanExpireTimedOut(a, t) /\ b = Expire(a, t)

\* b is a new evaluation.
Newborn(b, now) ==
  \E p \in Policy, t \in 1 .. now :
    b = Created(Plan[p], t) \/ b = CreatedForPolicy(p, t)

-----------------------------------------------------------------------------
(***************************************************************************)
(* The inductive invariant.  A request that waits to save holds what an    *)
(* operation makes of the aggregate it loaded, and that aggregate is still *)
(* the stored one if the version is.                                       *)
(***************************************************************************)
Calls == [op : {"Create", "Start", "RecordOutcome", "BindPolicy", "Execute",
                "Complete", "Expire", "Qualify", "BindEvidence"},
          eval : Eval]

RequestOK(w) ==
  /\ pc[w] # "idle" => call[w] \in Calls
  /\ pc[w] = "bind" =>
       \E p \in Qualifiable, S \in SUBSET evidence, t \in 1 .. clock :
         qualified[w] = Qualification(p, S, t)
  /\ pc[w] = "save" =>
       /\ local[w] \in Aggregate
       /\ expected[w] = 0 => Newborn(local[w], clock)
       /\ expected[w] # 0 =>
            /\ db[call[w].eval] # None
            /\ expected[w] <= db[call[w].eval].version
            /\ expected[w] = db[call[w].eval].version =>
                 Outcome(db[call[w].eval], local[w], clock, evidence)

StoreOK ==
  /\ clock \in 1 .. MaxTime
  /\ evidence \subseteq EvidenceObject
  /\ db \in [Eval -> Aggregate \cup {None}]
  /\ outbox \in [Eval -> Seq(DomainEvent)]
  /\ \A e \in Eval : db[e] # None => Good(db[e])

RequestsTyped ==
  /\ backend \in {"memory", "postgres"}
  /\ pc \in [Worker -> {"idle", "qualify", "bind", "save", "reread"}]
  /\ call \in [Worker -> Calls \cup {None}]
  /\ local \in [Worker -> Aggregate \cup {None}]
  /\ expected \in [Worker -> Nat]
  /\ qualified \in [Worker -> EvidenceSetBinding \cup Policy \cup {None}]

IInv == StoreOK /\ RequestsTyped /\ \A w \in Worker : RequestOK(w)

-----------------------------------------------------------------------------
\* An operation advances what it is applied to, whichever it is.
LEMMA OutcomeAdvances ==
  ASSUME NEW a, Good(a), NEW b, NEW now \in Nat, NEW seen \in SUBSET EvidenceObject,
         Outcome(a, b, now, seen)
  PROVE  Advances(a, b)
<1>1. \A t \in 1 .. now : t \in Time
  BY DEF Time
<1>2. \A t \in (1 .. now) \cup CallerTime : t \in Time
  BY <1>1, CallerAssumption
<1>3. CASE \E t \in 1 .. now : CanStart(a, t) /\ b = Start(a, t)
  BY <1>1, <1>3, StartAdvances
<1>4. CASE \E r \in Rule, s \in CallerStatus, t \in (1 .. now) \cup CallerTime :
             LET o == [status |-> s, evaluatedAt |-> t] IN
             CanRecordRuleOutcome(a, r, o) /\ b = RecordRuleOutcome(a, r, o)
  <2>1. \A s \in CallerStatus, t \in (1 .. now) \cup CallerTime :
          [status |-> s, evaluatedAt |-> t] \in RuleOutcome
    BY <1>2, CallerAssumption DEF RuleOutcome
  <2> QED BY <1>4, <2>1, RecordOutcomeAdvances
<1>5. CASE \E p \in Qualifiable, S \in SUBSET seen, t \in 1 .. now :
             /\ CanBindEvidenceSet(a, Qualification(p, S, t))
             /\ b = BindEvidenceSet(a, Qualification(p, S, t))
  <2>1. \A p \in Qualifiable, S \in SUBSET seen, t \in 1 .. now :
          Qualification(p, S, t) \in EvidenceSetBinding
    BY <1>1 DEF Qualification, EvidenceSetBinding, QualificationStatus
  <2> QED BY <1>5, <2>1, BindEvidenceAdvances
<1>6. CASE \E p \in Policy, t \in (1 .. now) \cup CallerTime :
             LET x == [policy |-> p, boundAt |-> t] IN
             CanBindVerificationPolicy(a, x) /\ b = BindVerificationPolicy(a, x)
  <2>1. \A p \in Policy, t \in (1 .. now) \cup CallerTime :
          [policy |-> p, boundAt |-> t] \in PolicyBinding
    BY <1>2 DEF PolicyBinding
  <2> QED BY <1>6, <2>1, BindPolicyAdvances
<1>7. CASE \E t \in 1 .. now : CanExecute(a, t) /\ b = Execute(a, t)
  BY <1>1, <1>7, ExecuteAdvances
<1>8. CASE \E t \in 1 .. now : CanComplete(a, t) /\ b = Complete(a, t)
  BY <1>1, <1>8, CompleteAdvances
<1>9. CASE \E t \in 1 .. now : CanExpireTimedOut(a, t) /\ b = Expire(a, t)
  BY <1>1, <1>9, ExpireAdvances
<1> QED BY <1>3, <1>4, <1>5, <1>6, <1>7, <1>8, <1>9 DEF Outcome

\* A new evaluation is fit to be stored.
LEMMA NewbornFresh ==
  ASSUME NEW b, NEW now \in Nat, Newborn(b, now)
  PROVE  Fresh(b)
BY PlanAssumption, CreatedFresh, CreatedForPolicyFresh DEF Newborn, Time

\* Later, with more evidence, an operation's result is one still.
LEMMA OutcomeLater ==
  ASSUME NEW a, NEW b, NEW now \in Nat, NEW later \in Nat, now <= later,
         NEW seen, NEW more, seen \subseteq more, Outcome(a, b, now, seen)
  PROVE  Outcome(a, b, later, more)
<1>1. 1 .. now \subseteq 1 .. later /\ SUBSET seen \subseteq SUBSET more
  OBVIOUS
<1> QED BY <1>1 DEF Outcome

\* What happens to the store while a request waits: the clock and the evidence
\* grow, and a stored aggregate stays or gets a higher version.
StoreGrows ==
  /\ clock' \in Nat /\ clock <= clock'
  /\ evidence \subseteq evidence'
  /\ \A e \in Eval : db[e] # None =>
       /\ db'[e] # None
       /\ db'[e] = db[e] \/ (db'[e].version \in Nat /\ db'[e].version > db[e].version)

\* A step that touches only the request of w keeps what the invariant says of
\* the requests of the other workers.
LEMMA OthersStayOK ==
  ASSUME IInv, StoreGrows, NEW w \in Worker, pc'[w] = pc[w], call'[w] = call[w],
         local'[w] = local[w], expected'[w] = expected[w], qualified'[w] = qualified[w]
  PROVE  RequestOK(w)'
<1>1. clock \in Nat /\ clock' \in Nat /\ clock <= clock' /\ evidence \subseteq evidence'
      /\ 1 .. clock \subseteq 1 .. clock' /\ expected[w] \in Nat /\ RequestOK(w)
  BY DEF IInv, StoreOK, RequestsTyped, StoreGrows
<1>2. pc[w] = "bind" =>
        \E p \in Qualifiable, S \in SUBSET evidence', t \in 1 .. clock' :
          qualified[w] = Qualification(p, S, t)
  BY <1>1 DEF RequestOK
<1>3. ASSUME pc[w] = "save"
      PROVE  /\ expected[w] = 0 => Newborn(local[w], clock')
             /\ expected[w] # 0 =>
                  /\ db'[call[w].eval] # None
                  /\ expected[w] <= db'[call[w].eval].version
                  /\ expected[w] = db'[call[w].eval].version =>
                       Outcome(db'[call[w].eval], local[w], clock', evidence')
  <2> DEFINE e == call[w].eval
  <2>1. e \in Eval
    BY <1>1, <1>3 DEF RequestOK, Calls
  <2>2. expected[w] = 0 => Newborn(local[w], clock')
    BY <1>1, <1>3 DEF RequestOK, Newborn
  <2>3. ASSUME expected[w] # 0
        PROVE  /\ db'[e] # None /\ expected[w] <= db'[e].version
               /\ expected[w] = db'[e].version =>
                    Outcome(db'[e], local[w], clock', evidence')
    <3>1. /\ db[e] # None /\ expected[w] <= db[e].version
          /\ expected[w] = db[e].version => Outcome(db[e], local[w], clock, evidence)
      BY <1>1, <1>3, <2>3 DEF RequestOK
    <3>2. db[e].version \in Nat
      BY <2>1, <3>1 DEF IInv, StoreOK, Good, Aggregate
    <3>3. CASE db'[e] = db[e]
      BY <1>1, <3>1, <3>3, OutcomeLater
    <3>4. CASE db'[e].version \in Nat /\ db'[e].version > db[e].version
      BY <1>1, <2>1, <3>1, <3>2, <3>4 DEF StoreGrows
    <3> QED BY <2>1, <3>1, <3>3, <3>4 DEF StoreGrows
  <2> QED BY <2>2, <2>3
<1> QED BY <1>1, <1>2, <1>3 DEF RequestOK

-----------------------------------------------------------------------------
(***************************************************************************)
(* The steps requests are made of keep the invariant.                      *)
(***************************************************************************)
OthersUnchanged(w) ==
  \A v \in Worker \ {w} :
    /\ pc'[v] = pc[v] /\ call'[v] = call[v] /\ local'[v] = local[v]
    /\ expected'[v] = expected[v] /\ qualified'[v] = qualified[v]

\* A step of request w that leaves the store alone.
LEMMA RequestStep ==
  ASSUME IInv, NEW w \in Worker, UNCHANGED store, RequestsTyped', RequestOK(w)',
         OthersUnchanged(w)
  PROVE  IInv'
<1>1. StoreGrows
  BY DEF IInv, StoreOK, StoreGrows, store
<1>2. \A v \in Worker : RequestOK(v)'
  BY <1>1, OthersStayOK DEF OthersUnchanged
<1>3. StoreOK'
  BY DEF IInv, StoreOK, store
<1> QED BY <1>2, <1>3 DEF IInv

\* Answering ends a request.
LEMMA AnswerEnds ==
  ASSUME IInv, NEW w \in Worker, NEW e, NEW s, Answer(w, e, s)
  PROVE  RequestsTyped' /\ RequestOK(w)' /\ OthersUnchanged(w)
<1>1. RequestsTyped' /\ pc'[w] = "idle" /\ OthersUnchanged(w)
  BY DEF IInv, RequestsTyped, Answer, OthersUnchanged
<1> QED BY <1>1 DEF RequestOK

\* Answering a request, with a value or an error, keeps the invariant.
LEMMA AnswerKeeps ==
  ASSUME IInv, NEW w \in Worker, NEW e, NEW s, Answer(w, e, s), UNCHANGED store
  PROVE  IInv'
BY AnswerEnds, RequestStep

\* A request that has changed its copy and is about to save it keeps the
\* invariant, if the change is one of the operations.
LEMMA PrepareKeeps ==
  ASSUME IInv, NEW w \in Worker, NEW c \in Calls, NEW b \in Aggregate, NEW v \in Nat,
         Prepare(w, c, b, v), UNCHANGED store,
         v = 0 => Newborn(b, clock),
         v # 0 => /\ db[c.eval] # None /\ v = db[c.eval].version
                  /\ Outcome(db[c.eval], b, clock, evidence)
  PROVE  IInv'
<1>1. RequestsTyped' /\ OthersUnchanged(w)
  BY DEF IInv, RequestsTyped, Prepare, OthersUnchanged
<1>2. pc'[w] = "save" /\ call'[w] = c /\ local'[w] = b /\ expected'[w] = v
  BY DEF IInv, RequestsTyped, Prepare
<1>3. clock' = clock /\ evidence' = evidence /\ db' = db
  BY DEF store
<1>4. RequestOK(w)'
  BY <1>2, <1>3 DEF RequestOK
<1> QED BY <1>1, <1>4, RequestStep

\* A request that moves on to its next step without a copy keeps the
\* invariant.
LEMMA GotoKeeps ==
  ASSUME IInv, NEW w \in Worker, NEW c \in Calls, NEW label \in {"qualify", "bind", "reread"},
         NEW q \in EvidenceSetBinding \cup Policy \cup {None}, Goto(w, c, label, q), UNCHANGED store,
         label = "bind" =>
           \E p \in Qualifiable, S \in SUBSET evidence, t \in 1 .. clock :
             q = Qualification(p, S, t)
  PROVE  IInv'
<1>1. RequestsTyped' /\ OthersUnchanged(w)
  BY DEF IInv, RequestsTyped, Goto, OthersUnchanged
<1>2. pc'[w] = label /\ call'[w] = c /\ qualified'[w] = q
  BY DEF IInv, RequestsTyped, Goto
<1>3. clock' = clock /\ evidence' = evidence
  BY DEF store
<1>4. RequestOK(w)'
  BY <1>2, <1>3 DEF RequestOK
<1> QED BY <1>1, <1>4, RequestStep

\* The common frame of the operations on a stored evaluation.
LEMMA RequestKeeps ==
  ASSUME IInv, NEW w \in Worker, NEW e \in Eval, NEW o, Call(o, e) \in Calls,
         NEW done, NEW can, NEW changed, Request(w, o, e, done, can, changed),
         can => Outcome(db[e], changed, clock, evidence)
  PROVE  IInv'
<1>1. db[e] # None /\ UNCHANGED store
  BY DEF Request, Readable
<1>2. Good(db[e]) /\ db[e].version \in Nat \ {0}
  BY <1>1 DEF IInv, StoreOK, Good, Aggregate
<1>3. ASSUME can, Prepare(w, Call(o, e), changed, db[e].version)
      PROVE  IInv'
  <2>1. Outcome(db[e], changed, clock, evidence) /\ clock \in Nat
        /\ evidence \in SUBSET EvidenceObject
    BY <1>3 DEF IInv, StoreOK
  <2>2. changed \in Aggregate
    BY <1>2, <2>1, OutcomeAdvances DEF Advances
  <2>3. Call(o, e).eval = e
    BY DEF Call
  <2> DEFINE c == Call(o, e)
             v == db[e].version
  <2>4. c \in Calls /\ v \in Nat /\ v # 0 /\ Prepare(w, c, changed, v)
        /\ db[c.eval] # None /\ v = db[c.eval].version
        /\ Outcome(db[c.eval], changed, clock, evidence)
    BY <1>1, <1>2, <1>3, <2>1, <2>3
  <2> HIDE DEF c, v
  <2> QED BY <1>1, <2>2, <2>4, PrepareKeeps
<1>4. ASSUME NEW s, Answer(w, e, s) PROVE IInv'
  BY <1>1, <1>4, AnswerKeeps
<1> QED BY <1>3, <1>4 DEF Request

\* The version check of a commit: what is stored is what an operation makes of
\* the aggregate stored until now.
LEMMA CommitSerial ==
  ASSUME IInv, NEW w \in Worker, pc[w] = "save", Commit(w)
  PROVE  LET e == call[w].eval
             b == local[w]
         IN /\ e \in Eval /\ b \in Aggregate
            /\ \/ db[e] = None /\ Newborn(b, clock)
               \/ db[e] # None /\ Outcome(db[e], b, clock, evidence)
<1> DEFINE e == call[w].eval
           b == local[w]
<1>1. call[w] \in Calls /\ b \in Aggregate /\ RequestOK(w) /\ VersionMatches(w)
  BY DEF IInv, RequestOK, Commit
<1>2. e \in Eval
  BY <1>1 DEF Calls
<1>3. CASE expected[w] = 0
  BY <1>1, <1>2, <1>3 DEF RequestOK, VersionMatches
<1>4. CASE expected[w] # 0
  BY <1>1, <1>2, <1>4 DEF RequestOK, VersionMatches
<1> QED BY <1>1, <1>2, <1>3, <1>4

\* A commit leaves a good store behind, and a version that others can rely on.
LEMMA CommitKeeps ==
  ASSUME IInv, NEW w \in Worker, pc[w] = "save", Commit(w),
         NEW s, Answer(w, call[w].eval, s)
  PROVE  IInv'
<1> DEFINE e == call[w].eval
           b == local[w]
<1>1. /\ e \in Eval /\ b \in Aggregate
      /\ \/ db[e] = None /\ Newborn(b, clock)
         \/ db[e] # None /\ Outcome(db[e], b, clock, evidence)
  BY CommitSerial
<1>2. /\ db' = [db EXCEPT ![e] = Snapshot(b)]
      /\ outbox' = [outbox EXCEPT ![e] = outbox[e] \o b.domainEvents]
      /\ clock' = clock /\ evidence' = evidence
  BY DEF Commit
<1>3. /\ clock \in Nat /\ evidence \in SUBSET EvidenceObject
      /\ db \in [Eval -> Aggregate \cup {None}] /\ outbox \in [Eval -> Seq(DomainEvent)]
  BY DEF IInv, StoreOK
<1>4. /\ Good(Snapshot(b))
      /\ db[e] # None =>
           Snapshot(b) = db[e] \/ Snapshot(b).version > db[e].version
  <2>1. CASE db[e] = None /\ Newborn(b, clock)
    BY <1>3, <2>1, NewbornFresh DEF Fresh
  <2>2. CASE db[e] # None /\ Outcome(db[e], b, clock, evidence)
    <3>1. Good(db[e])
      BY <1>1, <2>2 DEF IInv, StoreOK
    <3>2. Advances(db[e], b)
      BY <1>3, <2>2, <3>1, OutcomeAdvances
    <3>3. db[e].version \in Nat /\ Snapshot(b).version \in Nat
      BY <3>1, <3>2 DEF Advances, Good, Aggregate
    <3> QED BY <3>2, <3>3 DEF Advances, Kept
  <2> QED BY <1>1, <2>1, <2>2
<1>5. Snapshot(b) \in Aggregate /\ Snapshot(b) # None /\ Snapshot(b).version \in Nat
  BY <1>4, NoneAssumption DEF Good, Aggregate
<1> HIDE DEF e, b
<1>6. db'[e] = Snapshot(b) /\ \A f \in Eval \ {e} : db'[f] = db[f]
  BY <1>1, <1>2, <1>3
<1>7. StoreGrows
  BY <1>2, <1>3, <1>4, <1>5, <1>6 DEF StoreGrows
<1>8. outbox' \in [Eval -> Seq(DomainEvent)]
  <2>1. outbox[e] \o b.domainEvents \in Seq(DomainEvent)
    BY <1>1, <1>3, ConcatProperties DEF Aggregate
  <2> QED BY <1>2, <1>3, <2>1
<1>9. StoreOK'
  BY <1>2, <1>3, <1>4, <1>5, <1>6, <1>8 DEF IInv, StoreOK
<1>10. RequestsTyped' /\ RequestOK(w)' /\ OthersUnchanged(w)
  BY AnswerEnds
<1>11. \A v \in Worker : RequestOK(v)'
  BY <1>7, <1>10, OthersStayOK DEF OthersUnchanged
<1> QED BY <1>9, <1>10, <1>11 DEF IInv

-----------------------------------------------------------------------------
(***************************************************************************)
(* Serial!X and X are the same for the operations.                         *)
(***************************************************************************)
\* The instance of the serial specification means the same by Start.
LEMMA SameStart ==
  /\ \A a, t : Serial!CanStart(a, t) = CanStart(a, t)
  /\ \A a, t : Serial!Start(a, t) = Start(a, t)
BY DEF Serial!CanStart, CanStart, Serial!CanTransitionTo, CanTransitionTo,
   Serial!Zero, Zero, Serial!Start, Start, Serial!Emit, Emit

\* ... by RecordRuleOutcome.
LEMMA SameRecord ==
  /\ \A a, r, o : Serial!CanRecordRuleOutcome(a, r, o) = CanRecordRuleOutcome(a, r, o)
  /\ \A a, r, o : Serial!RecordRuleOutcome(a, r, o) = RecordRuleOutcome(a, r, o)
BY DEF Serial!CanRecordRuleOutcome, CanRecordRuleOutcome,
   Serial!CanRecordRuleOutcomes, CanRecordRuleOutcomes, Serial!Zero, Zero,
   Serial!InPlan, InPlan, Serial!IsRuleRequired, IsRuleRequired,
   Serial!RequiredRules, RequiredRules, Serial!RecordedRules, RecordedRules,
   Serial!RecordRuleOutcome, RecordRuleOutcome, Serial!Merged, Merged,
   Serial!Emit, Emit

\* ... by the qualification and binding of evidence.
LEMMA SameBindEvidence ==
  /\ \A p, S, t : Serial!Qualification(p, S, t) = Qualification(p, S, t)
  /\ \A a, q : Serial!CanBindEvidenceSet(a, q) = CanBindEvidenceSet(a, q)
  /\ \A a, q : Serial!BindEvidenceSet(a, q) = BindEvidenceSet(a, q)
BY DEF Serial!Qualification, Qualification, Serial!CanBindEvidenceSet,
   CanBindEvidenceSet, Serial!IsTerminal, IsTerminal, Serial!RecordedRules,
   RecordedRules, Serial!NormalEvidenceBinding, NormalEvidenceBinding, Serial!Zero, Zero,
   Serial!BindEvidenceSet, BindEvidenceSet, Serial!Emit, Emit

\* ... by the binding of a policy.
LEMMA SameBindPolicy ==
  /\ \A a, q : Serial!CanBindVerificationPolicy(a, q) = CanBindVerificationPolicy(a, q)
  /\ \A a, q : Serial!BindVerificationPolicy(a, q) = BindVerificationPolicy(a, q)
BY DEF Serial!CanBindVerificationPolicy, CanBindVerificationPolicy,
   Serial!IsTerminal, IsTerminal, Serial!RecordedRules, RecordedRules,
   Serial!BindVerificationPolicy, BindVerificationPolicy, Serial!Emit, Emit

\* ... by the aggregates that Create and CreateForPolicy make.
LEMMA SameCreated ==
  /\ \A plan, t : Serial!Created(plan, t) = Created(plan, t)
  /\ \A p, t : Serial!CreatedForPolicy(p, t) = CreatedForPolicy(p, t)
BY DEF Serial!Created, Created, Serial!WithPlan, WithPlan,
   Serial!NewEvaluation, NewEvaluation, Serial!Zero, Zero,
   Serial!CreatedForPolicy, CreatedForPolicy,
   Serial!BindVerificationPolicy, BindVerificationPolicy, Serial!Emit, Emit

\* ... by the execution of the rules.
LEMMA SameExecute ==
  /\ \A a, t : Serial!CanExecute(a, t) = CanExecute(a, t)
  /\ \A a, t : Serial!Execute(a, t) = Execute(a, t)
BY DEF Serial!CanExecute, CanExecute, Serial!ReadyToExecute, ReadyToExecute,
   Serial!RecordedRules, RecordedRules, Serial!RequiredRules, RequiredRules,
   Serial!PolicyRules, PolicyRules, Serial!Decision, Decision,
   Serial!CanRecordRuleOutcomeBatch, CanRecordRuleOutcomeBatch,
   Serial!CanRecordRuleOutcomes, CanRecordRuleOutcomes, Serial!Zero, Zero,
   Serial!InPlan, InPlan, Serial!IsRuleRequired, IsRuleRequired,
   Serial!Outcomes, Outcomes, Serial!Execute, Execute,
   Serial!RecordRuleOutcomeBatch, RecordRuleOutcomeBatch, Serial!Pending, Pending,
   Serial!Merged, Merged, Serial!Emit, Emit

\* ... by Complete and Expire.
LEMMA SameEnd ==
  /\ \A a, t : Serial!CanComplete(a, t) = CanComplete(a, t)
  /\ \A a, t : Serial!Complete(a, t) = Complete(a, t)
  /\ \A a, t : Serial!CanExpireTimedOut(a, t) = CanExpireTimedOut(a, t)
  /\ \A a, t : Serial!Expire(a, t) = Expire(a, t)
  /\ \A a : Serial!Snapshot(a) = Snapshot(a)
BY DEF Serial!CanComplete, CanComplete, Serial!CanDeriveResult, CanDeriveResult,
   Serial!RequiredRulesComplete, RequiredRulesComplete,
   Serial!MissingRequiredRuleIDs, MissingRequiredRuleIDs,
   Serial!RequiredRules, RequiredRules, Serial!RecordedRules, RecordedRules,
   Serial!CanCompleteAt, CanCompleteAt, Serial!CanTransitionTo, CanTransitionTo,
   Serial!Zero, Zero, Serial!Result, Result, Serial!DerivedResult, DerivedResult,
   Serial!HasStatus, HasStatus, Serial!DerivedReasons, DerivedReasons,
   Serial!Complete, Complete, Serial!CompleteAt, CompleteAt,
   Serial!CompletionEvent, CompletionEvent, Serial!Emit, Emit,
   Serial!CanExpireTimedOut, CanExpireTimedOut, Serial!TimedOut, TimedOut,
   Serial!CanExpire, CanExpire, Serial!IsTerminal, IsTerminal,
   Serial!Expire, Expire, Serial!Timeout, Timeout, Serial!Snapshot, Snapshot

-----------------------------------------------------------------------------
\* Initially nothing is stored and no request is served.
LEMMA InitIInv == Init => IInv
<1> SUFFICES ASSUME Init PROVE IInv
  OBVIOUS
<1>1. StoreOK
  BY MaxTimeAssumption DEF Init, Serial!Init, StoreOK
<1>2. RequestsTyped
  BY DEF Init, RequestsTyped
<1>3. \A w \in Worker : RequestOK(w)
  BY DEF Init, RequestOK
<1> QED BY <1>1, <1>2, <1>3 DEF IInv

\* Every step keeps the invariant: one case per action.
LEMMA NextIInv == IInv /\ [Next]_vars => IInv'
<1> SUFFICES ASSUME IInv, [Next]_vars PROVE IInv'
  OBVIOUS
<1>1. clock \in 1 .. MaxTime /\ clock \in 1 .. clock /\ clock \in Nat /\ clock \in Time
  BY MaxTimeAssumption DEF IInv, StoreOK, Time
<1>2. \A e \in Eval : Call("Create", e) \in Calls /\ Call("Start", e) \in Calls
        /\ Call("RecordOutcome", e) \in Calls /\ Call("BindPolicy", e) \in Calls
        /\ Call("Execute", e) \in Calls /\ Call("Complete", e) \in Calls
        /\ Call("Expire", e) \in Calls /\ Call("Qualify", e) \in Calls
        /\ Call("BindEvidence", e) \in Calls
  BY DEF Call, Calls
<1>3. ASSUME UNCHANGED request, StoreOK', StoreGrows, backend' = backend PROVE IInv'
  <2>1. \A w \in Worker : RequestOK(w)'
    BY <1>3, OthersStayOK DEF request
  <2>2. RequestsTyped'
    BY <1>3 DEF request, IInv, RequestsTyped
  <2> QED BY <1>3, <2>1, <2>2 DEF IInv
<1>4. CASE UNCHANGED vars
  BY <1>3, <1>4 DEF vars, store, IInv, StoreOK, StoreGrows
<1>5. CASE Tick
  <2>1. clock < MaxTime /\ clock' = clock + 1 /\ UNCHANGED <<evidence, db, outbox>>
        /\ UNCHANGED <<backend, audit, request>>
    BY <1>5 DEF Tick, Serial!Tick
  <2>2. StoreOK' /\ StoreGrows
    BY <1>1, <2>1, MaxTimeAssumption DEF IInv, StoreOK, StoreGrows
  <2> QED BY <1>3, <2>1, <2>2
<1>6. CASE Ingest
  <2>1. PICK o \in EvidenceObject : evidence' = evidence \cup {o}
    BY <1>6 DEF Ingest, Serial!Ingest
  <2>2. UNCHANGED <<clock, db, outbox>> /\ UNCHANGED <<backend, audit, request>>
    BY <1>6 DEF Ingest, Serial!Ingest
  <2>3. StoreOK' /\ StoreGrows
    BY <1>1, <2>1, <2>2 DEF IInv, StoreOK, StoreGrows
  <2> QED BY <1>3, <2>2, <2>3
<1>7. CASE Restart
  <2>1. StoreOK'
    BY <1>7 DEF Restart, store, IInv, StoreOK
  <2>2. RequestsTyped'
    BY <1>7 DEF Restart, IInv, RequestsTyped
  <2>3. \A w \in Worker : RequestOK(w)'
    BY <1>7 DEF Restart, RequestOK
  <2> QED BY <2>1, <2>2, <2>3 DEF IInv
<1>8. ASSUME NEW w \in Worker, NEW e \in Eval, CreateForPolicy(w, e) \/ Create(w, e)
      PROVE  IInv'
  <2>1. PICK p \in Policy : /\ UNCHANGED store
          /\ \/ Prepare(w, Call("Create", e), Created(Plan[p], clock), 0)
             \/ Prepare(w, Call("Create", e), CreatedForPolicy(p, clock), 0)
    BY <1>8 DEF CreateForPolicy, Create
  <2>2. PICK b : /\ b = Created(Plan[p], clock) \/ b = CreatedForPolicy(p, clock)
                 /\ Prepare(w, Call("Create", e), b, 0)
    BY <2>1
  <2>4. Newborn(b, clock)
    BY <1>1, <2>2 DEF Newborn
  <2>3. b \in Aggregate
    BY <1>1, <2>4, NewbornFresh DEF Fresh
  <2> QED BY <1>2, <2>1, <2>2, <2>3, <2>4, PrepareKeeps
<1>9. ASSUME NEW w \in Worker, NEW e \in Eval, StartRequest(w, e) PROVE IInv'
  <2>1. CanStart(db[e], clock) => Outcome(db[e], Start(db[e], clock), clock, evidence)
    BY <1>1 DEF Outcome
  <2> QED BY <1>2, <1>9, <2>1, RequestKeeps DEF StartRequest
<1>10. ASSUME NEW w \in Worker, NEW e \in Eval, RecordOutcome(w, e) PROVE IInv'
  <2>1. PICK r \in Rule, s \in CallerStatus, t \in CallerTime \cup {clock} :
          LET o == [status |-> s, evaluatedAt |-> t] IN
          Request(w, "RecordOutcome", e, FALSE,
                  CanRecordRuleOutcome(db[e], r, o), RecordRuleOutcome(db[e], r, o))
    BY <1>10 DEF RecordOutcome
  <2> DEFINE o == [status |-> s, evaluatedAt |-> t]
  <2>2. t \in (1 .. clock) \cup CallerTime
    BY <1>1
  <2>3. CanRecordRuleOutcome(db[e], r, o)
          => Outcome(db[e], RecordRuleOutcome(db[e], r, o), clock, evidence)
    BY <2>2 DEF Outcome
  <2> QED BY <1>2, <2>1, <2>3, RequestKeeps
<1>11. ASSUME NEW e \in Eval, NEW p \in Policy, NEW t \in (1 .. clock) \cup CallerTime,
              CanBindVerificationPolicy(db[e], [policy |-> p, boundAt |-> t])
       PROVE  Outcome(db[e], BindVerificationPolicy(db[e], [policy |-> p, boundAt |-> t]),
                      clock, evidence)
  BY <1>11 DEF Outcome
<1>12. ASSUME NEW w \in Worker, NEW e \in Eval, BindPolicyRequest(w, e) PROVE IInv'
  <2>1. PICK p \in Policy, t \in CallerTime :
          LET b == [policy |-> p, boundAt |-> t] IN
          Request(w, "BindPolicy", e, FALSE,
                  CanBindVerificationPolicy(db[e], b), BindVerificationPolicy(db[e], b))
    BY <1>12 DEF BindPolicyRequest
  <2> QED BY <1>2, <1>11, <2>1, RequestKeeps
<1>13. ASSUME NEW w \in Worker, NEW e \in Eval, ResolveAndBindPolicy(w, e) PROVE IInv'
  <2>1. PICK p \in Policy :
          Request(w, "BindPolicy", e, FALSE, CanResolveAndBindPolicy(db[e], p, clock),
                  BindVerificationPolicy(db[e], [policy |-> p, boundAt |-> clock]))
    BY <1>13 DEF ResolveAndBindPolicy
  <2>2. CanResolveAndBindPolicy(db[e], p, clock) =>
          Outcome(db[e], BindVerificationPolicy(db[e], [policy |-> p, boundAt |-> clock]),
                  clock, evidence)
    BY <1>1, <1>11 DEF CanResolveAndBindPolicy
  <2> QED BY <1>2, <2>1, <2>2, RequestKeeps
<1>14. ASSUME NEW w \in Worker, NEW e \in Eval, ExecuteRequest(w, e) PROVE IInv'
  <2>1. CanExecute(db[e], clock) => Outcome(db[e], Execute(db[e], clock), clock, evidence)
    BY <1>1 DEF Outcome
  <2> QED BY <1>2, <1>14, <2>1, RequestKeeps DEF ExecuteRequest
<1>15. ASSUME NEW w \in Worker, NEW e \in Eval, CompleteRequest(w, e) PROVE IInv'
  <2>1. CanComplete(db[e], clock) => Outcome(db[e], Complete(db[e], clock), clock, evidence)
    BY <1>1 DEF Outcome
  <2> QED BY <1>2, <1>15, <2>1, RequestKeeps DEF CompleteRequest
<1>16. ASSUME NEW w \in Worker, NEW e \in Eval, ExpireRequest(w, e) PROVE IInv'
  <2>1. CanExpireTimedOut(db[e], clock)
          => Outcome(db[e], Expire(db[e], clock), clock, evidence)
    BY <1>1 DEF Outcome
  <2> QED BY <1>2, <1>16, <2>1, RequestKeeps DEF ExpireRequest
<1>17. ASSUME NEW w \in Worker, NEW e \in Eval, QualifyRequest(w, e) PROVE IInv'
  <2>1. UNCHANGED store
    BY <1>17 DEF QualifyRequest
  <2>2. ASSUME db[e] # None, db[e].policyBinding # None
        PROVE  db[e].policyBinding.policy \in Policy
    BY <2>2 DEF IInv, StoreOK, Aggregate, PolicyBinding
  <2>3. db[e] # None
    BY <1>17 DEF QualifyRequest, Readable
  <2> QED BY <1>2, <1>17, <2>1, <2>2, <2>3, AnswerKeeps, GotoKeeps DEF QualifyRequest
<1>18. ASSUME NEW w \in Worker, NEW e \in Eval, BindEvidenceRequest(w, e) PROVE IInv'
  BY <1>2, <1>18, GotoKeeps, QualifiableAssumption DEF BindEvidenceRequest
<1>19. ASSUME NEW w \in Worker, NEW e \in Eval, FindFails(w, e) PROVE IInv'
  BY <1>19, AnswerKeeps DEF FindFails
<1>20. ASSUME NEW w \in Worker, pc[w] # "idle" PROVE call[w] \in Calls
  BY <1>20 DEF IInv, RequestOK
<1>21. ASSUME NEW w \in Worker, QualifySession(w) PROVE IInv'
  <2> DEFINE q == Qualification(qualified[w], evidence, clock)
  <2>1. /\ call[w] \in Calls /\ UNCHANGED store
        /\ \/ qualified[w] \in Qualifiable /\ Goto(w, call[w], "bind", q)
           \/ Answer(w, call[w].eval, None)
    BY <1>20, <1>21 DEF QualifySession
  <2>2. evidence \in SUBSET EvidenceObject
    BY DEF IInv, StoreOK
  <2>3. q \in EvidenceSetBinding
    BY <1>1, <2>2 DEF Qualification, EvidenceSetBinding, QualificationStatus
  <2>4. qualified[w] \in Qualifiable =>
          \E p \in Qualifiable, S \in SUBSET evidence, t \in 1 .. clock :
            q = Qualification(p, S, t)
    BY <1>1
  <2> HIDE DEF q
  <2> QED BY <2>1, <2>3, <2>4, AnswerKeeps, GotoKeeps
<1>22. ASSUME NEW w \in Worker, BindQualification(w) PROVE IInv'
  <2> DEFINE e == call[w].eval
             q == qualified[w]
  <2>1. pc[w] = "bind" /\ call[w] \in Calls /\ e \in Eval /\ db[e] # None
        /\ UNCHANGED store
    BY <1>20, <1>22 DEF BindQualification, Readable, Calls
  <2>2. PICK p \in Qualifiable, S \in SUBSET evidence, t \in 1 .. clock :
          q = Qualification(p, S, t)
    BY <2>1 DEF IInv, RequestOK
  <2>3. Good(db[e]) /\ db[e].version \in Nat \ {0}
    BY <2>1 DEF IInv, StoreOK, Good, Aggregate
  <2>4. ASSUME CanBindEvidenceSet(db[e], q),
               Prepare(w, call[w], BindEvidenceSet(db[e], q), db[e].version)
        PROVE  IInv'
    <3>1. Outcome(db[e], BindEvidenceSet(db[e], q), clock, evidence)
      BY <2>2, <2>4 DEF Outcome
    <3>2. evidence \in SUBSET EvidenceObject
      BY DEF IInv, StoreOK
    <3>3. BindEvidenceSet(db[e], q) \in Aggregate
      BY <1>1, <2>3, <3>1, <3>2, OutcomeAdvances DEF Advances
    <3> QED BY <2>1, <2>3, <2>4, <3>1, <3>3, PrepareKeeps
  <2>5. ASSUME Goto(w, call[w], "reread", None) PROVE IInv'
    BY <2>1, <2>5, GotoKeeps
  <2>6. ASSUME Answer(w, e, None) PROVE IInv'
    BY <2>1, <2>6, AnswerKeeps
  <2> QED BY <1>22, <2>4, <2>5, <2>6 DEF BindQualification
<1>23. ASSUME NEW w \in Worker, SaveCommits(w) \/ SaveAnswerLost(w) PROVE IInv'
  BY <1>23, CommitKeeps DEF SaveCommits, SaveAnswerLost
<1>24. ASSUME NEW w \in Worker, SaveFails(w) PROVE IInv'
  BY <1>24, AnswerKeeps DEF SaveFails
<1>25. ASSUME NEW w \in Worker, SaveConflicts(w) PROVE IInv'
  <2>1. pc[w] = "save" /\ call[w] \in Calls /\ UNCHANGED store
    BY <1>20, <1>25 DEF SaveConflicts
  <2>2. CASE call[w].op \in LooksAgain
    <3>1. /\ pc' = [pc EXCEPT ![w] = "reread"] /\ local' = [local EXCEPT ![w] = None]
          /\ expected' = [expected EXCEPT ![w] = 0]
          /\ UNCHANGED <<backend, call, qualified>>
      BY <1>25, <2>2 DEF SaveConflicts
    <3>2. RequestsTyped' /\ OthersUnchanged(w)
      BY <3>1 DEF IInv, RequestsTyped, OthersUnchanged
    <3>3. RequestOK(w)'
      BY <2>1, <3>1 DEF RequestOK, IInv, RequestsTyped
    <3> QED BY <2>1, <3>2, <3>3, RequestStep
  <2>3. CASE call[w].op \notin LooksAgain
    BY <1>25, <2>1, <2>3, AnswerKeeps DEF SaveConflicts
  <2> QED BY <2>2, <2>3
<1>26. ASSUME NEW w \in Worker, Reread(w) PROVE IInv'
  BY <1>26, AnswerKeeps DEF Reread
<1> QED BY <1>4, <1>5, <1>6, <1>7, <1>8, <1>9, <1>10, <1>12, <1>13, <1>14, <1>15,
           <1>16, <1>17, <1>18, <1>19, <1>21, <1>22, <1>23, <1>24, <1>25, <1>26
         DEF Next, Step

-----------------------------------------------------------------------------
\* A commit is one step of the serial specification.
LEMMA CommitRefines ==
  ASSUME IInv, NEW w \in Worker, pc[w] = "save", Commit(w)
  PROVE  Serial!Next
<1> DEFINE e == call[w].eval
           b == local[w]
<1>1. /\ e \in Eval /\ b \in Aggregate
      /\ \/ db[e] = None /\ Newborn(b, clock)
         \/ db[e] # None /\ Outcome(db[e], b, clock, evidence)
  BY CommitSerial
<1>2. Serial!Put(e, b)
  BY SameEnd DEF Commit, Serial!Put
<1>3. Serial!Past = 1 .. clock
  BY DEF Serial!Past
<1> HIDE DEF e, b
<1>4. CASE db[e] = None /\ Newborn(b, clock)
  <2>1. Serial!Create(e)
    BY <1>2, <1>3, <1>4, SameCreated DEF Serial!Create, Newborn
  <2> QED BY <1>1, <2>1 DEF Serial!Next
<1>5. CASE db[e] # None /\ Outcome(db[e], b, clock, evidence)
  <2>1. ASSUME NEW t \in 1 .. clock, CanStart(db[e], t), b = Start(db[e], t)
        PROVE  Serial!StartEvaluation(e)
    BY <1>2, <1>3, <1>5, <2>1, SameStart DEF Serial!StartEvaluation
  <2>2. ASSUME NEW r \in Rule, NEW s \in CallerStatus,
               NEW t \in (1 .. clock) \cup CallerTime,
               CanRecordRuleOutcome(db[e], r, [status |-> s, evaluatedAt |-> t]),
               b = RecordRuleOutcome(db[e], r, [status |-> s, evaluatedAt |-> t])
        PROVE  Serial!RecordOutcome(e)
    BY <1>2, <1>3, <1>5, <2>2, SameRecord DEF Serial!RecordOutcome
  <2>3. ASSUME NEW p \in Qualifiable, NEW S \in SUBSET evidence, NEW t \in 1 .. clock,
               CanBindEvidenceSet(db[e], Qualification(p, S, t)),
               b = BindEvidenceSet(db[e], Qualification(p, S, t))
        PROVE  Serial!BindEvidence(e)
    BY <1>2, <1>3, <1>5, <2>3, SameBindEvidence DEF Serial!BindEvidence
  <2>4. ASSUME NEW p \in Policy, NEW t \in (1 .. clock) \cup CallerTime,
               CanBindVerificationPolicy(db[e], [policy |-> p, boundAt |-> t]),
               b = BindVerificationPolicy(db[e], [policy |-> p, boundAt |-> t])
        PROVE  Serial!BindPolicy(e)
    BY <1>2, <1>3, <1>5, <2>4, SameBindPolicy DEF Serial!BindPolicy
  <2>5. ASSUME NEW t \in 1 .. clock, CanExecute(db[e], t), b = Execute(db[e], t)
        PROVE  Serial!ExecuteRules(e)
    BY <1>2, <1>3, <1>5, <2>5, SameExecute DEF Serial!ExecuteRules
  <2>6. ASSUME NEW t \in 1 .. clock, CanComplete(db[e], t), b = Complete(db[e], t)
        PROVE  Serial!CompleteEvaluation(e)
    BY <1>2, <1>3, <1>5, <2>6, SameEnd DEF Serial!CompleteEvaluation
  <2>7. ASSUME NEW t \in 1 .. clock, CanExpireTimedOut(db[e], t), b = Expire(db[e], t)
        PROVE  Serial!ExpireTimedOut(e)
    BY <1>2, <1>3, <1>5, <2>7, SameEnd DEF Serial!ExpireTimedOut
  <2> QED BY <1>1, <1>5, <2>1, <2>2, <2>3, <2>4, <2>5, <2>6, <2>7
           DEF Outcome, Serial!Next
<1> QED BY <1>1, <1>4, <1>5

\* Every step is a serial step, or changes nothing the serial specification
\* sees.
LEMMA NextRefines == IInv /\ [Next]_vars => [Serial!Next]_(Serial!vars)
<1> SUFFICES ASSUME IInv, [Next]_vars PROVE Serial!Next \/ UNCHANGED Serial!vars
  OBVIOUS
<1>1. UNCHANGED store => UNCHANGED Serial!vars
  BY DEF store, Serial!vars
<1>2. CASE UNCHANGED vars
  BY <1>1, <1>2 DEF vars
<1>3. CASE Tick \/ Ingest
  BY <1>3 DEF Tick, Ingest, Serial!Next
<1>4. CASE Restart
  BY <1>1, <1>4 DEF Restart
<1>5. ASSUME NEW w \in Worker, SaveCommits(w) \/ SaveAnswerLost(w) PROVE Serial!Next
  BY <1>5, CommitRefines DEF SaveCommits, SaveAnswerLost
<1>6. ASSUME NEW w \in Worker, Step(w), ~SaveCommits(w), ~SaveAnswerLost(w)
      PROVE  UNCHANGED store
  <2>1. ASSUME NEW e \in Eval,
          \/ CreateForPolicy(w, e) \/ Create(w, e) \/ QualifyRequest(w, e)
          \/ BindEvidenceRequest(w, e) \/ FindFails(w, e)
        PROVE  UNCHANGED store
    BY <2>1 DEF CreateForPolicy, Create, QualifyRequest, BindEvidenceRequest, FindFails
  <2>2. ASSUME NEW e \in Eval,
          \/ StartRequest(w, e) \/ RecordOutcome(w, e) \/ BindPolicyRequest(w, e)
          \/ ResolveAndBindPolicy(w, e) \/ ExecuteRequest(w, e)
          \/ CompleteRequest(w, e) \/ ExpireRequest(w, e)
        PROVE  UNCHANGED store
    BY <2>2 DEF StartRequest, RecordOutcome, BindPolicyRequest, ResolveAndBindPolicy,
       ExecuteRequest, CompleteRequest, ExpireRequest, Request
  <2>3. CASE \/ QualifySession(w) \/ BindQualification(w) \/ SaveFails(w)
             \/ SaveConflicts(w) \/ Reread(w)
    BY <2>3 DEF QualifySession, BindQualification, SaveFails, SaveConflicts, Reread
  <2> QED BY <1>6, <2>1, <2>2, <2>3 DEF Step
<1> QED BY <1>1, <1>2, <1>3, <1>4, <1>5, <1>6 DEF Next

\* The inductive invariant holds throughout.
LEMMA IInvHolds == Spec => []IInv
BY InitIInv, NextIInv, PTL DEF Spec

\* Type correctness of the services: in particular a request that is about to
\* save holds an aggregate, and one about to bind a qualification.
THEOREM ServiceTypeCorrect == Spec => []TypeOK
<1>1. Serial!Aggregate = Aggregate
  BY DEF Serial!Aggregate, Aggregate, Serial!State, State, Serial!Result, Result,
     Serial!ReasonCode, ReasonCode, Serial!Timeout, Timeout, Serial!Time, Time,
     Serial!DomainEvent, DomainEvent, Serial!EventType, EventType,
     Serial!RuleOutcomes, RuleOutcomes, Serial!RuleOutcome, RuleOutcome,
     Serial!Status, Status, Serial!EvidenceSetBinding, EvidenceSetBinding,
     Serial!QualificationStatus, QualificationStatus,
     Serial!PolicyBinding, PolicyBinding
<1>2. Serial!DomainEvent = DomainEvent
  BY DEF Serial!DomainEvent, DomainEvent, Serial!EventType, EventType
<1>3. StoreOK => Serial!TypeOK
  BY <1>1, <1>2 DEF StoreOK, Good, Serial!TypeOK
<1>4. ASSUME IInv, NEW w \in Worker, pc[w] = "bind"
      PROVE  qualified[w] \in EvidenceSetBinding
  <2>1. PICK p \in Qualifiable, S \in SUBSET evidence, t \in 1 .. clock :
          qualified[w] = Qualification(p, S, t)
    BY <1>4 DEF IInv, RequestOK
  <2>2. S \in SUBSET EvidenceObject /\ t \in Time
    BY <1>4 DEF IInv, StoreOK, Time
  <2>3. Qualification(p, S, t) \in EvidenceSetBinding
    BY <2>2 DEF Qualification, EvidenceSetBinding, QualificationStatus
  <2> QED BY <2>1, <2>3
<1>5. IInv => TypeOK
  BY <1>3, <1>4 DEF IInv, RequestsTyped, RequestOK, Calls, TypeOK
<1> QED BY <1>5, IInvHolds, PTL

\* Optimistic concurrency control is correct: with any number of requests
\* that interleave their loads and saves, whose saves fail, whose answers are
\* lost and whose server restarts, on either store, the evaluations and the
\* outbox change as if the operations ran one at a time.
THEOREM Serializable == Spec => SerialSpec
<1>1. Init => Serial!Init
  BY DEF Init
<1> QED BY <1>1, IInvHolds, NextRefines, PTL DEF Spec, SerialSpec, Serial!Spec

-----------------------------------------------------------------------------
(***************************************************************************)
(* What a success that was reported is worth, and what a failure means.    *)
(* The second inductive invariant, on top of IInv: PostgreSQL has an audit *)
(* record for the stored version and none above it, what an answer showed  *)
(* is kept, and a request that looks again for the state it was to bring   *)
(* about has something to look at.                                         *)
(***************************************************************************)
AuditOK(e) ==
  backend = "postgres" =>
    /\ db[e] = None => DOMAIN audit[e] = {}
    /\ db[e] # None => /\ DOMAIN audit[e] \subseteq 1 .. db[e].version
                       /\ db[e].version \in DOMAIN audit[e]
                       /\ audit[e][db[e].version] = db[e]

\* s was stored for e, and everything stored since keeps it.
Durable(e, s) ==
  /\ e \in Eval /\ db[e] # None
  /\ Good(s) /\ Kept(s, db[e])
  /\ s.version = db[e].version => s = db[e]

ReplyOK(w) ==
  reply[w] # None /\ reply[w].snapshot # None => Durable(reply[w].eval, reply[w].snapshot)

\* The operations that are idempotent in the state they bring about.
Targeted == {"Start", "Complete", "Expire"}

TargetOK(w) ==
  pc[w] # "idle" /\ call[w].op \in Targeted =>
    /\ pc[w] \in {"save", "reread"}
    /\ db[call[w].eval] # None
    /\ pc[w] = "save" => ValidSnapshot(Snapshot(local[w]))

DurableInv ==
  /\ DOMAIN audit = Eval /\ DOMAIN reply = Worker
  /\ \A e \in Eval : AuditOK(e) /\ (db[e] # None => ValidSnapshot(db[e]))
  /\ \A w \in Worker : ReplyOK(w) /\ TargetOK(w)

\* A snapshot keeps what it holds itself.
LEMMA KeptReflexive ==
  ASSUME NEW a, Good(a)
  PROVE  Kept(a, a)
<1>1. a.version \in Nat
  BY DEF Good, Aggregate
<1> QED BY <1>1 DEF Kept

\* What is kept twice is kept.
LEMMA KeptTransitive ==
  ASSUME NEW s, Good(s), NEW a, Good(a), NEW b, Good(b), Kept(s, a), Kept(a, b)
  PROVE  Kept(s, b)
<1>1. s.version \in Nat /\ a.version \in Nat /\ b.version \in Nat
  BY DEF Good, Aggregate
<1>2. b.version >= s.version /\ (IsTerminal(s.state) => b = s)
  BY <1>1 DEF Kept
<1>3. \A r \in RecordedRules(s) :
        r \in RecordedRules(b) /\ b.ruleOutcomes[r] = s.ruleOutcomes[r]
  BY DEF Kept
<1> QED BY <1>2, <1>3 DEF Kept

\* Start, Complete and Expire make a snapshot of a stored aggregate that both
\* stores accept.
LEMMA TargetsAreValid ==
  ASSUME NEW a, Good(a), ValidSnapshot(a), NEW t \in Time
  PROVE  /\ CanStart(a, t) => ValidSnapshot(Snapshot(Start(a, t)))
         /\ CanComplete(a, t) => ValidSnapshot(Snapshot(Complete(a, t)))
         /\ CanExpireTimedOut(a, t) => ValidSnapshot(Snapshot(Expire(a, t)))
<1>1. a \in Aggregate
  BY DEF Good
<1>2. ASSUME NEW c \in Aggregate, NEW type,
             c.version \in Nat, c.createdAt = a.createdAt, c.history = a.history,
             c.ruleOutcomes = a.ruleOutcomes, c.policyBinding = a.policyBinding,
             c.checkpoints = a.checkpoints, c.evidenceBinding = a.evidenceBinding,
             \/ /\ c.state = "RUNNING" /\ c.startedAt # Zero /\ c.completedAt = Zero
                /\ c.cancelledAt = Zero /\ c.expiredAt = Zero
             \/ /\ c.state = "COMPLETED" /\ c.startedAt # Zero /\ c.completedAt # Zero
                /\ c.result # "UNKNOWN"
             \/ c.state = "EXPIRED" /\ c.expiredAt # Zero
      PROVE  ValidSnapshot(Snapshot(Emit(c, type)))
  <2> DEFINE s == Snapshot(Emit(c, type))
  <2>1. /\ s.version = c.version + 1 /\ s.createdAt = c.createdAt
        /\ s.state = c.state /\ s.startedAt = c.startedAt
        /\ s.completedAt = c.completedAt /\ s.cancelledAt = c.cancelledAt
        /\ s.expiredAt = c.expiredAt /\ s.result = c.result
        /\ s.ruleOutcomes = c.ruleOutcomes /\ s.history = c.history
        /\ s.policyBinding = c.policyBinding /\ s.evidenceBinding = c.evidenceBinding
        /\ s.checkpoints = c.checkpoints
    BY DEF Snapshot, Emit, Aggregate
  <2> HIDE DEF s
  <2>2. s.version # 0
    BY <1>2, <2>1
  <2>3. /\ \A r \in RecordedRules(s) :
             s.ruleOutcomes[r].status \in Status /\ s.ruleOutcomes[r].evaluatedAt # Zero
        /\ \A i \in 1 .. Len(s.history) : ValidHistoryEntry(s.history[i])
        /\ \A n \in DOMAIN s.checkpoints : s.checkpoints[n].createdAt # Zero
        /\ s.evidenceBinding # None =>
             NormalEvidenceBinding(s.evidenceBinding) /\ s.evidenceBinding.ownSession
        /\ s.policyBinding # None => s.policyBinding.boundAt >= s.createdAt
        /\ s.createdAt # Zero
    BY <1>2, <2>1 DEF ValidSnapshot, RecordedRules
  <2>5. s.result \in Result /\ s.state \in State
    BY <1>2, <2>1 DEF Aggregate
  <2>4. ValidSnapshot(s)
    BY <1>2, <2>1, <2>2, <2>3, <2>5 DEF ValidSnapshot
  <2> QED BY <2>4 DEF s
<1>3. ASSUME CanStart(a, t) PROVE ValidSnapshot(Snapshot(Start(a, t)))
  <2> DEFINE c == [a EXCEPT !.state = "RUNNING", !.startedAt = t]
  <2>1. a.state = "CREATED" /\ t # Zero
    BY <1>3 DEF CanStart, CanTransitionTo
  <2>2. a.completedAt = Zero /\ a.cancelledAt = Zero /\ a.expiredAt = Zero
    BY <2>1 DEF ValidSnapshot
  <2>3. /\ c \in Aggregate /\ c.version \in Nat /\ c.createdAt = a.createdAt
        /\ c.history = a.history /\ c.ruleOutcomes = a.ruleOutcomes
        /\ c.checkpoints = a.checkpoints /\ c.evidenceBinding = a.evidenceBinding
        /\ c.policyBinding = a.policyBinding /\ c.state = "RUNNING"
        /\ c.startedAt = t /\ c.completedAt = a.completedAt
        /\ c.cancelledAt = a.cancelledAt /\ c.expiredAt = a.expiredAt
    BY <1>1 DEF Aggregate, State
  <2> HIDE DEF c
  <2>4. ValidSnapshot(Snapshot(Emit(c, "Started")))
    BY <1>2, <2>1, <2>2, <2>3
  <2> QED BY <2>4 DEF c, Start
<1>4. ASSUME CanComplete(a, t) PROVE ValidSnapshot(Snapshot(Complete(a, t)))
  <2> DEFINE c == [a EXCEPT !.state = "COMPLETED", !.result = DerivedResult(a),
                            !.reasonCodes = DerivedReasons(a), !.completedAt = t]
  <2>1. /\ a.startedAt # Zero /\ t # Zero /\ DerivedResult(a) \in Result \ {"UNKNOWN"}
        /\ DerivedReasons(a) \subseteq ReasonCode
    BY <1>4 DEF CanComplete, CanCompleteAt, DerivedReasons, RecordedRules, ReasonCode
  <2>2. /\ c \in Aggregate /\ c.version \in Nat /\ c.createdAt = a.createdAt
        /\ c.history = a.history /\ c.ruleOutcomes = a.ruleOutcomes
        /\ c.checkpoints = a.checkpoints /\ c.evidenceBinding = a.evidenceBinding
        /\ c.policyBinding = a.policyBinding /\ c.state = "COMPLETED"
        /\ c.startedAt = a.startedAt /\ c.completedAt = t
        /\ c.result = DerivedResult(a)
    BY <1>1, <2>1 DEF Aggregate, State
  <2> HIDE DEF c
  <2>3. ValidSnapshot(Snapshot(Emit(c, CompletionEvent(DerivedResult(a)))))
    BY <1>2, <2>1, <2>2
  <2> QED BY <2>3 DEF c, Complete, CompleteAt
<1>5. ASSUME CanExpireTimedOut(a, t) PROVE ValidSnapshot(Snapshot(Expire(a, t)))
  <2> DEFINE c == [a EXCEPT !.state = "EXPIRED", !.result = "SYSTEM_EXCEPTION",
                            !.reasonCodes = {Timeout}, !.expiredAt = t]
  <2>1. t # Zero
    BY <1>5 DEF CanExpireTimedOut, CanExpire
  <2>2. /\ c \in Aggregate /\ c.version \in Nat /\ c.createdAt = a.createdAt
        /\ c.history = a.history /\ c.ruleOutcomes = a.ruleOutcomes
        /\ c.checkpoints = a.checkpoints /\ c.evidenceBinding = a.evidenceBinding
        /\ c.policyBinding = a.policyBinding /\ c.state = "EXPIRED"
        /\ c.expiredAt = t
    BY <1>1 DEF Aggregate, State, Result, ReasonCode
  <2> HIDE DEF c
  <2>3. ValidSnapshot(Snapshot(Emit(c, "Expired")))
    BY <1>2, <2>1, <2>2
  <2> QED BY <2>3 DEF c, Expire
<1> QED BY <1>3, <1>4, <1>5

\* A step of a request that leaves the store alone and the other requests and
\* their answers as they are.
OthersAnswered(w) ==
  /\ OthersUnchanged(w) /\ DOMAIN reply' = Worker
  /\ \A v \in Worker \ {w} : reply'[v] = reply[v]

\* While a request waits, what others store makes no answer untrue and takes
\* nothing away that it may look for.
LEMMA StaysDurable ==
  ASSUME IInv, DurableInv, StoreGrows, \A e \in Eval : db'[e] # None => Good(db'[e]),
         \A e \in Eval : db[e] # None => Kept(db[e], db'[e]),
         NEW v \in Worker, reply'[v] = reply[v],
         pc'[v] = pc[v], call'[v] = call[v], local'[v] = local[v]
  PROVE  ReplyOK(v)' /\ TargetOK(v)'
<1>1. ASSUME reply[v] # None, reply[v].snapshot # None
      PROVE  Durable(reply[v].eval, reply[v].snapshot)'
  <2> DEFINE e == reply[v].eval
             s == reply[v].snapshot
  <2>1. /\ e \in Eval /\ db[e] # None /\ Good(s) /\ Kept(s, db[e])
        /\ s.version = db[e].version => s = db[e]
    BY <1>1 DEF DurableInv, ReplyOK, Durable
  <2>2. /\ Good(db[e]) /\ db'[e] # None /\ Good(db'[e]) /\ Kept(db[e], db'[e])
        /\ db'[e] = db[e] \/ (db'[e].version \in Nat /\ db'[e].version > db[e].version)
    BY <2>1 DEF IInv, StoreOK, StoreGrows
  <2>3. Kept(s, db'[e])
    BY <2>1, <2>2, KeptTransitive
  <2>4. s.version \in Nat /\ db[e].version \in Nat /\ s.version <= db[e].version
    BY <2>1, <2>2 DEF Good, Aggregate, Kept
  <2>5. s.version = db'[e].version => s = db'[e]
    <3>1. CASE db'[e] = db[e]
      BY <2>1, <3>1
    <3>2. CASE db'[e].version \in Nat /\ db'[e].version > db[e].version
      <4> HIDE DEF s, e
      <4> QED BY <2>4, <3>2
    <3> QED BY <2>2, <3>1, <3>2
  <2> QED BY <2>1, <2>2, <2>3, <2>5 DEF Durable
<1>2. TargetOK(v) /\ (pc[v] # "idle" => call[v].eval \in Eval)
  BY DEF DurableInv, IInv, RequestOK, Calls
<1>3. TargetOK(v)'
  BY <1>2 DEF TargetOK, StoreGrows
<1> QED BY <1>1, <1>3 DEF ReplyOK

\* Nothing that is stored changes: the audit stays right, and so does what
\* others were told or look for.
LEMMA IdleKeepsDurable ==
  ASSUME IInv, DurableInv, UNCHANGED <<backend, store>>, NEW w \in Worker,
         OthersAnswered(w), ReplyOK(w)', TargetOK(w)'
  PROVE  DurableInv'
<1>1. db' = db /\ audit' = audit /\ backend' = backend
  BY DEF store
<1>2. StoreGrows
  BY DEF IInv, StoreOK, StoreGrows, store
<1>3. \A e \in Eval : db[e] # None => Good(db[e]) /\ Kept(db[e], db'[e])
  BY <1>1, KeptReflexive DEF IInv, StoreOK
<1>4. \A v \in Worker : ReplyOK(v)' /\ TargetOK(v)'
  BY <1>1, <1>2, <1>3, StaysDurable DEF OthersAnswered, OthersUnchanged
<1>5. \A e \in Eval : AuditOK(e)' /\ (db'[e] # None => ValidSnapshot(db'[e]))
  BY <1>1 DEF DurableInv, AuditOK
<1> QED BY <1>1, <1>4, <1>5 DEF DurableInv, OthersAnswered

\* A request is answered: with an error, or with what is stored.
LEMMA AnswerKeepsDurable ==
  ASSUME IInv, DurableInv, NEW w \in Worker, NEW e, NEW s, Answer(w, e, s),
         UNCHANGED store, s # None => e \in Eval /\ db[e] # None /\ s = db[e]
  PROVE  DurableInv'
<1>1. /\ pc'[w] = "idle" /\ reply'[w] = [eval |-> e, snapshot |-> s]
      /\ backend' = backend /\ db' = db
  BY DEF Answer, IInv, RequestsTyped, DurableInv, store
<1>2. OthersAnswered(w)
  BY AnswerEnds DEF Answer, OthersAnswered, DurableInv
<1>3. ReplyOK(w)'
  <2>1. CASE s = None
    BY <1>1, <2>1 DEF ReplyOK
  <2>2. CASE s # None
    <3>1. Good(s) /\ Kept(s, s)
      BY <2>2, KeptReflexive DEF IInv, StoreOK
    <3>2. e \in Eval /\ db'[e] # None /\ s = db'[e]
      BY <1>1, <2>2
    <3>3. reply'[w].eval = e /\ reply'[w].snapshot = s
      BY <1>1
    <3> QED BY <3>1, <3>2, <3>3 DEF ReplyOK, Durable
  <2> QED BY <2>1, <2>2
<1>4. TargetOK(w)'
  BY <1>1 DEF TargetOK
<1> QED BY <1>1, <1>2, <1>3, <1>4, IdleKeepsDurable

\* A request has changed its copy and is about to save it.
LEMMA PrepareKeepsDurable ==
  ASSUME IInv, DurableInv, NEW w \in Worker, NEW c, NEW b, NEW v, Prepare(w, c, b, v),
         UNCHANGED store,
         c.op \in Targeted => db[c.eval] # None /\ ValidSnapshot(Snapshot(b))
  PROVE  DurableInv'
<1>1. /\ pc'[w] = "save" /\ call'[w] = c /\ local'[w] = b /\ reply'[w] = None
      /\ backend' = backend /\ db' = db
  BY DEF Prepare, IInv, RequestsTyped, DurableInv, store
<1>2. OthersAnswered(w)
  BY DEF Prepare, OthersAnswered, OthersUnchanged, IInv, RequestsTyped, DurableInv
<1>3. ReplyOK(w)' /\ TargetOK(w)'
  BY <1>1 DEF ReplyOK, TargetOK
<1> QED BY <1>1, <1>2, <1>3, IdleKeepsDurable

\* A request moves on: only those that qualify evidence do.
LEMMA GotoKeepsDurable ==
  ASSUME IInv, DurableInv, NEW w \in Worker, NEW c, NEW label, NEW q,
         Goto(w, c, label, q), UNCHANGED store, c.op \notin Targeted
  PROVE  DurableInv'
<1>1. /\ call'[w] = c /\ reply'[w] = None /\ backend' = backend
  BY DEF Goto, IInv, RequestsTyped, DurableInv
<1>2. OthersAnswered(w)
  BY DEF Goto, OthersAnswered, OthersUnchanged, IInv, RequestsTyped, DurableInv
<1>3. ReplyOK(w)' /\ TargetOK(w)'
  BY <1>1 DEF ReplyOK, TargetOK
<1> QED BY <1>1, <1>2, <1>3, IdleKeepsDurable

\* Snapshot, outbox and audit record are stored together, and the answer, if it
\* arrives, is what was stored.
LEMMA CommitKeepsDurable ==
  ASSUME IInv, DurableInv, NEW w \in Worker, pc[w] = "save", Commit(w),
         NEW s, s \in {None, Snapshot(local[w])}, Answer(w, call[w].eval, s)
  PROVE  DurableInv'
<1> DEFINE e == call[w].eval
           b == local[w]
           n == Snapshot(b)
<1>1. /\ e \in Eval /\ b \in Aggregate
      /\ \/ db[e] = None /\ Newborn(b, clock)
         \/ db[e] # None /\ Outcome(db[e], b, clock, evidence)
  BY CommitSerial
<1>2. /\ db' = [db EXCEPT ![e] = n] /\ clock' = clock /\ evidence' = evidence
      /\ ValidSnapshot(n)
      /\ backend = "postgres" =>
           /\ n.version \notin DOMAIN audit[e]
           /\ audit' = [audit EXCEPT ![e] =
                [v \in DOMAIN audit[e] \cup {n.version} |->
                   IF v = n.version THEN n ELSE audit[e][v]]]
      /\ backend # "postgres" => audit' = audit
  BY DEF Commit, Storable
<1>3. /\ clock \in Nat /\ evidence \in SUBSET EvidenceObject
      /\ db \in [Eval -> Aggregate \cup {None}]
  BY DEF IInv, StoreOK
<1>4. /\ Good(n)
      /\ db[e] # None => /\ Good(db[e]) /\ Kept(db[e], n)
                         /\ n.version = db[e].version => n = db[e]
  <2>1. CASE db[e] = None /\ Newborn(b, clock)
    BY <1>3, <2>1, NewbornFresh DEF Fresh
  <2>2. CASE db[e] # None /\ Outcome(db[e], b, clock, evidence)
    <3>1. Good(db[e])
      BY <1>1, <2>2 DEF IInv, StoreOK
    <3>2. Advances(db[e], b)
      BY <1>3, <2>2, <3>1, OutcomeAdvances
    <3> QED BY <3>1, <3>2 DEF Advances
  <2> QED BY <1>1, <2>1, <2>2
<1>5. n # None /\ n.version \in Nat \ {0}
  BY <1>4, NoneAssumption DEF Good, Aggregate
<1>6. db[e] # None => db[e].version \in Nat /\ db[e].version <= n.version
  BY <1>4, <1>5 DEF Good, Aggregate, Kept
<1>7. /\ pc'[w] = "idle" /\ reply'[w] = [eval |-> e, snapshot |-> s]
      /\ backend' = backend
  BY DEF Answer, IInv, RequestsTyped, DurableInv
<1>8. OthersAnswered(w)
  BY AnswerEnds DEF Answer, OthersAnswered, DurableInv
<1>9. s \in {None, n}
  OBVIOUS
<1> HIDE DEF e, b, n
<1>10. db'[e] = n /\ \A f \in Eval \ {e} : db'[f] = db[f]
  BY <1>1, <1>2, <1>3
<1>11. \A f \in Eval : db[f] # None => Good(db[f]) /\ Kept(db[f], db[f])
  BY KeptReflexive DEF IInv, StoreOK
<1>12. /\ \A f \in Eval : db'[f] # None => Good(db'[f])
       /\ \A f \in Eval : db[f] # None => Kept(db[f], db'[f])
  BY <1>4, <1>10, <1>11
<1>13. StoreGrows
  <2>1. db[e] # None => n = db[e] \/ n.version > db[e].version
    BY <1>4, <1>5, <1>6
  <2> QED BY <1>2, <1>3, <1>5, <1>10, <2>1 DEF StoreGrows
<1>14. ReplyOK(w)' /\ TargetOK(w)'
  <2>1. e \in Eval /\ db'[e] = n /\ n # None /\ Good(n) /\ Kept(n, n)
    BY <1>1, <1>4, <1>5, <1>10, KeptReflexive
  <2>2. reply'[w].eval = e /\ reply'[w].snapshot = s
    BY <1>7
  <2>3. s = None \/ s = n
    BY <1>9
  <2>4. ReplyOK(w)'
    BY <2>1, <2>2, <2>3 DEF ReplyOK, Durable
  <2> QED BY <1>7, <2>4 DEF TargetOK
<1>15. \A v \in Worker : ReplyOK(v)' /\ TargetOK(v)'
  BY <1>8, <1>12, <1>13, <1>14, StaysDurable DEF OthersAnswered, OthersUnchanged
<1>16. DOMAIN audit' = Eval
  BY <1>2 DEF DurableInv
<1>17. ASSUME NEW f \in Eval PROVE AuditOK(f)'
  <2>1. CASE backend # "postgres"
    BY <1>7, <2>1 DEF AuditOK
  <2>2. CASE backend = "postgres" /\ f # e
    BY <1>2, <1>7, <1>10, <2>2 DEF DurableInv, AuditOK
  <2>3. CASE backend = "postgres" /\ f = e
    <3>1. audit'[e] = [v \in DOMAIN audit[e] \cup {n.version} |->
                         IF v = n.version THEN n ELSE audit[e][v]]
      BY <1>1, <1>2, <2>3 DEF DurableInv
    <3>2. DOMAIN audit[e] \subseteq 1 .. n.version
      <4>1. AuditOK(e)
        BY <1>1 DEF DurableInv
      <4>2. db[e] = None => DOMAIN audit[e] = {}
        BY <2>3, <4>1 DEF AuditOK
      <4>3. db[e] # None => DOMAIN audit[e] \subseteq 1 .. db[e].version
        BY <2>3, <4>1 DEF AuditOK
      <4>4. db[e] # None => 1 .. db[e].version \subseteq 1 .. n.version
        BY <1>5, <1>6
      <4> QED BY <4>2, <4>3, <4>4
    <3>3. /\ DOMAIN audit'[e] \subseteq 1 .. n.version
          /\ n.version \in DOMAIN audit'[e] /\ audit'[e][n.version] = n
      BY <1>5, <3>1, <3>2
    <3> QED BY <1>5, <1>10, <2>3, <3>3 DEF AuditOK
  <2> QED BY <2>1, <2>2, <2>3
<1>18. \A f \in Eval : db'[f] # None => ValidSnapshot(db'[f])
  BY <1>2, <1>10 DEF DurableInv
<1> QED BY <1>8, <1>15, <1>16, <1>17, <1>18 DEF DurableInv, OthersAnswered

\* The common frame of the operations, for the invariant of the answers.
LEMMA RequestKeepsDurable ==
  ASSUME IInv, DurableInv, NEW w \in Worker, NEW e \in Eval, NEW o, NEW done, NEW can,
         NEW changed, Request(w, o, e, done, can, changed),
         o \in Targeted /\ can => ValidSnapshot(Snapshot(changed))
  PROVE  DurableInv'
<1>1. db[e] # None /\ UNCHANGED store
  BY DEF Request, Readable
<1>2. ASSUME can, Prepare(w, Call(o, e), changed, db[e].version)
      PROVE  DurableInv'
  <2> DEFINE c == Call(o, e)
             v == db[e].version
  <2>1. c.op = o /\ c.eval = e /\ Prepare(w, c, changed, v)
    BY <1>2 DEF Call
  <2> HIDE DEF c, v
  <2> QED BY <1>1, <1>2, <2>1, PrepareKeepsDurable
<1>3. ASSUME Answer(w, e, db[e]) PROVE DurableInv'
  <2> DEFINE s == db[e]
  <2>1. s = db[e] /\ Answer(w, e, s)
    BY <1>3
  <2> HIDE DEF s
  <2> QED BY <1>1, <2>1, AnswerKeepsDurable
<1>4. ASSUME Answer(w, e, None) PROVE DurableInv'
  BY <1>1, <1>4, AnswerKeepsDurable
<1> QED BY <1>2, <1>3, <1>4 DEF Request

\* Before the first request nothing was told.
LEMMA InitDurable == Init => DurableInv
<1> SUFFICES ASSUME Init PROVE DurableInv
  OBVIOUS
<1>1. \A e \in Eval : db[e] = None /\ DOMAIN audit[e] = {}
  BY DEF Init, Serial!Init
<1> QED
  BY <1>1 DEF Init, DurableInv, AuditOK, ReplyOK, TargetOK

\* Every step keeps the invariant of the answers: one case per action.
LEMMA NextDurable == IInv /\ DurableInv /\ [Next]_vars => DurableInv'
<1> SUFFICES ASSUME IInv, DurableInv, [Next]_vars PROVE DurableInv'
  OBVIOUS
<1>1. clock \in Time
  BY DEF IInv, StoreOK, Time
<1>2. ASSUME UNCHANGED <<backend, request, db, audit>>, clock' \in Nat, clock <= clock',
             evidence \subseteq evidence'
      PROVE  DurableInv'
  <2>1. UNCHANGED <<backend, pc, call, local, reply, db, audit>>
    BY <1>2 DEF request
  <2>2. \A e \in Eval : db[e] # None => Good(db[e]) /\ Kept(db[e], db'[e])
    BY <2>1, KeptReflexive DEF IInv, StoreOK
  <2>3. StoreGrows
    BY <1>2, <2>1 DEF StoreGrows
  <2>4. \A v \in Worker : ReplyOK(v)' /\ TargetOK(v)'
    BY <2>1, <2>2, <2>3, StaysDurable
  <2>5. \A e \in Eval : AuditOK(e)' /\ (db'[e] # None => ValidSnapshot(db'[e]))
    BY <2>1 DEF DurableInv, AuditOK
  <2> QED BY <2>1, <2>4, <2>5 DEF DurableInv
<1>3. CASE UNCHANGED vars
  BY <1>1, <1>2, <1>3 DEF vars, store, Time
<1>4. CASE Tick
  BY <1>1, <1>2, <1>4 DEF Tick, Serial!Tick, Time
<1>5. CASE Ingest
  BY <1>1, <1>2, <1>5 DEF Ingest, Serial!Ingest, Time
<1>6. CASE Restart
  <2>1. db' = db /\ audit' = audit /\ backend' = backend
    BY <1>6 DEF Restart, store
  <2>2. \A v \in Worker : ReplyOK(v)' /\ TargetOK(v)'
    BY <1>6 DEF Restart, ReplyOK, TargetOK
  <2>3. \A e \in Eval : AuditOK(e)' /\ (db'[e] # None => ValidSnapshot(db'[e]))
    BY <2>1 DEF DurableInv, AuditOK
  <2> QED BY <1>6, <2>1, <2>2, <2>3 DEF DurableInv, Restart
<1>7. \A e \in Eval : db[e] # None => Good(db[e]) /\ ValidSnapshot(db[e])
  BY DEF IInv, StoreOK, DurableInv
<1>8. ASSUME NEW w \in Worker, NEW e \in Eval, CreateForPolicy(w, e) \/ Create(w, e)
      PROVE  DurableInv'
  <2>1. Call("Create", e).op \notin Targeted
    BY DEF Call, Targeted
  <2>2. \E b : Prepare(w, Call("Create", e), b, 0)
    BY <1>8 DEF CreateForPolicy, Create
  <2> QED BY <1>8, <2>1, <2>2, PrepareKeepsDurable DEF CreateForPolicy, Create
<1>9. ASSUME NEW w \in Worker, NEW e \in Eval, StartRequest(w, e) PROVE DurableInv'
  <2>1. CanStart(db[e], clock) => ValidSnapshot(Snapshot(Start(db[e], clock)))
    BY <1>1, <1>7, <1>9, TargetsAreValid DEF StartRequest, Request, Readable
  <2> QED BY <1>9, <2>1, RequestKeepsDurable DEF StartRequest
<1>10. ASSUME NEW w \in Worker, NEW e \in Eval, CompleteRequest(w, e) PROVE DurableInv'
  <2>1. CanComplete(db[e], clock) => ValidSnapshot(Snapshot(Complete(db[e], clock)))
    BY <1>1, <1>7, <1>10, TargetsAreValid DEF CompleteRequest, Request, Readable
  <2> QED BY <1>10, <2>1, RequestKeepsDurable DEF CompleteRequest
<1>11. ASSUME NEW w \in Worker, NEW e \in Eval, ExpireRequest(w, e) PROVE DurableInv'
  <2>1. CanExpireTimedOut(db[e], clock) => ValidSnapshot(Snapshot(Expire(db[e], clock)))
    BY <1>1, <1>7, <1>11, TargetsAreValid DEF ExpireRequest, Request, Readable
  <2> QED BY <1>11, <2>1, RequestKeepsDurable DEF ExpireRequest
<1>12. ASSUME NEW w \in Worker, NEW e \in Eval, NEW o \in {"RecordOutcome", "BindPolicy", "Execute"},
              NEW done, NEW can, NEW changed, Request(w, o, e, done, can, changed)
       PROVE  DurableInv'
  BY <1>12, RequestKeepsDurable DEF Targeted
<1>13. ASSUME NEW w \in Worker, NEW e \in Eval,
              \/ RecordOutcome(w, e) \/ BindPolicyRequest(w, e)
              \/ ResolveAndBindPolicy(w, e) \/ ExecuteRequest(w, e)
       PROVE  DurableInv'
  <2>1. CASE RecordOutcome(w, e)
    BY <1>12, <2>1 DEF RecordOutcome
  <2>2. CASE BindPolicyRequest(w, e)
    BY <1>12, <2>2 DEF BindPolicyRequest
  <2>3. CASE ResolveAndBindPolicy(w, e)
    BY <1>12, <2>3 DEF ResolveAndBindPolicy
  <2>4. CASE ExecuteRequest(w, e)
    BY <1>12, <2>4 DEF ExecuteRequest
  <2> QED BY <1>13, <2>1, <2>2, <2>3, <2>4
<1>14. ASSUME NEW w \in Worker, NEW e \in Eval, QualifyRequest(w, e) PROVE DurableInv'
  <2>1. UNCHANGED store /\ db[e] # None /\ Call("Qualify", e).op \notin Targeted
    BY <1>14 DEF QualifyRequest, Readable, Call, Targeted
  <2>2. \/ \E s : s \in {None, db[e]} /\ Answer(w, e, s)
        \/ \E q : Goto(w, Call("Qualify", e), "qualify", q)
    BY <1>14 DEF QualifyRequest
  <2> QED BY <2>1, <2>2, AnswerKeepsDurable, GotoKeepsDurable
<1>15. ASSUME NEW w \in Worker, NEW e \in Eval, BindEvidenceRequest(w, e) PROVE DurableInv'
  <2>1. Call("BindEvidence", e).op \notin Targeted
    BY DEF Call, Targeted
  <2>2. \E q : Goto(w, Call("BindEvidence", e), "qualify", q)
    BY <1>15 DEF BindEvidenceRequest
  <2> QED BY <1>15, <2>1, <2>2, GotoKeepsDurable DEF BindEvidenceRequest
<1>16. ASSUME NEW w \in Worker, NEW e, Answer(w, e, None), UNCHANGED store
       PROVE  DurableInv'
  BY <1>16, AnswerKeepsDurable
<1>17. ASSUME NEW w \in Worker, NEW e \in Eval, FindFails(w, e) PROVE DurableInv'
  BY <1>16, <1>17 DEF FindFails
<1>18. ASSUME NEW w \in Worker, QualifySession(w) \/ BindQualification(w)
       PROVE  DurableInv'
  <2>1. UNCHANGED store /\ pc[w] \in {"qualify", "bind"} /\ call[w].op \notin Targeted
    BY <1>18 DEF QualifySession, BindQualification, DurableInv, TargetOK
  <2>2. \/ Answer(w, call[w].eval, None)
        \/ \E label, q : Goto(w, call[w], label, q)
        \/ \E b, v : Prepare(w, call[w], b, v)
    BY <1>18 DEF QualifySession, BindQualification
  <2>3. ASSUME NEW c, c = call[w], NEW label, NEW q, Goto(w, c, label, q)
        PROVE  DurableInv'
    BY <2>1, <2>3, GotoKeepsDurable
  <2>4. ASSUME NEW c, c = call[w], NEW b, NEW v, Prepare(w, c, b, v)
        PROVE  DurableInv'
    BY <2>1, <2>4, PrepareKeepsDurable
  <2> QED BY <1>16, <2>1, <2>2, <2>3, <2>4
<1>19. ASSUME NEW w \in Worker, SaveCommits(w) \/ SaveAnswerLost(w) PROVE DurableInv'
  BY <1>19, CommitKeepsDurable DEF SaveCommits, SaveAnswerLost
<1>20. ASSUME NEW w \in Worker, SaveFails(w) PROVE DurableInv'
  BY <1>16, <1>20 DEF SaveFails
<1>21. ASSUME NEW w \in Worker, SaveConflicts(w) PROVE DurableInv'
  <2>1. UNCHANGED store /\ pc[w] = "save"
    BY <1>21 DEF SaveConflicts
  <2>2. CASE call[w].op \in LooksAgain
    <3>1. /\ pc' = [pc EXCEPT ![w] = "reread"] /\ local' = [local EXCEPT ![w] = None]
          /\ expected' = [expected EXCEPT ![w] = 0]
          /\ UNCHANGED <<backend, call, qualified, reply>>
      BY <1>21, <2>2 DEF SaveConflicts
    <3>2. OthersAnswered(w)
      BY <3>1 DEF OthersAnswered, OthersUnchanged, IInv, RequestsTyped, DurableInv
    <3>3. pc'[w] = "reread" /\ call'[w] = call[w] /\ reply'[w] = reply[w] /\ db' = db
      BY <2>1, <3>1 DEF IInv, RequestsTyped, store
    <3>4. TargetOK(w)'
      BY <2>1, <3>3 DEF TargetOK, DurableInv
    <3>5. ReplyOK(w)'
      BY <3>3 DEF ReplyOK, DurableInv, Durable
    <3> QED BY <2>1, <3>1, <3>2, <3>4, <3>5, IdleKeepsDurable
  <2>3. CASE call[w].op \notin LooksAgain
    BY <1>16, <1>21, <2>1, <2>3 DEF SaveConflicts
  <2> QED BY <2>2, <2>3
<1>22. ASSUME NEW w \in Worker, Reread(w) PROVE DurableInv'
  <2> DEFINE e == call[w].eval
  <2>1. e \in Eval
    BY <1>22 DEF Reread, IInv, RequestOK, Calls
  <2>2. UNCHANGED store /\ db[e] # None /\ \E s : s \in {None, db[e]} /\ Answer(w, e, s)
    BY <1>22 DEF Reread, Readable
  <2> HIDE DEF e
  <2> QED BY <2>1, <2>2, AnswerKeepsDurable
<1> QED BY <1>3, <1>4, <1>5, <1>6, <1>8, <1>9, <1>10, <1>11, <1>13, <1>14, <1>15,
           <1>17, <1>18, <1>19, <1>20, <1>21, <1>22
         DEF Next, Step

\* The invariant of the answers holds throughout.
LEMMA DurableHolds == Spec => []DurableInv
BY InitDurable, NextDurable, IInvHolds, PTL DEF Spec

\* On PostgreSQL the audit record of the stored version always exists and
\* carries the root of the stored snapshot, whatever fails, gets lost or
\* restarts: FindEvaluation never answers ErrEvaluationAuditInvalid.
THEOREM AuditKeepsUp == Spec => []StoredVersionAudited
<1>1. IInv /\ DurableInv => StoredVersionAudited
  BY DEF DurableInv, AuditOK, StoredVersionAudited, Readable
<1> QED BY <1>1, IInvHolds, DurableHolds, PTL

\* A success that a service has reported stays true however many requests
\* overlap it, and whatever they do later.
THEOREM AnswersHold == Spec => []RepliesAreDurable
<1>1. DurableInv => RepliesAreDurable
  BY DEF DurableInv, ReplyOK, Durable, RepliesAreDurable
<1> QED BY <1>1, DurableHolds, PTL

\* A request ends only by a step of its own, or by a restart.
LEMMA OnlyOwnStepEnds ==
  ASSUME IInv, NEW w \in Worker, [Next]_vars, pc[w] # "idle", pc'[w] = "idle"
  PROVE  Restart \/ Step(w)
<1>1. pc' # pc
  OBVIOUS
<1>2. ASSUME NEW v \in Worker, v # w, Step(v) PROVE pc'[w] = pc[w]
  <2>1. ASSUME NEW x, pc' = [pc EXCEPT ![v] = x] PROVE pc'[w] = pc[w]
    BY <1>2, <2>1 DEF IInv, RequestsTyped
  <2>2. ASSUME NEW o, NEW e, NEW done, NEW can, NEW changed,
               Request(v, o, e, done, can, changed)
        PROVE  pc'[w] = pc[w]
    BY <2>1, <2>2 DEF Request, Answer, Prepare
  <2>3. ASSUME NEW e \in Eval,
               \/ StartRequest(v, e) \/ RecordOutcome(v, e) \/ BindPolicyRequest(v, e)
               \/ ResolveAndBindPolicy(v, e) \/ ExecuteRequest(v, e)
               \/ CompleteRequest(v, e) \/ ExpireRequest(v, e)
        PROVE  pc'[w] = pc[w]
    BY <2>2, <2>3 DEF StartRequest, RecordOutcome, BindPolicyRequest,
       ResolveAndBindPolicy, ExecuteRequest, CompleteRequest, ExpireRequest
  <2>4. ASSUME NEW e \in Eval,
               \/ CreateForPolicy(v, e) \/ Create(v, e) \/ QualifyRequest(v, e)
               \/ BindEvidenceRequest(v, e) \/ FindFails(v, e)
        PROVE  pc'[w] = pc[w]
    BY <2>1, <2>4 DEF CreateForPolicy, Create, QualifyRequest, BindEvidenceRequest,
       FindFails, Prepare, Answer, Goto
  <2>5. CASE \/ QualifySession(v) \/ BindQualification(v) \/ SaveCommits(v)
             \/ SaveAnswerLost(v) \/ SaveFails(v) \/ SaveConflicts(v) \/ Reread(v)
    BY <2>1, <2>5 DEF QualifySession, BindQualification, SaveCommits, SaveAnswerLost,
       SaveFails, SaveConflicts, Reread, Prepare, Answer, Goto
  <2> QED BY <1>2, <2>3, <2>4, <2>5 DEF Step
<1> QED BY <1>1, <1>2 DEF Next, vars, request, Tick, Ingest

\* "start and complete commands are also idempotent in their target states":
\* on the memory store a Start, Complete or ExpireTimedOut that loses a race
\* fails only if the evaluation is not in the state it was to bring about.
THEOREM LosersHaveNoTarget == Spec => LosersFindNoTarget
<1>1. ASSUME IInv, DurableInv, [Next]_vars, NEW w \in Worker, Fails(w),
             backend = "memory", call[w].op \in Targeted
      PROVE  ~Wanted(call[w].op, db[call[w].eval])
  <2> DEFINE e == call[w].eval
  <2>1. pc[w] # "idle" /\ pc'[w] = "idle" /\ reply'[w].snapshot = None
    BY <1>1 DEF Fails
  <2>2. /\ pc[w] \in {"save", "reread"} /\ db[e] # None
        /\ pc[w] = "save" => ValidSnapshot(Snapshot(local[w]))
    BY <1>1, <2>1 DEF DurableInv, TargetOK
  <2>3. e \in Eval /\ Readable(e)
    BY <1>1, <2>1, <2>2 DEF IInv, RequestOK, Calls, Readable
  <2>4. Step(w)
    BY <1>1, <2>1, OnlyOwnStepEnds DEF Restart
  <2>5. ASSUME NEW s, Answer(w, e, s) PROVE reply'[w].snapshot = s
    BY <1>1, <2>5 DEF Answer, DurableInv
  <2>6. ~SaveFails(w) /\ ~SaveAnswerLost(w)
    BY <1>1, <2>2 DEF SaveFails, SaveAnswerLost, Storable
  <2>7. ~SaveCommits(w)
    <3>1. ASSUME SaveCommits(w) PROVE FALSE
      <4>1. local[w] \in Aggregate /\ Answer(w, e, Snapshot(local[w]))
        BY <1>1, <3>1 DEF SaveCommits, IInv, RequestOK
      <4>2. Snapshot(local[w]) # None
        BY <4>1, SnapshotFields, NoneAssumption
      <4> QED BY <2>1, <2>5, <4>1, <4>2
    <3> QED BY <3>1
  <2>8. ~SaveConflicts(w)
    <3>1. SaveConflicts(w) => pc'[w] = "reread"
      BY <1>1 DEF SaveConflicts, Targeted, LooksAgain, IInv, RequestsTyped
    <3> QED BY <2>1, <3>1
  <2>9. \A f \in Eval : ~FindFails(w, f)
    BY <1>1, <2>1, <2>3 DEF FindFails
  <2>10. Reread(w)
    BY <2>1, <2>2, <2>4, <2>6, <2>7, <2>8, <2>9 DEF Step, CreateForPolicy, Create,
       StartRequest, RecordOutcome, BindPolicyRequest, ResolveAndBindPolicy,
       ExecuteRequest, CompleteRequest, ExpireRequest, Request, QualifyRequest,
       BindEvidenceRequest, QualifySession, BindQualification
  <2>11. ASSUME Wanted(call[w].op, db[e]) PROVE FALSE
    <3>1. Answer(w, e, db[e])
      BY <2>10, <2>11 DEF Reread
    <3> QED BY <2>1, <2>2, <2>5, <3>1
  <2> QED BY <2>11
<1>2. IInv /\ DurableInv /\ [Next]_vars =>
        [\A w \in Worker :
           Fails(w) /\ backend = "memory" /\ call[w].op \in {"Start", "Complete", "Expire"}
           => ~Wanted(call[w].op, db[call[w].eval])]_vars
  BY <1>1 DEF Targeted
<1> QED BY <1>2, IInvHolds, DurableHolds, PTL DEF Spec, LosersFindNoTarget

=============================================================================
