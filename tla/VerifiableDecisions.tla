------------------------- MODULE VerifiableDecisions -------------------------
(***************************************************************************)
(* The evaluations of SerialEvaluations by documents of policy.document.v1 *)
(* on evidence objects that have contents, and what a verifier makes of    *)
(* the evidence bundle of a decision.  Where SerialEvaluations leaves open *)
(* what qualifiers and rule operators do, they are the compiled ones.      *)
(***************************************************************************)
EXTENDS SerialEvaluations

CONSTANTS Session,  \* the operational session
          Content,  \* the content of each evidence object
          Document  \* the version that each policy stands for

Bundles == INSTANCE DecisionVerification

Contents(S) == {Content[o] : o \in S}

\* An evidence object is known by its identifier.
ASSUME ContentAssumption ==
  /\ EvidenceObject \subseteq Nat
  /\ \A o \in EvidenceObject :
       Content[o].id = o /\ Content[o].session = Session /\ Content[o].observedAt \in Nat
ASSUME DocumentAssumption ==
  \A p \in Policy : Document[p] # None /\ Document[p].required = Plan[p]
ASSUME QualifierAssumption ==
  \A p \in Qualifiable, S \in SUBSET EvidenceObject, t \in 1 .. MaxTime :
    Qualifies(p, S, t) <=> Bundles!QualifiesUnder(Document[p], Contents(S), Session, t)
ASSUME OperatorAssumption ==
  \A p \in Policy, r \in Rule, S \in SUBSET EvidenceObject :
    Decide(p, r, S) = Bundles!DecideBy(Document[p], r, Contents(S), Failure)

-----------------------------------------------------------------------------
(***************************************************************************)
(* The decision trace of an evaluation whose rules Execute has decided: it *)
(* has recorded them in the order of the plan.                             *)
(***************************************************************************)
TraceBinding == [session : {Session},
                 evidence : SUBSET [id : EvidenceObject, status : QualificationStatus]]

ASSUME AbsenceAssumption ==
  None \notin RuleOutcome \cup TraceBinding \cup {"bundle"} \cup Nat

DecisionTrace(e) ==
  LET a == db[e] IN
  [evaluation |-> e, session |-> Session, state |-> a.state, result |-> a.result,
   required |-> a.requiredRuleIDs,
   outcomes |-> [i \in 1 .. Len(a.requiredRuleIDs) |->
                   [rule |-> a.requiredRuleIDs[i],
                    status |-> a.ruleOutcomes[a.requiredRuleIDs[i]].status]],
   finalizedAt |-> a.completedAt,
   evidenceBinding |->
     [session |-> Session,
      evidence |-> {[id |-> o, status |-> a.evidenceBinding.status] :
                      o \in a.evidenceBinding.evidence}],
   policyBinding |-> Document[a.policyBinding.policy]]

\* A verifier who has nothing but the evidence bundle repeats a decision that
\* Execute and Complete have made, whenever they build the bundle: Build accepts
\* the evidence that was bound, and VerifyDecision confirms every outcome and
\* the result.  Exactly two decisions are out of its reach: those by a document
\* that admission would not have accepted, and those by fewer rules than the
\* bound policy version requires.
DecisionsVerify ==
  \A e \in Eval : Executed(e) /\ db[e].state = "COMPLETED" =>
    LET version == Document[db[e].policyBinding.policy]
        trace == DecisionTrace(e)
        bound == Contents(db[e].evidenceBinding.evidence)
        snapshot == [kind |-> "snapshot", version |-> version]
    IN /\ Bundles!CanBuild("bundle", clock, trace, bound)
       /\ Bundles!VerifyDecision(Bundles!Build("bundle", clock, trace, bound, snapshot))
            <=> /\ Bundles!ValidatePolicyDocument(version)
                /\ db[e].requiredRuleIDs = version.required

\* Rules are decided on unambiguous evidence: of the objects that Execute has
\* read no two observe the same type at the same source and instant, whatever
\* the session had collected and whichever qualifier was used.
EvidenceIsUnambiguous ==
  \A e \in Eval : Executed(e) =>
    \A o, p \in Contents(db[e].evidenceBinding.evidence) :
      <<o.source, o.type, o.observedAt>> = <<p.source, p.type, p.observedAt>> => o = p
=============================================================================
