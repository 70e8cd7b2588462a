------------------------- MODULE MCSerialEvaluations -------------------------
(***************************************************************************)
(* VerifiableDecisions with two policy documents and three evidence        *)
(* objects, so that the qualification and rule operators are the code's.   *)
(***************************************************************************)
EXTENDS VerifiableDecisions, Integers, TLC

CONSTANTS r1, r2, p1, p2

-----------------------------------------------------------------------------
(***************************************************************************)
(* Values, evidence and documents.                                         *)
(***************************************************************************)
Scalar(number, text) == [kind |-> "scalar", number |-> number, text |-> text]
OnePointZero == Scalar(1, "1.0")
Two == Scalar(2, "2")
Word == Scalar(None, "closed")

\* The payload {"field": v}.
Payload(v) == (<<>> :> [kind |-> "object", number |-> None, text |-> <<"field", v.text>>])
              @@ (<<"field">> :> v)

Object(id, type, source, observedAt, value) ==
  [id |-> id, type |-> type, source |-> source, observedAt |-> observedAt,
   session |-> Session, confidence |-> 80, provenance |-> {"device"},
   payload |-> Payload(value), method |-> "HTTP"]

Type(text) == [text |-> text, trimmed |-> text]
Selector(type, source) ==
  [type |-> Type(type), source |-> source, pointer |-> <<"field">>]

Match(id, s, v) ==
  [ruleID |-> id, operator |-> "MATCH", selector |-> s, expected |-> v]
Step(s, v) == [selector |-> s, expected |-> v]
Existence(id, type, source, n) ==
  [ruleID |-> id, operator |-> "EXISTENCE", evidenceType |-> Type(type), sourceID |-> source,
   minimumCount |-> n]
Sequence(id, steps, gap, window) ==
  [ruleID |-> id, operator |-> "SEQUENCE", steps |-> steps, maxGap |-> gap,
   maxDuration |-> window]

Qualifier(sources, types, maxAge, fields, minimum) ==
  [version |-> "q1", trustedSources |-> sources, allowedTypes |-> types,
   allowedMethods |-> <<"HTTP">>, maxAge |-> maxAge, futureTolerance |-> 0,
   requireConfidence |-> FALSE, minimumConfidence |-> minimum,
   requiredProvenance |-> <<"device">>, requiredPayloadFields |-> fields]
Version(q, rules, required) ==
  [schema |-> "policy.document.v1", qualification |-> q, rules |-> rules,
   required |-> required]

-----------------------------------------------------------------------------
(***************************************************************************)
(* The evaluations.  Objects 1 and 3 contradict each other, and object 2   *)
(* is too old from time 3 on, but not for p1.  Admission would reject p1:  *)
(* its rule wants evidence of a source that its qualifier does not trust.  *)
(***************************************************************************)
MCRule == {r1, r2}
MCPolicy == {p1, p2}
MCPlan == (p1 :> <<r1>>) @@ (p2 :> <<r2, r1>>)
MCEvidenceObject == {1, 2, 3}

MCContent == <<Object(1, "SEAL", "s1", 1, Word),
               Object(2, "WEIGHT", "s1", 0, OnePointZero),
               Object(3, "SEAL", "s1", 1, Two)>>

Weight == Selector("WEIGHT", None)
Seal == Selector("SEAL", "s1")

MCDocument ==
  (p1 :> Version(Qualifier(<<"s1">>, <<>>, 0, <<>>, None),
                 <<Existence(r1, "SEAL", "s2", 1)>>, MCPlan[p1])) @@
  (p2 :> Version(Qualifier(<<"s1">>, <<>>, 2, <<"field">>, 80),
                 <<Match(r1, Seal, Word),
                   Sequence(r2, <<Step(Weight, OnePointZero), Step(Seal, Word)>>, 1, 0)>>,
                 MCPlan[p2]))

MCQualifiable == {p \in MCPolicy : Bundles!CompileQualificationPolicy(Document[p])}
MCQualifies(p, S, t) == Bundles!QualifiesUnder(Document[p], Contents(S), Session, t)
MCDecide(p, r, S) == Bundles!DecideBy(Document[p], r, Contents(S), Failure)
=============================================================================
