--------------------------- MODULE MCHandoverProof ---------------------------
(***************************************************************************)
(* HandoverProof with one decision, two transfers of an object, and the    *)
(* records of an evaluation and an estimator beside them.                  *)
(***************************************************************************)
EXTENDS HandoverProof, TLC

CONSTANTS w1, w2, b1, b2

Verifier == INSTANCE DecisionVerification
MCDecisionRepeats(b) == Verifier!VerifyDecision(b)

Record(kind, id, version, at) == [kind |-> kind, id |-> id, version |-> version, at |-> at]
Transfer(version, at, from, to) ==
  [kind |-> "handover", id |-> "object", version |-> version, at |-> at, from |-> from,
   to |-> to]

MCJob ==
  {Record("evaluation", "evaluation", 1, 1), Record("estimator", "estimate", 1, 1),
   Record("append", "note", 1, 1),
   Transfer(2, 1, "A", "B"), Transfer(3, 2, "B", "C")}

-----------------------------------------------------------------------------
Written(go, postgres) == [go |-> go, postgres |-> postgres]

\* What becomes of a word, of the same word between blanks, of another one, of
\* numbers, of arrays and objects, of a string with an ampersand that Go escapes
\* (u0026), and of one with the character that PostgreSQL refuses (u0000).
MCSpelling ==
  ("true" :> Written("true", "true")) @@ (" true " :> Written("true", "true")) @@
  ("false" :> Written("false", "false")) @@
  ("1e2" :> Written("1e2", "100")) @@ ("100" :> Written("100", "100")) @@
  ("[1]" :> Written("[1]", "[1]")) @@
  ("{k:1}" :> Written("{k:1}", "{k: 1}")) @@ ("{k: 1}" :> Written("{k:1}", "{k: 1}")) @@
  ("u0026" :> Written("u0026", "&")) @@ ("&" :> Written("u0026", "&")) @@
  ("u0000" :> Written("u0000", Absent))

Submit(id, payload) ==
  [id |-> id, type |-> "SEAL", source |-> "s1", observedAt |-> 1, session |-> "session",
   payload |-> payload]

\* The evidence of the decision, the same value written otherwise, another one
\* under the same identifier, and all the rest under a second identifier.
MCSubmission ==
  {Submit(1, x) : x \in {"true", " true ", "false"}} \cup {Submit(2, x) : x \in Text}

MCBound ==
  {[id |-> 1, type |-> "SEAL", source |-> "s1", observedAt |-> 1, session |-> "session",
    payload |-> (<<>> :> [kind |-> "scalar", number |-> None, text |-> "true"]),
    confidence |-> 80, provenance |-> {"device"}, method |-> "HTTP"]}

Document ==
  [schema |-> "policy.document.v1",
   qualification |->
     [version |-> "q1", trustedSources |-> <<"s1">>, allowedTypes |-> <<>>,
      allowedMethods |-> <<"HTTP">>, maxAge |-> 0, futureTolerance |-> 0,
      requireConfidence |-> FALSE, minimumConfidence |-> None,
      requiredProvenance |-> <<"device">>, requiredPayloadFields |-> <<>>],
   rules |-> <<[ruleID |-> "r", operator |-> "EXISTENCE", sourceID |-> "s1", minimumCount |-> 1,
                evidenceType |-> [text |-> "SEAL", trimmed |-> "SEAL"]]>>,
   required |-> <<"r">>]

MCTrace ==
  [evaluation |-> "evaluation", session |-> "session", state |-> "COMPLETED",
   result |-> "VERIFIED", required |-> <<"r">>,
   outcomes |-> <<[rule |-> "r", status |-> "PASS"]>>, finalizedAt |-> 1,
   evidenceBinding |-> [session |-> "session", evidence |-> {[id |-> 1, status |-> "QUALIFIED"]}],
   policyBinding |-> Document]

\* The key of the bundle signer expires at time 3.
Key(until) == [validFrom |-> 1, validUntil |-> until, revokedAt |-> None]
MCKeys ==
  [s \in {"signer", "authority", "verifier", "A", "B", "C"} |->
     Key(IF s = "signer" THEN 3 ELSE None)]
=============================================================================
