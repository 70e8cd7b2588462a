----------------------------- MODULE MCPDSService -----------------------------
(***************************************************************************)
(* PDSService with one rule, one evidence object and two requests at a     *)
(* time.  Of the two policy versions only p1 has a qualifier and a rule    *)
(* that can be compiled.                                                   *)
(***************************************************************************)
EXTENDS PDSService, TLC

CONSTANTS r1, p1, p2, aging, w1, w2

MCRule == {r1}
MCPolicy == {p1, p2}
MCPlan == (p1 :> <<r1>>) @@ (p2 :> <<r1>>)
MCEvidenceObject == {aging}
MCQualifiable == {p1}
MCQualifies(p, S, t) == t <= 1

\* The rule fails without the aging object.
MCDecide(p, r, S) ==
  IF p = p2 THEN Failure ELSE IF aging \in S THEN "PASS" ELSE "FAIL"

MCWorker == {w1, w2}
MCSymmetry == Permutations(MCWorker)
=============================================================================
