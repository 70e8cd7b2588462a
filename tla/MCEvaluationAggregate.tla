----------------------- MODULE MCEvaluationAggregate -----------------------
(***************************************************************************)
(* EvaluationAggregate with values for its parameters.  The time of the    *)
(* policy binding precedes the creation of an evaluation created at 2, and *)
(* one of the evidence bindings is of another session.                     *)
(***************************************************************************)
EXTENDS EvaluationAggregate, TLC

CONSTANTS r1, r2

MCRule == {r1, r2}
MCEvidenceBinding ==
  {[status |-> "QUALIFIED", evidence |-> {"o"}, qualifiedAt |-> 1, ownSession |-> own] :
     own \in BOOLEAN}
MCPolicyBinding == {[policy |-> "p", boundAt |-> 1]}
MCSymmetry == Permutations({r1, r2})
=============================================================================
