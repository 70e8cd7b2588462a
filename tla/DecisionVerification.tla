------------------------- MODULE DecisionVerification -------------------------
(***************************************************************************)
(* How a verifier who has nothing but an evidence bundle repeats the       *)
(* decision in it (src/evidencebundle/independent_verification.go and      *)
(* policy_snapshot.go).                                                    *)
(***************************************************************************)
EXTENDS PolicyDocument

INSTANCE EvidenceBundle

\* PolicySnapshot: the complete version, and the one of the manifest.
HasPolicySnapshot(b) ==
  /\ VerifyBundle(b)
  /\ b.objects.policy.kind = "snapshot"
  /\ b.objects.policy.version = b.manifest.policy

VerificationInputs(b) ==
  LET trace == b.objects.trace IN
  /\ trace.evidenceBinding # None
  /\ \A o \in trace.evidenceBinding.evidence : o.status = "QUALIFIED"
  /\ BuildObjects(trace, b.objects.evidence)

\* Mutant: the first problem decides.
UpdateIfVerified(result, status) ==
  IF result # "VERIFIED" THEN result
  ELSE CASE status = "FAIL" -> "REJECTED"
         [] status = "INCONCLUSIVE" -> "MANUAL_REVIEW"
         [] status = "WARNING" -> "VERIFIED_WITH_EXCEPTION"
         [] OTHER -> result

UpdateVerificationResult(result, status) ==
  CASE status = "FAIL" -> "REJECTED"
    [] status = "INCONCLUSIVE" /\ result # "REJECTED" -> "MANUAL_REVIEW"
    [] status = "WARNING" /\ result = "VERIFIED" -> "VERIFIED_WITH_EXCEPTION"
    [] OTHER -> result

Recalculated(b) ==
  LET trace == b.objects.trace
      status(i) == DecideBy(b.objects.policy.version, trace.required[i],
                            b.objects.evidence, None)
  IN [i \in 1 .. Len(trace.required) |->
        [rule |-> trace.required[i], status |-> status(i)]]

RecalculatedResult(outcomes) ==
  LET after[i \in 0 .. Len(outcomes)] ==
        IF i = 0 THEN "VERIFIED"
        ELSE UpdateVerificationResult(after[i - 1], outcomes[i].status)
  IN after[Len(outcomes)]

VerifyDecision(b) ==
  LET trace == b.objects.trace IN
  /\ HasPolicySnapshot(b) /\ VerificationInputs(b)
  /\ trace.state = "COMPLETED" /\ trace.finalizedAt > 0 /\ trace.required # <<>>
  /\ trace.evaluation = b.manifest.evaluation /\ trace.session = b.manifest.session
  /\ trace.policyBinding = b.objects.policy.version
  /\ trace.required = b.objects.policy.version.required
  /\ ValidatePolicyDocument(b.objects.policy.version)
  /\ trace.outcomes = Recalculated(b)
  /\ trace.result = RecalculatedResult(trace.outcomes)
=============================================================================
