---------------------------- MODULE EvidenceBundle ----------------------------
(***************************************************************************)
(* Evidence bundles (src/evidencebundle/bundle.go, policy_snapshot.go):    *)
(* what is packed of a decision, and how the pack is checked.              *)
(*                                                                         *)
(* A digest stands for what it is computed from: the root of a manifest is *)
(* the rest of the manifest, the descriptor of an object is the object,    *)
(* and the hash of a policy version is the version.  A decision trace is a *)
(* record [evaluation, session, state, result, required, outcomes,         *)
(* finalizedAt, evidenceBinding, policyBinding]; the status of an outcome  *)
(* stands for its reason codes too.  Time 0 is the zero time.              *)
(***************************************************************************)
EXTENDS Naturals

CONSTANT None

IDs(S) == {o.id : o \in S}

\* The objects are exactly the ones bound, and of the session.
BuildObjects(trace, S) ==
  /\ \A o \in S : o.session = trace.session
  /\ IDs(S) = IDs(trace.evidenceBinding.evidence)

CanBuild(id, generatedAt, trace, S) ==
  /\ id # None /\ generatedAt > 0
  /\ trace.state \in {"COMPLETED", "EXPIRED"}
  /\ trace.finalizedAt > 0 /\ trace.finalizedAt <= generatedAt
  /\ trace.policyBinding # None
  /\ trace.evidenceBinding # None
  /\ trace.evidenceBinding.session = trace.session
  /\ BuildObjects(trace, S)

CalculateRoot(manifest) == [manifest EXCEPT !.bundleRoot = None]

\* Build and BuildWithPolicySnapshot; the former packs a reference only.
WithRoot(manifest) == [manifest EXCEPT !.bundleRoot = CalculateRoot(manifest)]
Build(id, generatedAt, trace, S, policyObject) ==
  LET objects == [trace |-> trace, policy |-> policyObject, evidence |-> S]
  IN [manifest |-> WithRoot([bundleID |-> id, evaluation |-> trace.evaluation,
                             session |-> trace.session, generatedAt |-> generatedAt,
                             policy |-> trace.policyBinding, objects |-> objects,
                             bundleRoot |-> None]),
      objects |-> objects]

VerifyBundle(b) ==
  /\ b.manifest.bundleID # None /\ b.manifest.generatedAt > 0
  /\ CalculateRoot(b.manifest) = b.manifest.bundleRoot
  /\ b.objects = b.manifest.objects
=============================================================================
