----------------------------- MODULE BundleTrust -----------------------------
(***************************************************************************)
(* What makes an evidence bundle trustworthy without the service that made *)
(* it (src/evidencebundle: signature.go, timestamp.go, signed_archive.go,  *)
(* timestamped_archive.go, verification_certificate.go): the signature,    *)
(* the trusted timestamp, the archive and the verification certificate.    *)
(*                                                                         *)
(* A hash stands for what is hashed.  A value is the name of the signer    *)
(* whose key has signed the other fields, None before that.  A trust store *)
(* maps each signer to its key, [validFrom, validUntil, revokedAt].        *)
(***************************************************************************)
EXTENDS EvidenceBundle

CONSTANT DecisionRepeats(_)  \* VerifyDecision, of a bundle

Before(t, limit) == limit # None => t < limit
InForce(key, t) ==
  key.validFrom <= t /\ Before(t, key.validUntil) /\ Before(t, key.revokedAt)

\* ResolveVerificationKey finds the key, and it has made the value.
Resolves(keys, signer, value) == signer \in DOMAIN keys /\ value = signer

-----------------------------------------------------------------------------
CanSign(b, t) == VerifyBundle(b) /\ t >= b.manifest.generatedAt

NewSignature(b, signer, t) ==
  [signer |-> signer, signingTime |-> t, manifest |-> b.manifest,
   bundleRoot |-> b.manifest.bundleRoot, value |-> None]

SignedBy(artefact, signer) == [artefact EXCEPT !.value = signer]

ValidSignatureBinding(b, s) ==
  /\ VerifyBundle(b)
  /\ s.signingTime >= b.manifest.generatedAt
  /\ s.manifest = b.manifest /\ s.bundleRoot = b.manifest.bundleRoot

\* The key must be in force when it signs and still when it is verified.
VerifySignature(b, s, keys, at) ==
  /\ at >= s.signingTime
  /\ ValidSignatureBinding(b, s)
  /\ Resolves(keys, s.signer, s.value)
  /\ InForce(keys[s.signer], s.signingTime) /\ InForce(keys[s.signer], at)

-----------------------------------------------------------------------------
CanTimestamp(s, t) == t >= s.signingTime

NewTrustedTimestamp(b, s, authority, t) ==
  [authority |-> authority, issuedAt |-> t, signature |-> s,
   bundleRoot |-> b.manifest.bundleRoot, value |-> None]

\* The key of the authority counts at the time of issue only.
VerifyTrustedTimestamp(b, s, ts, keys, at) ==
  /\ at >= ts.issuedAt /\ ts.issuedAt >= s.signingTime
  /\ ts.signature = s /\ ts.bundleRoot = b.manifest.bundleRoot
  /\ Resolves(keys, ts.authority, ts.value)
  /\ InForce(keys[ts.authority], ts.issuedAt)

-----------------------------------------------------------------------------
(***************************************************************************)
(* The archive holds the manifest, the objects, the signature and the      *)
(* timestamp, each as its canonical text.                                  *)
(***************************************************************************)
ExportTimestampedArchive(b, s, ts) ==
  [manifest |-> b.manifest, objects |-> b.objects, signature |-> s, timestamp |-> ts]

BundleFromArchiveEntries(a) == [manifest |-> a.manifest, objects |-> a.objects]

ImportSignedArchive(a, keys, at) ==
  LET b == BundleFromArchiveEntries(a) IN VerifyBundle(b) /\ VerifySignature(b, a.signature, keys, at)

\* Mutant: the signature is verified as of today.
ImportAsOfToday(a, keys, at) ==
  /\ ImportSignedArchive(a, keys, at)
  /\ VerifyTrustedTimestamp(BundleFromArchiveEntries(a), a.signature, a.timestamp, keys, at)

ImportTimestampedArchive(a, keys, at) ==
  /\ ImportSignedArchive(a, keys, a.timestamp.issuedAt)
  /\ VerifyTrustedTimestamp(BundleFromArchiveEntries(a), a.signature, a.timestamp, keys, at)

-----------------------------------------------------------------------------
CanCertify(b, ts, t) == DecisionRepeats(b) /\ t >= ts.issuedAt

\* A decision that VerifyDecision has confirmed has one result and one list of
\* outcomes, the stored ones.
NewVerificationCertificate(b, ts, verifier, t) ==
  [bundleID |-> b.manifest.bundleID, evaluation |-> b.manifest.evaluation,
   bundleRoot |-> b.manifest.bundleRoot, policy |-> b.manifest.policy,
   result |-> b.objects.trace.result, outcomes |-> b.objects.trace.outcomes,
   timestamp |-> ts, verifier |-> verifier, issuedAt |-> t, value |-> None]

\* validateVerificationCertificate, when it is signed and when it is verified.
ValidCertificate(c) ==
  c.result # "UNKNOWN" /\ c.outcomes # <<>> /\ c.issuedAt >= c.timestamp.issuedAt

Certifies(c, manifest) ==
  /\ c.bundleID = manifest.bundleID /\ c.evaluation = manifest.evaluation
  /\ c.bundleRoot = manifest.bundleRoot /\ c.policy = manifest.policy

VerifyVerificationCertificate(b, ts, c, keys, at) ==
  /\ at >= c.issuedAt /\ c.issuedAt >= ts.issuedAt
  /\ ValidCertificate(c)
  /\ Certifies(c, b.manifest) /\ c.timestamp = ts
  /\ DecisionRepeats(b)
  /\ c.result = b.objects.trace.result /\ c.outcomes = b.objects.trace.outcomes
  /\ Resolves(keys, c.verifier, c.value)
  /\ InForce(keys[c.verifier], c.issuedAt) /\ InForce(keys[c.verifier], at)
=============================================================================
