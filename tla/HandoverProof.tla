---------------------------- MODULE HandoverProof ----------------------------
(***************************************************************************)
(* From the evidence to the portable proof of a handover: evidence objects *)
(* are ingested, a decision is made on them, transactions append to the    *)
(* audit ledger, the evidence bundle of the decision is built, signed,     *)
(* timestamped and certified, and the participants of a transfer sign the  *)
(* binding of it all (src/responsibility/proof_binding.go,                 *)
(* proof_signature.go, proof_verification.go).                             *)
(*                                                                         *)
(* The artefacts are made by different parties who choose their times, and *)
(* a verifier may be handed any combination of them.  An artefact is       *)
(* determined by what it is about and its time, so the state keeps times.  *)
(***************************************************************************)
EXTENDS AuditLedger, EvidenceStore

CONSTANTS BundleID,   \* bundles that are built of the decision
          ProofID,    \* identifiers of proofs
          Trace,      \* the decision trace, with the evidence objects it is
          Bound,      \* based on
          Keys,       \* per signer, its key
          Published,  \* the bundles that are signed
          Revocable,  \* the signers whose keys may be revoked
          DecisionRepeats(_),  \* whether a verifier can repeat the decision
          MaxTime, MaxRevocations, MaxConsents, MaxLedger

ASSUME BoundsAssumption == MaxTime \in Nat /\ Published \subseteq BundleID

ASSUME KeysAssumption ==
  \A s \in DOMAIN Keys :
    Keys[s] \in [validFrom : Nat, validUntil : Nat \cup {None}, revokedAt : Nat \cup {None}]

VARIABLES now,
          revoked,    \* per signer, the time its key is revoked, or None
          built, signed, stamped, certified,  \* per bundle, the time, 0 before
          consents    \* what participants have signed

proofVars == <<revoked, built, signed, stamped, certified, consents>>
vars == <<ledgerVars, evidence, now, proofVars>>

T == INSTANCE BundleTrust

Time == 1 .. MaxTime
Unmade == [b \in BundleID |-> 0]

Init ==
  /\ InitLedger
  /\ InitEvidence
  /\ now = 1
  /\ revoked = [s \in DOMAIN Keys |-> None]
  /\ built = Unmade /\ signed = Unmade /\ stamped = Unmade /\ certified = Unmade
  /\ consents = {}

-----------------------------------------------------------------------------
(***************************************************************************)
(* The artefacts.                                                          *)
(***************************************************************************)
TrustStore == [s \in DOMAIN Keys |-> [Keys[s] EXCEPT !.revokedAt = revoked[s]]]

Bundle(b) ==
  T!Build(b, built[b], Trace, Bound, [kind |-> "snapshot", version |-> Trace.policyBinding])
Signature(b) == T!SignedBy(T!NewSignature(Bundle(b), "signer", signed[b]), "signer")
Timestamp(b) ==
  T!SignedBy(T!NewTrustedTimestamp(Bundle(b), Signature(b), "authority", stamped[b]), "authority")
Certificate(b) ==
  T!SignedBy(T!NewVerificationCertificate(Bundle(b), Timestamp(b), "verifier", certified[b]),
             "verifier")

\* FindTransfer: the committed transfers and their entries.
Transfers == {e.recordRoot : e \in {ledger[i] : i \in {i \in DOMAIN ledger : ledger[i].kind = "handover"}}}

CanBind(transfer, entry, manifest, c) ==
  /\ ValidEntry(entry)
  /\ entry.kind = "handover" /\ entry.recordRoot = transfer
  /\ entry.occurredAt = transfer.at
  /\ T!Certifies(c, manifest)
  /\ c.issuedAt >= transfer.at

NewHandoverProofBinding(proof, transfer, entry, manifest, c) ==
  [proof |-> proof, transfer |-> transfer, entry |-> entry, bundleID |-> manifest.bundleID,
   evaluation |-> manifest.evaluation, session |-> manifest.session,
   bundleRoot |-> manifest.bundleRoot, policy |-> manifest.policy, certificate |-> c]

ValidBinding(p) ==
  /\ p.transfer.from # p.transfer.to /\ p.transfer.version >= 2
  /\ p.certificate.issuedAt >= p.transfer.at

\* handoverSignerParticipant
Participant(p, role) == IF role = "outgoing" THEN p.transfer.from ELSE p.transfer.to

NewHandoverProofSignature(p, role, t) ==
  [role |-> role, participant |-> Participant(p, role), signedAt |-> t, binding |-> p,
   value |-> None]

\* Mutant: the two roles are not told apart.
VerifyEitherParticipant(p, role, s, keys, at) ==
  /\ s.participant = Participant(p, s.role)
  /\ s.binding = p /\ s.signedAt >= p.certificate.issuedAt
  /\ T!Resolves(keys, s.participant, s.value)
  /\ T!InForce(keys[s.participant], s.signedAt) /\ T!InForce(keys[s.participant], at)

VerifyHandoverProofSignature(p, role, s, keys, at) ==
  /\ s.role = role /\ s.participant = Participant(p, role)
  /\ s.binding = p /\ s.signedAt >= p.certificate.issuedAt
  /\ T!Resolves(keys, s.participant, s.value)
  /\ T!InForce(keys[s.participant], s.signedAt) /\ T!InForce(keys[s.participant], at)

VerifyHandoverProofSignatures(p, outgoing, incoming, keys, at) ==
  /\ ValidBinding(p)
  /\ at >= outgoing.signedAt /\ at >= incoming.signedAt
  /\ VerifyHandoverProofSignature(p, "outgoing", outgoing, keys, at)
  /\ VerifyHandoverProofSignature(p, "incoming", incoming, keys, at)

VerifyPortableHandoverProof(f, keys, at) ==
  /\ T!VerifySignature(f.bundle, f.signature, keys, at)
  /\ T!VerifyTrustedTimestamp(f.bundle, f.signature, f.timestamp, keys, at)
  /\ T!VerifyVerificationCertificate(f.bundle, f.timestamp, f.certificate, keys, at)
  /\ CanBind(f.transfer, f.entry, f.bundle.manifest, f.certificate)
  /\ VerifyHandoverProofSignatures(
       NewHandoverProofBinding(f.proof, f.transfer, f.entry, f.bundle.manifest, f.certificate),
       f.outgoing, f.incoming, keys, at)

-----------------------------------------------------------------------------
Entry(transfer) == CHOOSE e \in {ledger[i] : i \in DOMAIN ledger} : e.recordRoot = transfer

\* The binding of a transfer and a certified bundle in a proof.
BindingOf(proof, transfer, b) ==
  NewHandoverProofBinding(proof, transfer, Entry(transfer), Bundle(b).manifest, Certificate(b))

Consent(c) ==
  LET p == BindingOf(c.proof, c.transfer, c.bundle)
  IN T!SignedBy(NewHandoverProofSignature(p, c.role, c.at), Participant(p, c.role))

-----------------------------------------------------------------------------
(***************************************************************************)
(* The steps.  Bounds: evidence comes in first, at time 1, and all that    *)
(* follows is explored with the evidence of the decision alone.  The proof *)
(* is put together when the ledger is at rest and holds all the transfers, *)
(* for it reads nothing but committed, immutable records.                  *)
(***************************************************************************)
AtRest == \A w \in Writer : call[w] = None
Settled ==
  /\ AtRest /\ Len(ledger) <= MaxLedger
  /\ \A j \in Job : j.kind = "handover" => j \in Transfers

\* The evidence of the decision is in the store.
DecisionMade ==
  /\ \A o \in Bound : Readable(o.id) /\ evidence[o.id].payload = o.payload[<<>>].text
  /\ \A id \in DOMAIN evidence \ T!IDs(Bound) : evidence[id] = Absent

IngestEvidence ==
  /\ AtRest /\ ledger = <<>> /\ now = 1
  /\ \E s \in Submission : Ingest(s, now)
  /\ UNCHANGED <<ledgerVars, now, proofVars>>

Transaction ==
  /\ \E w \in Writer :
       \/ \E j \in Job : DecisionMade /\ built = Unmade /\ j.at <= now /\ BeginTx(w, j)
       \/ Step(w)
       \/ Fail(w)
  /\ UNCHANGED <<evidence, now, proofVars>>

BuildBundle(b) ==
  /\ Settled /\ DecisionMade
  /\ built[b] = 0 /\ T!CanBuild(b, now, Trace, Bound)
  /\ built' = [built EXCEPT ![b] = now]
  /\ UNCHANGED <<ledgerVars, evidence, now, revoked, signed, stamped, certified, consents>>

SignBundle(b, t) ==
  /\ built[b] > 0 /\ signed[b] = 0 /\ T!CanSign(Bundle(b), t)
  /\ signed' = [signed EXCEPT ![b] = t]
  /\ UNCHANGED <<ledgerVars, evidence, now, revoked, built, stamped, certified, consents>>

\* The authority is handed a verified bundle.
StampBundle(b, t) ==
  /\ signed[b] > 0 /\ stamped[b] = 0
  /\ T!VerifySignature(Bundle(b), Signature(b), TrustStore, now)
  /\ T!CanTimestamp(Signature(b), t)
  /\ stamped' = [stamped EXCEPT ![b] = t]
  /\ UNCHANGED <<ledgerVars, evidence, now, revoked, built, signed, certified, consents>>

Archive(b) == T!ExportTimestampedArchive(Bundle(b), Signature(b), Timestamp(b))

\* The verifier works from an archive.
CertifyBundle(b, t) ==
  /\ stamped[b] > 0 /\ certified[b] = 0
  /\ T!ImportTimestampedArchive(Archive(b), TrustStore, now)
  /\ T!CanCertify(Bundle(b), Timestamp(b), t)
  /\ T!ValidCertificate(T!NewVerificationCertificate(Bundle(b), Timestamp(b), "verifier", t))
  /\ certified' = [certified EXCEPT ![b] = t]
  /\ UNCHANGED <<ledgerVars, evidence, now, revoked, built, signed, stamped, consents>>

SignProof(proof, transfer, b, role, t) ==
  /\ certified[b] > 0 /\ Cardinality(consents) < MaxConsents
  /\ CanBind(transfer, Entry(transfer), Bundle(b).manifest, Certificate(b))
  /\ ValidBinding(BindingOf(proof, transfer, b)) /\ t >= certified[b]
  /\ consents' = consents \cup {[proof |-> proof, transfer |-> transfer, bundle |-> b,
                                role |-> role, at |-> t]}
  /\ UNCHANGED <<ledgerVars, evidence, now, revoked, built, signed, stamped, certified>>

\* A revocation may take effect in the past.
RevokeKey(s, t) ==
  /\ built # Unmade /\ revoked[s] = None /\ t >= Keys[s].validFrom
  /\ Cardinality({x \in DOMAIN Keys : revoked[x] # None}) < MaxRevocations
  /\ revoked' = [revoked EXCEPT ![s] = t]
  /\ UNCHANGED <<ledgerVars, evidence, now, built, signed, stamped, certified, consents>>

Tick ==
  /\ AtRest /\ now < MaxTime
  /\ now' = now + 1
  /\ UNCHANGED <<ledgerVars, evidence, proofVars>>

Next ==
  \/ IngestEvidence
  \/ Transaction
  \/ \E b \in BundleID : BuildBundle(b)
  \/ \E b \in Published, t \in 1 .. now : SignBundle(b, t) \/ StampBundle(b, t) \/ CertifyBundle(b, t)
  \/ \E proof \in ProofID, transfer \in Transfers, b \in BundleID,
        role \in {"outgoing", "incoming"}, t \in 1 .. now :
       SignProof(proof, transfer, b, role, t)
  \/ \E s \in Revocable, t \in Time : RevokeKey(s, t)
  \/ Tick

Spec == Init /\ [][Next]_vars /\ LedgerFairness

-----------------------------------------------------------------------------
Made(time) == {b \in BundleID : time[b] > 0}

Trusted(s, t) == s \in DOMAIN TrustStore /\ T!InForce(TrustStore[s], t)
TrustedNow(s, t) == Trusted(s, t) /\ Trusted(s, now)

\* VerifyPortableHandoverProof accepts, of all the combinations of artefacts
\* that a verifier may be handed, exactly the coherent ones: the entry is the
\* one of the transfer; signature, timestamp and certificate are those of the
\* bundle; both participants have signed, each in their role, for this transfer
\* and this bundle and under the identifier of this proof; and every key was in
\* force when it was used, and all but the one of the timestamp authority still
\* are.
CoherentProofsVerify ==
  \A id \in ProofID, x, y \in Transfers, b \in Made(built), s \in Made(signed), ts \in Made(stamped),
     c \in Made(certified), out, in \in consents :
    VerifyPortableHandoverProof(
      [proof |-> id, transfer |-> x, entry |-> Entry(y), bundle |-> Bundle(b),
       signature |-> Signature(s), timestamp |-> Timestamp(ts), certificate |-> Certificate(c),
       outgoing |-> Consent(out), incoming |-> Consent(in)], TrustStore, now)
    <=> /\ x = y /\ {s, ts, c} = {b}
        /\ out.role = "outgoing" /\ in.role = "incoming"
        /\ \A k \in {out, in} : k.proof = id /\ k.transfer = x /\ k.bundle = b
        /\ TrustedNow("signer", signed[b]) /\ TrustedNow("verifier", certified[b])
        /\ Trusted("authority", stamped[b])
        /\ TrustedNow(x.from, out.at) /\ TrustedNow(x.to, in.at)

\* The archive of a timestamped bundle outlives the key that signed it: it can
\* be imported at any later time unless one of the two keys is revoked with
\* effect from the timestamp or before.
ArchivesEndure ==
  \A b \in Made(stamped) :
    T!ImportTimestampedArchive(Archive(b), TrustStore, now)
    <=> \A s \in {"signer", "authority"} : Trusted(s, stamped[b])
=============================================================================
