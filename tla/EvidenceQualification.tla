------------------------ MODULE EvidenceQualification ------------------------
(***************************************************************************)
(* The qualification of src/evidence/qualification.go: which objects of an *)
(* evidence set a qualification policy rejects at a given time, and why.   *)
(*                                                                         *)
(* An evidence object is a record                                          *)
(*   [id, session, source, type, observedAt, confidence, provenance,       *)
(*    payload, method].                                                    *)
(* Its payload maps every JSON pointer that resolves in it, a sequence of  *)
(* tokens, to the value found there: <<>> to the whole payload and <<k>>   *)
(* to its field k or, if it is an array, to an element.  A value is a      *)
(* record [kind, number, text] of its kind ("object", "array" or           *)
(* "scalar"), the number it denotes, None if it denotes none, and its      *)
(* canonical text.  Identifiers are numbers, ordered as their strings are, *)
(* and confidence is in percent.  The payload stands for its digest:       *)
(* objects come from NewObject or Rehydrate, which see to that.            *)
(***************************************************************************)
EXTENDS Sequences, FiniteSetsExt

CONSTANT None

Null == [kind |-> "scalar", number |-> None, text |-> "null"]

\* Only an object has fields.
HasField(o, k) ==
  /\ o.payload[<<>>].kind = "object"
  /\ <<k>> \in DOMAIN o.payload /\ o.payload[<<k>>] # Null

When(condition, reason) == IF condition THEN {reason} ELSE {}

\* Which checks of one object fail.  An empty set of trusted sources, allowed
\* types or methods allows them all.
QualifyReasons(q, o, t) ==
  LET excluded(S, x) == S # {} /\ x \notin S
      future == o.observedAt > t + q.futureTolerance
  IN UNION {
    When(excluded(q.trustedSources, o.source), "SOURCE_UNTRUSTED"),
    When(excluded(q.allowedTypes, o.type), "TYPE_NOT_ALLOWED"),
    When(future, "TIMESTAMP_FUTURE"),
    When(~future /\ q.maxAge > 0 /\ t - o.observedAt > q.maxAge, "EVIDENCE_EXPIRED"),
    When(o.confidence = None /\ (q.requireConfidence \/ q.minimumConfidence # None),
         "CONFIDENCE_MISSING"),
    When(/\ o.confidence # None /\ q.minimumConfidence # None
         /\ o.confidence < q.minimumConfidence, "CONFIDENCE_LOW"),
    When(~(q.requiredProvenance \subseteq o.provenance), "PROVENANCE_MISSING"),
    When(\E k \in q.requiredPayloadFields : ~HasField(o, k), "PAYLOAD_FIELD_MISSING"),
    When(excluded(q.allowedMethods, o.method), "ACQUISITION_DENIED")}

\* The order of the listing: by observation time, then by identifier.
Earlier(o, p) ==
  o.observedAt < p.observedAt \/ (o.observedAt = p.observedAt /\ o.id < p.id)

\* The objects of the session that observe what o observes.
Group(S, session, o) ==
  {p \in S : /\ p.session = session
             /\ <<p.source, p.type, p.observedAt>> = <<o.source, o.type, o.observedAt>>}

\* Mutant: only copies of an object are rejected.
SetReasonsCopiesOnly(S, session, o) ==
  IF o.session # session THEN {"SESSION_MISMATCH"}
  ELSE When(\E p \in Group(S, session, o) : Earlier(p, o) /\ p.payload = o.payload,
            "DUPLICATE_OBSERVATION")

\* What the rest of the set adds: a foreign session, payloads that contradict
\* each other, or an earlier object that says the same.
SetReasons(S, session, o) ==
  LET group == Group(S, session, o)
      conflicting == \E p \in group : p.payload # o.payload
  IN CASE o.session # session -> {"SESSION_MISMATCH"}
       [] o.session = session /\ conflicting -> {"CONFLICTING_OBSERVATION"}
       [] OTHER -> When(\E p \in group : Earlier(p, o), "DUPLICATE_OBSERVATION")

Reasons(q, S, session, o, t) == QualifyReasons(q, o, t) \cup SetReasons(S, session, o)

QualifySet(q, S, session, t) ==
  CASE S = {} -> "UNAVAILABLE"
    [] S # {} /\ (\A o \in S : Reasons(q, S, session, o, t) = {}) -> "QUALIFIED"
    [] OTHER -> "REJECTED"

\* NewQualifier: the policies that can be used.
ValidQualificationPolicy(q) ==
  /\ q.version # None
  /\ q.maxAge >= 0 /\ q.futureTolerance >= 0
  /\ q.minimumConfidence # None => q.minimumConfidence \in 0 .. 100
=============================================================================
