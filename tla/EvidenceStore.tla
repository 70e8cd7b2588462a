---------------------------- MODULE EvidenceStore ----------------------------
(***************************************************************************)
(* Evidence objects (src/evidence/object.go, service.go) and the table     *)
(* that keeps them (src/persistence/postgres/evidence_repository.go).      *)
(*                                                                         *)
(* A submission is a record [id, session, source, type, observedAt,        *)
(* payload] whose other fields validateSnapshot accepts; a snapshot adds   *)
(* receivedAt and the digest of the payload.  A payload is a JSON text.    *)
(* The table only grows, so that saving and then reading is one step.      *)
(***************************************************************************)
EXTENDS Naturals

CONSTANTS Absent,       \* no object
          Submission,   \* what clients may submit
          Spelling      \* per JSON text, how the value it denotes is written by
                        \* Go and by PostgreSQL, Absent if PostgreSQL refuses it

Text == DOMAIN Spelling

\* What is written is read as the value that was written.
ASSUME SpellingAssumption ==
  \A x \in Text :
    /\ Spelling[x].go \in Text /\ Spelling[Spelling[x].go].go = Spelling[x].go
    /\ Spelling[x].postgres \in Text \cup {Absent}
ASSUME SubmissionAssumption ==
  \A s \in Submission : s.observedAt \in Nat /\ s.payload \in Text

EvidenceObject ==
  [id : {s.id : s \in Submission}, session : {s.session : s \in Submission},
   source : {s.source : s \in Submission}, type : {s.type : s \in Submission},
   observedAt : Nat, payload : Text, receivedAt : Nat, digest : Text]

ASSUME AbsentAssumption == Absent \notin EvidenceObject

VARIABLE evidence       \* per evidence identifier, the stored snapshot or Absent

InitEvidence == evidence = [id \in {s.id : s \in Submission} |-> Absent]

\* Decoded and encoded again: no blanks, sorted keys, numbers as they were
\* written, and <, > and & escaped.
CanonicalJSON(payload) == Spelling[payload].go

\* The column snapshot has the type JSONB, which keeps the value and not the
\* text: it writes blanks after : and between elements, has its own order of
\* keys, writes numbers without exponents and escapes less.
StoredAsJSONB(payload) == Spelling[payload].postgres

ValidSnapshot(s) == s.observedAt > 0 /\ s.receivedAt >= s.observedAt

\* NewObject, with the time of receipt from the clock of the service.
NewObject(s, t) ==
  [id |-> s.id, session |-> s.session, source |-> s.source, type |-> s.type,
   observedAt |-> s.observedAt, payload |-> CanonicalJSON(s.payload),
   receivedAt |-> t, digest |-> CanonicalJSON(s.payload)]

VerifySnapshot(s) ==
  /\ ValidSnapshot(s)
  /\ CanonicalJSON(s.payload) = s.payload
  /\ s.digest = s.payload

\* FindEvidence: an object is there and passes decodeEvidenceSnapshot.
Readable(id) == evidence[id] # Absent /\ VerifySnapshot(evidence[id])

SameSubmission(s, t) == [s EXCEPT !.receivedAt = 0] = [t EXCEPT !.receivedAt = 0]

\* SaveEvidence finds the identifier free, or the same submission under it.
CanSave(s) ==
  /\ VerifySnapshot(s)
  /\ evidence[s.id] # Absent => Readable(s.id) /\ SameSubmission(evidence[s.id], s)

\* The row that the insert makes.
Row(s) == [s EXCEPT !.payload = StoredAsJSONB(@)]

\* Ingest; the insert takes effect even if the object cannot be read back.
Ingest(s, t) ==
  LET o == NewObject(s, t) IN
  /\ CanSave(o)
  /\ evidence[s.id] = Absent => StoredAsJSONB(o.payload) # Absent
  /\ evidence' = IF evidence[s.id] = Absent
                 THEN [evidence EXCEPT ![s.id] = Row(o)] ELSE evidence

\* Ingest answers with the object that it reads back.
Accepted(s, t) ==
  LET o == NewObject(s, t) IN
  /\ CanSave(o)
  /\ evidence[s.id] = Absent => StoredAsJSONB(o.payload) # Absent /\ VerifySnapshot(Row(o))

-----------------------------------------------------------------------------
\* The row was made of this submission, at whatever time it was received.
MadeOf(row, s) ==
  /\ row.session = s.session /\ row.source = s.source /\ row.type = s.type
  /\ row.observedAt = s.observedAt /\ row.digest = CanonicalJSON(s.payload)

\* "Repeating the exact same object is idempotent" (SaveEvidence): what has been
\* stored can be saved again.
\* (Violated: the row holds the text of JSONB.  If it is not the one that Go
\* writes, the row fails its own verification when it is read back.)
RepetitionsAreIdempotent ==
  \A s \in Submission :
    evidence[s.id] # Absent /\ MadeOf(evidence[s.id], s) =>
      CanSave(NewObject(s, evidence[s.id].receivedAt))
=============================================================================
