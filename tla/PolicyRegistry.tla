---------------------------- MODULE PolicyRegistry ----------------------------
(***************************************************************************)
(* The versions of one policy, from admission to retirement: the trust     *)
(* store, the Admission Service, the two registries and their lifecycle    *)
(* (src/policy and its PostgreSQL form), driven by operators through the   *)
(* commands of src/cmd, and resolved for new evaluations.  Policies do not *)
(* interact, so there is one.                                              *)
(*                                                                         *)
(* An admission reads the verification key and writes the registry later;  *)
(* other commands may come between.  Every write is one transaction under  *)
(* the advisory lock of the policy (or one critical section in memory), so *)
(* it is one step.  PostgreSQL keeps times to the microsecond (Trunc), may *)
(* fail a transaction and may lose its answer; the operator then repeats   *)
(* the same command.                                                       *)
(***************************************************************************)
EXTENDS Naturals, Sequences

CONSTANTS KeyID, VersionID,
          Material,   \* public keys
          Content,    \* rules and documents; the hash stands for a Snapshot
          ValidDocument(_), \* does the validator accept a document?
          Operator,
          Request,    \* the commands that operators may give
          EvalTime,   \* the creation times of evaluations
          Trunc(_),   \* what PostgreSQL keeps of a time
          MaxTime,    \* bound: the last time in a command
          None

Time == 1 .. MaxTime

\* t precedes an end that may be open.
Before(t, end) == end # None => t < end

Snapshot ==
  {s \in [id : VersionID, from : Time, until : Time \cup {None}, content : Content] :
     Before(s.from, s.until)}
\* In memory a key may lack the start of its validity (0).
VerificationKey == [material : Material, validFrom : Time \cup {0}, validUntil : Time \cup {None},
                    revokedAt : Time \cup {None}]
\* sound: the signature and the approval are for this snapshot and complete.
AnyRequest ==
  [op : {"register"}, id : KeyID, key : VerificationKey]
  \cup [op : {"revoke"}, id : KeyID, at : Time]
  \cup [op : {"admit"}, snapshot : Snapshot, key : KeyID, signedAt : Time,
        approvedAt : Time, verifiedAt : Time, activatedAt : Time, sound : BOOLEAN]
  \cup [op : {"suspend", "retire"}, id : VersionID, at : Time]

ASSUME RequestAssumption == MaxTime \in Nat /\ Request \subseteq AnyRequest /\ EvalTime \subseteq Time
ASSUME TruncAssumption ==
  /\ \A t \in Time : Trunc(t) \in Time /\ Trunc(t) <= t /\ Trunc(Trunc(t)) = Trunc(t)
  /\ \A t, u \in Time : t <= u => Trunc(t) <= Trunc(u)
ASSUME NoneAssumption == None \notin Time \cup VerificationKey

Status == {"ACTIVE", "SUSPENDED", "RETIRED"}
LifecycleEvent == [status : Status, at : Time]
\* A registry entry; seen is the key as the Verifier resolved it.
Entry == [snapshot : Snapshot, from : Time, until : Time \cup {None}, key : KeyID,
          signedAt : Time, verifiedAt : Time, approvedAt : Time,
          seen : VerificationKey, log : Seq(LifecycleEvent)]
\* A command in the hands of its operator; seen once an admission is verified.
Command == [request : Request, step : {"ready", "verified", "refused"},
            seen : VerificationKey \cup {None}]

ASSUME EntryAssumption == None \notin Entry \cup Command

VARIABLES backend,   \* which registry and trust store are in use
          keys,      \* the trust store: a key or None
          versions,  \* the registry: an Entry or None
          command,   \* per operator, the command being run, or None
          bound      \* the bindings of evaluations: snapshot and creation time

vars == <<backend, keys, versions, command, bound>>

Init ==
  /\ backend \in {"memory", "postgres"}
  /\ keys = [k \in KeyID |-> None]
  /\ versions = [v \in VersionID |-> None]
  /\ command = [o \in Operator |-> None]
  /\ bound = {}

Kept(t) == IF backend = "postgres" THEN Trunc(t) ELSE t
KeptOptional(t) == IF t = None THEN None ELSE Kept(t)
-----------------------------------------------------------------------------
(***************************************************************************)
(* How a command ends.                                                     *)
(***************************************************************************)
Issue(o, r) ==
  /\ command[o] = None
  /\ command' = [command EXCEPT ![o] = [request |-> r, step |-> "ready", seen |-> None]]
  /\ UNCHANGED <<backend, keys, versions, bound>>

\* The command succeeds; PostgreSQL may lose the answer.
Succeed(o) ==
  \/ command' = [command EXCEPT ![o] = None]
  \/ /\ backend = "postgres"
     /\ command' = [command EXCEPT ![o] = [@ EXCEPT !.step = "ready", !.seen = None]]

Refuse(o) ==
  /\ command' = [command EXCEPT ![o] = [@ EXCEPT !.step = "refused", !.seen = None]]
  /\ UNCHANGED <<backend, keys, versions, bound>>

\* The operator gives up, or has read the refusal.
Dismiss(o) ==
  /\ command[o] # None
  /\ command' = [command EXCEPT ![o] = None]
  /\ UNCHANGED <<backend, keys, versions, bound>>

\* A transaction of the admission fails; the command starts again.
Fail(o) ==
  /\ backend = "postgres"
  /\ command[o] # None /\ command[o].step = "verified"
  /\ command' = [command EXCEPT ![o] = [@ EXCEPT !.step = "ready", !.seen = None]]
  /\ UNCHANGED <<backend, keys, versions, bound>>

Running(o, op, step) ==
  command[o] # None /\ command[o].request.op = op /\ command[o].step = step

-----------------------------------------------------------------------------
(***************************************************************************)
(* The trust store.                                                        *)
(***************************************************************************)
\* PostgreSQL does not look at the revocation of a key that is added.
KeptKey(k) == [k EXCEPT !.validFrom = IF @ = 0 THEN 0 ELSE Kept(@),
                        !.validUntil = KeptOptional(@),
                        !.revokedAt = IF backend = "postgres" THEN None ELSE @]

\* PostgreSQL wants a validity that is not empty, as its columns keep it; the
\* memory store takes any key.
Registrable(k) ==
  backend = "postgres" =>
    /\ k.validFrom # 0 /\ Before(k.validFrom, k.validUntil)
    /\ Before(Kept(k.validFrom), KeptOptional(k.validUntil))

\* The answer to a repeated registration: PostgreSQL compares what it has kept
\* with what it is given, and does not compare revocations.
SameKey(stored, k) ==
  IF backend = "postgres"
  THEN [stored EXCEPT !.revokedAt = k.revokedAt] = k ELSE stored = k

AddVerificationKey(o) ==
  /\ Running(o, "register", "ready")
  /\ LET r == command[o].request IN
     \/ /\ keys[r.id] = None /\ Registrable(r.key)
        /\ keys' = [keys EXCEPT ![r.id] = KeptKey(r.key)]
        /\ Succeed(o) /\ UNCHANGED <<backend, versions, bound>>
     \/ /\ keys[r.id] # None /\ Registrable(r.key) /\ SameKey(keys[r.id], r.key)
        /\ Succeed(o) /\ UNCHANGED <<backend, keys, versions, bound>>
     \/ /\ Registrable(r.key) => keys[r.id] # None /\ ~SameKey(keys[r.id], r.key)
        /\ Refuse(o)

\* Mutant: a later revocation replaces an earlier one.
RevocableAgain(k, at) == k # None /\ (backend = "postgres" => at >= k.validFrom)

Revocable(k, at) ==
  /\ k # None /\ k.revokedAt = None
  /\ backend = "postgres" => at >= k.validFrom

RevokeVerificationKey(o) ==
  /\ Running(o, "revoke", "ready")
  /\ LET r == command[o].request  k == keys[r.id] IN
     \/ /\ Revocable(k, r.at)
        /\ keys' = [keys EXCEPT ![r.id].revokedAt = Kept(r.at)]
        /\ Succeed(o) /\ UNCHANGED <<backend, versions, bound>>
     \/ /\ ~Revocable(k, r.at)
        /\ k # None /\ k.revokedAt = r.at
        /\ Succeed(o) /\ UNCHANGED <<backend, keys, versions, bound>>
     \/ /\ ~Revocable(k, r.at)
        /\ ~(k # None /\ k.revokedAt = r.at)
        /\ Refuse(o)

-----------------------------------------------------------------------------
(***************************************************************************)
(* Admission: Verify and Activate, then Add.                               *)
(***************************************************************************)
\* The key k was valid when the policy was signed and when it is verified.
Verifies(k, r) ==
  /\ k # None /\ r.sound
  /\ k.validFrom <= r.signedAt /\ Before(r.signedAt, k.validUntil)
  /\ Before(r.signedAt, k.revokedAt)
  /\ Before(r.verifiedAt, k.validUntil) /\ Before(r.verifiedAt, k.revokedAt)

Activates(r) == r.verifiedAt <= r.activatedAt /\ r.approvedAt <= r.activatedAt

VerifyAdmission(o) ==
  /\ Running(o, "admit", "ready")
  /\ LET r == command[o].request IN
     \/ /\ Verifies(keys[r.key], r) /\ Activates(r)
        /\ ValidDocument(r.snapshot.content)
        /\ command' = [command EXCEPT ![o] =
                         [@ EXCEPT !.step = "verified", !.seen = keys[r.key]]]
        /\ UNCHANGED <<backend, keys, versions, bound>>
     \/ /\ Verifies(keys[r.key], r) /\ Activates(r) =>
             ~ValidDocument(r.snapshot.content)
        /\ Refuse(o)

\* Mutant: an open end counts as no period at all.
OverlapUnlessOpen(a, b) ==
  /\ a.until # None /\ b.from < a.until
  /\ b.until # None /\ a.from < b.until

effectivePeriodsOverlap(a, b) == Before(b.from, a.until) /\ Before(a.from, b.until)

effectiveAt(a, at) == a.from <= at /\ Before(at, a.until)

NewEntry(r, key) ==
  [snapshot |-> r.snapshot, from |-> Kept(r.snapshot.from),
   until |-> KeptOptional(r.snapshot.until), key |-> r.key,
   signedAt |-> Kept(r.signedAt), verifiedAt |-> r.verifiedAt,
   approvedAt |-> Kept(r.approvedAt), seen |-> key,
   log |-> <<[status |-> "ACTIVE", at |-> Kept(r.activatedAt)]>>]

\* Mutant: the database does not check the period that it keeps.
FitsUnchecked(e) ==
  \A v \in VersionID : versions[v] # None => ~effectivePeriodsOverlap(versions[v], e)

\* Retired versions count as well.
Fits(e) ==
  /\ Before(e.from, e.until)
  /\ \A v \in VersionID : versions[v] # None => ~effectivePeriodsOverlap(versions[v], e)

\* What a repeated admission must agree with.  In memory the hash is enough;
\* PostgreSQL also compares the activation with the one that it has kept.
SameAdmission(e, r) ==
  /\ e.snapshot = r.snapshot
  /\ backend = "postgres" =>
       e.log[1].at = r.activatedAt /\ e.approvedAt = r.approvedAt

\* Mutant: an admission replaces a version of the same name.
AddReplaces(o) ==
  /\ Running(o, "admit", "verified")
  /\ LET r == command[o].request  v == r.snapshot.id IN
     /\ versions' = [versions EXCEPT ![v] = NewEntry(r, command[o].seen)]
     /\ Succeed(o) /\ UNCHANGED <<backend, keys, bound>>

Add(o) ==
  /\ Running(o, "admit", "verified")
  /\ LET r == command[o].request
         v == r.snapshot.id
         e == NewEntry(r, command[o].seen)
     IN \/ /\ versions[v] = None /\ Fits(e)
           /\ versions' = [versions EXCEPT ![v] = e]
           /\ Succeed(o) /\ UNCHANGED <<backend, keys, bound>>
        \/ /\ versions[v] # None /\ SameAdmission(versions[v], r)
           /\ Succeed(o) /\ UNCHANGED <<backend, keys, versions, bound>>
        \/ /\ IF versions[v] = None THEN ~Fits(e) ELSE ~SameAdmission(versions[v], r)
           /\ Refuse(o)

-----------------------------------------------------------------------------
(***************************************************************************)
(* Lifecycle and resolution.                                               *)
(***************************************************************************)
\* The event that decides: in PostgreSQL the last one by event time, then by
\* event id; in memory only the last one written is kept.
Current(e) ==
  IF backend = "postgres"
  THEN e.log[CHOOSE i \in 1 .. Len(e.log) : \A j \in 1 .. Len(e.log) :
               \/ e.log[j].at < e.log[i].at
               \/ e.log[j].at = e.log[i].at /\ j <= i]
  ELSE e.log[Len(e.log)]

Target(op) == IF op = "suspend" THEN "SUSPENDED" ELSE "RETIRED"

\* Mutant: the time of the previous event is not looked at.
CanTransitionUntimed(e, target, at) ==
  \/ Current(e).status = "ACTIVE" /\ target \in {"SUSPENDED", "RETIRED"}
  \/ Current(e).status = "SUSPENDED" /\ target = "RETIRED"

CanTransition(e, target, at) ==
  /\ at >= Current(e).at
  /\ \/ Current(e).status = "ACTIVE" /\ target \in {"SUSPENDED", "RETIRED"}
     \/ Current(e).status = "SUSPENDED" /\ target = "RETIRED"

\* Mutant: a repeated transition is not recognised.
NeverDone(e, target, at) == FALSE

\* Only PostgreSQL takes a repeated transition for done.
AlreadyDone(e, target, at) ==
  backend = "postgres" /\ Current(e) = [status |-> target, at |-> at]

transition(o) ==
  \E op \in {"suspend", "retire"} :
    /\ Running(o, op, "ready")
    /\ LET r == command[o].request
           e == versions[r.id]
           t == Target(op)
       IN \/ /\ e # None /\ ~AlreadyDone(e, t, r.at) /\ CanTransition(e, t, r.at)
             /\ versions' = [versions EXCEPT ![r.id].log =
                               Append(@, [status |-> t, at |-> Kept(r.at)])]
             /\ Succeed(o) /\ UNCHANGED <<backend, keys, bound>>
          \/ /\ e # None /\ AlreadyDone(e, t, r.at)
             /\ Succeed(o) /\ UNCHANGED <<backend, keys, versions, bound>>
          \/ /\ e # None => ~AlreadyDone(e, t, r.at) /\ ~CanTransition(e, t, r.at)
             /\ Refuse(o)

Matches(at) ==
  {v \in VersionID :
     /\ versions[v] # None
     /\ Current(versions[v]).status = "ACTIVE" /\ Current(versions[v]).at <= Kept(at)
     /\ effectiveAt(versions[v], Kept(at))}

\* An evaluation created at a time is bound to the version resolved for it.
Resolve(at) ==
  /\ \E v \in Matches(at) :
       /\ Matches(at) = {v}
       /\ bound' = bound \cup {[snapshot |-> versions[v].snapshot, at |-> at]}
  /\ UNCHANGED <<backend, keys, versions, command>>

FindVersion(s) == versions[s.id] # None /\ versions[s.id].snapshot = s

-----------------------------------------------------------------------------
Next ==
  \/ \E o \in Operator :
       \/ \E r \in Request : Issue(o, r)
       \/ AddVerificationKey(o) \/ RevokeVerificationKey(o)
       \/ VerifyAdmission(o) \/ Add(o) \/ transition(o)
       \/ Fail(o) \/ Dismiss(o)
  \/ \E at \in EvalTime : Resolve(at)

Spec == Init /\ [][Next]_vars

-----------------------------------------------------------------------------
\* The variables hold values of their kinds, and every stored version has a
\* period that is not empty, as the database keeps it.
TypeOK ==
  /\ backend \in {"memory", "postgres"}
  /\ keys \in [KeyID -> VerificationKey \cup {None}]
  /\ versions \in [VersionID -> Entry \cup {None}]
  /\ \A v \in VersionID : versions[v] # None =>
       versions[v].snapshot.id = v /\ Before(versions[v].from, versions[v].until)
  /\ command \in [Operator -> Command \cup {None}]
  /\ bound \subseteq [snapshot : Snapshot, at : Time]

\* "resolves exactly one version": whatever operators admit, suspend and retire,
\* in whatever order, two versions never are effective at one time, so Resolve
\* never answers ErrAmbiguousPolicy.
NeverAmbiguous ==
  \A v, w \in VersionID :
    versions[v] # None /\ versions[w] # None /\ v # w =>
      ~\E at \in Time : effectiveAt(versions[v], at) /\ effectiveAt(versions[w], at)

\* The append-only lifecycle of a version starts with its activation, closes it
\* step by step, and its event times agree with the order of the events, so
\* that the database finds the event that was written last.
LifecycleIsPath ==
  \A v \in VersionID : versions[v] # None =>
    LET log == versions[v].log  n == Len(log) IN
    /\ n > 0 /\ log[1].status = "ACTIVE"
    /\ \A i \in 1 .. n - 1 :
         /\ log[i].at <= log[i + 1].at
         /\ \/ log[i].status = "ACTIVE" /\ log[i + 1].status # "ACTIVE"
            \/ log[i].status = "SUSPENDED" /\ log[i + 1].status = "RETIRED"
    /\ Current(versions[v]) = log[n]

\* An evaluation stays reproducible: the version bound to it is found under its
\* identity and hash for ever, had been activated when the evaluation was
\* created, and no other version can be resolved for that time any more.
BindingsReplayable ==
  \A b \in bound :
    /\ FindVersion(b.snapshot)
    /\ LET e == versions[b.snapshot.id] IN
       /\ e.approvedAt <= e.log[1].at /\ e.log[1].at <= b.at
    /\ Matches(b.at) \subseteq {b.snapshot.id}

\* What a verification relied on stays in the trust store: the key of a stored
\* version is the one that the Verifier saw, it was valid and not revoked as far
\* as was then known, and since then it can only have been revoked, once.
VerificationsStand ==
  \A v \in VersionID : versions[v] # None =>
    LET e == versions[v]  k == keys[e.key] IN
    /\ k # None /\ [k EXCEPT !.revokedAt = e.seen.revokedAt] = e.seen
    /\ e.seen.revokedAt # None => k.revokedAt = e.seen.revokedAt
    /\ e.seen.validFrom <= e.signedAt
    /\ \A t \in {e.signedAt, e.verifiedAt} :
         Before(t, e.seen.validUntil) /\ Before(t, e.seen.revokedAt)

\* What a command writes is stored.
CarriedOut(r) ==
  CASE r.op = "register" ->
         keys[r.id] # None /\ [keys[r.id] EXCEPT !.revokedAt = None] = KeptKey(r.key)
    [] r.op = "revoke" -> keys[r.id] # None /\ keys[r.id].revokedAt = Kept(r.at)
    [] r.op = "admit" ->
         LET e == versions[r.snapshot.id] IN
         /\ e # None /\ e.snapshot = r.snapshot
         /\ e.log[1].at = Kept(r.activatedAt) /\ e.approvedAt = Kept(r.approvedAt)
    [] OTHER -> /\ versions[r.id] # None
                /\ Current(versions[r.id]) = [status |-> Target(r.op), at |-> Kept(r.at)]

\* The times that a repeated command is recognised by.
TimesOf(r) ==
  CASE r.op = "register" -> {r.key.validFrom, r.key.validUntil} \ {None}
    [] r.op = "admit" -> {r.activatedAt, r.approvedAt}
    [] OTHER -> {r.at}

\* "Retrying the exact same transition and event time is idempotent", and so it
\* is with the other commands: a command that the operator repeats because its
\* answer was lost is recognised by the database that has carried it out, unless
\* the database has cut one of its times to microseconds (then it takes the
\* repetition for a different command and refuses it), or it is an admission
\* that is verified again with a key that has been revoked since.
RepeatsAreRecognised ==
  [][\A o \in Operator :
       /\ backend = "postgres" /\ command[o] # None /\ command[o].step # "refused"
       /\ CarriedOut(command[o].request)
       /\ \A t \in TimesOf(command[o].request) : Kept(t) = t
       /\ command'[o] # None /\ command'[o].step = "refused"
       => Running(o, "admit", "ready")]_vars
=============================================================================
