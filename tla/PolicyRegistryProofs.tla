------------------------- MODULE PolicyRegistryProofs -------------------------
(***************************************************************************)
(* Theorems about the policy registry, for any keys, versions, documents,  *)
(* operators, commands and times, and about what its admission promises of *)
(* the documents that PolicyDocument compiles.                             *)
(***************************************************************************)
EXTENDS PolicyRegistry, FiniteSetTheorems, SequenceTheorems, TLAPS

\* The key k in the trust store is the one that was seen, except that it may
\* have been revoked since.
KeyStands(k, seen) ==
  /\ k # None /\ [k EXCEPT !.revokedAt = seen.revokedAt] = seen
  /\ seen.revokedAt # None => k.revokedAt = seen.revokedAt

\* A lifecycle: LifecycleIsPath, and its times are in order from any event to
\* any later one.
LogOK(log) ==
  /\ Len(log) > 0 /\ log[1].status = "ACTIVE"
  /\ \A i \in 1 .. Len(log) - 1 :
       \/ log[i].status = "ACTIVE" /\ log[i + 1].status # "ACTIVE"
       \/ log[i].status = "SUSPENDED" /\ log[i + 1].status = "RETIRED"
  /\ \A i, j \in 1 .. Len(log) : i <= j => log[i].at <= log[j].at

EntryOK(e) ==
  /\ LogOK(e.log) /\ e.approvedAt <= e.log[1].at
  /\ e.seen.validFrom <= e.signedAt
  /\ \A t \in {e.signedAt, e.verifiedAt} :
       Before(t, e.seen.validUntil) /\ Before(t, e.seen.revokedAt)

\* An admission that goes on has been verified, with a key that still stands.
CommandOK(c) ==
  c.step = "verified" =>
    /\ c.request.op = "admit" /\ c.seen # None
    /\ KeyStands(keys[c.request.key], c.seen)
    /\ Verifies(c.seen, c.request) /\ Activates(c.request)

\* The times that PostgreSQL compares with are times that it keeps.
KeptTimes ==
  backend = "postgres" =>
    /\ \A k \in KeyID : keys[k] # None =>
         keys[k].validFrom \in Time /\ Trunc(keys[k].validFrom) = keys[k].validFrom
    /\ \A v \in VersionID : versions[v] # None =>
         \A i \in 1 .. Len(versions[v].log) :
           Trunc(versions[v].log[i].at) = versions[v].log[i].at

NoOverlap ==
  \A v, w \in VersionID :
    versions[v] # None /\ versions[w] # None /\ v # w =>
      ~effectivePeriodsOverlap(versions[v], versions[w])

\* A binding is to a version that was activated before and is effective at the
\* time of the evaluation.
BindingOK(b) ==
  /\ FindVersion(b.snapshot)
  /\ effectiveAt(versions[b.snapshot.id], Kept(b.at))
  /\ versions[b.snapshot.id].log[1].at <= b.at

PInv ==
  /\ TypeOK
  /\ \A o \in Operator : command[o] # None => CommandOK(command[o])
  /\ \A v \in VersionID : versions[v] # None =>
       EntryOK(versions[v]) /\ KeyStands(keys[versions[v].key], versions[v].seen)
  /\ KeptTimes
  /\ NoOverlap
  /\ \A b \in bound : BindingOK(b)

-----------------------------------------------------------------------------
\* What the repositories keep of a time.
LEMMA KeptTime ==
  ASSUME NEW t \in Time
  PROVE  /\ Kept(t) \in Time /\ Kept(t) <= t
         /\ backend = "postgres" => Trunc(Kept(t)) = Kept(t)
         /\ t # None /\ t \in Nat /\ t > 0 /\ t # 0
BY TruncAssumption, NoneAssumption, RequestAssumption DEF Kept, Time

\* Stored times are in the order of the times they were stored from.
LEMMA KeptInOrder ==
  ASSUME NEW t \in Time, NEW u \in Time, t <= u
  PROVE  Kept(t) <= Kept(u)
BY TruncAssumption DEF Kept

\* The fields of a command are those of its kind.
LEMMA RequestTyped ==
  ASSUME NEW r \in Request
  PROVE  /\ r.op = "register" => r.id \in KeyID /\ r.key \in VerificationKey
         /\ r.op = "revoke" => r.id \in KeyID /\ r.at \in Time
         /\ r.op = "admit" => /\ r.snapshot \in Snapshot /\ r.key \in KeyID
                              /\ {r.signedAt, r.approvedAt, r.verifiedAt, r.activatedAt}
                                   \subseteq Time
         /\ r.op \in {"suspend", "retire"} => r.id \in VersionID /\ r.at \in Time
<1>1. r \in AnyRequest
  BY RequestAssumption
<1>2. CASE r \in [op : {"register"}, id : KeyID, key : VerificationKey]
  BY <1>2
<1>3. CASE r \in [op : {"revoke"}, id : KeyID, at : Time]
  BY <1>3
<1>4. CASE r \in [op : {"admit"}, snapshot : Snapshot, key : KeyID, signedAt : Time,
                  approvedAt : Time, verifiedAt : Time, activatedAt : Time, sound : BOOLEAN]
  BY <1>4
<1>5. CASE r \in [op : {"suspend", "retire"}, id : VersionID, at : Time]
  BY <1>5
<1> QED BY <1>1, <1>2, <1>3, <1>4, <1>5 DEF AnyRequest

\* Both stores take the last event written for the current one.
LEMMA CurrentIsLast ==
  ASSUME NEW e \in Entry, LogOK(e.log)
  PROVE  /\ Len(e.log) \in Nat \ {0} /\ Len(e.log) \in 1 .. Len(e.log)
         /\ Current(e) = e.log[Len(e.log)] /\ Current(e) \in LifecycleEvent
<1> DEFINE n == Len(e.log)
           Last(i) == \A j \in 1 .. n : \/ e.log[j].at < e.log[i].at
                                        \/ e.log[j].at = e.log[i].at /\ j <= i
<1>1. e.log \in Seq(LifecycleEvent) /\ n \in Nat /\ n > 0 /\ n \in 1 .. n
  BY LenProperties DEF Entry, LogOK
<1>2. \A i \in 1 .. n : e.log[i] \in LifecycleEvent /\ e.log[i].at \in Nat
  <2>1. \A i \in 1 .. n : e.log[i] \in LifecycleEvent
    BY <1>1, ElementOfSeq
  <2>2. Time \subseteq Nat
    BY RequestAssumption DEF Time
  <2> QED BY <2>1, <2>2 DEF LifecycleEvent
<1>3. \A i \in 1 .. n : e.log[i].at <= e.log[n].at
  BY <1>1 DEF LogOK
<1> HIDE DEF n
<1>4. \A i \in 1 .. n : Last(i) <=> i = n
  <2>1. Last(n)
    BY <1>1, <1>2, <1>3
  <2>2. ASSUME NEW i \in 1 .. n, Last(i) PROVE i = n
    BY <1>1, <1>2, <1>3, <2>2
  <2> QED BY <2>1, <2>2
<1> HIDE DEF Last
<1>5. (CHOOSE i \in 1 .. n : Last(i)) = n
  BY <1>1, <1>4
<1>6. Current(e) = e.log[n]
  BY <1>5 DEF Current, Last, n
<1> QED BY <1>1, <1>2, <1>6 DEF n

-----------------------------------------------------------------------------
\* Where nothing but commands changes, the invariant is about the command.
LEMMA CommandMoves ==
  ASSUME PInv, NEW o \in Operator, NEW c \in Command \cup {None},
         UNCHANGED <<backend, keys, versions, bound>>,
         command' = [command EXCEPT ![o] = c], c # None => CommandOK(c)
  PROVE  PInv'
<1>1. TypeOK'
  BY DEF PInv, TypeOK
<1>2. \A p \in Operator : command'[p] # None => CommandOK(command[p])'
  BY DEF PInv, TypeOK, CommandOK
<1>3. \A v \in VersionID : versions'[v] # None =>
        EntryOK(versions'[v]) /\ KeyStands(keys'[versions'[v].key], versions'[v].seen)
  BY DEF PInv
<1>4. KeptTimes' /\ NoOverlap'
  BY DEF PInv, KeptTimes, NoOverlap
<1>5. \A b \in bound' : BindingOK(b)'
  BY DEF PInv, BindingOK, FindVersion, Kept
<1> QED BY <1>1, <1>2, <1>3, <1>4, <1>5 DEF PInv

\* A command ends, or starts again.
LEMMA EndedIsOK ==
  ASSUME PInv, NEW o \in Operator, command[o] # None,
         NEW s \in {"ready", "refused"}
  PROVE  LET c == [command[o] EXCEPT !.step = s, !.seen = None]
         IN  c \in Command /\ c # None /\ c.step = s
<1>1. command[o] \in Command
  BY DEF PInv, TypeOK
<1>2. [command[o] EXCEPT !.step = s, !.seen = None] \in Command
  BY <1>1 DEF Command
<1>3. [command[o] EXCEPT !.step = s, !.seen = None].step = s
  BY <1>1 DEF Command
<1> QED BY <1>2, <1>3, EntryAssumption

\* A command that starts again or is refused keeps the invariant.
LEMMA RestartKeepsInv ==
  ASSUME PInv, NEW o \in Operator, command[o] # None, NEW s \in {"ready", "refused"},
         command' = [command EXCEPT ![o] = [@ EXCEPT !.step = s, !.seen = None]],
         UNCHANGED <<backend, keys, versions, bound>>
  PROVE  PInv'
<1>1. PICK c : c = [command[o] EXCEPT !.step = s, !.seen = None]
  OBVIOUS
<1>2. c \in Command /\ c # None /\ c.step = s /\ command' = [command EXCEPT ![o] = c]
  BY <1>1, EndedIsOK
<1>3. CommandOK(c)
  BY <1>2 DEF CommandOK
<1> QED BY <1>2, <1>3, CommandMoves

\* A command that is done keeps it.
LEMMA DismissKeepsInv ==
  ASSUME PInv, NEW o \in Operator, command' = [command EXCEPT ![o] = None],
         UNCHANGED <<backend, keys, versions, bound>>
  PROVE  PInv'
BY CommandMoves

\* A new command keeps it.
LEMMA IssueKeepsInv ==
  ASSUME PInv, NEW o \in Operator, NEW r \in Request, Issue(o, r)
  PROVE  PInv'
<1> DEFINE c == [request |-> r, step |-> "ready", seen |-> None]
<1>1. c \in Command /\ CommandOK(c)
  BY DEF Command, CommandOK
<1>2. command' = [command EXCEPT ![o] = c] /\ UNCHANGED <<backend, keys, versions, bound>>
  BY DEF Issue
<1> HIDE DEF c
<1> QED BY <1>1, <1>2, CommandMoves

\* A success that changes nothing else.
LEMMA SucceedKeepsInv ==
  ASSUME PInv, NEW o \in Operator, command[o] # None, Succeed(o),
         UNCHANGED <<backend, keys, versions, bound>>
  PROVE  PInv'
BY DismissKeepsInv, RestartKeepsInv DEF Succeed

\* A refusal keeps it.
LEMMA RefuseKeepsInv ==
  ASSUME PInv, NEW o \in Operator, command[o] # None, Refuse(o)
  PROVE  PInv'
BY RestartKeepsInv DEF Refuse

\* Verifying the signature of an admission keeps it.
LEMMA VerifyKeepsInv ==
  ASSUME PInv, NEW o \in Operator, VerifyAdmission(o)
  PROVE  PInv'
<1> DEFINE r == command[o].request
           c == [command[o] EXCEPT !.step = "verified", !.seen = keys[r.key]]
<1>1. /\ command[o] # None /\ r.op = "admit" /\ command[o] \in Command
      /\ r \in Request /\ r.key \in KeyID
  BY RequestTyped DEF VerifyAdmission, Running, PInv, TypeOK, Command
<1>2. CASE Refuse(o)
  BY <1>1, <1>2, RefuseKeepsInv
<1>3. CASE /\ Verifies(keys[r.key], r) /\ Activates(r)
           /\ command' = [command EXCEPT ![o] = c]
           /\ UNCHANGED <<backend, keys, versions, bound>>
  <2>1. keys[r.key] \in VerificationKey /\ keys[r.key] # None
    BY <1>1, <1>3 DEF PInv, TypeOK, Verifies
  <2>2. KeyStands(keys[r.key], keys[r.key])
    BY <2>1 DEF KeyStands, VerificationKey
  <2>3. c \in Command /\ c.request = r /\ c.seen = keys[r.key]
    BY <1>1, <2>1 DEF Command
  <2>4. CommandOK(c)
    BY <1>1, <1>3, <2>1, <2>2, <2>3 DEF CommandOK
  <2> HIDE DEF c
  <2> QED BY <1>3, <2>3, <2>4, CommandMoves
<1> QED BY <1>2, <1>3 DEF VerifyAdmission

-----------------------------------------------------------------------------
\* After a success no other command has changed.
LEMMA SucceedCommands ==
  ASSUME PInv, NEW o \in Operator, command[o] # None, Succeed(o)
  PROVE  /\ command' \in [Operator -> Command \cup {None}]
         /\ \A p \in Operator : command'[p] # None /\ command'[p].step = "verified" =>
              command'[p] = command[p]
<1>1. PICK c : c = [command[o] EXCEPT !.step = "ready", !.seen = None]
  OBVIOUS
<1>2. c \in Command /\ c.step = "ready"
  BY <1>1, EndedIsOK
<1>3. command' = [command EXCEPT ![o] = None] \/ command' = [command EXCEPT ![o] = c]
  BY <1>1 DEF Succeed
<1> QED BY <1>2, <1>3 DEF PInv, TypeOK

\* A step of the trust store: a key is added, or revoked.
LEMMA KeyMoves ==
  ASSUME PInv, NEW o \in Operator, command[o] # None, Succeed(o),
         NEW id \in KeyID, NEW k \in VerificationKey,
         keys' = [keys EXCEPT ![id] = k], UNCHANGED <<backend, versions, bound>>,
         \A seen \in VerificationKey : KeyStands(keys[id], seen) => KeyStands(k, seen),
         backend = "postgres" => k.validFrom \in Time /\ Trunc(k.validFrom) = k.validFrom
  PROVE  PInv'
<1>1. \A i \in KeyID, seen \in VerificationKey :
        KeyStands(keys[i], seen) => KeyStands(keys'[i], seen)
  BY DEF PInv, TypeOK
<1>2. TypeOK'
  BY SucceedCommands DEF PInv, TypeOK
<1>3. ASSUME NEW p \in Operator, command'[p] # None PROVE CommandOK(command[p])'
  <2>1. CASE command'[p].step # "verified"
    BY <2>1 DEF CommandOK
  <2>2. CASE command'[p].step = "verified"
    <3>1. command'[p] = command[p] /\ command[p] \in Command /\ CommandOK(command[p])
      BY <1>3, <2>2, SucceedCommands DEF PInv, TypeOK
    <3>2. command[p].request.key \in KeyID /\ command[p].seen \in VerificationKey
      BY <2>2, <3>1, RequestTyped DEF CommandOK, Command
    <3> QED BY <1>1, <2>2, <3>1, <3>2 DEF CommandOK
  <2> QED BY <2>1, <2>2
<1>4. \A v \in VersionID : versions'[v] # None =>
        EntryOK(versions'[v]) /\ KeyStands(keys'[versions'[v].key], versions'[v].seen)
  BY <1>1 DEF PInv, TypeOK, Entry
<1>5. KeptTimes' /\ NoOverlap'
  BY DEF PInv, TypeOK, KeptTimes, NoOverlap
<1>6. \A b \in bound' : BindingOK(b)'
  BY DEF PInv, BindingOK, FindVersion, Kept
<1> QED BY <1>2, <1>3, <1>4, <1>5, <1>6 DEF PInv

\* Registering a key keeps it.
LEMMA RegisterKeepsInv ==
  ASSUME PInv, NEW o \in Operator, AddVerificationKey(o)
  PROVE  PInv'
<1> DEFINE r == command[o].request
<1>1. /\ command[o] # None /\ r.op = "register" /\ r \in Request
      /\ r.id \in KeyID /\ r.key \in VerificationKey
  BY RequestTyped DEF AddVerificationKey, Running, PInv, TypeOK, Command
<1>2. CASE Refuse(o)
  BY <1>1, <1>2, RefuseKeepsInv
<1>3. CASE Succeed(o) /\ UNCHANGED <<backend, keys, versions, bound>>
  BY <1>1, <1>3, SucceedKeepsInv
<1>4. CASE /\ keys[r.id] = None /\ Registrable(r.key)
           /\ keys' = [keys EXCEPT ![r.id] = KeptKey(r.key)]
           /\ Succeed(o) /\ UNCHANGED <<backend, versions, bound>>
  <2>1. PICK id, q, k : id = r.id /\ q = r.key /\ k = KeptKey(q)
    OBVIOUS
  <2>2. q \in VerificationKey
    BY <1>1, <2>1
  <2>3. /\ q.validFrom \in Time \cup {0} /\ q.validUntil \in Time \cup {None}
        /\ k.validFrom = IF q.validFrom = 0 THEN 0 ELSE Kept(q.validFrom)
        /\ k.validUntil = KeptOptional(q.validUntil)
        /\ k = [q EXCEPT !.validFrom = k.validFrom, !.validUntil = k.validUntil,
                         !.revokedAt = k.revokedAt]
        /\ k.revokedAt \in {None, q.revokedAt}
    BY <2>1, <2>2 DEF KeptKey, VerificationKey
  <2>4. k.validFrom \in Time \cup {0} /\ k.validUntil \in Time \cup {None}
    BY <2>3, KeptTime DEF KeptOptional
  <2>5. k \in VerificationKey
    BY <2>2, <2>3, <2>4 DEF VerificationKey
  <2>6. backend = "postgres" => k.validFrom \in Time /\ Trunc(k.validFrom) = k.validFrom
    BY <1>4, <2>1, <2>3, KeptTime DEF Registrable
  <2>7. \A seen : ~KeyStands(keys[id], seen)
    BY <1>4, <2>1 DEF KeyStands
  <2> QED BY <1>1, <1>4, <2>1, <2>5, <2>6, <2>7, KeyMoves
<1> QED BY <1>2, <1>3, <1>4 DEF AddVerificationKey

\* Revoking a key keeps it.
LEMMA RevokeKeepsInv ==
  ASSUME PInv, NEW o \in Operator, RevokeVerificationKey(o)
  PROVE  PInv'
<1> DEFINE r == command[o].request
<1>1. /\ command[o] # None /\ r.op = "revoke" /\ r \in Request
      /\ r.id \in KeyID /\ r.at \in Time
  BY RequestTyped DEF RevokeVerificationKey, Running, PInv, TypeOK, Command
<1>2. CASE Refuse(o)
  BY <1>1, <1>2, RefuseKeepsInv
<1>3. CASE Succeed(o) /\ UNCHANGED <<backend, keys, versions, bound>>
  BY <1>1, <1>3, SucceedKeepsInv
<1>4. CASE /\ Revocable(keys[r.id], r.at)
           /\ keys' = [keys EXCEPT ![r.id].revokedAt = Kept(r.at)]
           /\ Succeed(o) /\ UNCHANGED <<backend, versions, bound>>
  <2>1. PICK id, q, t, k : /\ id = r.id /\ q = keys[id] /\ t = Kept(r.at)
                           /\ k = [q EXCEPT !.revokedAt = t]
    OBVIOUS
  <2>2. id \in KeyID /\ q \in VerificationKey /\ q # None /\ q.revokedAt = None /\ t \in Time
    BY <1>1, <1>4, <2>1, KeptTime DEF Revocable, PInv, TypeOK
  <2>3. k \in VerificationKey /\ k.validFrom = q.validFrom
    BY <2>1, <2>2 DEF VerificationKey
  <2>4. keys' = [keys EXCEPT ![id] = k]
    BY <1>4, <2>1 DEF PInv, TypeOK
  <2>5. ASSUME NEW seen \in VerificationKey, KeyStands(q, seen) PROVE KeyStands(k, seen)
    <3>1. seen.revokedAt = None
      BY <2>2, <2>5 DEF KeyStands
    <3>2. k # None
      BY <2>3, NoneAssumption
    <3>3. [k EXCEPT !.revokedAt = None] = [q EXCEPT !.revokedAt = None]
      BY <2>1, <2>2, <2>3 DEF VerificationKey
    <3> QED BY <2>5, <3>1, <3>2, <3>3 DEF KeyStands
  <2>6. backend = "postgres" => k.validFrom \in Time /\ Trunc(k.validFrom) = k.validFrom
    BY <2>1, <2>2, <2>3 DEF PInv, KeptTimes
  <2> QED BY <1>1, <1>4, <2>1, <2>2, <2>3, <2>4, <2>5, <2>6, KeyMoves
<1> QED BY <1>2, <1>3, <1>4 DEF RevokeVerificationKey

-----------------------------------------------------------------------------
\* A step of the registry: a version is added, or gets one more event.
LEMMA VersionMoves ==
  ASSUME PInv, NEW o \in Operator, command[o] # None, Succeed(o),
         NEW v \in VersionID, NEW e \in Entry,
         versions' = [versions EXCEPT ![v] = e], UNCHANGED <<backend, keys, bound>>,
         e.snapshot.id = v, Before(e.from, e.until),
         EntryOK(e), KeyStands(keys[e.key], e.seen),
         backend = "postgres" => \A i \in 1 .. Len(e.log) : Trunc(e.log[i].at) = e.log[i].at,
         \A w \in VersionID \ {v} : versions[w] # None =>
           ~effectivePeriodsOverlap(versions[w], e),
         versions[v] # None =>
           /\ e.snapshot = versions[v].snapshot /\ e.log[1] = versions[v].log[1]
           /\ e.from = versions[v].from /\ e.until = versions[v].until
  PROVE  PInv'
<1>1. versions'[v] = e /\ \A w \in VersionID \ {v} : versions'[w] = versions[w]
  BY DEF PInv, TypeOK
<1>2. TypeOK'
  BY <1>1, SucceedCommands DEF PInv, TypeOK
<1>3. ASSUME NEW p \in Operator, command'[p] # None PROVE CommandOK(command[p])'
  <2>1. CASE command'[p].step # "verified"
    BY <2>1 DEF CommandOK
  <2>2. CASE command'[p].step = "verified"
    BY <1>3, <2>2, SucceedCommands DEF PInv, CommandOK
  <2> QED BY <2>1, <2>2
<1>4. \A w \in VersionID : versions'[w] # None =>
        EntryOK(versions'[w]) /\ KeyStands(keys'[versions'[w].key], versions'[w].seen)
  BY <1>1 DEF PInv
<1>5. KeptTimes'
  BY <1>1 DEF PInv, KeptTimes
<1>6. NoOverlap'
  BY <1>1 DEF PInv, NoOverlap, effectivePeriodsOverlap
<1>7. ASSUME NEW b \in bound' PROVE BindingOK(b)'
  <2>1. b \in bound /\ BindingOK(b) /\ b.snapshot.id \in VersionID
    BY <1>7 DEF PInv, TypeOK, Snapshot
  <2>2. CASE b.snapshot.id # v
    BY <1>1, <2>1, <2>2 DEF BindingOK, FindVersion, Kept
  <2>3. CASE b.snapshot.id = v
    <3>1. e # None
      BY EntryAssumption
    <3> QED BY <1>1, <2>1, <2>3, <3>1 DEF BindingOK, FindVersion, Kept, effectiveAt
  <2> QED BY <2>2, <2>3
<1> QED BY <1>2, <1>3, <1>4, <1>5, <1>6, <1>7 DEF PInv

\* The entry of an admission that was verified.
LEMMA NewEntryOK ==
  ASSUME PInv, NEW r \in Request, r.op = "admit", NEW k \in VerificationKey,
         KeyStands(keys[r.key], k), Verifies(k, r), Activates(r)
  PROVE  LET e == NewEntry(r, k)
         IN  /\ e \in Entry /\ EntryOK(e) /\ e.snapshot = r.snapshot
             /\ e.key = r.key /\ e.seen = k
             /\ backend = "postgres" =>
                  \A i \in 1 .. Len(e.log) : Trunc(e.log[i].at) = e.log[i].at
<1> DEFINE e == NewEntry(r, k)
           event == [status |-> "ACTIVE", at |-> Kept(r.activatedAt)]
<1>1. /\ r.snapshot \in Snapshot /\ r.key \in KeyID
      /\ r.signedAt \in Time /\ r.approvedAt \in Time
      /\ r.verifiedAt \in Time /\ r.activatedAt \in Time
  BY RequestTyped
<1>2. r.snapshot.from \in Time /\ r.snapshot.until \in Time \cup {None}
  BY <1>1 DEF Snapshot
<1>3. /\ Kept(r.snapshot.from) \in Time /\ KeptOptional(r.snapshot.until) \in Time \cup {None}
      /\ Kept(r.signedAt) \in Time /\ Kept(r.approvedAt) \in Time /\ Kept(r.activatedAt) \in Time
  BY <1>1, <1>2, KeptTime DEF KeptOptional
<1>4. event \in LifecycleEvent
  BY <1>3 DEF LifecycleEvent, Status
<1> HIDE DEF event
<1>5. <<event>> \in Seq(LifecycleEvent) /\ Len(<<event>>) = 1 /\ <<event>>[1] = event
  BY <1>4
<1>6. /\ e = [snapshot |-> r.snapshot, from |-> Kept(r.snapshot.from),
              until |-> KeptOptional(r.snapshot.until), key |-> r.key,
              signedAt |-> Kept(r.signedAt), verifiedAt |-> r.verifiedAt,
              approvedAt |-> Kept(r.approvedAt), seen |-> k, log |-> <<event>>]
  BY DEF NewEntry, event
<1>7. e \in Entry
  BY <1>1, <1>3, <1>5, <1>6 DEF Entry
<1>8. /\ e.snapshot = r.snapshot /\ e.key = r.key /\ e.seen = k /\ e.log = <<event>>
      /\ e.signedAt = Kept(r.signedAt) /\ e.verifiedAt = r.verifiedAt
      /\ e.approvedAt = Kept(r.approvedAt)
  BY <1>6
<1> HIDE DEF e
<1>9. event.status = "ACTIVE" /\ event.at = Kept(r.activatedAt)
  BY DEF event
<1>10. LogOK(e.log)
  <2>1. event.at \in Nat /\ 1 .. 1 = {1}
    BY <1>1, <1>3, <1>9, KeptTime, RequestAssumption DEF Time
  <2> QED BY <1>5, <1>8, <1>9, <2>1 DEF LogOK
<1>11. e.approvedAt <= e.log[1].at
  BY <1>1, <1>5, <1>8, <1>9, KeptInOrder DEF Activates
<1>12. Kept(r.signedAt) \in Nat /\ Kept(r.signedAt) <= r.signedAt /\ r.signedAt \in Nat
  BY <1>1, <1>3, KeptTime, RequestAssumption DEF Time
<1>13. k.validFrom <= Kept(r.signedAt)
  <2>1. CASE backend = "postgres"
    <3>1. keys[r.key] # None /\ keys[r.key] \in VerificationKey
      BY <1>1 DEF KeyStands, PInv, TypeOK
    <3>2. k.validFrom = keys[r.key].validFrom
      BY <3>1 DEF KeyStands, VerificationKey
    <3>3. k.validFrom \in Time /\ Trunc(k.validFrom) = k.validFrom
      BY <1>1, <2>1, <3>1, <3>2 DEF PInv, KeptTimes
    <3>4. Kept(k.validFrom) <= Kept(r.signedAt)
      BY <1>1, <3>3, KeptInOrder DEF Verifies
    <3> QED BY <2>1, <3>3, <3>4 DEF Kept
  <2>2. CASE backend # "postgres"
    BY <2>2 DEF Kept, Verifies
  <2> QED BY <2>1, <2>2
<1>14. /\ Before(Kept(r.signedAt), k.validUntil) /\ Before(Kept(r.signedAt), k.revokedAt)
       /\ Before(r.verifiedAt, k.validUntil) /\ Before(r.verifiedAt, k.revokedAt)
  <2>1. \A t \in Time : t \in Nat
    BY RequestAssumption DEF Time
  <2>2. k.validUntil \in Time \cup {None} /\ k.revokedAt \in Time \cup {None}
    BY DEF VerificationKey
  <2> QED BY <1>12, <2>1, <2>2 DEF Verifies, Before
<1>15. EntryOK(e)
  BY <1>8, <1>10, <1>11, <1>13, <1>14 DEF EntryOK
<1>16. backend = "postgres" => Trunc(event.at) = event.at
  BY <1>1, <1>9, KeptTime
<1>17. backend = "postgres" => \A i \in 1 .. Len(e.log) : Trunc(e.log[i].at) = e.log[i].at
  BY <1>5, <1>8, <1>16
<1> QED BY <1>7, <1>8, <1>15, <1>17 DEF e

\* Adding a policy version keeps it.
LEMMA AddKeepsInv ==
  ASSUME PInv, NEW o \in Operator, Add(o)
  PROVE  PInv'
<1> DEFINE q == command[o].request
<1>1. /\ command[o] # None /\ q.op = "admit" /\ command[o].step = "verified"
      /\ command[o] \in Command /\ q \in Request /\ CommandOK(command[o])
  BY DEF Add, Running, PInv, TypeOK, Command
<1>2. /\ command[o].seen \in VerificationKey /\ KeyStands(keys[q.key], command[o].seen)
      /\ Verifies(command[o].seen, q) /\ Activates(q)
  BY <1>1 DEF CommandOK, Command
<1>3. CASE Refuse(o)
  BY <1>1, <1>3, RefuseKeepsInv
<1>4. CASE Succeed(o) /\ UNCHANGED <<backend, keys, versions, bound>>
  BY <1>1, <1>4, SucceedKeepsInv
<1>5. CASE /\ versions[q.snapshot.id] = None /\ Fits(NewEntry(q, command[o].seen))
           /\ versions' = [versions EXCEPT ![q.snapshot.id] = NewEntry(q, command[o].seen)]
           /\ Succeed(o) /\ UNCHANGED <<backend, keys, bound>>
  <2>1. PICK r, k, v, e : /\ r = q /\ k = command[o].seen /\ v = r.snapshot.id
                          /\ e = NewEntry(r, k)
    OBVIOUS
  <2>2. v \in VersionID
    BY <1>1, <2>1, RequestTyped DEF Snapshot
  <2>3. /\ e \in Entry /\ EntryOK(e) /\ e.snapshot.id = v /\ KeyStands(keys[e.key], e.seen)
        /\ backend = "postgres" =>
             \A i \in 1 .. Len(e.log) : Trunc(e.log[i].at) = e.log[i].at
    BY <1>1, <1>2, <2>1, NewEntryOK
  <2>4. /\ Before(e.from, e.until)
        /\ \A w \in VersionID : versions[w] # None => ~effectivePeriodsOverlap(versions[w], e)
    BY <1>5, <2>1 DEF Fits
  <2>5. versions' = [versions EXCEPT ![v] = e] /\ versions[v] = None
    BY <1>5, <2>1
  <2> QED BY <1>1, <1>5, <2>2, <2>3, <2>4, <2>5, VersionMoves
<1> QED BY <1>3, <1>4, <1>5 DEF Add

\* A lifecycle may be extended as CanTransition allows.
LEMMA LogGrows ==
  ASSUME NEW log \in Seq(LifecycleEvent), LogOK(log), NEW x \in LifecycleEvent,
         log[Len(log)].at <= x.at,
         \/ log[Len(log)].status = "ACTIVE" /\ x.status # "ACTIVE"
         \/ log[Len(log)].status = "SUSPENDED" /\ x.status = "RETIRED"
  PROVE  LogOK(Append(log, x)) /\ Append(log, x) \in Seq(LifecycleEvent)
         /\ Append(log, x)[1] = log[1]
<1> DEFINE n == Len(log)
           more == Append(log, x)
<1>1. /\ more \in Seq(LifecycleEvent) /\ Len(more) = n + 1 /\ more[n + 1] = x
      /\ \A i \in 1 .. n : more[i] = log[i]
      /\ n \in Nat /\ n > 0
  BY AppendProperties, LenProperties DEF LogOK
<1>2. \A i \in 1 .. n : log[i].at \in Nat /\ log[i].at <= log[n].at
  <2>1. \A i \in 1 .. n : log[i] \in LifecycleEvent
    BY ElementOfSeq
  <2>2. Time \subseteq Nat
    BY RequestAssumption DEF Time
  <2>3. \A i \in 1 .. n : log[i].at \in Nat
    BY <2>1, <2>2 DEF LifecycleEvent
  <2> QED BY <1>1, <2>3 DEF LogOK
<1>3. x.at \in Nat /\ log[n].at <= x.at
  BY RequestAssumption DEF LifecycleEvent, Time
<1>4. /\ log[1].status = "ACTIVE"
      /\ \A i \in 1 .. n - 1 :
           \/ log[i].status = "ACTIVE" /\ log[i + 1].status # "ACTIVE"
           \/ log[i].status = "SUSPENDED" /\ log[i + 1].status = "RETIRED"
      /\ \A i, j \in 1 .. n : i <= j => log[i].at <= log[j].at
  BY DEF LogOK
<1>5. \/ log[n].status = "ACTIVE" /\ x.status # "ACTIVE"
      \/ log[n].status = "SUSPENDED" /\ x.status = "RETIRED"
  OBVIOUS
<1> HIDE DEF n, more
<1>6. more[1] = log[1]
  BY <1>1
<1>7. ASSUME NEW i \in 1 .. Len(more) - 1
      PROVE  \/ more[i].status = "ACTIVE" /\ more[i + 1].status # "ACTIVE"
             \/ more[i].status = "SUSPENDED" /\ more[i + 1].status = "RETIRED"
  <2>1. CASE i = n
    BY <1>1, <1>5, <2>1
  <2>2. CASE i # n
    <3>1. i \in 1 .. n - 1 /\ i \in 1 .. n /\ i + 1 \in 1 .. n
      BY <1>1, <2>2
    <3> QED BY <1>1, <1>4, <3>1
  <2> QED BY <2>1, <2>2
<1>8. ASSUME NEW i \in 1 .. Len(more), NEW j \in 1 .. Len(more), i <= j
      PROVE  more[i].at <= more[j].at
  <2>1. CASE j = n + 1
    <3>1. CASE i = n + 1
      BY <1>1, <1>3, <2>1, <3>1
    <3>2. CASE i # n + 1
      <4>1. i \in 1 .. n /\ n \in 1 .. n /\ log[i].at \in Nat /\ log[n].at \in Nat
            /\ log[i].at <= log[n].at
        BY <1>1, <1>2, <3>2
      <4> QED BY <1>1, <1>3, <2>1, <4>1
    <3> QED BY <3>1, <3>2
  <2>2. CASE j # n + 1
    <3>1. i \in 1 .. n /\ j \in 1 .. n
      BY <1>1, <1>8, <2>2
    <3> QED BY <1>1, <1>4, <1>8, <3>1
  <2> QED BY <2>1, <2>2
<1> QED BY <1>1, <1>4, <1>6, <1>7, <1>8 DEF LogOK, more

\* A lifecycle transition keeps it.
LEMMA TransitionKeepsInv ==
  ASSUME PInv, NEW o \in Operator, transition(o)
  PROVE  PInv'
<1>1. PICK op \in {"suspend", "retire"} :
        /\ Running(o, op, "ready")
        /\ LET r == command[o].request
               e == versions[r.id]
           IN \/ /\ e # None /\ CanTransition(e, Target(op), r.at)
                 /\ versions' = [versions EXCEPT ![r.id].log =
                                   Append(@, [status |-> Target(op), at |-> Kept(r.at)])]
                 /\ Succeed(o) /\ UNCHANGED <<backend, keys, bound>>
              \/ Succeed(o) /\ UNCHANGED <<backend, keys, versions, bound>>
              \/ Refuse(o)
  BY DEF transition
<1> DEFINE q == command[o].request
           t == Target(op)
           f == versions[q.id]
<1>2. command[o] # None /\ q.op = op /\ q \in Request /\ q.id \in VersionID /\ q.at \in Time
  BY <1>1, RequestTyped DEF Running, PInv, TypeOK, Command
<1>3. CASE Refuse(o)
  BY <1>2, <1>3, RefuseKeepsInv
<1>4. CASE Succeed(o) /\ UNCHANGED <<backend, keys, versions, bound>>
  BY <1>2, <1>4, SucceedKeepsInv
<1>5. CASE /\ f # None /\ CanTransition(f, t, q.at)
           /\ versions' = [versions EXCEPT ![q.id].log =
                             Append(@, [status |-> t, at |-> Kept(q.at)])]
           /\ Succeed(o) /\ UNCHANGED <<backend, keys, bound>>
  <2>1. PICK v, d, log, x, e : /\ v = q.id /\ d = versions[v] /\ log = d.log
                               /\ x = [status |-> t, at |-> Kept(q.at)]
                               /\ e = [d EXCEPT !.log = Append(log, x)]
    OBVIOUS
  <2>2. /\ d \in Entry /\ d # None /\ EntryOK(d) /\ d.snapshot.id = v /\ v \in VersionID
        /\ Before(d.from, d.until) /\ KeyStands(keys[d.key], d.seen)
    BY <1>2, <1>5, <2>1 DEF PInv, TypeOK
  <2>3. log \in Seq(LifecycleEvent) /\ LogOK(log) /\ Len(log) \in Nat \ {0}
        /\ Len(log) \in 1 .. Len(log) /\ log[Len(log)] \in LifecycleEvent
        /\ Current(d) = log[Len(log)]
    BY <2>1, <2>2, CurrentIsLast DEF Entry, EntryOK
  <2>4. x \in LifecycleEvent /\ x.status = t /\ x.at = Kept(q.at) /\ t # "ACTIVE"
    BY <1>2, <2>1, KeptTime DEF LifecycleEvent, Status, Target
  <2>5. \/ log[Len(log)].status = "ACTIVE" /\ x.status # "ACTIVE"
        \/ log[Len(log)].status = "SUSPENDED" /\ x.status = "RETIRED"
    BY <1>5, <2>1, <2>3, <2>4 DEF CanTransition
  <2>6. log[Len(log)].at <= x.at
    <3>1. log[Len(log)].at \in Time /\ log[Len(log)].at <= q.at
      <4>1. Time \subseteq Nat
        BY RequestAssumption DEF Time
      <4>2. log[Len(log)].at \in Time /\ q.at >= log[Len(log)].at
        BY <1>5, <2>1, <2>3 DEF CanTransition, LifecycleEvent
      <4> QED BY <1>2, <4>1, <4>2
    <3>2. backend = "postgres" => Trunc(log[Len(log)].at) = log[Len(log)].at
      BY <2>1, <2>2, <2>3 DEF PInv, KeptTimes
    <3>3. Kept(log[Len(log)].at) <= Kept(q.at)
      BY <1>2, <3>1, KeptInOrder
    <3> QED BY <2>4, <3>2, <3>3 DEF Kept
  <2>7. /\ LogOK(Append(log, x)) /\ Append(log, x) \in Seq(LifecycleEvent)
        /\ Append(log, x)[1] = log[1]
    BY <2>3, <2>4, <2>5, <2>6, LogGrows
  <2>8. /\ e \in Entry /\ e.log = Append(log, x) /\ e.snapshot = d.snapshot
        /\ e.from = d.from /\ e.until = d.until /\ e.key = d.key /\ e.seen = d.seen
        /\ e.approvedAt = d.approvedAt /\ e.signedAt = d.signedAt
        /\ e.verifiedAt = d.verifiedAt
    BY <2>1, <2>2, <2>7 DEF Entry
  <2>9. EntryOK(e)
    BY <2>1, <2>2, <2>7, <2>8 DEF EntryOK
  <2>10. backend = "postgres" => \A i \in 1 .. Len(e.log) : Trunc(e.log[i].at) = e.log[i].at
    <3>1. /\ Len(e.log) = Len(log) + 1 /\ e.log[Len(log) + 1] = x
          /\ \A i \in 1 .. Len(log) : e.log[i] = log[i]
      BY <2>3, <2>4, <2>8, AppendProperties
    <3>2. backend = "postgres" => Trunc(x.at) = x.at
      BY <1>2, <2>4, KeptTime
    <3>3. backend = "postgres" => \A i \in 1 .. Len(log) : Trunc(log[i].at) = log[i].at
      BY <2>1, <2>2 DEF PInv, KeptTimes
    <3> QED BY <2>3, <3>1, <3>2, <3>3
  <2>11. \A w \in VersionID \ {v} : versions[w] # None =>
           ~effectivePeriodsOverlap(versions[w], e)
    <3>1. \A w \in VersionID \ {v} : versions[w] # None =>
            ~effectivePeriodsOverlap(versions[w], d)
      BY <2>1, <2>2 DEF PInv, NoOverlap
    <3> QED BY <2>8, <3>1 DEF effectivePeriodsOverlap
  <2>12. versions' = [versions EXCEPT ![v] = e]
    BY <1>2, <1>5, <2>1 DEF PInv, TypeOK
  <2>13. e.snapshot.id = v /\ Before(e.from, e.until) /\ KeyStands(keys[e.key], e.seen)
    BY <2>2, <2>8
  <2>14. versions[v] # None =>
           /\ e.snapshot = versions[v].snapshot /\ e.log[1] = versions[v].log[1]
           /\ e.from = versions[v].from /\ e.until = versions[v].until
    BY <2>1, <2>7, <2>8
  <2>15. command[o] # None /\ Succeed(o) /\ UNCHANGED <<backend, keys, bound>>
    BY <1>2, <1>5
  <2>16. v \in VersionID /\ e \in Entry
    BY <2>2, <2>8
  <2> QED BY <2>9, <2>10, <2>11, <2>12, <2>13, <2>14, <2>15, <2>16, VersionMoves
<1> QED BY <1>1, <1>3, <1>4, <1>5

\* Binding what Resolve finds keeps it.
LEMMA ResolveKeepsInv ==
  ASSUME PInv, NEW at \in EvalTime, Resolve(at)
  PROVE  PInv'
<1>1. PICK v \in Matches(at) :
        bound' = bound \cup {[snapshot |-> versions[v].snapshot, at |-> at]}
  BY DEF Resolve
<1>2. PICK e, b : e = versions[v] /\ b = [snapshot |-> e.snapshot, at |-> at]
  OBVIOUS
<1>3. /\ v \in VersionID /\ e \in Entry /\ e # None /\ LogOK(e.log) /\ e.snapshot.id = v
      /\ at \in Time /\ effectiveAt(e, Kept(at)) /\ Current(e).at <= Kept(at)
  BY <1>1, <1>2, RequestAssumption DEF Matches, PInv, TypeOK, EntryOK
<1>4. b \in [snapshot : Snapshot, at : Time] /\ b.snapshot = e.snapshot /\ b.at = at
  BY <1>2, <1>3 DEF Entry
<1>5. e.log[1].at <= at
  <2>1. Len(e.log) \in Nat \ {0} /\ Current(e) = e.log[Len(e.log)]
    BY <1>3, CurrentIsLast
  <2>2. 1 \in 1 .. Len(e.log) /\ Len(e.log) \in 1 .. Len(e.log)
    BY <2>1
  <2>3. e.log[1].at \in Time /\ e.log[Len(e.log)].at \in Time
    <3>1. e.log \in Seq(LifecycleEvent)
      BY <1>3 DEF Entry
    <3>2. e.log[1] \in LifecycleEvent /\ e.log[Len(e.log)] \in LifecycleEvent
      BY <2>2, <3>1, ElementOfSeq
    <3> QED BY <3>2 DEF LifecycleEvent
  <2>4. e.log[1].at <= e.log[Len(e.log)].at
    BY <1>3, <2>1, <2>2 DEF LogOK
  <2>5. Kept(at) \in Time /\ Kept(at) <= at
    BY <1>3, KeptTime
  <2>6. Time \subseteq Nat
    BY RequestAssumption DEF Time
  <2> QED BY <1>3, <2>1, <2>3, <2>4, <2>5, <2>6
<1>6. BindingOK(b)
  BY <1>2, <1>3, <1>4, <1>5 DEF BindingOK, FindVersion
<1>7. UNCHANGED <<backend, keys, versions, command>> /\ bound' = bound \cup {b}
  BY <1>1, <1>2 DEF Resolve
<1>8. TypeOK'
  BY <1>4, <1>7 DEF PInv, TypeOK
<1>9. \A p \in Operator : command'[p] # None => CommandOK(command[p])'
  BY <1>7 DEF PInv, CommandOK
<1>10. \A w \in VersionID : versions'[w] # None =>
         EntryOK(versions'[w]) /\ KeyStands(keys'[versions'[w].key], versions'[w].seen)
  BY <1>7 DEF PInv
<1>11. KeptTimes' /\ NoOverlap'
  BY <1>7 DEF PInv, KeptTimes, NoOverlap
<1>12. \A c \in bound' : BindingOK(c)'
  <2>1. \A c \in bound' : BindingOK(c)
    BY <1>6, <1>7 DEF PInv
  <2> QED BY <1>7, <2>1 DEF BindingOK, FindVersion, Kept
<1> QED BY <1>8, <1>9, <1>10, <1>11, <1>12 DEF PInv

-----------------------------------------------------------------------------
\* The invariant holds initially.
LEMMA InitPInv == Init => PInv
<1> SUFFICES ASSUME Init PROVE PInv
  OBVIOUS
<1>1. TypeOK
  BY DEF Init, TypeOK
<1> QED BY <1>1 DEF Init, PInv, KeptTimes, NoOverlap

\* Every step keeps the invariant.
LEMMA NextPInv == PInv /\ [Next]_vars => PInv'
<1> SUFFICES ASSUME PInv, [Next]_vars PROVE PInv'
  OBVIOUS
<1>1. ASSUME NEW o \in Operator, Dismiss(o) PROVE PInv'
  BY <1>1, DismissKeepsInv DEF Dismiss
<1>2. ASSUME NEW o \in Operator, Fail(o) PROVE PInv'
  BY <1>2, RestartKeepsInv DEF Fail
<1>3. CASE UNCHANGED vars
  <2>1. TypeOK' /\ KeptTimes' /\ NoOverlap'
    BY <1>3 DEF vars, PInv, TypeOK, KeptTimes, NoOverlap
  <2>2. \A p \in Operator : command'[p] # None => CommandOK(command[p])'
    BY <1>3 DEF vars, PInv, CommandOK
  <2>3. \A b \in bound' : BindingOK(b)'
    BY <1>3 DEF vars, PInv, BindingOK, FindVersion, Kept
  <2> QED BY <1>3, <2>1, <2>2, <2>3 DEF vars, PInv
<1> QED BY <1>1, <1>2, <1>3, IssueKeepsInv, RegisterKeepsInv, RevokeKeepsInv, VerifyKeepsInv,
           AddKeepsInv, TransitionKeepsInv, ResolveKeepsInv DEF Next

\* The invariant always holds.
LEMMA PInvHolds == Spec => []PInv
BY InitPInv, NextPInv, PTL DEF Spec

\* Every variable of the registry holds values of its kind, and every stored
\* version keeps a period that is not empty.
THEOREM RegistryTypeCorrect == Spec => []TypeOK
<1>1. PInv => TypeOK
  BY DEF PInv
<1> QED BY <1>1, PInvHolds, PTL

\* Periods that do not overlap have no time in common.
LEMMA OverlapIsAmbiguity == PInv => NeverAmbiguous
<1> SUFFICES ASSUME PInv, NEW v \in VersionID, NEW w \in VersionID,
                    versions[v] # None, versions[w] # None, v # w, NEW at \in Time,
                    effectiveAt(versions[v], at), effectiveAt(versions[w], at)
             PROVE  FALSE
  BY DEF NeverAmbiguous
<1>1. ~effectivePeriodsOverlap(versions[v], versions[w])
  BY DEF PInv, NoOverlap
<1>2. /\ versions[v].from \in Time /\ versions[w].from \in Time
      /\ versions[v].until \in Time \cup {None} /\ versions[w].until \in Time \cup {None}
  BY DEF PInv, TypeOK, Entry
<1>3. Time \subseteq Nat
  BY RequestAssumption DEF Time
<1>4. ASSUME NEW e, NEW f, e.from \in Time, f.until \in Time \cup {None},
             effectiveAt(e, at), effectiveAt(f, at)
      PROVE  Before(e.from, f.until)
  <2>1. at \in Nat /\ e.from \in Nat /\ e.from <= at
    BY <1>3, <1>4 DEF effectiveAt
  <2>2. f.until # None => f.until \in Nat /\ at < f.until
    BY <1>3, <1>4 DEF effectiveAt, Before
  <2>3. f.until # None => e.from < f.until
    BY <2>1, <2>2
  <2> QED BY <2>3 DEF Before
<1>5. Before(versions[v].from, versions[w].until) /\ Before(versions[w].from, versions[v].until)
  BY <1>2, <1>4
<1> QED BY <1>1, <1>5 DEF effectivePeriodsOverlap

\* Two versions of the policy never are effective at one time, so that Resolve
\* never answers ErrAmbiguousPolicy.
THEOREM ResolutionUnambiguous == Spec => []NeverAmbiguous
BY OverlapIsAmbiguity, PInvHolds, PTL

\* The lifecycle of every version is a path of events in the order of their
\* times, and both stores find its end.
THEOREM LifecycleOrdered == Spec => []LifecycleIsPath
<1>1. PInv => LifecycleIsPath
  <2> SUFFICES ASSUME PInv, NEW v \in VersionID, versions[v] # None
               PROVE  LET log == versions[v].log  n == Len(log) IN
                      /\ n > 0 /\ log[1].status = "ACTIVE"
                      /\ \A i \in 1 .. n - 1 :
                           /\ log[i].at <= log[i + 1].at
                           /\ \/ log[i].status = "ACTIVE" /\ log[i + 1].status # "ACTIVE"
                              \/ log[i].status = "SUSPENDED" /\ log[i + 1].status = "RETIRED"
                      /\ Current(versions[v]) = log[n]
    BY DEF LifecycleIsPath
  <2>1. versions[v] \in Entry /\ LogOK(versions[v].log)
    BY DEF PInv, TypeOK, EntryOK
  <2>2. /\ Current(versions[v]) = versions[v].log[Len(versions[v].log)]
        /\ Len(versions[v].log) \in Nat
    BY <2>1, CurrentIsLast
  <2>3. \A i \in 1 .. Len(versions[v].log) - 1 :
          versions[v].log[i].at <= versions[v].log[i + 1].at
    <3>1. \A i \in 1 .. Len(versions[v].log) - 1 :
            /\ i \in 1 .. Len(versions[v].log) /\ i + 1 \in 1 .. Len(versions[v].log)
            /\ i <= i + 1
      BY <2>2
    <3> QED BY <2>1, <3>1 DEF LogOK
  <2> QED BY <2>1, <2>2, <2>3 DEF LogOK
<1> QED BY <1>1, PInvHolds, PTL

\* An evaluation stays reproducible: the version that Resolve has bound to it is
\* found for ever, and no other one can be resolved for its time.
THEOREM BindingsReplay == Spec => []BindingsReplayable
<1>1. PInv => BindingsReplayable
  <2> SUFFICES ASSUME PInv, NEW b \in bound
               PROVE  /\ FindVersion(b.snapshot)
                      /\ LET e == versions[b.snapshot.id]
                         IN  e.approvedAt <= e.log[1].at /\ e.log[1].at <= b.at
                      /\ Matches(b.at) \subseteq {b.snapshot.id}
    BY DEF BindingsReplayable
  <2>1. BindingOK(b) /\ b.snapshot.id \in VersionID /\ b.at \in Time
    BY DEF PInv, TypeOK, Snapshot
  <2>2. versions[b.snapshot.id] # None /\ EntryOK(versions[b.snapshot.id])
    BY <2>1 DEF BindingOK, FindVersion, PInv
  <2>3. Kept(b.at) \in Time
    BY <2>1, KeptTime
  <2>4. NeverAmbiguous => Matches(b.at) \subseteq {b.snapshot.id}
    BY <2>1, <2>2, <2>3 DEF NeverAmbiguous, BindingOK, Matches
  <2>5. NeverAmbiguous
    BY OverlapIsAmbiguity
  <2> QED BY <2>1, <2>2, <2>4, <2>5 DEF BindingOK, EntryOK
<1> QED BY <1>1, PInvHolds, PTL

\* What the Verifier relied on stays in the trust store: the key of a stored
\* version has at most been revoked since, once.
THEOREM VerificationsKept == Spec => []VerificationsStand
<1>1. PInv => VerificationsStand
  BY DEF PInv, VerificationsStand, EntryOK, KeyStands
<1> QED BY <1>1, PInvHolds, PTL

-----------------------------------------------------------------------------
(***************************************************************************)
(* Repeated commands.                                                      *)
(***************************************************************************)
\* PostgreSQL holds no key whose validity is empty.
KeyPeriods ==
  backend = "postgres" =>
    \A k \in KeyID : keys[k] # None => Before(keys[k].validFrom, keys[k].validUntil)

\* Every step keeps the periods: one is checked as it is kept, and a revocation
\* leaves it as it is.
LEMMA NextKeyPeriods == PInv /\ KeyPeriods /\ [Next]_vars => KeyPeriods'
<1> SUFFICES ASSUME PInv, KeyPeriods, [Next]_vars PROVE KeyPeriods'
  OBVIOUS
<1>1. ASSUME UNCHANGED <<backend, keys>> PROVE KeyPeriods'
  BY <1>1 DEF KeyPeriods
<1>2. keys \in [KeyID -> VerificationKey \cup {None}]
  BY DEF PInv, TypeOK
<1>3. ASSUME NEW o \in Operator, AddVerificationKey(o) PROVE KeyPeriods'
  <2> DEFINE r == command[o].request
  <2>1. r.op = "register" /\ r \in Request /\ r.id \in KeyID /\ r.key \in VerificationKey
    BY <1>3, RequestTyped DEF AddVerificationKey, Running, PInv, TypeOK, Command
  <2>2. CASE UNCHANGED <<backend, keys>>
    BY <1>1, <2>2
  <2>3. CASE Registrable(r.key) /\ keys' = [keys EXCEPT ![r.id] = KeptKey(r.key)]
             /\ UNCHANGED backend
    <3>1. PICK q, k : q = r.key /\ k = KeptKey(q)
      OBVIOUS
    <3>2. /\ k.validFrom = IF q.validFrom = 0 THEN 0 ELSE Kept(q.validFrom)
          /\ k.validUntil = KeptOptional(q.validUntil)
      BY <2>1, <3>1 DEF KeptKey, VerificationKey
    <3>3. backend = "postgres" => Before(k.validFrom, k.validUntil)
      BY <2>3, <3>1, <3>2 DEF Registrable
    <3>4. \A i \in KeyID : keys'[i] = IF i = r.id THEN k ELSE keys[i]
      BY <1>2, <2>3, <3>1
    <3> HIDE DEF r
    <3> QED BY <2>3, <3>3, <3>4 DEF KeyPeriods
  <2> QED BY <1>3, <2>2, <2>3 DEF AddVerificationKey, Refuse
<1>4. ASSUME NEW o \in Operator, RevokeVerificationKey(o) PROVE KeyPeriods'
  <2> DEFINE r == command[o].request
  <2>1. CASE UNCHANGED <<backend, keys>>
    BY <1>1, <2>1
  <2>2. CASE keys[r.id] # None /\ keys' = [keys EXCEPT ![r.id].revokedAt = Kept(r.at)]
             /\ UNCHANGED backend
    <3>1. \A i \in KeyID : keys[i] # None => keys[i] \in VerificationKey
      BY <1>2
    <3>2. \A i \in KeyID :
            \/ keys'[i] = keys[i]
            \/ keys[i] # None /\ keys'[i] = [keys[i] EXCEPT !.revokedAt = Kept(r.at)]
      BY <1>2, <2>2
    <3>3. \A i \in KeyID : keys'[i] # None =>
            /\ keys[i] # None /\ keys'[i].validFrom = keys[i].validFrom
            /\ keys'[i].validUntil = keys[i].validUntil
      BY <3>1, <3>2 DEF VerificationKey
    <3> QED BY <2>2, <3>3 DEF KeyPeriods
  <2> QED BY <1>4, <2>1, <2>2 DEF RevokeVerificationKey, Revocable, Refuse
<1>5. CASE UNCHANGED vars
  BY <1>1, <1>5 DEF vars
<1>6. ASSUME NEW o \in Operator, NEW r \in Request, Issue(o, r) PROVE KeyPeriods'
  BY <1>1, <1>6 DEF Issue
<1>7. ASSUME NEW o \in Operator,
             VerifyAdmission(o) \/ Add(o) \/ transition(o) \/ Fail(o) \/ Dismiss(o)
      PROVE  KeyPeriods'
  BY <1>1, <1>7 DEF VerifyAdmission, Add, transition, Fail, Dismiss, Refuse
<1>8. ASSUME NEW at \in EvalTime, Resolve(at) PROVE KeyPeriods'
  BY <1>1, <1>8 DEF Resolve
<1> QED BY <1>3, <1>4, <1>5, <1>6, <1>7, <1>8 DEF Next

\* The command of an operator is refused now.
RefusedNow(o) ==
  /\ command[o] # None /\ command[o].step # "refused"
  /\ command'[o] # None /\ command'[o].step = "refused"

\* Only the step of a command refuses it.
LEMMA OtherStepsRefuseNothing ==
  ASSUME PInv, NEW o \in Operator, RefusedNow(o), NEW p \in Operator, NEW c,
         command' = [command EXCEPT ![p] = c]
  PROVE  p = o /\ c # None /\ c.step = "refused"
<1>1. command'[o] = IF p = o THEN c ELSE command[o]
  BY DEF PInv, TypeOK
<1> QED BY <1>1 DEF RefusedNow

\* A command that succeeds, fails or goes on is not refused.
LEMMA GoingOnIsNoRefusal ==
  ASSUME PInv, NEW o \in Operator, RefusedNow(o), NEW p \in Operator, command[p] # None,
         NEW s \in {"ready", "verified"}, NEW seen
  PROVE  /\ command' # [command EXCEPT ![p] = None]
         /\ command' # [command EXCEPT ![p] = [@ EXCEPT !.step = s, !.seen = seen]]
<1>1. command[p] \in Command
  BY DEF PInv, TypeOK
<1>2. [command[p] EXCEPT !.step = s, !.seen = seen].step = s
  BY <1>1 DEF Command
<1>3. PICK c : c = [command[p] EXCEPT !.step = s, !.seen = seen]
  OBVIOUS
<1>4. [command EXCEPT ![p] = [@ EXCEPT !.step = s, !.seen = seen]] = [command EXCEPT ![p] = c]
  BY <1>3 DEF PInv, TypeOK
<1> QED BY <1>2, <1>3, <1>4, OtherStepsRefuseNothing

\* A command is refused by the handler of its operation.
LEMMA RefusalIsOfHandler ==
  ASSUME PInv, NEW o \in Operator, RefusedNow(o), [Next]_vars
  PROVE  /\ Refuse(o)
         /\ \/ AddVerificationKey(o) \/ RevokeVerificationKey(o)
            \/ VerifyAdmission(o) \/ Add(o) \/ transition(o)
<1>1. command' # command
  BY DEF RefusedNow
<1>2. ASSUME NEW p \in Operator, command[p] # None PROVE ~Succeed(p) /\ ~Fail(p) /\ ~Dismiss(p)
  BY <1>2, GoingOnIsNoRefusal DEF Succeed, Fail, Dismiss
<1>3. ASSUME NEW p \in Operator, Refuse(p) PROVE p = o
  <2>1. \E c : command' = [command EXCEPT ![p] = c]
    BY <1>3 DEF Refuse
  <2> QED BY <2>1, OtherStepsRefuseNothing
<1>4. ASSUME NEW p \in Operator, NEW r \in Request PROVE ~Issue(p, r)
  <2> DEFINE c == [request |-> r, step |-> "ready", seen |-> None]
  <2>1. c.step = "ready"
    OBVIOUS
  <2> HIDE DEF c
  <2>2. command' # [command EXCEPT ![p] = c]
    BY <2>1, OtherStepsRefuseNothing
  <2> QED BY <2>2 DEF Issue, c
<1>5. ASSUME NEW p \in Operator, AddVerificationKey(p) \/ RevokeVerificationKey(p) PROVE Refuse(p)
  BY <1>2, <1>5 DEF AddVerificationKey, RevokeVerificationKey, Running
<1>6. ASSUME NEW p \in Operator, Add(p) \/ transition(p) PROVE Refuse(p)
  BY <1>2, <1>6 DEF Add, transition, Running
<1>7. ASSUME NEW p \in Operator, VerifyAdmission(p) PROVE Refuse(p)
  <2>1. command[p] # None
    BY <1>7 DEF VerifyAdmission, Running
  <2>2. command' # [command EXCEPT ![p] = [@ EXCEPT !.step = "verified",
                                                   !.seen = keys[command[p].request.key]]]
    BY <2>1, GoingOnIsNoRefusal
  <2> QED BY <1>7, <2>2 DEF VerifyAdmission
<1>8. ~Fail(o) /\ ~Dismiss(o) /\ \A p \in Operator : ~Fail(p) /\ ~Dismiss(p)
  BY <1>2 DEF Fail, Dismiss
<1>9. \A at \in EvalTime : ~Resolve(at)
  BY <1>1 DEF Resolve
<1>10. Next
  BY <1>1 DEF vars
<1>11. PICK p \in Operator :
         \/ AddVerificationKey(p) \/ RevokeVerificationKey(p)
         \/ VerifyAdmission(p) \/ Add(p) \/ transition(p)
  BY <1>4, <1>8, <1>9, <1>10 DEF Next
<1>12. Refuse(p)
  BY <1>5, <1>6, <1>7, <1>11
<1> QED BY <1>3, <1>11, <1>12

\* A refusal and a success are told apart.
LEMMA RefusedIsNotDone ==
  ASSUME PInv, NEW o \in Operator, RefusedNow(o)
  PROVE  ~Succeed(o)
BY GoingOnIsNoRefusal DEF Succeed, RefusedNow

\* A key that is registered again is recognised: what PostgreSQL keeps of it is
\* what it is given, and its period is one that can be registered.
LEMMA RegistrationRecognised ==
  ASSUME PInv, KeyPeriods, backend = "postgres", NEW r \in Request, r.op = "register",
         CarriedOut(r), \A t \in TimesOf(r) : Kept(t) = t
  PROVE  keys[r.id] # None /\ Registrable(r.key) /\ SameKey(keys[r.id], r.key)
<1>1. r.id \in KeyID /\ r.key \in VerificationKey
  BY RequestTyped
<1>2. PICK id, k, q : id = r.id /\ k = keys[r.id] /\ q = r.key
  OBVIOUS
<1>3. k # None /\ [k EXCEPT !.revokedAt = None] = KeptKey(q)
  BY <1>2 DEF CarriedOut
<1>4. k \in VerificationKey /\ q \in VerificationKey
  BY <1>1, <1>2, <1>3 DEF PInv, TypeOK
<1>5. k.validFrom \in Time /\ Before(k.validFrom, k.validUntil)
  BY <1>1, <1>2, <1>3 DEF PInv, KeptTimes, KeyPeriods
<1>6. /\ q.validFrom # None /\ Kept(q.validFrom) = q.validFrom
      /\ KeptOptional(q.validUntil) = q.validUntil
  <2>1. TimesOf(r) = {q.validFrom, q.validUntil} \ {None}
    BY <1>2 DEF TimesOf
  <2>2. q.validFrom # None
    <3>1. k.validFrom = IF q.validFrom = 0 THEN 0 ELSE Kept(q.validFrom)
      BY <1>3, <1>4 DEF KeptKey, VerificationKey
    <3>2. 0 \notin Time
      BY RequestAssumption DEF Time
    <3> QED BY <1>4, <1>5, <3>1, <3>2, NoneAssumption DEF VerificationKey
  <2> QED BY <2>1, <2>2 DEF KeptOptional
<1>7. KeptKey(q) = [q EXCEPT !.revokedAt = None]
  BY <1>4, <1>6 DEF KeptKey, VerificationKey
<1>8. k.validFrom = q.validFrom /\ k.validUntil = q.validUntil /\ k.material = q.material
  BY <1>3, <1>4, <1>7 DEF VerificationKey
<1>9. SameKey(k, q)
  BY <1>4, <1>8 DEF SameKey, VerificationKey
<1>10. Registrable(q)
  BY <1>5, <1>6, <1>8, RequestAssumption DEF Registrable, Time
<1> QED BY <1>2, <1>3, <1>9, <1>10

\* PostgreSQL recognises a repeated command by the times that it has kept: what
\* has been carried out is refused only if a time of it was cut, or if it is an
\* admission whose key no longer verifies.
THEOREM RepetitionsRecognised == Spec => RepeatsAreRecognised
<1>1. Init => KeyPeriods
  BY DEF Init, KeyPeriods
<1>2. Spec => []KeyPeriods
  BY <1>1, NextKeyPeriods, PInvHolds, PTL DEF Spec
<1>3. ASSUME PInv, KeyPeriods, [Next]_vars, NEW o \in Operator, RefusedNow(o),
             backend = "postgres", CarriedOut(command[o].request),
             \A t \in TimesOf(command[o].request) : Kept(t) = t
      PROVE  Running(o, "admit", "ready")
  <2>1. PICK r : r = command[o].request
    OBVIOUS
  <2>2. r \in Request
    BY <1>3, <2>1 DEF PInv, TypeOK, Command, RefusedNow
  <2>3. ~Succeed(o)
    BY <1>3, RefusedIsNotDone
  <2>4. CASE AddVerificationKey(o)
    <3>1. r.op = "register"
      BY <2>1, <2>4 DEF AddVerificationKey, Running
    <3>2. keys[r.id] # None /\ Registrable(r.key) /\ SameKey(keys[r.id], r.key)
      BY <1>3, <2>1, <2>2, <3>1, RegistrationRecognised
    <3> QED BY <2>1, <2>3, <2>4, <3>2 DEF AddVerificationKey
  <2>5. CASE RevokeVerificationKey(o)
    <3>1. r.op = "revoke"
      BY <2>1, <2>5 DEF RevokeVerificationKey, Running
    <3>2. keys[r.id] # None /\ keys[r.id].revokedAt = r.at
      BY <1>3, <2>1, <3>1 DEF CarriedOut, TimesOf
    <3> QED BY <2>1, <2>3, <2>5, <3>2 DEF RevokeVerificationKey
  <2>6. CASE Add(o)
    <3>1. r.op = "admit"
      BY <2>1, <2>6 DEF Add, Running
    <3>2. versions[r.snapshot.id] # None /\ SameAdmission(versions[r.snapshot.id], r)
      BY <1>3, <2>1, <3>1 DEF CarriedOut, TimesOf, SameAdmission
    <3> QED BY <2>1, <2>3, <2>6, <3>2 DEF Add
  <2>7. CASE transition(o)
    <3>1. r.op \in {"suspend", "retire"}
      BY <2>1, <2>7 DEF transition, Running
    <3>2. versions[r.id] # None /\ AlreadyDone(versions[r.id], Target(r.op), r.at)
      BY <1>3, <2>1, <3>1 DEF CarriedOut, TimesOf, AlreadyDone
    <3> QED BY <2>1, <2>3, <2>7, <3>2 DEF transition, Running
  <2>8. CASE VerifyAdmission(o)
    BY <2>8 DEF VerifyAdmission
  <2> QED BY <1>3, <2>4, <2>5, <2>6, <2>7, <2>8, RefusalIsOfHandler
<1>4. PInv /\ KeyPeriods /\ [Next]_vars =>
        [\A o \in Operator :
           /\ backend = "postgres" /\ command[o] # None /\ command[o].step # "refused"
           /\ CarriedOut(command[o].request)
           /\ \A t \in TimesOf(command[o].request) : Kept(t) = t
           /\ command'[o] # None /\ command'[o].step = "refused"
           => Running(o, "admit", "ready")]_vars
  BY <1>3 DEF RefusedNow
<1> QED BY <1>2, <1>4, PInvHolds, PTL DEF Spec, RepeatsAreRecognised

-----------------------------------------------------------------------------
(***************************************************************************)
(* What admission promises of the documents.                               *)
(***************************************************************************)
Documents == INSTANCE PolicyDocument

\* A qualification policy as the compiler hands it to the Qualifier: what it
\* lists has no blank entry.
CompiledPolicy(q) ==
  /\ Documents!ValidQualificationPolicy(q)
  /\ q.maxAge \in Nat /\ q.futureTolerance \in Nat
  /\ None \notin q.trustedSources \cup q.allowedMethods

\* An evidence object that NewObject makes, Types being the texts that
\* typePattern matches.
Made(o, Types) ==
  /\ o.id \in Nat /\ o.observedAt \in Nat \ {0}
  /\ o.source # None /\ o.method # None /\ o.type \in Types
  /\ o.confidence \in 0 .. 100 \cup {None}

\* What JSON pointers find in an object with the given fields and text.
Flat(fields, text) ==
  [x \in {<<>>} \cup {<<k>> : k \in DOMAIN fields} |->
     IF x = <<>> THEN [kind |-> "object", number |-> None, text |-> text] ELSE fields[x[1]]]

\* The payload is an object whose fields are scalars, Render giving the canonical
\* text of such an object.
IsRecord(payload, Render) ==
  \E fields : /\ \A k \in DOMAIN fields : fields[k].kind = "scalar"
              /\ payload = Flat(fields, Render[fields])

\* An object that passes on its own.
Passes(q, o, session, t, Types) ==
  Made(o, Types) /\ Documents!QualifySet(q, {o}, session, t) = "QUALIFIED"

\* There is an object of that type, source and payload that passes.
Available(q, type, source, payload, session, t, Types) ==
  \E o : /\ Passes(q, o, session, t, Types)
         /\ o.type = type /\ o.source = source /\ o.payload = payload

\* A payload that has every field the policy demands, and not as null.
HasFields(q, payload) ==
  \A k \in q.requiredPayloadFields :
    /\ payload[<<>>].kind = "object"
    /\ <<k>> \in DOMAIN payload /\ payload[<<k>>] # Documents!Null

\* The selector names a type that an evidence object can have: such a text has no
\* blanks around it.
NamesType(s, Types) == s.type.text \in Types /\ s.type.trimmed = s.type.text

\* What is found in an object with the given fields.
LEMMA FlatFields ==
  ASSUME NEW fields, NEW text, NEW p, p = Flat(fields, text)
  PROVE  /\ p[<<>>].kind = "object"
         /\ \A k \in DOMAIN fields : <<k>> \in DOMAIN p /\ p[<<k>>] = fields[k]
<1>1. \A k : <<k>> # <<>> /\ <<k>>[1] = k
  OBVIOUS
<1>2. <<>> \in DOMAIN p /\ p[<<>>] = [kind |-> "object", number |-> None, text |-> text]
  BY DEF Flat
<1>3. \A k \in DOMAIN fields : <<k>> \in DOMAIN p /\ p[<<k>>] = fields[k]
  BY <1>1 DEF Flat
<1> QED BY <1>2, <1>3

\* An object on its own has only its own reasons: QualifySet qualifies it if
\* each of the Qualifier's checks lets it pass.
LEMMA OneObjectQualifies ==
  ASSUME NEW q, NEW o, NEW session, NEW t,
         o.session = session, o.observedAt \in Int,
         q.trustedSources = {} \/ o.source \in q.trustedSources,
         q.allowedTypes = {} \/ o.type \in q.allowedTypes,
         ~(o.observedAt > t + q.futureTolerance),
         ~(q.maxAge > 0 /\ t - o.observedAt > q.maxAge),
         o.confidence # None,
         q.minimumConfidence # None => ~(o.confidence < q.minimumConfidence),
         q.requiredProvenance \subseteq o.provenance,
         HasFields(q, o.payload),
         q.allowedMethods = {} \/ o.method \in q.allowedMethods,
         o.id \in Int
  PROVE  Documents!QualifySet(q, {o}, session, t) = "QUALIFIED"
<1>1. Documents!QualifyReasons(q, o, t) = {}
  BY DEF Documents!QualifyReasons, Documents!When, HasFields, Documents!HasField
<1>2. Documents!SetReasons({o}, session, o) = {}
  <2>1. Documents!Group({o}, session, o) = {o}
    BY DEF Documents!Group
  <2>2. ~Documents!Earlier(o, o)
    BY DEF Documents!Earlier
  <2> QED BY <2>1, <2>2 DEF Documents!SetReasons, Documents!When
<1>3. Documents!Reasons(q, {o}, session, o, t) = {}
  BY <1>1, <1>2 DEF Documents!Reasons
<1> QED BY <1>3 DEF Documents!QualifySet

\* What the Qualifier lets pass, alone or among others, is of an allowed type
\* and from a trusted source.
LEMMA QualifiedIsInScope ==
  ASSUME NEW q, NEW S, NEW session, NEW t, NEW o \in S,
         Documents!QualifySet(q, S, session, t) = "QUALIFIED"
  PROVE  /\ q.trustedSources = {} \/ o.source \in q.trustedSources
         /\ q.allowedTypes = {} \/ o.type \in q.allowedTypes
<1>1. Documents!Reasons(q, S, session, o, t) = {}
  BY DEF Documents!QualifySet
<1>2. Documents!QualifyReasons(q, o, t) = {}
  BY <1>1 DEF Documents!Reasons
<1> QED BY <1>2 DEF Documents!QualifyReasons, Documents!When

\* For every compiled policy there is evidence of an allowed type and from a
\* trusted source that it qualifies, whatever the payload says of the fields
\* that the policy demands: observed now, with full confidence, all the
\* provenance demanded, and acquired by an allowed method.
LEMMA EvidenceInScopeExists ==
  ASSUME None \notin Nat, NEW q, CompiledPolicy(q), NEW session, NEW t \in Nat \ {0},
         NEW Types, NEW type \in Types, q.allowedTypes = {} \/ type \in q.allowedTypes,
         NEW source, source # None,
         q.trustedSources = {} \/ source \in q.trustedSources,
         NEW payload, HasFields(q, payload)
  PROVE  Available(q, type, source, payload, session, t, Types)
<1>1. PICK method : method # None /\ (q.allowedMethods = {} \/ method \in q.allowedMethods)
  <2>1. CASE q.allowedMethods = {}
    <3>1. 0 # None
      OBVIOUS
    <3> QED BY <2>1, <3>1
  <2>2. CASE q.allowedMethods # {}
    BY <2>2 DEF CompiledPolicy
  <2> QED BY <2>1, <2>2
<1> DEFINE o == [id |-> 0, session |-> session, source |-> source, type |-> type,
                 observedAt |-> t, confidence |-> 100,
                 provenance |-> q.requiredProvenance, payload |-> payload,
                 method |-> method]
<1>2. Made(o, Types) /\ o.type = type /\ o.source = source /\ o.payload = payload
  BY <1>1 DEF Made
<1>3. /\ o.session = session /\ o.observedAt = t /\ o.id = 0 /\ o.confidence = 100
      /\ o.provenance = q.requiredProvenance /\ o.method = method
  OBVIOUS
<1>4. ~(t > t + q.futureTolerance) /\ ~(q.maxAge > 0 /\ t - t > q.maxAge)
  BY DEF CompiledPolicy
<1>5. 100 # None /\ (q.minimumConfidence # None => ~(100 < q.minimumConfidence))
  BY DEF CompiledPolicy, Documents!ValidQualificationPolicy
<1>6. HasFields(q, o.payload)
  OBVIOUS
<1>7. Documents!QualifySet(q, {o}, session, t) = "QUALIFIED"
  <2> HIDE DEF o
  <2>1. /\ o.session = session /\ o.observedAt \in Int /\ o.id \in Int
        /\ q.trustedSources = {} \/ o.source \in q.trustedSources
        /\ q.allowedTypes = {} \/ o.type \in q.allowedTypes
        /\ q.allowedMethods = {} \/ o.method \in q.allowedMethods
        /\ q.requiredProvenance \subseteq o.provenance
    BY <1>1, <1>2, <1>3
  <2>2. /\ ~(o.observedAt > t + q.futureTolerance)
        /\ ~(q.maxAge > 0 /\ t - o.observedAt > q.maxAge)
        /\ o.confidence # None
        /\ q.minimumConfidence # None => ~(o.confidence < q.minimumConfidence)
    BY <1>3, <1>4, <1>5
  <2> QED BY <1>6, <2>1, <2>2, OneObjectQualifies
<1> QED BY <1>2, <1>7 DEF Passes, Available

\* For a selector in scope there is evidence that it matches and that passes,
\* whatever it says in the fields that the policy demands.
LEMMA ScopeOffersEvidence ==
  ASSUME None \notin Nat, NEW q, CompiledPolicy(q), NEW session, NEW t \in Nat \ {0},
         NEW Types, NEW s, NamesType(s, Types), Documents!InScope(q, s),
         NEW payload, HasFields(q, payload)
  PROVE  \E o : /\ Passes(q, o, session, t, Types) /\ o.payload = payload
                /\ Documents!SelectorMatches(o, s)
<1>1. PICK source : /\ source # None /\ (s.source = None \/ source = s.source)
                    /\ q.trustedSources = {} \/ source \in q.trustedSources
  <2>1. CASE s.source # None
    BY <2>1 DEF Documents!InScope
  <2>2. CASE s.source = None /\ q.trustedSources = {}
    <3>1. 0 # None
      OBVIOUS
    <3> QED BY <2>2, <3>1
  <2>3. CASE s.source = None /\ q.trustedSources # {}
    BY <2>3 DEF CompiledPolicy
  <2> QED BY <2>1, <2>2, <2>3
<1>2. s.type.text \in Types /\ (q.allowedTypes = {} \/ s.type.text \in q.allowedTypes)
  BY DEF Documents!InScope, NamesType
<1>3. Available(q, s.type.text, source, payload, session, t, Types)
  BY <1>1, <1>2, EvidenceInScopeExists
<1>4. PICK o : /\ Passes(q, o, session, t, Types)
               /\ o.type = s.type.text /\ o.source = source /\ o.payload = payload
  BY <1>3 DEF Available
<1>5. Documents!SelectorMatches(o, s)
  BY <1>1, <1>4 DEF Documents!SelectorMatches
<1> QED BY <1>4, <1>5

\* validateEvidenceQualificationScope is exact for the selectors whose type an
\* evidence object can have, and lets some through that match nothing: a selector
\* is in scope and names such a type if and only if some evidence that it matches
\* can be qualified, at whatever time and in whatever session.  The payload is of
\* no account: whatever the policy demands of it, an object with scalar fields has.
THEOREM ScopeIsExact ==
  ASSUME None \notin Nat, NEW q, CompiledPolicy(q), NEW session, NEW t \in Nat \ {0},
         NEW Types, NEW Render, NEW s, s.type.text \in Types => s.type.trimmed = s.type.text
  PROVE  /\ Documents!InScope(q, s) /\ s.type.text \in Types =>
              \E o : /\ Passes(q, o, session, t, Types) /\ Documents!SelectorMatches(o, s)
                     /\ IsRecord(o.payload, Render)
         /\ (\E S, o : /\ o \in S /\ Made(o, Types) /\ Documents!SelectorMatches(o, s)
                       /\ Documents!QualifySet(q, S, session, t) = "QUALIFIED")
              => Documents!InScope(q, s) /\ s.type.text \in Types
<1>1. ASSUME NEW S, NEW o \in S, Made(o, Types), Documents!SelectorMatches(o, s),
             Documents!QualifySet(q, S, session, t) = "QUALIFIED"
      PROVE  Documents!InScope(q, s) /\ s.type.text \in Types
  <2>1. o.type = s.type.text /\ s.type.text \in Types /\ s.type.trimmed = s.type.text
    BY <1>1 DEF Documents!SelectorMatches, Made
  <2> QED BY <1>1, <2>1, QualifiedIsInScope DEF Documents!InScope, Documents!SelectorMatches
<1>2. ASSUME Documents!InScope(q, s), s.type.text \in Types
      PROVE  \E o : /\ Passes(q, o, session, t, Types) /\ Documents!SelectorMatches(o, s)
                    /\ IsRecord(o.payload, Render)
  <2> DEFINE value == [kind |-> "scalar", number |-> 0, text |-> "0"]
             fields == [k \in q.requiredPayloadFields |-> value]
  <2>1. PICK p : p = Flat(fields, Render[fields])
    OBVIOUS
  <2>2. value # Documents!Null /\ value.kind = "scalar"
    BY DEF Documents!Null
  <2>3. DOMAIN fields = q.requiredPayloadFields /\ \A k \in DOMAIN fields : fields[k] = value
    OBVIOUS
  <2> HIDE DEF value, fields
  <2>4. IsRecord(p, Render)
    BY <2>1, <2>2, <2>3 DEF IsRecord
  <2>5. HasFields(q, p)
    <3>1. /\ p[<<>>].kind = "object"
          /\ \A k \in DOMAIN fields : <<k>> \in DOMAIN p /\ p[<<k>>] = fields[k]
      BY <2>1, FlatFields
    <3> QED BY <2>2, <2>3, <3>1 DEF HasFields
  <2>6. NamesType(s, Types)
    BY <1>2 DEF NamesType
  <2>7. PICK o : /\ Passes(q, o, session, t, Types) /\ o.payload = p
                 /\ Documents!SelectorMatches(o, s)
    BY <1>2, <2>5, <2>6, ScopeOffersEvidence
  <2> QED BY <2>4, <2>7
<1> QED BY <1>1, <1>2

\* A set of one has one element, for the compiler's Cardinality too.
LEMMA CountOne ==
  ASSUME NEW x
  PROVE  Documents!Cardinality({x}) = 1
<1>1. \A S : Documents!Cardinality(S) = Cardinality(S)
  BY DEF Documents!Cardinality, Cardinality
<1> QED BY <1>1, FS_Singleton

\* One object is listed in one way.
LEMMA OneObjectInOrder ==
  ASSUME NEW o
  PROVE  Documents!Chronological({o}) = <<o>>
<1> DEFINE n == Documents!Cardinality({o})
           ordered(s) == \A i, j \in 1 .. n : i < j => Documents!Earlier(s[i], s[j])
<1>1. n = 1
  BY CountOne
<1>2. Documents!Chronological({o}) = CHOOSE s \in [1 .. n -> {o}] : ordered(s)
  BY DEF Documents!Chronological
<1> HIDE DEF n
<1>3. <<o>> \in [1 .. n -> {o}] /\ ordered(<<o>>)
  BY <1>1
<1>4. \A s \in [1 .. n -> {o}] : s = <<o>>
  BY <1>1
<1> HIDE DEF ordered
<1> QED BY <1>2, <1>3, <1>4

\* Given one object, and one that its selector matches, a rule sees this one.
LEMMA MatchesTheOne ==
  ASSUME NEW o, NEW s, Documents!SelectorMatches(o, s)
  PROVE  Documents!Matches(<<o>>, s) = {1}
BY DEF Documents!Matches

\* selectValue finds the value at its pointer.
LEMMA SelectsTheOne ==
  ASSUME NEW o, NEW s, Documents!SelectorMatches(o, s),
         s.pointer \in DOMAIN o.payload
  PROVE  Documents!SelectValue(<<o>>, s) =
           [status |-> "SELECTED", value |-> o.payload[s.pointer]]
<1>1. Documents!Matches(<<o>>, s) = {1} /\ Documents!Cardinality({1}) = 1
  BY MatchesTheOne, CountOne
<1>2. <<o>>[CHOOSE i \in {1} : TRUE] = o
  OBVIOUS
<1> QED BY <1>1, <1>2 DEF Documents!SelectValue

\* The rules that one object with scalar fields can satisfy: the comparisons of
\* a field with a scalar, unless the policy demands a field that the rule wants to
\* be null, and the counts of one.
OneObjectRule(rule, q, Types) ==
  /\ \A s \in Documents!Selectors(rule) : NamesType(s, Types)
  /\ rule.operator \in {"MATCH", "RANGE", "TOLERANCE"} => \E k : rule.selector.pointer = <<k>>
  /\ \/ /\ rule.operator = "MATCH" /\ rule.expected.kind = "scalar"
        /\ rule.expected # Documents!Null
           \/ \A k \in q.requiredPayloadFields : rule.selector.pointer # <<k>>
     \/ /\ rule.operator = "RANGE" /\ rule.minimum.kind = "scalar"
        /\ {rule.minimum.number, rule.maximum.number} \subseteq Int \cup {None}
     \/ /\ rule.operator = "TOLERANCE" /\ rule.expected.kind = "scalar"
        /\ {rule.expected.number, rule.tolerance.number} \subseteq Int \cup {None}
     \/ rule.operator = "EXISTENCE" /\ rule.minimumCount = 1

\* A value that satisfies a comparison.
WantedValue(rule) == IF rule.operator = "RANGE" THEN rule.minimum ELSE rule.expected

\* A compiled comparison passes an object that has the wanted value.
LEMMA WantedValuePasses ==
  ASSUME NEW rule, NEW q, NEW Types, OneObjectRule(rule, q, Types),
         Documents!ValidArguments(rule),
         rule.operator # "EXISTENCE", NEW o,
         Documents!SelectorMatches(o, rule.selector),
         rule.selector.pointer \in DOMAIN o.payload,
         o.payload[rule.selector.pointer] = WantedValue(rule)
  PROVE  Documents!Evaluate(rule, <<o>>) = Documents!Pass
<1> DEFINE v == [status |-> "SELECTED", value |-> WantedValue(rule)]
<1>1. Documents!SelectValue(<<o>>, rule.selector) = v
  BY SelectsTheOne
<1>2. v.status = "SELECTED" /\ v.value = WantedValue(rule)
  OBVIOUS
<1> HIDE DEF v
<1>3. CASE rule.operator = "MATCH"
  BY <1>1, <1>2, <1>3 DEF Documents!Evaluate, Documents!Match, WantedValue
<1>4. CASE rule.operator = "RANGE"
  <2>1. /\ v.value = rule.minimum /\ rule.minimum.number # None
        /\ rule.minimum.number \in Int
        /\ rule.minimum.number <= rule.maximum.number
    BY <1>2, <1>4 DEF WantedValue, OneObjectRule, Documents!ValidArguments, Documents!IsNumber
  <2>2. Documents!NumericValue(<<o>>, rule.selector) = v
    BY <1>1, <2>1 DEF Documents!NumericValue
  <2>3. Documents!InRange(rule, <<o>>) = Documents!Pass
    BY <1>2, <2>1, <2>2 DEF Documents!InRange
  <2> QED BY <1>4, <2>3 DEF Documents!Evaluate
<1>5. CASE rule.operator = "TOLERANCE"
  <2>1. /\ v.value = rule.expected /\ rule.expected.number # None
        /\ rule.expected.number \in Int /\ rule.tolerance.number \in Int
        /\ rule.tolerance.number >= 0
    BY <1>2, <1>5 DEF WantedValue, OneObjectRule, Documents!ValidArguments, Documents!IsNumber
  <2>2. Documents!NumericValue(<<o>>, rule.selector) = v
    BY <1>1, <2>1 DEF Documents!NumericValue
  <2>3. Documents!InTolerance(rule, <<o>>) = Documents!Pass
    BY <1>2, <2>1, <2>2 DEF Documents!InTolerance
  <2> QED BY <1>5, <2>3 DEF Documents!Evaluate
<1> QED BY <1>3, <1>4, <1>5 DEF OneObjectRule

\* A count of one passes an object that it counts.
LEMMA CountedObjectPasses ==
  ASSUME NEW rule, rule.operator = "EXISTENCE", rule.minimumCount = 1, NEW o,
         Documents!SelectorMatches(o, Documents!ExistenceSelector(rule))
  PROVE  Documents!Evaluate(rule, <<o>>) = Documents!Pass
<1> DEFINE s == Documents!ExistenceSelector(rule)
<1>1. Documents!Cardinality(Documents!Matches(<<o>>, s)) = 1
  <2>1. Documents!SelectorMatches(o, s)
    OBVIOUS
  <2> HIDE DEF s
  <2>2. Documents!Matches(<<o>>, s) = {1}
    BY <2>1, MatchesTheOne
  <2> QED BY <2>2, CountOne
<1>2. Documents!Existence(rule, <<o>>) = Documents!Pass
  BY <1>1 DEF Documents!Existence
<1> QED BY <1>2 DEF Documents!Evaluate

\* The qualification section of a document, as it is parsed.
ParsedQualification(d) ==
  /\ d.qualification =
       [f \in {"version", "trustedSources", "allowedTypes", "allowedMethods", "maxAge",
               "futureTolerance", "requireConfidence", "minimumConfidence",
               "requiredProvenance", "requiredPayloadFields"} |-> d.qualification[f]]
  /\ d.qualification.maxAge \in Int /\ d.qualification.futureTolerance \in Int

\* CompileQualificationPolicy yields a policy without blank entries.
LEMMA CompilerYieldsPolicy ==
  ASSUME NEW d, ParsedQualification(d), Documents!CompileQualificationPolicy(d)
  PROVE  CompiledPolicy(Documents!CompiledQualification(d))
<1> DEFINE q == Documents!CompiledQualification(d)
<1>1. /\ q.maxAge = d.qualification.maxAge
      /\ q.futureTolerance = d.qualification.futureTolerance
      /\ q.trustedSources = Documents!Range(d.qualification.trustedSources)
      /\ q.allowedMethods = Documents!Range(d.qualification.allowedMethods)
  BY DEF ParsedQualification, Documents!CompiledQualification
<1>2. /\ None \notin Documents!Range(d.qualification["trustedSources"])
      /\ None \notin Documents!Range(d.qualification["allowedMethods"])
  BY DEF Documents!CompileQualificationPolicy, Documents!ValidList
<1>3. Documents!ValidQualificationPolicy(q)
  BY DEF Documents!CompileQualificationPolicy
<1>4. q.maxAge \in Nat /\ q.futureTolerance \in Nat
  BY <1>1, <1>3 DEF ParsedQualification, Documents!ValidQualificationPolicy
<1> QED BY <1>1, <1>2, <1>3, <1>4 DEF CompiledPolicy

\* The rule of a document can pass: there is an object that NewObject makes, that
\* the document's policy qualifies and of which the compiled rule decides PASS.
CanPass(d, id, session, t, Types, Render) ==
  \E o : /\ Made(o, Types) /\ IsRecord(o.payload, Render)
         /\ Documents!QualifiesUnder(d, {o}, session, t)
         /\ Documents!DecideBy(d, id, {o}, None) = "PASS"

\* No rule is admitted in vain that compares a field with a scalar or counts one
\* object, of a type that evidence can have: for every such required rule of a
\* document that ValidatePolicyDocument accepts there is evidence that the
\* document's own qualification policy qualifies, in any session and at any time,
\* and of which the compiled rule decides PASS.
THEOREM AdmittedRuleCanPass ==
  ASSUME None \notin Nat, NEW d, ParsedQualification(d),
         Documents!ValidatePolicyDocument(d), NEW Types, NEW Render,
         NEW id \in Documents!Range(d.required),
         OneObjectRule(Documents!RuleNamed(d, id), Documents!CompiledQualification(d), Types),
         NEW session, NEW t \in Nat \ {0}
  PROVE  CanPass(d, id, session, t, Types, Render)
<1> DEFINE q == Documents!CompiledQualification(d)
           rule == Documents!RuleNamed(d, id)
           value == [kind |-> "scalar", number |-> 0, text |-> "0"]
<1>1. CompiledPolicy(q)
  BY CompilerYieldsPolicy DEF Documents!ValidatePolicyDocument
<1>2. /\ \A s \in Documents!Selectors(rule) : Documents!InScope(q, s)
      /\ Documents!ValidArguments(rule)
  BY DEF Documents!ValidatePolicyDocument, Documents!CompileRule, Documents!CompilePolicyRule
<1>3. OneObjectRule(rule, q, Types)
  OBVIOUS
<1>4. value # Documents!Null /\ value.kind = "scalar"
  BY DEF Documents!Null
<1>5. ASSUME NEW o, Passes(q, o, session, t, Types), IsRecord(o.payload, Render),
             Documents!Evaluate(rule, <<o>>) = Documents!Pass
      PROVE  CanPass(d, id, session, t, Types, Render)
  <2>1. Documents!CompileRule(d, id)
    BY DEF Documents!ValidatePolicyDocument
  <2>2. Documents!Chronological({o}) = <<o>>
    BY OneObjectInOrder
  <2>3. Documents!Pass.status = "PASS"
    BY DEF Documents!Pass
  <2>4. Documents!DecideBy(d, id, {o}, None) = "PASS"
    BY <1>5, <2>1, <2>2, <2>3 DEF Documents!DecideBy
  <2> QED BY <1>5, <2>4 DEF CanPass, Passes, Documents!QualifiesUnder
<1> HIDE DEF q, rule, value
\* A payload that passes, for a selector in scope, has an object.
<1>6. ASSUME NEW s \in Documents!Selectors(rule), NEW payload, HasFields(q, payload)
      PROVE  \E o : /\ Passes(q, o, session, t, Types) /\ o.payload = payload
                    /\ Documents!SelectorMatches(o, s)
  <2>1. NamesType(s, Types) /\ Documents!InScope(q, s)
    BY <1>2, <1>3, <1>6 DEF OneObjectRule
  <2> QED BY <1>1, <1>6, <2>1, ScopeOffersEvidence
<1>7. CASE rule.operator = "EXISTENCE"
  <2> DEFINE s == Documents!ExistenceSelector(rule)
             fields == [k \in q.requiredPayloadFields |-> value]
  <2>1. s \in Documents!Selectors(rule)
    BY <1>7 DEF Documents!Selectors
  <2>2. PICK p : p = Flat(fields, Render[fields])
    OBVIOUS
  <2>3. DOMAIN fields = q.requiredPayloadFields /\ \A k \in DOMAIN fields : fields[k] = value
    OBVIOUS
  <2>4. rule.minimumCount = 1
    BY <1>3, <1>7 DEF OneObjectRule
  <2> HIDE DEF fields
  <2>5. IsRecord(p, Render)
    BY <1>4, <2>2, <2>3 DEF IsRecord
  <2>6. HasFields(q, p)
    <3>1. /\ p[<<>>].kind = "object"
          /\ \A k \in DOMAIN fields : <<k>> \in DOMAIN p /\ p[<<k>>] = fields[k]
      BY <2>2, FlatFields
    <3> QED BY <1>4, <2>3, <3>1 DEF HasFields
  <2>7. PICK o : /\ Passes(q, o, session, t, Types) /\ o.payload = p
                 /\ Documents!SelectorMatches(o, s)
    BY <1>6, <2>1, <2>6
  <2>8. Documents!Evaluate(rule, <<o>>) = Documents!Pass
    BY <1>7, <2>4, <2>7, CountedObjectPasses
  <2> QED BY <1>5, <2>5, <2>7, <2>8
<1>8. CASE rule.operator # "EXISTENCE"
  <2>1. rule.operator \in {"MATCH", "RANGE", "TOLERANCE"}
    BY <1>3, <1>8 DEF OneObjectRule
  <2>2. PICK k : rule.selector.pointer = <<k>>
    BY <1>3, <2>1 DEF OneObjectRule
  <2> DEFINE s == rule.selector
             fields == [f \in q.requiredPayloadFields \cup {k} |->
                          IF f = k THEN WantedValue(rule) ELSE value]
  <2>3. s \in Documents!Selectors(rule)
    BY <2>1 DEF Documents!Selectors
  <2>4. WantedValue(rule).kind = "scalar"
    BY <1>3, <2>1 DEF OneObjectRule, WantedValue
  <2>5. k \in q.requiredPayloadFields => WantedValue(rule) # Documents!Null
    <3>1. CASE rule.operator = "MATCH"
      BY <1>3, <2>2, <3>1 DEF OneObjectRule, WantedValue
    <3>2. CASE rule.operator \in {"RANGE", "TOLERANCE"}
      <4>1. WantedValue(rule).number # None
        BY <1>2, <3>2 DEF WantedValue, Documents!ValidArguments, Documents!IsNumber
      <4>2. Documents!Null.number = None
        BY DEF Documents!Null
      <4> QED BY <4>1, <4>2
    <3> QED BY <2>1, <3>1, <3>2
  <2>6. PICK p : p = Flat(fields, Render[fields])
    OBVIOUS
  <2>7. /\ DOMAIN fields = q.requiredPayloadFields \cup {k}
        /\ \A f \in DOMAIN fields : fields[f] = IF f = k THEN WantedValue(rule) ELSE value
    OBVIOUS
  <2> HIDE DEF fields
  <2>8. IsRecord(p, Render)
    BY <1>4, <2>4, <2>6, <2>7 DEF IsRecord
  <2>9. HasFields(q, p)
    <3>1. /\ p[<<>>].kind = "object"
          /\ \A f \in DOMAIN fields : <<f>> \in DOMAIN p /\ p[<<f>>] = fields[f]
      BY <2>6, FlatFields
    <3> QED BY <1>4, <2>5, <2>7, <3>1 DEF HasFields
  <2>10. s.pointer \in DOMAIN p /\ p[s.pointer] = WantedValue(rule)
    BY <2>2, <2>6, <2>7, FlatFields
  <2>11. PICK o : /\ Passes(q, o, session, t, Types) /\ o.payload = p
                  /\ Documents!SelectorMatches(o, s)
    BY <1>6, <2>3, <2>9
  <2>12. Documents!Evaluate(rule, <<o>>) = Documents!Pass
    BY <1>2, <1>3, <1>8, <2>10, <2>11, WantedValuePasses
  <2> QED BY <1>5, <2>8, <2>11, <2>12
<1> QED BY <1>7, <1>8

\* Every stored version, and every version about to be stored, has a document
\* that the validator has accepted.
DInv ==
  /\ \A v \in VersionID : versions[v] # None => ValidDocument(versions[v].snapshot.content)
  /\ \A o \in Operator : command[o] # None /\ command[o].step = "verified" =>
       ValidDocument(command[o].request.snapshot.content)

\* A step that verifies no admission leaves only verified ones.
LEMMA CommandsStayValid ==
  ASSUME PInv, DInv, NEW o \in Operator, NEW c, command' = [command EXCEPT ![o] = c],
         c = None \/ c.step # "verified"
  PROVE  \A p \in Operator : command'[p] # None /\ command'[p].step = "verified" =>
           ValidDocument(command'[p].request.snapshot.content)
<1>1. \A p \in Operator : command'[p] = IF p = o THEN c ELSE command[p]
  BY DEF PInv, TypeOK
<1> QED BY <1>1 DEF DInv

\* However a command ends, the others stay verified.
LEMMA EndKeepsValid ==
  ASSUME PInv, DInv, NEW o \in Operator, command[o] # None, Succeed(o) \/ Refuse(o) \/ Fail(o)
  PROVE  \A p \in Operator : command'[p] # None /\ command'[p].step = "verified" =>
           ValidDocument(command'[p].request.snapshot.content)
<1>1. command[o] \in Command
  BY DEF PInv, TypeOK
<1>2. \A s \in {"ready", "refused"} : [command[o] EXCEPT !.step = s, !.seen = None].step = s
  BY <1>1 DEF Command
<1>3. \E s \in {"ready", "refused"} :
        \/ command' = [command EXCEPT ![o] = None]
        \/ command' = [command EXCEPT ![o] = [command[o] EXCEPT !.step = s, !.seen = None]]
  <2>1. command \in [Operator -> Command \cup {None}]
    BY DEF PInv, TypeOK
  <2> QED BY <2>1 DEF Succeed, Refuse, Fail
<1> QED BY <1>2, <1>3, CommandsStayValid

\* Every step keeps the documents valid: VerifyAdmission asks the validator, and
\* only a verified admission is stored.
LEMMA NextDInv == PInv /\ DInv /\ [Next]_vars => DInv'
<1> SUFFICES ASSUME PInv, DInv, [Next]_vars PROVE DInv'
  OBVIOUS
<1> DEFINE CommandsValid ==
             \A p \in Operator : command'[p] # None /\ command'[p].step = "verified" =>
               ValidDocument(command'[p].request.snapshot.content)
<1>1. ASSUME UNCHANGED versions, CommandsValid PROVE DInv'
  BY <1>1 DEF DInv
<1>2. ASSUME UNCHANGED <<versions, command>> PROVE DInv'
  BY <1>2 DEF DInv
<1>3. ASSUME NEW o \in Operator, NEW r \in Request, Issue(o, r) PROVE DInv'
  <2> DEFINE c == [request |-> r, step |-> "ready", seen |-> None]
  <2>1. c.step # "verified" /\ command' = [command EXCEPT ![o] = c] /\ UNCHANGED versions
    BY <1>3 DEF Issue
  <2> HIDE DEF c
  <2> QED BY <1>1, <2>1, CommandsStayValid
<1>4. ASSUME NEW o \in Operator, Dismiss(o) PROVE DInv'
  BY <1>1, <1>4, CommandsStayValid DEF Dismiss
<1>5. ASSUME NEW o \in Operator, Fail(o) PROVE DInv'
  BY <1>1, <1>5, EndKeepsValid DEF Fail
<1>6. ASSUME NEW o \in Operator, AddVerificationKey(o) \/ RevokeVerificationKey(o) PROVE DInv'
  BY <1>1, <1>6, EndKeepsValid
     DEF AddVerificationKey, RevokeVerificationKey, Running, Refuse
<1>7. ASSUME NEW o \in Operator, VerifyAdmission(o) PROVE DInv'
  <2>1. CASE Refuse(o)
    BY <1>1, <1>7, <2>1, EndKeepsValid DEF VerifyAdmission, Running, Refuse
  <2>2. CASE /\ ValidDocument(command[o].request.snapshot.content)
             /\ command' = [command EXCEPT ![o] =
                              [@ EXCEPT !.step = "verified",
                                        !.seen = keys[command[o].request.key]]]
             /\ UNCHANGED versions
    <3>1. command \in [Operator -> Command \cup {None}] /\ command[o] \in Command
      BY <1>7 DEF PInv, TypeOK, VerifyAdmission, Running
    <3>2. /\ command'[o].request = command[o].request
          /\ \A p \in Operator : p # o => command'[p] = command[p]
      BY <2>2, <3>1 DEF Command
    <3>3. CommandsValid
      BY <2>2, <3>2 DEF DInv
    <3> QED BY <1>1, <2>2, <3>3
  <2> QED BY <1>7, <2>1, <2>2 DEF VerifyAdmission
<1>8. ASSUME NEW o \in Operator, Add(o) PROVE DInv'
  <2> DEFINE r == command[o].request
             e == NewEntry(r, command[o].seen)
  <2>1. command[o] # None /\ command[o].step = "verified" /\ (Succeed(o) \/ Refuse(o))
    BY <1>8 DEF Add, Running
  <2>2. CommandsValid
    BY <2>1, EndKeepsValid
  <2>3. CASE UNCHANGED versions
    BY <1>1, <2>2, <2>3
  <2>4. CASE versions' = [versions EXCEPT ![r.snapshot.id] = e]
    <3>1. ValidDocument(e.snapshot.content)
      BY <2>1 DEF DInv, NewEntry
    <3>2. \A v \in VersionID : versions'[v] = e \/ versions'[v] = versions[v]
      <4>1. versions \in [VersionID -> Entry \cup {None}]
        BY DEF PInv, TypeOK
      <4> HIDE DEF r, e
      <4> QED BY <2>4, <4>1
    <3> HIDE DEF r, e
    <3>3. \A v \in VersionID : versions'[v] # None =>
            ValidDocument(versions'[v].snapshot.content)
      BY <3>1, <3>2 DEF DInv
    <3> QED BY <2>2, <3>3 DEF DInv
  <2> QED BY <1>8, <2>3, <2>4 DEF Add, Refuse
<1>9. ASSUME NEW o \in Operator, transition(o) PROVE DInv'
  <2>1. command[o] # None /\ (Succeed(o) \/ Refuse(o))
    BY <1>9 DEF transition, Running
  <2>2. CommandsValid
    BY <2>1, EndKeepsValid
  <2>3. CASE UNCHANGED versions
    BY <1>1, <2>2, <2>3
  <2>4. ASSUME NEW x, versions' = [versions EXCEPT ![command[o].request.id].log = x],
               versions[command[o].request.id] # None
        PROVE  DInv'
    <3>1. versions \in [VersionID -> Entry \cup {None}]
      BY DEF PInv, TypeOK
    <3>2. \A v \in VersionID : versions[v] # None =>
            [versions[v] EXCEPT !.log = x].snapshot = versions[v].snapshot
      BY <3>1 DEF Entry
    <3>3. \A v \in VersionID :
            \/ versions'[v] = versions[v]
            \/ versions[v] # None /\ versions'[v] = [versions[v] EXCEPT !.log = x]
      BY <2>4, <3>1
    <3>4. \A v \in VersionID : versions'[v] # None =>
            ValidDocument(versions'[v].snapshot.content)
      BY <3>2, <3>3 DEF DInv
    <3> QED BY <2>2, <3>4 DEF DInv
  <2>5. UNCHANGED versions
        \/ \E x : /\ versions' = [versions EXCEPT ![command[o].request.id].log = x]
                  /\ versions[command[o].request.id] # None
    BY <1>9 DEF transition, Refuse
  <2> QED BY <2>3, <2>4, <2>5
<1>10. ASSUME NEW at \in EvalTime, Resolve(at) PROVE DInv'
  BY <1>2, <1>10 DEF Resolve
<1>11. CASE UNCHANGED vars
  BY <1>2, <1>11 DEF vars
<1> QED BY <1>3, <1>4, <1>5, <1>6, <1>7, <1>8, <1>9, <1>10, <1>11 DEF Next

\* The stored versions, with Document giving the parsed document of a content:
\* their required rules can pass.
RulesCanPass(Document, session, t, Types, Render) ==
  \A v \in VersionID : versions[v] # None =>
    LET d == Document[versions[v].snapshot.content] IN
    \A id \in Documents!Range(d.required) :
      OneObjectRule(Documents!RuleNamed(d, id), Documents!CompiledQualification(d), Types) =>
        CanPass(d, id, session, t, Types, Render)

\* The registry keeps what admission promises: whatever operators do while an
\* admission is under way, whatever fails and is repeated, every stored version
\* has passed ValidatePolicyDocument, and each of its required rules that
\* compares a field with a scalar or counts one object, of a type that evidence can
\* have, can pass.
THEOREM StoredRulesCanPass ==
  ASSUME None \notin Nat, NEW Document, NEW session, NEW t \in Nat \ {0},
         NEW Types, NEW Render,
         \A c \in Content : ValidDocument(c) =>
           /\ ParsedQualification(Document[c])
           /\ Documents!ValidatePolicyDocument(Document[c])
  PROVE  Spec => []RulesCanPass(Document, session, t, Types, Render)
<1>1. Init => DInv
  BY DEF Init, DInv
<1>2. Spec => []DInv
  BY <1>1, NextDInv, PInvHolds, PTL DEF Spec
<1>3. PInv /\ DInv => RulesCanPass(Document, session, t, Types, Render)
  <2> SUFFICES ASSUME PInv, DInv, NEW v \in VersionID, versions[v] # None,
                      NEW d, d = Document[versions[v].snapshot.content],
                      NEW id \in Documents!Range(d.required),
                      OneObjectRule(Documents!RuleNamed(d, id),
                                    Documents!CompiledQualification(d), Types)
               PROVE  CanPass(d, id, session, t, Types, Render)
    BY DEF RulesCanPass
  <2>1. versions[v].snapshot.content \in Content
    BY DEF PInv, TypeOK, Entry, Snapshot
  <2>2. ParsedQualification(d) /\ Documents!ValidatePolicyDocument(d)
    BY <2>1 DEF DInv
  <2> QED BY <2>2, AdmittedRuleCanPass
<1> QED BY <1>2, <1>3, PInvHolds, PTL

=============================================================================
