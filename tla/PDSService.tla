------------------------------ MODULE PDSService ------------------------------
(***************************************************************************)
(* The evaluation services of src/pds over an aggregate store, with        *)
(* requests that overlap.  A request loads the aggregate (find), changes   *)
(* its private copy and saves it under the version it loaded; between      *)
(* these steps other requests, new evidence, the clock and a restart of    *)
(* the server may intervene.                                               *)
(*                                                                         *)
(* Two stores implement AggregateStore.  The memory store decides under    *)
(* its lock.  The PostgreSQL store also keeps an audit record for every    *)
(* version, refuses to save an unchanged version, may fail a transaction   *)
(* (serialization failure, lost connection) and may lose the answer to a   *)
(* committed one.                                                          *)
(***************************************************************************)
EXTENDS PDSOperations

CONSTANTS Eval, MaxTime,
          Worker  \* requests served at the same time

ASSUME MaxTimeAssumption == MaxTime \in Nat \ {0}

VARIABLES backend,                      \* which store the server runs on
          clock, evidence, db, outbox,  \* as in SerialEvaluations
          audit,      \* per evaluation, the root recorded for each version
          pc,         \* per worker, the next step of its request
          call,       \* its operation and evaluation
          local,      \* its copy of the aggregate, changed but not saved
          expected,   \* the version that copy was loaded at
          qualified,  \* the policy to qualify by, then the result to be bound
          reply       \* the answer to its last request

store == <<clock, evidence, db, outbox, audit>>
request == <<pc, call, local, expected, qualified, reply>>
vars == <<backend, store, request>>

Serial == INSTANCE SerialEvaluations

Init ==
  /\ Serial!Init
  /\ backend \in {"memory", "postgres"}
  /\ audit = [e \in Eval |-> [v \in {} |-> None]]
  /\ pc = [w \in Worker |-> "idle"]
  /\ call = [w \in Worker |-> None]
  /\ local = [w \in Worker |-> None]
  /\ expected = [w \in Worker |-> 0]
  /\ qualified = [w \in Worker |-> None]
  /\ reply = [w \in Worker |-> None]

-----------------------------------------------------------------------------
(***************************************************************************)
(* Steps that requests are made of.                                        *)
(***************************************************************************)
\* FindEvaluation: PostgreSQL also checks the root recorded for the version.
Readable(e) ==
  /\ db[e] # None
  /\ backend = "postgres" => /\ db[e].version \in DOMAIN audit[e]
                             /\ audit[e][db[e].version] = db[e]

\* The answer is a snapshot, or an error: snapshot is None.
Answer(w, e, snapshot) ==
  /\ pc' = [pc EXCEPT ![w] = "idle"]
  /\ call' = [call EXCEPT ![w] = None]
  /\ local' = [local EXCEPT ![w] = None]
  /\ expected' = [expected EXCEPT ![w] = 0]
  /\ qualified' = [qualified EXCEPT ![w] = None]
  /\ reply' = [reply EXCEPT ![w] = [eval |-> e, snapshot |-> snapshot]]
  /\ UNCHANGED backend

\* The changed copy b, loaded at version v, is ready to be saved.
Prepare(w, c, b, v) ==
  /\ pc' = [pc EXCEPT ![w] = "save"]
  /\ call' = [call EXCEPT ![w] = c]
  /\ local' = [local EXCEPT ![w] = b]
  /\ expected' = [expected EXCEPT ![w] = v]
  /\ qualified' = [qualified EXCEPT ![w] = None]
  /\ reply' = [reply EXCEPT ![w] = None]
  /\ UNCHANGED backend

Goto(w, c, label, q) ==
  /\ pc' = [pc EXCEPT ![w] = label]
  /\ call' = [call EXCEPT ![w] = c]
  /\ qualified' = [qualified EXCEPT ![w] = q]
  /\ reply' = [reply EXCEPT ![w] = None]
  /\ UNCHANGED <<backend, local, expected>>

Call(o, e) == [op |-> o, eval |-> e]

\* find, the check whether the work is done, and the change of the copy.
Request(w, o, e, done, can, changed) ==
  /\ pc[w] = "idle" /\ Readable(e)
  /\ \/ done /\ Answer(w, e, db[e])
     \/ ~done /\ can /\ Prepare(w, Call(o, e), changed, db[e].version)
     \/ ~done /\ ~can /\ Answer(w, e, None)
  /\ UNCHANGED store

-----------------------------------------------------------------------------
(***************************************************************************)
(* The operations.                                                         *)
(***************************************************************************)
\* uuid.New gives an identifier nobody else has.
Unused(e) == /\ db[e] = None
             /\ \A v \in Worker : call[v] # None => call[v].eval # e

CreateForPolicy(w, e) ==
  /\ pc[w] = "idle" /\ Unused(e)
  /\ \E p \in Policy : Prepare(w, Call("Create", e), CreatedForPolicy(p, clock), 0)
  /\ UNCHANGED store

Create(w, e) ==
  /\ pc[w] = "idle" /\ Unused(e)
  /\ \E p \in Policy : Prepare(w, Call("Create", e), Created(Plan[p], clock), 0)
  /\ UNCHANGED store

StartRequest(w, e) ==
  Request(w, "Start", e, db[e].state = "RUNNING",
          CanStart(db[e], clock), Start(db[e], clock))

\* An outcome without a time gets the service's.
RecordOutcome(w, e) ==
  \E r \in Rule, s \in CallerStatus, t \in CallerTime \cup {clock} :
    LET o == [status |-> s, evaluatedAt |-> t] IN
    Request(w, "RecordOutcome", e, FALSE,
            CanRecordRuleOutcome(db[e], r, o), RecordRuleOutcome(db[e], r, o))

BindPolicyRequest(w, e) ==
  \E p \in Policy, t \in CallerTime :
    LET b == [policy |-> p, boundAt |-> t] IN
    Request(w, "BindPolicy", e, FALSE,
            CanBindVerificationPolicy(db[e], b), BindVerificationPolicy(db[e], b))

ResolveAndBindPolicy(w, e) ==
  \E p \in Policy :
    Request(w, "BindPolicy", e, FALSE, CanResolveAndBindPolicy(db[e], p, clock),
            BindVerificationPolicy(db[e], [policy |-> p, boundAt |-> clock]))

ExecuteRequest(w, e) ==
  Request(w, "Execute", e, AlreadyExecuted(db[e]),
          CanExecute(db[e], clock), Execute(db[e], clock))

CompleteRequest(w, e) ==
  Request(w, "Complete", e, db[e].state = "COMPLETED",
          CanComplete(db[e], clock), Complete(db[e], clock))

ExpireRequest(w, e) ==
  Request(w, "Expire", e, db[e].state = "EXPIRED",
          CanExpireTimedOut(db[e], clock), Expire(db[e], clock))

\* QualifyAndBind loads the evaluation, qualifies the session's evidence with
\* the qualifier of the bound policy, and loads the evaluation again to bind
\* the result.
QualifyRequest(w, e) ==
  /\ pc[w] = "idle" /\ Readable(e)
  /\ \/ /\ db[e].evidenceBinding # None
        /\ Answer(w, e, db[e])
     \/ /\ db[e].evidenceBinding = None /\ db[e].policyBinding = None
        /\ Answer(w, e, None)
     \/ /\ db[e].evidenceBinding = None /\ db[e].policyBinding # None
        /\ Goto(w, Call("Qualify", e), "qualify", db[e].policyBinding.policy)
  /\ UNCHANGED store

\* A caller of the Go API qualifies the session itself, by any policy.
BindEvidenceRequest(w, e) ==
  /\ pc[w] = "idle" /\ db[e] # None
  /\ \E p \in Qualifiable : Goto(w, Call("BindEvidence", e), "qualify", p)
  /\ UNCHANGED store

QualifySession(w) ==
  /\ pc[w] = "qualify"
  /\ IF qualified[w] \in Qualifiable
     THEN Goto(w, call[w], "bind", Qualification(qualified[w], evidence, clock))
     ELSE Answer(w, call[w].eval, None)
  /\ UNCHANGED store

AlreadyBound(a, q) ==
  /\ ~IsTerminal(a.state) /\ RecordedRules(a) = {}
  /\ NormalEvidenceBinding(q) /\ q.ownSession
  /\ a.evidenceBinding \notin {None, q}

\* Only QualifyAndBind looks again, and only for these errors.
BindQualification(w) ==
  LET a == db[call[w].eval]
      q == qualified[w]
      again == call[w].op = "Qualify" /\ AlreadyBound(a, q)
  IN /\ pc[w] = "bind" /\ Readable(call[w].eval)
     /\ \/ /\ CanBindEvidenceSet(a, q)
           /\ Prepare(w, call[w], BindEvidenceSet(a, q), a.version)
        \/ again /\ Goto(w, call[w], "reread", None)
        \/ /\ ~CanBindEvidenceSet(a, q) /\ ~again
           /\ Answer(w, call[w].eval, None)
     /\ UNCHANGED store

\* A load fails: the evaluation does not exist or is not readable, or the
\* database cannot be reached.
FindFails(w, e) ==
  /\ pc[w] # "save"
  /\ pc[w] # "idle" => e = call[w].eval
  /\ backend = "postgres" \/ ~Readable(e)
  /\ Answer(w, e, None)
  /\ UNCHANGED store

-----------------------------------------------------------------------------
(***************************************************************************)
(* SaveEvaluation and what its caller makes of the result.                 *)
(***************************************************************************)
\* Mutant: the last save wins.
VersionAlwaysMatches(w) ==
  expected[w] > 0 => db[call[w].eval] # None

VersionMatches(w) ==
  LET e == call[w].eval IN
  IF expected[w] = 0 THEN db[e] = None
  ELSE db[e] # None /\ db[e].version = expected[w]

\* Checked before the transaction: PostgreSQL wants the version to grow.
Storable(w) ==
  /\ ValidSnapshot(Snapshot(local[w]))
  /\ backend = "postgres" /\ expected[w] > 0 => local[w].version > expected[w]

\* Mutant: the audit record names the version that was loaded.
CommitAuditsLoadedVersion(w) ==
  LET e == call[w].eval
      s == Snapshot(local[w])
  IN /\ VersionMatches(w) /\ Storable(w)
     /\ db' = [db EXCEPT ![e] = s]
     /\ outbox' = [outbox EXCEPT ![e] = @ \o local[w].domainEvents]
     /\ IF backend = "postgres"
        THEN audit' = [audit EXCEPT ![e] =
                  [v \in DOMAIN @ \cup {expected[w]} |->
                     IF v = expected[w] THEN s ELSE @[v]]]
        ELSE UNCHANGED audit
     /\ UNCHANGED <<clock, evidence>>

\* Snapshot, outbox records and audit record, all or nothing.
Commit(w) ==
  LET e == call[w].eval
      s == Snapshot(local[w])
  IN /\ VersionMatches(w) /\ Storable(w)
     /\ db' = [db EXCEPT ![e] = s]
     /\ outbox' = [outbox EXCEPT ![e] = @ \o local[w].domainEvents]
     /\ IF backend = "postgres"
        THEN /\ s.version \notin DOMAIN audit[e]
             /\ audit' = [audit EXCEPT ![e] =
                  [v \in DOMAIN @ \cup {s.version} |->
                     IF v = s.version THEN s ELSE @[v]]]
        ELSE UNCHANGED audit
     /\ UNCHANGED <<clock, evidence>>

SaveCommits(w) ==
  /\ pc[w] = "save"
  /\ Commit(w)
  /\ Answer(w, call[w].eval, Snapshot(local[w]))

\* The transaction commits but its caller gets an error.
SaveAnswerLost(w) ==
  /\ pc[w] = "save" /\ backend = "postgres"
  /\ Commit(w)
  /\ Answer(w, call[w].eval, None)

\* Mutant: the error of the save is ignored.
SaveFailsUnnoticed(w) ==
  /\ pc[w] = "save"
  /\ backend = "postgres" \/ ~Storable(w)
  /\ Answer(w, call[w].eval, Snapshot(local[w]))
  /\ UNCHANGED store

SaveFails(w) ==
  /\ pc[w] = "save"
  /\ backend = "postgres" \/ ~Storable(w)
  /\ Answer(w, call[w].eval, None)
  /\ UNCHANGED store

\* Mutant: a conflict is reported at once.
LooksAgainNever == {}

\* Start, Complete, ExpireTimedOut and QualifyAndBind look at what the others
\* have stored; the rest report the conflict.
LooksAgain == {"Start", "Complete", "Expire", "Qualify"}

SaveConflicts(w) ==
  /\ pc[w] = "save" /\ Storable(w) /\ ~VersionMatches(w)
  /\ IF call[w].op \in LooksAgain
     THEN /\ pc' = [pc EXCEPT ![w] = "reread"]
          /\ local' = [local EXCEPT ![w] = None]
          /\ expected' = [expected EXCEPT ![w] = 0]
          /\ UNCHANGED <<backend, call, qualified, reply>>
     ELSE Answer(w, call[w].eval, None)
  /\ UNCHANGED store

\* The state that the operation was to bring about.
Wanted(o, a) ==
  CASE o = "Start" -> a.state = "RUNNING"
    [] o = "Complete" -> a.state = "COMPLETED"
    [] o = "Expire" -> a.state = "EXPIRED"
    [] OTHER -> a.evidenceBinding # None

Reread(w) ==
  LET e == call[w].eval IN
  /\ pc[w] = "reread" /\ Readable(e)
  /\ IF Wanted(call[w].op, db[e])
     THEN Answer(w, e, db[e])
     ELSE Answer(w, e, None)
  /\ UNCHANGED store

-----------------------------------------------------------------------------
Tick == Serial!Tick /\ UNCHANGED <<backend, audit, request>>

Ingest == Serial!Ingest /\ UNCHANGED <<backend, audit, request>>

\* A server on PostgreSQL restarts: its requests are gone, unanswered.
Restart ==
  /\ backend = "postgres"
  /\ pc' = [w \in Worker |-> "idle"]
  /\ call' = [w \in Worker |-> None]
  /\ local' = [w \in Worker |-> None]
  /\ expected' = [w \in Worker |-> 0]
  /\ qualified' = [w \in Worker |-> None]
  /\ reply' = [w \in Worker |-> None]
  /\ UNCHANGED <<backend, store>>

Step(w) ==
  \/ \E e \in Eval :
       \/ CreateForPolicy(w, e) \/ Create(w, e) \/ StartRequest(w, e)
       \/ RecordOutcome(w, e) \/ BindPolicyRequest(w, e)
       \/ ResolveAndBindPolicy(w, e) \/ ExecuteRequest(w, e)
       \/ CompleteRequest(w, e) \/ ExpireRequest(w, e)
       \/ QualifyRequest(w, e) \/ BindEvidenceRequest(w, e) \/ FindFails(w, e)
  \/ QualifySession(w) \/ BindQualification(w)
  \/ SaveCommits(w) \/ SaveAnswerLost(w) \/ SaveFails(w) \/ SaveConflicts(w)
  \/ Reread(w)

Next == Tick \/ Ingest \/ Restart \/ \E w \in Worker : Step(w)

Spec == Init /\ [][Next]_vars

-----------------------------------------------------------------------------
\* Every variable holds a value of its kind, and a request that is waiting to
\* save has an aggregate to save.
TypeOK ==
  /\ Serial!TypeOK
  /\ backend \in {"memory", "postgres"}
  /\ pc \in [Worker -> {"idle", "qualify", "bind", "save", "reread"}]
  /\ expected \in [Worker -> Nat]
  /\ \A w \in Worker :
       /\ pc[w] = "save" => local[w] \in Aggregate
       /\ pc[w] = "bind" => qualified[w] \in EvidenceSetBinding
       /\ pc[w] # "idle" => call[w].eval \in Eval

\* Overlapping requests have the effect of requests run one at a time: no
\* interleaving of loads and saves, failed, lost or repeated save loses an
\* update, stores an event twice or mixes two requests.
SerialSpec == Serial!Spec

\* The audit record of the stored version always exists and carries the root
\* of the stored snapshot: FindEvaluation never answers
\* ErrEvaluationAuditInvalid, and a version is never recorded twice.
StoredVersionAudited ==
  backend = "postgres" =>
    \A e \in Eval : db[e] # None =>
      /\ Readable(e)
      /\ DOMAIN audit[e] \subseteq 1 .. db[e].version

\* A success that was reported stays true: what the answer showed was stored,
\* and everything stored since keeps it.
RepliesAreDurable ==
  \A w \in Worker : reply[w] # None /\ reply[w].snapshot # None =>
    LET e == reply[w].eval
        s == reply[w].snapshot
    IN /\ db[e] # None /\ Kept(s, db[e])
       /\ s.version = db[e].version => s = db[e]

Fails(w) == /\ pc[w] # "idle" /\ pc'[w] = "idle"
            /\ reply'[w] # None /\ reply'[w].snapshot = None

\* "start and complete commands are also idempotent in their target states":
\* on the memory store a request that races others and fails leaves an
\* evaluation that is not in the state the request was to bring about.
LosersFindNoTarget ==
  [][\A w \in Worker :
       Fails(w) /\ backend = "memory" /\ call[w].op \in {"Start", "Complete", "Expire"}
       => ~Wanted(call[w].op, db[call[w].eval])]_vars

\* "once an Evidence Binding exists, retries return that immutable binding":
\* on the memory store QualifyAndBind does not fail when a binding is stored.
QualifyReturnsBinding ==
  [][\A w \in Worker :
       Fails(w) /\ backend = "memory" /\ call[w].op = "Qualify"
       => ~Wanted("Qualify", db[call[w].eval])]_vars
=============================================================================
