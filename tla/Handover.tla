------------------------------- MODULE Handover -------------------------------
(***************************************************************************)
(* The handover of one physical object: the responsibility service and its *)
(* repositories (src/responsibility and their PostgreSQL form), used by    *)
(* the safety machines of src/safety, each with its own idea of who is     *)
(* responsible, and by callers that transfer the object directly.          *)
(*                                                                         *)
(* A transfer loads the stored assignment and commits the new one under    *)
(* the loaded version; between the two other transfers, the clock and a    *)
(* restart may intervene.  PostgreSQL keeps times only to the microsecond  *)
(* (Trunc), may fail a transaction and may lose the answer to a committed  *)
(* one.  Objects do not interact, so there is one; a permit or a motion    *)
(* request for another object is refused as one for another participant.   *)
(***************************************************************************)
EXTENDS Naturals, Sequences

CONSTANTS Participant,
          Machine,      \* safety machines of the object
          Caller,       \* other users of the responsibility service
          PermitTime,   \* times in permits
          HaltReason,   \* reasons given to Halt, "NONE" included
          Trunc(_),     \* what PostgreSQL keeps of a time
          None,
          MaxTime       \* bound: the clock stops here

Time == Nat
Zero == 0

\* What is kept of a time is a time, not later, and kept as it is.
ASSUME TruncAssumption ==
  \A t \in 1 .. MaxTime :
    Trunc(t) \in Time \ {Zero} /\ Trunc(t) <= t /\ Trunc(Trunc(t)) = Trunc(t)
ASSUME BoundsAssumption == MaxTime \in Nat \ {0} /\ PermitTime \subseteq Time

State == {"IDLE", "PROPOSED", "VERIFIED", "COMMITTED", "REJECTED", "HALT"}
Reason == {"NONE", "INVALID_TRANSITION", "INVALID_EVIDENCE", "EVIDENCE_EXPIRED",
           "AUTHORIZATION_BINDING_MISMATCH", "CONCURRENT_RESPONSIBILITY_CHANGE",
           "COMMIT_FAILED", "MANUAL_HALT"}

ASSUME HaltReasonAssumption == HaltReason \subseteq Reason

Snapshot == [participant : Participant, version : Nat \ {0}, assignedAt : Time \ {Zero}]
TransferredEvent == [from : Participant, to : Participant, at : Time]
\* admissible also stands for the policy and evidence versions being named.
Permit == [from : Participant, to : Participant, evaluatedAt : PermitTime,
           validUntil : PermitTime, admissible : BOOLEAN]
MachineState == [state : State, reason : Reason, responsibility : Snapshot,
                 proposed : Participant \cup {None}, permit : Permit \cup {None}]

Client == Machine \cup Caller
\* A transfer of what was loaded, computed but not committed.
Transfer == [base : Snapshot, to : Participant, at : Time]

ASSUME NoneAssumption ==
  /\ None \notin Participant \cup Snapshot \cup Permit \cup MachineState \cup Transfer
  /\ None \notin [participant : Participant, since : 1 .. MaxTime]
  /\ Machine \cap Caller = {}

VARIABLES backend,    \* which repository is in use
          clock,
          stored,     \* the stored assignment, or None
          transfers,  \* the stored handover events, by version
          pending,    \* per client, its Transfer on the way, or None
          machine     \* per safety machine, its state, or None before it is made

repository == <<stored, transfers>>
vars == <<backend, clock, repository, pending, machine>>

Init ==
  /\ backend \in {"memory", "postgres"}
  /\ clock = 1
  /\ stored = None
  /\ transfers = [v \in {} |-> None]
  /\ pending = [x \in Client |-> None]
  /\ machine = [m \in Machine |-> None]

-----------------------------------------------------------------------------
(***************************************************************************)
(* The responsibility service.                                             *)
(***************************************************************************)
\* Mutant: both repositories keep times to the microsecond.
KeptTruncated(t) == Trunc(t)

Kept(t) == IF backend = "postgres" THEN Trunc(t) ELSE t

\* New and SaveResponsibility under the expected version 0.
AssignFirst(p) ==
  /\ stored = None
  /\ stored' = [participant |-> p, version |-> 1, assignedAt |-> Kept(clock)]
  /\ UNCHANGED <<backend, clock, transfers, pending, machine>>

\* Mutant: a participant may take over from itself.
CanTransferToSelf(s, to, at) == at # Zero /\ at > s.assignedAt

\* When Aggregate.Transfer accepts, and what it makes of s.
CanTransfer(s, to, at) == to # s.participant /\ at # Zero /\ at > s.assignedAt

Transferred(s, to, at) ==
  [participant |-> to, version |-> s.version + 1, assignedAt |-> at]

\* Mutant: CommitTransfer does not look at the assignment it replaces.
CommittableAnyVersion(x) ==
  /\ stored # None
  /\ Kept(pending[x].at) > stored.assignedAt

Committable(x) ==
  LET base == pending[x].base IN
  /\ stored # None
  /\ stored.version = base.version
  /\ stored.participant = base.participant
  /\ Kept(pending[x].at) > stored.assignedAt
  /\ base.version + 1 \notin DOMAIN transfers

\* CommitTransfer succeeds: assignment and event together.
CommitTransfer(x) ==
  LET base == pending[x].base
      new  == Transferred(base, pending[x].to, Kept(pending[x].at))
  IN /\ Committable(x)
     /\ stored' = new
     /\ transfers' = [v \in DOMAIN transfers \cup {new.version} |->
          IF v = new.version
          THEN [from |-> base.participant, to |-> new.participant, at |-> new.assignedAt]
          ELSE transfers[v]]

Begin(x, s, to) ==
  pending' = [pending EXCEPT ![x] = [base |-> s, to |-> to, at |-> clock]]

End(x) == pending' = [pending EXCEPT ![x] = None]

\* Service.Transfer of a direct caller.
StartTransfer(c, to) ==
  /\ pending[c] = None /\ stored # None
  /\ CanTransfer(stored, to, clock)
  /\ Begin(c, stored, to)
  /\ UNCHANGED <<backend, clock, repository, machine>>

FinishTransfer(c) ==
  /\ pending[c] # None
  /\ CommitTransfer(c)
  /\ End(c)
  /\ UNCHANGED <<backend, clock, machine>>

\* The commit conflicts, or fails, or its caller is gone.
AbandonTransfer(c) ==
  /\ pending[c] # None
  /\ End(c)
  /\ UNCHANGED <<backend, clock, repository, machine>>

-----------------------------------------------------------------------------
(***************************************************************************)
(* The safety machine.                                                     *)
(***************************************************************************)
\* A machine is made of the stored assignment: at first, and again when its
\* process has restarted, whatever it was doing.
NewMachine(m) ==
  /\ stored # None
  /\ machine' = [machine EXCEPT ![m] =
       [state |-> "IDLE", reason |-> "NONE", responsibility |-> stored,
        proposed |-> None, permit |-> None]]
  /\ End(m)
  /\ UNCHANGED <<backend, clock, repository>>

\* m is in one of the states S and not waiting for the repository.
Ready(m, S) == machine[m] # None /\ pending[m] = None /\ machine[m].state \in S

EnterHalt(m, reason) ==
  machine' = [machine EXCEPT ![m].state = "HALT", ![m].reason = reason,
                             ![m].proposed = None, ![m].permit = None]

ValidatePermit(s, permit, to) ==
  CASE ~permit.admissible \/ Zero \in {permit.evaluatedAt, permit.validUntil}
         -> "INVALID_EVIDENCE"
    [] permit.from # s.participant \/ permit.to # to
         -> "AUTHORIZATION_BINDING_MISMATCH"
    [] permit.evaluatedAt > clock \/ clock > permit.validUntil
         \/ permit.validUntil < permit.evaluatedAt -> "EVIDENCE_EXPIRED"
    [] OTHER -> "NONE"

Propose(m, to) ==
  /\ Ready(m, {"IDLE", "COMMITTED"})
  /\ machine' =
       IF to = machine[m].responsibility.participant
       THEN [machine EXCEPT ![m].state = "REJECTED", ![m].reason = "INVALID_TRANSITION"]
       ELSE [machine EXCEPT ![m].state = "PROPOSED", ![m].reason = "NONE",
                            ![m].proposed = to, ![m].permit = None]
  /\ UNCHANGED <<backend, clock, repository, pending>>

Verify(m, permit) ==
  LET reason == ValidatePermit(machine[m].responsibility, permit, machine[m].proposed)
  IN /\ Ready(m, {"PROPOSED"})
     /\ IF reason = "NONE"
        THEN machine' = [machine EXCEPT ![m].state = "VERIFIED", ![m].reason = "NONE",
                                        ![m].permit = permit]
        ELSE EnterHalt(m, reason)
     /\ UNCHANGED <<backend, clock, repository, pending>>

\* Mutant: Commit transfers whatever assignment it finds.
BeginCommitUnchecked(m) ==
  /\ Ready(m, {"VERIFIED"})
  /\ CanTransfer(stored, machine[m].proposed, clock)
  /\ Begin(m, stored, machine[m].proposed)
  /\ UNCHANGED <<backend, clock, repository, machine>>

\* Commit up to the repository's commit: TransferExpected has loaded the
\* assignment and found the one that the permit was verified for.
BeginCommit(m) ==
  /\ Ready(m, {"VERIFIED"})
  /\ stored = machine[m].responsibility
  /\ CanTransfer(stored, machine[m].proposed, clock)
  /\ Begin(m, stored, machine[m].proposed)
  /\ UNCHANGED <<backend, clock, repository, machine>>

\* Or it has found another assignment (ErrConcurrentModification).
CommitRefused(m) ==
  /\ Ready(m, {"VERIFIED"})
  /\ stored # machine[m].responsibility
  /\ EnterHalt(m, "CONCURRENT_RESPONSIBILITY_CHANGE")
  /\ UNCHANGED <<backend, clock, repository, pending>>

\* Mutant: the machine halts and its transfer goes on.
CommitFailsOnly(m) ==
  /\ machine[m] # None /\ machine[m].state = "VERIFIED"
  /\ EnterHalt(m, "COMMIT_FAILED")
  /\ UNCHANGED <<backend, clock, repository, pending>>

\* Any other error: no service, no connection, a commit time that is not later
\* than the assignment, a failed transaction.
CommitFails(m) ==
  /\ machine[m] # None /\ machine[m].state = "VERIFIED"
  /\ EnterHalt(m, "COMMIT_FAILED")
  /\ End(m)
  /\ UNCHANGED <<backend, clock, repository>>

\* Mutant: the machine goes on with the assignment it had.
FinishCommitForgets(m) ==
  /\ pending[m] # None
  /\ CommitTransfer(m)
  /\ machine' = [machine EXCEPT
       ![m].state = "COMMITTED", ![m].reason = "NONE", ![m].permit = None,
       ![m].responsibility.participant = pending[m].to,
       ![m].proposed = None]
  /\ End(m)
  /\ UNCHANGED <<backend, clock>>

\* The repository commits; the machine keeps the assignment it has computed.
FinishCommit(m) ==
  /\ pending[m] # None
  /\ CommitTransfer(m)
  /\ machine' = [machine EXCEPT
       ![m].state = "COMMITTED", ![m].reason = "NONE", ![m].permit = None,
       ![m].responsibility = Transferred(pending[m].base, pending[m].to, pending[m].at),
       ![m].proposed = None]
  /\ End(m)
  /\ UNCHANGED <<backend, clock>>

\* The repository finds that the assignment has been replaced since.
CommitConflicts(m) ==
  /\ pending[m] # None /\ ~Committable(m)
  /\ EnterHalt(m, "CONCURRENT_RESPONSIBILITY_CHANGE")
  /\ End(m)
  /\ UNCHANGED <<backend, clock, repository>>

\* The transaction commits and the machine gets an error.
CommitAnswerLost(m) ==
  /\ pending[m] # None /\ backend = "postgres"
  /\ CommitTransfer(m)
  /\ EnterHalt(m, "COMMIT_FAILED")
  /\ End(m)
  /\ UNCHANGED <<backend, clock>>

Halt(m, reason) ==
  /\ Ready(m, State)
  /\ EnterHalt(m, IF reason = "NONE" THEN "MANUAL_HALT" ELSE reason)
  /\ UNCHANGED <<backend, clock, repository, pending>>

Recover(m, permit) ==
  LET holder == machine[m].responsibility.participant
      reason == ValidatePermit(machine[m].responsibility, permit, holder)
  IN /\ Ready(m, {"HALT"})
     /\ machine' =
          IF reason = "NONE"
          THEN [machine EXCEPT ![m].state = "IDLE", ![m].reason = "NONE",
                               ![m].proposed = None, ![m].permit = None]
          ELSE [machine EXCEPT ![m].reason = reason]
     /\ UNCHANGED <<backend, clock, repository, pending>>

\* AuthorizeMotion denies the request of a verified machine (in other states it
\* denies without an effect, and what it allows has none either): the request
\* is malformed or names other participants, or the permit no longer holds.
DenyMotion(m, matches) ==
  LET s == machine[m]
      reason == ValidatePermit(s.responsibility, s.permit, s.proposed)
  IN /\ Ready(m, {"VERIFIED"}) /\ s.permit # None
     /\ \/ ~matches /\ EnterHalt(m, "AUTHORIZATION_BINDING_MISMATCH")
        \/ matches /\ reason # "NONE" /\ EnterHalt(m, reason)
     /\ UNCHANGED <<backend, clock, repository, pending>>

Tick ==
  /\ clock < MaxTime
  /\ clock' = clock + 1
  /\ UNCHANGED <<backend, repository, pending, machine>>

-----------------------------------------------------------------------------
MachineStep(m) ==
  \/ NewMachine(m)
  \/ \E to \in Participant : Propose(m, to)
  \/ \E permit \in Permit : Verify(m, permit) \/ Recover(m, permit)
  \/ BeginCommit(m) \/ CommitRefused(m) \/ CommitFails(m)
  \/ FinishCommit(m) \/ CommitConflicts(m) \/ CommitAnswerLost(m)
  \/ \E reason \in HaltReason : Halt(m, reason)
  \/ \E matches \in BOOLEAN : DenyMotion(m, matches)

CallerStep(c) ==
  \/ \E to \in Participant : StartTransfer(c, to)
  \/ FinishTransfer(c) \/ AbandonTransfer(c)

Next ==
  \/ Tick
  \/ \E p \in Participant : AssignFirst(p)
  \/ \E m \in Machine : MachineStep(m)
  \/ \E c \in Caller : CallerStep(c)

Spec == Init /\ [][Next]_vars

-----------------------------------------------------------------------------
\* Every variable holds a value of its kind, and a machine that waits for the
\* repository is verified.
TypeOK ==
  /\ backend \in {"memory", "postgres"} /\ clock \in 1 .. MaxTime
  /\ stored \in Snapshot \cup {None}
  /\ DOMAIN transfers \subseteq Nat
  /\ \A v \in DOMAIN transfers : transfers[v] \in TransferredEvent
  /\ pending \in [Client -> Transfer \cup {None}]
  /\ machine \in [Machine -> MachineState \cup {None}]
  /\ \A m \in Machine : pending[m] # None =>
       machine[m] # None /\ machine[m].state = "VERIFIED"

CustodyOf == INSTANCE Custody WITH
  Time <- 1 .. MaxTime,
  holder <- IF stored = None THEN None
            ELSE [participant |-> stored.participant, since |-> stored.assignedAt],
  log <- IF stored = None THEN <<>>
         ELSE [i \in 1 .. stored.version - 1 |-> transfers[i + 1]]

\* However transfers overlap, fail or lose their answers, the repository
\* implements Custody: one participant at a time, and a handover event stored
\* for every change of it and for nothing else.
SoleCustody == CustodyOf!Spec

\* The events of an object are an unbroken chain that leads to the stored
\* participant.
ChainOfCustody == CustodyOf!ChainOfCustody

\* What a machine takes for the current assignment was once stored, whatever
\* failed since ("HALT retains the last committed Participant"): it is the
\* stored assignment, or its version has been replaced by a recorded handover
\* from the participant it names.
BeliefsAreHistory ==
  \A m \in Machine : machine[m] # None =>
    LET s == machine[m].responsibility IN
    /\ s.version <= stored.version
    /\ s.version = stored.version => /\ s.participant = stored.participant
                                     /\ Kept(s.assignedAt) = stored.assignedAt
    /\ s.version < stored.version => transfers[s.version + 1].from = s.participant

Commits(m) == /\ machine[m] # None /\ machine'[m] # None
              /\ machine[m].state = "VERIFIED" /\ machine'[m].state = "COMMITTED"

\* "TransferExpected rejects a handover if responsibility changed after its
\* safety authorization was evaluated": a machine commits exactly the handover
\* its permit names, out of the very assignment the permit was verified for.
CommitsAreAuthorized ==
  [][\A m \in Machine : Commits(m) =>
       /\ stored.participant = machine[m].permit.from
       /\ stored'.participant = machine[m].permit.to
       /\ stored.version = machine[m].responsibility.version
       /\ stored'.version = stored.version + 1]_vars

\* On the memory repository a machine halts for a concurrent change only when
\* there has been one.
MemoryConflictsAreReal ==
  backend = "memory" => \A m \in Machine :
    machine[m] # None /\ machine[m].reason = "CONCURRENT_RESPONSIBILITY_CHANGE"
      => stored.version > machine[m].responsibility.version

\* "TransferExpected rejects a handover if responsibility changed after its
\* safety authorization was evaluated": and, on either repository, only then.
RefusedOnlyAfterChange ==
  [][\A m \in Machine : CommitRefused(m) =>
       stored.version > machine[m].responsibility.version]_vars

\* "Invalid, expired, or misbound authorization fails closed": a permit that
\* has expired by the time of the commit does not lead to a handover.
ExpiredPermitNeverCommits ==
  [][\A m \in Machine : Commits(m) =>
       pending[m].at <= machine[m].permit.validUntil]_vars
=============================================================================
