---------------------------- MODULE CustodyProofs ----------------------------
(***************************************************************************)
(* Handover implements Custody, its machines believe what has been true,   *)
(* and they commit only what was authorized: for every set of              *)
(* participants, machines and callers, every permit and any length of      *)
(* time.                                                                   *)
(***************************************************************************)
EXTENDS Handover, SequenceTheorems, TLAPS

-----------------------------------------------------------------------------
(***************************************************************************)
(* The inductive invariant.                                                *)
(***************************************************************************)
\* The repository: one event for every version from 2 to the stored one, in an
\* unbroken chain that ends with the stored assignment.
RepositoryOK ==
  /\ stored = None => DOMAIN transfers = {}
  /\ stored # None =>
       /\ DOMAIN transfers = 2 .. stored.version
       /\ stored.assignedAt \in 1 .. MaxTime
       /\ Kept(stored.assignedAt) = stored.assignedAt
       /\ stored.version > 1 => /\ stored.participant = transfers[stored.version].to
                                /\ stored.assignedAt = transfers[stored.version].at
  /\ \A v \in DOMAIN transfers :
       /\ transfers[v].from # transfers[v].to
       /\ v + 1 \in DOMAIN transfers =>
            /\ transfers[v + 1].from = transfers[v].to
            /\ transfers[v + 1].at > transfers[v].at

\* A transfer on the way is legal for what it has loaded, and that is still the
\* stored assignment if the version is.
PendingOK(x) ==
  pending[x] # None =>
    /\ stored # None
    /\ pending[x].at \in 1 .. clock
    /\ CanTransfer(pending[x].base, pending[x].to, pending[x].at)
    /\ pending[x].base.version <= stored.version
    /\ pending[x].base.version = stored.version => pending[x].base = stored

\* A belief that was once stored.
Belief(s) ==
  /\ stored # None
  /\ s.assignedAt \in 1 .. MaxTime
  /\ s.version <= stored.version
  /\ s.version = stored.version => /\ s.participant = stored.participant
                                   /\ Kept(s.assignedAt) = stored.assignedAt
  /\ s.version < stored.version => transfers[s.version + 1].from = s.participant

\* A machine has a proposal once it is proposed and the permit for it once it
\* is verified, and what it waits for is that proposal.
MachineOK(m) ==
  machine[m] # None =>
    /\ Belief(machine[m].responsibility)
    /\ machine[m].state \in {"PROPOSED", "VERIFIED"} => machine[m].proposed \in Participant
    /\ machine[m].state = "VERIFIED" =>
         /\ machine[m].permit # None
         /\ machine[m].permit.from = machine[m].responsibility.participant
         /\ machine[m].permit.to = machine[m].proposed
    /\ pending[m] # None => /\ pending[m].base = machine[m].responsibility
                            /\ pending[m].to = machine[m].proposed

IInv ==
  /\ TypeOK
  /\ RepositoryOK
  /\ \A x \in Client : PendingOK(x)
  /\ \A m \in Machine : MachineOK(m)

-----------------------------------------------------------------------------
(***************************************************************************)
(* What a commit of the repository does.                                   *)
(***************************************************************************)
\* Either repository keeps a time of the clock as a time that is no later, and
\* keeps it as it is from then on (the microseconds of PostgreSQL).
LEMMA KeptTime ==
  ASSUME TypeOK, NEW t \in 1 .. MaxTime
  PROVE  /\ Kept(t) \in 1 .. MaxTime /\ Kept(t) <= t
         /\ Kept(Kept(t)) = Kept(t)
<1>1. CASE backend = "postgres"
  BY <1>1, TruncAssumption, BoundsAssumption DEF Kept, Time, Zero
<1>2. CASE backend # "postgres"
  BY <1>2, BoundsAssumption DEF Kept
<1> QED BY <1>1, <1>2

\* CommitTransfer replaces exactly the assignment the transfer has loaded.
LEMMA CommitsWhatWasLoaded ==
  ASSUME IInv, NEW x \in Client, pending[x] # None, CommitTransfer(x)
  PROVE  /\ stored \in Snapshot
         /\ pending[x] \in Transfer
         /\ pending[x].base = stored
         /\ pending[x].to # stored.participant
         /\ pending[x].at \in 1 .. MaxTime
         /\ Kept(pending[x].at) \in 1 .. MaxTime
         /\ Kept(pending[x].at) > stored.assignedAt
         /\ stored' = [participant |-> pending[x].to, version |-> stored.version + 1,
                       assignedAt |-> Kept(pending[x].at)]
<1>1. /\ stored \in Snapshot /\ pending[x] \in Transfer
      /\ clock \in 1 .. MaxTime
  BY DEF IInv, TypeOK, CommitTransfer, Committable
<1>2. PendingOK(x)
  BY DEF IInv
<1>3. /\ pending[x].base = stored
      /\ pending[x].to # stored.participant
      /\ pending[x].at \in 1 .. MaxTime
  BY <1>1, <1>2, BoundsAssumption DEF PendingOK, CommitTransfer, Committable, CanTransfer
<1>4. Kept(pending[x].at) \in 1 .. MaxTime
  BY <1>3, KeptTime DEF IInv
<1> QED
  BY <1>1, <1>3, <1>4 DEF CommitTransfer, Committable, Transferred

\* CommitTransfer keeps the repository whole: assignment and event together.
LEMMA CommitKeepsRepository ==
  ASSUME IInv, NEW x \in Client, pending[x] # None, CommitTransfer(x),
         UNCHANGED backend
  PROVE  /\ stored' \in Snapshot
         /\ DOMAIN transfers' = 2 .. stored.version + 1
         /\ \A v \in DOMAIN transfers' : transfers'[v] \in TransferredEvent
         /\ \A v \in DOMAIN transfers : transfers'[v] = transfers[v]
         /\ transfers'[stored.version + 1] =
              [from |-> stored.participant, to |-> pending[x].to,
               at |-> Kept(pending[x].at)]
         /\ RepositoryOK'
<1> DEFINE n == stored.version
           e == [from |-> stored.participant, to |-> pending[x].to,
                 at |-> Kept(pending[x].at)]
<1>1. /\ stored \in Snapshot
      /\ pending[x] \in Transfer
      /\ pending[x].base = stored
      /\ pending[x].to # stored.participant
      /\ pending[x].at \in 1 .. MaxTime
      /\ Kept(pending[x].at) \in 1 .. MaxTime
      /\ Kept(pending[x].at) > stored.assignedAt
      /\ stored' = [participant |-> pending[x].to, version |-> n + 1,
                    assignedAt |-> Kept(pending[x].at)]
  BY CommitsWhatWasLoaded
<1>2. n \in Nat \ {0} /\ stored.participant \in Participant /\ pending[x].to \in Participant
  BY <1>1 DEF Snapshot, Transfer
<1>3. /\ stored # None /\ DOMAIN transfers = 2 .. n
      /\ \A v \in DOMAIN transfers : transfers[v] \in TransferredEvent
  BY <1>1, NoneAssumption DEF IInv, RepositoryOK, TypeOK
<1>4. transfers' = [v \in (2 .. n) \cup {n + 1} |-> IF v = n + 1 THEN e ELSE transfers[v]]
  BY <1>1, <1>2, <1>3 DEF CommitTransfer, Transferred
<1>5. (2 .. n) \cup {n + 1} = 2 .. n + 1
  BY <1>2
<1>6. /\ DOMAIN transfers' = 2 .. n + 1
      /\ \A v \in 2 .. n : transfers'[v] = transfers[v]
      /\ transfers'[n + 1] = e
  BY <1>2, <1>4, <1>5
<1>7. e \in TransferredEvent
  BY <1>1, <1>2, BoundsAssumption DEF TransferredEvent, Time
<1>8. stored' \in Snapshot
  BY <1>1, <1>2, BoundsAssumption DEF Snapshot, Time, Zero
<1>9. \A v \in DOMAIN transfers' : transfers'[v] \in TransferredEvent
  BY <1>2, <1>3, <1>6, <1>7
<1>10. stored' # None /\ (Kept(stored.assignedAt) = stored.assignedAt)'
  <2>1. Kept(Kept(pending[x].at)) = Kept(pending[x].at)
    BY <1>1, KeptTime DEF IInv
  <2> QED BY <1>1, <1>8, <2>1, NoneAssumption DEF Kept
<1>11. ASSUME NEW v \in DOMAIN transfers'
       PROVE  /\ transfers'[v].from # transfers'[v].to
              /\ v + 1 \in DOMAIN transfers' =>
                   /\ transfers'[v + 1].from = transfers'[v].to
                   /\ transfers'[v + 1].at > transfers'[v].at
  <2>1. CASE v = n + 1
    BY <1>1, <1>2, <1>6, <2>1
  <2>2. CASE v = n /\ n > 1
    <3>1. /\ stored.participant = transfers[n].to /\ stored.assignedAt = transfers[n].at
          /\ transfers[n].from # transfers[n].to
      BY <1>2, <1>3, <2>2 DEF IInv, RepositoryOK
    <3> QED BY <1>1, <1>2, <1>6, <2>2, <3>1
  <2>3. CASE v \in 2 .. n - 1
    <3>1. v \in DOMAIN transfers /\ v + 1 \in DOMAIN transfers
      BY <1>2, <1>3, <2>3
    <3> QED BY <1>2, <1>3, <1>6, <2>3, <3>1 DEF IInv, RepositoryOK
  <2> QED BY <1>2, <1>6, <2>1, <2>2, <2>3
<1>12. RepositoryOK'
  BY <1>1, <1>2, <1>6, <1>10, <1>11 DEF RepositoryOK, Kept
<1> QED
  BY <1>3, <1>6, <1>8, <1>9, <1>12

\* A step of a client on the repository: none, or a commit.  It keeps the
\* repository whole and every belief history.
KeepsHistory ==
  /\ UNCHANGED <<backend, clock>>
  /\ stored' \in Snapshot \cup {None}
  /\ DOMAIN transfers' \subseteq Nat
  /\ \A v \in DOMAIN transfers' : transfers'[v] \in TransferredEvent
  /\ RepositoryOK'
  /\ \A s \in Snapshot : Belief(s) => Belief(s)'
  /\ \A y \in Client : pending'[y] = pending[y] /\ PendingOK(y) => PendingOK(y)'

\* Nothing is forgotten by a step that leaves the repository alone.
LEMMA IdleKeepsHistory ==
  ASSUME IInv, UNCHANGED <<backend, clock, repository>>
  PROVE  KeepsHistory
<1>1. /\ UNCHANGED <<backend, clock>> /\ stored' = stored /\ transfers' = transfers
  BY DEF repository
<1>2. RepositoryOK'
  BY <1>1 DEF IInv, RepositoryOK, Kept
<1>3. \A s \in Snapshot : Belief(s) => Belief(s)'
  BY <1>1 DEF Belief, Kept
<1>4. \A y \in Client : pending'[y] = pending[y] /\ PendingOK(y) => PendingOK(y)'
  BY <1>1 DEF PendingOK, CanTransfer
<1> QED BY <1>1, <1>2, <1>3, <1>4 DEF KeepsHistory, IInv, TypeOK

\* Nor by a commit: the assignment it replaces is the one its event is from.
LEMMA CommitKeepsHistory ==
  ASSUME IInv, NEW x \in Client, pending[x] # None, CommitTransfer(x),
         UNCHANGED <<backend, clock>>
  PROVE  KeepsHistory
<1> DEFINE n == stored.version
<1>1. /\ stored \in Snapshot /\ stored'.version = n + 1 /\ n \in Nat \ {0}
      /\ stored # None
  BY CommitsWhatWasLoaded, NoneAssumption DEF Snapshot
<1>2. /\ stored' \in Snapshot
      /\ DOMAIN transfers' = 2 .. n + 1
      /\ \A v \in DOMAIN transfers' : transfers'[v] \in TransferredEvent
      /\ \A v \in 2 .. n : transfers'[v] = transfers[v]
      /\ transfers'[n + 1].from = stored.participant
      /\ RepositoryOK'
  <2>1. DOMAIN transfers = 2 .. n
    BY <1>1 DEF IInv, RepositoryOK
  <2>2. UNCHANGED backend
    OBVIOUS
  <2>3. /\ stored' \in Snapshot /\ RepositoryOK'
        /\ DOMAIN transfers' = 2 .. n + 1
        /\ \A v \in DOMAIN transfers' : transfers'[v] \in TransferredEvent
        /\ \A v \in DOMAIN transfers : transfers'[v] = transfers[v]
        /\ transfers'[n + 1] = [from |-> stored.participant, to |-> pending[x].to,
                                at |-> Kept(pending[x].at)]
    BY <2>2, CommitKeepsRepository
  <2> QED BY <2>1, <2>3
<1>3. stored' # None
  BY <1>2, NoneAssumption
<1>4. ASSUME NEW s \in Snapshot, Belief(s)
      PROVE  Belief(s)'
  <2>1. s.version \in Nat \ {0} /\ s.version <= n /\ s.assignedAt \in 1 .. MaxTime
    BY <1>4 DEF Snapshot, Belief
  <2>2. transfers'[s.version + 1].from = s.participant
    <3>1. CASE s.version = n
      BY <1>2, <1>4, <3>1 DEF Belief
    <3>2. CASE s.version < n
      BY <1>1, <1>2, <1>4, <2>1, <3>2 DEF Belief
    <3> QED BY <1>1, <2>1, <3>1, <3>2
  <2> QED BY <1>1, <1>3, <2>1, <2>2 DEF Belief
<1>5. ASSUME NEW y \in Client, pending'[y] = pending[y], PendingOK(y)
      PROVE  PendingOK(y)'
  <2>1. CASE pending[y] = None
    BY <1>5, <2>1 DEF PendingOK
  <2>2. CASE pending[y] # None
    <3>1. pending[y].base.version \in Nat
      BY <2>2 DEF IInv, TypeOK, Transfer, Snapshot
    <3> QED BY <1>1, <1>3, <1>5, <2>2, <3>1 DEF PendingOK, CanTransfer
  <2> QED BY <2>1, <2>2
<1> QED BY <1>1, <1>2, <1>4, <1>5 DEF KeepsHistory

-----------------------------------------------------------------------------
(***************************************************************************)
(* The steps of a machine.                                                 *)
(***************************************************************************)
\* A step changes one machine and what it waits for, and no other client.
LEMMA MachineMoves ==
  ASSUME IInv, KeepsHistory, NEW m \in Machine, NEW r \in MachineState,
         machine' = [machine EXCEPT ![m] = r],
         NEW p \in Transfer \cup {None},
         pending' = [pending EXCEPT ![m] = p],
         PendingOK(m)', MachineOK(m)',
         p # None => r.state = "VERIFIED"
  PROVE  IInv'
<1>1. /\ m \in Client
      /\ pending \in [Client -> Transfer \cup {None}]
      /\ machine \in [Machine -> MachineState \cup {None}]
  BY DEF Client, IInv, TypeOK
<1>2. /\ pending' \in [Client -> Transfer \cup {None}]
      /\ pending'[m] = p
      /\ \A y \in Client \ {m} : pending'[y] = pending[y]
  BY <1>1
<1>3. /\ machine' \in [Machine -> MachineState \cup {None}]
      /\ machine'[m] = r
      /\ \A o \in Machine \ {m} : machine'[o] = machine[o]
  BY <1>1
<1>4. \A o \in Machine : pending'[o] # None =>
        machine'[o] # None /\ machine'[o].state = "VERIFIED"
  BY <1>2, <1>3, NoneAssumption DEF IInv, TypeOK, Client
<1>5. TypeOK'
  BY <1>2, <1>3, <1>4 DEF KeepsHistory, IInv, TypeOK
<1>6. ASSUME NEW y \in Client
      PROVE  PendingOK(y)'
  BY <1>2 DEF KeepsHistory, IInv
<1>7. ASSUME NEW o \in Machine
      PROVE  MachineOK(o)'
  <2>1. CASE o = m
    BY <2>1
  <2>2. CASE o # m /\ machine[o] = None
    BY <1>3, <2>2 DEF MachineOK
  <2>3. CASE o # m /\ machine[o] # None
    <3>1. machine'[o] = machine[o] /\ pending'[o] = pending[o] /\ MachineOK(o)
      BY <1>2, <1>3, <2>3 DEF IInv, Client
    <3>2. machine[o].responsibility \in Snapshot
      BY <1>1, <2>3 DEF MachineState
    <3>3. Belief(machine[o].responsibility)'
      <4>1. Belief(machine[o].responsibility)
        BY <2>3, <3>1 DEF MachineOK
      <4> DEFINE s == machine[o].responsibility
      <4> QED BY <3>1, <3>2, <4>1 DEF KeepsHistory, Belief
    <3> QED BY <2>3, <3>1, <3>3 DEF MachineOK
  <2> QED BY <2>1, <2>2, <2>3
<1> QED BY <1>5, <1>6, <1>7 DEF KeepsHistory, IInv

\* A machine and what it waits for, by themselves.
LEMMA MachineTyped ==
  ASSUME IInv, NEW m \in Machine, machine[m] # None
  PROVE  /\ machine[m] \in MachineState
         /\ machine[m].responsibility \in Snapshot
         /\ Belief(machine[m].responsibility)
         /\ stored \in Snapshot
         /\ m \in Client /\ PendingOK(m) /\ MachineOK(m)
         /\ pending[m] \in Transfer \cup {None}
         /\ pending = [pending EXCEPT ![m] = pending[m]]
<1>1. machine[m] \in MachineState /\ m \in Client
  BY DEF IInv, TypeOK, Client
<1>2. PendingOK(m) /\ MachineOK(m)
  BY <1>1 DEF IInv
<1>3. machine[m].responsibility \in Snapshot /\ Belief(machine[m].responsibility)
  BY <1>1, <1>2 DEF MachineState, MachineOK
<1>4. stored \in Snapshot
  BY <1>3 DEF Belief, IInv, TypeOK
<1> QED BY <1>1, <1>2, <1>3, <1>4 DEF IInv, TypeOK

\* After a step of m that keeps its responsibility, its belief is history still.
LEMMA BeliefKept ==
  ASSUME IInv, KeepsHistory, NEW m \in Machine, machine[m] # None,
         machine'[m].responsibility = machine[m].responsibility
  PROVE  Belief(machine[m].responsibility)'
<1> DEFINE s == machine[m].responsibility
<1>1. s \in Snapshot /\ Belief(s)
  BY MachineTyped
<1> QED BY <1>1 DEF KeepsHistory, Belief

\* enterHalt keeps the last committed participant, whatever the reason is and
\* whatever the repository has done.
LEMMA HaltKeepsInv ==
  ASSUME IInv, KeepsHistory, NEW m \in Machine, machine[m] # None,
         NEW reason \in Reason, EnterHalt(m, reason), End(m)
  PROVE  IInv'
<1> DEFINE r == [machine[m] EXCEPT !.state = "HALT", !.reason = reason,
                                   !.proposed = None, !.permit = None]
<1>1. /\ machine[m] \in MachineState /\ m \in Client
      /\ machine \in [Machine -> MachineState \cup {None}]
  BY MachineTyped DEF IInv, TypeOK
<1>2. /\ machine' = [machine EXCEPT ![m] = r] /\ r \in MachineState
      /\ r.state = "HALT" /\ r.responsibility = machine[m].responsibility
  <2>1. /\ r \in MachineState
        /\ r.state = "HALT" /\ r.responsibility = machine[m].responsibility
    BY <1>1 DEF MachineState, State
  <2>2. machine' = [machine EXCEPT ![m] = r]
    BY <1>1 DEF EnterHalt
  <2> QED BY <2>1, <2>2
<1> HIDE DEF r
<1>3. machine'[m] = r /\ pending'[m] = None
  BY <1>1, <1>2 DEF IInv, TypeOK, End
<1>4. Belief(machine[m].responsibility)'
  BY <1>2, <1>3, BeliefKept
<1>5. PendingOK(m)' /\ MachineOK(m)'
  BY <1>2, <1>3, <1>4 DEF PendingOK, MachineOK
<1> QED BY <1>2, <1>5, MachineMoves DEF End

\* The same when the machine was not waiting.
LEMMA ReadyHaltKeepsInv ==
  ASSUME IInv, NEW m \in Machine, Ready(m, State), NEW reason \in Reason,
         EnterHalt(m, reason), UNCHANGED <<backend, clock, repository, pending>>
  PROVE  IInv'
<1>1. machine[m] # None /\ pending[m] = None
  BY DEF Ready
<1>2. End(m)
  BY <1>1, MachineTyped DEF End
<1>3. KeepsHistory
  BY IdleKeepsHistory
<1> QED BY <1>1, <1>2, <1>3, HaltKeepsInv

\* ValidatePermit answers with a reason, and with none only for a permit from
\* the participant that is responsible to the one that is proposed.
LEMMA PermitReasons ==
  ASSUME NEW s, NEW permit, NEW to
  PROVE  /\ ValidatePermit(s, permit, to) \in Reason
         /\ ValidatePermit(s, permit, to) # "CONCURRENT_RESPONSIBILITY_CHANGE"
         /\ ValidatePermit(s, permit, to) = "NONE" =>
              permit.from = s.participant /\ permit.to = to
BY DEF ValidatePermit, Reason

\* New: the belief of a machine that is made, or made again, is what is stored.
LEMMA NewMachineKeepsInv ==
  ASSUME IInv, NEW m \in Machine, NewMachine(m)
  PROVE  IInv'
<1> DEFINE r == [state |-> "IDLE", reason |-> "NONE", responsibility |-> stored,
                 proposed |-> None, permit |-> None]
<1>1. stored \in Snapshot /\ stored # None /\ m \in Client /\ stored' = stored
  BY DEF NewMachine, IInv, TypeOK, Client, repository
<1>2. KeepsHistory
  BY IdleKeepsHistory DEF NewMachine
<1>3. machine' = [machine EXCEPT ![m] = r] /\ r \in MachineState
  BY <1>1 DEF NewMachine, MachineState, State, Reason
<1>4. machine'[m] = r /\ pending'[m] = None
  BY <1>1, <1>3 DEF IInv, TypeOK, End, NewMachine
<1>5. Belief(machine[m].responsibility)'
  <2>1. /\ stored.assignedAt \in 1 .. MaxTime
        /\ Kept(stored.assignedAt) = stored.assignedAt
    BY <1>1 DEF IInv, RepositoryOK
  <2>2. stored.version \in Nat /\ backend' = backend
    BY <1>1 DEF Snapshot, NewMachine
  <2> QED BY <1>1, <1>4, <2>1, <2>2 DEF Belief, Kept
<1>6. PendingOK(m)' /\ MachineOK(m)'
  BY <1>4, <1>5 DEF PendingOK, MachineOK
<1> QED BY <1>2, <1>3, <1>6, MachineMoves DEF NewMachine, End

\* Propose: a proposal of the present holder is rejected, any other is kept.
LEMMA ProposeKeepsInv ==
  ASSUME IInv, NEW m \in Machine, NEW to \in Participant, Propose(m, to)
  PROVE  IInv'
<1> DEFINE r == IF to = machine[m].responsibility.participant
                THEN [machine[m] EXCEPT !.state = "REJECTED",
                                        !.reason = "INVALID_TRANSITION"]
                ELSE [machine[m] EXCEPT !.state = "PROPOSED", !.reason = "NONE",
                                        !.proposed = to, !.permit = None]
<1>1. /\ machine[m] # None /\ machine[m] \in MachineState /\ m \in Client
      /\ pending[m] = None /\ pending = [pending EXCEPT ![m] = None]
      /\ machine \in [Machine -> MachineState \cup {None}]
  BY MachineTyped DEF IInv, TypeOK, Propose, Ready
<1>2. KeepsHistory
  BY IdleKeepsHistory DEF Propose
<1>3. /\ r \in MachineState /\ r.responsibility = machine[m].responsibility
      /\ r.state \in {"PROPOSED", "REJECTED"}
      /\ r.state = "PROPOSED" => r.proposed \in Participant
  BY <1>1 DEF MachineState, State, Reason
<1>4. machine' = [machine EXCEPT ![m] = r]
  BY <1>1 DEF Propose
<1> HIDE DEF r
<1>5. machine'[m] = r /\ pending'[m] = None /\ pending' = [pending EXCEPT ![m] = None]
  BY <1>1, <1>4 DEF Propose
<1>6. Belief(machine[m].responsibility)'
  BY <1>1, <1>2, <1>3, <1>5, BeliefKept
<1>7. PendingOK(m)' /\ MachineOK(m)'
  BY <1>3, <1>5, <1>6 DEF PendingOK, MachineOK
<1> QED BY <1>2, <1>3, <1>4, <1>5, <1>7, MachineMoves

\* Verify: a permit that validates is the one for the proposal.
LEMMA VerifyKeepsInv ==
  ASSUME IInv, NEW m \in Machine, NEW permit \in Permit, Verify(m, permit)
  PROVE  IInv'
<1> DEFINE reason == ValidatePermit(machine[m].responsibility, permit, machine[m].proposed)
           r == [machine[m] EXCEPT !.state = "VERIFIED", !.reason = "NONE",
                                   !.permit = permit]
<1>1. /\ machine[m] # None /\ machine[m] \in MachineState /\ m \in Client
      /\ pending[m] = None /\ pending = [pending EXCEPT ![m] = None]
      /\ machine[m].state = "PROPOSED" /\ MachineOK(m)
      /\ machine \in [Machine -> MachineState \cup {None}]
  BY MachineTyped DEF IInv, TypeOK, Verify, Ready
<1>2. CASE reason # "NONE"
  <2>1. reason \in Reason
    BY PermitReasons
  <2>2. Ready(m, State) /\ EnterHalt(m, reason)
    BY <1>2 DEF Verify, Ready, State
  <2> HIDE DEF reason
  <2> QED BY <2>1, <2>2, ReadyHaltKeepsInv DEF Verify
<1>3. CASE reason = "NONE"
  <2>1. /\ permit.from = machine[m].responsibility.participant
        /\ permit.to = machine[m].proposed
        /\ permit # None
        /\ machine[m].proposed \in Participant
    BY <1>1, <1>3, PermitReasons, NoneAssumption DEF MachineOK
  <2>2. /\ r \in MachineState /\ r.responsibility = machine[m].responsibility
        /\ r.state = "VERIFIED" /\ r.permit = permit
        /\ r.proposed = machine[m].proposed
    BY <1>1 DEF MachineState, State, Reason
  <2>3. machine' = [machine EXCEPT ![m] = r]
    BY <1>1, <1>3 DEF Verify
  <2> HIDE DEF r, reason
  <2>4. machine'[m] = r /\ pending'[m] = None /\ pending' = [pending EXCEPT ![m] = None]
    BY <1>1, <2>3 DEF Verify
  <2>5. KeepsHistory
    BY IdleKeepsHistory DEF Verify
  <2>6. Belief(machine[m].responsibility)'
    BY <1>1, <2>2, <2>4, <2>5, BeliefKept
  <2>7. PendingOK(m)' /\ MachineOK(m)'
    BY <2>1, <2>2, <2>4, <2>6 DEF PendingOK, MachineOK
  <2> QED BY <2>2, <2>3, <2>4, <2>5, <2>7, MachineMoves
<1> QED BY <1>2, <1>3

\* Recover: only its reason, or its proposal and its permit, are dropped.
LEMMA RecoverKeepsInv ==
  ASSUME IInv, NEW m \in Machine, NEW permit \in Permit, Recover(m, permit)
  PROVE  IInv'
<1> DEFINE s == machine[m].responsibility
           reason == ValidatePermit(s, permit, s.participant)
           r == IF reason = "NONE"
                THEN [machine[m] EXCEPT !.state = "IDLE", !.reason = "NONE",
                                        !.proposed = None, !.permit = None]
                ELSE [machine[m] EXCEPT !.reason = reason]
<1>1. /\ machine[m] # None /\ machine[m] \in MachineState /\ m \in Client
      /\ pending[m] = None /\ pending = [pending EXCEPT ![m] = None]
      /\ machine[m].state = "HALT"
      /\ machine \in [Machine -> MachineState \cup {None}]
  BY MachineTyped DEF IInv, TypeOK, Recover, Ready
<1>2. KeepsHistory
  BY IdleKeepsHistory DEF Recover
<1>3. reason \in Reason
  BY PermitReasons
<1>4. machine' = [machine EXCEPT ![m] = r]
  BY <1>1 DEF Recover
<1> HIDE DEF reason
<1>5. /\ r \in MachineState /\ r.responsibility = machine[m].responsibility
      /\ r.state \in {"IDLE", "HALT"}
  BY <1>1, <1>3 DEF MachineState, State, Reason
<1> HIDE DEF r
<1>6. machine'[m] = r /\ pending'[m] = None /\ pending' = [pending EXCEPT ![m] = None]
  BY <1>1, <1>4 DEF Recover
<1>7. Belief(machine[m].responsibility)'
  BY <1>1, <1>2, <1>5, <1>6, BeliefKept
<1>8. PendingOK(m)' /\ MachineOK(m)'
  BY <1>5, <1>6, <1>7 DEF PendingOK, MachineOK
<1> QED BY <1>2, <1>4, <1>5, <1>6, <1>8, MachineMoves

\* Commit up to the repository's commit: the transfer is of what the machine
\* believes in, which is what is stored.
LEMMA BeginCommitKeepsInv ==
  ASSUME IInv, NEW m \in Machine, BeginCommit(m)
  PROVE  IInv'
<1> DEFINE p == [base |-> stored, to |-> machine[m].proposed, at |-> clock]
<1>1. /\ machine[m] # None /\ machine[m] \in MachineState /\ m \in Client
      /\ machine[m].state = "VERIFIED" /\ MachineOK(m)
      /\ stored \in Snapshot /\ stored = machine[m].responsibility
      /\ machine \in [Machine -> MachineState \cup {None}]
      /\ pending \in [Client -> Transfer \cup {None}]
  BY MachineTyped DEF IInv, TypeOK, BeginCommit, Ready
<1>2. /\ machine[m].proposed \in Participant /\ stored # None
      /\ clock \in 1 .. MaxTime
      /\ CanTransfer(stored, machine[m].proposed, clock)
  BY <1>1, NoneAssumption DEF MachineOK, IInv, TypeOK, BeginCommit
<1>3. p \in Transfer
  BY <1>1, <1>2, BoundsAssumption DEF Transfer, Time
<1>4. /\ pending' = [pending EXCEPT ![m] = p] /\ pending'[m] = p
      /\ machine' = machine /\ machine' = [machine EXCEPT ![m] = machine[m]]
      /\ stored' = stored /\ clock' = clock
  BY <1>1 DEF BeginCommit, Begin, repository
<1>5. KeepsHistory
  BY IdleKeepsHistory DEF BeginCommit
<1>6. Belief(machine[m].responsibility)'
  BY <1>1, <1>4, <1>5, BeliefKept
<1>7. PendingOK(m)'
  <2>1. stored.version \in Nat
    BY <1>1 DEF Snapshot
  <2> QED BY <1>2, <1>4, <2>1, BoundsAssumption DEF PendingOK, CanTransfer
<1>8. MachineOK(m)'
  BY <1>1, <1>4, <1>6 DEF MachineOK
<1> QED BY <1>1, <1>3, <1>4, <1>5, <1>7, <1>8, MachineMoves

\* A verified machine waits for the commit of what it believes in.
LEMMA WaitsVerified ==
  ASSUME IInv, NEW m \in Machine, pending[m] # None
  PROVE  machine[m] # None /\ machine[m].state = "VERIFIED"
BY DEF IInv, TypeOK

\* Commit succeeds: the machine goes on with the assignment it has computed,
\* which is the stored one up to what the repository keeps of its time.
LEMMA FinishCommitKeepsInv ==
  ASSUME IInv, NEW m \in Machine, FinishCommit(m)
  PROVE  IInv'
<1> DEFINE t == Transferred(pending[m].base, pending[m].to, pending[m].at)
           r == [machine[m] EXCEPT !.state = "COMMITTED", !.reason = "NONE",
                                   !.permit = None, !.responsibility = t,
                                   !.proposed = None]
<1>1. /\ machine[m] # None /\ machine[m] \in MachineState /\ m \in Client
      /\ pending[m] # None /\ CommitTransfer(m)
      /\ machine \in [Machine -> MachineState \cup {None}]
      /\ pending \in [Client -> Transfer \cup {None}]
  BY WaitsVerified, MachineTyped DEF IInv, TypeOK, FinishCommit
<1>2. /\ stored \in Snapshot /\ pending[m] \in Transfer
      /\ pending[m].base = stored
      /\ pending[m].at \in 1 .. MaxTime
      /\ stored' = [participant |-> pending[m].to, version |-> stored.version + 1,
                    assignedAt |-> Kept(pending[m].at)]
  BY <1>1, CommitsWhatWasLoaded
<1>3. /\ t = [participant |-> pending[m].to, version |-> stored.version + 1,
              assignedAt |-> pending[m].at]
      /\ t \in Snapshot
  BY <1>2, BoundsAssumption DEF Transferred, Transfer, Snapshot, Time, Zero
<1>4. KeepsHistory
  BY <1>1, CommitKeepsHistory DEF FinishCommit
<1>5. machine' = [machine EXCEPT ![m] = r]
  BY <1>1 DEF FinishCommit
<1>6. /\ t.version = stored'.version /\ t.participant = stored'.participant
      /\ t.assignedAt = pending[m].at
      /\ stored'.assignedAt = Kept(pending[m].at)
      /\ stored'.version = stored.version + 1 /\ stored.version \in Nat
  BY <1>2, <1>3 DEF Snapshot
<1> HIDE DEF t
<1>7. /\ r \in MachineState /\ r.state = "COMMITTED" /\ r.responsibility = t
  BY <1>1, <1>3 DEF MachineState, State, Reason
<1> HIDE DEF r
<1>8. machine'[m] = r /\ pending'[m] = None /\ pending' = [pending EXCEPT ![m] = None]
  BY <1>1, <1>5 DEF FinishCommit, End
<1>9. Belief(machine[m].responsibility)'
  <2>1. stored' # None /\ backend' = backend
    BY <1>1, CommitKeepsRepository, NoneAssumption DEF FinishCommit
  <2> QED BY <1>2, <1>6, <1>7, <1>8, <2>1 DEF Belief, Kept
<1>10. PendingOK(m)' /\ MachineOK(m)'
  BY <1>7, <1>8, <1>9 DEF PendingOK, MachineOK
<1> QED BY <1>4, <1>5, <1>7, <1>8, <1>10, MachineMoves

\* Every step of a machine keeps the invariant.
LEMMA MachineStepKeepsInv ==
  ASSUME IInv, NEW m \in Machine, MachineStep(m)
  PROVE  IInv'
<1>1. CASE CommitRefused(m)
  <2>1. Ready(m, State) /\ EnterHalt(m, "CONCURRENT_RESPONSIBILITY_CHANGE")
    BY <1>1 DEF CommitRefused, Ready, State
  <2> QED BY <1>1, <2>1, ReadyHaltKeepsInv DEF CommitRefused, Reason
<1>2. CASE CommitFails(m)
  <2>1. KeepsHistory
    BY <1>2, IdleKeepsHistory DEF CommitFails
  <2> QED BY <1>2, <2>1, HaltKeepsInv DEF CommitFails, Reason
<1>3. CASE CommitConflicts(m)
  <2>1. KeepsHistory
    BY <1>3, IdleKeepsHistory DEF CommitConflicts
  <2> QED BY <1>3, <2>1, WaitsVerified, HaltKeepsInv DEF CommitConflicts, Reason
<1>4. CASE CommitAnswerLost(m)
  <2>1. KeepsHistory
    BY <1>4, CommitKeepsHistory DEF CommitAnswerLost, Client
  <2> QED BY <1>4, <2>1, WaitsVerified, HaltKeepsInv DEF CommitAnswerLost, Reason
<1>5. ASSUME NEW reason \in HaltReason, Halt(m, reason)
      PROVE  IInv'
  <2> DEFINE given == IF reason = "NONE" THEN "MANUAL_HALT" ELSE reason
  <2>1. given \in Reason
    BY HaltReasonAssumption DEF Reason
  <2>2. EnterHalt(m, given)
    BY <1>5 DEF Halt
  <2> HIDE DEF given
  <2> QED BY <1>5, <2>1, <2>2, ReadyHaltKeepsInv DEF Halt
<1>6. ASSUME NEW matches \in BOOLEAN, DenyMotion(m, matches)
      PROVE  IInv'
  <2> DEFINE reason == ValidatePermit(machine[m].responsibility, machine[m].permit,
                                      machine[m].proposed)
  <2>1. Ready(m, State)
    BY <1>6 DEF DenyMotion, Ready, State
  <2>2. CASE EnterHalt(m, "AUTHORIZATION_BINDING_MISMATCH")
    BY <1>6, <2>1, <2>2, ReadyHaltKeepsInv DEF DenyMotion, Reason
  <2>3. CASE EnterHalt(m, reason)
    <3>1. reason \in Reason
      BY PermitReasons
    <3> HIDE DEF reason
    <3> QED BY <1>6, <2>1, <2>3, <3>1, ReadyHaltKeepsInv DEF DenyMotion
  <2> QED BY <1>6, <2>2, <2>3 DEF DenyMotion
<1> QED
  BY <1>1, <1>2, <1>3, <1>4, <1>5, <1>6, NewMachineKeepsInv, ProposeKeepsInv,
     VerifyKeepsInv, RecoverKeepsInv, BeginCommitKeepsInv, FinishCommitKeepsInv
  DEF MachineStep

-----------------------------------------------------------------------------
(***************************************************************************)
(* The steps of a caller, of the clock, and the first assignment.          *)
(***************************************************************************)
\* A step of a caller leaves the machines and what they wait for alone.
LEMMA CallerMoves ==
  ASSUME IInv, KeepsHistory, NEW c \in Caller, NEW p \in Transfer \cup {None},
         pending' = [pending EXCEPT ![c] = p], PendingOK(c)', UNCHANGED machine
  PROVE  IInv'
<1>1. /\ c \in Client /\ c \notin Machine
      /\ pending \in [Client -> Transfer \cup {None}]
  BY NoneAssumption DEF Client, IInv, TypeOK
<1>2. /\ pending' \in [Client -> Transfer \cup {None}]
      /\ \A y \in Client \ {c} : pending'[y] = pending[y]
      /\ \A m \in Machine : pending'[m] = pending[m]
  BY <1>1 DEF Client
<1>3. TypeOK'
  BY <1>2 DEF KeepsHistory, IInv, TypeOK
<1>4. \A y \in Client : PendingOK(y)'
  BY <1>2 DEF KeepsHistory, IInv
<1>5. ASSUME NEW m \in Machine
      PROVE  MachineOK(m)'
  <2>1. CASE machine[m] = None
    BY <2>1 DEF MachineOK
  <2>2. CASE machine[m] # None
    <3>1. Belief(machine[m].responsibility)'
      BY <2>2, BeliefKept
    <3>2. MachineOK(m) /\ pending'[m] = pending[m]
      BY <1>2 DEF IInv
    <3> QED BY <2>2, <3>1, <3>2 DEF MachineOK
  <2> QED BY <2>1, <2>2
<1> QED BY <1>3, <1>4, <1>5 DEF KeepsHistory, IInv

\* Service.Transfer of a caller, to the repository and back.
LEMMA CallerStepKeepsInv ==
  ASSUME IInv, NEW c \in Caller, CallerStep(c)
  PROVE  IInv'
<1>1. c \in Client /\ pending \in [Client -> Transfer \cup {None}]
  BY DEF Client, IInv, TypeOK
<1>2. ASSUME NEW to \in Participant, StartTransfer(c, to)
      PROVE  IInv'
  <2> DEFINE p == [base |-> stored, to |-> to, at |-> clock]
  <2>1. /\ stored \in Snapshot /\ stored # None /\ clock \in 1 .. MaxTime
        /\ CanTransfer(stored, to, clock)
    BY <1>2 DEF StartTransfer, IInv, TypeOK
  <2>2. p \in Transfer /\ stored.version \in Nat
    BY <2>1, BoundsAssumption DEF Transfer, Snapshot, Time
  <2>3. /\ pending' = [pending EXCEPT ![c] = p] /\ pending'[c] = p
        /\ stored' = stored /\ clock' = clock
    BY <1>1, <1>2 DEF StartTransfer, Begin, repository
  <2>4. KeepsHistory
    BY <1>2, IdleKeepsHistory DEF StartTransfer
  <2>5. PendingOK(c)'
    BY <2>1, <2>2, <2>3, BoundsAssumption DEF PendingOK, CanTransfer
  <2> QED BY <1>2, <2>2, <2>3, <2>4, <2>5, CallerMoves DEF StartTransfer
<1>3. CASE FinishTransfer(c)
  <2>1. KeepsHistory
    BY <1>1, <1>3, CommitKeepsHistory DEF FinishTransfer
  <2>2. pending' = [pending EXCEPT ![c] = None] /\ PendingOK(c)'
    BY <1>1, <1>3 DEF FinishTransfer, End, PendingOK
  <2> QED BY <1>3, <2>1, <2>2, CallerMoves DEF FinishTransfer
<1>4. CASE AbandonTransfer(c)
  <2>1. KeepsHistory
    BY <1>4, IdleKeepsHistory DEF AbandonTransfer
  <2>2. pending' = [pending EXCEPT ![c] = None] /\ PendingOK(c)'
    BY <1>1, <1>4 DEF AbandonTransfer, End, PendingOK
  <2> QED BY <1>4, <2>1, <2>2, CallerMoves DEF AbandonTransfer
<1> QED BY <1>2, <1>3, <1>4 DEF CallerStep

\* The first assignment: there is no client yet that could have an idea of it.
LEMMA AssignFirstKeepsInv ==
  ASSUME IInv, NEW q \in Participant, AssignFirst(q)
  PROVE  IInv'
<1>1. Kept(clock) \in 1 .. MaxTime /\ Kept(Kept(clock)) = Kept(clock)
  BY KeptTime DEF IInv, TypeOK
<1>2. /\ stored = None /\ UNCHANGED <<backend, clock, transfers, pending, machine>>
      /\ stored' = [participant |-> q, version |-> 1, assignedAt |-> Kept(clock)]
  BY DEF AssignFirst
<1>3. stored' \in Snapshot
  BY <1>1, <1>2, BoundsAssumption DEF Snapshot, Time, Zero
<1>4. \A x \in Client : pending[x] = None
  BY <1>2 DEF IInv, PendingOK
<1>5. \A m \in Machine : machine[m] = None
  BY <1>2 DEF IInv, MachineOK, Belief
<1>6. TypeOK'
  BY <1>2, <1>3 DEF IInv, TypeOK
<1>7. RepositoryOK'
  <2>1. stored' # None /\ DOMAIN transfers' = 2 .. 1 /\ DOMAIN transfers' = {}
    BY <1>2, <1>3, NoneAssumption DEF IInv, RepositoryOK
  <2>2. /\ stored'.assignedAt \in 1 .. MaxTime /\ stored'.version = 1
        /\ (Kept(stored.assignedAt) = stored.assignedAt)'
    BY <1>1, <1>2 DEF Kept
  <2> QED BY <2>1, <2>2 DEF RepositoryOK, Kept
<1> QED BY <1>2, <1>4, <1>5, <1>6, <1>7 DEF IInv, PendingOK, MachineOK

\* The clock runs on under transfers that are on the way.
LEMMA TickKeepsInv ==
  ASSUME IInv, Tick
  PROVE  IInv'
<1>1. /\ clock \in 1 .. MaxTime /\ clock' = clock + 1 /\ clock' \in 1 .. MaxTime
      /\ UNCHANGED <<backend, stored, transfers, pending, machine>>
  BY BoundsAssumption DEF IInv, TypeOK, Tick, repository
<1>2. TypeOK'
  BY <1>1 DEF IInv, TypeOK
<1>3. RepositoryOK'
  BY <1>1 DEF IInv, RepositoryOK, Kept
<1>4. ASSUME NEW x \in Client PROVE PendingOK(x)'
  BY <1>1, BoundsAssumption DEF IInv, PendingOK, CanTransfer
<1>5. ASSUME NEW m \in Machine PROVE MachineOK(m)'
  BY <1>1 DEF IInv, MachineOK, Belief, Kept
<1> QED BY <1>2, <1>3, <1>4, <1>5 DEF IInv

-----------------------------------------------------------------------------
\* Before the first assignment nothing has happened.
LEMMA InitIInv == Init => IInv
<1> SUFFICES ASSUME Init PROVE IInv
  OBVIOUS
<1>1. TypeOK
  BY BoundsAssumption DEF Init, TypeOK, Client
<1>2. RepositoryOK
  BY DEF Init, RepositoryOK
<1> QED BY <1>1, <1>2 DEF Init, IInv, PendingOK, MachineOK

\* No step of any client breaks the invariant.
LEMMA NextIInv == IInv /\ [Next]_vars => IInv'
<1> SUFFICES ASSUME IInv, [Next]_vars PROVE IInv'
  OBVIOUS
<1>1. CASE UNCHANGED vars
  <2>1. UNCHANGED <<backend, clock, stored, transfers, pending, machine>>
    BY <1>1 DEF vars, repository
  <2> QED
    BY <2>1 DEF IInv, TypeOK, RepositoryOK, PendingOK, CanTransfer, MachineOK, Belief, Kept
<1>2. CASE Next
  BY <1>2, TickKeepsInv, AssignFirstKeepsInv, MachineStepKeepsInv, CallerStepKeepsInv
  DEF Next
<1> QED BY <1>1, <1>2

\* The inductive invariant holds throughout.
LEMMA Inductive == Spec => []IInv
BY InitIInv, NextIInv, PTL DEF Spec

-----------------------------------------------------------------------------
(***************************************************************************)
(* The theorems.                                                           *)
(***************************************************************************)
\* Type correctness, for every number of machines and callers: a machine that
\* waits for the repository is verified.
THEOREM HandoverTypeCorrect == Spec => []TypeOK
BY Inductive, PTL DEF IInv

\* However commits are refused, lost or overtaken, what a safety machine takes
\* for the current assignment was once stored: HALT retains the last committed
\* participant.
THEOREM BeliefsHold == Spec => []BeliefsAreHistory
<1>1. IInv => BeliefsAreHistory
  BY DEF IInv, MachineOK, Belief, BeliefsAreHistory
<1> QED BY <1>1, Inductive, PTL

\* A step of a machine leaves the other machines alone.
LEMMA OtherMachines ==
  ASSUME IInv, NEW m \in Machine, MachineStep(m), NEW o \in Machine, o # m
  PROVE  machine'[o] = machine[o]
<1>1. machine \in [Machine -> MachineState \cup {None}]
  BY DEF IInv, TypeOK
<1> QED
  BY <1>1 DEF MachineStep, NewMachine, Propose, Verify, Recover, BeginCommit,
     CommitRefused, CommitFails, FinishCommit, CommitConflicts, CommitAnswerLost,
     Halt, DenyMotion, EnterHalt

\* Only the commit of a machine makes it COMMITTED.
LEMMA OnlyFinishCommits ==
  ASSUME IInv, NEW m \in Machine, [Next]_vars, Commits(m)
  PROVE  FinishCommit(m)
<1>1. /\ machine[m] \in MachineState /\ machine[m].state = "VERIFIED"
      /\ machine'[m] # machine[m] /\ machine'[m].state = "COMMITTED"
      /\ machine \in [Machine -> MachineState \cup {None}]
  BY DEF Commits, IInv, TypeOK
<1>2. PICK o \in Machine : MachineStep(o)
  BY <1>1 DEF Next, vars, Tick, AssignFirst, CallerStep, StartTransfer,
     FinishTransfer, AbandonTransfer
<1>3. o = m
  BY <1>1, <1>2, OtherMachines
<1>4. ~NewMachine(m) /\ ~BeginCommit(m)
  BY <1>1 DEF NewMachine, BeginCommit
<1>5. /\ \A to \in Participant : ~Propose(m, to)
      /\ \A permit \in Permit : ~Recover(m, permit)
  BY <1>1 DEF Propose, Recover, Ready
<1>6. \A permit \in Permit : ~Verify(m, permit)
  BY <1>1 DEF Verify, Ready
<1>7. \A reason \in Reason : ~EnterHalt(m, reason)
  BY <1>1 DEF EnterHalt, MachineState
<1>8. ~CommitRefused(m) /\ ~CommitFails(m) /\ ~CommitConflicts(m) /\ ~CommitAnswerLost(m)
  BY <1>7 DEF CommitRefused, CommitFails, CommitConflicts, CommitAnswerLost, Reason
<1>9. \A reason \in HaltReason : ~Halt(m, reason)
  BY <1>7, HaltReasonAssumption DEF Halt, Reason
<1>10. \A matches \in BOOLEAN : ~DenyMotion(m, matches)
  <2>1. ValidatePermit(machine[m].responsibility, machine[m].permit,
                       machine[m].proposed) \in Reason
    BY PermitReasons
  <2> QED BY <1>7, <2>1 DEF DenyMotion, Reason
<1> QED
  BY <1>2, <1>3, <1>4, <1>5, <1>6, <1>8, <1>9, <1>10 DEF MachineStep

\* "TransferExpected rejects a handover if responsibility changed after its
\* safety authorization was evaluated": a machine commits exactly the handover
\* its permit names, out of the assignment the permit was verified for.
THEOREM CommitsAuthorized == Spec => CommitsAreAuthorized
<1>1. ASSUME IInv, [Next]_vars, NEW m \in Machine, Commits(m)
      PROVE  /\ stored.participant = machine[m].permit.from
             /\ stored'.participant = machine[m].permit.to
             /\ stored.version = machine[m].responsibility.version
             /\ stored'.version = stored.version + 1
  <2>1. FinishCommit(m) /\ m \in Client
    BY <1>1, OnlyFinishCommits DEF Client
  <2>2. /\ pending[m].base = stored
        /\ stored' = [participant |-> pending[m].to, version |-> stored.version + 1,
                      assignedAt |-> Kept(pending[m].at)]
    BY <1>1, <2>1, CommitsWhatWasLoaded DEF FinishCommit
  <2>3. MachineOK(m) /\ machine[m] # None /\ machine[m].state = "VERIFIED"
    BY <1>1 DEF IInv, Commits
  <2> QED BY <2>1, <2>2, <2>3 DEF MachineOK, FinishCommit
<1>2. IInv /\ [Next]_vars =>
        [\A m \in Machine : Commits(m) =>
           /\ stored.participant = machine[m].permit.from
           /\ stored'.participant = machine[m].permit.to
           /\ stored.version = machine[m].responsibility.version
           /\ stored'.version = stored.version + 1]_vars
  BY <1>1
<1> QED BY <1>2, Inductive, PTL DEF Spec, CommitsAreAuthorized

-----------------------------------------------------------------------------
(***************************************************************************)
(* Conflicts on the memory repository.                                     *)
(***************************************************************************)
\* The stored version never goes back.
LEMMA VersionsGrow ==
  ASSUME IInv, [Next]_vars, stored # None
  PROVE  stored' # None /\ stored'.version >= stored.version
<1>1. stored \in Snapshot /\ stored.version \in Nat
  BY DEF IInv, TypeOK, Snapshot
<1>2. CASE UNCHANGED repository
  BY <1>1, <1>2 DEF repository
<1>3. ASSUME NEW x \in Client, pending[x] # None, CommitTransfer(x)
      PROVE  stored' # None /\ stored'.version >= stored.version
  <2>1. stored' = [participant |-> pending[x].to, version |-> stored.version + 1,
                   assignedAt |-> Kept(pending[x].at)]
    BY <1>3, CommitsWhatWasLoaded
  <2>2. stored' \in Snapshot
    <3>1. /\ pending[x] \in Transfer /\ Kept(pending[x].at) \in 1 .. MaxTime
      BY <1>3, CommitsWhatWasLoaded
    <3> QED BY <1>1, <2>1, <3>1, BoundsAssumption DEF Snapshot, Transfer, Time, Zero
  <2> QED BY <1>1, <2>1, <2>2, NoneAssumption
<1>4. \/ UNCHANGED repository
      \/ \E x \in Client : pending[x] # None /\ CommitTransfer(x)
  BY DEF Next, vars, Tick, AssignFirst, CallerStep, StartTransfer, FinishTransfer,
     AbandonTransfer, MachineStep, NewMachine, Propose, Verify, Recover, BeginCommit,
     CommitRefused, CommitFails, FinishCommit, CommitConflicts, CommitAnswerLost,
     Halt, DenyMotion, Client
<1> QED BY <1>2, <1>3, <1>4

\* A machine comes to halt for a concurrent change only when the repository, or
\* the load before it, has found another assignment than the one it believes in.
LEMMA ConflictHasCause ==
  ASSUME IInv, NEW m \in Machine, MachineStep(m),
         "CONCURRENT_RESPONSIBILITY_CHANGE" \notin HaltReason,
         machine'[m] # None, machine'[m].reason = "CONCURRENT_RESPONSIBILITY_CHANGE"
  PROVE  /\ machine[m] # None
         /\ machine'[m].responsibility = machine[m].responsibility
         /\ \/ machine[m].reason = "CONCURRENT_RESPONSIBILITY_CHANGE"
            \/ CommitRefused(m)
            \/ CommitConflicts(m)
<1> DEFINE C == "CONCURRENT_RESPONSIBILITY_CHANGE"
<1>1. machine \in [Machine -> MachineState \cup {None}]
  BY DEF IInv, TypeOK
<1>2. ~NewMachine(m)
  BY <1>1 DEF NewMachine
<1>3. ~FinishCommit(m)
  <2>1. ASSUME FinishCommit(m) PROVE machine[m] \in MachineState
    BY <1>1, <2>1, WaitsVerified DEF FinishCommit
  <2> QED BY <1>1, <2>1 DEF FinishCommit, MachineState
<1>4. machine[m] # None
  BY <1>2, WaitsVerified DEF MachineStep, Propose, Verify, Recover, BeginCommit,
     CommitRefused, CommitFails, FinishCommit, CommitConflicts, CommitAnswerLost,
     Halt, DenyMotion, Ready
<1>5. machine[m] \in MachineState
  BY <1>1, <1>4
<1>6. ASSUME NEW reason, EnterHalt(m, reason)
      PROVE  /\ machine'[m].responsibility = machine[m].responsibility
             /\ reason = C
  BY <1>1, <1>5, <1>6 DEF EnterHalt, MachineState
<1>7. ~CommitFails(m) /\ ~CommitAnswerLost(m)
  BY <1>6 DEF CommitFails, CommitAnswerLost
<1>8. \A reason \in HaltReason : ~Halt(m, reason)
  <2> SUFFICES ASSUME NEW reason \in HaltReason, Halt(m, reason) PROVE FALSE
    OBVIOUS
  <2>1. (IF reason = "NONE" THEN "MANUAL_HALT" ELSE reason) = C
    BY <1>6 DEF Halt
  <2> QED BY <2>1
<1>9. \A matches \in BOOLEAN : ~DenyMotion(m, matches)
  BY <1>6, PermitReasons DEF DenyMotion
<1>10. ASSUME NEW to \in Participant, Propose(m, to)
       PROVE  FALSE
  BY <1>1, <1>5, <1>10 DEF Propose, MachineState
<1>11. ASSUME NEW permit \in Permit, Verify(m, permit)
       PROVE  FALSE
  <2> DEFINE reason == ValidatePermit(machine[m].responsibility, permit,
                                      machine[m].proposed)
  <2>1. CASE reason = "NONE"
    BY <1>1, <1>5, <1>11, <2>1 DEF Verify, MachineState
  <2>2. CASE EnterHalt(m, reason)
    BY <1>6, <2>2, PermitReasons
  <2> QED BY <1>11, <2>1, <2>2 DEF Verify
<1>12. ASSUME NEW permit \in Permit, Recover(m, permit)
       PROVE  FALSE
  <2> DEFINE s == machine[m].responsibility
             reason == ValidatePermit(s, permit, s.participant)
  <2>1. machine' = IF reason = "NONE"
          THEN [machine EXCEPT ![m].state = "IDLE", ![m].reason = "NONE",
                               ![m].proposed = None, ![m].permit = None]
          ELSE [machine EXCEPT ![m].reason = reason]
    BY <1>12 DEF Recover
  <2>2. reason # C
    BY PermitReasons
  <2> HIDE DEF reason
  <2> QED BY <1>1, <1>5, <2>1, <2>2 DEF MachineState
<1>13. CASE BeginCommit(m)
  BY <1>4, <1>13 DEF BeginCommit
<1>14. CASE CommitRefused(m) \/ CommitConflicts(m)
  BY <1>4, <1>6, <1>14 DEF CommitRefused, CommitConflicts
<1> QED
  BY <1>2, <1>3, <1>7, <1>8, <1>9, <1>10, <1>11, <1>12, <1>13, <1>14 DEF MachineStep

\* Two assignments with the same participant, version and time are the same.
LEMMA SameSnapshot ==
  ASSUME NEW s \in Snapshot, NEW u \in Snapshot, s.participant = u.participant,
         s.version = u.version, s.assignedAt = u.assignedAt
  PROVE  s = u
BY DEF Snapshot

\* On the memory repository both causes are a later version: it keeps the times
\* a machine has computed, so nothing but a version tells assignments apart.
LEMMA MemoryCauseIsReal ==
  ASSUME IInv, NEW m \in Machine, backend = "memory",
         CommitRefused(m) \/ CommitConflicts(m)
  PROVE  /\ machine[m] # None /\ stored \in Snapshot
         /\ stored.version > machine[m].responsibility.version
<1> DEFINE s == machine[m].responsibility
<1>1. machine[m] # None
  BY WaitsVerified DEF CommitRefused, CommitConflicts, Ready
<1>2. /\ stored \in Snapshot /\ s \in Snapshot /\ Belief(s)
      /\ m \in Client /\ PendingOK(m) /\ MachineOK(m)
  BY <1>1, MachineTyped
<1>3. stored.version \in Nat /\ s.version \in Nat /\ s.version <= stored.version
  BY <1>2 DEF Snapshot, Belief
<1>4. CASE CommitRefused(m)
  <2>1. s.version = stored.version =>
          s.participant = stored.participant /\ s.assignedAt = stored.assignedAt
    BY <1>2 DEF Belief, Kept
  <2>2. s # stored
    BY <1>4 DEF CommitRefused
  <2> QED BY <1>1, <1>2, <1>3, <2>1, <2>2, SameSnapshot
<1>5. CASE CommitConflicts(m)
  <2>1. pending[m] # None /\ pending[m].base = s /\ ~Committable(m)
    BY <1>1, <1>2, <1>5 DEF CommitConflicts, MachineOK
  <2>2. ASSUME s.version = stored.version
        PROVE  Committable(m)
    <3>1. /\ pending[m].base = stored /\ stored # None
          /\ pending[m].at > stored.assignedAt
      BY <1>2, <2>1, <2>2 DEF PendingOK, CanTransfer
    <3>2. DOMAIN transfers = 2 .. stored.version
      BY <3>1 DEF IInv, RepositoryOK
    <3>3. stored.version + 1 \notin DOMAIN transfers
      BY <1>3, <3>2
    <3> QED BY <3>1, <3>3 DEF Committable, Kept
  <2> QED BY <1>1, <1>2, <1>3, <2>1, <2>2
<1> QED BY <1>4, <1>5

\* On the memory repository a machine halts for a concurrent change only when
\* there has been one (unless the reason is one its own operator has given).
THEOREM MemoryConflictsHold ==
  ASSUME "CONCURRENT_RESPONSIBILITY_CHANGE" \notin HaltReason
  PROVE  Spec => []MemoryConflictsAreReal
<1> DEFINE C == "CONCURRENT_RESPONSIBILITY_CHANGE"
<1>1. Init => MemoryConflictsAreReal
  BY DEF Init, MemoryConflictsAreReal
<1>2. ASSUME IInv, MemoryConflictsAreReal, [Next]_vars, (backend = "memory")',
             NEW m \in Machine, machine'[m] # None, machine'[m].reason = C
      PROVE  stored'.version > machine'[m].responsibility.version
  <2>1. backend = "memory"
    BY <1>2 DEF vars, Next, Tick, AssignFirst, CallerStep, StartTransfer,
       FinishTransfer, AbandonTransfer, MachineStep, NewMachine, Propose, Verify,
       Recover, BeginCommit, CommitRefused, CommitFails, FinishCommit,
       CommitConflicts, CommitAnswerLost, Halt, DenyMotion
  <2>2. /\ machine[m] # None
        /\ machine'[m].responsibility = machine[m].responsibility
        /\ machine[m].reason = C \/ CommitRefused(m) \/ CommitConflicts(m)
    <3>1. CASE MachineStep(m)
      BY <1>2, <3>1, ConflictHasCause
    <3>2. CASE machine'[m] = machine[m]
      BY <1>2, <3>2
    <3>3. MachineStep(m) \/ machine'[m] = machine[m]
      BY <1>2, OtherMachines DEF vars, Next, Tick, AssignFirst, CallerStep,
         StartTransfer, FinishTransfer, AbandonTransfer
    <3> QED BY <3>1, <3>2, <3>3
  <2>3. stored.version > machine[m].responsibility.version
    BY <1>2, <2>1, <2>2, MemoryCauseIsReal DEF MemoryConflictsAreReal
  <2>4. /\ stored \in Snapshot /\ stored # None
        /\ machine[m].responsibility \in Snapshot
    BY <1>2, <2>2, MachineTyped, NoneAssumption
  <2>5. stored' # None /\ stored'.version >= stored.version /\ stored' \in Snapshot
    BY <1>2, <2>4, VersionsGrow, NextIInv DEF IInv, TypeOK
  <2> QED BY <2>2, <2>3, <2>4, <2>5 DEF Snapshot
<1>3. IInv /\ MemoryConflictsAreReal /\ [Next]_vars => MemoryConflictsAreReal'
  BY <1>2 DEF MemoryConflictsAreReal
<1> QED BY <1>1, <1>3, Inductive, PTL DEF Spec

-----------------------------------------------------------------------------
(***************************************************************************)
(* Handover implements Custody.                                            *)
(***************************************************************************)
\* What the repository holds, as Custody sees it.
Holder == IF stored = None THEN None
          ELSE [participant |-> stored.participant, since |-> stored.assignedAt]
Log == IF stored = None THEN <<>>
       ELSE [i \in 1 .. stored.version - 1 |-> transfers[i + 1]]

\* The log is the sequence of the stored events, from version 2 on.
LEMMA LogOfTransfers ==
  ASSUME IInv, stored # None
  PROVE  /\ stored.version \in Nat \ {0}
         /\ DOMAIN transfers = 2 .. stored.version
         /\ Log \in Seq(TransferredEvent)
         /\ Len(Log) = stored.version - 1
         /\ \A i \in 1 .. stored.version - 1 : Log[i] = transfers[i + 1]
<1>1. stored.version \in Nat \ {0} /\ DOMAIN transfers = 2 .. stored.version
  BY DEF IInv, TypeOK, RepositoryOK, Snapshot
<1>2. \A i \in 1 .. stored.version - 1 : transfers[i + 1] \in TransferredEvent
  BY <1>1 DEF IInv, TypeOK
<1>3. Log = [i \in 1 .. stored.version - 1 |-> transfers[i + 1]]
  BY DEF Log
<1>4. stored.version - 1 \in Nat
  BY <1>1
<1> QED BY <1>1, <1>2, <1>3, <1>4

\* The stored events of an object are an unbroken chain that leads to the
\* participant that is responsible for it.
THEOREM ChainHolds == Spec => []ChainOfCustody
<1>1. ASSUME IInv PROVE ChainOfCustody
  <2>1. CASE stored = None
    BY <2>1 DEF ChainOfCustody, CustodyOf!ChainOfCustody
  <2>2. CASE stored # None
    <3> DEFINE n == stored.version - 1
    <3>1. /\ n \in Nat /\ DOMAIN transfers = 2 .. n + 1 /\ stored.version = n + 1
          /\ Len(Log) = n /\ \A i \in 1 .. n : Log[i] = transfers[i + 1]
      BY <1>1, <2>2, LogOfTransfers
    <3> HIDE DEF n
    <3>2. \A i \in 1 .. n :
            /\ transfers[i + 1].from # transfers[i + 1].to
            /\ i < n => /\ transfers[i + 2].from = transfers[i + 1].to
                        /\ transfers[i + 2].at > transfers[i + 1].at
      <4> SUFFICES ASSUME NEW i \in 1 .. n
                   PROVE  /\ transfers[i + 1].from # transfers[i + 1].to
                          /\ i < n => /\ transfers[i + 2].from = transfers[i + 1].to
                                      /\ transfers[i + 2].at > transfers[i + 1].at
        OBVIOUS
      <4>1. /\ i + 1 \in DOMAIN transfers /\ (i + 1) + 1 = i + 2
            /\ i < n => i + 2 \in DOMAIN transfers
        BY <3>1
      <4> QED BY <1>1, <4>1 DEF IInv, RepositoryOK
    <3>3. \A i \in 1 .. n :
            /\ Log[i].from # Log[i].to
            /\ i < n => Log[i + 1].from = Log[i].to /\ Log[i + 1].at > Log[i].at
      <4> SUFFICES ASSUME NEW i \in 1 .. n
                   PROVE  /\ Log[i].from # Log[i].to
                          /\ i < n => /\ Log[i + 1].from = Log[i].to
                                      /\ Log[i + 1].at > Log[i].at
        OBVIOUS
      <4>1. /\ Log[i] = transfers[i + 1]
            /\ i < n => Log[i + 1] = transfers[i + 2]
        BY <3>1
      <4> QED BY <3>2, <4>1
    <3>4. n > 0 => /\ stored.participant = Log[n].to
                   /\ stored.assignedAt = Log[n].at
      BY <1>1, <2>2, <3>1 DEF IInv, RepositoryOK
    <3>5. Holder # None /\ Holder = [participant |-> stored.participant,
                                     since |-> stored.assignedAt]
      BY <1>1, <2>2, NoneAssumption DEF IInv, TypeOK, RepositoryOK, Snapshot, Holder
    <3>6. Log # <<>> => n > 0
      BY <1>1, <2>2, <3>1, LogOfTransfers
    <3> QED
      BY <3>1, <3>3, <3>4, <3>5, <3>6
      DEF ChainOfCustody, CustodyOf!ChainOfCustody, Holder, Log
  <2> QED BY <2>1, <2>2
<1> QED BY <1>1, Inductive, PTL

\* A commit is a HandOver of Custody.
LEMMA CommitIsHandOver ==
  ASSUME IInv, IInv', NEW x \in Client, pending[x] # None, CommitTransfer(x),
         UNCHANGED backend
  PROVE  CustodyOf!Next
<1> DEFINE n == stored.version
           q == pending[x].to
           t == Kept(pending[x].at)
           e == [from |-> stored.participant, to |-> q, at |-> t]
<1>1. /\ stored \in Snapshot
      /\ pending[x] \in Transfer
      /\ q # stored.participant
      /\ t \in 1 .. MaxTime
      /\ t > stored.assignedAt
      /\ stored' = [participant |-> q, version |-> n + 1, assignedAt |-> t]
  BY CommitsWhatWasLoaded
<1>2. /\ stored' \in Snapshot
      /\ \A v \in DOMAIN transfers : transfers'[v] = transfers[v]
      /\ transfers'[n + 1] = e
  BY CommitKeepsRepository
<1>3. stored # None /\ stored' # None /\ q \in Participant
  BY <1>1, <1>2, NoneAssumption DEF Transfer
<1>4. e \in TransferredEvent
  BY <1>1, <1>3, BoundsAssumption DEF TransferredEvent, Snapshot, Time
<1>5. Holder # None /\ Holder = [participant |-> stored.participant,
                                 since |-> stored.assignedAt]
  BY <1>3, NoneAssumption DEF IInv, TypeOK, RepositoryOK, Snapshot, Holder
<1>6. Holder' = [participant |-> q, since |-> t]
  BY <1>1, <1>3 DEF Holder
<1>7. Log' = Append(Log, e)
  <2>1. /\ n \in Nat \ {0} /\ DOMAIN transfers = 2 .. n
        /\ Log \in Seq(TransferredEvent) /\ Len(Log) = n - 1
        /\ \A i \in 1 .. n - 1 : Log[i] = transfers[i + 1]
    BY <1>3, LogOfTransfers
  <2>2. Log' = [i \in 1 .. n |-> transfers'[i + 1]]
    <3>1. stored'.version - 1 = n
      BY <1>1, <2>1
    <3> QED BY <1>3, <3>1 DEF Log
  <2>3. ASSUME NEW i \in 1 .. n - 1 PROVE transfers'[i + 1] = Log[i]
    <3>1. i + 1 \in DOMAIN transfers
      BY <2>1
    <3> QED BY <1>2, <2>1, <3>1
  <2> HIDE DEF n, e
  <2>4. /\ Append(Log, e) \in Seq(TransferredEvent)
        /\ Len(Append(Log, e)) = n
        /\ \A i \in 1 .. n - 1 : Append(Log, e)[i] = Log[i]
        /\ Append(Log, e)[n] = e
    BY <1>4, <2>1, AppendProperties
  <2>5. ASSUME NEW i \in 1 .. n PROVE transfers'[i + 1] = Append(Log, e)[i]
    BY <1>2, <2>1, <2>3, <2>4
  <2>6. /\ Log' \in Seq(TransferredEvent) /\ Len(Log') = n
        /\ \A i \in 1 .. n : Log'[i] = transfers'[i + 1]
    <3>1. \A i \in 1 .. n : transfers'[i + 1] \in TransferredEvent
      BY <2>4, <2>5, ElementOfSeq
    <3> QED BY <2>1, <2>2, <3>1
  <2> QED BY <2>4, <2>5, <2>6, SeqEqual
<1>8. PICK p \in Participant, u \in 1 .. MaxTime : p = q /\ u = t
  BY <1>1, <1>3
<1>9. CustodyOf!HandOver(p, u)
  <2>1. CustodyOf!HandOver(p, u) <=>
          /\ Holder # None
          /\ p # Holder.participant /\ u > Holder.since
          /\ Holder' = [participant |-> p, since |-> u]
          /\ Log' = Append(Log, [from |-> Holder.participant, to |-> p, at |-> u])
    BY DEF CustodyOf!HandOver, Holder, Log
  <2>2. Holder.participant = stored.participant /\ Holder.since = stored.assignedAt
    BY <1>5
  <2> QED BY <1>1, <1>5, <1>6, <1>7, <1>8, <2>1, <2>2
<1> QED BY <1>9 DEF CustodyOf!Next

\* However transfers overlap, fail or lose their answers, the repository
\* implements Custody: one responsible participant at a time, and an event
\* stored for every change of it and for nothing else.
THEOREM CustodyIsSole == Spec => SoleCustody
<1>1. Init => CustodyOf!Init
  BY DEF Init, CustodyOf!Init
<1>2. ASSUME IInv, IInv', [Next]_vars
      PROVE  [CustodyOf!Next]_(CustodyOf!custody)
  <2>1. CASE UNCHANGED repository
    BY <2>1 DEF repository, CustodyOf!custody
  <2>2. ASSUME NEW q \in Participant, AssignFirst(q)
        PROVE  CustodyOf!Next
    <3>1. Kept(clock) \in 1 .. MaxTime
      BY <1>2, KeptTime DEF IInv, TypeOK
    <3>2. /\ stored = None /\ transfers' = transfers
          /\ stored' = [participant |-> q, version |-> 1, assignedAt |-> Kept(clock)]
      BY <2>2 DEF AssignFirst
    <3>3. stored' # None
      <4>1. stored' \in Snapshot
        BY <3>1, <3>2, BoundsAssumption DEF Snapshot, Time, Zero
      <4> QED BY <4>1, NoneAssumption
    <3>4. Log = <<>> /\ Log' = <<>> /\ Holder = None
      BY <3>2, <3>3 DEF Log, Holder
    <3>5. Holder' = [participant |-> q, since |-> Kept(clock)]
      BY <3>2, <3>3 DEF Holder
    <3>6. CustodyOf!Assign(q, Kept(clock))
      BY <3>4, <3>5 DEF CustodyOf!Assign, Log, Holder
    <3> QED BY <3>1, <3>6 DEF CustodyOf!Next
  <2>3. ASSUME NEW x \in Client, pending[x] # None, CommitTransfer(x), UNCHANGED backend
        PROVE  CustodyOf!Next
    BY <1>2, <2>3, CommitIsHandOver
  <2>4. \/ UNCHANGED repository
        \/ \E q \in Participant : AssignFirst(q)
        \/ \E x \in Client : /\ pending[x] # None /\ CommitTransfer(x)
                             /\ UNCHANGED backend
    BY <1>2 DEF Next, vars, Tick, CallerStep, StartTransfer, FinishTransfer,
       AbandonTransfer, MachineStep, NewMachine, Propose, Verify, Recover,
       BeginCommit, CommitRefused, CommitFails, FinishCommit, CommitConflicts,
       CommitAnswerLost, Halt, DenyMotion, Client
  <2> QED BY <2>1, <2>2, <2>3, <2>4
<1>3. IInv /\ IInv' /\ [Next]_vars => [CustodyOf!Next]_(CustodyOf!custody)
  BY <1>2
<1> QED BY <1>1, <1>3, Inductive, PTL DEF Spec, SoleCustody, CustodyOf!Spec

=============================================================================
