-------------------------------- MODULE Custody --------------------------------
(***************************************************************************)
(* What src/responsibility promises for one physical object: from its      *)
(* first assignment on it has exactly one responsible participant, and     *)
(* the handovers of the object are on record, one after the other.         *)
(***************************************************************************)
EXTENDS Naturals, Sequences

CONSTANTS Participant, Time, None

VARIABLES holder,  \* None, or who is responsible and since when
          log      \* the handovers, in order

custody == <<holder, log>>

Init == holder = None /\ log = <<>>

Assign(p, t) ==
  /\ holder = None
  /\ holder' = [participant |-> p, since |-> t]
  /\ UNCHANGED log

HandOver(p, t) ==
  /\ holder # None
  /\ p # holder.participant /\ t > holder.since
  /\ holder' = [participant |-> p, since |-> t]
  /\ log' = Append(log, [from |-> holder.participant, to |-> p, at |-> t])

Next == \E p \in Participant, t \in Time : Assign(p, t) \/ HandOver(p, t)

Spec == Init /\ [][Next]_custody

-----------------------------------------------------------------------------
\* The record is an unbroken chain: each handover is from the participant the
\* one before it was to, later than that one, and the last one is to the
\* present holder.
ChainOfCustody ==
  /\ \A i \in 1 .. Len(log) :
       /\ log[i].from # log[i].to
       /\ i < Len(log) => /\ log[i + 1].from = log[i].to
                          /\ log[i + 1].at > log[i].at
  /\ log # <<>> => /\ holder # None
                   /\ holder.participant = log[Len(log)].to
                   /\ holder.since = log[Len(log)].at
=============================================================================
