------------------------------ MODULE MCHandover ------------------------------
(***************************************************************************)
(* Handover with three participants, two safety machines and one direct    *)
(* caller; two clock values make one microsecond.                          *)
(***************************************************************************)
EXTENDS Handover, TLC

CONSTANTS vehicle, warehouse, hub, m1, m2

MCParticipant == {vehicle, warehouse, hub}
MCMachine == {m1, m2}
MCTrunc(t) == IF t % 2 = 0 THEN t - 1 ELSE t

MCSymmetry == Permutations(MCParticipant) \cup Permutations(MCMachine)
=============================================================================
