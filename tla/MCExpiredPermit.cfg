SPECIFICATION Spec
CONSTANTS
  vehicle = vehicle
  warehouse = warehouse
  hub = hub
  m1 = m1
  m2 = m2
  None = None
  Participant <- MCParticipant
  Machine <- MCMachine
  Trunc <- MCTrunc
  Caller = {caller}
  PermitTime = {1, 4}
  HaltReason = {"NONE"}
  MaxTime = 4
SYMMETRY MCSymmetry
PROPERTY
  ExpiredPermitNeverCommits
