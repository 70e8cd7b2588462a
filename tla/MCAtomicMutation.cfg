SPECIFICATION Spec
CONSTANTS
  r1 = r1
  r2 = r2
  None = None
  Rule <- MCRule
  EvidenceBinding <- MCEvidenceBinding
  PolicyBinding <- MCPolicyBinding
  CheckpointName = {cp1}
  OutcomeStatus = {"FAIL"}
  ReportedResult = {"UNKNOWN", "REJECTED"}
  MaxTime = 2
  MaxVersion = 5
  MaxHistory = 1
  MaxMutation = 2
SYMMETRY MCSymmetry
PROPERTIES
  FailedMutationRestoresAll
CHECK_DEADLOCK FALSE
