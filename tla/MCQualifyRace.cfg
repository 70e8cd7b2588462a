SPECIFICATION Spec
CONSTANTS
  r1 = r1
  p1 = p1
  p2 = p2
  aging = aging
  w1 = w1
  w2 = w2
  None = None
  Failure = Failure
  Rule <- MCRule
  Policy <- MCPolicy
  Plan <- MCPlan
  EvidenceObject <- MCEvidenceObject
  Qualifiable <- MCQualifiable
  Qualifies <- MCQualifies
  Decide <- MCDecide
  Worker <- MCWorker
  CallerTime = {2}
  CallerStatus = {"PASS"}
  CreatedTimeout = 1
  RunningTimeout = 1
  Eval = {e1}
  MaxTime = 2
SYMMETRY MCSymmetry
PROPERTIES
  QualifyReturnsBinding
