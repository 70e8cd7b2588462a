SPECIFICATION Spec
CONSTANTS
  r1 = r1
  r2 = r2
  p1 = p1
  p2 = p2
  None = None
  Failure = Failure
  Rule <- MCRule
  Policy <- MCPolicy
  Plan <- MCPlan
  Session = "session"
  Content <- MCContent
  Document <- MCDocument
  EvidenceObject <- MCEvidenceObject
  Qualifiable <- MCQualifiable
  Qualifies <- MCQualifies
  Decide <- MCDecide
  CallerTime = {3}
  CallerStatus = {"PASS", "INCONCLUSIVE"}
  CreatedTimeout = 2
  RunningTimeout = 1
  Eval = {e1}
  MaxTime = 3
INVARIANTS
  TypeOK
  OneEventPerVersion
  DecisionFollowsOutcomes
  ExpiredOnlyAfterDeadline
  DecisionsVerify
  EvidenceIsUnambiguous
PROPERTIES
  DecisionsAreKept
