SPECIFICATION Spec
CONSTANTS
  None = None
  MaxTime = 6
  KeyID = {"k"}
  VersionID = {"v1", "v2"}
  Material = {"m"}
  Content = {"a", "b", "c", "d"}
  ValidDocument <- MCValidDocument
  o1 = o1
  o2 = o2
  Operator = {o1, o2}
  Request <- MCRequest
  EvalTime = {2, 4}
  Trunc <- MCTrunc
SYMMETRY MCSymmetry
INVARIANTS
  TypeOK
  NeverAmbiguous
  LifecycleIsPath
  BindingsReplayable
  VerificationsStand
  
PROPERTIES
  RepeatsAreRecognised
