SPECIFICATION Spec
CONSTANTS
  None = None
  Absent = None
  w1 = w1
  w2 = w2
  b1 = b1
  b2 = b2
  Writer = {w1, w2}
  BundleID = {b1, b2}
  ProofID = {"p1", "p2"}
  Published = {b1}
  Revocable = {"signer", "authority", "B"}
  Job <- MCJob
  Submission <- MCSubmission
  Spelling <- MCSpelling
  Bound <- MCBound
  Trace <- MCTrace
  Keys <- MCKeys
  DecisionRepeats <- MCDecisionRepeats
  MaxTime = 3
  MaxRevocations = 1
  MaxConsents = 2
  MaxEntries = 2
  MaxLedger = 3
INVARIANTS
  LedgerAccountsForRecords
  LockFirstSeesHead
  CoherentProofsVerify
  ArchivesEndure
PROPERTIES
  EveryCallReturns
CHECK_DEADLOCK FALSE
