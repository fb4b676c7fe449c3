SPECIFICATION MCSpec
CONSTANTS
  t1 = t1
  t2 = t2
  f1 = f1
  x1 = x1
  x2 = x2
  m1 = m1
  TextApprovals <- MCTextApprovals
  FormalApprovals <- MCFormalApprovals
  Bindings <- MCBindings
  Metrics <- MCMetrics
  Limit = 2
  MaxAudits = 1
  Evaluators = {e1, e2}
  Candidates = {d1, d2}
  Methods = {"automarkov_no_simulation_tester", "automarkov_no_training_feedback"}
  Failures = {"task_contract", "official_reference"}
  RevisionBudget = 1
  MaxFailed = 1
  MaxHead = 11
SYMMETRY Symmetry
INVARIANTS TypesOK GateLadder ClassifiedTaskApproved FrozenCandidateIsValidated TruthfulCountsKeepTheBudget
PROPERTIES RevocationRollsBack ImplementsProtocol
CHECK_DEADLOCK FALSE
