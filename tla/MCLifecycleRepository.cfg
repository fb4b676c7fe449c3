SPECIFICATION Spec
CONSTANTS
  Runs = {r1, r2}
  Clients = {c1, c2}
  CommandIds = {k1, k2, k3}
  NoRun = NoRun
  NoClient = NoClient
  NoCommand = NoCommand
  MaxFailures = 1
SYMMETRY Symmetry
INVARIANTS TypeOK TablesAgree ReplayIsStable AnswersAreTrue
PROPERTIES ImplementsLedger
CHECK_DEADLOCK FALSE
