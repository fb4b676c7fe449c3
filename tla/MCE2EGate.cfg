SPECIFICATION MCSpec
CONSTANTS
    r1 = r1
    r2 = r2
    i1 = i1
    i2 = i2
    Callers = {p1, p2}
    Runs = {r1, r2}
    Ids = {i1, i2}
    Requests <- RequestsMC
    Verdicts <- VerdictsMC
    MaxLog = 4
    Recorders <- RecordersMC
    Artifacts <- SignedMC
SYMMETRY SymmetricCallers
INVARIANTS
    DecisionIsTheRunsStep
    RecordsAgree
    OneJudgementEach
