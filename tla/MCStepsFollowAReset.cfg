SPECIFICATION MCSpec
CONSTANTS
    trainer = trainer
    evaluator = evaluator
    taxi = taxi
    minigrid = minigrid
    s1 = s1
    s2 = s2
    s3 = s3
    s4 = s4
    m3 = m3
    Workers = {trainer, evaluator, taxi, minigrid}
    Suite <- SuiteMC
    Selected <- SelectedMC
    Scenario <- ScenarioMC
    Scenarios = {s1, s2, s3, s4}
    Trusted = {"publisher"}
    MaxMade = 2
    MaxSteps = 1
    Policies = {p1, p2}
    Configs = {"train", "test"}
    TrainConfigs = {"train"}
    TestConfigs = {"test"}
    Masks = {m1, m2}
    Start = 0
    Finish = 2
    MaxTicks = 3
    Callers = {pilot1, pilot2}
    Manifests = {m3, m4}
    Nothing = Nothing
    MaxEdits = 1
    MaxSequence = 5
    MaxStep = 2
    Lifetime = 1
    MaxTime = 1
INVARIANTS
    StepsFollowAReset
CHECK_DEADLOCK FALSE
