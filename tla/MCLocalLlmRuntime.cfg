SPECIFICATION Spec
CONSTANTS
    narrow = narrow
    wide = wide
    Callers = {p1, p2, p3}
    RequestIds = {q1, q2, q3, q4}
    Manifests = {narrow, wide}
    Concurrency <- ConcurrencyMC
    MaxClaims = 3
    NoManifest = NoManifest
    MaxStarts = 2
    MaxProbes = 2
SYMMETRY Symmetry
INVARIANTS
    CallsAreCurrent
    DriftEndsReadiness
    TracesAreBacked
