SPECIFICATION MCSpec
CONSTANTS
    Subjects <- SubjectsMC
    Official <- OfficialMC
    MaxQueries = 8
    Tasks <- TasksMC
    Dossiers <- DossiersMC
    Entries = {"validate_ingress", "approval_gate"}
    Lengths = {1, 16}
    MaxManifests = 2
    EventHeads = {h1, h2}
    Manifests = {m1, m2}
    fixture = fixture
    other = other
    default = default
    Processes = {fixture, other}
    Attestation = "execution_attestation"
    Artifacts <- ArtifactsMC
    Parents <- ParentsMC
    Refs <- RefsMC
    Verdict <- VerdictMC
    About <- AboutMC
    Type <- TypeMC
    Schema <- SchemaMC
    Payload <- PayloadMC
    Derived <- DerivedMC
    Registry <- RegistryMC
    Legacy <- LegacyMC
    OldFiles <- OldFilesMC
    MaxDamage = 1
INVARIANT
    ApprovedIsValidated
CHECK_DEADLOCK FALSE
