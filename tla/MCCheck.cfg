CONSTANTS
    npm = npm
    six = six
    react = react
    extra = extra
    e1 = e1
    e2 = e2
    e3 = e3
    h1 = h1
    h2 = h2
    NoHash = NoHash
    Ecosystem <- MCEcosystem
    KnownEcosystem <- MCEcosystem
    Name <- MCName
    Hash <- MCHash
    Answer <- MCAnswer
    Entry <- MCEntry
    Baselines <- MCBaselines
    Projects <- MCProjects
    MaxConcurrentResolves = 1
SPECIFICATION CheckSpec
INVARIANTS
    CheckTypeOK
    CleanMeansVerified
    FindingHasEvidence
PROPERTIES
    GateSpec
    DeadlineEndsCheck
