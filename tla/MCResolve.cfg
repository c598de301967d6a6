CONSTANTS
    npm = npm
    pypi = pypi
    helm = helm
    six = six
    react = react
    h1 = h1
    NoHash = NoHash
    Ecosystem <- MCEcosystem
    KnownEcosystem <- MCKnownEcosystem
    Name <- MCName
    Hash <- MCHash
    Answer <- MCAnswer
    MaxConcurrentResolves = 2
SPECIFICATION MCSpec
INVARIANTS
    ResolveTypeOK
    JoinComplete
    AnswerIntegrity
    SlotsAccounted
PROPERTIES
    DeadlineEndsRun
    RunEnds
