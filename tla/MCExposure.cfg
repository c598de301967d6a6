SPECIFICATION ExposureSpec
CONSTANTS
    j1 = j1
    j2 = j2
    l1 = l1
    l2 = l2
    token = token
    key = key
    sock = sock
    home = home
    e1 = e1
    e2 = e2
    Job = {j1, j2}
    Label = {l1, l2}
    Unnamed = Unnamed
    NoTool = NoTool
    Tool <- MCTools
    Invocations <- MCInvocations
    Repositories <- MCRepositories
    Baselines <- MCBaselines
    Entry = {e1, e2}
    EnvName <- MCEnvName
    Environments <- MCEnvironments
    WordsOf <- MCWordsOf
    SecretToken <- MCSecretToken
    KnownSafe <- MCKnownSafe
    Profile <- MCProfile
INVARIANTS
    ExposureTypeOK
    PassMeansLookedAt
    ScopeMeansUnexposed
    ExposureExplained
    FindingSurvives
    SanitizedExactly
PROPERTIES
    ContextEndsExposure
