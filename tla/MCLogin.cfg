SPECIFICATION LoginSpec
CONSTANTS
    s1 = s1
    s2 = s2
    Session = {s1, s2}
    Base <- MCBase
    Setups <- MCSetups
    Earlier = earlier
    NoFile = noFile
INVARIANTS
    LoginTypeOK
    SignedInMeansStored
    FailureLeavesFile
    KeyStaysHome
    RefusedMeansNoKey
PROPERTIES
    InterruptEndsLogin
    ExpiryEndsLogin
