CONSTANTS
    Writer = {w1, w2, w3}
    Reader = {r1}
    Old = Old
    NoFile = NoFile
SPECIFICATION StoreSpec
INVARIANTS
    StoreTypeOK
    NeverTruncated
PROPERTY
    RegisterSpec
SYMMETRY StoreSymmetry
