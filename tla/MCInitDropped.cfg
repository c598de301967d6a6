CONSTANTS
    react = react
    six = six
    Six = Six
    v1 = v1
    v2 = v2
    h1 = h1
    h2 = h2
    j1 = j1
    j2 = j2
    Job = {j1, j2}
    Label = {}
    Unnamed = Unnamed
    NoTool = NoTool
    Tool <- MCTools
    Package <- MCPackage
    Normal <- MCNormal
    Version = {v1, v2}
    NoVersion = NoVersion
    Unpinned = Unpinned
    NoHash = NoHash
    Ecosystem <- MCEcosystem
    KnownEcosystem <- MCEcosystem
    Name <- MCName
    Hash <- MCHash
    Answer <- MCAnswer
    Projects <- MCImagesProject
    OtherDocs <- MCOtherDocs
SPECIFICATION InitSpec
INVARIANT
    NothingDroppedSilently
