\* Intact, embedded and damaged archives, and ones that lie across the chunks.
CONSTANTS
    FieldMod = 8
    IntLimit = 200
    EocdSize = 2
    BufSize = 1
    ChunkSize = 4
    Name <- MCName
    NameLength <- MCNameLength
    Byte <- MCByte
    Menu = {"dir", "stored", "packed"}
    MaxItems = 2
    Comments = {0, 2}
    Openings <- MCOpenings
SPECIFICATION FairSpec
INVARIANTS
    TypeOK
    BufferIsWindow
    NothingMissed
    OpensWhatIsWellFormed
    ContentsReadBack
PROPERTIES
    SearchSkipsNothing
    Terminates
