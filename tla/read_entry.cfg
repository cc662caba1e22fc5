\* Every entry of intact, damaged and replaced archives, read to the end and on.
CONSTANTS
    FieldMod = 8
    IntLimit = 200
    EocdSize = 1
    ChunkSize = 4
    BufSize = 2
    Capacity = 2
    InCapacity = 3
    MaxClears = 1
    Name <- MCName
    NameLength <- MCNameLength
    Byte <- MCByte
    Readings <- MCReadings
SPECIFICATION FairSpec
INVARIANTS
    TypeOK
    NothingLost
    EofMeansEnd
PROPERTIES
    IsByteStream
    ReadingEnds
