\* Archives between 2^31 and 2^32 bytes.
CONSTANTS
    FieldMod = 8
    IntLimit = 4
    EocdSize = 1
    ChunkSize = 4
    BufSize = 1
    Name <- MCName
    NameLength <- MCNameLength
    Byte <- MCByte
    Menu = {"stored", "level0"}
    LimitMenu = {}
    OldMenu = {}
    NameMenu = {}
    HugeMenu = {}
    MaxEntries = 2
    Changes <- MCNothing
    MaxFuse = 0
    Saves <- MCPlain
SPECIFICATION Spec
INVARIANT RejectsOnlyTooLarge
