\* An opened archive saved again with a file of the disk before its entries.
CONSTANTS
    FieldMod = 8
    IntLimit = 200
    EocdSize = 1
    ChunkSize = 4
    BufSize = 1
    Name <- MCName
    NameLength <- MCNameLength
    Byte <- MCByte
    Menu = {}
    LimitMenu = {}
    OldMenu = {"dir", "stored", "packed"}
    NameMenu = {}
    HugeMenu = {}
    MaxEntries = 0
    Changes <- MCNothing
    MaxFuse = 0
    Saves <- MCResaves
SPECIFICATION Spec
INVARIANT EverySavedArchiveReadsBack
