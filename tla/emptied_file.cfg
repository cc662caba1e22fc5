\* A file that was emptied after it was listed.
CONSTANTS
    FieldMod = 3
    IntLimit = 200
    EocdSize = 1
    ChunkSize = 4
    BufSize = 1
    Name <- MCName
    NameLength <- MCNameLength
    Byte <- MCByte
    Menu = {"stored", "level0"}
    LimitMenu = {}
    OldMenu = {}
    NameMenu = {}
    HugeMenu = {}
    MaxEntries = 2
    Changes <- MCEmptied
    MaxFuse = 0
    Saves <- MCPlain
SPECIFICATION Spec
INVARIANT EverySavedArchiveReadsBack
