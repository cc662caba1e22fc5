\* Every way an entry is compressed, files that changed, vanished or cannot be
\* opened, an output that fails at any write and may work again later; lengths
\* and counts just below, at and above what the fields hold.
CONSTANTS
    FieldMod = 3
    IntLimit = 30
    EocdSize = 1
    ChunkSize = 2
    BufSize = 1
    Name <- MCName
    NameLength <- MCNameLength
    Byte <- MCByte
    Menu = {"dir", "stored", "packed", "packed9"}
    LimitMenu = {"dir", "empty", "level0", "extra", "extra17", "wordy", "old",
                 "zempty", "extra16", "noted"}
    OldMenu = {"dir", "stored", "packed"}
    NameMenu = {"name15", "name16", "name17", "dir15", "packed"}
    HugeMenu = {"stored", "packed"}
    MaxEntries = 3
    Changes <- MCEmptied
    MaxFuse = 20
    Saves <- MCSaves
SPECIFICATION Spec
INVARIANTS
    TypeOK
    SavedArchiveReadsBack
    PersistentFaultReported
    NoInternalError
    NeverTerminates
    AcceptsWhatFits
PROPERTIES
    CommittedBytesFrozen
    ImplementsArchive
