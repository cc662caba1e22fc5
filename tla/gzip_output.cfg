\* Every life of a GZIP stream over outputs that fail anywhere or never.
CONSTANTS
    FieldMod = 8
    IntLimit = 16
    EocdSize = 1
    BufSize = 2
    MaxPut = 5
    MaxFinish = 2
    Fuses <- MCFuses
    Name <- MCName
    NameLength <- MCNameLength
    Byte <- MCByte
SPECIFICATION Spec
INVARIANTS
    TypeOK
    InOrder
    HeaderFirst
