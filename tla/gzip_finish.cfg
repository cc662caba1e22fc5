\* What finish() leaves in the file.
CONSTANTS
    FieldMod = 8
    IntLimit = 16
    EocdSize = 1
    BufSize = 2
    MaxPut = 5
    MaxFinish = 2
    Fuses <- MCReliable
    Name <- MCName
    NameLength <- MCNameLength
    Byte <- MCByte
SPECIFICATION Spec
INVARIANT FinishCompletes
