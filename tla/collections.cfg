CONSTANTS
    Var = {p, q}
    Name <- MCName
    Kind <- MCKind
    BaseName <- MCBaseName
    Children <- MCChildren
    Paths <- MCDirectory
    Added <- MCAdded
    ArchiveNames <- MCArchiveNames
    Limits <- MCLimits
    MethodChoices <- MCMethodChoices
    LevelChoices <- MCLevelChoices
    MaxNesting = 2
    MaxKids = 2
    MaxDepth = 2
    MaxSteps = 4
SYMMETRY MCSymmetry
SPECIFICATION Spec
INVARIANTS
    TypeOK
    NoHalfListing
    FirstMatchWins
    StreamOfFullName
    RetryRepairs
PROPERTY
    CopiesAreIndependent
CHECK_DEADLOCK FALSE
