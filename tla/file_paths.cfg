CONSTANTS
    Char = {"/", "a", "b"}
    Separator = "/"
    Object = {f, g}
    Strings <- MCStrings
    File <- MCFile
    Kinds = {"nothing", "regular", "directory"}
    MaxLength = 5
SYMMETRY MCSymmetry
SPECIFICATION Spec
INVARIANTS
    TypeOK
    AnswersForItsPath
    SumsAreNames
