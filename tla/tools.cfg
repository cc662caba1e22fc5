CONSTANTS
    Arg <- MCArg
    Dashed <- MCDashed
    Atoi <- MCAtoi
    ZipName <- MCZipNameOf
    BaseName <- MCBaseName
    SizeMod = 1000
    StartMod = 4
    Listings <- MCListings
    Sizes <- MCSizes
    FirstFiles <- MCFirstFiles
    Sessions <- MCSessions
SPECIFICATION Spec
INVARIANTS
    TypeOK
    OutputKept
    SavedAsAsked
    EmbeddedReadsBack
