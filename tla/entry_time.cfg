CONSTANTS
    Standard <- MCStandard
    SummerStart <- MCSummerStart
    SummerEnd <- MCSummerEnd
    Files <- MCFiles
    ArchiveComment <- MCArchiveComment
    DamagedTimes <- MCDamagedTimes
    Inputs <- MCInputs
SPECIFICATION Spec
INVARIANTS
    TypeOK
    ValidMeansInCalendar
PROPERTIES
    DatesDoNotDrift
    ArchivesReadBack
CHECK_DEADLOCK FALSE
