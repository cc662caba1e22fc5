------------------------------ MODULE EntryTime ------------------------------
(***************************************************************************)
(* The time of an entry as it is set by a program, written with the other  *)
(* fields to the headers of an archive, read back and written again, and   *)
(* archives of which a byte changes meanwhile.                             *)
(***************************************************************************)
EXTENDS DosDateTime, Records

CONSTANTS
    Files,          \* the entries of files: record, data and modification time
    ArchiveComment, \* the comment of the archives
    DamagedTimes,   \* bound: the entries whose archives lose a byte
    Inputs          \* for each field of a date, what a program sets it to

\* updateEntryHeaderInfo() keeps the position behind the data in an int.
MaxData == 2147483647 - 30 - 2 * DigitMod

ASSUME FilesAssumption ==
    /\ Files \subseteq [record : EntryRecord, data : Seq(Octet), unix : Moment]
    /\ \A file \in Files : Len(file.data) <= MaxData
    /\ ArchiveComment \in Text
    /\ DOMAIN Inputs \subseteq DOMAIN SetterRange

VARIABLES
    date,       \* the DOSDateTime of the program, then that of the header
    unix,       \* m_unix_time of the entry
    entry,      \* the other members of the entry
    data,       \* the bytes stored for it
    archive,    \* the archive that was written
    damaged,    \* one of its bytes is not what was written
    stage,      \* who has the entry: "program", "entry" or "archive"
    thrown      \* the exception that ended it

vars == << date, unix, entry, data, archive, damaged, stage, thrown >>

Init ==
    /\ date = NotSet /\ archive = << >> /\ damaged = FALSE /\ thrown = "none"
    /\ \E file \in Files :
        /\ entry = file.record /\ data = file.data
        /\ \/ stage = "program" /\ unix = Epoch
           \/ stage = "entry" /\ unix = file.unix

\* One of the setters of DOSDateTime.
SetField(field, value) ==
    /\ stage = "program" /\ thrown = "none"
    /\ thrown' = IF value \in SetterRange[field] THEN "none" ELSE "InvalidException"
    /\ date' = IF thrown' = "none" THEN Set(date, field, value) ELSE date
    /\ UNCHANGED << unix, entry, data, archive, damaged, stage >>

\* FileEntry::setTime()
SetTime ==
    /\ stage = "program" /\ thrown = "none"
    /\ unix' \in UnixTimestamps(date)
    /\ stage' = "entry"
    /\ UNCHANGED << date, entry, data, archive, damaged, thrown >>

\* The entry is saved; a time without a date is refused.
Write ==
    /\ stage = "entry" /\ thrown = "none"
    /\ IF Representable(unix)
       THEN /\ date' = OfUnixTimestamp(unix)
            /\ archive' = ArchiveBytes(entry, Word(date'), data, ArchiveComment)
            /\ stage' = "archive" /\ thrown' = "none"
       ELSE thrown' = "InvalidException" /\ UNCHANGED << date, archive, stage >>
    /\ UNCHANGED << unix, entry, data, damaged >>

\* A byte of the archive changes on its medium.
Damage ==
    /\ stage = "archive" /\ thrown = "none" /\ ~damaged /\ unix \in DamagedTimes
    /\ \E i \in DOMAIN archive : archive' = [archive EXCEPT ![i] = (@ + 1) % 256]
    /\ damaged' = TRUE
    /\ UNCHANGED << date, unix, entry, data, stage, thrown >>

\* The archive is opened.  mktime() converts the times of both headers, and need
\* not answer twice the same.
Read ==
    /\ stage = "archive" /\ thrown = "none"
    /\ \E headers \in {Headers(archive)} :
           IF headers.thrown # "none" THEN thrown' = headers.thrown
           ELSE \E local \in UnixTimestamps(DateOf(headers.local["time"])),
                   central \in UnixTimestamps(DateOf(headers.central["time"])) :
                IF SameEntry(headers.local, headers.central, local, central)
                THEN /\ date' = DateOf(headers.central["time"]) /\ unix' = central
                     /\ entry' = EntryOf(headers.central) /\ thrown' = "none"
                ELSE thrown' = "FileCollectionException"
    /\ thrown' # "none" => UNCHANGED << date, unix, entry >>
    /\ stage' = "entry" /\ archive' = << >>
    /\ UNCHANGED << data, damaged >>

Next ==
    \/ \E field \in DOMAIN Inputs : \E value \in Inputs[field] : SetField(field, value)
    \/ SetTime \/ Write \/ Damage \/ Read

Spec == Init /\ [][Next]_vars

-----------------------------------------------------------------------------
(* Properties. *)

\* The fields fit their bits, and what an archive holds is a valid date.
TypeOK ==
    /\ date \in Date /\ unix \in Moment /\ entry \in EntryRecord
    /\ archive \in Seq(Octet) /\ data \in Seq(Octet) /\ damaged \in BOOLEAN
    /\ stage \in {"program", "entry", "archive"}
    /\ thrown \in {"none", "InvalidException", "IOException", "FileCollectionException"}
    /\ stage = "archive" => IsValid(date)

\* isValid() accepts a date, in whatever order its fields were set, exactly when
\* the calendar has that day.
ValidMeansInCalendar ==
    date.month \in 1..12 /\ date.mday > 0 =>
        (IsValid(date) <=>
            /\ CivilDate(LocalMoment(date).day)
                = [year |-> date.year + 1980, month |-> date.month, mday |-> date.mday]
            /\ date.second < 30 /\ date.minute < 60 /\ date.hour < 24)

SkippedByTheClock(local) == \A t \in Mktime(local) : Localtime(t) # local

ShownTwice(local) == \A t \in {Plus(local, -Standard), Plus(local, -Standard - 3600)} :
                        Localtime(t) = local

\* A date that was read is written as it was, however often an archive is read
\* and written: neither the rounding nor the hour that occurs twice makes it
\* drift.  Only a date the local clock never showed moves.
DatesDoNotDrift ==
    [][Write /\ IsValid(date) /\ ~SkippedByTheClock(LocalMoment(date))
            => date' = date /\ thrown' = "none"]_vars

\* The time an archive may give back for the one it was written for: the next even
\* second, or an hour off when the local clock showed that time twice.
IsTimeOf(time, written) ==
    \/ time = RoundedUp(written)
    \/ /\ Localtime(time) = Localtime(RoundedUp(written))
       /\ time \in {Plus(RoundedUp(written), 3600), Plus(RoundedUp(written), -3600)}

\* What init() accepts is the entry that was saved, its name, kind, method, size,
\* CRC and time, even when a byte of the archive has changed: both headers hold
\* them and are compared.  It accepts every undamaged archive of an entry without
\* a comment, but for one whose time the local clock showed twice.
ArchivesReadBack ==
    [][Read =>
        IF thrown' = "none"
        THEN /\ \A member \in {"name", "dir", "method", "crc", "size"} :
                    entry'[member] = entry[member]
             /\ IsTimeOf(unix', unix)
             /\ damaged \/ entry'.extra = entry.extra
        ELSE damaged \/ entry.comment # << >> \/ ShownTwice(LocalMoment(date))]_vars
=============================================================================
