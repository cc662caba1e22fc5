----------------------------- MODULE MCEntryTime -----------------------------
(* Every day of the years around which the rules of the calendar change, at  *)
(* the edges of the day and at those of summer time, eight hours west of     *)
(* Greenwich.                                                                *)
EXTENDS EntryTime

MCStandard == -28800
MCSummerStart == [day |-> YearStart(2000) + 92, sec |-> 36000]
MCSummerEnd == [day |-> YearStart(2000) + 302, sec |-> 32400]

MCYears == {1980, 1999, 2000, 2001, 2004, 2099, 2100, 2101, 2107}
MCDays ==
    UNION {YearStart(y) - 1 .. YearStart(y + 1) : y \in MCYears}
MCMoments ==
    [day : MCDays, sec : {0, 28798, 28799, 28800, 28829, 86399}]
    \cup {Plus(t, s) : t \in {MCSummerStart, MCSummerEnd},
                       s \in {-7200, -3601, -3600, -1801, -1, 0, 1, 1800, 3599, 3600}}

MCFile == [name |-> << 97, 46 >>, dir |-> FALSE, method |-> 8,
           crc |-> << 258, 65535 >>, size |-> 300, extra |-> << 1 >>,
           comment |-> << >>]
MCDirectory == [name |-> << 100 >>, dir |-> TRUE, method |-> 0, crc |-> << 0, 0 >>,
                size |-> 0, extra |-> << >>, comment |-> << >>]
MCNoted == [MCFile EXCEPT !.comment = << 99 >>]

MCDamagedTimes ==
    {Plus(MCSummerEnd, s) : s \in {-7200, -3600}} \cup {[day |-> YearStart(2001), sec |-> 0]}
MCFiles ==
    [record : {MCFile}, data : {<< 120, 99, 0 >>}, unix : MCMoments]
    \cup [record : {MCDirectory}, data : {<< >>}, unix : MCDamagedTimes]
    \cup [record : {MCNoted}, data : {<< 120 >>}, unix : MCDamagedTimes]
MCArchiveComment == << 80, 75 >>

MCInputs ==
    [second |-> {-1, 1, 59, 60}, minute |-> {30, 60}, hour |-> {1, 2, 24},
     mday |-> {0, 2, 28, 29, 30, 31, 32}, month |-> {0, 2, 4, 10, 12, 13},
     year |-> {1979, 1980, 2000, 2001, 2100, 2107, 2108}]
=============================================================================
