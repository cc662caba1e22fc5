---------------------------- MODULE MCSaveArchive ----------------------------
(***************************************************************************)
(* Small instances of SaveArchive for TLC.  The menu of entries has one    *)
(* entry for each way the code treats an entry; a listing is a sequence of *)
(* different entries of the menu.                                          *)
(***************************************************************************)
EXTENDS SaveArchive, SequencesExt

CONSTANTS
    Menu,       \* the names of the entries listings are made of
    LimitMenu,  \* those that are at a limit of a field
    OldMenu,    \* those that opened archives are made of
    NameMenu,   \* those whose names are at a limit, and others
    HugeMenu,   \* those whose files may have 2^32 bytes
    MaxEntries, \* the length of the longest listing
    Changes,    \* what else a file may be when it is copied
    MaxFuse     \* the output accepts fewer writes, or all

E(name, dir, method, level, size) ==
    [name |-> name, dir |-> dir, method |-> method, level |-> level,
     extra |-> 0, comment |-> 0, timeOk |-> TRUE, size |-> size]

MenuEntry ==
    [dir     |-> E("dir", TRUE, "STORED", 1, 1),
     stored  |-> E("stored", FALSE, "STORED", 1, 2),
     level0  |-> E("level0", FALSE, "DEFLATED", 0, 2),
     packed  |-> E("packed", FALSE, "DEFLATED", 1, 2),
     packed9 |-> E("packed9", FALSE, "DEFLATED", 9, 1),
     empty   |-> E("empty", FALSE, "STORED", 1, 0),
     zempty  |-> E("zempty", FALSE, "DEFLATED", 1, 0),
     extra   |-> [E("extra", FALSE, "STORED", 1, 1) EXCEPT !.extra = FieldMod - 1],
     extra16 |-> [E("extra16", FALSE, "STORED", 1, 1) EXCEPT !.extra = FieldMod],
     extra17 |-> [E("extra17", FALSE, "STORED", 1, 1) EXCEPT !.extra = FieldMod + 1],
     noted   |-> [E("noted", FALSE, "STORED", 1, 1) EXCEPT !.comment = 1],
     wordy   |-> [E("wordy", FALSE, "STORED", 1, 1) EXCEPT !.comment = FieldMod + 1],
     name15  |-> E("name15", FALSE, "STORED", 1, 1),
     name16  |-> E("name16", FALSE, "STORED", 1, 1),
     name17  |-> E("name17", FALSE, "STORED", 1, 1),
     dir15   |-> E("dir15", TRUE, "STORED", 1, 1),
     new     |-> E("new", FALSE, "STORED", 1, 2),
     old     |-> [E("old", FALSE, "STORED", 1, 1) EXCEPT !.timeOk = FALSE]]

MCName == DOMAIN MenuEntry
MCNameLength ==
    [n \in MCName |-> CASE n \in {"name15", "dir15"} -> FieldMod - 1
                        [] n = "name16" -> FieldMod
                        [] n = "name17" -> FieldMod + 1
                        [] OTHER -> 1]
MCByte == {"a", "b"}

\* All sequences of different entries of a menu, of some length.
ListingsOf(menu, max) ==
    UNION {{[i \in 1..n |-> MenuEntry[p[i]]] :
                p \in {q \in [1..n -> menu] : IsInjective(q)}} :
            n \in 0..max}

\* One byte, and two bytes, which is more than a put area of one byte holds.
Filled == [state : {"file"}, bytes : {<< "a" >>, << "b", "a" >>}]
EmptyFile == [state |-> "file", bytes |-> << >>]
Missing == [state |-> "missing", bytes |-> << >>]
Throws == [state |-> "throws", bytes |-> << >>]

MCNothing == {}
MCEmptied == {Missing, EmptyFile}

\* Only the files a listing names matter.
Turnouts(l, files) ==
    {c \in [DOMAIN l -> files \cup {Missing}] :
        \A i \in DOMAIN l : IF MustCopy(l[i]) THEN c[i] \in files ELSE c[i] = Missing}

FilesOf(l, c) ==
    [n \in MCName |-> IF \E i \in DOMAIN l : l[i].name = n
                      THEN c[CHOOSE i \in DOMAIN l : l[i].name = n] ELSE Missing]

DiskOf(l, c) == [files |-> FilesOf(l, c), archive |-> << >>, start |-> 0]

Saving(listings, files, comments, fuses, shorts) ==
    UNION {[listing : {l}, disk : {DiskOf(l, c) : c \in Turnouts(l, files)},
            comment : comments, fuse : fuses, short : shorts] : l \in listings}

AnyFile == Filled \cup {Throws} \cup Changes

\* The output fails at any write and takes some of it, or all of the rest.
MCFaults ==
    Saving(ListingsOf(Menu, MaxEntries), AnyFile, {1}, {-1} \cup 0..MaxFuse-1, {0, 1})

\* The output works; lengths and counts around what the fields hold.
MCLimits ==
    Saving(ListingsOf(LimitMenu, MaxEntries), Filled \cup {Missing},
           {0, FieldMod - 1, FieldMod}, {-1}, {0})

\* The same with lengths of names.
MCNames == Saving(ListingsOf(NameMenu, 2), Filled, {0}, {-1}, {0})

\* Files around 2^32 bytes.
Huge == {[state |-> "file", bytes |-> [i \in 1..n |-> "a"]] :
            n \in WordMod - 1..WordMod + 1}

MCHuge ==
    UNION {[listing : {l},
            disk : {DiskOf(l, c) : c \in [DOMAIN l -> Filled \cup Huge]},
            comment : {0}, fuse : {-1}, short : {0}] : l \in ListingsOf(HugeMenu, 2)}

\* The entries of an opened archive and what they hold.  The archive is laid out
\* here, for whatever the streambuf of SaveArchive writes.
OldBytes(e) == IF MustCopy(e) THEN << "a", "b" >> ELSE << >>
OldData(e) ==
    IF EffectiveLevel(e) = 0 THEN StoredCells(OldBytes(e))
                             ELSE DeflatedCells(OldBytes(e)) \o << [k |-> "zend"] >>
OldEntry(e, offset) ==
    [CopyEntry(e) EXCEPT !.size = Len(OldBytes(e)), !.csize = Len(OldData(e)),
                         !.crc = OldBytes(e), !.offset = offset]
OldArchive(l) ==
    LET offset[i \in 1..Len(l) + 1] ==
            IF i = 1 THEN 0
            ELSE offset[i - 1] + LocalHeaderSize(l[i - 1]) + Len(OldData(l[i - 1]))
        entry(i) == OldEntry(l[i], offset[i])
        central == FlattenSeq([i \in DOMAIN l |-> CentralCells(entry(i))])
    IN  FlattenSeq([i \in DOMAIN l |-> LocalCells(entry(i)) \o OldData(l[i])])
            \o central \o EocdCells(Len(l), Len(central), offset[Len(l) + 1], 0)
OldEntries(f) == [i \in DOMAIN CentralHeaders(f) |-> EntryRead(CentralHeaders(f)[i])]

\* setMethod() of the collection that opened the archive
WithMethod(l, method) ==
    [i \in DOMAIN l |-> IF l[i].dir THEN l[i] ELSE [l[i] EXCEPT !.method = method]]

\* An opened archive, embedded or not, is saved again: as it is, with a file of
\* the disk before or behind its entries, or with another method.
Resaving(f, start) ==
    LET l == OldEntries(f)
        new == << MenuEntry["new"] >>
    IN  [listing : {l, new \o l, l \o new,
                    WithMethod(l, "STORED"), WithMethod(l, "DEFLATED")},
         disk : {[files |-> FilesOf(new, << c >>),
                  archive |-> Repeat("comment", start) \o f,
                  start |-> start] : c \in Filled},
         comment : {0}, fuse : {-1}, short : {0}]

MCResaves ==
    UNION {Resaving(OldArchive(l), start) : l \in ListingsOf(OldMenu, 2), start \in {0, 2}}

MCSaves == MCFaults \cup MCLimits \cup MCNames \cup MCHuge \cup MCResaves

\* The output works and nothing is at a limit.
MCPlain == Saving(ListingsOf(Menu, MaxEntries), AnyFile, {0}, {-1}, {0})
=============================================================================
