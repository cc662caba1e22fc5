------------------------------ MODULE ZipFormat ------------------------------
(***************************************************************************)
(* The layout of a Zip archive as the library writes and reads it: local   *)
(* headers, central directory headers and the end of central directory     *)
(* (src/src/ziplocalentry.cpp, src/src/zipcentraldirectoryentry.cpp,       *)
(* src/src/zipendofcentraldirectory.cpp), and the file as the sequence of  *)
(* cells a std::streambuf stores at its put position.                      *)
(*                                                                         *)
(* A cell abstracts a run of bytes.  The fixed part of a header is one     *)
(* cell that carries the fields, the file name among them; every unit of   *)
(* the name's length, a directory's trailing separator, every unit of      *)
(* extra field and of comment, every stored byte, every deflated byte and  *)
(* the deflate end marker are one cell each.  The widths of the format are *)
(* scaled: FieldMod stands for 2^16, WordMod for 2^32.  A CRC-32 is the    *)
(* sequence of the bytes it was computed over.                             *)
(***************************************************************************)
EXTENDS Integers, Sequences

CONSTANTS
    FieldMod,   \* 2^16: modulus of the uint16_t fields of the headers
    IntLimit,   \* 2^31: first value that a C++ int cannot hold
    EocdSize,   \* the cells of an end of central directory without its comment
    Name,       \* the file names
    NameLength, \*   and their lengths
    Byte        \* the values a byte of file content takes

ASSUME FieldModAssumption == FieldMod \in Nat /\ FieldMod > 1
ASSUME IntLimitAssumption == IntLimit \in Nat /\ IntLimit > 1
ASSUME EocdSizeAssumption == EocdSize \in Nat \ {0}
ASSUME NameLengthAssumption == NameLength \in [Name -> Nat]

WordMod == 2 * IntLimit     \* 2^32: modulus of the uint32_t fields

-----------------------------------------------------------------------------
(* Entries. *)

Method == {"STORED", "DEFLATED"}

\* What a collection lists: size is the size found by stat() (or set by hand),
\* level 0 is COMPRESSION_LEVEL_NONE, extra and comment are lengths and timeOk
\* says whether the time is one that a DOS date can hold (1980 to 2107).
SourceEntry ==
    [name : Name, dir : BOOLEAN, method : Method, level : Nat, extra : Nat,
     comment : Nat, timeOk : BOOLEAN, size : Nat]

\* A ZipCentralDirectoryEntry: the members of FileEntry and ZipLocalEntry.
Entry ==
    [name : Name, dir : BOOLEAN, method : Method, level : Nat, extra : Nat,
     comment : Nat, timeOk : BOOLEAN, size : Nat,
     csize : Nat, crc : Seq(Byte), offset : Nat]

\* std::make_shared<ZipCentralDirectoryEntry>(*entry)
CopyEntry(e) ==
    [name |-> e.name, dir |-> e.dir, method |-> e.method, level |-> e.level,
     extra |-> e.extra, comment |-> e.comment, timeOk |-> e.timeOk,
     size |-> e.size, csize |-> 0, crc |-> << >>, offset |-> 0]

\* dynamic_cast<ZipCentralDirectoryEntry *>: an entry of an opened archive.
IsCentral(e) == "offset" \in DOMAIN e

\* ZipOutputStream::putNextEntry(): what the archive keeps is a copy, unless the
\* caller gave it an entry of an opened archive, which it then shares.
AsCentral(e) == IF IsCentral(e) THEN e ELSE CopyEntry(e)

\* FileEntry::getMethod() and getLevel(): a directory is never compressed.
\* The streambuf asks for NONE when the method is STORED.
EffectiveLevel(e) == IF e.dir \/ e.method = "STORED" THEN 0 ELSE e.level

\* The compression method both write() functions put in the header.
HeaderMethod(e) == IF e.level = 0 THEN "STORED" ELSE e.method

\* The length of the name as it is written: with a separator for a directory.
WrittenName(e) == NameLength[e.name] + (IF e.dir THEN 1 ELSE 0)

LocalHeaderSize(e) == 1 + WrittenName(e) + e.extra

CentralHeaderSize(e) == LocalHeaderSize(e) + e.comment

-----------------------------------------------------------------------------
(* Cells. *)

PadKind == {"name", "extra", "comment", "eocdRest"}

Header ==
    [name : Name, dir : BOOLEAN, method : Method, size : Nat, csize : Nat,
     crc : Seq(Byte), nlen : Nat, xlen : Nat, clen : Nat, offset : Nat]

Cell ==
    [k : {"local", "central"}, h : Header]
        \cup [k : {"data", "zdata"}, b : Byte]
        \cup [k : PadKind \cup {"zend"}]
        \cup [k : {"eocd"}, count : Nat, size : Nat, offset : Nat, clen : Nat]

Repeat(kind, n) == [i \in 1..n |-> [k |-> kind]]
StoredCells(bytes) == [i \in 1..Len(bytes) |-> [k |-> "data", b |-> bytes[i]]]
DeflatedCells(bytes) == [i \in 1..Len(bytes) |-> [k |-> "zdata", b |-> bytes[i]]]

\* The fields the headers hold: 16 bits of a length, 32 of a size or offset.
HeaderOf(e, clen, offset) ==
    [name |-> e.name, dir |-> e.dir, method |-> HeaderMethod(e),
     size |-> e.size % WordMod, csize |-> e.csize % WordMod, crc |-> e.crc,
     nlen |-> WrittenName(e) % FieldMod, xlen |-> e.extra % FieldMod,
     clen |-> clen % FieldMod, offset |-> offset % WordMod]

LocalCells(e) ==
    << [k |-> "local", h |-> HeaderOf(e, 0, 0)] >>
        \o Repeat("name", WrittenName(e)) \o Repeat("extra", e.extra)

CentralCells(e) ==
    << [k |-> "central", h |-> HeaderOf(e, e.comment, e.offset)] >>
        \o Repeat("name", WrittenName(e)) \o Repeat("extra", e.extra)
        \o Repeat("comment", e.comment)

EocdCells(count, size, offset, clen) ==
    << [k |-> "eocd", count |-> count % FieldMod, size |-> size % WordMod,
        offset |-> offset % WordMod, clen |-> clen % FieldMod] >>
        \o Repeat("eocdRest", EocdSize - 1) \o Repeat("comment", clen)

\* The guards of the three write() functions.  The two entry guards compare
\* with 0x10000 itself, and the name without the separator; the one of the end
\* of central directory compares with 65535.
LocalWritable(e) ==
    /\ NameLength[e.name] <= FieldMod
    /\ e.extra <= FieldMod
    /\ e.csize < WordMod
    /\ e.size < WordMod
    /\ e.timeOk

CentralWritable(e) ==
    /\ LocalWritable(e)
    /\ e.comment <= FieldMod
    /\ e.offset < WordMod

\* Bug: off by one.
EocdWritableOneLess(count, size, offset, clen) ==
    /\ clen < FieldMod - 1
    /\ count < FieldMod
    /\ size < WordMod
    /\ offset < WordMod

EocdWritable(count, size, offset, clen) ==
    /\ clen < FieldMod
    /\ count < FieldMod
    /\ size < WordMod
    /\ offset < WordMod

-----------------------------------------------------------------------------
(* Files and the width of C++ integers. *)

\* The file after cells are stored from put position pos on (pos <= Len(f)).
Overwrite(f, pos, cells) ==
    [i \in 1..(IF pos + Len(cells) > Len(f) THEN pos + Len(cells) ELSE Len(f))
        |-> IF pos < i /\ i <= pos + Len(cells) THEN cells[i - pos] ELSE f[i]]

\* int const curr_pos(os.tellp()): the position converted to a 32 bit int.
Int32(p) == IF p < IntLimit THEN p ELSE ((p + IntLimit) % WordMod) - IntLimit

\* A difference stored in a size_t: a negative one becomes a huge number, and
\* all the code does with it is compare it with 2^32.
SizeT(n) == IF n < 0 THEN WordMod ELSE n
=============================================================================
