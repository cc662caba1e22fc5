------------------------------ MODULE ZipReader ------------------------------
(***************************************************************************)
(* What the library makes of an archive it opens: ZipFile::init() with its *)
(* two consistency checks (src/src/zipfile.cpp), the read() functions of   *)
(* the headers, and the content that ZipInputStreambuf returns             *)
(* (src/src/zipinputstreambuf.cpp, src/src/inflateinputstreambuf.cpp).     *)
(*                                                                         *)
(* Positions are offsets, as in the code: the cell at offset p of a file f *)
(* is f[p + 1].  A read that leaves the file, or finds another cell than   *)
(* the signature or the field it expects, fails.                           *)
(***************************************************************************)
EXTENDS ZipFormat

CONSTANT ChunkSize  \* the chunk_size of BackBuffer

ASSUME ChunkSizeAssumption == ChunkSize \in Nat \ {0}

\* The number of cells a header occupies, from the length fields it holds.
HeaderCells(h) == 1 + h.nlen + h.xlen + h.clen

\* A header of the given kind can be read at offset p.
ReadableHeader(f, p, kind) ==
    /\ 0 <= p /\ p < Len(f)
    /\ f[p + 1].k = kind
    /\ p + HeaderCells(f[p + 1].h) <= Len(f)

\* A BackBuffer reads the file from its end in chunks, each in the place of the
\* one before: how many were read before the one with the cell at offset p.
ChunksBehind(f, p) == (Len(f) - 1 - p) \div ChunkSize

\* Some cells from offset p on, none of which is in the buffer without the others.
InOneChunk(f, p, n) ==
    p + n <= Len(f) /\ ChunksBehind(f, p) = ChunksBehind(f, p + n - 1)

\* The offsets of the end of central directory structures that can be seen.
EocdOffsets(f) ==
    {p \in 0..Len(f)-1 : f[p + 1].k = "eocd" /\ InOneChunk(f, p, EocdSize)}

\* ZipFile::init() searches from the end of the file.
EocdOffset(f) == CHOOSE p \in EocdOffsets(f) : \A q \in EocdOffsets(f) : q <= p

Eocd(f) == f[EocdOffset(f) + 1]

\* Where the read of the i-th entry begins of the central directory that the
\* end of central directory e describes; -1 once a read has failed.
CentralOffsets(f, e) ==
    LET at[i \in 1..e.count + 1] ==
            IF i = 1 THEN e.offset
            ELSE IF ReadableHeader(f, at[i - 1], "central")
                 THEN at[i - 1] + HeaderCells(f[at[i - 1] + 1].h)
                 ELSE -1
    IN  at

\* ZipLocalEntry::isEqual(): the fields compared.  The local header has no
\* comment, so m_comment of the one read from it is empty; the extra fields
\* and the compressed sizes are not compared.
SameEntry(local, central) ==
    /\ local.name = central.name
    /\ central.clen = 0
    /\ local.dir = central.dir
    /\ local.size = central.size
    /\ local.method = central.method
    /\ local.crc = central.crc

\* The two consistency checks: the file holds the directory that e describes,
\* which is as long as it says, and local headers that agree with its entries.
Consistent(f, e) ==
    LET n == e.count
        at == CentralOffsets(f, e)
    IN  /\ \A i \in 1..n : ReadableHeader(f, at[i], "central")
        /\ at[n + 1] = e.offset + e.size
        /\ \A i \in 1..n :
            LET h == f[at[i] + 1].h
            IN  /\ ReadableHeader(f, h.offset, "local")
                /\ SameEntry(f[h.offset + 1].h, h)

\* ZipEndOfCentralDirectory::read(): the comment is in that chunk too.
EocdReadable(f) ==
    EocdOffsets(f) # {} /\ InOneChunk(f, EocdOffset(f), EocdSize + Eocd(f).clen)

\* ZipFile::init() accepts the archive.
Opens(f) == EocdReadable(f) /\ Consistent(f, Eocd(f))

\* The entries of the archive, in the order of the central directory.
CentralHeaders(f) ==
    LET at == CentralOffsets(f, Eocd(f))
    IN  [i \in 1..Eocd(f).count |-> f[at[i] + 1].h]

\* The ZipCentralDirectoryEntry object that read() makes of a header.
EntryRead(h) ==
    [name |-> h.name, dir |-> h.dir, method |-> h.method, level |-> 1,
     extra |-> h.xlen, comment |-> h.clen, timeOk |-> TRUE, size |-> h.size,
     csize |-> h.csize, crc |-> h.crc, offset |-> h.offset]

\* Where the data of the entry whose local header is at offset p begins.
DataOffset(f, p) == p + HeaderCells(f[p + 1].h)

\* ZipInputStreambuf over the local header at offset p: a stored entry is as
\* long as the size field says and may be any bytes of the archive; a deflated
\* one ends at the end marker.  NoContent is a read that throws or comes short.
NoContent == << "no content" >>

StoredContent(f, p) ==
    LET d == DataOffset(f, p)
        n == f[p + 1].h.size
    IN  IF d + n <= Len(f) /\ \A i \in d+1..d+n : f[i].k = "data"
        THEN [i \in 1..n |-> f[d + i].b] ELSE NoContent

DeflatedContent(f, p) ==
    LET d == DataOffset(f, p)
        ends == {q \in d..Len(f)-1 : f[q + 1].k = "zend"
                                        /\ \A i \in d+1..q : f[i].k = "zdata"}
    IN  IF ends = {} THEN NoContent
        ELSE LET n == (CHOOSE q \in ends : TRUE) - d
             IN  [i \in 1..n |-> f[d + i].b]

Content(f, p) ==
    IF f[p + 1].h.method = "STORED" THEN StoredContent(f, p)
                                    ELSE DeflatedContent(f, p)
=============================================================================
