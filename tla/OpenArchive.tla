----------------------------- MODULE OpenArchive -----------------------------
(***************************************************************************)
(* Opening an archive: ZipFile::openEmbeddedZipFile() and ZipFile::init()  *)
(* (src/src/zipfile.cpp), the BackBuffer through which the end of central  *)
(* directory is searched from the end of the file in chunks                *)
(* (src/src/backbuffer.cpp), the VirtualSeeker that hides what surrounds   *)
(* an embedded archive (src/src/virtualseeker.cpp), and the stream that    *)
(* getInputStream() then opens on an entry.                                *)
(*                                                                         *)
(* A file is a sequence of the cells of ZipFormat.  The last cell of a     *)
(* file made by appendzip holds the offset at which its archive starts.    *)
(***************************************************************************)
EXTENDS ZipReader

CONSTANT Openings   \* what is opened: a file, how, and what it should hold

\* embedded: opened by openEmbeddedZipFile(), which finds start in the file;
\* otherwise start and end are the offsets given to the constructor.
ASSUME OpeningsAssumption ==
    \A o \in Openings : /\ o.file \in Seq(Cell \cup [k : {"start"}, at : Nat])
                        /\ o.embedded \in BOOLEAN
                        /\ o.start \in Nat
                        /\ o.end \in Nat

\* What lies between two virtual ends of a file.
Between(f, from, to) == SubSeq(f, from + 1, Len(f) - to)

\* What an intact opening is: between the ends given, or those that appendzip
\* left in the last cell, lies an archive that alone would open, and whose
\* entries would read back with the contents, whatever stands around it.
Holds(o, from, to) ==
    LET archive == Between(o.file, from, to)
        headers == CentralHeaders(archive)
    IN  /\ from + to <= Len(o.file)
        /\ Opens(archive)
        /\ Len(o.contents) = Eocd(archive).count
        /\ \A i \in 1..Eocd(archive).count :
            /\ Content(archive, headers[i].offset) = o.contents[i]
            /\ o.contents[i] # NoContent

Intact(o) ==
    IF o.embedded
    THEN LET last == o.file[Len(o.file)]
         IN  o.file # << >> /\ last.k = "start" /\ Holds(o, last.at, 1)
    ELSE Holds(o, o.start, o.end)

ASSUME IntactAssumption == \A o \in Openings : o.intact => Intact(o)

VARIABLES
    opening,    \* what is being opened
    start,      \* m_vs.m_start_offset
    end,        \* m_vs.m_end_offset
    filePos,    \* m_file_pos of the BackBuffer
    chunkSize,  \* m_chunk_size of the BackBuffer
    buf,        \* the bytes of the BackBuffer
    readP,      \* read_p of init()
    eocd,       \* the end of central directory found
    tell,       \* the position in the file of the stream that is read
    entries,    \* m_entries
    num,        \* the index of the loops over the entries
    pc,
    result

vars == << opening, start, end, filePos, chunkSize, buf, readP, eocd, tell,
           entries, num, pc, result >>

Pc == {"seek", "back", "search", "central", "check", "done"}
Result == {"opening", "opened", "IOException", "FileCollectionException"}

file == opening.file

NoEocd == [k |-> "eocd", count |-> 0, size |-> 0, offset |-> 0, clen |-> 0]

Init ==
    /\ opening \in Openings
    /\ start = opening.start
    /\ end = opening.end
    /\ filePos = 0
    /\ chunkSize = ChunkSize
    /\ buf = << >>
    /\ readP = -1
    /\ eocd = NoEocd
    /\ tell = 0
    /\ entries = << >>
    /\ num = 1
    /\ pc = IF opening.embedded THEN "seek" ELSE "back"
    /\ result = "opening"

\* An exception leaves the constructor.
Fail(e) ==
    /\ pc' = "done"
    /\ result' = e

\* What the last four bytes of the file say: any number, unless appendzip
\* wrote them (a number beyond the file is as bad as one at its end).
StartFields ==
    IF file[Len(file)].k = "start" THEN {file[Len(file)].at} ELSE 0..Len(file)

\* openEmbeddedZipFile()
ReadStart ==
    /\ pc = "seek"
    /\ IF file = << >>
       THEN Fail("IOException") /\ UNCHANGED << start, end >>
       ELSE /\ start' \in StartFields
            /\ end' = 1
            /\ pc' = "back"
            /\ UNCHANGED result
    /\ UNCHANGED << opening, filePos, chunkSize, buf, readP, eocd, tell, entries,
                    num >>

\* BackBuffer(): seeks to the virtual end; the position there is the virtual
\* size, negative when the offsets exclude each other.
OpenBackBuffer ==
    /\ pc = "back"
    /\ IF end > Len(file) \/ Len(file) - end < start
       THEN Fail("IOException") /\ UNCHANGED filePos
       ELSE /\ filePos' = Len(file) - end - start
            /\ pc' = "search"
            /\ UNCHANGED result
    /\ UNCHANGED << opening, start, end, chunkSize, buf, readP, eocd, tell,
                    entries, num >>

\* Bug: the chunk is not cut at the front of the file.
NextChunkUncut == chunkSize

\* How much the next chunk is.
NextChunk == IF filePos < chunkSize THEN filePos ELSE chunkSize

\* Bug: the result tells whether the stream is good.
NoMoreWhenBad(c) == FALSE

\* readChunk() returns zero.
NoMore(c) == c = 0

\* Bug: the read pointer is set to the end of the chunk.
RepositionToEnd(c) == c

\* read_pointer += m_chunk_size
Reposition(c) == readP + c

\* readChunk(): zipRead() resizes the buffer to the size of the chunk, so what
\* was in it is gone, and throws when the file ends before the chunk.
ReadChunk ==
    /\ pc = "search"
    /\ readP < 0
    /\ LET c == NextChunk
           at == filePos - c
           inFile == start + at >= 0 /\ start + at + c <= Len(file)
       IN  /\ chunkSize' = c
           /\ filePos' = at
           /\ buf' = IF inFile /\ c > 0
                     THEN SubSeq(file, start + at + 1, start + at + c) ELSE << >>
           /\ readP' = IF inFile THEN Reposition(c) ELSE readP
           /\ IF ~inFile THEN Fail("IOException")
              ELSE IF NoMore(c) THEN Fail("FileCollectionException")
              ELSE UNCHANGED << pc, result >>
    /\ UNCHANGED << opening, start, end, eocd, tell, entries, num >>

\* Bug: one byte more is asked for.
SignatureWithComment ==
    Len(buf) - readP > EocdSize /\ buf[readP + 1].k = "eocd"

\* ZipEndOfCentralDirectory::read() sees its signature at read_p.
Signature == Len(buf) - readP >= EocdSize /\ buf[readP + 1].k = "eocd"

\* The comment is read from the buffer as well and has to be in it.
CommentInBuffer == readP + EocdSize + buf[readP + 1].clen <= Len(buf)

Scan ==
    /\ pc = "search"
    /\ readP >= 0
    /\ IF ~Signature
       THEN /\ readP' = readP - 1
            /\ UNCHANGED << eocd, tell, pc, result >>
       ELSE IF CommentInBuffer
       THEN /\ eocd' = buf[readP + 1]
            /\ tell' = start + buf[readP + 1].offset
            /\ pc' = "central"
            /\ UNCHANGED << readP, result >>
       ELSE Fail("IOException") /\ UNCHANGED << readP, eocd, tell >>
    /\ UNCHANGED << opening, start, end, filePos, chunkSize, buf, entries, num >>

\* ZipCentralDirectoryEntry::read() of the next entry.
ReadCentral ==
    /\ pc = "central"
    /\ num <= eocd.count
    /\ IF ReadableHeader(file, tell, "central")
       THEN /\ entries' = Append(entries, file[tell + 1].h)
            /\ tell' = tell + HeaderCells(file[tell + 1].h)
            /\ num' = num + 1
            /\ UNCHANGED << pc, result >>
       ELSE Fail("IOException") /\ UNCHANGED << entries, tell, num >>
    /\ UNCHANGED << opening, start, end, filePos, chunkSize, buf, readP, eocd >>

\* Bug: the position is the one in the file.
VtellgOfFile == tell

\* vtellg()
Vtellg == tell - start

\* Consistency check #1
CheckLayout ==
    /\ pc = "central"
    /\ num > eocd.count
    /\ IF eocd.offset + eocd.size = Vtellg
       THEN /\ pc' = "check"
            /\ num' = 1
            /\ UNCHANGED result
       ELSE Fail("FileCollectionException") /\ UNCHANGED num
    /\ UNCHANGED << opening, start, end, filePos, chunkSize, buf, readP, eocd,
                    tell, entries >>

\* Bug: the start of the embedded archive is not added.
EntryOffsetOfArchive(h) == h.offset

\* Where an entry is: what vseekg(.., std::ios::beg) seeks to, and the offset
\* getInputStream() opens the file at.
EntryOffset(h) == h.offset + start

\* Consistency check #2 of the next entry.
CheckEntry ==
    /\ pc = "check"
    /\ num <= Len(entries)
    /\ LET h == entries[num]
           p == EntryOffset(h)
       IN  IF ~ReadableHeader(file, p, "local")
           THEN Fail("IOException") /\ UNCHANGED << num, tell >>
           ELSE IF ~SameEntry(file[p + 1].h, h)
           THEN Fail("FileCollectionException") /\ UNCHANGED << num, tell >>
           ELSE /\ num' = num + 1
                /\ tell' = DataOffset(file, p)
                /\ UNCHANGED << pc, result >>
    /\ UNCHANGED << opening, start, end, filePos, chunkSize, buf, readP, eocd,
                    entries >>

\* m_valid = true
Opened ==
    /\ pc = "check"
    /\ num > Len(entries)
    /\ Fail("opened")
    /\ UNCHANGED << opening, start, end, filePos, chunkSize, buf, readP, eocd,
                    tell, entries, num >>

Step ==
    \/ ReadStart \/ OpenBackBuffer \/ ReadChunk \/ Scan
    \/ ReadCentral \/ CheckLayout \/ CheckEntry \/ Opened

Done == pc = "done" /\ UNCHANGED vars

Next == Step \/ Done

Spec == Init /\ [][Next]_vars

\* The constructor runs until it returns or throws.
FairSpec == Spec /\ WF_vars(Step)

-----------------------------------------------------------------------------
(* Properties. *)

\* The cells between the virtual ends.
View == Between(file, start, end)

\* The archive with what follows it: only the search stops at the virtual end.
Rest == Between(file, start, 0)

TypeOK ==
    /\ start \in Nat
    /\ end \in Nat
    /\ filePos \in Nat
    /\ chunkSize \in 0..ChunkSize
    /\ buf \in Seq(Cell \cup [k : {"start"}, at : Nat])
    /\ readP \in -1..ChunkSize - 1
    /\ eocd \in [k : {"eocd"}, count : Nat, size : Nat, offset : Nat, clen : Nat]
    /\ tell \in Nat
    /\ entries \in Seq(Header)
    /\ num \in Nat \ {0}
    /\ pc \in Pc
    /\ result \in Result

\* The buffer holds the cells of the file from filePos on, and the read
\* pointer points into it while the header is looked for, however the chunks
\* shrink at the front of the file.
BufferIsWindow ==
    pc = "search" =>
        /\ Len(buf) <= Len(View) - filePos
        /\ readP < Len(buf)
        /\ \A i \in 1..Len(buf) : buf[i] = View[filePos + i]

\* The place in the archive the search is at.
Place == filePos + readP

\* The search visits each place of the archive once, from the back: reading
\* another chunk moves the read pointer so that it stays at the same place, as
\* the doc of readChunk() says, and a miss steps back by one.
SearchSkipsNothing ==
    [][pc = "search" /\ pc' = "search" =>
        \/ readP < 0 /\ Place' = Place
        \/ readP >= 0 /\ Place' = Place - 1]_vars

\* What the search passed over is no end of central directory that is whole in
\* one chunk: the one that is used is the last one of those.
NothingMissed ==
    pc = "search" => \A p \in EocdOffsets(View) : p <= Place

\* Searching in chunks, reading through the virtual seeker and checking while
\* reading decide exactly what Opens() says of the archive alone, whatever
\* stands in the file before it; what stands after it can only make up for a
\* directory or a header that the archive itself lacks.
OpensWhatIsWellFormed ==
    pc = "done" /\ start + end <= Len(file) =>
        /\ result = "opened" <=> EocdReadable(View) /\ Consistent(Rest, Eocd(View))
        /\ Opens(View) => result = "opened"

\* An archive the library wrote is opened, embedded or not, and each entry is
\* read back with the content that was stored.
ContentsReadBack ==
    pc = "done" /\ opening.intact =>
        /\ result = "opened"
        /\ Len(entries) = Len(opening.contents)
        /\ \A i \in 1..Len(entries) :
            Content(file, EntryOffset(entries[i])) = opening.contents[i]

\* The search, and everything after it, comes to an end on every file.
Terminates == <>(pc = "done")
=============================================================================
