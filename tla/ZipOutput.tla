------------------------------ MODULE ZipOutput ------------------------------
(***************************************************************************)
(* The output side of the library: a ZipOutputStreambuf, the               *)
(* DeflateOutputStreambuf it derives from and the std::streambuf it writes *)
(* to (src/src/zipoutputstreambuf.cpp, src/src/deflateoutputstreambuf.cpp).*)
(*                                                                         *)
(* The object is one record whose fields are its members; every member     *)
(* function is an operator that takes the record and returns it as the     *)
(* call leaves it.  A call that throws sets the field thrown and keeps     *)
(* whatever it had done until then, which is what an exception leaves      *)
(* behind in an object that is used again.                                 *)
(*                                                                         *)
(* finish() writes the central directory in a loop.  BeginFinish is the    *)
(* call up to that loop and CentralStep one turn of it, the last of which  *)
(* writes the end of central directory; phase tells where the loop is.     *)
(***************************************************************************)
EXTENDS ZipFormat

CONSTANT BufSize    \* getBufferSize(): capacity of the put area

ASSUME BufSizeAssumption == BufSize \in Nat \ {0}

Exception == {"none", "IOException", "InvalidStateException", "logic_error"}

Streambuf ==
    [open        : BOOLEAN,         \* m_open
     openEntry   : BOOLEAN,         \* m_open_entry
     level       : Nat,             \* m_compression_level
     overflown   : 0..WordMod-1,    \* m_overflown_bytes, a uint32_t
     crc         : Seq(Byte),       \* m_crc32
     invec       : Seq(Byte),       \* [pbase, pptr) of m_invec
     outvec      : Seq(Cell),       \* the part of m_outvec zlib has filled
     zsInit      : BOOLEAN,         \* m_zs_initialized
     entries     : Seq(Entry),      \* m_entries
     comment     : Nat,             \* length of m_zip_comment
     thrown      : Exception,       \* what the last call threw
     phase       : {"idle", "central", "sealed"},
     cdStart     : Nat,             \* eocd offset, set by writeZipCentralDirectory
     cdNext      : Nat \ {0},       \* its iterator
     cdSize      : Nat,             \* central_directory_size
     file        : Seq(Cell),       \* m_outbuf: what it has stored,
     pos         : Nat,             \*   its put position,
     fuse        : Int,             \*   how many more writes it accepts (< 0: all),
     short       : Nat,             \*   how much of the first refused write it takes,
     refused     : BOOLEAN]         \*   and whether it ever refused anything

NewStreambuf(clen, fuse, short) ==
    [open |-> TRUE, openEntry |-> FALSE, level |-> 1, overflown |-> 0,
     crc |-> << >>, invec |-> << >>, outvec |-> << >>, zsInit |-> FALSE,
     entries |-> << >>, comment |-> clen, thrown |-> "none",
     phase |-> "idle", cdStart |-> 0, cdNext |-> 1, cdSize |-> 0,
     file |-> << >>, pos |-> 0, fuse |-> fuse, short |-> short,
     refused |-> FALSE]

\* A call goes on with t unless what it did so far, s, threw.
Then(s, t) == IF s.thrown # "none" THEN s ELSE t
Throw(s, e) == [s EXCEPT !.thrown = e]

LastEntry(s) == s.entries[Len(s.entries)]

\* The bytes that closed entries and closed headers occupy: everything below
\* the open entry's header, or below the put position between two entries.
Committed(s) == IF s.openEntry THEN LastEntry(s).offset ELSE s.pos

-----------------------------------------------------------------------------
(* The streambuf written to. *)

Accepted(s, n) == IF s.fuse = 0 /\ s.short < n THEN s.short ELSE n

\* m_outbuf->sputn(): stores what it accepts.
Sputn(s, cells) ==
    LET n == Accepted(s, Len(cells))
    IN  [s EXCEPT !.file = Overwrite(s.file, s.pos, SubSeq(cells, 1, n)),
                  !.pos = s.pos + n,
                  !.fuse = IF s.fuse > 0 THEN s.fuse - 1 ELSE s.fuse,
                  !.short = IF n < Len(cells) THEN 0 ELSE s.short,
                  !.refused = s.refused \/ n < Len(cells)]

\* Bug: the count is not looked at.
WriteUnchecked(s, cells) == IF cells = << >> THEN s ELSE Sputn(s, cells)

\* Every writer compares the count with what it asked for and throws.
Write(s, cells) ==
    IF cells = << >> THEN s
    ELSE LET Checked(t) == IF Accepted(s, Len(cells)) < Len(cells)
                           THEN Throw(t, "IOException") ELSE t
         IN  Checked(Sputn(s, cells))

-----------------------------------------------------------------------------
(* DeflateOutputStreambuf. *)

\* init(): refuses to start a second deflate stream inside the first one.
InitDeflate(s) ==
    IF s.zsInit
    THEN Throw(s, "logic_error")
    ELSE [s EXCEPT !.zsInit = TRUE, !.invec = << >>, !.outvec = << >>,
                   !.crc = << >>]

\* flushOutvec(): m_outvec is emptied only once it is all written.
FlushOutvec(s) ==
    LET Empty(t) == Then(t, [t EXCEPT !.outvec = << >>])
    IN  Empty(Write(s, s.outvec))

\* The CRC that both overflow() functions take of the put area.
CrcPutArea(s) == [s EXCEPT !.crc = s.crc \o s.invec]

\* overflow(c): deflates the put area into m_outvec, flushes, keeps c.
OverflowDeflate(s, c) ==
    LET Deflate(t) == IF s.invec = << >> THEN t
                      ELSE [t EXCEPT !.outvec = DeflatedCells(s.invec)]
        Keep(u) == Then(u, [u EXCEPT !.invec = c])
    IN  Keep(FlushOutvec(Deflate(CrcPutArea(s))))

\* Bug: the stream is flushed but never finished.
EndDeflationUnfinished(t) == Then(t, FlushOutvec([t EXCEPT !.outvec = << >>]))

\* endDeflation(), from where its call of overflow() returned t on: Z_FINISH is
\* asked for only when some byte was counted.
EndDeflation(t) ==
    Then(t, FlushOutvec([t EXCEPT !.outvec =
                IF t.overflown > 0 THEN << [k |-> "zend"] >> ELSE << >>]))

\* closeStream() of a stream that overflow() flushed into t: deflateEnd()
\* reports a stream that was fed and not finished.
EndStream(t) ==
    LET End(u) == Then(u, IF u.overflown = 0 /\ u.crc # << >>
                          THEN Throw(u, "IOException") ELSE u)
    IN  End(EndDeflation(t))

\* ~DeflateOutputStreambuf(): closeStream(), which from a destructor can only
\* call the overflow() of the base class.
DestroyStream(s) ==
    IF ~s.zsInit THEN s
    ELSE EndStream(OverflowDeflate([s EXCEPT !.zsInit = FALSE], << >>))

-----------------------------------------------------------------------------
(* ZipOutputStreambuf. *)

CountPutArea(s) ==
    [s EXCEPT !.overflown = (s.overflown + Len(s.invec)) % WordMod]

\* Stored bytes go straight to the output.
OverflowStored(s, c) ==
    LET Keep(t) == Then(t, [t EXCEPT !.invec = c])
    IN  Keep(Write(CrcPutArea(s), StoredCells(s.invec)))

\* overflow(c)
Overflow(s, c) ==
    IF s.level = 0 THEN OverflowStored(CountPutArea(s), c)
    ELSE OverflowDeflate(CountPutArea(s), c)

\* Bug: the stream is marked as closed only once that has worked.
CloseStreamAtEnd(s) ==
    IF ~s.zsInit THEN s
    ELSE LET Close(t) == Then(t, [t EXCEPT !.zsInit = FALSE])
         IN  Close(EndStream(Overflow(s, << >>)))

\* closeStream(), called by closeEntry().
CloseStream(s) ==
    IF ~s.zsInit THEN s
    ELSE EndStream(Overflow([s EXCEPT !.zsInit = FALSE], << >>))

\* sputc(b) of std::streambuf over the put area.
Sputc(s, b) ==
    IF Len(s.invec) < BufSize
    THEN [s EXCEPT !.invec = Append(s.invec, b)]
    ELSE Overflow(s, << b >>)

\* ZipLocalEntry::write()
WriteLocal(s, e) ==
    IF LocalWritable(e) THEN Write(s, LocalCells(e))
    ELSE Throw(s, "InvalidStateException")

\* Bug: the position is not restored.
UpdateEntryHeaderInfoStays(s) ==
    LET e == [LastEntry(s) EXCEPT
                !.size = s.overflown,
                !.crc = s.crc,
                !.csize = SizeT(s.pos - LastEntry(s).offset
                                    - LocalHeaderSize(LastEntry(s)))]
    IN  WriteLocal([s EXCEPT !.entries[Len(s.entries)] = e,
                             !.pos = e.offset], e)

\* Bug: m_entries.front() in place of m_entries.back().
UpdateEntryHeaderInfoOfFirst(s) ==
    LET e == [s.entries[1] EXCEPT !.size = s.overflown, !.crc = s.crc]
        Return(t) == Then(t, [t EXCEPT !.pos = s.pos])
    IN  Return(WriteLocal([s EXCEPT !.entries[1] = e, !.pos = e.offset], e))

\* updateEntryHeaderInfo(): goes back and writes the local header again, now
\* with the sizes and the CRC; the position it returns to is kept in an int.
UpdateEntryHeaderInfo(s) ==
    LET curr_pos == Int32(s.pos)
        e == [LastEntry(s) EXCEPT
                !.size = s.overflown,
                !.crc = s.crc,
                !.csize = SizeT(curr_pos - LastEntry(s).offset
                                    - LocalHeaderSize(LastEntry(s)))]
        Return(t) == Then(t, [t EXCEPT !.pos = curr_pos])
    IN  Return(WriteLocal([s EXCEPT !.entries[Len(s.entries)] = e,
                                    !.pos = e.offset], e))

\* closeEntry(), with setEntryClosedState() at its end.
CloseEntry(s) ==
    IF ~s.openEntry THEN s
    ELSE LET Update(t) == Then(t, UpdateEntryHeaderInfo(t))
             Close(u) == Then(u, [u EXCEPT !.openEntry = FALSE, !.crc = << >>])
         IN  Close(Update(IF s.level = 0 THEN Overflow(s, << >>)
                          ELSE CloseStream(s)))

\* Chooses the compression of the next entry and readies the put area.
PrepareEntry(s, e) ==
    LET Ready(t) == IF t.level = 0 THEN [t EXCEPT !.invec = << >>]
                    ELSE InitDeflate(t)
    IN  Ready([s EXCEPT !.level = EffectiveLevel(e), !.overflown = 0])

\* Bug: room is left for the local header that closeEntry() will write.
AddEntrySkipping(s, e) ==
    LET at == [e EXCEPT !.offset = s.pos]
    IN  [s EXCEPT !.entries = Append(s.entries, at), !.openEntry = TRUE,
                  !.pos = s.pos + LocalHeaderSize(at)]

\* Appends the entry at the put position and writes its local header.
AddEntry(s, e) ==
    LET at == [e EXCEPT !.offset = s.pos]
        Open(t) == Then(t, [t EXCEPT !.openEntry = TRUE])
    IN  Open(WriteLocal([s EXCEPT !.entries = Append(s.entries, at)], at))

\* Bug: the entry before is left open.
PutNextEntryUnclosed(s, e) ==
    LET Add(u) == Then(u, AddEntry(u, e))
    IN  Add(PrepareEntry(s, e))

\* putNextEntry()
PutNextEntry(s, e) ==
    LET Prepare(t) == Then(t, PrepareEntry(t, e))
        Add(u) == Then(u, AddEntry(u, e))
    IN  Add(Prepare(CloseEntry(s)))

\* finish() up to the loop of writeZipCentralDirectory().
BeginFinish(s) ==
    IF ~s.open THEN s
    ELSE LET Begin(t) == Then(t, [t EXCEPT !.phase = "central", !.cdStart = t.pos,
                                           !.cdNext = 1, !.cdSize = 0])
         IN  Begin(CloseEntry([s EXCEPT !.open = FALSE]))

\* One turn of the loop: ZipCentralDirectoryEntry::write() of one entry.
WriteCentral(s) ==
    LET e == s.entries[s.cdNext]
        Count(t) == Then(t, [t EXCEPT !.cdNext = s.cdNext + 1,
                                      !.cdSize = s.cdSize + CentralHeaderSize(e)])
    IN  Count(IF CentralWritable(e) THEN Write(s, CentralCells(e))
              ELSE Throw(s, "InvalidStateException"))

\* ZipEndOfCentralDirectory::write(); the FileCollectionException of its check
\* of size and offset is one of the refusals too.
WriteEocd(s) ==
    LET n == Len(s.entries)
        Seal(t) == Then(t, [t EXCEPT !.phase = "sealed"])
    IN  Seal(IF EocdWritable(n, s.cdSize, s.cdStart, s.comment)
             THEN Write(s, EocdCells(n, s.cdSize, s.cdStart, s.comment))
             ELSE Throw(s, "InvalidStateException"))

\* A throw ends the loop for good: m_open is already false.
CentralStep(s) ==
    LET Stop(t) == IF t.thrown # "none" THEN [t EXCEPT !.phase = "idle"] ELSE t
    IN  Stop(IF s.cdNext <= Len(s.entries) THEN WriteCentral(s) ELSE WriteEocd(s))
=============================================================================
