----------------------------- MODULE EntryInput ------------------------------
(***************************************************************************)
(* Reading an entry of an archive: the std::istream that                   *)
(* ZipFile::getInputStream() returns, the ZipInputStreambuf behind it      *)
(* (src/src/zipinputstream.cpp, src/src/zipinputstreambuf.cpp) and the     *)
(* InflateInputStreambuf it derives from                                   *)
(* (src/src/inflateinputstreambuf.cpp).                                    *)
(*                                                                         *)
(* The file is opened again for each stream, at the offset the ZipFile     *)
(* noted when it was opened itself: what is there by then may be cut short *)
(* or be another archive.  A reader that was told of an error or of the    *)
(* end may clear() the stream and read on.                                 *)
(***************************************************************************)
EXTENDS ZipReader

CONSTANTS
    Capacity,   \* getBufferSize(): the bytes m_outvec holds,
    InCapacity, \*   and the deflated cells m_invec holds
    Readings,   \* what is read: the file as it is now, and where; what the
                \*   entry holds; and what there is in its local header that
                \*   the library itself never writes
    MaxClears   \* how often a reader calls clear()

\* Deflated data is shorter than what it stands for, so the two buffers, which
\* have the same size in bytes, hold different amounts of it.
ASSUME CapacityAssumption == Capacity \in Nat \ {0} /\ InCapacity \in Nat \ {0}

ASSUME ReadingsAssumption ==
    \A r \in Readings : /\ r.file \in Seq(Cell)
                        /\ r.offset \in Nat
                        /\ r.intact \in BOOLEAN
                        /\ r.content \in Seq(Byte)
                        /\ r.foreign \in {"nothing", "descriptor", "method"}

\* What an intact entry is: its header and its content as the library writes
\* them, whatever stands before and after them.
Written(r) ==
    LET header == r.file[r.offset + 1].h
        size == Len(r.content)
        data == DataOffset(r.file, r.offset)
        cells == SubSeq(r.file, data + 1, data + size)
    IN  /\ ReadableHeader(r.file, r.offset, "local")
        /\ r.foreign = "nothing"
        /\ data + size <= Len(r.file)
        /\ header.method = "STORED" =>
                header.size = size /\ cells = StoredCells(r.content)
        /\ header.method = "DEFLATED" =>
                /\ data + size < Len(r.file) /\ r.file[data + size + 1].k = "zend"
                /\ cells = DeflatedCells(r.content)

ASSUME IntactAssumption == \A r \in Readings : r.intact => Written(r)

ASSUME MaxClearsAssumption == MaxClears \in Nat

VARIABLES
    reading,    \* what is read
    h,          \* m_current_entry
    inPos,      \* the get position of m_inbuf
    remain,     \* m_remain, of a stored entry
    zin,        \* [next_in, next_in + avail_in) of m_zs
    zmode,      \* whether inflate() is done or has given up
    err,        \* err of InflateInputStreambuf::underflow()
    out,        \* the part of m_outvec filled so far
    getArea,    \* [gptr, egptr)
    got,        \* the bytes the reader got
    status,     \* the state of the std::istream
    clears,
    pc

vars == << reading, h, inPos, remain, zin, zmode, err, out, getArea, got,
           status, clears, pc >>

Pc == {"open", "idle", "inflate", "failed"}
ZlibCode == {"Z_OK", "Z_STREAM_END", "Z_DATA_ERROR", "Z_BUF_ERROR"}

\* A byte that is no byte of a stored entry: part of a header, say.
Garbage == "garbage"

NoHeader ==
    [name |-> "none", dir |-> FALSE, method |-> "STORED", size |-> 0,
     csize |-> 0, crc |-> << >>, xlen |-> 0, clen |-> 0, offset |-> 0]

Smaller(a, b) == IF a < b THEN a ELSE b

Init ==
    /\ reading \in Readings
    /\ h = NoHeader
    /\ inPos = 0
    /\ remain = 0
    /\ zin = << >>
    /\ zmode = "more"
    /\ err = "Z_OK"
    /\ out = << >>
    /\ getArea = << >>
    /\ got = << >>
    /\ status = "good"
    /\ clears = 0
    /\ pc = "open"

\* Where ZipLocalEntry::read() leaves the get position.
AfterHeader(f, p) == DataOffset(f, p)

\* A size that stands in a data descriptor behind the data is not known yet, and
\* two methods are supported.
Supported == reading.foreign = "nothing"

\* ZipInputStream(filename, pos): the local header is read, then the buffers
\* are empty; a file that has no header there, or one that is not supported,
\* makes the constructor throw.
Open ==
    /\ pc = "open"
    /\ IF ReadableHeader(reading.file, reading.offset, "local") /\ Supported
       THEN /\ h' = reading.file[reading.offset + 1].h
            /\ inPos' = AfterHeader(reading.file, reading.offset)
            /\ remain' = IF h'.method = "STORED" THEN h'.size ELSE 0
            /\ pc' = "idle"
       ELSE /\ pc' = "failed"
            /\ UNCHANGED << h, inPos, remain >>
    /\ UNCHANGED << reading, zin, zmode, err, out, getArea, got, status, clears >>

\* The reader takes the next byte of the get area.
Take ==
    /\ pc = "idle" /\ status = "good"
    /\ getArea # << >>
    /\ got' = Append(got, Head(getArea))
    /\ getArea' = Tail(getArea)
    /\ UNCHANGED << reading, h, inPos, remain, zin, zmode, err, out, status,
                    clears, pc >>

\* m_inbuf->sgetn(.., n): what it gets and where that leaves the position.
Available(n) == Smaller(n, Len(reading.file) - inPos)
Sgetn(n) == SubSeq(reading.file, inPos + 1, inPos + Available(n))

\* The bytes of cells read as they are.
RawByte(cell) == IF cell.k = "data" THEN cell.b ELSE Garbage
RawBytes(cells) == [i \in 1..Len(cells) |-> RawByte(cells[i])]

\* Bug: the buffer is filled, whatever is left of the entry.
StoredRequestUnbounded == Capacity

\* num_b
StoredRequest == Smaller(remain, Capacity)

\* Bug: what was asked for is taken off.
RemainAfterRequest(g) == remain - StoredRequest

\* m_remain -= g
RemainAfter(g) == remain - g

\* underflow() of a stored entry
UnderflowStored ==
    /\ pc = "idle" /\ status = "good"
    /\ getArea = << >>
    /\ h.method = "STORED"
    /\ LET cells == Sgetn(StoredRequest)
           g == Len(cells)
       IN  /\ getArea' = RawBytes(cells)
           /\ inPos' = inPos + g
           /\ remain' = RemainAfter(g)
           /\ status' = IF g > 0 THEN status ELSE "eof"
    /\ UNCHANGED << reading, h, zin, zmode, err, out, got, clears, pc >>

\* underflow() of a deflated entry, up to its loop
UnderflowInflate ==
    /\ pc = "idle" /\ status = "good"
    /\ getArea = << >>
    /\ h.method = "DEFLATED"
    /\ out' = << >>
    /\ err' = "Z_OK"
    /\ pc' = "inflate"
    /\ UNCHANGED << reading, h, inPos, remain, zin, zmode, getArea, got, status,
                    clears >>

\* Bug: the input is fetched on every turn.
InputNeededAlways == TRUE

\* avail_in == 0
InputNeeded == zin = << >>

\* How many of cells inflate() turns into bytes: deflated ones, up to the room.
Inflatable(cells) ==
    LET room == Capacity - Len(out)
        n == CHOOSE n \in 0..Len(cells) :
                /\ \A i \in 1..n : cells[i].k = "zdata"
                /\ n < Len(cells) => cells[n + 1].k # "zdata"
    IN  Smaller(n, room)

\* What inflate() then returns: it looks at the cell that follows, makes no
\* progress without one, and stays where it is at the end or after an error.
InflateCode(cells, n) ==
    IF zmode = "end" THEN "Z_STREAM_END"
    ELSE IF zmode = "bad" THEN "Z_DATA_ERROR"
    ELSE IF n < Len(cells) /\ cells[n + 1].k = "zend" THEN "Z_STREAM_END"
    ELSE IF n < Len(cells) /\ cells[n + 1].k # "zdata" THEN "Z_DATA_ERROR"
    ELSE IF n = 0 THEN "Z_BUF_ERROR"
    ELSE "Z_OK"

\* Bug: only a full buffer ends the loop.
LoopsWhileRoom == Len(out) < Capacity

\* The condition of the loop.
Loops == Len(out) < Capacity /\ err = "Z_OK"

\* One turn of the loop: input is fetched when there is none, inflate() called.
InflateSome ==
    /\ pc = "inflate"
    /\ Loops
    /\ LET fetched == IF InputNeeded THEN Sgetn(InCapacity) ELSE zin
           n == IF zmode = "more" THEN Inflatable(fetched) ELSE 0
           code == InflateCode(fetched, n)
           used == IF code = "Z_STREAM_END" /\ zmode = "more" THEN n + 1 ELSE n
       IN  /\ inPos' = IF InputNeeded THEN inPos + Len(fetched) ELSE inPos
           /\ out' = out \o [i \in 1..n |-> fetched[i].b]
           /\ zin' = SubSeq(fetched, used + 1, Len(fetched))
           /\ err' = code
           /\ zmode' = CASE code = "Z_STREAM_END" -> "end"
                         [] code = "Z_DATA_ERROR" -> "bad"
                         [] OTHER -> zmode
    /\ UNCHANGED << reading, h, remain, getArea, got, status, clears, pc >>

\* Bug: running out of input is no error.
BrokenOnlyData == err = "Z_DATA_ERROR"

\* err != Z_OK && err != Z_STREAM_END
Broken == err \notin {"Z_OK", "Z_STREAM_END"}

\* The end of underflow(): the exception it throws on an error makes the
\* std::istream bad, and leaves what was inflated in the get area.
EndUnderflow ==
    /\ pc = "inflate"
    /\ ~Loops
    /\ getArea' = out
    /\ out' = << >>
    /\ status' = CASE Broken -> "bad"
                   [] ~Broken /\ out = << >> -> "eof"
                   [] OTHER -> status
    /\ pc' = "idle"
    /\ UNCHANGED << reading, h, inPos, remain, zin, zmode, err, got, clears >>

\* The reader calls clear() and goes on.
Clear ==
    /\ pc = "idle"
    /\ status # "good"
    /\ clears < MaxClears
    /\ clears' = clears + 1
    /\ status' = "good"
    /\ UNCHANGED << reading, h, inPos, remain, zin, zmode, err, out, getArea,
                    got, pc >>

Read == Take \/ UnderflowStored \/ UnderflowInflate \/ InflateSome \/ EndUnderflow

\* The constructor threw, or the reader is done with the stream.
Done ==
    /\ pc = "failed" \/ (pc = "idle" /\ status # "good")
    /\ UNCHANGED vars

Next == Open \/ Read \/ Clear \/ Done

Spec == Init /\ [][Next]_vars

\* The stream is read until it says that it is at the end or bad.
FairSpec == Spec /\ WF_vars(Open \/ Read)

-----------------------------------------------------------------------------
(* Properties. *)

TypeOK ==
    /\ h \in Header \cup {NoHeader}
    /\ inPos \in 0..Len(reading.file)
    /\ remain \in Nat
    /\ zin \in Seq(Cell) /\ Len(zin) <= InCapacity
    /\ zmode \in {"more", "end", "bad"}
    /\ err \in ZlibCode
    /\ out \in Seq(Byte) /\ Len(out) <= Capacity
    /\ getArea \in Seq(Byte \cup {Garbage}) /\ Len(getArea) <= Capacity
    /\ got \in Seq(Byte \cup {Garbage})
    /\ status \in {"good", "eof", "bad"}
    /\ clears \in 0..MaxClears
    /\ pc \in Pc

\* Where the data of the entry begins.
DataAt == DataOffset(reading.file, reading.offset)

\* Everything that was taken from the file is with the reader, in a buffer or
\* still to come, in the order of the file: no chunk is lost, read twice or
\* swapped with another, across every refill and every clear().
Pending == got \o getArea \o out

NothingLost ==
    pc \in {"idle", "inflate"} =>
        IF h.method = "STORED"
        THEN /\ Pending = RawBytes(SubSeq(reading.file, DataAt + 1, inPos))
             /\ Len(Pending) + remain = h.size
        ELSE LET cells == SubSeq(reading.file, DataAt + 1, inPos - Len(zin))
                 n == IF zmode = "end" THEN Len(cells) - 1 ELSE Len(cells)
             IN  Pending = [i \in 1..n |-> cells[i].b]

\* A deflated entry that is said to be at its end was read up to its end
\* marker, and all of it was delivered: one that was cut short or overwritten
\* never passes for a complete one, not even after clear(); nor does an entry
\* another program wrote pass for an empty one since its header has no size.
EofMeansEnd ==
    status = "eof" =>
        /\ h.method = "DEFLATED" => got = DeflatedContent(reading.file, reading.offset)
        /\ reading.foreign # "nothing" => got = reading.content

\* An entry that is intact is read like the abstract stream of its bytes.  Of
\* one that is not only this is promised here: the reader is told to stop, and
\* may go on after that.
Stopped == pc = "failed" \/ status # "good"

Source == INSTANCE ByteStream WITH
    bytes <- IF reading.intact THEN reading.content ELSE << >>,
    got <- IF reading.intact THEN got ELSE << >>,
    status <- IF reading.intact THEN status ELSE IF Stopped THEN "eof" ELSE "good"

IsByteStream == Source!Spec

\* A reader gets to the end, or to an error, on every file.
ReadingEnds == <>Stopped
=============================================================================
