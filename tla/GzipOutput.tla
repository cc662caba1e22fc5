----------------------------- MODULE GzipOutput ------------------------------
(***************************************************************************)
(* A GZIPOutputStream, the GZIPOutputStreambuf behind it                   *)
(* (src/src/gzipoutputstream.cpp, src/src/gzipoutputstreambuf.cpp) and the *)
(* DeflateOutputStreambuf that one derives from, whose operators are those *)
(* of ZipOutput; the field open is here the m_open of GZIPOutputStreambuf. *)
(*                                                                         *)
(* A client sets the name and the comment, writes bytes, calls finish() or *)
(* close(), and destroys the stream; it writes nothing after the first     *)
(* finish() or close().                                                    *)
(***************************************************************************)
EXTENDS ZipOutput, FiniteSets

CONSTANTS
    MaxPut,     \* how many bytes a client writes at most
    MaxFinish,  \* how often it calls finish() or close()
    Fuses       \* how many writes the output accepts, -1 for all

ASSUME MaxFinishAssumption == MaxFinish \in Nat
ASSUME FusesAssumption == Fuses \subseteq Int

VARIABLES
    sb,         \* the streambuf
    name,       \* m_filename is not empty
    note,       \* m_comment is not empty
    good,       \* the state of the std::ostream
    put,        \* the bytes the client wrote without an error
    finished,   \* how often finish() or close() was called
    life        \* of the stream object, or of the whole program

vars == << sb, name, note, good, put, finished, life >>

\* The constructor calls DeflateOutputStreambuf::init().
Init ==
    /\ \E fuse \in Fuses :
        sb = InitDeflate([NewStreambuf(0, fuse, 0) EXCEPT !.open = FALSE])
    /\ name = FALSE
    /\ note = FALSE
    /\ good = TRUE
    /\ put = << >>
    /\ finished = 0
    /\ life = "alive"

SetFilename ==
    /\ life = "alive" /\ ~name
    /\ name' = TRUE
    /\ UNCHANGED << sb, note, good, put, finished, life >>

SetComment ==
    /\ life = "alive" /\ ~note
    /\ note' = TRUE
    /\ UNCHANGED << sb, name, good, put, finished, life >>

HeaderCell == [k |-> "gzip", name |-> name, comment |-> note]
TrailerCell(s) == [k |-> "trailer", crc |-> s.crc, size |-> s.overflown]

\* writeHeader() and writeTrailer() write through a std::ostream of their own,
\* whose errors nobody looks at.
WriteHeader(s) == Sputn(s, << HeaderCell >>)
WriteTrailer(s) == Sputn(s, << TrailerCell(s) >>)

\* Bug: the header is written each time.
OpenOnOverflowAlways(s) == [WriteHeader(s) EXCEPT !.open = TRUE]

\* The first overflow() writes the header.
OpenOnOverflow(s) == IF s.open THEN s ELSE [WriteHeader(s) EXCEPT !.open = TRUE]

\* Bug: the byte that did not fit is dropped.
OverflowGzipDropping(s, c) == OverflowDeflate(OpenOnOverflow(s), << >>)

\* Bug: the put area is not emptied when it has been deflated.
OverflowGzipKeeping(s, c) ==
    [OverflowDeflate(OpenOnOverflow(s), c) EXCEPT !.invec = s.invec \o c]

\* overflow(c)
OverflowGzip(s, c) == OverflowDeflate(OpenOnOverflow(s), c)

\* closeStream(), which calls the overflow() above.
CloseGzip(s) ==
    IF ~s.zsInit THEN s
    ELSE EndStream(OverflowGzip([s EXCEPT !.zsInit = FALSE], << >>))

\* finish()
FinishGzip(s) ==
    IF ~s.open THEN s
    ELSE LET t == CloseGzip([s EXCEPT !.open = FALSE])
         IN  Then(t, WriteTrailer(t))

Called(s) == [s EXCEPT !.thrown = "none"]

\* operator << of one byte: an exception makes the std::ostream bad.
Put(b) ==
    /\ life = "alive" /\ good /\ finished = 0
    /\ Len(put) < MaxPut
    /\ LET s == IF Len(sb.invec) < BufSize
                THEN [sb EXCEPT !.invec = Append(sb.invec, b)]
                ELSE OverflowGzip(sb, << b >>)
       IN  /\ sb' = s
           /\ good' = (s.thrown = "none")
           /\ put' = IF s.thrown = "none" THEN Append(put, b) ELSE put
    /\ UNCHANGED << name, note, finished, life >>

Finish ==
    /\ life = "alive" /\ finished < MaxFinish
    /\ sb' = FinishGzip(Called(sb))
    /\ finished' = finished + 1
    /\ UNCHANGED << name, note, good, put, life >>

\* close() also closes the file of a stream that was opened by name, unless
\* finish() threw; a closed std::filebuf accepts nothing.
Close ==
    /\ life = "alive" /\ finished < MaxFinish
    /\ LET s == FinishGzip(Called(sb))
       IN  sb' = Then(s, [s EXCEPT !.fuse = 0, !.short = 0])
    /\ finished' = finished + 1
    /\ UNCHANGED << name, note, good, put, life >>

\* ~GZIPOutputStreambuf() and then ~DeflateOutputStreambuf(): an exception that
\* leaves a destructor terminates the program.
Destroy ==
    /\ life = "alive"
    /\ LET s == FinishGzip(Called(sb))
           t == Then(s, DestroyStream(s))
       IN  /\ sb' = t
           /\ life' = IF t.thrown = "none" THEN "destroyed" ELSE "terminated"
    /\ UNCHANGED << name, note, good, put, finished >>

Done == life # "alive" /\ UNCHANGED vars

Next ==
    \/ SetFilename \/ SetComment
    \/ \E b \in Byte : Put(b)
    \/ Finish \/ Close \/ Destroy
    \/ Done

Spec == Init /\ [][Next]_vars

-----------------------------------------------------------------------------
(* Properties. *)

GzipCell ==
    Cell \cup [k : {"gzip"}, name : BOOLEAN, comment : BOOLEAN]
         \cup [k : {"trailer"}, crc : Seq(Byte), size : Nat]

TypeOK ==
    /\ [sb EXCEPT !.file = << >>] \in Streambuf
    /\ sb.file \in Seq(GzipCell)
    /\ Len(sb.invec) <= BufSize
    /\ << name, note, good >> \in BOOLEAN \X BOOLEAN \X BOOLEAN
    /\ put \in Seq(Byte)
    /\ finished \in 0..MaxFinish
    /\ life \in {"alive", "destroyed", "terminated"}

\* How many of the first n cells of a file are deflated bytes.
DeflatedIn(f, n) == Cardinality({i \in 1..n : f[i].k = "zdata"})

\* The deflated bytes of a file are these, in this order.
Holds(f, bytes) ==
    /\ DeflatedIn(f, Len(f)) = Len(bytes)
    /\ \A i \in 1..Len(f) :
            f[i].k = "zdata" => f[i].b = bytes[DeflatedIn(f, i)]

\* As long as the output accepts everything and the stream is alive, the client's
\* bytes up to some point are deflated in the file and the rest is in the put
\* area, no byte twice or out of order, whichever of finish() and close() it
\* called.
InOrder ==
    ~sb.refused /\ life = "alive" =>
        \E n \in 0..Len(put) : /\ Holds(sb.file, SubSeq(put, 1, n))
                               /\ sb.invec = SubSeq(put, n + 1, Len(put))

\* Until the client finishes, the file is empty or begins with the only header,
\* and a byte is there only after it.
HeaderFirst ==
    finished = 0 /\ life = "alive" /\ ~sb.refused =>
        \/ sb.file = << >>
        \/ /\ sb.file[1].k = "gzip"
           /\ \A i \in 2..Len(sb.file) : sb.file[i].k = "zdata"

\* A complete gzip member holding what the client wrote.
Complete ==
    /\ Len(sb.file) = Len(put) + 3
    /\ sb.file[1].k = "gzip"
    /\ SubSeq(sb.file, 2, Len(put) + 1) = DeflatedCells(put)
    /\ sb.file[Len(put) + 2].k = "zend"
    /\ sb.file[Len(put) + 3] = [k |-> "trailer", crc |-> put, size |-> Len(put)]

\* "Finishes the compression. Write whatever is still necessary and close the
\* streams.": a call that does not throw leaves a complete gzip member.
FinishCompletes ==
    finished > 0 /\ put # << >> /\ ~sb.refused /\ sb.thrown = "none" => Complete
=============================================================================
