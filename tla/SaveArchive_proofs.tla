-------------------------- MODULE SaveArchive_proofs --------------------------
(***************************************************************************)
(* What holds of saveCollectionToArchive() for every listing, every        *)
(* content of the disk, every fault of the output and every width of the   *)
(* integers. The first part, about cells, records and the member functions *)
(* of the output side, says what each of them preserves whatever the       *)
(* output does; the second, from "The inductive invariant" on, is about    *)
(* the program that calls them.                                            *)
(***************************************************************************)
EXTENDS SaveArchive, SequenceTheorems, WellFoundedInduction, TLAPS

-----------------------------------------------------------------------------
(* Cells and files. *)

LEMMA WordModPositive == WordMod \in Nat /\ WordMod > 0
  BY IntLimitAssumption DEF WordMod

\* Storing cells at a put position inside the file keeps what is below it.
LEMMA OverwriteKeeps ==
  ASSUME NEW C, NEW f \in Seq(C), NEW cells \in Seq(C), NEW p \in 0..Len(f)
  PROVE  /\ Overwrite(f, p, cells) \in Seq(C)
         /\ Len(Overwrite(f, p, cells)) >= Len(f)
         /\ Len(Overwrite(f, p, cells)) >= p + Len(cells)
         /\ \A i \in 1..p : Overwrite(f, p, cells)[i] = f[i]
<1> DEFINE n == IF p + Len(cells) > Len(f) THEN p + Len(cells) ELSE Len(f)
<1> DEFINE g == Overwrite(f, p, cells)
<1>1. n \in Nat /\ n >= Len(f) /\ n >= p + Len(cells) /\ p \in Nat
  OBVIOUS
<1>2. ASSUME NEW i \in 1..n
      PROVE  (IF p < i /\ i <= p + Len(cells) THEN cells[i - p] ELSE f[i]) \in C
  <2>1. CASE p < i /\ i <= p + Len(cells)
    <3>1. i - p \in 1..Len(cells)
      BY <1>1, <2>1
    <3> QED
      BY <2>1, <3>1, ElementOfSeq
  <2>2. CASE ~(p < i /\ i <= p + Len(cells))
    <3>1. i \in 1..Len(f)
      BY <1>1, <2>2
    <3> QED
      BY <2>2, <3>1, ElementOfSeq
  <2> QED
    BY <2>1, <2>2
<1>3. g = [i \in 1..n |-> IF p < i /\ i <= p + Len(cells) THEN cells[i - p] ELSE f[i]]
  BY DEF Overwrite
<1>4. g \in Seq(C) /\ Len(g) = n
  BY <1>1, <1>2, <1>3, IsASeq
<1>5. \A i \in 1..p : g[i] = f[i]
  BY <1>1, <1>3
<1> QED
  BY <1>1, <1>4, <1>5

LEMMA RepeatType ==
  ASSUME NEW kind \in PadKind, NEW n \in Nat
  PROVE  Repeat(kind, n) \in Seq(Cell)
<1>1. \A i \in 1..n : [k |-> kind] \in Cell
  BY DEF Cell
<1> QED
  BY <1>1, IsASeq DEF Repeat

LEMMA DataCellsType ==
  ASSUME NEW bytes \in Seq(Byte)
  PROVE  StoredCells(bytes) \in Seq(Cell) /\ DeflatedCells(bytes) \in Seq(Cell)
<1>1. \A i \in 1..Len(bytes) : bytes[i] \in Byte
  BY ElementOfSeq
<1>2. Len(bytes) \in Nat
  OBVIOUS
<1>3. \A i \in 1..Len(bytes) : [k |-> "data", b |-> bytes[i]] \in Cell
  BY <1>1 DEF Cell
<1>4. \A i \in 1..Len(bytes) : [k |-> "zdata", b |-> bytes[i]] \in Cell
  BY <1>1 DEF Cell
<1>5. [i \in 1..Len(bytes) |-> [k |-> "data", b |-> bytes[i]]] \in Seq(Cell)
  BY <1>2, <1>3, IsASeq
<1>6. [i \in 1..Len(bytes) |-> [k |-> "zdata", b |-> bytes[i]]] \in Seq(Cell)
  BY <1>2, <1>4, IsASeq
<1> QED
  BY <1>5, <1>6 DEF StoredCells, DeflatedCells

LEMMA WrittenNameType ==
  ASSUME NEW e, e.name \in Name, e.dir \in BOOLEAN
  PROVE  WrittenName(e) \in Nat
<1>1. NameLength[e.name] \in Nat
  BY NameLengthAssumption
<1> QED
  BY <1>1 DEF WrittenName

LEMMA HeaderType ==
  ASSUME NEW e \in Entry, NEW clen \in Nat, NEW offset \in Nat
  PROVE  HeaderOf(e, clen, offset) \in Header
<1>1. \A v \in Nat : v % WordMod \in Nat /\ v % FieldMod \in Nat
  BY WordModPositive, FieldModAssumption
<1>2. HeaderMethod(e) \in Method
  BY DEF HeaderMethod, Entry, Method
<1>3. WrittenName(e) \in Nat /\ e.name \in Name /\ e.dir \in BOOLEAN
  BY WrittenNameType DEF Entry
<1> QED
  BY <1>1, <1>2, <1>3 DEF HeaderOf, Header, Entry

LEMMA HeaderCellsType ==
  ASSUME NEW e \in Entry
  PROVE  LocalCells(e) \in Seq(Cell) /\ CentralCells(e) \in Seq(Cell)
<1>1. /\ e.extra \in Nat /\ e.comment \in Nat /\ e.offset \in Nat
      /\ WrittenName(e) \in Nat
  BY WrittenNameType DEF Entry
<1>2. /\ Repeat("name", WrittenName(e)) \in Seq(Cell)
      /\ Repeat("extra", e.extra) \in Seq(Cell)
      /\ Repeat("comment", e.comment) \in Seq(Cell)
  BY <1>1, RepeatType DEF PadKind
<1>3. /\ [k |-> "local", h |-> HeaderOf(e, 0, 0)] \in Cell
      /\ [k |-> "central", h |-> HeaderOf(e, e.comment, e.offset)] \in Cell
  BY <1>1, HeaderType DEF Cell
<1> QED
  BY <1>2, <1>3 DEF LocalCells, CentralCells

LEMMA EocdCellsType ==
  ASSUME NEW count \in Nat, NEW size \in Nat, NEW offset \in Nat, NEW clen \in Nat
  PROVE  /\ EocdCells(count, size, offset, clen) \in Seq(Cell)
         /\ EocdCells(count, size, offset, clen) # << >>
<1> DEFINE h == [k |-> "eocd", count |-> count % FieldMod,
                 size |-> size % WordMod, offset |-> offset % WordMod,
                 clen |-> clen % FieldMod]
<1> DEFINE head == << h >>
<1> DEFINE rest == Repeat("eocdRest", EocdSize - 1)
<1> DEFINE tail == Repeat("comment", clen)
<1> DEFINE cells == EocdCells(count, size, offset, clen)
<1>1. \A v \in Nat : v % WordMod \in Nat /\ v % FieldMod \in Nat
  BY WordModPositive, FieldModAssumption
<1>2. h \in Cell
  BY <1>1 DEF Cell
<1>3. tail \in Seq(Cell) /\ rest \in Seq(Cell)
  BY RepeatType, EocdSizeAssumption DEF PadKind
<1>4. cells = (head \o rest) \o tail
  BY DEF EocdCells
<1> HIDE DEF h, rest, tail, cells
<1>5. head \o rest \in Seq(Cell) /\ Len(head \o rest) = 1 + Len(rest)
  BY <1>2, <1>3
<1>6. cells \in Seq(Cell) /\ Len(cells) = 1 + Len(rest) + Len(tail)
  BY <1>3, <1>4, <1>5
<1>7. Len(rest) \in Nat /\ Len(tail) \in Nat
  BY <1>3
<1>8. cells # << >>
  BY <1>6, <1>7
<1> QED
  BY <1>6, <1>8 DEF cells

-----------------------------------------------------------------------------
(* Calls that only write forward. *)

\* An output that refused something refuses everything from then on.
Latched(s) == s.refused => s.fuse = 0 /\ s.short = 0

\* The object is consistent with the file it writes.
Good(s) ==
  /\ s \in Streambuf
  /\ s.pos <= Len(s.file)
  /\ s.openEntry => s.entries # << >> /\ LastEntry(s).offset <= s.pos

\* From s to t nothing was done but to consume the put area and write forward.
Forward(s, t) ==
  /\ t \in Streambuf
  /\ s.pos <= t.pos /\ t.pos <= Len(t.file) /\ Len(s.file) <= Len(t.file)
  /\ \A i \in 1..s.pos : t.file[i] = s.file[i]
  /\ Latched(s) => Latched(t)
  /\ s.refused => t.refused
  /\ t.entries = s.entries /\ t.openEntry = s.openEntry
  /\ t.open = s.open /\ t.level = s.level
  /\ t.zsInit => s.zsInit
  /\ s.thrown # "logic_error" => t.thrown # "logic_error"

\* What was committed in s is still there in t.
Keeps(s, t) ==
  /\ Committed(s) <= Committed(t)
  /\ \A i \in 1..Committed(s) : t.file[i] = s.file[i]

LEMMA ForwardReflexive ==
  ASSUME NEW s \in Streambuf, s.pos <= Len(s.file)
  PROVE  Forward(s, s)
BY DEF Forward, Streambuf

LEMMA ForwardTransitive ==
  ASSUME NEW s, NEW t, NEW u, s \in Streambuf, Forward(s, t), Forward(t, u)
  PROVE  Forward(s, u)
<1> USE DEF Forward
<1>a. s \in Streambuf /\ t \in Streambuf /\ u \in Streambuf
  OBVIOUS
<1>1. /\ s.pos \in Nat /\ t.pos \in Nat /\ u.pos \in Nat
      /\ Len(s.file) \in Nat /\ Len(t.file) \in Nat /\ Len(u.file) \in Nat
  <2>1. \A w \in Streambuf : w.pos \in Nat /\ w.file \in Seq(Cell)
    BY DEF Streambuf
  <2> HIDE DEF Forward
  <2> QED
    BY <1>a, <2>1, LenProperties
<1>2. \A i \in 1..s.pos : u.file[i] = s.file[i]
  BY <1>1 DEF Forward
<1> QED
  BY <1>1, <1>2 DEF Forward

LEMMA ForwardKeeps ==
  ASSUME NEW s, NEW t, Good(s), Forward(s, t)
  PROVE  Good(t) /\ Keeps(s, t)
<1>1. s.pos \in Nat /\ t.pos \in Nat
  BY DEF Good, Forward, Streambuf
<1>2. LastEntry(t) = LastEntry(s)
  BY DEF Forward, LastEntry
<1>3. CASE s.openEntry
  <2>1. LastEntry(s) \in Entry
    BY <1>3, ElementOfSeq DEF Good, Streambuf, LastEntry
  <2>2. LastEntry(s).offset \in Nat /\ LastEntry(s).offset <= s.pos
    BY <1>3, <2>1 DEF Good, Entry
  <2> QED
    BY <1>1, <1>2, <1>3, <2>2 DEF Good, Forward, Keeps, Committed
<1>4. CASE ~s.openEntry
  BY <1>1, <1>4 DEF Good, Forward, Keeps, Committed
<1> QED
  BY <1>3, <1>4 DEF Good, Streambuf

LEMMA AcceptedRange ==
  ASSUME NEW s \in Streambuf, NEW n \in Nat
  PROVE  Accepted(s, n) \in 0..n
BY DEF Accepted, Streambuf

LEMMA SinkType ==
  ASSUME NEW s \in Streambuf, NEW file \in Seq(Cell), NEW pos \in Nat,
         NEW fuse \in Int, NEW short \in Nat, NEW refused \in BOOLEAN
  PROVE  [s EXCEPT !.file = file, !.pos = pos, !.fuse = fuse,
                   !.short = short, !.refused = refused] \in Streambuf
BY DEF Streambuf

LEMMA SputnForward ==
  ASSUME NEW s \in Streambuf, s.pos <= Len(s.file), NEW cells \in Seq(Cell)
  PROVE  /\ Forward(s, Sputn(s, cells))
         /\ Sputn(s, cells).pos = s.pos + Accepted(s, Len(cells))
         /\ Sputn(s, cells).thrown = s.thrown
<1> DEFINE n == Accepted(s, Len(cells))
<1> DEFINE part == SubSeq(cells, 1, n)
<1> DEFINE t == Sputn(s, cells)
<1>1. n \in 0..Len(cells) /\ Len(cells) \in Nat
  BY AcceptedRange
<1>2. part \in Seq(Cell) /\ Len(part) = n
  BY <1>1, SubSeqProperties
<1>3. s.file \in Seq(Cell) /\ s.pos \in 0..Len(s.file)
  BY DEF Streambuf
<1>4. /\ Overwrite(s.file, s.pos, part) \in Seq(Cell)
      /\ Len(Overwrite(s.file, s.pos, part)) >= s.pos + n
      /\ Len(Overwrite(s.file, s.pos, part)) >= Len(s.file)
      /\ \A i \in 1..s.pos : Overwrite(s.file, s.pos, part)[i] = s.file[i]
  BY <1>2, <1>3, OverwriteKeeps
<1>5. t \in Streambuf
  <2> DEFINE fuse == IF s.fuse > 0 THEN s.fuse - 1 ELSE s.fuse
  <2> DEFINE short == IF n < Len(cells) THEN 0 ELSE s.short
  <2> DEFINE refused == s.refused \/ n < Len(cells)
  <2>1. fuse \in Int /\ short \in Nat
    BY <1>1, SMTT(20) DEF Streambuf
  <2>2. refused \in BOOLEAN
    OBVIOUS
  <2>3. s.pos + n \in Nat
    BY <1>1, <1>3
  <2>4. t = [s EXCEPT !.file = Overwrite(s.file, s.pos, part), !.pos = s.pos + n,
                      !.fuse = fuse, !.short = short, !.refused = refused]
    BY DEF Sputn
  <2> HIDE DEF fuse, short, refused, t, part, n
  <2> QED
    BY <1>4, <2>1, <2>2, <2>3, <2>4, SinkType
<1>6. t.file = Overwrite(s.file, s.pos, part) /\ t.pos = s.pos + n
  BY DEF Sputn, Streambuf
<1>7. Latched(s) => Latched(t)
  BY <1>1 DEF Latched, Sputn, Streambuf, Accepted
<1>8. /\ t.entries = s.entries /\ t.openEntry = s.openEntry
      /\ t.open = s.open /\ t.level = s.level
      /\ t.zsInit = s.zsInit /\ t.thrown = s.thrown
      /\ s.refused => t.refused
  BY DEF Sputn, Streambuf
<1> HIDE DEF t, n, part
<1>9. Forward(s, t)
  BY <1>1, <1>3, <1>4, <1>5, <1>6, <1>7, <1>8 DEF Forward
<1> QED
  BY <1>6, <1>8, <1>9 DEF t, n

LEMMA ThrowForward ==
  ASSUME NEW s \in Streambuf, s.pos <= Len(s.file),
         NEW e \in Exception, e # "logic_error"
  PROVE  Forward(s, Throw(s, e)) /\ Throw(s, e).thrown = e
<1>1. Throw(s, e) \in Streambuf
  BY DEF Throw, Streambuf
<1> QED
  BY <1>1 DEF Throw, Forward, Latched, Streambuf

\* A write that does not throw stored everything; if it wrote anything at all
\* and the output latches, nothing had been refused before either.
LEMMA WriteForward ==
  ASSUME NEW s \in Streambuf, s.pos <= Len(s.file), NEW cells \in Seq(Cell)
  PROVE  /\ Forward(s, Write(s, cells))
         /\ Write(s, cells).thrown \in {s.thrown, "IOException"}
         /\ s.thrown = "none" /\ Write(s, cells).thrown = "none"
                => Write(s, cells).pos = s.pos + Len(cells)
<1> DEFINE t == Sputn(s, cells)
<1>1. /\ Forward(s, t) /\ t.thrown = s.thrown
      /\ t.pos = s.pos + Accepted(s, Len(cells))
  BY SputnForward
<1>2. t \in Streambuf /\ t.pos <= Len(t.file)
  BY <1>1 DEF Forward
<1>3. /\ Forward(t, Throw(t, "IOException"))
      /\ Throw(t, "IOException").thrown = "IOException"
  BY <1>2, ThrowForward DEF Exception
<1>4. Forward(s, Throw(t, "IOException"))
  BY <1>1, <1>3, ForwardTransitive
<1>5. CASE cells = << >>
  BY <1>5, ForwardReflexive DEF Write, Streambuf
<1>6. CASE cells # << >> /\ Accepted(s, Len(cells)) < Len(cells)
  BY <1>3, <1>4, <1>6 DEF Write
<1>7. CASE cells # << >> /\ ~(Accepted(s, Len(cells)) < Len(cells))
  <2>1. Write(s, cells) = t
    BY <1>7 DEF Write
  <2>2. Accepted(s, Len(cells)) = Len(cells)
    BY <1>7, AcceptedRange
  <2> QED
    BY <1>1, <2>1, <2>2
<1> QED
  BY <1>5, <1>6, <1>7

LEMMA WriteLatches ==
  ASSUME NEW s \in Streambuf, s.pos <= Len(s.file), NEW cells \in Seq(Cell),
         cells # << >>, Latched(s), s.thrown = "none",
         Write(s, cells).thrown = "none"
  PROVE  ~Write(s, cells).refused
<1>1. Accepted(s, Len(cells)) \in 0..Len(cells) /\ Len(cells) \in Nat \ {0}
  BY AcceptedRange, EmptySeq
<1>2. ~(Accepted(s, Len(cells)) < Len(cells))
  BY DEF Write, Throw, Sputn, Streambuf
<1>3. ~s.refused
  BY <1>1, <1>2 DEF Latched, Accepted, Streambuf
<1> QED
  BY <1>1, <1>2, <1>3 DEF Write, Sputn, Streambuf

-----------------------------------------------------------------------------
(* DeflateOutputStreambuf. *)

\* A change of the put area, of m_outvec or of the counts is no write.
LEMMA InvecForward ==
  ASSUME NEW s \in Streambuf, s.pos <= Len(s.file), NEW c \in Seq(Byte)
  PROVE  Forward(s, [s EXCEPT !.invec = c])
<1>1. [s EXCEPT !.invec = c] \in Streambuf
  BY DEF Streambuf
<1> QED
  BY <1>1 DEF Forward, Latched, Streambuf

LEMMA OutvecForward ==
  ASSUME NEW s \in Streambuf, s.pos <= Len(s.file), NEW c \in Seq(Cell)
  PROVE  Forward(s, [s EXCEPT !.outvec = c])
<1>1. [s EXCEPT !.outvec = c] \in Streambuf
  BY DEF Streambuf
<1> QED
  BY <1>1 DEF Forward, Latched, Streambuf

LEMMA CrcPutAreaForward ==
  ASSUME NEW s \in Streambuf, s.pos <= Len(s.file)
  PROVE  /\ Forward(s, CrcPutArea(s))
         /\ CrcPutArea(s).thrown = s.thrown
<1> DEFINE t == CrcPutArea(s)
<1>1. s.crc \o s.invec \in Seq(Byte)
  BY DEF Streambuf
<1>2. t \in Streambuf
  BY <1>1 DEF CrcPutArea, Streambuf
<1> QED
  BY <1>2 DEF CrcPutArea, Forward, Latched, Streambuf

LEMMA CountPutAreaForward ==
  ASSUME NEW s \in Streambuf, s.pos <= Len(s.file)
  PROVE  /\ Forward(s, CountPutArea(s))
         /\ CountPutArea(s).thrown = s.thrown
<1> DEFINE t == CountPutArea(s)
<1>1. Len(s.invec) \in Nat /\ s.overflown \in Nat
  BY WordModPositive DEF Streambuf
<1>2. (s.overflown + Len(s.invec)) % WordMod \in 0..WordMod-1
  BY <1>1, WordModPositive
<1>3. t \in Streambuf
  BY <1>2 DEF CountPutArea, Streambuf
<1> QED
  BY <1>3 DEF CountPutArea, Forward, Latched, Streambuf

LEMMA FlushOutvecForward ==
  ASSUME NEW s \in Streambuf, s.pos <= Len(s.file)
  PROVE  /\ Forward(s, FlushOutvec(s))
         /\ FlushOutvec(s).thrown \in {s.thrown, "IOException"}
<1> DEFINE t == Write(s, s.outvec)
<1>1. s.outvec \in Seq(Cell)
  BY DEF Streambuf
<1>2. Forward(s, t) /\ t.thrown \in {s.thrown, "IOException"}
  BY <1>1, WriteForward
<1>3. t \in Streambuf /\ t.pos <= Len(t.file)
  BY <1>2 DEF Forward
<1>4. Forward(t, [t EXCEPT !.outvec = << >>])
  <2>1. << >> \in Seq(Cell)
    OBVIOUS
  <2> HIDE DEF t
  <2> QED
    BY <1>3, <2>1, OutvecForward
<1>5. [t EXCEPT !.outvec = << >>].thrown = t.thrown
  BY <1>3 DEF Streambuf
<1>6. Forward(s, [t EXCEPT !.outvec = << >>])
  BY <1>2, <1>4, ForwardTransitive
<1> QED
  BY <1>2, <1>5, <1>6 DEF FlushOutvec, Then

LEMMA OverflowDeflateForward ==
  ASSUME NEW s \in Streambuf, s.pos <= Len(s.file), NEW c \in Seq(Byte)
  PROVE  /\ Forward(s, OverflowDeflate(s, c))
         /\ OverflowDeflate(s, c).thrown \in {s.thrown, "IOException"}
<1> DEFINE t == CrcPutArea(s)
<1> DEFINE v == IF s.invec = << >> THEN t
                ELSE [t EXCEPT !.outvec = DeflatedCells(s.invec)]
<1> DEFINE u == FlushOutvec(v)
<1>1. Forward(s, t) /\ t.thrown = s.thrown
  BY CrcPutAreaForward
<1>2. t \in Streambuf /\ t.pos <= Len(t.file)
  BY <1>1 DEF Forward
<1>3. DeflatedCells(s.invec) \in Seq(Cell)
  BY DataCellsType DEF Streambuf
<1>4. Forward(t, v) /\ v.thrown = s.thrown
  BY <1>1, <1>2, <1>3, OutvecForward, ForwardReflexive DEF Streambuf
<1>5. v \in Streambuf /\ v.pos <= Len(v.file)
  BY <1>4 DEF Forward
<1>6. Forward(v, u) /\ u.thrown \in {s.thrown, "IOException"}
  BY <1>4, <1>5, FlushOutvecForward
<1>7. u \in Streambuf /\ u.pos <= Len(u.file)
  BY <1>6 DEF Forward
<1>8. Forward(u, [u EXCEPT !.invec = c]) /\ [u EXCEPT !.invec = c].thrown = u.thrown
  BY <1>7, InvecForward DEF Streambuf
<1>9. Forward(s, u)
  BY <1>1, <1>2, <1>4, <1>6, ForwardTransitive
<1>10. Forward(s, [u EXCEPT !.invec = c])
  BY <1>8, <1>9, ForwardTransitive
<1>11. OverflowDeflate(s, c) = Then(u, [u EXCEPT !.invec = c])
  BY DEF OverflowDeflate
<1> QED
  BY <1>6, <1>8, <1>9, <1>10, <1>11 DEF Then

LEMMA EndDeflationForward ==
  ASSUME NEW t \in Streambuf, t.pos <= Len(t.file)
  PROVE  /\ Forward(t, EndDeflation(t))
         /\ EndDeflation(t).thrown \in {t.thrown, "IOException"}
<1> DEFINE end == IF t.overflown > 0 THEN << [k |-> "zend"] >> ELSE << >>
<1> DEFINE v == [t EXCEPT !.outvec = end]
<1> DEFINE u == FlushOutvec(v)
<1>1. end \in Seq(Cell)
  <2>1. [k |-> "zend"] \in Cell
    BY DEF Cell
  <2> QED
    BY <2>1
<1>2. EndDeflation(t) = Then(t, u)
  BY DEF EndDeflation
<1> HIDE DEF end
<1>3. Forward(t, v) /\ v.thrown = t.thrown
  BY <1>1, OutvecForward DEF Streambuf
<1>4. v \in Streambuf /\ v.pos <= Len(v.file)
  BY <1>3 DEF Forward
<1>5. Forward(v, u) /\ u.thrown \in {t.thrown, "IOException"}
  BY <1>3, <1>4, FlushOutvecForward
<1>6. Forward(t, u)
  BY <1>3, <1>5, ForwardTransitive
<1>7. Forward(t, t)
  BY ForwardReflexive
<1> QED
  BY <1>2, <1>5, <1>6, <1>7 DEF Then

LEMMA EndStreamForward ==
  ASSUME NEW t \in Streambuf, t.pos <= Len(t.file)
  PROVE  /\ Forward(t, EndStream(t))
         /\ EndStream(t).thrown \in {t.thrown, "IOException"}
<1> DEFINE u == EndDeflation(t)
<1>1. Forward(t, u) /\ u.thrown \in {t.thrown, "IOException"}
  BY EndDeflationForward
<1>2. u \in Streambuf /\ u.pos <= Len(u.file)
  BY <1>1 DEF Forward
<1>3. /\ Forward(u, Throw(u, "IOException"))
      /\ Throw(u, "IOException").thrown = "IOException"
  BY <1>2, ThrowForward DEF Exception
<1>4. Forward(t, Throw(u, "IOException"))
  BY <1>1, <1>3, ForwardTransitive
<1> QED
  BY <1>1, <1>3, <1>4 DEF EndStream, Then

\* Marking the stream as closed is the first thing closeStream() does.
LEMMA ClosedForward ==
  ASSUME NEW s \in Streambuf, s.pos <= Len(s.file)
  PROVE  LET v == [s EXCEPT !.zsInit = FALSE]
         IN  /\ Forward(s, v) /\ ~v.zsInit /\ v.thrown = s.thrown
             /\ v \in Streambuf /\ v.pos <= Len(v.file)
<1>1. [s EXCEPT !.zsInit = FALSE] \in Streambuf
  BY DEF Streambuf
<1> QED
  BY <1>1 DEF Forward, Latched, Streambuf

LEMMA DestroyStreamForward ==
  ASSUME NEW s \in Streambuf, s.pos <= Len(s.file)
  PROVE  Forward(s, DestroyStream(s)) /\ ~DestroyStream(s).zsInit
<1> DEFINE v == [s EXCEPT !.zsInit = FALSE]
<1> DEFINE t == OverflowDeflate(v, << >>)
<1>1. CASE ~s.zsInit
  BY <1>1, ForwardReflexive DEF DestroyStream
<1>2. CASE s.zsInit
  <2>1. /\ Forward(s, v) /\ ~v.zsInit
        /\ v \in Streambuf /\ v.pos <= Len(v.file)
    BY ClosedForward
  <2>2. DestroyStream(s) = EndStream(t)
    BY <1>2 DEF DestroyStream
  <2> HIDE DEF v
  <2>3. Forward(v, t)
    <3>1. << >> \in Seq(Byte)
      OBVIOUS
    <3> QED
      BY <2>1, <3>1, OverflowDeflateForward
  <2> HIDE DEF t
  <2>4. Forward(t, EndStream(t))
    BY <2>3, EndStreamForward DEF Forward
  <2>5. Forward(s, EndStream(t))
    BY <2>1, <2>3, <2>4, ForwardTransitive
  <2>6. ~EndStream(t).zsInit
    BY <2>1, <2>3, <2>4 DEF Forward
  <2> QED
    BY <2>2, <2>5, <2>6
<1> QED
  BY <1>1, <1>2

-----------------------------------------------------------------------------
(* ZipOutputStreambuf. *)

LEMMA OverflowStoredForward ==
  ASSUME NEW s \in Streambuf, s.pos <= Len(s.file), NEW c \in Seq(Byte)
  PROVE  /\ Forward(s, OverflowStored(s, c))
         /\ OverflowStored(s, c).thrown \in {s.thrown, "IOException"}
<1> DEFINE v == CrcPutArea(s)
<1> DEFINE t == Write(v, StoredCells(s.invec))
<1>1. Forward(s, v) /\ v.thrown = s.thrown
  BY CrcPutAreaForward
<1>2. v \in Streambuf /\ v.pos <= Len(v.file)
  BY <1>1 DEF Forward
<1>3. StoredCells(s.invec) \in Seq(Cell)
  BY DataCellsType DEF Streambuf
<1>4. Forward(v, t) /\ t.thrown \in {s.thrown, "IOException"}
  BY <1>1, <1>2, <1>3, WriteForward
<1>5. t \in Streambuf /\ t.pos <= Len(t.file)
  BY <1>4 DEF Forward
<1>6. Forward(t, [t EXCEPT !.invec = c]) /\ [t EXCEPT !.invec = c].thrown = t.thrown
  BY <1>5, InvecForward DEF Streambuf
<1>7. Forward(s, t)
  BY <1>1, <1>4, ForwardTransitive
<1>8. Forward(s, [t EXCEPT !.invec = c])
  BY <1>6, <1>7, ForwardTransitive
<1>9. OverflowStored(s, c) = Then(t, [t EXCEPT !.invec = c])
  BY DEF OverflowStored
<1> QED
  BY <1>4, <1>6, <1>7, <1>8, <1>9 DEF Then

LEMMA OverflowForward ==
  ASSUME NEW s \in Streambuf, s.pos <= Len(s.file), NEW c \in Seq(Byte)
  PROVE  /\ Forward(s, Overflow(s, c))
         /\ Overflow(s, c).thrown \in {s.thrown, "IOException"}
<1> DEFINE t == CountPutArea(s)
<1>1. Forward(s, t) /\ t.thrown = s.thrown
  BY CountPutAreaForward
<1>2. t \in Streambuf /\ t.pos <= Len(t.file)
  BY <1>1 DEF Forward
<1>3. Overflow(s, c) = IF t.level = 0 THEN OverflowStored(t, c)
                                      ELSE OverflowDeflate(t, c)
  BY DEF Overflow, CountPutArea, Streambuf
<1> HIDE DEF t
<1>4. /\ Forward(t, OverflowStored(t, c))
      /\ OverflowStored(t, c).thrown \in {s.thrown, "IOException"}
  BY <1>1, <1>2, OverflowStoredForward
<1>5. /\ Forward(t, OverflowDeflate(t, c))
      /\ OverflowDeflate(t, c).thrown \in {s.thrown, "IOException"}
  BY <1>1, <1>2, OverflowDeflateForward
<1>6. Forward(s, OverflowStored(t, c)) /\ Forward(s, OverflowDeflate(t, c))
  BY <1>1, <1>4, <1>5, ForwardTransitive
<1> QED
  BY <1>3, <1>4, <1>5, <1>6

LEMMA CloseStreamForward ==
  ASSUME NEW s \in Streambuf, s.pos <= Len(s.file)
  PROVE  /\ Forward(s, CloseStream(s))
         /\ ~CloseStream(s).zsInit
         /\ CloseStream(s).thrown \in {s.thrown, "IOException"}
<1> DEFINE v == [s EXCEPT !.zsInit = FALSE]
<1> DEFINE t == Overflow(v, << >>)
<1>1. CASE ~s.zsInit
  BY <1>1, ForwardReflexive DEF CloseStream
<1>2. CASE s.zsInit
  <2>1. /\ Forward(s, v) /\ ~v.zsInit /\ v.thrown = s.thrown
        /\ v \in Streambuf /\ v.pos <= Len(v.file)
    BY ClosedForward
  <2>2. CloseStream(s) = EndStream(t)
    BY <1>2 DEF CloseStream
  <2> HIDE DEF v
  <2>3. Forward(v, t) /\ t.thrown \in {s.thrown, "IOException"}
    <3>1. << >> \in Seq(Byte)
      OBVIOUS
    <3> QED
      BY <2>1, <3>1, OverflowForward
  <2> HIDE DEF t
  <2>4. /\ Forward(t, EndStream(t))
        /\ EndStream(t).thrown \in {s.thrown, "IOException"}
    BY <2>3, EndStreamForward DEF Forward
  <2>5. Forward(s, EndStream(t))
    BY <2>1, <2>3, <2>4, ForwardTransitive
  <2>6. ~EndStream(t).zsInit
    BY <2>1, <2>3, <2>4 DEF Forward
  <2> QED
    BY <2>2, <2>4, <2>5, <2>6
<1> QED
  BY <1>1, <1>2

LEMMA SputcForward ==
  ASSUME NEW s \in Streambuf, s.pos <= Len(s.file), NEW b \in Byte
  PROVE  Forward(s, Sputc(s, b))
<1>1. Append(s.invec, b) \in Seq(Byte) /\ << b >> \in Seq(Byte)
  BY DEF Streambuf
<1> QED
  BY <1>1, InvecForward, OverflowForward DEF Sputc

\* A local header is written at the put position, or an exception is thrown.
LEMMA WriteLocalForward ==
  ASSUME NEW s \in Streambuf, s.pos <= Len(s.file), NEW e \in Entry
  PROVE  /\ Forward(s, WriteLocal(s, e))
         /\ WriteLocal(s, e).thrown
                \in {s.thrown, "IOException", "InvalidStateException"}
         /\ WriteLocal(s, e).thrown = "none" => e.csize < WordMod
<1>1. LocalCells(e) \in Seq(Cell)
  BY HeaderCellsType
<1>2. /\ Forward(s, Write(s, LocalCells(e)))
      /\ Write(s, LocalCells(e)).thrown \in {s.thrown, "IOException"}
  BY <1>1, WriteForward
<1>3. /\ Forward(s, Throw(s, "InvalidStateException"))
      /\ Throw(s, "InvalidStateException").thrown = "InvalidStateException"
  BY ThrowForward DEF Exception
<1> QED
  BY <1>2, <1>3 DEF WriteLocal, LocalWritable

\* s and t are states between or inside calls: t is consistent, and holds what
\* was committed in s.
Safe(s, t) == Good(t) /\ Keeps(s, t) /\ (Latched(s) => Latched(t))

LEMMA CommittedRange ==
  ASSUME NEW s, Good(s)
  PROVE  Committed(s) \in Nat /\ Committed(s) <= s.pos /\ s.pos \in Nat
<1>1. CASE s.openEntry
  <2>1. LastEntry(s) \in Entry
    BY <1>1, ElementOfSeq DEF Good, Streambuf, LastEntry
  <2> QED
    BY <1>1, <2>1 DEF Good, Committed, Entry, Streambuf
<1>2. CASE ~s.openEntry
  BY <1>2 DEF Good, Committed, Streambuf
<1> QED
  BY <1>1, <1>2 DEF Good, Streambuf

LEMMA SafeTransitive ==
  ASSUME NEW s, NEW t, NEW u, Good(s), Safe(s, t), Safe(t, u)
  PROVE  Safe(s, u)
<1>1. Committed(s) \in Nat /\ Committed(t) \in Nat /\ Committed(u) \in Nat
  BY CommittedRange DEF Safe
<1> QED
  BY <1>1 DEF Safe, Keeps

LEMMA ForwardSafe ==
  ASSUME NEW s, NEW t, Good(s), Forward(s, t)
  PROVE  Safe(s, t)
BY ForwardKeeps DEF Safe, Forward

LEMMA Int32Range ==
  ASSUME NEW p \in Nat
  PROVE  Int32(p) \in Int /\ Int32(p) <= p
<1>1. (p + IntLimit) % WordMod \in Nat /\ (p + IntLimit) % WordMod <= p + IntLimit
  BY IntLimitAssumption, WordModPositive
<1> QED
  BY <1>1, IntLimitAssumption DEF Int32

LEMMA LocalHeaderSizeRange ==
  ASSUME NEW e \in Entry
  PROVE  LocalHeaderSize(e) \in Nat /\ LocalHeaderSize(e) > 0
<1>1. WrittenName(e) \in Nat /\ e.extra \in Nat
  BY WrittenNameType DEF Entry
<1> QED
  BY <1>1 DEF LocalHeaderSize

\* Going back to rewrite the local header never reaches the entry before it,
\* and the position returned to is inside the file and after the header: the
\* size check of write() is what stops a position that did not fit an int.
LEMMA UpdateEntryHeaderInfoSafe ==
  ASSUME NEW s, Good(s), s.openEntry, s.thrown = "none"
  PROVE  LET u == UpdateEntryHeaderInfo(s)
         IN  /\ Safe(s, u)
             /\ u.openEntry
             /\ u.open = s.open /\ u.level = s.level
             /\ u.zsInit => s.zsInit
             /\ u.thrown # "logic_error"
<1> DEFINE last == LastEntry(s)
<1> DEFINE curr == Int32(s.pos)
<1> DEFINE csize == SizeT(curr - last.offset - LocalHeaderSize(last))
<1> DEFINE e == [last EXCEPT !.size = s.overflown, !.crc = s.crc, !.csize = csize]
<1> DEFINE v == [s EXCEPT !.entries[Len(s.entries)] = e, !.pos = e.offset]
<1> DEFINE t == WriteLocal(v, e)
<1> DEFINE u == [t EXCEPT !.pos = curr]
<1>1. /\ s.entries \in Seq(Entry) /\ s.entries # << >>
      /\ Len(s.entries) \in 1..Len(s.entries) /\ last \in Entry
  BY ElementOfSeq, EmptySeq DEF Good, Streambuf, LastEntry
<1>2. last.offset \in Nat /\ s.pos \in Nat /\ Len(s.file) \in Nat
      /\ last.offset <= s.pos /\ s.pos <= Len(s.file)
  BY <1>1 DEF Good, Streambuf, Entry
<1>3. curr \in Int /\ curr <= s.pos
  BY <1>2, Int32Range
<1>4. LocalHeaderSize(last) \in Nat /\ LocalHeaderSize(last) > 0
  BY <1>1, LocalHeaderSizeRange
<1>5. /\ csize \in Nat
      /\ csize < WordMod => last.offset < curr
  BY <1>2, <1>3, <1>4, WordModPositive DEF SizeT
<1>6. s.overflown \in Nat /\ s.crc \in Seq(Byte)
  BY WordModPositive DEF Good, Streambuf
<1>7. e \in Entry /\ e.offset = last.offset /\ e.csize = csize
  <2> HIDE DEF last, csize
  <2> QED
    BY <1>1, <1>5, <1>6 DEF Entry
<1>8. [s.entries EXCEPT ![Len(s.entries)] = e] \in Seq(Entry)
      /\ Len([s.entries EXCEPT ![Len(s.entries)] = e]) = Len(s.entries)
      /\ [s.entries EXCEPT ![Len(s.entries)] = e][Len(s.entries)] = e
  <2> HIDE DEF e
  <2> QED
    BY <1>1, <1>7, ExceptSeq
<1>9. /\ v \in Streambuf /\ v.pos = last.offset /\ v.file = s.file
      /\ v.entries = [s.entries EXCEPT ![Len(s.entries)] = e]
      /\ v.openEntry /\ v.open = s.open /\ v.level = s.level
      /\ v.zsInit = s.zsInit /\ v.thrown = "none"
      /\ Latched(s) => Latched(v)
  <2> HIDE DEF e
  <2> QED
    BY <1>2, <1>7, <1>8 DEF Good, Streambuf, Latched
<1>10. /\ Forward(v, t)
       /\ t.thrown \in {"none", "IOException", "InvalidStateException"}
       /\ t.thrown = "none" => csize < WordMod
  <2> HIDE DEF e, v
  <2> QED
    BY <1>2, <1>7, <1>9, WriteLocalForward
<1>11. LastEntry(t) = e /\ t.entries # << >> /\ t.openEntry
  <2> HIDE DEF e, v, t
  <2> QED
    BY <1>1, <1>8, <1>9, <1>10, EmptySeq DEF Forward, LastEntry
<1>12. /\ t \in Streambuf /\ t.pos \in Nat /\ last.offset <= t.pos
       /\ t.pos <= Len(t.file) /\ Len(s.file) <= Len(t.file)
       /\ \A i \in 1..last.offset : t.file[i] = s.file[i]
       /\ Latched(s) => Latched(t)
  <2> HIDE DEF e, v, t, last
  <2> QED
    BY <1>9, <1>10 DEF Forward, Streambuf
<1>13. Committed(s) = last.offset /\ Committed(t) = last.offset
  <2> HIDE DEF e, t
  <2> QED
    BY <1>7, <1>11 DEF Committed
<1>14. Safe(s, t)
  <2> HIDE DEF e, v, t, last
  <2> QED
    BY <1>2, <1>7, <1>11, <1>12, <1>13 DEF Safe, Good, Keeps
<1>15. /\ t.open = s.open /\ t.level = s.level
       /\ t.zsInit => s.zsInit
  <2> HIDE DEF e, v, t
  <2> QED
    BY <1>9, <1>10 DEF Forward
<1>16. UpdateEntryHeaderInfo(s) = Then(t, u)
  BY DEF UpdateEntryHeaderInfo
<1>17. CASE t.thrown # "none"
  <2>1. UpdateEntryHeaderInfo(s) = t
    BY <1>16, <1>17 DEF Then
  <2> HIDE DEF t, u
  <2> QED
    BY <1>10, <1>11, <1>14, <1>15, <2>1
<1>18. CASE t.thrown = "none"
  <2>1. UpdateEntryHeaderInfo(s) = u
    BY <1>16, <1>18 DEF Then
  <2>2. last.offset < curr /\ curr \in Nat /\ curr <= Len(t.file)
    <3> HIDE DEF last, curr, csize, t
    <3> QED
      BY <1>2, <1>3, <1>5, <1>10, <1>12, <1>18
  <2> HIDE DEF last, curr, csize, e, v, t
  <2>3. /\ u \in Streambuf /\ u.pos = curr /\ u.file = t.file
        /\ u.entries = t.entries /\ u.openEntry = t.openEntry
        /\ u.open = t.open /\ u.level = t.level
        /\ u.zsInit = t.zsInit /\ u.thrown = t.thrown
        /\ u.fuse = t.fuse /\ u.short = t.short /\ u.refused = t.refused
    BY <1>12, <2>2 DEF Streambuf
  <2> HIDE DEF u
  <2>4. LastEntry(u) = e
    BY <1>11, <2>3 DEF LastEntry
  <2>5. Committed(u) = last.offset
    BY <1>7, <1>11, <2>3, <2>4 DEF Committed
  <2>6. Safe(s, u)
    BY <1>2, <1>7, <1>11, <1>12, <1>13, <2>2, <2>3, <2>4, <2>5
       DEF Safe, Good, Keeps, Latched
  <2> QED
    BY <1>11, <1>15, <1>18, <2>1, <2>3, <2>6
<1> QED
  BY <1>17, <1>18

-----------------------------------------------------------------------------
(* Opening and closing entries. *)

\* A deflate stream belongs to an open entry that is compressed.
StreamOfEntry(s) == s.zsInit => s.openEntry /\ s.level # 0

\* A deflate stream nothing was put into: closing it writes nothing.
Pristine(s) ==
  s.invec = << >> /\ s.outvec = << >> /\ s.crc = << >> /\ s.overflown = 0

\* What an exception may leave for the destructors to deal with.
Unwindable(s) ==
  s.zsInit => \/ s.openEntry /\ s.level # 0 /\ s.open
              \/ ~s.openEntry /\ Pristine(s)

LEMMA SafeReflexive ==
  ASSUME NEW s, Good(s)
  PROVE  Safe(s, s)
<1>1. Committed(s) \in Nat
  BY CommittedRange
<1> QED
  BY <1>1 DEF Safe, Keeps

\* closeEntry() leaves no deflate stream behind, whether or not it throws.
LEMMA CloseEntrySafe ==
  ASSUME NEW s, Good(s), s.thrown = "none", StreamOfEntry(s)
  PROVE  LET u == CloseEntry(s)
         IN  /\ Safe(s, u)
             /\ ~u.zsInit
             /\ u.open = s.open
             /\ u.thrown # "logic_error"
             /\ u.thrown = "none" => ~u.openEntry
<1> DEFINE t == IF s.level = 0 THEN Overflow(s, << >>) ELSE CloseStream(s)
<1> DEFINE w == UpdateEntryHeaderInfo(t)
<1> DEFINE u == Then(t, w)
<1> DEFINE v == [u EXCEPT !.openEntry = FALSE, !.crc = << >>]
<1>1. CASE ~s.openEntry
  BY <1>1, SafeReflexive DEF CloseEntry, StreamOfEntry
<1>2. CASE s.openEntry
  <2>1. s \in Streambuf /\ s.pos <= Len(s.file) /\ << >> \in Seq(Byte)
    BY DEF Good
  <2>2. /\ Forward(s, t) /\ ~t.zsInit
        /\ t.thrown \in {"none", "IOException"}
    <3>1. CASE s.level = 0
      <4>1. Forward(s, Overflow(s, << >>))
            /\ Overflow(s, << >>).thrown \in {"none", "IOException"}
        BY <2>1, OverflowForward
      <4>2. ~Overflow(s, << >>).zsInit
        BY <3>1, <4>1 DEF Forward, StreamOfEntry
      <4> QED
        BY <3>1, <4>1, <4>2
    <3>2. CASE s.level # 0
      BY <2>1, <3>2, CloseStreamForward
    <3> QED
      BY <3>1, <3>2
  <2> HIDE DEF t
  <2>3. Good(t) /\ Safe(s, t) /\ t.openEntry /\ t.open = s.open
    BY <1>2, <2>2, ForwardSafe DEF Safe, Forward
  <2>4. CloseEntry(s) = Then(u, v)
    BY <1>2 DEF CloseEntry, t
  <2>5. CASE t.thrown # "none"
    BY <2>2, <2>3, <2>4, <2>5 DEF Then
  <2>6. CASE t.thrown = "none"
    <3>1. u = w
      BY <2>6 DEF Then
    <3>2. /\ Safe(t, w) /\ w.openEntry /\ w.open = t.open
          /\ ~w.zsInit /\ w.thrown # "logic_error"
      BY <2>2, <2>3, <2>6, UpdateEntryHeaderInfoSafe
    <3> HIDE DEF w
    <3>3. Safe(s, w)
      BY <2>3, <3>2, SafeTransitive
    <3>4. CASE w.thrown # "none"
      BY <2>3, <2>4, <3>1, <3>2, <3>3, <3>4 DEF Then
    <3>5. CASE w.thrown = "none"
      <4> DEFINE x == [w EXCEPT !.openEntry = FALSE, !.crc = << >>]
      <4>1. CloseEntry(s) = x
        BY <2>4, <3>1, <3>5 DEF Then
      <4>2. w \in Streambuf /\ w.pos <= Len(w.file) /\ Good(w)
        BY <3>2 DEF Safe, Good
      <4>3. /\ x \in Streambuf /\ x.pos = w.pos /\ x.file = w.file
            /\ ~x.openEntry /\ x.open = w.open /\ x.zsInit = w.zsInit
            /\ x.thrown = w.thrown /\ x.fuse = w.fuse
            /\ x.short = w.short /\ x.refused = w.refused
        BY <2>1, <4>2 DEF Streambuf
      <4> HIDE DEF x
      <4>4. Committed(w) \in Nat /\ Committed(w) <= w.pos /\ w.pos \in Nat
        BY <4>2, CommittedRange
      <4>5. Safe(w, x)
        BY <4>2, <4>3, <4>4 DEF Safe, Good, Keeps, Committed, Latched
      <4>6. Safe(s, x)
        BY <3>3, <4>5, SafeTransitive
      <4> QED
        BY <2>3, <3>2, <3>5, <4>1, <4>3, <4>6
    <3> QED
      BY <3>4, <3>5
  <2> QED
    BY <2>5, <2>6
<1> QED
  BY <1>1, <1>2

LEMMA WriteFrame ==
  ASSUME NEW s \in Streambuf, NEW cells \in Seq(Cell)
  PROVE  LET t == Write(s, cells)
         IN  /\ t.invec = s.invec /\ t.outvec = s.outvec
             /\ t.crc = s.crc /\ t.overflown = s.overflown
             /\ t.zsInit = s.zsInit /\ t.phase = s.phase
BY DEF Write, Throw, Sputn, Streambuf

\* Readying the put area writes nothing, and finds no deflate stream.
LEMMA PrepareEntrySafe ==
  ASSUME NEW s, Good(s), ~s.zsInit, ~s.openEntry, s.thrown = "none",
         NEW e \in Entry
  PROVE  LET t == PrepareEntry(s, e)
         IN  /\ Safe(s, t)
             /\ ~t.openEntry /\ t.open = s.open /\ t.thrown = "none"
             /\ t.zsInit => t.level # 0 /\ Pristine(t)
<1> DEFINE v == [s EXCEPT !.level = EffectiveLevel(e), !.overflown = 0]
<1> DEFINE t == PrepareEntry(s, e)
<1>1. s \in Streambuf /\ s.pos <= Len(s.file) /\ s.pos \in Nat
  BY DEF Good, Streambuf
<1>2. EffectiveLevel(e) \in Nat /\ 0 \in 0..WordMod-1
  BY WordModPositive DEF EffectiveLevel, Entry
<1>3. /\ v \in Streambuf /\ ~v.zsInit /\ v.overflown = 0
      /\ v.pos = s.pos /\ v.file = s.file
      /\ ~v.openEntry /\ v.open = s.open /\ v.thrown = "none"
      /\ v.fuse = s.fuse /\ v.short = s.short /\ v.refused = s.refused
  <2> HIDE DEF Entry
  <2> QED
    BY <1>1, <1>2 DEF Streambuf
<1>4. << >> \in Seq(Byte) /\ << >> \in Seq(Cell)
  OBVIOUS
<1> HIDE DEF v
<1>5. /\ t \in Streambuf /\ t.pos = s.pos /\ t.file = s.file
      /\ ~t.openEntry /\ t.open = s.open /\ t.thrown = "none"
      /\ t.fuse = s.fuse /\ t.short = s.short /\ t.refused = s.refused
      /\ t.zsInit => t.level # 0 /\ Pristine(t)
  <2>1. CASE v.level = 0
    <3> DEFINE x == [v EXCEPT !.invec = << >>]
    <3>1. t = x
      BY <2>1 DEF PrepareEntry, v
    <3>2. /\ x \in Streambuf /\ ~x.zsInit
          /\ x.pos = v.pos /\ x.file = v.file
          /\ ~x.openEntry /\ x.open = v.open /\ x.thrown = v.thrown
          /\ x.fuse = v.fuse /\ x.short = v.short /\ x.refused = v.refused
      BY <1>3, <1>4 DEF Streambuf
    <3> HIDE DEF x, t
    <3> QED
      BY <1>3, <3>1, <3>2
  <2>2. CASE v.level # 0
    <3> DEFINE x == [v EXCEPT !.zsInit = TRUE, !.invec = << >>,
                              !.outvec = << >>, !.crc = << >>]
    <3>1. t = x
      BY <1>3, <2>2 DEF PrepareEntry, InitDeflate, v
    <3>2. x \in Streambuf
      BY <1>3, <1>4 DEF Streambuf
    <3>3. /\ x.level = v.level /\ x.overflown = v.overflown
          /\ x.invec = << >> /\ x.outvec = << >> /\ x.crc = << >>
          /\ x.pos = v.pos /\ x.file = v.file
          /\ ~x.openEntry /\ x.open = v.open /\ x.thrown = v.thrown
          /\ x.fuse = v.fuse /\ x.short = v.short /\ x.refused = v.refused
      BY <1>3 DEF Streambuf
    <3> HIDE DEF x, t
    <3> QED
      BY <1>3, <2>2, <3>1, <3>2, <3>3 DEF Pristine
  <2> QED
    BY <2>1, <2>2
<1> HIDE DEF t
<1>6. Good(t) /\ Committed(s) = s.pos /\ Committed(t) = t.pos
  BY <1>1, <1>5 DEF Good, Committed
<1>7. Keeps(s, t)
  BY <1>1, <1>5, <1>6 DEF Keeps
<1>8. Latched(s) => Latched(t)
  BY <1>5 DEF Latched
<1>9. Safe(s, t)
  BY <1>6, <1>7, <1>8 DEF Safe
<1> QED
  BY <1>5, <1>9 DEF t

\* The new entry starts at the put position: nothing before it is in reach.
LEMMA AddEntrySafe ==
  ASSUME NEW s, Good(s), ~s.openEntry, s.thrown = "none",
         s.zsInit => s.level # 0 /\ Pristine(s), NEW e \in Entry
  PROVE  LET t == AddEntry(s, e)
         IN  /\ Safe(s, t)
             /\ t.open = s.open /\ t.thrown # "logic_error"
             /\ t.thrown = "none" => StreamOfEntry(t) /\ t.openEntry
             /\ t.thrown # "none" /\ t.zsInit => ~t.openEntry /\ Pristine(t)
<1> DEFINE at == [e EXCEPT !.offset = s.pos]
<1> DEFINE v == [s EXCEPT !.entries = Append(s.entries, at)]
<1> DEFINE t == WriteLocal(v, at)
<1> DEFINE u == [t EXCEPT !.openEntry = TRUE]
<1>1. s \in Streambuf /\ s.pos <= Len(s.file) /\ s.pos \in Nat
  BY DEF Good, Streambuf
<1>2. at \in Entry /\ at.offset = s.pos
  BY <1>1 DEF Entry
<1> HIDE DEF at
<1>3. /\ Append(s.entries, at) \in Seq(Entry)
      /\ Append(s.entries, at) # << >>
      /\ Append(s.entries, at)[Len(Append(s.entries, at))] = at
  <2>1. s.entries \in Seq(Entry)
    BY <1>1 DEF Streambuf
  <2>2. /\ Len(s.entries) \in Nat
        /\ Append(s.entries, at) \in Seq(Entry)
        /\ Len(Append(s.entries, at)) = Len(s.entries) + 1
        /\ Append(s.entries, at)[Len(s.entries) + 1] = at
    BY <1>2, <2>1
  <2> QED
    BY <2>2, EmptySeq
<1>4. /\ v \in Streambuf /\ v.entries = Append(s.entries, at)
      /\ v.pos = s.pos /\ v.file = s.file /\ ~v.openEntry
      /\ v.open = s.open /\ v.thrown = "none" /\ v.zsInit = s.zsInit
      /\ v.level = s.level /\ v.invec = s.invec /\ v.outvec = s.outvec
      /\ v.crc = s.crc /\ v.overflown = s.overflown
      /\ v.fuse = s.fuse /\ v.short = s.short /\ v.refused = s.refused
  BY <1>1, <1>3 DEF Streambuf
<1> HIDE DEF v
<1>5. /\ Forward(v, t)
      /\ t.thrown \in {"none", "IOException", "InvalidStateException"}
  BY <1>1, <1>2, <1>4, WriteLocalForward
<1>6. /\ t.invec = v.invec /\ t.outvec = v.outvec
      /\ t.crc = v.crc /\ t.overflown = v.overflown
  <2>1. LocalCells(at) \in Seq(Cell)
    BY <1>2, HeaderCellsType
  <2>2. LET w == Write(v, LocalCells(at))
        IN  /\ w.invec = v.invec /\ w.outvec = v.outvec
            /\ w.crc = v.crc /\ w.overflown = v.overflown
    BY <1>4, <2>1, WriteFrame
  <2> QED
    BY <1>4, <2>2 DEF WriteLocal, Throw, Streambuf
<1> HIDE DEF t
<1>7. /\ t \in Streambuf /\ t.pos \in Nat /\ s.pos <= t.pos
      /\ t.pos <= Len(t.file) /\ t.entries = Append(s.entries, at)
      /\ ~t.openEntry /\ t.open = s.open /\ t.level = s.level
      /\ t.zsInit => s.zsInit
      /\ \A i \in 1..s.pos : t.file[i] = s.file[i]
  BY <1>4, <1>5 DEF Forward, Streambuf
<1>8. Latched(s) => Latched(t)
  <2>1. Latched(s) => Latched(v)
    BY <1>4 DEF Latched
  <2> QED
    BY <1>5, <2>1 DEF Forward
<1>9. Pristine(s) => Pristine(t)
  BY <1>4, <1>6 DEF Pristine
<1>10. Committed(s) = s.pos /\ Committed(t) = t.pos
  BY <1>7 DEF Committed
<1>11. AddEntry(s, e) = Then(t, u)
  BY DEF AddEntry, t, v, at
<1>12. CASE t.thrown # "none"
  <2>1. AddEntry(s, e) = t
    BY <1>11, <1>12 DEF Then
  <2>2. Safe(s, t)
    BY <1>1, <1>7, <1>8, <1>10 DEF Safe, Good, Keeps
  <2> QED
    BY <1>5, <1>7, <1>9, <1>12, <2>1, <2>2
<1>13. CASE t.thrown = "none"
  <2>1. AddEntry(s, e) = u
    BY <1>11, <1>13 DEF Then
  <2>2. /\ u \in Streambuf /\ u.pos = t.pos /\ u.file = t.file
        /\ u.openEntry /\ u.entries = t.entries /\ u.open = t.open
        /\ u.zsInit = t.zsInit /\ u.level = t.level /\ u.thrown = t.thrown
        /\ u.fuse = t.fuse /\ u.short = t.short /\ u.refused = t.refused
    BY <1>7 DEF Streambuf
  <2> HIDE DEF u
  <2>3. LastEntry(u) = at /\ u.entries # << >>
    BY <1>3, <1>7, <2>2 DEF LastEntry
  <2>4. Committed(u) = s.pos
    BY <1>2, <2>2, <2>3 DEF Committed
  <2>5. Safe(s, u)
    <3>1. Good(u)
      BY <1>2, <1>7, <2>2, <2>3 DEF Good
    <3>2. Keeps(s, u)
      BY <1>1, <1>7, <1>10, <2>2, <2>4 DEF Keeps
    <3>3. Latched(s) => Latched(u)
      BY <1>8, <2>2 DEF Latched
    <3> QED
      BY <3>1, <3>2, <3>3 DEF Safe
  <2>6. StreamOfEntry(u)
    BY <1>7, <2>2 DEF StreamOfEntry
  <2> QED
    BY <1>7, <1>13, <2>1, <2>2, <2>5, <2>6
<1> QED
  BY <1>12, <1>13

\* putNextEntry(): a failure leaves what the destructors can deal with.
LEMMA PutNextEntrySafe ==
  ASSUME NEW s, Good(s), s.thrown = "none", s.open, StreamOfEntry(s),
         NEW e \in Entry
  PROVE  LET u == PutNextEntry(s, e)
         IN  /\ Safe(s, u)
             /\ u.open /\ u.thrown # "logic_error"
             /\ u.thrown = "none" => StreamOfEntry(u) /\ u.openEntry
             /\ Unwindable(u)
<1> DEFINE t == CloseEntry(s)
<1> DEFINE v == PrepareEntry(t, e)
<1> DEFINE u == AddEntry(v, e)
<1>1. /\ Safe(s, t) /\ ~t.zsInit /\ t.open = s.open
      /\ t.thrown # "logic_error"
      /\ t.thrown = "none" => ~t.openEntry
  BY CloseEntrySafe
<1> HIDE DEF t
<1>2. PutNextEntry(s, e) = Then(Then(t, v), AddEntry(Then(t, v), e))
  BY DEF PutNextEntry, t
<1>3. CASE t.thrown # "none"
  <2>1. PutNextEntry(s, e) = t
    BY <1>2, <1>3 DEF Then
  <2> QED
    BY <1>1, <1>3, <2>1 DEF Unwindable
<1>4. CASE t.thrown = "none"
  <2>1. /\ Safe(t, v) /\ ~v.openEntry /\ v.open = t.open
        /\ v.thrown = "none"
        /\ v.zsInit => v.level # 0 /\ Pristine(v)
    BY <1>1, <1>4, PrepareEntrySafe DEF Safe
  <2> HIDE DEF v
  <2>2. PutNextEntry(s, e) = u
    BY <1>2, <1>4, <2>1 DEF Then
  <2>3. /\ Safe(v, u)
        /\ u.open = v.open /\ u.thrown # "logic_error"
        /\ u.thrown = "none" => StreamOfEntry(u) /\ u.openEntry
        /\ u.thrown # "none" /\ u.zsInit => ~u.openEntry /\ Pristine(u)
    BY <2>1, AddEntrySafe DEF Safe
  <2> HIDE DEF u
  <2>4. Safe(s, u)
    BY <1>1, <2>1, <2>3, SafeTransitive DEF Safe
  <2>5. Unwindable(u)
    BY <1>1, <2>1, <2>3 DEF Unwindable, StreamOfEntry
  <2> QED
    BY <1>1, <2>1, <2>2, <2>3, <2>4, <2>5
<1> QED
  BY <1>3, <1>4

-----------------------------------------------------------------------------
(* Finishing. *)

LEMMA DirectoryType ==
  ASSUME NEW s \in Streambuf, NEW start \in Nat
  PROVE  [s EXCEPT !.phase = "central", !.cdStart = start, !.cdNext = 1,
                   !.cdSize = 0] \in Streambuf
<1>1. ASSUME NEW phase \in {"idle", "central", "sealed"},
             NEW first \in Nat \ {0}, NEW size \in Nat
      PROVE  [s EXCEPT !.phase = phase, !.cdStart = start, !.cdNext = first,
                       !.cdSize = size] \in Streambuf
  BY DEF Streambuf
<1>2. 1 \in Nat \ {0} /\ 0 \in Nat
  OBVIOUS
<1> QED
  BY <1>1, <1>2

\* finish() before its loop, called on an archive that is still open, by the
\* program or by the destructor.
LEMMA BeginFinishSafe ==
  ASSUME NEW s, Good(s), s.thrown = "none", s.open, Unwindable(s)
  PROVE  LET u == BeginFinish(s)
         IN  /\ Safe(s, u)
             /\ u.zsInit => s.zsInit /\ ~s.openEntry /\ Pristine(u)
             /\ u.thrown # "logic_error"
             /\ u.thrown = "none" => ~u.openEntry /\ u.phase = "central"
<1> DEFINE v == [s EXCEPT !.open = FALSE]
<1> DEFINE t == CloseEntry(v)
<1> DEFINE u == [t EXCEPT !.phase = "central", !.cdStart = t.pos,
                          !.cdNext = 1, !.cdSize = 0]
<1>1. /\ v \in Streambuf /\ v.pos = s.pos /\ v.file = s.file
      /\ v.openEntry = s.openEntry /\ v.entries = s.entries
      /\ v.thrown = "none" /\ v.zsInit = s.zsInit /\ v.level = s.level
      /\ v.fuse = s.fuse /\ v.short = s.short /\ v.refused = s.refused
      /\ v.invec = s.invec /\ v.outvec = s.outvec
      /\ v.crc = s.crc /\ v.overflown = s.overflown
  BY DEF Good, Streambuf
<1>2. BeginFinish(s) = Then(t, u)
  BY DEF BeginFinish
<1> HIDE DEF v, t
<1>3. Good(v) /\ Safe(s, v)
  <2>1. Good(v) /\ (Latched(s) => Latched(v))
    BY <1>1 DEF Good, LastEntry, Latched
  <2>2. Committed(s) = Committed(v)
    BY <1>1 DEF Committed, LastEntry
  <2>3. Committed(s) \in Nat
    BY CommittedRange
  <2> QED
    BY <1>1, <2>1, <2>2, <2>3 DEF Safe, Keeps
<1>4. /\ Safe(v, t) /\ t.thrown # "logic_error"
      /\ t.zsInit => s.zsInit /\ ~s.openEntry /\ Pristine(t)
      /\ t.thrown = "none" => ~t.openEntry
  <2>1. CASE s.openEntry
    <3>1. StreamOfEntry(v)
      BY <1>1, <2>1 DEF Unwindable, StreamOfEntry
    <3> QED
      BY <1>1, <1>3, <3>1, CloseEntrySafe DEF t
  <2>2. CASE ~s.openEntry
    <3>1. t = v
      BY <1>1, <2>2 DEF t, CloseEntry
    <3>2. v.zsInit => Pristine(v)
      BY <1>1, <2>2 DEF Unwindable, Pristine
    <3> QED
      BY <1>1, <1>3, <2>2, <3>1, <3>2, SafeReflexive
  <2> QED
    BY <2>1, <2>2
<1>5. Safe(s, t) /\ Good(t)
  BY <1>3, <1>4, SafeTransitive DEF Safe
<1>6. CASE t.thrown # "none"
  <2>1. BeginFinish(s) = t
    BY <1>2, <1>6 DEF Then
  <2> QED
    BY <1>4, <1>5, <1>6, <2>1
<1>7. CASE t.thrown = "none"
  <2>1. BeginFinish(s) = u
    BY <1>2, <1>7 DEF Then
  <2>2. t \in Streambuf /\ t.pos \in Nat
    BY <1>5 DEF Good, Streambuf
  <2>3. /\ u \in Streambuf /\ u.pos = t.pos /\ u.file = t.file
        /\ u.openEntry = t.openEntry /\ u.entries = t.entries
        /\ u.zsInit = t.zsInit /\ u.thrown = t.thrown /\ u.phase = "central"
        /\ u.fuse = t.fuse /\ u.short = t.short /\ u.refused = t.refused
        /\ u.invec = t.invec /\ u.outvec = t.outvec
        /\ u.crc = t.crc /\ u.overflown = t.overflown
    <3>1. u \in Streambuf
      BY <2>2, DirectoryType
    <3> QED
      BY <2>2, <3>1 DEF Streambuf
  <2> HIDE DEF u
  <2>4. Safe(t, u)
    <3>1. Good(u) /\ Committed(t) = t.pos /\ Committed(u) = t.pos
      BY <1>4, <1>5, <1>7, <2>2, <2>3 DEF Good, Committed
    <3>2. Keeps(t, u)
      BY <2>2, <2>3, <3>1 DEF Keeps
    <3>3. Latched(t) => Latched(u)
      BY <2>3 DEF Latched
    <3> QED
      BY <3>1, <3>2, <3>3 DEF Safe
  <2>5. Safe(s, u)
    BY <1>5, <2>4, SafeTransitive
  <2>6. Pristine(t) => Pristine(u)
    BY <2>3 DEF Pristine
  <2> QED
    BY <1>4, <1>7, <2>1, <2>3, <2>5, <2>6
<1> QED
  BY <1>6, <1>7

LEMMA CentralHeaderSizeRange ==
  ASSUME NEW e \in Entry
  PROVE  CentralHeaderSize(e) \in Nat
BY LocalHeaderSizeRange DEF CentralHeaderSize, Entry

\* Between two entries, a call that only writes forward and then changes phase
\* and the counters of the directory is safe.
LEMMA DirectorySafe ==
  ASSUME NEW s, NEW t, NEW u, Good(s), ~s.openEntry, Forward(s, t),
         u \in Streambuf, u.pos = t.pos, u.file = t.file,
         u.openEntry = t.openEntry, u.fuse = t.fuse, u.short = t.short,
         u.refused = t.refused
  PROVE  Safe(s, u) /\ ~u.openEntry
<1>1. /\ s.pos \in Nat /\ u.pos \in Nat /\ s.pos <= u.pos
      /\ u.pos <= Len(u.file) /\ ~u.openEntry
      /\ \A i \in 1..s.pos : u.file[i] = s.file[i]
  BY DEF Good, Forward, Streambuf
<1>2. Latched(s) => Latched(u)
  BY DEF Forward, Latched
<1>3. Good(u) /\ Committed(s) = s.pos /\ Committed(u) = u.pos
  BY <1>1 DEF Good, Committed
<1>4. Keeps(s, u)
  BY <1>1, <1>3 DEF Keeps
<1> QED
  BY <1>1, <1>2, <1>3, <1>4 DEF Safe

\* What a turn of the loop of writeZipCentralDirectory() does to s.
Directory(s, u) ==
  /\ Safe(s, u)
  /\ ~u.openEntry
  /\ u.zsInit = s.zsInit
  /\ Pristine(s) => Pristine(u)
  /\ u.thrown # "logic_error"
  /\ u.phase = "sealed" /\ u.thrown = "none" /\ Latched(s) => ~u.refused

LEMMA WriteCentralSafe ==
  ASSUME NEW s, Good(s), ~s.openEntry, s.thrown = "none", s.phase = "central",
         s.cdNext <= Len(s.entries)
  PROVE  Directory(s, WriteCentral(s)) /\ WriteCentral(s).phase = "central"
<1> DEFINE e == s.entries[s.cdNext]
<1> DEFINE t == IF CentralWritable(e) THEN Write(s, CentralCells(e))
                ELSE Throw(s, "InvalidStateException")
<1> DEFINE u == [t EXCEPT !.cdNext = s.cdNext + 1,
                          !.cdSize = s.cdSize + CentralHeaderSize(e)]
<1>1. s \in Streambuf /\ s.pos <= Len(s.file)
  BY DEF Good
<1>2. /\ s.cdNext \in 1..Len(s.entries) /\ s.entries \in Seq(Entry)
      /\ s.cdSize \in Nat /\ s.cdNext + 1 \in Nat \ {0}
  BY <1>1, SMTT(20) DEF Streambuf
<1>3. e \in Entry
  BY <1>2, ElementOfSeq
<1>4. s.cdSize + CentralHeaderSize(e) \in Nat
  BY <1>2, <1>3, CentralHeaderSizeRange
<1>5. WriteCentral(s) = Then(t, u)
  BY DEF WriteCentral
<1> HIDE DEF e
<1>6. /\ Forward(s, t) /\ t.thrown # "logic_error"
      /\ t.invec = s.invec /\ t.outvec = s.outvec
      /\ t.crc = s.crc /\ t.overflown = s.overflown
      /\ t.zsInit = s.zsInit /\ t.phase = s.phase
  <2>1. CASE CentralWritable(e)
    <3>1. CentralCells(e) \in Seq(Cell)
      BY <1>3, HeaderCellsType
    <3> QED
      BY <1>1, <2>1, <3>1, WriteForward, WriteFrame
  <2>2. CASE ~CentralWritable(e)
    <3>1. t = Throw(s, "InvalidStateException")
      BY <2>2
    <3>2. Forward(s, t) /\ t.thrown = "InvalidStateException"
      BY <1>1, <3>1, ThrowForward DEF Exception
    <3> QED
      BY <1>1, <3>1, <3>2 DEF Throw, Streambuf
  <2> QED
    BY <2>1, <2>2
<1> HIDE DEF t
<1>7. t \in Streambuf
  BY <1>6 DEF Forward
<1>8. Directory(s, t) /\ t.phase = "central"
  BY <1>6, <1>7, DirectorySafe DEF Directory, Pristine
<1>9. /\ u \in Streambuf /\ u.pos = t.pos /\ u.file = t.file
      /\ u.openEntry = t.openEntry /\ u.fuse = t.fuse /\ u.short = t.short
      /\ u.refused = t.refused /\ u.thrown = t.thrown /\ u.phase = t.phase
      /\ u.invec = t.invec /\ u.outvec = t.outvec /\ u.zsInit = t.zsInit
      /\ u.crc = t.crc /\ u.overflown = t.overflown
  BY <1>2, <1>4, <1>7 DEF Streambuf
<1> HIDE DEF u
<1>10. Directory(s, u) /\ u.phase = "central"
  BY <1>6, <1>9, DirectorySafe DEF Directory, Pristine
<1> QED
  BY <1>5, <1>8, <1>10 DEF Then

LEMMA WriteEocdSafe ==
  ASSUME NEW s, Good(s), ~s.openEntry, s.thrown = "none", s.phase = "central"
  PROVE  /\ Directory(s, WriteEocd(s))
         /\ WriteEocd(s).phase \in {"central", "sealed"}
         /\ WriteEocd(s).thrown = "none" => WriteEocd(s).phase = "sealed"
<1> DEFINE n == Len(s.entries)
<1> DEFINE cells == EocdCells(n, s.cdSize, s.cdStart, s.comment)
<1> DEFINE t == IF EocdWritable(n, s.cdSize, s.cdStart, s.comment)
                THEN Write(s, cells) ELSE Throw(s, "InvalidStateException")
<1> DEFINE u == [t EXCEPT !.phase = "sealed"]
<1>1. s \in Streambuf /\ s.pos <= Len(s.file)
  BY DEF Good
<1>2. cells \in Seq(Cell)
  BY <1>1, EocdCellsType, SMTT(20) DEF Streambuf
<1>3. cells # << >>
  BY <1>1, EocdCellsType, SMTT(20) DEF Streambuf
<1>4. WriteEocd(s) = Then(t, u)
  BY DEF WriteEocd
<1> HIDE DEF cells
<1>5. /\ Forward(s, t) /\ t.thrown # "logic_error"
      /\ t.invec = s.invec /\ t.outvec = s.outvec
      /\ t.crc = s.crc /\ t.overflown = s.overflown
      /\ t.zsInit = s.zsInit /\ t.phase = s.phase
      /\ t.thrown = "none" /\ Latched(s) => ~t.refused
  <2>1. CASE EocdWritable(n, s.cdSize, s.cdStart, s.comment)
    <3>1. t = Write(s, cells)
      BY <2>1
    <3> HIDE DEF t
    <3>2. Latched(s) /\ t.thrown = "none" => ~t.refused
      BY <1>1, <1>2, <1>3, <3>1, WriteLatches
    <3> QED
      BY <1>1, <1>2, <3>1, <3>2, WriteForward, WriteFrame
  <2>2. CASE ~EocdWritable(n, s.cdSize, s.cdStart, s.comment)
    <3>1. t = Throw(s, "InvalidStateException")
      BY <2>2
    <3>2. Forward(s, t) /\ t.thrown = "InvalidStateException"
      BY <1>1, <3>1, ThrowForward DEF Exception
    <3> QED
      BY <1>1, <3>1, <3>2 DEF Throw, Streambuf
  <2> QED
    BY <2>1, <2>2
<1> HIDE DEF t
<1>6. t \in Streambuf
  BY <1>5 DEF Forward
<1>7. Directory(s, t) /\ t.phase = "central"
  BY <1>5, <1>6, DirectorySafe DEF Directory, Pristine
<1>8. /\ u \in Streambuf /\ u.pos = t.pos /\ u.file = t.file
      /\ u.openEntry = t.openEntry /\ u.fuse = t.fuse /\ u.short = t.short
      /\ u.refused = t.refused /\ u.thrown = t.thrown /\ u.phase = "sealed"
      /\ u.invec = t.invec /\ u.outvec = t.outvec /\ u.zsInit = t.zsInit
      /\ u.crc = t.crc /\ u.overflown = t.overflown
  BY <1>6 DEF Streambuf
<1> HIDE DEF u
<1>9. Directory(s, u)
  BY <1>5, <1>8, DirectorySafe DEF Directory, Pristine
<1> QED
  BY <1>4, <1>7, <1>8, <1>9 DEF Then

LEMMA CentralStepSafe ==
  ASSUME NEW s, Good(s), ~s.openEntry, s.thrown = "none", s.phase = "central"
  PROVE  LET u == CentralStep(s)
         IN  /\ Directory(s, u)
             /\ u.thrown = "none" => u.phase \in {"central", "sealed"}
             /\ u.thrown # "none" => u.phase = "idle"
<1> DEFINE t == IF s.cdNext <= Len(s.entries) THEN WriteCentral(s) ELSE WriteEocd(s)
<1> DEFINE u == [t EXCEPT !.phase = "idle"]
<1>1. Directory(s, t) /\ t.phase \in {"central", "sealed"}
  BY WriteCentralSafe, WriteEocdSafe
<1>2. CentralStep(s) = IF t.thrown # "none" THEN u ELSE t
  BY DEF CentralStep
<1> HIDE DEF t
<1>3. Good(t) /\ t \in Streambuf /\ ~t.openEntry
  BY <1>1 DEF Directory, Safe, Good
<1>4. /\ u \in Streambuf /\ u.pos = t.pos /\ u.file = t.file
      /\ u.openEntry = t.openEntry /\ u.fuse = t.fuse /\ u.short = t.short
      /\ u.refused = t.refused /\ u.thrown = t.thrown /\ u.phase = "idle"
      /\ u.invec = t.invec /\ u.outvec = t.outvec /\ u.zsInit = t.zsInit
      /\ u.crc = t.crc /\ u.overflown = t.overflown
  BY <1>3 DEF Streambuf
<1> HIDE DEF u
<1>5. Forward(t, t)
  BY <1>3, ForwardReflexive DEF Good
<1>6. Safe(t, u)
  BY <1>3, <1>4, <1>5, DirectorySafe
<1>7. Safe(s, u)
  BY <1>1, <1>6, SafeTransitive DEF Directory
<1>8. Directory(s, u)
  BY <1>1, <1>3, <1>4, <1>7 DEF Directory, Pristine
<1> QED
  BY <1>1, <1>2, <1>4, <1>8

-----------------------------------------------------------------------------
(* The destructor. *)

\* Nothing is flushed, and so nothing is thrown, by a deflate stream that
\* nothing was put into.
LEMMA ClosePristine ==
  ASSUME NEW s, Good(s), s.thrown = "none", s.zsInit => Pristine(s)
  PROVE  DestroyStream(s).thrown = "none"
<1> DEFINE v == [s EXCEPT !.zsInit = FALSE]
<1> DEFINE w == [v EXCEPT !.crc = << >>]
<1>1. CASE ~s.zsInit
  BY <1>1 DEF DestroyStream
<1>2. CASE s.zsInit
  <2>1. s \in Streambuf /\ Pristine(s)
    BY <1>2 DEF Good
  <2>2. /\ v \in Streambuf /\ v.invec = << >> /\ v.outvec = << >>
        /\ v.crc = << >> /\ v.overflown = 0 /\ v.thrown = "none"
    BY <2>1 DEF Streambuf, Pristine
  <2> HIDE DEF v
  <2>3. v.crc \o v.invec = << >>
    BY <2>2
  <2>4. /\ w \in Streambuf /\ w.invec = << >> /\ w.outvec = << >>
        /\ w.crc = << >> /\ w.overflown = 0 /\ w.thrown = "none"
    <3>1. << >> \in Seq(Byte)
      OBVIOUS
    <3> QED
      BY <2>2, <3>1 DEF Streambuf
  <2>5. CrcPutArea(v) = w
    BY <2>3 DEF CrcPutArea
  <2> HIDE DEF w
  <2> DEFINE x == [w EXCEPT !.outvec = << >>]
  <2> DEFINE y == [x EXCEPT !.invec = << >>]
  <2> DEFINE z == [y EXCEPT !.outvec = << >>]
  <2>6. FlushOutvec(w) = x
    BY <2>4 DEF FlushOutvec, Write, Then
  <2>7. /\ x.thrown = "none" /\ y.thrown = "none" /\ y.overflown = 0
        /\ y.crc = << >> /\ z.thrown = "none" /\ z.overflown = 0
        /\ z.crc = << >> /\ z.outvec = << >>
    BY <2>4 DEF Streambuf
  <2>8. OverflowDeflate(v, << >>) = y
    BY <2>2, <2>5, <2>6, <2>7 DEF OverflowDeflate, Then
  <2> DEFINE q == [z EXCEPT !.outvec = << >>]
  <2>9. FlushOutvec(z) = q
    BY <2>7 DEF FlushOutvec, Write, Then
  <2>10. q.thrown = "none" /\ q.crc = << >>
    BY <2>4 DEF Streambuf
  <2>11. EndDeflation(y) = q
    <3>1. (IF y.overflown > 0 THEN << [k |-> "zend"] >> ELSE << >>) = << >>
      BY <2>7
    <3> HIDE DEF y, q
    <3> QED
      BY <2>7, <2>9, <3>1 DEF EndDeflation, Then
  <2> HIDE DEF y, q
  <2>12. EndStream(y).thrown = "none"
    BY <2>10, <2>11 DEF EndStream, Then
  <2> QED
    BY <1>2, <2>8, <2>12 DEF DestroyStream, v
<1> QED
  BY <1>1, <1>2

-----------------------------------------------------------------------------
(* What a call that does not throw has stored. *)

LEMMA OverwriteStores ==
  ASSUME NEW C, NEW f \in Seq(C), NEW cells \in Seq(C), NEW p \in 0..Len(f)
  PROVE  LET g == Overwrite(f, p, cells)
         IN  /\ Len(g) = IF p + Len(cells) > Len(f) THEN p + Len(cells) ELSE Len(f)
             /\ \A i \in 1..Len(cells) : g[p + i] = cells[i]
             /\ \A i \in 1..Len(f) : i > p + Len(cells) => g[i] = f[i]
<1> DEFINE n == IF p + Len(cells) > Len(f) THEN p + Len(cells) ELSE Len(f)
<1> DEFINE g == Overwrite(f, p, cells)
<1>1. n \in Nat /\ n >= Len(f) /\ n >= p + Len(cells) /\ p \in Nat
      /\ Len(cells) \in Nat /\ Len(f) \in Nat
  OBVIOUS
<1>2. g = [i \in 1..n |-> IF p < i /\ i <= p + Len(cells) THEN cells[i - p] ELSE f[i]]
  BY DEF Overwrite
<1>3. g \in Seq(C)
  BY OverwriteKeeps
<1> HIDE DEF n, g
<1>4. Len(g) = n
  BY <1>1, <1>2, <1>3
<1>5. ASSUME NEW i \in 1..Len(cells) PROVE g[p + i] = cells[i]
  <2>1. p + i \in 1..n /\ p < p + i /\ p + i <= p + Len(cells) /\ (p + i) - p = i
    BY <1>1
  <2> QED
    BY <1>2, <2>1
<1>6. ASSUME NEW i \in 1..Len(f), i > p + Len(cells) PROVE g[i] = f[i]
  <2>1. i \in 1..n
    BY <1>1
  <2> QED
    BY <1>1, <1>2, <1>6, <2>1
<1> QED
  BY <1>4, <1>5, <1>6 DEF n, g

\* A write that does not throw stored every cell and left the others alone.
LEMMA WriteStores ==
  ASSUME NEW s \in Streambuf, s.pos <= Len(s.file), NEW cells \in Seq(Cell),
         s.thrown = "none", Write(s, cells).thrown = "none"
  PROVE  LET t == Write(s, cells)
         IN  /\ Len(t.file) = IF s.pos + Len(cells) > Len(s.file)
                              THEN s.pos + Len(cells) ELSE Len(s.file)
             /\ \A i \in 1..Len(cells) : t.file[s.pos + i] = cells[i]
             /\ \A i \in 1..Len(s.file) :
                    i > s.pos + Len(cells) => t.file[i] = s.file[i]
<1> DEFINE t == Write(s, cells)
<1>1. s.file \in Seq(Cell) /\ s.pos \in 0..Len(s.file) /\ Len(cells) \in Nat
  BY DEF Streambuf
<1>2. CASE cells = << >>
  <2>1. t = s
    BY <1>2 DEF Write
  <2> QED
    BY <1>1, <1>2, <2>1
<1>3. CASE cells # << >>
  <2>1. Accepted(s, Len(cells)) \in 0..Len(cells)
    BY <1>1, AcceptedRange
  <2>2. ~(Accepted(s, Len(cells)) < Len(cells))
    BY <1>3 DEF Write, Throw, Sputn, Streambuf
  <2>3. Accepted(s, Len(cells)) = Len(cells)
    BY <1>1, <2>1, <2>2
  <2>4. t = Sputn(s, cells)
    BY <1>3, <2>2 DEF Write
  <2>5. SubSeq(cells, 1, Len(cells)) = cells
    OBVIOUS
  <2>a. Sputn(s, cells).file
          = Overwrite(s.file, s.pos, SubSeq(cells, 1, Accepted(s, Len(cells))))
    BY DEF Sputn, Streambuf
  <2>6. t.file = Overwrite(s.file, s.pos, cells)
    BY <2>3, <2>4, <2>5, <2>a
  <2> DEFINE g == Overwrite(s.file, s.pos, cells)
  <2>7. /\ Len(g) = IF s.pos + Len(cells) > Len(s.file)
                    THEN s.pos + Len(cells) ELSE Len(s.file)
        /\ \A i \in 1..Len(cells) : g[s.pos + i] = cells[i]
        /\ \A i \in 1..Len(s.file) : i > s.pos + Len(cells) => g[i] = s.file[i]
    BY <1>1, OverwriteStores
  <2> HIDE DEF t, g
  <2> QED
    BY <2>6, <2>7 DEF t, g
<1> QED
  BY <1>2, <1>3

\* A write that throws was refused something.
LEMMA WriteRefused ==
  ASSUME NEW s \in Streambuf, s.thrown = "none", NEW cells \in Seq(Cell),
         Write(s, cells).thrown # "none"
  PROVE  Write(s, cells).refused
<1>1. cells # << >> /\ Accepted(s, Len(cells)) < Len(cells)
  BY DEF Write, Sputn, Streambuf
<1> DEFINE t == Sputn(s, cells)
<1>2. Write(s, cells) = Throw(t, "IOException")
  BY <1>1 DEF Write
<1>3. t.refused
  BY <1>1 DEF Sputn, Streambuf
<1>4. Throw(t, "IOException").refused = t.refused
  BY DEF Throw, Sputn, Streambuf
<1> QED
  BY <1>2, <1>3, <1>4

\* The cells of a padding, and of a header: its fixed part first, and as many
\* as its size says.
LEMMA RepeatShape ==
  ASSUME NEW kind \in PadKind, NEW n \in Nat
  PROVE  /\ Repeat(kind, n) \in Seq(Cell) /\ Len(Repeat(kind, n)) = n
         /\ \A i \in 1..n : Repeat(kind, n)[i].k = kind
<1>1. Repeat(kind, n) \in Seq(Cell)
  BY RepeatType
<1>2. Repeat(kind, n) = [i \in 1..n |-> [k |-> kind]]
  BY DEF Repeat
<1>3. Len(Repeat(kind, n)) = n
  BY <1>1, <1>2
<1>4. \A i \in 1..n : Repeat(kind, n)[i].k = kind
  BY <1>2
<1> QED
  BY <1>1, <1>3, <1>4

LEMMA ConcatShape ==
  ASSUME NEW a \in Seq(Cell), NEW b \in Seq(Cell)
  PROVE  /\ a \o b \in Seq(Cell) /\ Len(a \o b) = Len(a) + Len(b)
         /\ \A i \in 1..Len(a) : (a \o b)[i] = a[i]
         /\ \A i \in 1..Len(b) : (a \o b)[Len(a) + i] = b[i]
<1>1. Len(a) \in Nat /\ Len(b) \in Nat
  OBVIOUS
<1>2. /\ a \o b \in Seq(Cell) /\ Len(a \o b) = Len(a) + Len(b)
      /\ \A i \in 1..Len(a) + Len(b) :
            (a \o b)[i] = IF i <= Len(a) THEN a[i] ELSE b[i - Len(a)]
  BY ConcatProperties
<1>3. \A i \in 1..Len(a) : i \in 1..Len(a) + Len(b) /\ i <= Len(a)
  BY <1>1
<1>4. \A i \in 1..Len(b) : /\ Len(a) + i \in 1..Len(a) + Len(b)
                           /\ ~(Len(a) + i <= Len(a)) /\ (Len(a) + i) - Len(a) = i
  BY <1>1
<1> QED
  BY <1>2, <1>3, <1>4

LEMMA ConsShape ==
  ASSUME NEW c \in Cell, NEW a \in Seq(Cell)
  PROVE  /\ << c >> \o a \in Seq(Cell) /\ Len(<< c >> \o a) = 1 + Len(a)
         /\ (<< c >> \o a)[1] = c
         /\ \A i \in 1..Len(a) : (<< c >> \o a)[1 + i] = a[i]
<1> DEFINE one == << c >>
<1>1. one \in Seq(Cell) /\ Len(one) = 1 /\ one[1] = c
  OBVIOUS
<1> HIDE DEF one
<1>2. /\ one \o a \in Seq(Cell) /\ Len(one \o a) = 1 + Len(a)
      /\ \A i \in 1..1 : (one \o a)[i] = one[i]
      /\ \A i \in 1..Len(a) : (one \o a)[1 + i] = a[i]
  <2>1. one \in Seq(Cell) /\ a \in Seq(Cell)
    BY <1>1
  <2>2. /\ one \o a \in Seq(Cell) /\ Len(one \o a) = Len(one) + Len(a)
        /\ \A i \in 1..Len(one) : (one \o a)[i] = one[i]
        /\ \A i \in 1..Len(a) : (one \o a)[Len(one) + i] = a[i]
    BY <2>1, ConcatShape, Zenon
  <2>3. Len(one) = 1
    BY <1>1
  <2> QED
    BY <2>2, <2>3, Zenon
<1>3. (one \o a)[1] = c
  BY <1>1, <1>2
<1> QED
  BY <1>2, <1>3 DEF one

LEMMA LocalCellsShape ==
  ASSUME NEW e \in Entry
  PROVE  /\ Len(LocalCells(e)) = LocalHeaderSize(e)
         /\ LocalCells(e)[1] = [k |-> "local", h |-> HeaderOf(e, 0, 0)]
<1> DEFINE c == [k |-> "local", h |-> HeaderOf(e, 0, 0)]
<1> DEFINE name == Repeat("name", WrittenName(e))
<1> DEFINE extra == Repeat("extra", e.extra)
<1>1. e.extra \in Nat /\ WrittenName(e) \in Nat
  BY WrittenNameType DEF Entry
<1>2. c \in Cell
  BY HeaderType DEF Cell
<1>3. name \in Seq(Cell) /\ Len(name) = WrittenName(e)
  BY <1>1, RepeatShape DEF PadKind
<1>4. extra \in Seq(Cell) /\ Len(extra) = e.extra
  BY <1>1, RepeatShape DEF PadKind
<1>5. LocalCells(e) = (<< c >> \o name) \o extra
  BY DEF LocalCells
<1> HIDE DEF c, name, extra
<1> DEFINE front == << c >> \o name
<1>6. front \in Seq(Cell) /\ Len(front) = 1 + Len(name) /\ front[1] = c
  BY <1>2, <1>3, ConsShape
<1>a. LocalCells(e) = front \o extra
  BY <1>5
<1> HIDE DEF front
<1>7. /\ Len(LocalCells(e)) = 1 + Len(name) + Len(extra)
      /\ LocalCells(e)[1] = c
  <2>1. /\ Len(front \o extra) = Len(front) + Len(extra)
        /\ \A i \in 1..Len(front) : (front \o extra)[i] = front[i]
    BY <1>4, <1>6, ConcatShape
  <2>2. 1 \in 1..Len(front)
    BY <1>3, <1>6
  <2> QED
    BY <1>6, <1>a, <2>1, <2>2
<1> QED
  BY <1>3, <1>4, <1>7 DEF LocalHeaderSize, c

LEMMA CentralCellsShape ==
  ASSUME NEW e \in Entry
  PROVE  /\ Len(CentralCells(e)) = CentralHeaderSize(e)
         /\ CentralCells(e)[1]
                = [k |-> "central", h |-> HeaderOf(e, e.comment, e.offset)]
<1> DEFINE c == [k |-> "central", h |-> HeaderOf(e, e.comment, e.offset)]
<1> DEFINE name == Repeat("name", WrittenName(e))
<1> DEFINE extra == Repeat("extra", e.extra)
<1> DEFINE comment == Repeat("comment", e.comment)
<1>1. /\ e.extra \in Nat /\ e.comment \in Nat /\ e.offset \in Nat
      /\ WrittenName(e) \in Nat
  BY WrittenNameType DEF Entry
<1>2. c \in Cell
  BY <1>1, HeaderType DEF Cell
<1>3. name \in Seq(Cell) /\ Len(name) = WrittenName(e)
  BY <1>1, RepeatShape DEF PadKind
<1>4. /\ extra \in Seq(Cell) /\ Len(extra) = e.extra
      /\ comment \in Seq(Cell) /\ Len(comment) = e.comment
  BY <1>1, RepeatShape DEF PadKind
<1>5. CentralCells(e) = ((<< c >> \o name) \o extra) \o comment
  BY DEF CentralCells
<1> DEFINE front == << c >> \o name
<1> HIDE DEF c, name, extra, comment
<1>6. front \in Seq(Cell) /\ Len(front) = 1 + Len(name) /\ front[1] = c
  BY <1>2, <1>3, ConsShape
<1>a. CentralCells(e) = (front \o extra) \o comment
  BY <1>5
<1> DEFINE middle == front \o extra
<1> HIDE DEF front
<1>7. /\ middle \in Seq(Cell) /\ Len(middle) = 1 + Len(name) + Len(extra)
      /\ middle[1] = c
  <2>1. /\ middle \in Seq(Cell) /\ Len(middle) = Len(front) + Len(extra)
        /\ \A i \in 1..Len(front) : middle[i] = front[i]
    BY <1>4, <1>6, ConcatShape
  <2>2. 1 \in 1..Len(front)
    BY <1>3, <1>6
  <2> HIDE DEF middle
  <2> QED
    BY <1>6, <2>1, <2>2
<1>8. CentralCells(e) = middle \o comment
  BY <1>a
<1> HIDE DEF middle
<1>9. /\ Len(CentralCells(e)) = 1 + Len(name) + Len(extra) + Len(comment)
      /\ CentralCells(e)[1] = c
  <2>1. /\ Len(middle \o comment) = Len(middle) + Len(comment)
        /\ \A i \in 1..Len(middle) : (middle \o comment)[i] = middle[i]
    BY <1>4, <1>7, ConcatShape
  <2>2. 1 \in 1..Len(middle)
    BY <1>1, <1>3, <1>4, <1>7
  <2> QED
    BY <1>7, <1>8, <2>1, <2>2
<1> QED
  BY <1>1, <1>3, <1>4, <1>9 DEF LocalHeaderSize, CentralHeaderSize, c

\* The fixed part of the end of central directory.
EocdHead(n, cd, at, m) ==
  [k |-> "eocd", count |-> n % FieldMod, size |-> cd % WordMod,
   offset |-> at % WordMod, clen |-> m % FieldMod]

\* No end of central directory begins in the cells from the p-th on.
NoEocdFrom(p, f) == \A i \in p..Len(f) : f[i].k # "eocd"

LEMMA EocdCellsShape ==
  ASSUME NEW n \in Nat, NEW cd \in Nat, NEW at \in Nat, NEW m \in Nat
  PROVE  LET cells == EocdCells(n, cd, at, m)
         IN  /\ cells \in Seq(Cell)
             /\ Len(cells) = EocdSize + m
             /\ cells[1] = EocdHead(n, cd, at, m)
             /\ NoEocdFrom(2, cells)
<1> DEFINE c == EocdHead(n, cd, at, m)
<1> DEFINE rest == Repeat("eocdRest", EocdSize - 1)
<1> DEFINE comment == Repeat("comment", m)
<1> DEFINE cells == EocdCells(n, cd, at, m)
<1>1. \A v \in Nat : v % WordMod \in Nat /\ v % FieldMod \in Nat
  BY WordModPositive, FieldModAssumption
<1>2. c \in Cell
  BY <1>1 DEF Cell, EocdHead
<1>3. EocdSize - 1 \in Nat
  BY EocdSizeAssumption
<1>4. /\ rest \in Seq(Cell) /\ Len(rest) = EocdSize - 1
      /\ \A i \in 1..EocdSize - 1 : rest[i].k = "eocdRest"
  BY <1>3, RepeatShape, ZenonT(40) DEF PadKind
<1>5. /\ comment \in Seq(Cell) /\ Len(comment) = m
      /\ \A i \in 1..m : comment[i].k = "comment"
  BY RepeatShape DEF PadKind
<1>6. cells = (<< c >> \o rest) \o comment
  BY DEF EocdCells, EocdHead
<1> DEFINE front == << c >> \o rest
<1> HIDE DEF c, rest, comment, cells
<1>7. /\ front \in Seq(Cell) /\ Len(front) = EocdSize /\ front[1] = c
      /\ \A i \in 2..EocdSize : front[i] = rest[i - 1]
  <2>1. /\ front \in Seq(Cell) /\ Len(front) = 1 + Len(rest) /\ front[1] = c
        /\ \A i \in 1..Len(rest) : front[1 + i] = rest[i]
    BY <1>2, <1>4, ConsShape
  <2>2. \A i \in 2..EocdSize : i - 1 \in 1..EocdSize - 1 /\ 1 + (i - 1) = i
    BY EocdSizeAssumption
  <2> HIDE DEF front
  <2> QED
    BY <1>4, <2>1, <2>2, EocdSizeAssumption
<1>8. cells = front \o comment
  BY <1>6
<1> HIDE DEF front
<1>9. /\ cells \in Seq(Cell) /\ Len(cells) = EocdSize + m /\ cells[1] = c
      /\ \A i \in 1..EocdSize : cells[i] = front[i]
      /\ \A i \in EocdSize + 1..EocdSize + m : cells[i] = comment[i - EocdSize]
  <2>1. /\ cells \in Seq(Cell) /\ Len(cells) = EocdSize + m
        /\ \A i \in 1..EocdSize : cells[i] = front[i]
        /\ \A i \in 1..m : cells[EocdSize + i] = comment[i]
    BY <1>5, <1>7, <1>8, ConcatShape
  <2>2. \A i \in EocdSize + 1..EocdSize + m :
            i - EocdSize \in 1..m /\ EocdSize + (i - EocdSize) = i
    BY EocdSizeAssumption
  <2>3. 1 \in 1..EocdSize
    BY EocdSizeAssumption
  <2> QED
    BY <1>7, <2>1, <2>2, <2>3
<1>10. ASSUME NEW i \in 2..Len(cells) PROVE cells[i].k # "eocd"
  <2>1. CASE i <= EocdSize
    <3>1. i \in 1..EocdSize /\ i \in 2..EocdSize /\ i - 1 \in 1..EocdSize - 1
      BY <2>1, EocdSizeAssumption
    <3>2. cells[i].k = "eocdRest"
      BY <1>4, <1>7, <1>9, <3>1
    <3> QED
      BY <3>2
  <2>2. CASE i > EocdSize
    <3>1. i \in EocdSize + 1..EocdSize + m /\ i - EocdSize \in 1..m
      BY <1>9, <2>2, EocdSizeAssumption
    <3>2. cells[i].k = "comment"
      BY <1>5, <1>9, <3>1
    <3> QED
      BY <3>2
  <2> QED
    BY <2>1, <2>2, EocdSizeAssumption
<1> QED
  BY <1>9, <1>10 DEF cells, c, NoEocdFrom

-----------------------------------------------------------------------------
(* The data of the open entry. *)

DataCell(level, b) == [k |-> IF level = 0 THEN "data" ELSE "zdata", b |-> b]

\* Where the data of an entry begins, for whoever writes it.
DataAt(e) == e.offset + LocalHeaderSize(e)

\* The file ends with bytes, which begin at a position.
Filled(f, at, level, bytes) ==
  /\ Len(f) = at + Len(bytes)
  /\ \A i \in 1..Len(bytes) : f[at + i] = DataCell(level, bytes[i])

\* The file ends with the data of the open entry as far as it has left the put
\* area, and they are what was counted and what the CRC was taken of.
Filling(s) ==
  /\ s.pos = Len(s.file)
  /\ s.level = EffectiveLevel(LastEntry(s))
  /\ Filled(s.file, DataAt(LastEntry(s)), s.level, s.crc)
  /\ Len(s.crc) < WordMod => s.overflown = Len(s.crc)
  /\ s.level # 0 => s.outvec = << >>

LEMMA DataCellsShape ==
  ASSUME NEW bytes \in Seq(Byte)
  PROVE  /\ Len(StoredCells(bytes)) = Len(bytes)
         /\ Len(DeflatedCells(bytes)) = Len(bytes)
         /\ \A i \in 1..Len(bytes) :
                /\ StoredCells(bytes)[i] = [k |-> "data", b |-> bytes[i]]
                /\ DeflatedCells(bytes)[i] = [k |-> "zdata", b |-> bytes[i]]
<1>1. /\ StoredCells(bytes) \in Seq(Cell) /\ DeflatedCells(bytes) \in Seq(Cell)
      /\ Len(bytes) \in Nat
  BY DataCellsType
<1>2. /\ StoredCells(bytes) = [i \in 1..Len(bytes) |-> [k |-> "data", b |-> bytes[i]]]
      /\ DeflatedCells(bytes) = [i \in 1..Len(bytes) |-> [k |-> "zdata", b |-> bytes[i]]]
  BY DEF StoredCells, DeflatedCells
<1>3. Len(StoredCells(bytes)) = Len(bytes) /\ Len(DeflatedCells(bytes)) = Len(bytes)
  BY <1>1, <1>2
<1> QED
  BY <1>2, <1>3

LEMMA DataAtType ==
  ASSUME NEW e \in Entry
  PROVE  DataAt(e) \in Nat /\ DataAt(e) > e.offset
<1>1. e.offset \in Nat
  BY DEF Entry
<1> QED
  BY <1>1, LocalHeaderSizeRange DEF DataAt

LEMMA LastEntryType ==
  ASSUME NEW s \in Streambuf, s.entries # << >>
  PROVE  LastEntry(s) \in Entry /\ Len(s.entries) \in 1..Len(s.entries)
<1>1. s.entries \in Seq(Entry)
  BY DEF Streambuf
<1>2. Len(s.entries) \in 1..Len(s.entries)
  BY <1>1, EmptySeq
<1> QED
  BY <1>1, <1>2, ElementOfSeq DEF LastEntry

\* Writing more data behind those that are there.
LEMMA FilledMore ==
  ASSUME NEW v \in Streambuf, v.thrown = "none", v.pos = Len(v.file),
         NEW at \in Nat, NEW level, NEW done \in Seq(Byte), NEW more \in Seq(Byte),
         Filled(v.file, at, level, done),
         NEW cells \in Seq(Cell), Len(cells) = Len(more),
         \A i \in 1..Len(more) : cells[i] = DataCell(level, more[i]),
         Write(v, cells).thrown = "none"
  PROVE  LET w == Write(v, cells)
         IN  w.pos = Len(w.file) /\ Filled(w.file, at, level, done \o more)
<1> DEFINE w == Write(v, cells)
<1> DEFINE all == done \o more
<1>1. /\ v.file \in Seq(Cell) /\ Len(v.file) \in Nat
      /\ Len(done) \in Nat /\ Len(more) \in Nat /\ v.pos <= Len(v.file)
      /\ Len(cells) \in Nat
  BY SMTT(20) DEF Streambuf
<1>2. /\ all \in Seq(Byte) /\ Len(all) = Len(done) + Len(more)
      /\ \A i \in 1..Len(done) + Len(more) :
            all[i] = IF i <= Len(done) THEN done[i] ELSE more[i - Len(done)]
  BY ConcatProperties
<1>3. /\ Forward(v, w)
      /\ w.pos = v.pos + Len(cells)
  BY <1>1, WriteForward
<1>4. /\ Len(w.file) = v.pos + Len(cells)
      /\ \A i \in 1..Len(cells) : w.file[v.pos + i] = cells[i]
  <2>1. /\ Len(w.file) = IF v.pos + Len(cells) > Len(v.file)
                         THEN v.pos + Len(cells) ELSE Len(v.file)
        /\ \A i \in 1..Len(cells) : w.file[v.pos + i] = cells[i]
    BY <1>1, WriteStores
  <2> HIDE DEF w
  <2> QED
    BY <1>1, <2>1
<1>5. \A i \in 1..v.pos : w.file[i] = v.file[i]
  BY <1>3 DEF Forward
<1> HIDE DEF w, all
<1>6. Len(v.file) = at + Len(done)
      /\ \A i \in 1..Len(done) : v.file[at + i] = DataCell(level, done[i])
  BY DEF Filled
<1>7. w.pos = Len(w.file) /\ Len(w.file) = at + Len(all)
  BY <1>1, <1>2, <1>3, <1>4, <1>6
<1>8. ASSUME NEW i \in 1..Len(all) PROVE w.file[at + i] = DataCell(level, all[i])
  <2>1. CASE i <= Len(done)
    <3>1. i \in 1..Len(done) /\ at + i \in 1..v.pos
      BY <1>1, <1>6, <2>1
    <3> QED
      BY <1>1, <1>2, <1>5, <1>6, <2>1, <3>1
  <2>2. CASE ~(i <= Len(done))
    <3>1. /\ i - Len(done) \in 1..Len(cells)
          /\ at + i = v.pos + (i - Len(done))
          /\ i \in 1..Len(done) + Len(more)
      BY <1>1, <1>2, <1>6, <2>2
    <3> QED
      BY <1>2, <1>4, <2>2, <3>1
  <2> QED
    BY <2>1, <2>2
<1>9. Filled(w.file, at, level, all)
  BY <1>7, <1>8 DEF Filled
<1> QED
  BY <1>7, <1>9 DEF w, all

LEMMA ModSmall ==
  ASSUME NEW n \in Nat, n < WordMod
  PROVE  n % WordMod = n
BY WordModPositive

\* A count that is right as long as it does not wrap stays so.
LEMMA CountMore ==
  ASSUME NEW a \in Nat, NEW b \in Nat, NEW count, a < WordMod => count = a,
         a + b < WordMod
  PROVE  (count + b) % WordMod = a + b
<1>1. a < WordMod
  BY WordModPositive
<1>2. a + b \in Nat /\ count = a
  BY <1>1
<1>3. (a + b) % WordMod = a + b
  BY <1>2, ModSmall
<1> QED
  BY <1>2, <1>3

\* What both overflow() functions have before they write: the put area, counted
\* and taken into the CRC.
LEMMA TakenPutArea ==
  ASSUME NEW s \in Streambuf
  PROVE  LET v == CrcPutArea(CountPutArea(s))
         IN  /\ v \in Streambuf
             /\ v.pos = s.pos /\ v.file = s.file /\ v.thrown = s.thrown
             /\ v.level = s.level /\ v.entries = s.entries
             /\ v.invec = s.invec /\ v.outvec = s.outvec
             /\ v.fuse = s.fuse /\ v.short = s.short /\ v.refused = s.refused
             /\ v.crc = s.crc \o s.invec
             /\ v.overflown = (s.overflown + Len(s.invec)) % WordMod
             /\ CountPutArea(s).level = s.level
             /\ CountPutArea(s).invec = s.invec
<1> DEFINE n == (s.overflown + Len(s.invec)) % WordMod
<1> DEFINE u == [s EXCEPT !.overflown = n]
<1> DEFINE v == [u EXCEPT !.crc = u.crc \o u.invec]
<1>1. s.crc \o s.invec \in Seq(Byte)
  BY DEF Streambuf
<1>2. n \in 0..WordMod-1
  <2>1. Len(s.invec) \in Nat /\ s.overflown \in Nat
    BY WordModPositive DEF Streambuf
  <2> QED
    BY <2>1, WordModPositive
<1> HIDE DEF n
<1>3. u \in Streambuf
  BY <1>2 DEF Streambuf
<1>4. /\ u.pos = s.pos /\ u.file = s.file /\ u.thrown = s.thrown
      /\ u.level = s.level /\ u.entries = s.entries
      /\ u.invec = s.invec /\ u.outvec = s.outvec /\ u.crc = s.crc
      /\ u.fuse = s.fuse /\ u.short = s.short /\ u.refused = s.refused
      /\ u.overflown = n
  BY DEF Streambuf
<1>5. CountPutArea(s) = u
  BY DEF CountPutArea, n
<1> HIDE DEF u
<1>6. v \in Streambuf
  BY <1>1, <1>3, <1>4 DEF Streambuf
<1>7. /\ v.pos = u.pos /\ v.file = u.file /\ v.thrown = u.thrown
      /\ v.level = u.level /\ v.entries = u.entries
      /\ v.invec = u.invec /\ v.outvec = u.outvec /\ v.crc = u.crc \o u.invec
      /\ v.fuse = u.fuse /\ v.short = u.short /\ v.refused = u.refused
      /\ v.overflown = u.overflown
  BY <1>3 DEF Streambuf
<1>8. CrcPutArea(u) = v
  BY DEF CrcPutArea
<1> HIDE DEF v
<1> QED
  BY <1>4, <1>5, <1>6, <1>7, <1>8 DEF n

LEMMA OverflowFills ==
  ASSUME NEW s \in Streambuf, s.entries # << >>, s.thrown = "none", Filling(s),
         NEW c \in Seq(Byte), Overflow(s, c).thrown = "none"
  PROVE  LET t == Overflow(s, c)
         IN  Filling(t) /\ t.crc = s.crc \o s.invec /\ t.invec = c
<1> DEFINE at == DataAt(LastEntry(s))
<1> DEFINE v == CrcPutArea(CountPutArea(s))
<1> DEFINE t == Overflow(s, c)
<1>1. at \in Nat
  BY LastEntryType, DataAtType
<1>2. /\ v \in Streambuf
      /\ v.pos = s.pos /\ v.file = s.file /\ v.thrown = s.thrown
      /\ v.level = s.level /\ v.entries = s.entries
      /\ v.invec = s.invec /\ v.outvec = s.outvec
      /\ v.crc = s.crc \o s.invec
      /\ v.overflown = (s.overflown + Len(s.invec)) % WordMod
      /\ CountPutArea(s).level = s.level
      /\ CountPutArea(s).invec = s.invec
  BY TakenPutArea
<1>3. s.crc \in Seq(Byte) /\ s.invec \in Seq(Byte) /\ s.pos <= Len(s.file)
      /\ s.level \in Nat /\ Len(s.file) \in Nat
  BY DEF Streambuf, Filling
<1>4. Len(v.crc) < WordMod => v.overflown = Len(v.crc)
  <2>1. /\ Len(s.crc \o s.invec) = Len(s.crc) + Len(s.invec)
        /\ Len(s.crc) \in Nat /\ Len(s.invec) \in Nat
    BY <1>3, ConcatProperties
  <2>2. Len(s.crc) < WordMod => s.overflown = Len(s.crc)
    BY DEF Filling
  <2>3. Len(s.crc) + Len(s.invec) < WordMod =>
          (s.overflown + Len(s.invec)) % WordMod = Len(s.crc) + Len(s.invec)
    BY <2>1, <2>2, CountMore
  <2> QED
    BY <1>2, <2>1, <2>3
<1>5. Filled(v.file, at, s.level, s.crc) /\ v.pos = Len(v.file)
      /\ v.thrown = "none"
  BY <1>2 DEF Filling
<1> HIDE DEF at
<1>6. CASE s.level = 0
  <2> DEFINE cells == StoredCells(s.invec)
  <2> DEFINE w == Write(v, cells)
  <2> DEFINE x == [w EXCEPT !.invec = c]
  <2>1. t = Then(w, x)
    BY <1>2, <1>6 DEF Overflow, OverflowStored
  <2>2. /\ cells \in Seq(Cell) /\ Len(cells) = Len(s.invec)
        /\ \A i \in 1..Len(s.invec) : cells[i] = DataCell(s.level, s.invec[i])
    BY <1>3, <1>6, DataCellsType, DataCellsShape DEF DataCell
  <2> HIDE DEF v, cells
  <2>3. w.thrown = "none"
    BY <2>1 DEF Then
  <2>4. w.pos = Len(w.file) /\ Filled(w.file, at, s.level, s.crc \o s.invec)
    BY <1>1, <1>2, <1>3, <1>5, <2>2, <2>3, FilledMore
  <2>5. Forward(v, w)
    BY <1>2, <1>3, <2>2, WriteForward
  <2>6. w.crc = v.crc /\ w.overflown = v.overflown
    BY <1>2, <2>2, WriteFrame
  <2>7. w \in Streambuf /\ w.entries = s.entries /\ w.level = s.level
    BY <1>2, <2>5 DEF Forward
  <2> HIDE DEF w
  <2>8. /\ x.pos = w.pos /\ x.file = w.file /\ x.crc = w.crc
        /\ x.overflown = w.overflown /\ x.entries = w.entries
        /\ x.level = w.level /\ x.invec = c
    BY <2>7 DEF Streambuf
  <2>9. t = x
    BY <2>1, <2>3 DEF Then
  <2> HIDE DEF x, t
  <2>10. LastEntry(x) = LastEntry(s)
    BY <2>7, <2>8 DEF LastEntry
  <2>11. Filling(x)
    BY <1>2, <1>4, <1>6, <2>4, <2>6, <2>7, <2>8, <2>10 DEF Filling, at
  <2> QED
    BY <1>2, <2>6, <2>8, <2>9, <2>11 DEF t
<1>7. CASE s.level # 0
  <2> DEFINE cells == IF s.invec = << >> THEN << >> ELSE DeflatedCells(s.invec)
  <2> DEFINE d == IF s.invec = << >> THEN v ELSE [v EXCEPT !.outvec = DeflatedCells(s.invec)]
  <2> DEFINE w == Write(d, cells)
  <2> DEFINE x == [w EXCEPT !.outvec = << >>]
  <2> DEFINE y == [x EXCEPT !.invec = c]
  <2>1. /\ cells \in Seq(Cell) /\ Len(cells) = Len(s.invec)
        /\ \A i \in 1..Len(s.invec) : cells[i] = DataCell(s.level, s.invec[i])
    <3>1. CASE s.invec = << >>
      BY <3>1
    <3>2. CASE s.invec # << >>
      BY <1>3, <1>7, <3>2, DataCellsType, DataCellsShape DEF DataCell
    <3> QED
      BY <3>1, <3>2
  <2>2. v.outvec = << >>
    BY <1>2, <1>7 DEF Filling
  <2>3. t = Then(FlushOutvec(d), [FlushOutvec(d) EXCEPT !.invec = c])
    BY <1>2, <1>7 DEF Overflow, OverflowDeflate
  <2> HIDE DEF v
  <2>4. /\ d \in Streambuf /\ d.outvec = cells /\ d.pos = v.pos /\ d.file = v.file
        /\ d.thrown = v.thrown /\ d.level = v.level /\ d.entries = v.entries
        /\ d.crc = v.crc /\ d.overflown = v.overflown
    <3>1. CASE s.invec = << >>
      BY <1>2, <2>2, <3>1
    <3>2. CASE s.invec # << >>
      <4>1. cells = DeflatedCells(s.invec) /\ d = [v EXCEPT !.outvec = cells]
        BY <3>2
      <4> HIDE DEF cells
      <4> QED
        BY <1>2, <2>1, <4>1 DEF Streambuf
    <3> QED
      BY <3>1, <3>2
  <2> HIDE DEF cells, d
  <2>5. FlushOutvec(d) = Then(w, x)
    BY <2>4 DEF FlushOutvec
  <2>6. w.thrown = "none"
    BY <2>3, <2>5 DEF Then
  <2>a. /\ d.thrown = "none" /\ d.pos = Len(d.file)
        /\ Filled(d.file, at, s.level, s.crc)
    BY <1>5, <2>4
  <2>7. w.pos = Len(w.file) /\ Filled(w.file, at, s.level, s.crc \o s.invec)
    <3>1. at \in Nat /\ s.crc \in Seq(Byte) /\ s.invec \in Seq(Byte)
      BY <1>1, <1>3
    <3>2. Write(d, cells).thrown = "none"
      BY <2>6
    <3>3. d \in Streambuf
      BY <2>4
    <3> HIDE DEF at
    <3>4. /\ Write(d, cells).pos = Len(Write(d, cells).file)
          /\ Filled(Write(d, cells).file, at, s.level, s.crc \o s.invec)
      BY <2>1, <2>a, <3>1, <3>2, <3>3, FilledMore
    <3> QED
      BY <3>4
  <2>8. Forward(d, w)
    BY <1>2, <1>3, <2>1, <2>4, WriteForward
  <2>9. w.crc = v.crc /\ w.overflown = v.overflown
    BY <2>1, <2>4, WriteFrame
  <2>10. w \in Streambuf /\ w.entries = s.entries /\ w.level = s.level
    BY <1>2, <2>4, <2>8 DEF Forward
  <2> HIDE DEF w
  <2>11. /\ x.pos = w.pos /\ x.file = w.file /\ x.crc = w.crc
         /\ x.overflown = w.overflown /\ x.entries = w.entries
         /\ x.level = w.level /\ x.outvec = << >> /\ x.thrown = "none"
         /\ x \in Streambuf
    <3>1. << >> \in Seq(Cell)
      OBVIOUS
    <3> QED
      BY <2>6, <2>10, <3>1 DEF Streambuf
  <2>12. t = y
    BY <2>3, <2>5, <2>6, <2>11 DEF Then
  <2> HIDE DEF x
  <2>13. /\ y.pos = x.pos /\ y.file = x.file /\ y.crc = x.crc
         /\ y.overflown = x.overflown /\ y.entries = x.entries
         /\ y.level = x.level /\ y.invec = c /\ y.outvec = x.outvec
    BY <2>11 DEF Streambuf
  <2> HIDE DEF y, t
  <2>14. LastEntry(y) = LastEntry(s)
    BY <2>10, <2>11, <2>13 DEF LastEntry
  <2>15. Filling(y)
    BY <1>2, <1>4, <2>7, <2>9, <2>10, <2>11, <2>13, <2>14 DEF Filling, at
  <2> QED
    BY <1>2, <2>9, <2>11, <2>12, <2>13, <2>15 DEF t
<1> QED
  BY <1>6, <1>7

\* An overflow() that throws was refused something.
LEMMA OverflowRefused ==
  ASSUME NEW s \in Streambuf, s.pos <= Len(s.file), s.thrown = "none",
         NEW c \in Seq(Byte), Overflow(s, c).thrown # "none"
  PROVE  Overflow(s, c).refused
<1> DEFINE v == CrcPutArea(CountPutArea(s))
<1>1. /\ v \in Streambuf /\ v.thrown = "none" /\ v.pos <= Len(v.file)
      /\ CountPutArea(s).level = s.level
      /\ CountPutArea(s).invec = s.invec
  BY TakenPutArea
<1>2. s.invec \in Seq(Byte)
  BY DEF Streambuf
<1>3. CASE s.level = 0
  <2> DEFINE w == Write(v, StoredCells(s.invec))
  <2> DEFINE x == [w EXCEPT !.invec = c]
  <2>1. Overflow(s, c) = Then(w, x)
    BY <1>1, <1>3 DEF Overflow, OverflowStored
  <2>2. StoredCells(s.invec) \in Seq(Cell)
    BY <1>2, DataCellsType
  <2> HIDE DEF v
  <2>3. w \in Streambuf
    BY <1>1, <2>2, WriteForward DEF Forward
  <2>4. w.thrown # "none" => w.refused
    BY <1>1, <2>2, WriteRefused
  <2> HIDE DEF w
  <2>5. x.thrown = w.thrown
    BY <2>3 DEF Streambuf
  <2> QED
    BY <2>1, <2>4, <2>5 DEF Then
<1>4. CASE s.level # 0
  <2> DEFINE d == IF s.invec = << >> THEN v ELSE [v EXCEPT !.outvec = DeflatedCells(s.invec)]
  <2> DEFINE w == Write(d, d.outvec)
  <2> DEFINE x == [w EXCEPT !.outvec = << >>]
  <2> DEFINE y == [x EXCEPT !.invec = c]
  <2>1. Overflow(s, c) = Then(FlushOutvec(d), [FlushOutvec(d) EXCEPT !.invec = c])
    BY <1>1, <1>4 DEF Overflow, OverflowDeflate
  <2> HIDE DEF v
  <2>2. DeflatedCells(s.invec) \in Seq(Cell)
    BY <1>2, DataCellsType
  <2>3. d \in Streambuf /\ d.thrown = "none" /\ d.pos <= Len(d.file)
    BY <1>1, <2>2 DEF Streambuf
  <2> HIDE DEF d
  <2>4. d.outvec \in Seq(Cell)
    BY <2>3 DEF Streambuf
  <2>5. w \in Streambuf
    BY <2>3, <2>4, WriteForward DEF Forward
  <2>6. w.thrown # "none" => w.refused
    BY <2>3, <2>4, WriteRefused
  <2>7. FlushOutvec(d) = Then(w, x)
    BY DEF FlushOutvec
  <2> HIDE DEF w
  <2>8. x.thrown = w.thrown /\ y.thrown = w.thrown
    BY <2>5 DEF Streambuf
  <2> HIDE DEF x
  <2>9. CASE w.thrown = "none"
    <3>1. FlushOutvec(d) = x
      BY <2>7, <2>9 DEF Then
    <3>2. Overflow(s, c) = y
      BY <2>1, <2>8, <2>9, <3>1 DEF Then
    <3> QED
      BY <2>8, <2>9, <3>2
  <2>10. CASE w.thrown # "none"
    <3>1. FlushOutvec(d) = w
      BY <2>7, <2>10 DEF Then
    <3>2. Overflow(s, c) = w
      BY <2>1, <2>10, <3>1 DEF Then
    <3> QED
      BY <2>6, <2>10, <3>2
  <2> QED
    BY <2>9, <2>10
<1> QED
  BY <1>3, <1>4

LEMMA BytesAssociate ==
  ASSUME NEW a \in Seq(Byte), NEW b \in Seq(Byte), NEW c \in Seq(Byte)
  PROVE  (a \o b) \o c = a \o (b \o c)
BY ConcatAssociative

\* A byte that is put into the stream is one more byte of the data.
LEMMA SputcFills ==
  ASSUME NEW s \in Streambuf, s.entries # << >>, s.thrown = "none", Filling(s),
         NEW b \in Byte, Sputc(s, b).thrown = "none"
  PROVE  LET t == Sputc(s, b)
         IN  Filling(t) /\ t.crc \o t.invec = (s.crc \o s.invec) \o << b >>
<1> DEFINE t == Sputc(s, b)
<1>1. s.crc \in Seq(Byte) /\ s.invec \in Seq(Byte) /\ << b >> \in Seq(Byte)
  BY DEF Streambuf
<1>2. CASE Len(s.invec) < BufSize
  <2>1. t = [s EXCEPT !.invec = Append(s.invec, b)]
    BY <1>2 DEF Sputc
  <2>2. Append(s.invec, b) = s.invec \o << b >>
    BY <1>1
  <2>3. /\ t.pos = s.pos /\ t.file = s.file /\ t.level = s.level
        /\ t.crc = s.crc /\ t.overflown = s.overflown /\ t.outvec = s.outvec
        /\ t.entries = s.entries /\ t.invec = s.invec \o << b >>
    BY <2>1, <2>2 DEF Streambuf
  <2> HIDE DEF t
  <2>4. LastEntry(t) = LastEntry(s)
    BY <2>3 DEF LastEntry
  <2>5. Filling(t)
    BY <2>3, <2>4 DEF Filling
  <2>6. s.crc \o (s.invec \o << b >>) = (s.crc \o s.invec) \o << b >>
    <3> DEFINE one == << b >>
    <3>1. one \in Seq(Byte)
      BY <1>1
    <3> HIDE DEF one
    <3>2. (s.crc \o s.invec) \o one = s.crc \o (s.invec \o one)
      BY <1>1, <3>1, BytesAssociate, ZenonT(40)
    <3> QED
      BY <3>2 DEF one
  <2> QED
    BY <2>3, <2>5, <2>6 DEF t
<1>3. CASE ~(Len(s.invec) < BufSize)
  <2>1. t = Overflow(s, << b >>)
    BY <1>3 DEF Sputc
  <2>2. Filling(t) /\ t.crc = s.crc \o s.invec /\ t.invec = << b >>
    <3> DEFINE one == << b >>
    <3>1. one \in Seq(Byte) /\ t = Overflow(s, one) /\ Overflow(s, one).thrown = "none"
      BY <1>1, <2>1
    <3> HIDE DEF one, t
    <3>2. Filling(t) /\ t.crc = s.crc \o s.invec /\ t.invec = one
      BY <3>1, OverflowFills
    <3> QED
      BY <3>2 DEF one
  <2> HIDE DEF t
  <2> QED
    BY <2>2 DEF t
<1> QED
  BY <1>2, <1>3

LEMMA SputcRefused ==
  ASSUME NEW s \in Streambuf, s.pos <= Len(s.file), s.thrown = "none",
         NEW b \in Byte, Sputc(s, b).thrown # "none"
  PROVE  Sputc(s, b).refused
<1>1. << b >> \in Seq(Byte)
  OBVIOUS
<1>2. ~(Len(s.invec) < BufSize)
  BY DEF Sputc, Streambuf
<1>3. Sputc(s, b) = Overflow(s, << b >>)
  BY <1>2 DEF Sputc
<1> QED
  BY <1>1, <1>3, OverflowRefused

\* The stream of an entry that got any data ends with the end marker.
LEMMA EndStreamFills ==
  ASSUME NEW t \in Streambuf, t.thrown = "none", t.pos = Len(t.file),
         t.overflown > 0, EndStream(t).thrown = "none"
  PROVE  LET u == EndStream(t)
         IN  /\ u.pos = Len(u.file) /\ u.pos = t.pos + 1
             /\ u.file[t.pos + 1] = [k |-> "zend"]
             /\ u.crc = t.crc /\ u.overflown = t.overflown
<1> DEFINE cells == << [k |-> "zend"] >>
<1> DEFINE v == [t EXCEPT !.outvec = cells]
<1> DEFINE w == Write(v, cells)
<1> DEFINE x == [w EXCEPT !.outvec = << >>]
<1>1. /\ cells \in Seq(Cell) /\ Len(cells) = 1 /\ cells[1] = [k |-> "zend"]
  <2>1. [k |-> "zend"] \in Cell
    BY DEF Cell
  <2> QED
    BY <2>1
<1>2. EndDeflation(t) = Then(t, FlushOutvec(v))
  BY DEF EndDeflation
<1>3. /\ v \in Streambuf /\ v.outvec = cells /\ v.pos = t.pos /\ v.file = t.file
      /\ v.thrown = "none" /\ v.crc = t.crc /\ v.overflown = t.overflown
      /\ t.pos \in Nat /\ v.pos <= Len(v.file)
  <2> HIDE DEF cells
  <2>1. t.pos \in Nat /\ t.pos <= Len(t.file)
    BY DEF Streambuf
  <2>2. v \in Streambuf
    BY <1>1, <2>1, OutvecForward DEF Forward
  <2>3. /\ v.outvec = cells /\ v.pos = t.pos /\ v.file = t.file
        /\ v.thrown = t.thrown /\ v.crc = t.crc /\ v.overflown = t.overflown
    BY DEF Streambuf
  <2> HIDE DEF v
  <2> QED
    BY <2>1, <2>2, <2>3
<1> HIDE DEF cells, v
<1>4. FlushOutvec(v) = Then(w, x)
  BY <1>3 DEF FlushOutvec
<1>5. w \in Streambuf /\ w.thrown \in {"none", "IOException"}
  BY <1>1, <1>3, WriteForward DEF Forward
<1>6. w.crc = t.crc /\ w.overflown = t.overflown
  BY <1>1, <1>3, WriteFrame
<1>7. w.thrown = "none"
  BY <1>2, <1>4, <1>5 DEF EndStream, Then
<1>8. w.pos = t.pos + 1 /\ Len(w.file) = t.pos + 1
      /\ w.file[t.pos + 1] = [k |-> "zend"]
  <2>1. w.pos = v.pos + Len(cells)
    BY <1>1, <1>3, <1>7, WriteForward
  <2>2. /\ Len(w.file) = IF v.pos + Len(cells) > Len(v.file)
                         THEN v.pos + Len(cells) ELSE Len(v.file)
        /\ \A i \in 1..Len(cells) : w.file[v.pos + i] = cells[i]
    BY <1>1, <1>3, <1>7, WriteStores
  <2>3. 1 \in 1..Len(cells)
    BY <1>1
  <2> HIDE DEF w
  <2> QED
    BY <1>1, <1>3, <2>1, <2>2, <2>3
<1> HIDE DEF w
<1>9. /\ x.pos = w.pos /\ x.file = w.file /\ x.crc = w.crc
      /\ x.overflown = w.overflown /\ x.thrown = w.thrown
  BY <1>5 DEF Streambuf
<1>10. EndDeflation(t) = x
  BY <1>2, <1>4, <1>7 DEF Then
<1> HIDE DEF x
<1>11. EndStream(t) = x
  BY <1>6, <1>7, <1>9, <1>10 DEF EndStream, Then
<1> QED
  BY <1>6, <1>8, <1>9, <1>11

\* A position that does not fit in an int comes back lower by 2^32 at least.
LEMMA Int32Wraps ==
  ASSUME NEW p \in Nat
  PROVE  /\ Int32(p) = p \/ Int32(p) <= p - WordMod
         /\ p < IntLimit => Int32(p) = p
<1>1. \A m \in Nat \ {0}, q \in Nat : q >= m => q % m <= q - m
  OBVIOUS
<1>2. CASE p < IntLimit
  BY <1>2 DEF Int32
<1>3. CASE ~(p < IntLimit)
  <2>1. p + IntLimit \in Nat /\ WordMod \in Nat \ {0} /\ p + IntLimit >= WordMod
    BY <1>3, IntLimitAssumption DEF WordMod
  <2>2. (p + IntLimit) % WordMod <= (p + IntLimit) - WordMod
    BY <1>1, <2>1
  <2>3. (p + IntLimit) % WordMod \in Int
    BY <2>1
  <2> QED
    BY <1>3, <2>1, <2>2, <2>3, IntLimitAssumption DEF Int32
<1> QED
  BY <1>2, <1>3

-----------------------------------------------------------------------------
(* Closing an entry. *)

\* x is the entry e but for what closeEntry() finds out.
Kept(e, x) ==
  /\ x.name = e.name /\ x.dir = e.dir /\ x.method = e.method /\ x.level = e.level
  /\ x.extra = e.extra /\ x.comment = e.comment /\ x.timeOk = e.timeOk
  /\ x.offset = e.offset

\* From s to t only what is said of the last entry changed.
KeptEntries(s, t) ==
  /\ t.entries \in Seq(Entry) /\ Len(t.entries) = Len(s.entries)
  /\ \A i \in 1..Len(s.entries) : i # Len(s.entries) => t.entries[i] = s.entries[i]
  /\ s.entries # << >> => Kept(LastEntry(s), LastEntry(t))

\* What no header can say of an entry, however small it is.
Describable(e) ==
  NameLength[e.name] <= FieldMod /\ e.extra <= FieldMod /\ e.timeOk

LEMMA KeptSizes ==
  ASSUME NEW e \in Entry, NEW x \in Entry, Kept(e, x)
  PROVE  /\ LocalHeaderSize(x) = LocalHeaderSize(e) /\ DataAt(x) = DataAt(e)
         /\ EffectiveLevel(x) = EffectiveLevel(e)
BY DEF Kept, LocalHeaderSize, WrittenName, DataAt, EffectiveLevel

\* The steps of updateEntryHeaderInfo().
LEMMA UpdateParts ==
  ASSUME NEW s, Good(s), s.openEntry, s.thrown = "none"
  PROVE  \E e \in Entry, v \in Streambuf :
            /\ Kept(LastEntry(s), e) /\ e.size = s.overflown /\ e.crc = s.crc
            /\ e.csize = SizeT(Int32(s.pos) - LastEntry(s).offset
                                    - LocalHeaderSize(LastEntry(s)))
            /\ v.entries = [s.entries EXCEPT ![Len(s.entries)] = e]
            /\ v.pos = e.offset /\ v.file = s.file /\ v.thrown = "none"
            /\ v.refused = s.refused /\ (Latched(s) => Latched(v))
            /\ v.pos <= Len(v.file)
            /\ UpdateEntryHeaderInfo(s)
                 = Then(WriteLocal(v, e), [WriteLocal(v, e) EXCEPT !.pos = Int32(s.pos)])
<1> DEFINE last == LastEntry(s)
<1> DEFINE curr == Int32(s.pos)
<1> DEFINE csize == SizeT(curr - last.offset - LocalHeaderSize(last))
<1> DEFINE e == [last EXCEPT !.size = s.overflown, !.crc = s.crc, !.csize = csize]
<1> DEFINE v == [s EXCEPT !.entries[Len(s.entries)] = e, !.pos = e.offset]
<1>1. /\ s \in Streambuf /\ s.entries \in Seq(Entry) /\ s.entries # << >>
      /\ last \in Entry /\ Len(s.entries) \in 1..Len(s.entries)
  BY LastEntryType DEF Good, Streambuf
<1>2. last.offset \in Nat /\ s.pos \in Nat /\ last.offset <= Len(s.file)
  <2>1. last.offset \in Nat /\ s.pos \in Nat /\ Len(s.file) \in Nat
    BY <1>1 DEF Streambuf, Entry
  <2> QED
    BY <2>1 DEF Good
<1>3. curr \in Int
  BY <1>2, Int32Range
<1>4. LocalHeaderSize(last) \in Nat
  BY <1>1, LocalHeaderSizeRange
<1>5. csize \in Nat
  BY <1>2, <1>3, <1>4, WordModPositive DEF SizeT
<1>6. s.overflown \in Nat /\ s.crc \in Seq(Byte)
  BY <1>1, WordModPositive DEF Streambuf
<1>7. /\ e \in Entry /\ Kept(last, e) /\ e.size = s.overflown /\ e.crc = s.crc
      /\ e.csize = csize
  <2> HIDE DEF last, csize
  <2> QED
    BY <1>1, <1>5, <1>6 DEF Entry, Kept
<1>8. UpdateEntryHeaderInfo(s)
        = Then(WriteLocal(v, e), [WriteLocal(v, e) EXCEPT !.pos = curr])
  BY DEF UpdateEntryHeaderInfo
<1>9. [s.entries EXCEPT ![Len(s.entries)] = e] \in Seq(Entry)
  <2> HIDE DEF e
  <2> QED
    BY <1>1, <1>7, ExceptSeq
<1>10. e.offset = last.offset
  BY <1>7 DEF Kept
<1> HIDE DEF e
<1>11. /\ v \in Streambuf /\ v.pos = e.offset /\ v.file = s.file
       /\ v.entries = [s.entries EXCEPT ![Len(s.entries)] = e]
       /\ v.thrown = "none" /\ v.refused = s.refused
       /\ v.fuse = s.fuse /\ v.short = s.short
  BY <1>1, <1>2, <1>9, <1>10 DEF Streambuf
<1> HIDE DEF v
<1>12. Latched(s) => Latched(v)
  BY <1>11 DEF Latched
<1> HIDE DEF last, csize, curr
<1>13. v.pos <= Len(v.file)
  BY <1>2, <1>10, <1>11
<1> QED
  BY <1>7, <1>8, <1>11, <1>12, <1>13 DEF last, curr, csize

\* Replacing the last entry.
LEMMA KeptEntriesExcept ==
  ASSUME NEW s \in Streambuf, s.entries # << >>, NEW e \in Entry,
         Kept(LastEntry(s), e), NEW t,
         t.entries = [s.entries EXCEPT ![Len(s.entries)] = e]
  PROVE  KeptEntries(s, t) /\ LastEntry(t) = e
<1>1. s.entries \in Seq(Entry) /\ Len(s.entries) \in 1..Len(s.entries)
  BY LastEntryType DEF Streambuf
<1>2. /\ t.entries \in Seq(Entry) /\ Len(t.entries) = Len(s.entries)
      /\ \A i \in 1..Len(s.entries) :
            t.entries[i] = IF i = Len(s.entries) THEN e ELSE s.entries[i]
  BY <1>1, ExceptSeq
<1>3. LastEntry(t) = e
  BY <1>1, <1>2 DEF LastEntry
<1> QED
  BY <1>1, <1>2, <1>3 DEF KeptEntries

\* The local header is written at the put position if it can be described.
LEMMA WriteLocalStores ==
  ASSUME NEW s \in Streambuf, s.pos <= Len(s.file), s.thrown = "none", NEW e \in Entry
  PROVE  LET t == WriteLocal(s, e)
         IN  /\ t.thrown = "InvalidStateException" <=> ~LocalWritable(e)
             /\ Latched(s) /\ t.thrown = "none" => ~t.refused
             /\ t.thrown = "none" =>
                   /\ t.pos = s.pos + LocalHeaderSize(e)
                   /\ Len(t.file) = IF s.pos + LocalHeaderSize(e) > Len(s.file)
                                    THEN s.pos + LocalHeaderSize(e) ELSE Len(s.file)
                   /\ t.file[s.pos + 1] = [k |-> "local", h |-> HeaderOf(e, 0, 0)]
                   /\ \A i \in 1..Len(s.file) :
                         i > s.pos + LocalHeaderSize(e) => t.file[i] = s.file[i]
<1> DEFINE t == WriteLocal(s, e)
<1> DEFINE cells == LocalCells(e)
<1>1. /\ cells \in Seq(Cell) /\ Len(cells) = LocalHeaderSize(e)
      /\ cells[1] = [k |-> "local", h |-> HeaderOf(e, 0, 0)]
  BY HeaderCellsType, LocalCellsShape
<1>2. LocalHeaderSize(e) \in Nat \ {0}
  BY LocalHeaderSizeRange
<1>3. 1 \in 1..Len(cells) /\ cells # << >>
  BY <1>1, <1>2
<1> HIDE DEF cells
<1>4. CASE ~LocalWritable(e)
  <2>1. t = Throw(s, "InvalidStateException")
    BY <1>4 DEF WriteLocal
  <2>2. t.thrown = "InvalidStateException"
    BY <2>1 DEF Throw, Streambuf
  <2> HIDE DEF t
  <2> QED
    BY <1>4, <2>2 DEF t
<1>5. CASE LocalWritable(e)
  <2>1. t = Write(s, cells)
    BY <1>5 DEF WriteLocal, cells
  <2>2. t.thrown \in {"none", "IOException"}
    BY <1>1, <2>1, WriteForward
  <2>3. Latched(s) /\ t.thrown = "none" => ~t.refused
    BY <1>1, <1>3, <2>1, WriteLatches
  <2>4. ASSUME t.thrown = "none"
        PROVE  /\ t.pos = s.pos + Len(cells)
               /\ Len(t.file) = IF s.pos + Len(cells) > Len(s.file)
                                THEN s.pos + Len(cells) ELSE Len(s.file)
               /\ \A i \in 1..Len(cells) : t.file[s.pos + i] = cells[i]
               /\ \A i \in 1..Len(s.file) :
                     i > s.pos + Len(cells) => t.file[i] = s.file[i]
    BY <1>1, <2>1, <2>4, WriteForward, WriteStores
  <2> HIDE DEF t
  <2> QED
    BY <1>1, <1>3, <1>5, <2>2, <2>3, <2>4 DEF t
<1> QED
  BY <1>4, <1>5

\* updateEntryHeaderInfo() refuses only what no header can say, in a file of
\* less than 2^31 bytes, and it does not get past an output that refuses.
LEMMA UpdateStructure ==
  ASSUME NEW s, Good(s), s.openEntry, s.thrown = "none"
  PROVE  LET u == UpdateEntryHeaderInfo(s)
         IN  /\ KeptEntries(s, u)
             /\ Len(s.file) <= Len(u.file)
             /\ s.refused => u.refused
             /\ Latched(s) /\ u.thrown = "none" => ~u.refused
             /\ u.thrown = "none" => /\ LocalWritable(LastEntry(u))
                                     /\ LastEntry(u).size = s.overflown
                                     /\ LastEntry(u).crc = s.crc
             /\ (u.thrown = "InvalidStateException"
                   /\ DataAt(LastEntry(s)) <= s.pos /\ Describable(LastEntry(s)))
                    => Len(s.file) >= IntLimit
<1> DEFINE last == LastEntry(s)
<1> DEFINE u == UpdateEntryHeaderInfo(s)
<1>1. PICK e \in Entry, v \in Streambuf :
        /\ Kept(last, e) /\ e.size = s.overflown /\ e.crc = s.crc
        /\ e.csize = SizeT(Int32(s.pos) - last.offset - LocalHeaderSize(last))
        /\ v.entries = [s.entries EXCEPT ![Len(s.entries)] = e]
        /\ v.pos = e.offset /\ v.file = s.file /\ v.thrown = "none"
        /\ v.refused = s.refused /\ (Latched(s) => Latched(v))
        /\ v.pos <= Len(v.file)
        /\ u = Then(WriteLocal(v, e), [WriteLocal(v, e) EXCEPT !.pos = Int32(s.pos)])
  BY UpdateParts
<1> DEFINE w == WriteLocal(v, e)
<1> DEFINE x == [w EXCEPT !.pos = Int32(s.pos)]
<1>2. /\ s \in Streambuf /\ s.entries # << >> /\ last \in Entry
      /\ s.pos \in Nat /\ Len(s.file) \in Nat /\ s.pos <= Len(s.file)
  <2>1. s \in Streambuf /\ s.entries # << >> /\ s.pos <= Len(s.file)
    BY DEF Good
  <2>2. s.pos \in Nat /\ Len(s.file) \in Nat
    BY <2>1 DEF Streambuf
  <2> QED
    BY <2>1, <2>2, LastEntryType
<1>3. Forward(v, w)
  BY <1>1, WriteLocalForward
<1>4. /\ w.thrown = "InvalidStateException" <=> ~LocalWritable(e)
      /\ Latched(v) /\ w.thrown = "none" => ~w.refused
  BY <1>1, WriteLocalStores
<1>5. w.thrown \in {"none", "IOException", "InvalidStateException"}
  BY <1>1, WriteLocalForward
<1> HIDE DEF last, u, w
<1>6. w \in Streambuf /\ w.entries = v.entries
  BY <1>3 DEF Forward
<1>7. /\ x.entries = w.entries /\ x.file = w.file /\ x.refused = w.refused
      /\ x.thrown = w.thrown
  BY <1>6 DEF Streambuf
<1>8. u \in {w, x}
  BY <1>1 DEF Then, w
<1> HIDE DEF x
<1>9. /\ u.entries = v.entries /\ u.file = w.file /\ u.refused = w.refused
      /\ u.thrown = w.thrown
  BY <1>6, <1>7, <1>8
<1>10. KeptEntries(s, u) /\ LastEntry(u) = e
  BY <1>1, <1>2, <1>9, KeptEntriesExcept DEF last
<1>11. Len(s.file) <= Len(u.file) /\ (s.refused => u.refused)
  BY <1>1, <1>3, <1>9 DEF Forward
<1>12. Latched(s) /\ u.thrown = "none" => ~u.refused
  BY <1>1, <1>4, <1>9
<1>13. u.thrown = "none" => LocalWritable(e)
  BY <1>4, <1>5, <1>9
<1>14. ASSUME u.thrown = "InvalidStateException", DataAt(last) <= s.pos,
              Describable(last)
       PROVE  Len(s.file) >= IntLimit
  <2>1. ~LocalWritable(e)
    BY <1>4, <1>9, <1>14
  <2>2. NameLength[e.name] <= FieldMod /\ e.extra <= FieldMod /\ e.timeOk
    BY <1>1, <1>14 DEF Describable, Kept
  <2>3. e.size < WordMod
    <3>1. s.overflown \in 0..WordMod-1
      BY <1>2 DEF Streambuf
    <3> QED
      BY <1>1, <3>1, WordModPositive
  <2>4. ~(e.csize < WordMod)
    BY <2>1, <2>2, <2>3 DEF LocalWritable
  <2>5. SUFFICES ASSUME Len(s.file) < IntLimit PROVE FALSE
    BY <1>2, IntLimitAssumption
  <2>6. Int32(s.pos) = s.pos /\ s.pos < IntLimit
    BY <1>2, <2>5, Int32Wraps, IntLimitAssumption
  <2>7. last.offset \in Nat /\ LocalHeaderSize(last) \in Nat
    BY <1>2, LocalHeaderSizeRange DEF Entry
  <2>8. SizeT(s.pos - last.offset - LocalHeaderSize(last)) < WordMod
    BY <1>2, <1>14, <2>6, <2>7, IntLimitAssumption DEF SizeT, DataAt, WordMod
  <2> QED
    BY <1>1, <2>4, <2>6, <2>8
<1> QED
  BY <1>1, <1>10, <1>11, <1>12, <1>13, <1>14 DEF last, u

\* What updateEntryHeaderInfo() leaves in the file: the header of the entry as it
\* is now, and the data behind it as they were.
LEMMA UpdateFills ==
  ASSUME NEW s, Good(s), s.openEntry, s.thrown = "none", s.pos = Len(s.file),
         DataAt(LastEntry(s)) <= s.pos, s.pos - DataAt(LastEntry(s)) < WordMod,
         UpdateEntryHeaderInfo(s).thrown = "none"
  PROVE  LET u == UpdateEntryHeaderInfo(s)
         IN  /\ u.pos = s.pos /\ Len(u.file) = Len(s.file)
             /\ u.file[LastEntry(s).offset + 1]
                    = [k |-> "local", h |-> HeaderOf(LastEntry(u), 0, 0)]
             /\ \A i \in 1..Len(s.file) :
                    i > DataAt(LastEntry(s)) => u.file[i] = s.file[i]
<1> DEFINE last == LastEntry(s)
<1> DEFINE u == UpdateEntryHeaderInfo(s)
<1>1. PICK e \in Entry, v \in Streambuf :
        /\ Kept(last, e) /\ e.size = s.overflown /\ e.crc = s.crc
        /\ e.csize = SizeT(Int32(s.pos) - last.offset - LocalHeaderSize(last))
        /\ v.entries = [s.entries EXCEPT ![Len(s.entries)] = e]
        /\ v.pos = e.offset /\ v.file = s.file /\ v.thrown = "none"
        /\ v.refused = s.refused /\ (Latched(s) => Latched(v))
        /\ v.pos <= Len(v.file)
        /\ u = Then(WriteLocal(v, e), [WriteLocal(v, e) EXCEPT !.pos = Int32(s.pos)])
  BY UpdateParts
<1> DEFINE w == WriteLocal(v, e)
<1> DEFINE x == [w EXCEPT !.pos = Int32(s.pos)]
<1>2. /\ s \in Streambuf /\ s.entries # << >> /\ last \in Entry
      /\ s.pos \in Nat /\ Len(s.file) \in Nat /\ s.pos <= Len(s.file)
  <2>1. s \in Streambuf /\ s.entries # << >> /\ s.pos <= Len(s.file)
    BY DEF Good
  <2>2. s.pos \in Nat /\ Len(s.file) \in Nat
    BY <2>1 DEF Streambuf
  <2> QED
    BY <2>1, <2>2, LastEntryType
<1>3. Forward(v, w)
  BY <1>1, WriteLocalForward
<1>4. /\ w.thrown = "InvalidStateException" <=> ~LocalWritable(e)
      /\ w.thrown = "none" =>
            /\ Len(w.file) = IF v.pos + LocalHeaderSize(e) > Len(v.file)
                             THEN v.pos + LocalHeaderSize(e) ELSE Len(v.file)
            /\ w.file[v.pos + 1] = [k |-> "local", h |-> HeaderOf(e, 0, 0)]
            /\ \A i \in 1..Len(v.file) :
                    i > v.pos + LocalHeaderSize(e) => w.file[i] = v.file[i]
  BY <1>1, WriteLocalStores
<1>5. /\ LocalHeaderSize(e) = LocalHeaderSize(last) /\ e.offset = last.offset
      /\ last.offset \in Nat /\ LocalHeaderSize(last) \in Nat
  BY <1>1, <1>2, KeptSizes, LocalHeaderSizeRange DEF Kept, Entry
<1> HIDE DEF last, u, w
<1>6. w \in Streambuf /\ w.entries = v.entries
  BY <1>3 DEF Forward
<1>7. x.entries = w.entries /\ x.file = w.file /\ x.thrown = w.thrown
      /\ x.pos = Int32(s.pos)
  BY <1>6 DEF Streambuf
<1>8. w.thrown = "none" /\ u = x
  BY <1>1, <1>7 DEF Then, w, u
<1> HIDE DEF x
<1>9. LastEntry(u) = e
  BY <1>1, <1>2, <1>6, <1>7, <1>8, KeptEntriesExcept DEF last
<1>10. e.csize < WordMod
  <2>1. LocalWritable(e)
    BY <1>4, <1>8
  <2> QED
    BY <2>1 DEF LocalWritable
<1>11. Int32(s.pos) = s.pos
  <2>1. Int32(s.pos) \in Int /\ (Int32(s.pos) = s.pos \/ Int32(s.pos) <= s.pos - WordMod)
    BY <1>2, Int32Range, Int32Wraps
  <2>2. ~(Int32(s.pos) - last.offset - LocalHeaderSize(last) < 0)
    BY <1>1, <1>10, WordModPositive DEF SizeT
  <2>3. s.pos - (last.offset + LocalHeaderSize(last)) < WordMod
    BY DEF DataAt, last
  <2>4. ASSUME NEW a \in Int, NEW p \in Nat, NEW o \in Nat, NEW h \in Nat, NEW m \in Nat,
               a <= p - m, ~(a - o - h < 0), p - (o + h) < m
        PROVE  FALSE
    BY <2>4
  <2> QED
    BY <1>2, <1>5, <2>1, <2>2, <2>3, <2>4, WordModPositive
<1>12. /\ v.pos = last.offset /\ v.file = s.file
       /\ last.offset + LocalHeaderSize(last) <= Len(s.file)
  BY <1>1, <1>5 DEF DataAt, last
<1>13. /\ Len(w.file) = Len(s.file)
       /\ w.file[last.offset + 1] = [k |-> "local", h |-> HeaderOf(e, 0, 0)]
       /\ \A i \in 1..Len(s.file) :
              i > last.offset + LocalHeaderSize(last) => w.file[i] = s.file[i]
  BY <1>2, <1>4, <1>5, <1>8, <1>12
<1> QED
  BY <1>7, <1>8, <1>9, <1>11, <1>13 DEF last, u, DataAt

\* overflow() leaves it to others whether a deflate stream is open.
LEMMA OverflowFrame ==
  ASSUME NEW s \in Streambuf, NEW c \in Seq(Byte)
  PROVE  Overflow(s, c).zsInit = s.zsInit
<1> DEFINE v == CrcPutArea(CountPutArea(s))
<1>1. v \in Streambuf /\ CountPutArea(s).level = s.level
      /\ CountPutArea(s).invec = s.invec
  BY TakenPutArea
<1>2. v.zsInit = s.zsInit
  BY DEF CrcPutArea, CountPutArea, Streambuf
<1>3. s.invec \in Seq(Byte)
  BY DEF Streambuf
<1>4. CASE s.level = 0
  <2> DEFINE w == Write(v, StoredCells(s.invec))
  <2> DEFINE x == [w EXCEPT !.invec = c]
  <2>1. Overflow(s, c) = Then(w, x)
    BY <1>1, <1>4 DEF Overflow, OverflowStored
  <2>2. StoredCells(s.invec) \in Seq(Cell)
    BY <1>3, DataCellsType
  <2> HIDE DEF v
  <2>3. w.zsInit = v.zsInit
    BY <1>1, <2>2, WriteFrame
  <2> HIDE DEF w
  <2>4. x.zsInit = w.zsInit
    OBVIOUS
  <2> QED
    BY <1>2, <2>1, <2>3, <2>4 DEF Then
<1>5. CASE s.level # 0
  <2> DEFINE d == IF s.invec = << >> THEN v ELSE [v EXCEPT !.outvec = DeflatedCells(s.invec)]
  <2> DEFINE w == Write(d, d.outvec)
  <2> DEFINE x == [w EXCEPT !.outvec = << >>]
  <2> DEFINE y == [FlushOutvec(d) EXCEPT !.invec = c]
  <2>1. Overflow(s, c) = Then(FlushOutvec(d), y)
    BY <1>1, <1>5 DEF Overflow, OverflowDeflate
  <2> HIDE DEF v
  <2>2. DeflatedCells(s.invec) \in Seq(Cell)
    BY <1>3, DataCellsType
  <2>3. d \in Streambuf /\ d.zsInit = v.zsInit
    BY <1>1, <2>2 DEF Streambuf
  <2> HIDE DEF d
  <2>4. d.outvec \in Seq(Cell)
    BY <2>3 DEF Streambuf
  <2>5. w.zsInit = d.zsInit
    BY <2>3, <2>4, WriteFrame
  <2> HIDE DEF w
  <2>6. x.zsInit = w.zsInit /\ y.zsInit = FlushOutvec(d).zsInit
    OBVIOUS
  <2>7. FlushOutvec(d) = Then(w, x)
    BY DEF FlushOutvec, w
  <2> HIDE DEF x, y
  <2> QED
    BY <1>2, <2>1, <2>3, <2>5, <2>6, <2>7 DEF Then
<1> QED
  BY <1>4, <1>5

\* The cells of the end marker, if the data of an entry has one.
EndCells(e) == IF EffectiveLevel(e) = 0 THEN 0 ELSE 1

\* Where the entry that holds b ends.
EndOf(e, b) == DataAt(e) + Len(b) + EndCells(e)

\* The first thing closeEntry() does leaves all of the data in the file, counted
\* and taken into the CRC.
FlushEntry(s) == IF s.level = 0 THEN Overflow(s, << >>) ELSE CloseStream(s)

LEMMA FlushEntryForward ==
  ASSUME NEW s \in Streambuf, s.pos <= Len(s.file), s.thrown = "none"
  PROVE  Forward(s, FlushEntry(s)) /\ FlushEntry(s).thrown \in {"none", "IOException"}
<1>1. << >> \in Seq(Byte)
  OBVIOUS
<1>2. /\ Forward(s, Overflow(s, << >>))
      /\ Overflow(s, << >>).thrown \in {"none", "IOException"}
  BY <1>1, OverflowForward
<1>3. /\ Forward(s, CloseStream(s))
      /\ CloseStream(s).thrown \in {"none", "IOException"}
  BY CloseStreamForward
<1> QED
  BY <1>2, <1>3 DEF FlushEntry

LEMMA FlushEntryFills ==
  ASSUME NEW s \in Streambuf, s.entries # << >>, s.thrown = "none", Filling(s),
         s.level # 0 => s.zsInit,
         NEW b \in Seq(Byte), s.crc \o s.invec = b, Len(b) < WordMod,
         s.level # 0 => b # << >>,
         FlushEntry(s).thrown = "none"
  PROVE  LET t == FlushEntry(s)
         IN  /\ t.pos = Len(t.file) /\ t.pos = EndOf(LastEntry(s), b)
             /\ \A i \in 1..Len(b) :
                    t.file[DataAt(LastEntry(s)) + i] = DataCell(s.level, b[i])
             /\ s.level # 0 => t.file[t.pos] = [k |-> "zend"]
             /\ t.crc = b /\ t.overflown = Len(b)
             /\ t.entries = s.entries
<1> DEFINE t == FlushEntry(s)
<1> DEFINE at == DataAt(LastEntry(s))
<1>1. at \in Nat /\ << >> \in Seq(Byte) /\ Len(b) \in Nat
  BY LastEntryType, DataAtType
<1>2. s.pos <= Len(s.file) /\ s.level = EffectiveLevel(LastEntry(s))
  BY DEF Filling, Streambuf
<1>3. t \in Streambuf /\ t.entries = s.entries
  BY <1>2, FlushEntryForward DEF Forward
<1>4. CASE s.level = 0
  <2>1. t = Overflow(s, << >>)
    BY <1>4 DEF FlushEntry
  <2>2. Filling(t) /\ t.crc = b
    BY <1>1, <2>1, OverflowFills
  <2> HIDE DEF t
  <2>3. LastEntry(t) = LastEntry(s)
    BY <1>3 DEF LastEntry
  <2>4. /\ t.pos = Len(t.file) /\ t.level = EffectiveLevel(LastEntry(s))
        /\ Filled(t.file, at, t.level, b)
        /\ t.overflown = Len(b)
    BY <2>2, <2>3 DEF Filling
  <2>5. t.level = s.level
    BY <1>2, <2>4
  <2>6. t.pos = EndOf(LastEntry(s), b)
    BY <1>1, <1>2, <1>4, <2>4 DEF Filled, EndOf, EndCells
  <2> QED
    BY <1>3, <1>4, <2>2, <2>4, <2>5, <2>6 DEF Filled, t
<1>5. CASE s.level # 0
  <2> DEFINE v == [s EXCEPT !.zsInit = FALSE]
  <2> DEFINE w == Overflow(v, << >>)
  <2>1. t = EndStream(w)
    BY <1>5 DEF FlushEntry, CloseStream
  <2>2. /\ v \in Streambuf /\ v.entries = s.entries /\ v.thrown = "none"
        /\ v.pos = s.pos /\ v.file = s.file /\ v.level = s.level
        /\ v.crc = s.crc /\ v.invec = s.invec /\ v.outvec = s.outvec
        /\ v.overflown = s.overflown
    BY DEF Streambuf
  <2> HIDE DEF v
  <2>3. LastEntry(v) = LastEntry(s)
    BY <2>2 DEF LastEntry
  <2>4. Filling(v)
    BY <2>2, <2>3 DEF Filling
  <2>5. Forward(v, w) /\ w.thrown \in {"none", "IOException"}
    BY <1>1, <1>2, <2>2, OverflowForward
  <2>6. w \in Streambuf /\ w.entries = s.entries /\ w.pos <= Len(w.file)
    BY <2>2, <2>5 DEF Forward
  <2>7. w.thrown = "none"
    <3> HIDE DEF w
    <3>1. CASE w.thrown # "none"
      BY <2>1, <3>1 DEF EndStream, EndDeflation, Then
    <3> QED
      BY <3>1
  <2>8. Filling(w) /\ w.crc = b
    BY <1>1, <2>2, <2>4, <2>7, OverflowFills, ZenonT(40)
  <2> HIDE DEF w
  <2>9. LastEntry(w) = LastEntry(s)
    BY <2>6 DEF LastEntry
  <2>10. /\ w.pos = Len(w.file) /\ w.level = s.level
         /\ Filled(w.file, at, s.level, b)
         /\ w.overflown = Len(b)
    BY <1>2, <2>8, <2>9 DEF Filling
  <2>11. Len(b) > 0
    BY <1>1, <1>5, EmptySeq
  <2>12. /\ t.pos = Len(t.file) /\ t.pos = w.pos + 1
         /\ t.file[w.pos + 1] = [k |-> "zend"]
         /\ t.crc = w.crc /\ t.overflown = w.overflown
    BY <2>1, <2>6, <2>7, <2>10, <2>11, EndStreamFills
  <2>13. \A i \in 1..w.pos : t.file[i] = w.file[i]
    BY <2>1, <2>6, EndStreamForward DEF Forward
  <2> HIDE DEF t
  <2>14. /\ w.pos = at + Len(b)
         /\ \A i \in 1..Len(b) : w.file[at + i] = DataCell(s.level, b[i])
    BY <2>10 DEF Filled
  <2>15. \A i \in 1..Len(b) : at + i \in 1..w.pos
    BY <1>1, <2>14
  <2>16. t.pos = EndOf(LastEntry(s), b)
    BY <1>1, <1>2, <1>5, <2>12, <2>14 DEF EndOf, EndCells
  <2>17. \A i \in 1..Len(b) : t.file[at + i] = DataCell(s.level, b[i])
    BY <2>13, <2>14, <2>15
  <2> QED
    BY <1>3, <2>8, <2>10, <2>12, <2>16, <2>17 DEF t
<1> QED
  BY <1>4, <1>5

\* The steps of closeEntry().
LEMMA CloseParts ==
  ASSUME NEW s, Good(s), s.openEntry, s.thrown = "none"
  PROVE  LET t == FlushEntry(s)
             w == UpdateEntryHeaderInfo(t)
             v == [w EXCEPT !.openEntry = FALSE, !.crc = << >>]
         IN  /\ Forward(s, t) /\ Good(t) /\ t.openEntry
             /\ t.thrown \in {"none", "IOException"}
             /\ t.thrown # "none" => CloseEntry(s) = t
             /\ t.thrown = "none" /\ w.thrown # "none" => CloseEntry(s) = w
             /\ t.thrown = "none" /\ w.thrown = "none" => CloseEntry(s) = v
             /\ t.thrown = "none" =>
                    /\ w \in Streambuf
                    /\ v.entries = w.entries /\ v.file = w.file /\ v.pos = w.pos
                    /\ v.refused = w.refused /\ v.thrown = w.thrown
                    /\ v.crc = << >> /\ ~v.openEntry
<1> DEFINE t == FlushEntry(s)
<1> DEFINE w == UpdateEntryHeaderInfo(t)
<1> DEFINE v == [w EXCEPT !.openEntry = FALSE, !.crc = << >>]
<1>1. s \in Streambuf /\ s.pos <= Len(s.file)
  BY DEF Good
<1>2. Forward(s, t) /\ t.thrown \in {"none", "IOException"}
  BY <1>1, FlushEntryForward
<1>3. CloseEntry(s) = Then(Then(t, w), [Then(t, w) EXCEPT !.openEntry = FALSE, !.crc = << >>])
  BY DEF CloseEntry, FlushEntry
<1> HIDE DEF t
<1>4. Good(t) /\ t.openEntry
  BY <1>2, ForwardKeeps DEF Forward
<1>5. t.thrown = "none" => w \in Streambuf
  BY <1>4, UpdateEntryHeaderInfoSafe DEF Safe, Good
<1> HIDE DEF w
<1>6. t.thrown = "none" =>
        /\ v.entries = w.entries /\ v.file = w.file /\ v.pos = w.pos
        /\ v.refused = w.refused /\ v.thrown = w.thrown
        /\ v.crc = << >> /\ ~v.openEntry
  BY <1>5 DEF Streambuf
<1>7. /\ t.thrown # "none" => CloseEntry(s) = t
      /\ t.thrown = "none" /\ w.thrown # "none" => CloseEntry(s) = w
      /\ t.thrown = "none" /\ w.thrown = "none" => CloseEntry(s) = v
  BY <1>3 DEF Then
<1> QED
  BY <1>2, <1>4, <1>5, <1>6, <1>7 DEF t, w

\* closeEntry() refuses only what no header can say, in a file of less than 2^31
\* bytes, and it does not get past an output that refuses.
LEMMA CloseStructure ==
  ASSUME NEW s, Good(s), s.openEntry, s.thrown = "none"
  PROVE  LET u == CloseEntry(s)
         IN  /\ KeptEntries(s, u)
             /\ Len(s.file) <= Len(u.file)
             /\ s.refused => u.refused
             /\ Latched(s) /\ u.thrown = "none" => ~u.refused
             /\ u.thrown = "none" =>
                    ~u.openEntry /\ u.crc = << >> /\ LocalWritable(LastEntry(u))
             /\ (u.thrown = "InvalidStateException"
                   /\ DataAt(LastEntry(s)) <= s.pos /\ Describable(LastEntry(s)))
                    => Len(u.file) >= IntLimit
<1> DEFINE u == CloseEntry(s)
<1> DEFINE t == FlushEntry(s)
<1> DEFINE w == UpdateEntryHeaderInfo(t)
<1> DEFINE v == [w EXCEPT !.openEntry = FALSE, !.crc = << >>]
<1>1. /\ Forward(s, t) /\ Good(t) /\ t.openEntry
      /\ t.thrown \in {"none", "IOException"}
      /\ t.thrown # "none" => u = t
      /\ t.thrown = "none" /\ w.thrown # "none" => u = w
      /\ t.thrown = "none" /\ w.thrown = "none" => u = v
      /\ t.thrown = "none" =>
             /\ w \in Streambuf
             /\ v.entries = w.entries /\ v.file = w.file /\ v.pos = w.pos
             /\ v.refused = w.refused /\ v.thrown = w.thrown
             /\ v.crc = << >> /\ ~v.openEntry
  BY CloseParts
<1> HIDE DEF t, u
<1>2. /\ s \in Streambuf /\ s.entries # << >> /\ s.entries \in Seq(Entry)
      /\ LastEntry(s) \in Entry
  <2>1. s \in Streambuf /\ s.entries # << >>
    BY DEF Good
  <2> QED
    BY <2>1, LastEntryType DEF Streambuf
<1>3. /\ t.entries = s.entries /\ LastEntry(t) = LastEntry(s)
      /\ Len(s.file) <= Len(t.file) /\ s.pos <= t.pos
      /\ s.refused => t.refused
      /\ Latched(s) => Latched(t)
  BY <1>1 DEF Forward, LastEntry
<1>4. KeptEntries(s, t)
  BY <1>2, <1>3 DEF KeptEntries, Kept
<1>5. CASE t.thrown # "none"
  BY <1>1, <1>3, <1>4, <1>5 DEF u
<1>6. CASE t.thrown = "none"
  <2>1. /\ KeptEntries(t, w)
        /\ Len(t.file) <= Len(w.file)
        /\ t.refused => w.refused
        /\ Latched(t) /\ w.thrown = "none" => ~w.refused
        /\ w.thrown = "none" => LocalWritable(LastEntry(w))
        /\ (w.thrown = "InvalidStateException"
              /\ DataAt(LastEntry(t)) <= t.pos /\ Describable(LastEntry(t)))
               => Len(t.file) >= IntLimit
    BY <1>1, <1>6, UpdateStructure
  <2> HIDE DEF w
  <2>2. /\ u.entries = w.entries /\ u.file = w.file /\ u.refused = w.refused
        /\ u.thrown = w.thrown
        /\ u.thrown = "none" => ~u.openEntry /\ u.crc = << >>
    <3> HIDE DEF v
    <3> QED
      BY <1>1, <1>6
  <2>3. LastEntry(u) = LastEntry(w)
    BY <2>2 DEF LastEntry
  <2>4. KeptEntries(s, u)
    BY <1>3, <2>1, <2>2, <2>3 DEF KeptEntries
  <2>5. /\ Len(s.file) \in Nat /\ Len(t.file) \in Nat /\ Len(w.file) \in Nat
        /\ s.pos \in Nat /\ t.pos \in Nat /\ DataAt(LastEntry(s)) \in Nat
    <3>1. t \in Streambuf /\ w \in Streambuf
      BY <1>1, <1>6 DEF Good
    <3>2. \A x \in Streambuf : Len(x.file) \in Nat /\ x.pos \in Nat
      BY DEF Streambuf
    <3> QED
      BY <1>2, <3>1, <3>2, DataAtType
  <2>6. Len(s.file) <= Len(u.file)
    BY <1>3, <2>1, <2>2, <2>5
  <2>7. ASSUME u.thrown = "InvalidStateException",
               DataAt(LastEntry(s)) <= s.pos, Describable(LastEntry(s))
        PROVE  Len(u.file) >= IntLimit
    <3>1. DataAt(LastEntry(t)) <= t.pos /\ Describable(LastEntry(t))
      BY <1>3, <2>5, <2>7
    <3>2. Len(t.file) >= IntLimit
      BY <2>1, <2>2, <2>7, <3>1
    <3> QED
      BY <2>1, <2>2, <2>5, <3>2, IntLimitAssumption
  <2> QED
    BY <1>3, <2>1, <2>2, <2>3, <2>4, <2>6, <2>7 DEF u
<1> QED
  BY <1>5, <1>6 DEF u

\* An entry that holds b and was closed: its header, its data and their end.
Stored(f, e, b) ==
  /\ EndOf(e, b) <= Len(f)
  /\ f[e.offset + 1] = [k |-> "local", h |-> HeaderOf(e, 0, 0)]
  /\ \A i \in 1..Len(b) : f[DataAt(e) + i] = DataCell(EffectiveLevel(e), b[i])
  /\ EffectiveLevel(e) # 0 => f[EndOf(e, b)] = [k |-> "zend"]
  /\ e.size = Len(b) /\ e.crc = b /\ LocalWritable(e)

\* A stored entry stays stored as long as nothing below its end changes.
LEMMA StoredStays ==
  ASSUME NEW f \in Seq(Cell), NEW g \in Seq(Cell), NEW e \in Entry,
         NEW b \in Seq(Byte), Stored(f, e, b),
         NEW n \in Nat, EndOf(e, b) <= n, n <= Len(g),
         \A i \in 1..n : g[i] = f[i]
  PROVE  Stored(g, e, b)
<1>1. /\ e.offset \in Nat /\ LocalHeaderSize(e) \in Nat \ {0}
      /\ EndCells(e) \in {0, 1} /\ Len(b) \in Nat /\ Len(g) \in Nat
  BY LocalHeaderSizeRange DEF Entry, EndCells
<1>2. /\ DataAt(e) \in Nat /\ DataAt(e) >= e.offset + 1
      /\ EndOf(e, b) \in Nat /\ EndOf(e, b) >= DataAt(e) + Len(b)
  BY <1>1, SMTT(20) DEF DataAt, EndOf
<1>3. EndOf(e, b) <= Len(g)
  BY <1>1, <1>2
<1>4. /\ e.offset + 1 \in 1..n
      /\ EndOf(e, b) \in 1..n
  BY <1>1, <1>2
<1>5. \A i \in 1..Len(b) : DataAt(e) + i \in 1..n
  BY <1>1, <1>2
<1> QED
  BY <1>3, <1>4, <1>5 DEF Stored

\* closeEntry() stores what was put into the entry.
LEMMA CloseFills ==
  ASSUME NEW s, Good(s), s.openEntry, s.thrown = "none", Filling(s),
         s.level # 0 => s.zsInit,
         NEW b \in Seq(Byte), s.crc \o s.invec = b,
         Len(b) + EndCells(LastEntry(s)) < WordMod,
         s.level # 0 => b # << >>,
         CloseEntry(s).thrown = "none"
  PROVE  LET u == CloseEntry(s)
         IN  /\ Stored(u.file, LastEntry(u), b)
             /\ u.pos = Len(u.file) /\ u.pos = EndOf(LastEntry(u), b)
<1> DEFINE u == CloseEntry(s)
<1> DEFINE t == FlushEntry(s)
<1> DEFINE w == UpdateEntryHeaderInfo(t)
<1> DEFINE v == [w EXCEPT !.openEntry = FALSE, !.crc = << >>]
<1>1. /\ Forward(s, t) /\ Good(t) /\ t.openEntry
      /\ t.thrown \in {"none", "IOException"}
      /\ t.thrown # "none" => u = t
      /\ t.thrown = "none" /\ w.thrown # "none" => u = w
      /\ t.thrown = "none" /\ w.thrown = "none" => u = v
      /\ t.thrown = "none" =>
             /\ w \in Streambuf
             /\ v.entries = w.entries /\ v.file = w.file /\ v.pos = w.pos
             /\ v.refused = w.refused /\ v.thrown = w.thrown
             /\ v.crc = << >> /\ ~v.openEntry
  BY CloseParts
<1>2. /\ s \in Streambuf /\ s.entries # << >> /\ LastEntry(s) \in Entry
  <2>1. s \in Streambuf /\ s.entries # << >>
    BY DEF Good
  <2> QED
    BY <2>1, LastEntryType
<1>3. t.thrown = "none" /\ w.thrown = "none" /\ u = v
  <2> HIDE DEF t, w, v
  <2>1. u.thrown = "none"
    OBVIOUS
  <2> HIDE DEF u
  <2> QED
    BY <1>1, <2>1
<1>4. s.level = EffectiveLevel(LastEntry(s))
  BY DEF Filling
<1>5. /\ Len(b) \in Nat /\ EndCells(LastEntry(s)) \in {0, 1}
      /\ DataAt(LastEntry(s)) \in Nat /\ LastEntry(s).offset \in Nat
      /\ LastEntry(s).offset + 1 <= DataAt(LastEntry(s))
  <2>1. LastEntry(s).offset \in Nat
    BY <1>2 DEF Entry
  <2> QED
    BY <1>2, <2>1, DataAtType DEF EndCells
<1>6. Len(b) < WordMod
  BY <1>5, WordModPositive
<1>7. /\ t.pos = Len(t.file) /\ t.pos = EndOf(LastEntry(s), b)
      /\ \A i \in 1..Len(b) :
             t.file[DataAt(LastEntry(s)) + i] = DataCell(s.level, b[i])
      /\ s.level # 0 => t.file[t.pos] = [k |-> "zend"]
      /\ t.crc = b /\ t.overflown = Len(b)
      /\ t.entries = s.entries
  BY <1>2, <1>3, <1>6, FlushEntryFills
<1> HIDE DEF t, u
<1>8. LastEntry(t) = LastEntry(s)
  BY <1>7 DEF LastEntry
<1>9. /\ t.pos = DataAt(LastEntry(t)) + Len(b) + EndCells(LastEntry(t))
      /\ DataAt(LastEntry(t)) <= t.pos
      /\ t.pos - DataAt(LastEntry(t)) < WordMod
  BY <1>5, <1>7, <1>8, WordModPositive DEF EndOf
<1>10. /\ w.pos = t.pos /\ Len(w.file) = Len(t.file)
       /\ w.file[LastEntry(t).offset + 1]
              = [k |-> "local", h |-> HeaderOf(LastEntry(w), 0, 0)]
       /\ \A i \in 1..Len(t.file) :
              i > DataAt(LastEntry(t)) => w.file[i] = t.file[i]
  BY <1>1, <1>3, <1>7, <1>9, UpdateFills, ZenonT(40)
<1>11. /\ KeptEntries(t, w) /\ LocalWritable(LastEntry(w))
       /\ LastEntry(w).size = t.overflown /\ LastEntry(w).crc = t.crc
  BY <1>1, <1>3, UpdateStructure
<1> HIDE DEF w
<1>12. u.entries = w.entries /\ u.file = w.file /\ u.pos = w.pos
  BY <1>1, <1>3
<1>13. LastEntry(u) = LastEntry(w)
  BY <1>12 DEF LastEntry
<1> DEFINE e == LastEntry(w)
<1>14. e \in Entry /\ Kept(LastEntry(s), e)
  <2>1. t.entries # << >>
    BY <1>2, <1>7
  <2>2. Len(t.entries) \in 1..Len(t.entries)
    <3>1. t \in Streambuf
      BY <1>1 DEF Forward
    <3> QED
      BY <2>1, <3>1, LastEntryType
  <2>3. w.entries \in Seq(Entry) /\ Len(w.entries) = Len(t.entries)
    BY <1>11 DEF KeptEntries
  <2>4. LastEntry(w) \in Entry
    BY <2>2, <2>3, ElementOfSeq DEF LastEntry
  <2> QED
    BY <1>8, <1>11, <2>1, <2>4 DEF KeptEntries
<1> HIDE DEF e
<1>15. /\ DataAt(e) = DataAt(LastEntry(s)) /\ e.offset = LastEntry(s).offset
       /\ EffectiveLevel(e) = s.level /\ EndOf(e, b) = t.pos
  BY <1>2, <1>4, <1>7, <1>14, KeptSizes DEF EndOf, EndCells, Kept
<1>16. \A i \in 1..Len(b) : w.file[DataAt(e) + i] = DataCell(EffectiveLevel(e), b[i])
  <2>1. \A i \in 1..Len(b) : /\ DataAt(LastEntry(s)) + i \in 1..Len(t.file)
                             /\ DataAt(LastEntry(s)) + i > DataAt(LastEntry(s))
    BY <1>5, <1>7, <1>8, <1>9
  <2> QED
    BY <1>7, <1>8, <1>10, <1>15, <2>1
<1>17. EffectiveLevel(e) # 0 => w.file[EndOf(e, b)] = [k |-> "zend"]
  <2> SUFFICES ASSUME s.level # 0 PROVE w.file[t.pos] = [k |-> "zend"]
    BY <1>15
  <2>1. EndCells(LastEntry(s)) = 1
    BY <1>4 DEF EndCells
  <2>2. t.pos \in 1..Len(t.file) /\ t.pos > DataAt(LastEntry(t))
    BY <1>5, <1>7, <1>8, <1>9, <2>1
  <2> QED
    BY <1>7, <1>10, <2>2
<1>18. Stored(u.file, e, b)
  <2>1. EndOf(e, b) <= Len(u.file)
    BY <1>5, <1>7, <1>8, <1>9, <1>10, <1>12, <1>15
  <2>2. u.file[e.offset + 1] = [k |-> "local", h |-> HeaderOf(e, 0, 0)]
    BY <1>8, <1>10, <1>12, <1>15 DEF e
  <2>3. e.size = Len(b) /\ e.crc = b /\ LocalWritable(e)
    BY <1>7, <1>11 DEF e
  <2> QED
    BY <1>12, <1>16, <1>17, <2>1, <2>2, <2>3 DEF Stored
<1> QED
  BY <1>7, <1>10, <1>12, <1>13, <1>15, <1>18 DEF e, u

\* closeEntry(), whether or not an entry is open.
LEMMA CloseEntryStructure ==
  ASSUME NEW s, Good(s), s.thrown = "none", StreamOfEntry(s)
  PROVE  LET u == CloseEntry(s)
         IN  /\ KeptEntries(s, u)
             /\ Len(s.file) <= Len(u.file)
             /\ s.refused => u.refused
             /\ s.openEntry /\ Latched(s) /\ u.thrown = "none" => ~u.refused
             /\ s.openEntry /\ u.thrown = "none" => LocalWritable(LastEntry(u))
             /\ u.thrown = "none" /\ (s.openEntry \/ s.crc = << >>) => u.crc = << >>
             /\ (u.thrown = "InvalidStateException"
                   /\ (s.openEntry => /\ DataAt(LastEntry(s)) <= s.pos
                                      /\ Describable(LastEntry(s))))
                    => Len(u.file) >= IntLimit
<1>1. CASE s.openEntry
  BY <1>1, CloseStructure
<1>2. CASE ~s.openEntry
  <2>1. CloseEntry(s) = s
    BY <1>2 DEF CloseEntry
  <2>2. s.entries \in Seq(Entry) /\ Len(s.file) \in Nat
    BY DEF Good, Streambuf
  <2>3. KeptEntries(s, s)
    BY <2>2 DEF KeptEntries, Kept
  <2> QED
    BY <1>2, <2>1, <2>2, <2>3
<1> QED
  BY <1>1, <1>2

-----------------------------------------------------------------------------
(* Opening an entry. *)

LEMMA PrepareFills ==
  ASSUME NEW s, Good(s), ~s.zsInit, s.thrown = "none", NEW e \in Entry
  PROVE  LET t == PrepareEntry(s, e)
         IN  /\ t.entries = s.entries /\ t.pos = s.pos /\ t.file = s.file
             /\ t.refused = s.refused /\ t.thrown = "none"
             /\ t.level = EffectiveLevel(e) /\ t.overflown = 0
             /\ t.invec = << >>
             /\ s.crc = << >> => t.crc = << >>
             /\ t.level # 0 => t.zsInit /\ t.outvec = << >>
<1> DEFINE v == [s EXCEPT !.level = EffectiveLevel(e), !.overflown = 0]
<1> DEFINE x == [v EXCEPT !.invec = << >>]
<1> DEFINE y == [v EXCEPT !.zsInit = TRUE, !.invec = << >>, !.outvec = << >>,
                          !.crc = << >>]
<1> DEFINE t == PrepareEntry(s, e)
<1>1. s \in Streambuf
  BY DEF Good
<1>2. EffectiveLevel(e) \in Nat /\ 0 \in 0..WordMod-1
  BY WordModPositive DEF EffectiveLevel, Entry
<1>3. /\ v \in Streambuf /\ ~v.zsInit /\ v.overflown = 0
      /\ v.level = EffectiveLevel(e) /\ v.entries = s.entries
      /\ v.pos = s.pos /\ v.file = s.file /\ v.thrown = "none"
      /\ v.refused = s.refused /\ v.crc = s.crc
  <2> HIDE DEF Entry
  <2> QED
    BY <1>1, <1>2 DEF Streambuf
<1>4. t = IF v.level = 0 THEN x ELSE y
  BY <1>3 DEF PrepareEntry, InitDeflate
<1> HIDE DEF v
<1>5. /\ x.entries = v.entries /\ x.pos = v.pos /\ x.file = v.file
      /\ x.refused = v.refused /\ x.thrown = v.thrown
      /\ x.level = v.level /\ x.overflown = v.overflown
      /\ x.invec = << >> /\ x.crc = v.crc
  BY <1>3 DEF Streambuf
<1>6. /\ y.entries = v.entries /\ y.pos = v.pos /\ y.file = v.file
      /\ y.refused = v.refused /\ y.thrown = v.thrown
      /\ y.level = v.level /\ y.overflown = v.overflown
      /\ y.invec = << >> /\ y.crc = << >> /\ y.outvec = << >> /\ y.zsInit
  BY <1>3 DEF Streambuf
<1> HIDE DEF x, y, t
<1>7. CASE v.level = 0
  BY <1>3, <1>4, <1>5, <1>7 DEF t
<1>8. CASE v.level # 0
  BY <1>3, <1>4, <1>6, <1>8 DEF t
<1> QED
  BY <1>7, <1>8

\* The entry is appended at the put position, behind which its data begin.
LEMMA AddStructure ==
  ASSUME NEW s, Good(s), s.thrown = "none", NEW e \in Entry
  PROVE  LET u == AddEntry(s, e)
             at == [e EXCEPT !.offset = s.pos]
         IN  /\ Len(s.file) <= Len(u.file)
             /\ s.refused => u.refused
             /\ u.thrown = "InvalidStateException" => ~LocalWritable(e)
             /\ u.thrown = "none" =>
                    /\ u.entries = Append(s.entries, at)
                    /\ u.pos = DataAt(at)
                    /\ Latched(s) => ~u.refused
                    /\ s.pos = Len(s.file) => u.pos = Len(u.file)
                    /\ u.level = s.level /\ u.crc = s.crc /\ u.invec = s.invec
                    /\ u.outvec = s.outvec /\ u.overflown = s.overflown
                    /\ u.zsInit = s.zsInit /\ u.openEntry
<1> DEFINE at == [e EXCEPT !.offset = s.pos]
<1> DEFINE v == [s EXCEPT !.entries = Append(s.entries, at)]
<1> DEFINE t == WriteLocal(v, at)
<1> DEFINE x == [t EXCEPT !.openEntry = TRUE]
<1> DEFINE u == AddEntry(s, e)
<1>1. s \in Streambuf /\ s.pos <= Len(s.file) /\ s.pos \in Nat /\ Len(s.file) \in Nat
  BY DEF Good, Streambuf
<1>2. /\ at \in Entry /\ at.offset = s.pos
      /\ at.extra = e.extra /\ at.csize = e.csize /\ at.size = e.size
      /\ at.timeOk = e.timeOk /\ at.name = e.name
  BY <1>1 DEF Entry
<1>3. u = Then(t, x)
  BY DEF AddEntry
<1> HIDE DEF at
<1>4. LocalWritable(at) <=> LocalWritable(e)
  BY <1>2 DEF LocalWritable
<1>5. Append(s.entries, at) \in Seq(Entry)
  BY <1>1, <1>2 DEF Streambuf
<1>6. /\ v \in Streambuf /\ v.entries = Append(s.entries, at)
      /\ v.pos = s.pos /\ v.file = s.file /\ v.thrown = "none"
      /\ v.zsInit = s.zsInit
      /\ v.level = s.level /\ v.invec = s.invec /\ v.outvec = s.outvec
      /\ v.crc = s.crc /\ v.overflown = s.overflown
      /\ v.fuse = s.fuse /\ v.short = s.short /\ v.refused = s.refused
  BY <1>1, <1>5 DEF Streambuf
<1> HIDE DEF v
<1>7. v.pos <= Len(v.file) /\ (Latched(s) => Latched(v))
  BY <1>1, <1>6 DEF Latched
<1>8. /\ t.thrown = "InvalidStateException" <=> ~LocalWritable(at)
      /\ Latched(v) /\ t.thrown = "none" => ~t.refused
      /\ t.thrown = "none" =>
            /\ t.pos = v.pos + LocalHeaderSize(at)
            /\ Len(t.file) = IF v.pos + LocalHeaderSize(at) > Len(v.file)
                             THEN v.pos + LocalHeaderSize(at) ELSE Len(v.file)
  BY <1>2, <1>6, <1>7, WriteLocalStores
<1>9. Forward(v, t)
  BY <1>2, <1>6, <1>7, WriteLocalForward
<1>10. /\ t.invec = v.invec /\ t.outvec = v.outvec /\ t.zsInit = v.zsInit
       /\ t.crc = v.crc /\ t.overflown = v.overflown
  <2>1. LocalCells(at) \in Seq(Cell)
    BY <1>2, HeaderCellsType
  <2>2. LET w == Write(v, LocalCells(at))
        IN  /\ w.invec = v.invec /\ w.outvec = v.outvec /\ w.zsInit = v.zsInit
            /\ w.crc = v.crc /\ w.overflown = v.overflown
    BY <1>6, <2>1, WriteFrame
  <2> QED
    BY <1>6, <2>2 DEF WriteLocal, Throw, Streambuf
<1> HIDE DEF t
<1>11. /\ t \in Streambuf /\ t.entries = Append(s.entries, at)
       /\ t.level = s.level /\ Len(s.file) <= Len(t.file)
       /\ s.refused => t.refused
  BY <1>6, <1>9 DEF Forward
<1>12. /\ x.entries = t.entries /\ x.pos = t.pos /\ x.file = t.file
       /\ x.refused = t.refused /\ x.thrown = t.thrown /\ x.level = t.level
       /\ x.crc = t.crc /\ x.invec = t.invec /\ x.outvec = t.outvec
       /\ x.overflown = t.overflown /\ x.zsInit = t.zsInit /\ x.openEntry
  BY <1>11 DEF Streambuf
<1> HIDE DEF x, u
<1>13. CASE t.thrown # "none"
  <2>1. u = t
    BY <1>3, <1>13 DEF Then
  <2> QED
    BY <1>4, <1>8, <1>11, <1>13, <2>1 DEF u
<1>14. CASE t.thrown = "none"
  <2>1. u = x
    BY <1>3, <1>14 DEF Then
  <2>2. u.pos = DataAt(at)
    BY <1>2, <1>6, <1>8, <1>12, <1>14, <2>1 DEF DataAt
  <2>3. s.pos = Len(s.file) => u.pos = Len(u.file)
    <3>1. LocalHeaderSize(at) \in Nat \ {0}
      BY <1>2, LocalHeaderSizeRange
    <3> QED
      BY <1>1, <1>6, <1>8, <1>12, <1>14, <2>1, <3>1
  <2>4. Latched(s) => ~u.refused
    BY <1>7, <1>8, <1>12, <1>14, <2>1
  <2>5. /\ u.entries = Append(s.entries, at)
        /\ u.level = s.level /\ u.crc = s.crc /\ u.invec = s.invec
        /\ u.outvec = s.outvec /\ u.overflown = s.overflown
        /\ u.zsInit = s.zsInit /\ u.openEntry
    BY <1>6, <1>10, <1>11, <1>12, <2>1
  <2>6. Len(s.file) <= Len(u.file) /\ (s.refused => u.refused) /\ u.thrown = "none"
    BY <1>11, <1>12, <1>14, <2>1
  <2> QED
    BY <2>2, <2>3, <2>4, <2>5, <2>6 DEF u, at
<1> QED
  BY <1>13, <1>14

\* putNextEntry() closes the entry before, if there is one, and opens the next.
LEMMA PutStructure ==
  ASSUME NEW s, Good(s), s.thrown = "none", StreamOfEntry(s), NEW e \in Entry
  PROVE  LET u == PutNextEntry(s, e)
             c == CloseEntry(s)
             at == [e EXCEPT !.offset = c.pos]
         IN  /\ Len(s.file) <= Len(u.file)
             /\ (u.thrown = "InvalidStateException" /\ LocalWritable(e)
                   /\ (s.openEntry => /\ DataAt(LastEntry(s)) <= s.pos
                                      /\ Describable(LastEntry(s))))
                    => Len(u.file) >= IntLimit
             /\ u.thrown = "none" =>
                    /\ c.thrown = "none"
                    /\ u.entries = Append(c.entries, at)
                    /\ u.pos = DataAt(at)
                    /\ Latched(s) => ~s.refused /\ ~u.refused
                    /\ u.openEntry /\ u.invec = << >>
                    /\ c.crc = << >> => u.crc = << >>
                    /\ c.pos = Len(c.file) => u.pos = Len(u.file)
                    /\ u.level = EffectiveLevel(e) /\ u.overflown = 0
                    /\ u.level # 0 => u.zsInit /\ u.outvec = << >>
                    /\ Keeps(c, u) /\ Len(c.file) <= Len(u.file)
<1> DEFINE c == CloseEntry(s)
<1> DEFINE p == PrepareEntry(c, e)
<1> DEFINE a == AddEntry(p, e)
<1> DEFINE u == PutNextEntry(s, e)
<1> DEFINE at == [e EXCEPT !.offset = c.pos]
<1>1. /\ Safe(s, c) /\ ~c.zsInit /\ c.thrown # "logic_error"
      /\ c.thrown = "none" => ~c.openEntry
  BY CloseEntrySafe
<1>2. /\ Len(s.file) <= Len(c.file)
      /\ s.refused => c.refused
      /\ (c.thrown = "InvalidStateException"
            /\ (s.openEntry => /\ DataAt(LastEntry(s)) <= s.pos
                               /\ Describable(LastEntry(s))))
             => Len(c.file) >= IntLimit
  BY CloseEntryStructure
<1>3. u = Then(Then(c, p), AddEntry(Then(c, p), e))
  BY DEF PutNextEntry
<1> HIDE DEF c, u
<1>4. Good(c) /\ (Latched(s) => Latched(c))
  BY <1>1 DEF Safe
<1>5. CASE c.thrown # "none"
  <2>1. u = c
    BY <1>3, <1>5 DEF Then
  <2> QED
    BY <1>2, <1>5, <2>1 DEF c, u
<1>6. CASE c.thrown = "none"
  <2>1. /\ Safe(c, p) /\ ~p.openEntry /\ p.thrown = "none"
        /\ p.zsInit => p.level # 0 /\ Pristine(p)
    BY <1>1, <1>4, <1>6, PrepareEntrySafe
  <2>2. /\ p.entries = c.entries /\ p.pos = c.pos /\ p.file = c.file
        /\ p.refused = c.refused
        /\ p.level = EffectiveLevel(e) /\ p.overflown = 0
        /\ p.invec = << >>
        /\ c.crc = << >> => p.crc = << >>
        /\ p.level # 0 => p.zsInit /\ p.outvec = << >>
    BY <1>1, <1>4, <1>6, PrepareFills
  <2> HIDE DEF p
  <2>3. u = a
    BY <1>3, <1>6, <2>1 DEF Then
  <2>4. Good(p) /\ (Latched(s) => Latched(p))
    BY <1>4, <2>1 DEF Safe
  <2>5. /\ Len(p.file) <= Len(a.file)
        /\ p.refused => a.refused
        /\ a.thrown = "InvalidStateException" => ~LocalWritable(e)
        /\ a.thrown = "none" =>
               /\ a.entries = Append(p.entries, [e EXCEPT !.offset = p.pos])
               /\ a.pos = DataAt([e EXCEPT !.offset = p.pos])
               /\ Latched(p) => ~a.refused
               /\ p.pos = Len(p.file) => a.pos = Len(a.file)
               /\ a.level = p.level /\ a.crc = p.crc /\ a.invec = p.invec
               /\ a.outvec = p.outvec /\ a.overflown = p.overflown
               /\ a.zsInit = p.zsInit /\ a.openEntry
    BY <2>1, <2>4, AddStructure
  <2>6. Safe(p, a)
    BY <2>1, <2>4, AddEntrySafe
  <2> HIDE DEF a
  <2>7. Keeps(c, u)
    BY <1>4, <2>1, <2>3, <2>6, SafeTransitive DEF Safe
  <2>8. Len(s.file) <= Len(u.file)
    <3>1. Len(s.file) \in Nat /\ Len(c.file) \in Nat /\ Len(a.file) \in Nat
      <4>1. s \in Streambuf /\ c \in Streambuf /\ a \in Streambuf
        BY <1>4, <2>6 DEF Good, Safe
      <4>2. \A q \in Streambuf : Len(q.file) \in Nat
        BY DEF Streambuf
      <4> QED
        BY <4>1, <4>2
    <3> QED
      BY <1>2, <2>2, <2>3, <2>5, <3>1
  <2>9. u.thrown = "none" =>
          /\ u.entries = Append(c.entries, at)
          /\ u.pos = DataAt(at)
          /\ Latched(s) => ~s.refused /\ ~u.refused
          /\ u.openEntry /\ u.invec = << >>
          /\ c.crc = << >> => u.crc = << >>
          /\ c.pos = Len(c.file) => u.pos = Len(u.file)
          /\ u.level = EffectiveLevel(e) /\ u.overflown = 0
          /\ u.level # 0 => u.zsInit /\ u.outvec = << >>
          /\ Len(c.file) <= Len(u.file)
    BY <1>2, <2>2, <2>3, <2>4, <2>5
  <2>10. u.thrown = "InvalidStateException" => ~LocalWritable(e)
    BY <2>3, <2>5
  <2> QED
    BY <1>6, <2>7, <2>8, <2>9, <2>10 DEF c, u
<1> QED
  BY <1>5, <1>6

-----------------------------------------------------------------------------
(* Writing the directory. *)

\* finish() up to its loop, when no entry is open.
LEMMA FinishStructure ==
  ASSUME NEW s, Good(s), s.thrown = "none", s.open, ~s.openEntry
  PROVE  LET u == BeginFinish(s)
         IN  /\ u.thrown = "none" /\ ~u.openEntry /\ u.phase = "central"
             /\ u.entries = s.entries /\ u.pos = s.pos /\ u.file = s.file
             /\ u.refused = s.refused /\ u.crc = s.crc
             /\ u.cdStart = s.pos /\ u.cdNext = 1 /\ u.cdSize = 0
<1> DEFINE v == [s EXCEPT !.open = FALSE]
<1> DEFINE u == [v EXCEPT !.phase = "central", !.cdStart = v.pos,
                          !.cdNext = 1, !.cdSize = 0]
<1>1. /\ v \in Streambuf /\ v.entries = s.entries /\ v.pos = s.pos
      /\ v.file = s.file /\ v.refused = s.refused /\ v.crc = s.crc
      /\ v.thrown = "none" /\ ~v.openEntry
  BY DEF Good, Streambuf
<1>2. BeginFinish(s) = u
  BY <1>1 DEF BeginFinish, CloseEntry, Then
<1> HIDE DEF v
<1>3. /\ u.entries = v.entries /\ u.pos = v.pos
      /\ u.file = v.file /\ u.refused = v.refused /\ u.crc = v.crc
      /\ u.thrown = v.thrown /\ u.openEntry = v.openEntry
      /\ u.phase = "central" /\ u.cdStart = v.pos /\ u.cdNext = 1 /\ u.cdSize = 0
  BY <1>1 DEF Streambuf
<1> HIDE DEF u
<1> QED
  BY <1>1, <1>2, <1>3

\* What else a write leaves alone.
LEMMA WriteKeepsDirectory ==
  ASSUME NEW s \in Streambuf, NEW cells \in Seq(Cell)
  PROVE  LET t == Write(s, cells)
         IN  /\ t.cdStart = s.cdStart /\ t.cdNext = s.cdNext
             /\ t.cdSize = s.cdSize /\ t.comment = s.comment
BY DEF Write, Throw, Sputn, Streambuf

\* A call that writes cells, or refuses to, between two entries.
LEMMA RecordWritten ==
  ASSUME NEW s, Good(s), s.thrown = "none", ~s.openEntry,
         NEW cells \in Seq(Cell), cells # << >>, NEW writable \in BOOLEAN, NEW t,
         t = IF writable THEN Write(s, cells) ELSE Throw(s, "InvalidStateException")
  PROVE  /\ t \in Streambuf /\ t.entries = s.entries /\ t.comment = s.comment
         /\ t.crc = s.crc /\ t.cdStart = s.cdStart /\ t.cdNext = s.cdNext
         /\ t.cdSize = s.cdSize /\ ~t.openEntry
         /\ Len(s.file) <= Len(t.file)
         /\ t.thrown = "InvalidStateException" => ~writable
         /\ t.thrown = "none" =>
                /\ writable
                /\ t.pos = s.pos + Len(cells)
                /\ Latched(s) => ~t.refused
                /\ s.pos = Len(s.file) => Len(t.file) = s.pos + Len(cells)
                /\ \A i \in 1..Len(cells) : t.file[s.pos + i] = cells[i]
                /\ \A i \in 1..s.pos : t.file[i] = s.file[i]
<1>1. s \in Streambuf /\ s.pos <= Len(s.file)
  BY DEF Good
<1>2. CASE writable
  <2>1. t = Write(s, cells)
    BY <1>2
  <2>2. /\ Forward(s, t) /\ t.thrown \in {"none", "IOException"}
        /\ t.thrown = "none" => t.pos = s.pos + Len(cells)
    BY <1>1, <2>1, WriteForward
  <2>3. t.crc = s.crc
    BY <1>1, <2>1, WriteFrame
  <2>4. /\ t.cdStart = s.cdStart /\ t.cdNext = s.cdNext
        /\ t.cdSize = s.cdSize /\ t.comment = s.comment
    BY <1>1, <2>1, WriteKeepsDirectory
  <2>5. t.thrown = "none" /\ Latched(s) => ~t.refused
    BY <1>1, <2>1, WriteLatches
  <2>6. t.thrown = "none" =>
          /\ s.pos = Len(s.file) => Len(t.file) = s.pos + Len(cells)
          /\ \A i \in 1..Len(cells) : t.file[s.pos + i] = cells[i]
    <3> SUFFICES ASSUME t.thrown = "none"
                 PROVE  /\ s.pos = Len(s.file) => Len(t.file) = s.pos + Len(cells)
                        /\ \A i \in 1..Len(cells) : t.file[s.pos + i] = cells[i]
      OBVIOUS
    <3>1. /\ Len(t.file) = IF s.pos + Len(cells) > Len(s.file)
                           THEN s.pos + Len(cells) ELSE Len(s.file)
          /\ \A i \in 1..Len(cells) : t.file[s.pos + i] = cells[i]
      BY <1>1, <2>1, WriteStores
    <3>2. Len(cells) \in Nat \ {0} /\ s.pos \in Nat
      BY <1>1, EmptySeq DEF Streambuf
    <3>3. s.pos = Len(s.file) => Len(t.file) = s.pos + Len(cells)
      BY <3>1, <3>2
    <3> QED
      BY <3>1, <3>3
  <2>7. /\ t \in Streambuf /\ t.entries = s.entries /\ ~t.openEntry
        /\ Len(s.file) <= Len(t.file)
        /\ \A i \in 1..s.pos : t.file[i] = s.file[i]
    BY <2>2 DEF Forward
  <2> QED
    BY <1>2, <2>2, <2>3, <2>4, <2>5, <2>6, <2>7
<1>3. CASE ~writable
  <2>1. t = Throw(s, "InvalidStateException")
    BY <1>3
  <2>2. Forward(s, t) /\ t.thrown = "InvalidStateException"
    BY <1>1, <2>1, ThrowForward DEF Exception
  <2>3. /\ t.crc = s.crc /\ t.cdStart = s.cdStart /\ t.cdNext = s.cdNext
        /\ t.cdSize = s.cdSize /\ t.comment = s.comment
    BY <1>1, <2>1 DEF Throw, Streambuf
  <2> QED
    BY <1>3, <2>2, <2>3 DEF Forward
<1> QED
  BY <1>2, <1>3

\* One header of the directory.
LEMMA CentralWritten ==
  ASSUME NEW s, Good(s), s.thrown = "none", ~s.openEntry,
         s.cdNext <= Len(s.entries)
  PROVE  LET t == WriteCentral(s)
             e == s.entries[s.cdNext]
         IN  /\ t.entries = s.entries /\ t.comment = s.comment
             /\ t.crc = s.crc /\ ~t.openEntry
             /\ Len(s.file) <= Len(t.file)
             /\ t.thrown = "InvalidStateException" => ~CentralWritable(e)
             /\ t.thrown = "none" =>
                    /\ CentralWritable(e)
                    /\ t.pos = s.pos + CentralHeaderSize(e)
                    /\ Latched(s) => ~t.refused
                    /\ s.pos = Len(s.file) => t.pos = Len(t.file)
                    /\ t.file[s.pos + 1]
                        = [k |-> "central", h |-> HeaderOf(e, e.comment, e.offset)]
                    /\ \A i \in 1..s.pos : t.file[i] = s.file[i]
                    /\ t.cdStart = s.cdStart /\ t.cdNext = s.cdNext + 1
                    /\ t.cdSize = s.cdSize + CentralHeaderSize(e)
<1> DEFINE e == s.entries[s.cdNext]
<1> DEFINE cells == CentralCells(e)
<1> DEFINE w == IF CentralWritable(e) THEN Write(s, cells)
                ELSE Throw(s, "InvalidStateException")
<1> DEFINE x == [w EXCEPT !.cdNext = s.cdNext + 1,
                          !.cdSize = s.cdSize + CentralHeaderSize(e)]
<1> DEFINE t == WriteCentral(s)
<1>1. s \in Streambuf /\ s.pos \in Nat
  BY DEF Good, Streambuf
<1>2. e \in Entry
  <2>1. s.cdNext \in 1..Len(s.entries) /\ s.entries \in Seq(Entry)
    BY <1>1 DEF Streambuf
  <2> QED
    BY <2>1, ElementOfSeq
<1>3. t = Then(w, x)
  BY DEF WriteCentral
<1> HIDE DEF e
<1>4. /\ cells \in Seq(Cell) /\ Len(cells) = CentralHeaderSize(e)
      /\ cells[1] = [k |-> "central", h |-> HeaderOf(e, e.comment, e.offset)]
  BY <1>2, HeaderCellsType, CentralCellsShape
<1>5. CentralHeaderSize(e) \in Nat \ {0}
  BY <1>2, LocalHeaderSizeRange DEF CentralHeaderSize, Entry
<1>6. cells # << >> /\ 1 \in 1..Len(cells)
  BY <1>4, <1>5
<1> HIDE DEF cells
<1>7. CentralWritable(e) \in BOOLEAN
  BY DEF CentralWritable, LocalWritable
<1>8. /\ w \in Streambuf /\ w.entries = s.entries /\ w.comment = s.comment
      /\ w.crc = s.crc /\ w.cdStart = s.cdStart /\ w.cdNext = s.cdNext
      /\ w.cdSize = s.cdSize /\ ~w.openEntry
      /\ Len(s.file) <= Len(w.file)
      /\ w.thrown = "InvalidStateException" => ~CentralWritable(e)
      /\ w.thrown = "none" =>
             /\ CentralWritable(e)
             /\ w.pos = s.pos + Len(cells)
             /\ Latched(s) => ~w.refused
             /\ s.pos = Len(s.file) => Len(w.file) = s.pos + Len(cells)
             /\ \A i \in 1..Len(cells) : w.file[s.pos + i] = cells[i]
             /\ \A i \in 1..s.pos : w.file[i] = s.file[i]
  BY <1>1, <1>4, <1>6, <1>7, RecordWritten
<1> HIDE DEF w
<1>9. /\ x.entries = w.entries /\ x.comment = w.comment /\ x.crc = w.crc
      /\ x.openEntry = w.openEntry /\ x.file = w.file /\ x.pos = w.pos
      /\ x.thrown = w.thrown /\ x.refused = w.refused /\ x.cdStart = w.cdStart
      /\ x.cdNext = s.cdNext + 1 /\ x.cdSize = s.cdSize + CentralHeaderSize(e)
  BY <1>8 DEF Streambuf
<1> HIDE DEF x, t
<1>10. CASE w.thrown # "none"
  <2>1. t = w
    BY <1>3, <1>10 DEF Then
  <2> QED
    BY <1>8, <1>10, <2>1 DEF t, e
<1>11. CASE w.thrown = "none"
  <2>1. t = x
    BY <1>3, <1>11 DEF Then
  <2>2. t.file[s.pos + 1] = [k |-> "central", h |-> HeaderOf(e, e.comment, e.offset)]
    BY <1>4, <1>6, <1>8, <1>9, <1>11, <2>1
  <2>3. /\ t.entries = s.entries /\ t.comment = s.comment /\ t.crc = s.crc
        /\ ~t.openEntry /\ Len(s.file) <= Len(t.file) /\ t.thrown = "none"
        /\ t.pos = s.pos + CentralHeaderSize(e) /\ (Latched(s) => ~t.refused)
        /\ s.pos = Len(s.file) => t.pos = Len(t.file)
        /\ \A i \in 1..s.pos : t.file[i] = s.file[i]
        /\ CentralWritable(e)
        /\ t.cdStart = s.cdStart /\ t.cdNext = s.cdNext + 1
        /\ t.cdSize = s.cdSize + CentralHeaderSize(e)
    BY <1>4, <1>8, <1>9, <1>11, <2>1
  <2> QED
    BY <2>2, <2>3 DEF t, e
<1> QED
  BY <1>10, <1>11

\* The end of central directory.
LEMMA EocdWritten ==
  ASSUME NEW s, Good(s), s.thrown = "none", ~s.openEntry
  PROVE  LET t == WriteEocd(s)
             n == Len(s.entries)
         IN  /\ t.entries = s.entries /\ t.comment = s.comment
             /\ t.crc = s.crc /\ ~t.openEntry
             /\ Len(s.file) <= Len(t.file)
             /\ t.thrown = "InvalidStateException" =>
                    ~EocdWritable(n, s.cdSize, s.cdStart, s.comment)
             /\ t.thrown = "none" =>
                    /\ EocdWritable(n, s.cdSize, s.cdStart, s.comment)
                    /\ Latched(s) => ~t.refused
                    /\ \A i \in 1..s.pos : t.file[i] = s.file[i]
                    /\ t.file[s.pos + 1]
                        = EocdHead(n, s.cdSize, s.cdStart, s.comment)
                    /\ s.pos = Len(s.file) =>
                        /\ t.pos = Len(t.file)
                        /\ Len(t.file) = s.pos + EocdSize + s.comment
                        /\ NoEocdFrom(s.pos + 2, t.file)
<1> DEFINE n == Len(s.entries)
<1> DEFINE cd == s.cdSize
<1> DEFINE at == s.cdStart
<1> DEFINE m == s.comment
<1> DEFINE c == EocdHead(n, cd, at, m)
<1> DEFINE cells == EocdCells(n, cd, at, m)
<1> DEFINE writable == EocdWritable(n, cd, at, m)
<1> DEFINE w == IF writable THEN Write(s, cells) ELSE Throw(s, "InvalidStateException")
<1> DEFINE x == [w EXCEPT !.phase = "sealed"]
<1> DEFINE t == WriteEocd(s)
<1>1. /\ s \in Streambuf /\ s.pos \in Nat
      /\ n \in Nat /\ cd \in Nat /\ at \in Nat /\ m \in Nat
  BY DEF Good, Streambuf
<1>2. t = Then(w, x)
  BY DEF WriteEocd
<1>b. m = s.comment
  OBVIOUS
<1> HIDE DEF n, cd, at, m
<1>3. /\ cells \in Seq(Cell) /\ Len(cells) = EocdSize + m
      /\ cells[1] = c /\ NoEocdFrom(2, cells)
  <2> HIDE DEF writable, w, x, t
  <2>1. /\ EocdCells(n, cd, at, m) \in Seq(Cell)
        /\ Len(EocdCells(n, cd, at, m)) = EocdSize + m
        /\ EocdCells(n, cd, at, m)[1] = EocdHead(n, cd, at, m)
        /\ NoEocdFrom(2, EocdCells(n, cd, at, m))
    <3>1. n \in Nat /\ cd \in Nat /\ at \in Nat /\ m \in Nat
      BY <1>1
    <3> QED
      BY <3>1, EocdCellsShape
  <2> QED
    BY <2>1
<1>4. cells # << >> /\ 1 \in 1..Len(cells)
  BY <1>1, <1>3, EocdSizeAssumption
<1>5. writable \in BOOLEAN
  BY DEF EocdWritable
<1>w. w = IF writable THEN Write(s, cells) ELSE Throw(s, "InvalidStateException")
  OBVIOUS
<1> HIDE DEF cells, c, w, writable
<1>6. /\ w \in Streambuf /\ w.entries = s.entries /\ w.comment = s.comment
      /\ w.crc = s.crc /\ w.cdStart = s.cdStart /\ w.cdNext = s.cdNext
      /\ w.cdSize = s.cdSize /\ ~w.openEntry
      /\ Len(s.file) <= Len(w.file)
      /\ w.thrown = "InvalidStateException" => ~writable
      /\ w.thrown = "none" =>
             /\ writable
             /\ w.pos = s.pos + Len(cells)
             /\ Latched(s) => ~w.refused
             /\ s.pos = Len(s.file) => Len(w.file) = s.pos + Len(cells)
             /\ \A i \in 1..Len(cells) : w.file[s.pos + i] = cells[i]
             /\ \A i \in 1..s.pos : w.file[i] = s.file[i]
  BY <1>1, <1>3, <1>4, <1>5, <1>w, RecordWritten, SMTT(20)
<1>7. /\ x.entries = w.entries /\ x.comment = w.comment /\ x.crc = w.crc
      /\ x.openEntry = w.openEntry /\ x.file = w.file /\ x.pos = w.pos
      /\ x.thrown = w.thrown /\ x.refused = w.refused
  BY <1>6 DEF Streambuf
<1> HIDE DEF x, t
<1>8. CASE w.thrown # "none"
  <2>1. t = w
    BY <1>2, <1>8 DEF Then
  <2> QED
    BY <1>6, <1>8, <2>1 DEF t, n, cd, at, m, writable
<1>9. CASE w.thrown = "none"
  <2>1. t = x
    BY <1>2, <1>9 DEF Then
  <2>2. t.file[s.pos + 1] = c
    BY <1>3, <1>4, <1>6, <1>7, <1>9, <2>1
  <2>3. ASSUME s.pos = Len(s.file)
        PROVE  /\ t.pos = Len(t.file)
               /\ Len(t.file) = s.pos + EocdSize + s.comment
               /\ NoEocdFrom(s.pos + 2, t.file)
    <3>1. t.pos = Len(t.file) /\ Len(t.file) = s.pos + Len(cells)
      BY <1>6, <1>7, <1>9, <2>1, <2>3
    <3>2. Len(t.file) = s.pos + EocdSize + s.comment
      BY <1>1, <1>3, <1>b, <3>1, EocdSizeAssumption
    <3>3. ASSUME NEW i \in s.pos + 2..Len(t.file)
          PROVE  t.file[i].k # "eocd"
      <4>1. /\ i - s.pos \in 2..Len(cells) /\ i - s.pos \in 1..Len(cells)
            /\ s.pos + (i - s.pos) = i
        BY <1>1, <1>3, <3>1
      <4>2. t.file[i] = cells[i - s.pos]
        BY <1>6, <1>7, <1>9, <2>1, <4>1
      <4> QED
        BY <1>3, <4>1, <4>2 DEF NoEocdFrom
    <3> QED
      BY <3>1, <3>2, <3>3 DEF NoEocdFrom
  <2>4. /\ t.entries = s.entries /\ t.comment = s.comment /\ t.crc = s.crc
        /\ ~t.openEntry /\ Len(s.file) <= Len(t.file) /\ t.thrown = "none"
        /\ (Latched(s) => ~t.refused)
        /\ \A i \in 1..s.pos : t.file[i] = s.file[i]
        /\ writable
    BY <1>6, <1>7, <1>9, <2>1
  <2> QED
    BY <2>2, <2>3, <2>4 DEF t, n, cd, at, m, c, writable
<1> QED
  BY <1>8, <1>9


\* A turn of the loop of writeZipCentralDirectory().
LEMMA CentralStepStructure ==
  ASSUME NEW s, Good(s), s.thrown = "none", ~s.openEntry, s.phase = "central"
  PROVE  LET t == CentralStep(s)
             n == Len(s.entries)
         IN  /\ t.entries = s.entries /\ t.comment = s.comment /\ ~t.openEntry
             /\ Len(s.file) <= Len(t.file)
             /\ t.thrown = "InvalidStateException" =>
                    \/ s.cdNext <= n /\ ~CentralWritable(s.entries[s.cdNext])
                    \/ ~EocdWritable(n, s.cdSize, s.cdStart, s.comment)
             /\ t.thrown = "none" =>
                    \/ s.cdNext <= n /\ t = WriteCentral(s) /\ t.phase = "central"
                    \/ s.cdNext > n /\ t = WriteEocd(s) /\ t.phase = "sealed"
<1> DEFINE n == Len(s.entries)
<1> DEFINE w == IF s.cdNext <= n THEN WriteCentral(s) ELSE WriteEocd(s)
<1> DEFINE x == [w EXCEPT !.phase = "idle"]
<1> DEFINE t == CentralStep(s)
<1>1. n \in Nat /\ s.cdNext \in Nat
  BY DEF Good, Streambuf
<1>2. t = IF w.thrown # "none" THEN x ELSE w
  BY DEF CentralStep
<1>3. /\ w \in Streambuf
      /\ w.entries = s.entries /\ w.comment = s.comment /\ ~w.openEntry
      /\ Len(s.file) <= Len(w.file)
      /\ w.thrown = "InvalidStateException" =>
             \/ s.cdNext <= n /\ ~CentralWritable(s.entries[s.cdNext])
             \/ ~EocdWritable(n, s.cdSize, s.cdStart, s.comment)
      /\ w.thrown = "none" =>
             \/ s.cdNext <= n /\ w = WriteCentral(s) /\ w.phase = "central"
             \/ s.cdNext > n /\ w = WriteEocd(s) /\ w.phase = "sealed"
  <2>1. CASE s.cdNext <= n
    <3>1. w = WriteCentral(s)
      BY <2>1
    <3> HIDE DEF w
    <3>2. Directory(s, w) /\ w.phase = "central"
      BY <2>1, <3>1, WriteCentralSafe
    <3>3. /\ w.entries = s.entries /\ w.comment = s.comment /\ ~w.openEntry
          /\ Len(s.file) <= Len(w.file)
          /\ w.thrown = "InvalidStateException"
                => ~CentralWritable(s.entries[s.cdNext])
      BY <2>1, <3>1, CentralWritten
    <3> QED
      BY <2>1, <3>1, <3>2, <3>3 DEF Directory, Safe, Good
  <2>2. CASE s.cdNext > n
    <3>1. w = WriteEocd(s)
      BY <1>1, <2>2
    <3> HIDE DEF w
    <3>2. Directory(s, w) /\ (w.thrown = "none" => w.phase = "sealed")
      BY <3>1, WriteEocdSafe
    <3>3. /\ w.entries = s.entries /\ w.comment = s.comment /\ ~w.openEntry
          /\ Len(s.file) <= Len(w.file)
          /\ w.thrown = "InvalidStateException"
                => ~EocdWritable(n, s.cdSize, s.cdStart, s.comment)
      BY <3>1, EocdWritten
    <3> QED
      BY <2>2, <3>1, <3>2, <3>3 DEF Directory, Safe, Good
  <2> QED
    BY <1>1, <2>1, <2>2
<1> HIDE DEF w
<1>4. /\ x.entries = w.entries /\ x.comment = w.comment
      /\ x.openEntry = w.openEntry /\ x.file = w.file /\ x.thrown = w.thrown
  BY <1>3 DEF Streambuf
<1> HIDE DEF x, t
<1>5. CASE w.thrown = "none"
  BY <1>2, <1>3, <1>5 DEF t, n
<1>6. CASE w.thrown # "none"
  BY <1>2, <1>3, <1>4, <1>6 DEF t, n
<1> QED
  BY <1>5, <1>6

\* A new entry has no data yet, and the file ends with its local header.
LEMMA PutFills ==
  ASSUME NEW s, Good(s), s.thrown = "none", StreamOfEntry(s), NEW e \in Entry,
         CloseEntry(s).crc = << >>, CloseEntry(s).pos = Len(CloseEntry(s).file),
         PutNextEntry(s, e).thrown = "none"
  PROVE  LET u == PutNextEntry(s, e)
         IN  /\ Filling(u) /\ u.crc = << >> /\ u.invec = << >>
             /\ u.level # 0 => u.zsInit
<1> DEFINE u == PutNextEntry(s, e)
<1> DEFINE c == CloseEntry(s)
<1> DEFINE at == [e EXCEPT !.offset = c.pos]
<1>1. /\ u.thrown = "none" /\ c.crc = << >> /\ c.pos = Len(c.file)
  OBVIOUS
<1>2. /\ u.entries = Append(c.entries, at) /\ u.pos = DataAt(at)
      /\ u.invec = << >>
      /\ c.crc = << >> => u.crc = << >>
      /\ c.pos = Len(c.file) => u.pos = Len(u.file)
      /\ u.level = EffectiveLevel(e) /\ u.overflown = 0
      /\ u.level # 0 => u.zsInit /\ u.outvec = << >>
  BY <1>1, PutStructure
<1>3. /\ Good(c) /\ c.entries \in Seq(Entry) /\ c.pos \in Nat
  BY CloseEntrySafe DEF Safe, Good, Streambuf
<1> HIDE DEF u, c
<1>4. /\ at \in Entry /\ EffectiveLevel(at) = EffectiveLevel(e)
  BY <1>3 DEF Entry, EffectiveLevel
<1> HIDE DEF at
<1>5. LastEntry(u) = at
  <2>1. \A q \in Seq(Entry) : Append(q, at)[Len(Append(q, at))] = at
    BY <1>4
  <2> QED
    BY <1>2, <1>3, <2>1 DEF LastEntry
<1>6. u.pos = DataAt(LastEntry(u)) + 0 /\ DataAt(LastEntry(u)) \in Nat
  <2>1. DataAt(at) \in Nat
    BY <1>4, DataAtType
  <2> QED
    BY <1>2, <1>5, <2>1
<1>7. Filled(u.file, DataAt(LastEntry(u)), u.level, u.crc)
  <2>1. u.crc = << >> /\ Len(u.file) = DataAt(LastEntry(u)) + 0
    BY <1>1, <1>2, <1>6
  <2> QED
    BY <1>6, <2>1 DEF Filled
<1>8. Filling(u)
  BY <1>1, <1>2, <1>4, <1>5, <1>7 DEF Filling
<1> QED
  BY <1>1, <1>2, <1>8 DEF u

-----------------------------------------------------------------------------
(* The inductive invariant. *)

\* While the try block runs nothing has failed, and a deflate stream is that
\* of the open entry.
Running ==
  pc \in {"put", "copy", "finish"} =>
    /\ result = "running"
    /\ zb.thrown = "none"
    /\ zb.open
    /\ StreamOfEntry(zb)

Copying == pc = "copy" => input # << >>

InDirectory ==
  pc = "central" =>
    /\ result = "running"
    /\ zb.thrown = "none"
    /\ zb.phase = "central"
    /\ ~zb.openEntry
    /\ ~zb.zsInit

\* What the destructors find: a deflate stream that finish() will close, or
\* one that nothing was put into.
Unwinding ==
  pc = "unwind" =>
    /\ result = "failed"
    /\ zb.thrown # "logic_error"
    /\ Unwindable(zb)

UnwindingDirectory ==
  pc = "unwindCentral" =>
    /\ result = "failed"
    /\ zb.thrown = "none"
    /\ zb.phase = "central"
    /\ ~zb.openEntry
    /\ zb.zsInit => Pristine(zb)

Destroying ==
  pc = "destroy" =>
    /\ result \in {"saved", "failed"}
    /\ zb.thrown = "none"
    /\ zb.zsInit => Pristine(zb)

Returned ==
  pc = "done" => result \in {"saved", "failed"} /\ zb.thrown = "none"

Saved ==
  result = "saved" =>
    /\ pc \in {"destroy", "done"}
    /\ ~zb.zsInit
    /\ ~recovered => ~zb.refused

Control ==
  /\ Running
  /\ Copying
  /\ InDirectory
  /\ Unwinding
  /\ UnwindingDirectory
  /\ Destroying
  /\ Returned
  /\ Saved

IInv ==
  /\ TypeOK
  /\ Good(zb)
  /\ ~recovered => Latched(zb)
  /\ Control

-----------------------------------------------------------------------------
(* Lemmas about single parts of a step. *)

LEMMA CopyEntryType ==
  ASSUME NEW e \in SourceEntry
  PROVE  CopyEntry(e) \in Entry
<1>1. << >> \in Seq(Byte) /\ 0 \in Nat
  OBVIOUS
<1> QED
  BY <1>1 DEF CopyEntry, SourceEntry, Entry

LEMMA AsCentralType ==
  ASSUME NEW e \in SourceEntry \cup Entry
  PROVE  AsCentral(e) \in Entry
<1>1. CASE e \in SourceEntry
  <2>1. ~IsCentral(e)
    BY <1>1 DEF IsCentral, SourceEntry
  <2> QED
    BY <1>1, <2>1, CopyEntryType DEF AsCentral
<1>2. CASE e \in Entry
  <2>1. IsCentral(e)
    BY <1>2 DEF IsCentral, Entry
  <2> QED
    BY <1>2, <2>1 DEF AsCentral
<1> QED
  BY <1>1, <1>2

\* The stream that getInputStream() returns, at whatever offset it looks.
LEMMA SourceType ==
  ASSUME disk \in Disk, NEW e \in SourceEntry \cup Entry, NEW offset \in Nat
  PROVE  Source(e, offset).bytes \in Seq(Byte)
<1>1. /\ disk.files \in [Name -> DiskFile] /\ disk.archive \in Seq(Cell)
      /\ disk.start \in Nat
  BY DEF Disk
<1>2. CASE IsCentral(e)
  <2> DEFINE p == offset + disk.start
  <2>1. Source(e, offset) = Archived(p)
    BY <1>2 DEF Source
  <2>2. CASE ReadableHeader(disk.archive, p, "local")
    <3>1. p \in 0..Len(disk.archive) - 1
      BY <1>1, <2>2 DEF ReadableHeader
    <3>2. Content(disk.archive, p) \in Seq(Byte)
      BY <2>2, <3>1 DEF Disk
    <3> QED
      BY <2>1, <2>2, <3>2 DEF Archived
  <2>3. CASE ~ReadableHeader(disk.archive, p, "local")
    BY <2>1, <2>3 DEF Archived
  <2> QED
    BY <2>2, <2>3
<1>3. CASE ~IsCentral(e)
  <2>1. e.name \in Name
    BY DEF SourceEntry, Entry
  <2>2. disk.files[e.name] \in DiskFile
    BY <1>1, <2>1
  <2> QED
    BY <1>3, <2>2 DEF Source, DiskFile
<1> QED
  BY <1>2, <1>3

LEMMA NewStreambufType ==
  ASSUME NEW clen \in Nat, NEW fuse \in Int, NEW short \in Nat
  PROVE  NewStreambuf(clen, fuse, short) \in Streambuf
<1>1. ASSUME NEW crc \in Seq(Byte), NEW invec \in Seq(Byte),
             NEW outvec \in Seq(Cell), NEW entries \in Seq(Entry),
             NEW file \in Seq(Cell), NEW overflown \in 0..WordMod-1,
             NEW cdNext \in Nat \ {0}
      PROVE  [open |-> TRUE, openEntry |-> FALSE, level |-> 1,
              overflown |-> overflown, crc |-> crc, invec |-> invec,
              outvec |-> outvec, zsInit |-> FALSE, entries |-> entries,
              comment |-> clen, thrown |-> "none", phase |-> "idle",
              cdStart |-> 0, cdNext |-> cdNext, cdSize |-> 0,
              file |-> file, pos |-> 0, fuse |-> fuse, short |-> short,
              refused |-> FALSE] \in Streambuf
  BY DEF Streambuf, Exception
<1>2. /\ << >> \in Seq(Byte) /\ << >> \in Seq(Cell) /\ << >> \in Seq(Entry)
      /\ 0 \in 0..WordMod-1 /\ 1 \in Nat \ {0}
  BY WordModPositive
<1> QED
  BY <1>1, <1>2 DEF NewStreambuf

\* Forgetting an exception changes nothing else.
LEMMA CaughtSafe ==
  ASSUME NEW s, NEW t, Good(s), Safe(s, t)
  PROVE  LET u == [t EXCEPT !.thrown = "none"]
         IN  /\ Safe(s, u) /\ u.thrown = "none"
             /\ u.open = t.open /\ u.openEntry = t.openEntry
             /\ u.level = t.level /\ u.zsInit = t.zsInit
             /\ u.phase = t.phase
             /\ Pristine(t) => Pristine(u)
             /\ Unwindable(t) => Unwindable(u)
             /\ StreamOfEntry(t) => StreamOfEntry(u)
<1> DEFINE u == [t EXCEPT !.thrown = "none"]
<1>1. t \in Streambuf /\ Good(t)
  BY DEF Safe, Good
<1>2. /\ u \in Streambuf /\ u.thrown = "none"
      /\ u.open = t.open /\ u.openEntry = t.openEntry
      /\ u.level = t.level /\ u.zsInit = t.zsInit /\ u.phase = t.phase
      /\ u.entries = t.entries /\ u.pos = t.pos /\ u.file = t.file
      /\ u.fuse = t.fuse /\ u.short = t.short /\ u.refused = t.refused
      /\ u.invec = t.invec /\ u.outvec = t.outvec
      /\ u.crc = t.crc /\ u.overflown = t.overflown
  BY <1>1 DEF Streambuf, Exception
<1> HIDE DEF u
<1>3. Good(u) /\ Committed(u) = Committed(t)
  BY <1>1, <1>2 DEF Good, Committed, LastEntry
<1>4. Safe(s, u)
  BY <1>2, <1>3 DEF Safe, Keeps, Latched
<1>5. /\ Pristine(t) => Pristine(u)
      /\ Unwindable(t) => Unwindable(u)
      /\ StreamOfEntry(t) => StreamOfEntry(u)
  BY <1>2 DEF Pristine, Unwindable, StreamOfEntry
<1> QED
  BY <1>2, <1>4, <1>5 DEF u

LEMMA StreamOfEntryUnwinds ==
  ASSUME NEW s, StreamOfEntry(s), s.open
  PROVE  Unwindable(s)
BY DEF StreamOfEntry, Unwindable

-----------------------------------------------------------------------------
(* The invariant is inductive. *)

LEMMA InitInvariant == Init => IInv
<1> SUFFICES ASSUME Init PROVE IInv
  OBVIOUS
<1>1. PICK s \in Saves :
        /\ listing = s.listing
        /\ disk = s.disk
        /\ zb = NewStreambuf(s.comment, s.fuse, s.short)
  BY DEF Init
<1>2. /\ s.listing \in Seq(SourceEntry \cup Entry)
      /\ s.disk \in Disk
      /\ s.comment \in Nat
      /\ s.fuse \in Int /\ s.short \in Nat
  BY SavesAssumption
<1>3. zb \in Streambuf
  BY <1>1, <1>2, NewStreambufType
<1>4. /\ zb.pos = 0 /\ Len(zb.file) = 0 /\ ~zb.openEntry /\ ~zb.zsInit
      /\ ~zb.refused /\ zb.thrown = "none" /\ zb.open
  BY <1>1 DEF NewStreambuf
<1>5. Good(zb) /\ Latched(zb)
  BY <1>3, <1>4 DEF Good, Latched
<1>6. TypeOK
  <2>1. << >> \in Seq(Byte)
    OBVIOUS
  <2>2. listing \in Seq(SourceEntry \cup Entry) /\ disk \in Disk
    BY <1>1, <1>2
  <2>3. 1 \in 1..Len(listing) + 1
    BY <2>2
  <2>4. /\ next = 1 /\ input = << >> /\ failbit \in BOOLEAN
        /\ pc \in Pc /\ result \in Result /\ recovered \in BOOLEAN
    BY DEF Init, Pc, Result
  <2>5. zb.pos <= Len(zb.file)
    BY <1>4
  <2> HIDE DEF Init
  <2> QED
    BY <1>3, <2>1, <2>2, <2>3, <2>4, <2>5 DEF TypeOK
<1>7. Control
  BY <1>4 DEF Init, Control, Running, Copying, InDirectory, Unwinding,
     UnwindingDirectory, Destroying, Returned, Saved, StreamOfEntry
<1> QED
  BY <1>5, <1>6, <1>7 DEF IInv

\* The parts of IInv that are about the streambuf follow from Safe.
LEMMA StepInvariant ==
  ASSUME IInv, Safe(zb, zb'), UNCHANGED << listing, disk, recovered >>,
         next' \in 1..Len(listing) + 1, input' \in Seq(Byte),
         failbit' \in BOOLEAN, pc' \in Pc, result' \in Result, Control'
  PROVE  IInv'
<1>1. Good(zb') /\ zb' \in Streambuf /\ zb'.pos <= Len(zb'.file)
  BY DEF Safe, Good
<1>2. TypeOK'
  BY <1>1 DEF IInv, TypeOK
<1>3. (~recovered => Latched(zb))'
  BY DEF IInv, Safe
<1> QED
  BY <1>1, <1>2, <1>3 DEF IInv

LEMMA ListedEntry ==
  ASSUME IInv, next <= Len(listing)
  PROVE  /\ listing[next] \in SourceEntry \cup Entry
         /\ next + 1 \in 1..Len(listing) + 1
<1>1. listing \in Seq(SourceEntry \cup Entry) /\ next \in 1..Len(listing)
  BY DEF IInv, TypeOK
<1> QED
  BY <1>1, ElementOfSeq

\* putNextEntry(), as the try block calls it.
LEMMA PutSafe ==
  ASSUME IInv, pc = "put", next <= Len(listing)
  PROVE  LET u == PutNextEntry(zb, AsCentral(listing[next]))
         IN  /\ Safe(zb, u)
             /\ u.open /\ u.thrown # "logic_error"
             /\ u.thrown = "none" => StreamOfEntry(u) /\ u.openEntry
             /\ Unwindable(u)
<1>1. /\ Good(zb) /\ zb.thrown = "none" /\ zb.open /\ StreamOfEntry(zb)
  BY DEF IInv, Control, Running
<1>2. AsCentral(listing[next]) \in Entry
  BY ListedEntry, AsCentralType
<1> QED
  BY <1>1, <1>2, PutNextEntrySafe

LEMMA PutBareInvariant ==
  ASSUME IInv, PutBare
  PROVE  IInv' /\ Safe(zb, zb')
<1> DEFINE u == PutNextEntry(zb, AsCentral(listing[next]))
<1>1. /\ pc = "put" /\ next <= Len(listing) /\ zb' = u
      /\ pc' = IF u.thrown = "none" THEN "put" ELSE "unwind"
      /\ result' = IF u.thrown = "none" THEN result ELSE "failed"
      /\ next' = next + 1 /\ UNCHANGED << listing, disk, input, failbit, recovered >>
  BY DEF PutBare, Call
<1>2. /\ Safe(zb, u)
      /\ u.open /\ u.thrown # "logic_error"
      /\ u.thrown = "none" => StreamOfEntry(u) /\ u.openEntry
      /\ Unwindable(u)
  BY <1>1, PutSafe
<1>3. result = "running"
  BY <1>1 DEF IInv, Control, Running
<1> HIDE DEF u
<1>4. Control'
  BY <1>1, <1>2, <1>3 DEF Control, Running, Copying, InDirectory, Unwinding,
     UnwindingDirectory, Destroying, Returned, Saved
<1>5. /\ next' \in 1..Len(listing) + 1 /\ pc' \in Pc /\ result' \in Result
      /\ input' \in Seq(Byte) /\ failbit' \in BOOLEAN
  BY <1>1, <1>3, ListedEntry DEF IInv, TypeOK, Pc, Result
<1> QED
  BY <1>1, <1>2, <1>4, <1>5, StepInvariant

LEMMA PutFileInvariant ==
  ASSUME IInv, PutFile
  PROVE  IInv' /\ Safe(zb, zb')
<1> DEFINE u == PutNextEntry(zb, AsCentral(listing[next]))
<1> DEFINE src == Source(listing[next], LastEntry(u).offset)
<1> DEFINE copies == src.state = "file" /\ u.thrown = "none"
<1> DEFINE escapes == u.thrown # "none" \/ src.state = "throws"
<1>1. /\ pc = "put" /\ next <= Len(listing) /\ zb' = u
      /\ pc' = IF escapes THEN "unwind"
               ELSE IF copies /\ ~failbit /\ src.bytes # << >>
                    THEN "copy" ELSE "put"
      /\ result' = IF escapes THEN "failed" ELSE result
      /\ input' = IF copies /\ ~failbit THEN src.bytes ELSE << >>
      /\ failbit' = (failbit \/ (copies /\ src.bytes = << >>))
      /\ next' = next + 1 /\ UNCHANGED << listing, disk, recovered >>
  BY DEF PutFile
<1>2. /\ Safe(zb, u)
      /\ u.open /\ u.thrown # "logic_error"
      /\ u.thrown = "none" => StreamOfEntry(u) /\ u.openEntry
      /\ Unwindable(u)
  BY <1>1, PutSafe
<1>3. result = "running"
  BY <1>1 DEF IInv, Control, Running
<1>4. copies => src.bytes \in Seq(Byte)
  <2> SUFFICES ASSUME copies PROVE src.bytes \in Seq(Byte)
    OBVIOUS
  <2>1. u \in Streambuf /\ u.openEntry
    BY <1>2 DEF Safe, Good
  <2>2. LastEntry(u).offset \in Nat
    <3>1. u.entries # << >> /\ u.entries \in Seq(Entry)
      BY <1>2, <2>1 DEF Safe, Good, Streambuf
    <3>2. LastEntry(u) \in Entry
      BY <3>1, ElementOfSeq DEF LastEntry
    <3> QED
      BY <3>2 DEF Entry
  <2>3. listing[next] \in SourceEntry \cup Entry /\ disk \in Disk
    BY <1>1, ListedEntry DEF IInv, TypeOK
  <2> QED
    BY <2>2, <2>3, SourceType
<1> HIDE DEF u, src
<1>5. CASE escapes
  <2>1. pc' = "unwind" /\ result' = "failed"
    BY <1>1, <1>5
  <2> QED
    <3>1. Control'
      BY <1>1, <1>2, <2>1 DEF Control, Running, Copying, InDirectory,
         Unwinding, UnwindingDirectory, Destroying, Returned, Saved
    <3>2. /\ next' \in 1..Len(listing) + 1 /\ pc' \in Pc
          /\ result' \in Result /\ input' \in Seq(Byte) /\ failbit' \in BOOLEAN
      BY <1>1, <1>4, <2>1, ListedEntry DEF IInv, TypeOK, Pc, Result
    <3> QED
      BY <1>1, <1>2, <3>1, <3>2, StepInvariant
<1>6. CASE ~escapes
  <2>1. /\ u.thrown = "none" /\ result' = "running"
        /\ \/ pc' = "put"
           \/ pc' = "copy" /\ input' # << >>
    BY <1>1, <1>3, <1>6
  <2> QED
    <3>1. Control'
      BY <1>1, <1>2, <2>1 DEF Control, Running, Copying, InDirectory,
         Unwinding, UnwindingDirectory, Destroying, Returned, Saved
    <3>2. /\ next' \in 1..Len(listing) + 1 /\ pc' \in Pc
          /\ result' \in Result /\ input' \in Seq(Byte) /\ failbit' \in BOOLEAN
      BY <1>1, <1>4, <2>1, ListedEntry DEF IInv, TypeOK, Pc, Result
    <3> QED
      BY <1>1, <1>2, <3>1, <3>2, StepInvariant
<1> QED
  BY <1>5, <1>6

LEMMA CopyByteInvariant ==
  ASSUME IInv, CopyByte
  PROVE  IInv' /\ Safe(zb, zb')
<1> DEFINE t == Sputc(zb, Head(input))
<1> DEFINE stop == t.thrown # "none"
<1>1. /\ pc = "copy" /\ zb' = [t EXCEPT !.thrown = "none"]
      /\ failbit' = (failbit \/ stop)
      /\ input' = IF stop THEN << >> ELSE Tail(input)
      /\ pc' = IF stop \/ Len(input) = 1 THEN "put" ELSE "copy"
      /\ UNCHANGED << listing, disk, next, result, recovered >>
  BY DEF CopyByte
<1>2. /\ Good(zb) /\ zb.open /\ StreamOfEntry(zb) /\ result = "running"
      /\ input # << >> /\ input \in Seq(Byte)
  BY <1>1 DEF IInv, Control, Running, Copying, TypeOK
<1>3. /\ Head(input) \in Byte /\ Tail(input) \in Seq(Byte)
      /\ Len(input) # 1 => Tail(input) # << >>
  <2>1. /\ Head(input) = input[1] /\ Len(input) \in Nat /\ Len(input) # 0
        /\ Tail(input) \in Seq(Byte) /\ Len(Tail(input)) = Len(input) - 1
    BY <1>2, HeadTailProperties, EmptySeq
  <2>2. input[1] \in Byte
    BY <1>2, <2>1, ElementOfSeq
  <2> QED
    BY <2>1, <2>2, EmptySeq
<1>4. Forward(zb, t)
  BY <1>2, <1>3, SputcForward DEF Good
<1>5. Safe(zb, t)
  BY <1>2, <1>4, ForwardSafe
<1>6. StreamOfEntry(t) /\ t.open
  BY <1>2, <1>4 DEF Forward, StreamOfEntry
<1> HIDE DEF t
<1>7. /\ Safe(zb, zb') /\ zb'.thrown = "none" /\ zb'.open /\ StreamOfEntry(zb')
  BY <1>1, <1>2, <1>5, <1>6, CaughtSafe
<1>8. Control'
  BY <1>1, <1>2, <1>3, <1>7 DEF Control, Running, Copying, InDirectory,
     Unwinding, UnwindingDirectory, Destroying, Returned, Saved
<1>9. /\ next' \in 1..Len(listing) + 1 /\ pc' \in Pc /\ result' \in Result
      /\ input' \in Seq(Byte) /\ failbit' \in BOOLEAN
  BY <1>1, <1>3 DEF IInv, TypeOK, Pc, Result
<1> QED
  BY <1>1, <1>7, <1>8, <1>9, StepInvariant

LEMMA LeaveLoopInvariant ==
  ASSUME IInv, LeaveLoop
  PROVE  IInv' /\ Safe(zb, zb')
<1> DEFINE u == CloseEntry(zb)
<1>1. /\ pc = "put" /\ zb' = u
      /\ pc' = IF u.thrown = "none" THEN "finish" ELSE "unwind"
      /\ result' = IF u.thrown = "none" THEN result ELSE "failed"
      /\ UNCHANGED << listing, disk, next, input, failbit, recovered >>
  BY DEF LeaveLoop, Call
<1>2. /\ Good(zb) /\ zb.thrown = "none" /\ zb.open /\ StreamOfEntry(zb)
      /\ result = "running"
  BY <1>1 DEF IInv, Control, Running
<1>3. /\ Safe(zb, u) /\ ~u.zsInit /\ u.open = zb.open
      /\ u.thrown # "logic_error"
  BY <1>2, CloseEntrySafe
<1> HIDE DEF u
<1>4. StreamOfEntry(u) /\ Unwindable(u)
  BY <1>3 DEF StreamOfEntry, Unwindable
<1>5. Control'
  BY <1>1, <1>2, <1>3, <1>4 DEF Control, Running, Copying, InDirectory,
     Unwinding, UnwindingDirectory, Destroying, Returned, Saved
<1>6. /\ next' \in 1..Len(listing) + 1 /\ pc' \in Pc /\ result' \in Result
      /\ input' \in Seq(Byte) /\ failbit' \in BOOLEAN
  BY <1>1, <1>2 DEF IInv, TypeOK, Pc, Result
<1> QED
  BY <1>1, <1>3, <1>5, <1>6, StepInvariant

LEMMA FinishInvariant ==
  ASSUME IInv, Finish
  PROVE  IInv' /\ Safe(zb, zb')
<1> DEFINE u == BeginFinish(zb)
<1>1. /\ pc = "finish" /\ zb' = u
      /\ pc' = IF u.thrown = "none" THEN "central" ELSE "unwind"
      /\ result' = IF u.thrown = "none" THEN result ELSE "failed"
      /\ UNCHANGED << listing, disk, next, input, failbit, recovered >>
  BY DEF Finish, Call
<1>2. /\ Good(zb) /\ zb.thrown = "none" /\ zb.open /\ StreamOfEntry(zb)
      /\ result = "running"
  BY <1>1 DEF IInv, Control, Running
<1>3. /\ Safe(zb, u) /\ (u.zsInit => zb.zsInit /\ ~zb.openEntry)
      /\ u.thrown # "logic_error"
      /\ u.thrown = "none" => ~u.openEntry /\ u.phase = "central"
  BY <1>2, StreamOfEntryUnwinds, BeginFinishSafe
<1>4. ~u.zsInit
  BY <1>2, <1>3 DEF StreamOfEntry
<1> HIDE DEF u
<1>5. Unwindable(u)
  BY <1>4 DEF Unwindable
<1>6. Control'
  BY <1>1, <1>2, <1>3, <1>4, <1>5 DEF Control, Running, Copying, InDirectory,
     Unwinding, UnwindingDirectory, Destroying, Returned, Saved
<1>7. /\ next' \in 1..Len(listing) + 1 /\ pc' \in Pc /\ result' \in Result
      /\ input' \in Seq(Byte) /\ failbit' \in BOOLEAN
  BY <1>1, <1>2 DEF IInv, TypeOK, Pc, Result
<1> QED
  BY <1>1, <1>3, <1>6, <1>7, StepInvariant

LEMMA CentralInvariant ==
  ASSUME IInv, Central
  PROVE  IInv' /\ Safe(zb, zb')
<1> DEFINE t == CentralStep(zb)
<1>1. /\ pc = "central" /\ zb' = t
      /\ pc' = IF t.thrown # "none" THEN "unwind"
               ELSE IF t.phase = "sealed" THEN "destroy" ELSE "central"
      /\ result' = IF t.thrown # "none" THEN "failed"
                   ELSE IF t.phase = "sealed" THEN "saved" ELSE result
      /\ UNCHANGED << listing, disk, next, input, failbit, recovered >>
  BY DEF Central
<1>2. /\ Good(zb) /\ zb.thrown = "none" /\ zb.phase = "central"
      /\ ~zb.openEntry /\ ~zb.zsInit /\ result = "running"
      /\ ~recovered => Latched(zb)
  BY <1>1 DEF IInv, Control, InDirectory
<1>3. /\ Directory(zb, t)
      /\ t.thrown = "none" => t.phase \in {"central", "sealed"}
  BY <1>2, CentralStepSafe
<1> HIDE DEF t
<1>4. /\ Safe(zb, t) /\ ~t.openEntry /\ ~t.zsInit /\ t.thrown # "logic_error"
      /\ t.phase = "sealed" /\ t.thrown = "none" /\ Latched(zb) => ~t.refused
  BY <1>2, <1>3 DEF Directory
<1>5. Unwindable(t)
  BY <1>4 DEF Unwindable
<1>6. Control'
  BY <1>1, <1>2, <1>3, <1>4, <1>5 DEF Control, Running, Copying, InDirectory,
     Unwinding, UnwindingDirectory, Destroying, Returned, Saved
<1>7. /\ next' \in 1..Len(listing) + 1 /\ pc' \in Pc /\ result' \in Result
      /\ input' \in Seq(Byte) /\ failbit' \in BOOLEAN
  BY <1>1, <1>2 DEF IInv, TypeOK, Pc, Result
<1> QED
  BY <1>1, <1>4, <1>6, <1>7, StepInvariant

LEMMA UnwindInvariant ==
  ASSUME IInv, Unwind
  PROVE  IInv' /\ Safe(zb, zb')
<1> DEFINE v == [zb EXCEPT !.thrown = "none"]
<1> DEFINE t == BeginFinish(v)
<1>1. /\ pc = "unwind" /\ zb' = [t EXCEPT !.thrown = "none"]
      /\ pc' = IF zb.open /\ t.thrown = "none"
               THEN "unwindCentral" ELSE "destroy"
      /\ UNCHANGED << listing, disk, next, input, failbit, result, recovered >>
  BY DEF Unwind
<1>2. Good(zb) /\ Unwindable(zb) /\ result = "failed"
  BY <1>1 DEF IInv, Control, Unwinding
<1>3. /\ Safe(zb, v) /\ v.thrown = "none" /\ v.open = zb.open
      /\ v.openEntry = zb.openEntry /\ Unwindable(v) /\ Good(v)
  BY <1>2, SafeReflexive, CaughtSafe DEF Safe
<1>4. /\ Safe(v, t) /\ (t.zsInit => Pristine(t))
      /\ zb.open /\ t.thrown = "none" => ~t.openEntry /\ t.phase = "central"
  <2> HIDE DEF v
  <2>1. CASE v.open
    BY <1>3, <2>1, BeginFinishSafe
  <2>2. CASE ~v.open
    BY <1>3, <2>2, SafeReflexive DEF BeginFinish, Unwindable
  <2> QED
    BY <2>1, <2>2
<1> HIDE DEF v, t
<1>5. Safe(zb, t)
  BY <1>2, <1>3, <1>4, SafeTransitive
<1>6. /\ Safe(zb, zb') /\ zb'.thrown = "none"
      /\ zb'.openEntry = t.openEntry /\ zb'.phase = t.phase
      /\ zb'.zsInit => Pristine(zb')
  BY <1>1, <1>2, <1>4, <1>5, CaughtSafe
<1>7. Control'
  BY <1>1, <1>2, <1>4, <1>6 DEF Control, Running, Copying, InDirectory,
     Unwinding, UnwindingDirectory, Destroying, Returned, Saved
<1>8. /\ next' \in 1..Len(listing) + 1 /\ pc' \in Pc /\ result' \in Result
      /\ input' \in Seq(Byte) /\ failbit' \in BOOLEAN
  BY <1>1, <1>2 DEF IInv, TypeOK, Pc, Result
<1> QED
  BY <1>1, <1>6, <1>7, <1>8, StepInvariant

LEMMA UnwindCentralInvariant ==
  ASSUME IInv, UnwindCentral
  PROVE  IInv' /\ Safe(zb, zb')
<1> DEFINE t == CentralStep(zb)
<1>1. /\ pc = "unwindCentral" /\ zb' = [t EXCEPT !.thrown = "none"]
      /\ pc' = IF t.phase = "central" THEN "unwindCentral" ELSE "destroy"
      /\ UNCHANGED << listing, disk, next, input, failbit, result, recovered >>
  BY DEF UnwindCentral
<1>2. /\ Good(zb) /\ zb.thrown = "none" /\ zb.phase = "central"
      /\ ~zb.openEntry /\ (zb.zsInit => Pristine(zb)) /\ result = "failed"
  BY <1>1 DEF IInv, Control, UnwindingDirectory
<1>3. Directory(zb, t)
  BY <1>2, CentralStepSafe
<1> HIDE DEF t
<1>4. Safe(zb, t) /\ ~t.openEntry /\ (t.zsInit => Pristine(t))
  BY <1>2, <1>3 DEF Directory
<1>5. /\ Safe(zb, zb') /\ zb'.thrown = "none" /\ ~zb'.openEntry
      /\ zb'.phase = t.phase /\ (zb'.zsInit => Pristine(zb'))
  BY <1>1, <1>2, <1>4, CaughtSafe
<1>6. Control'
  BY <1>1, <1>2, <1>5 DEF Control, Running, Copying, InDirectory,
     Unwinding, UnwindingDirectory, Destroying, Returned, Saved
<1>7. /\ next' \in 1..Len(listing) + 1 /\ pc' \in Pc /\ result' \in Result
      /\ input' \in Seq(Byte) /\ failbit' \in BOOLEAN
  BY <1>1, <1>2 DEF IInv, TypeOK, Pc, Result
<1> QED
  BY <1>1, <1>5, <1>6, <1>7, StepInvariant

LEMMA DestroyInvariant ==
  ASSUME IInv, Destroy
  PROVE  IInv' /\ Safe(zb, zb')
<1> DEFINE t == DestroyStream(zb)
<1>1. /\ pc = "destroy" /\ zb' = t /\ pc' = "done"
      /\ result' = IF t.thrown = "none" THEN result ELSE "terminated"
      /\ UNCHANGED << listing, disk, next, input, failbit, recovered >>
  BY DEF Destroy
<1>2. /\ Good(zb) /\ zb.thrown = "none" /\ (zb.zsInit => Pristine(zb))
      /\ result \in {"saved", "failed"}
      /\ result = "saved" => ~zb.zsInit /\ (~recovered => ~zb.refused)
  BY <1>1 DEF IInv, Control, Destroying, Saved
<1>3. t.thrown = "none"
  BY <1>2, ClosePristine
<1>4. Safe(zb, t) /\ ~t.zsInit
  BY <1>2, DestroyStreamForward, ForwardSafe DEF Good
<1>5. result = "saved" => t = zb
  BY <1>2 DEF DestroyStream
<1> HIDE DEF t
<1>6. Control'
  BY <1>1, <1>2, <1>3, <1>4, <1>5 DEF Control, Running, Copying, InDirectory,
     Unwinding, UnwindingDirectory, Destroying, Returned, Saved
<1>7. /\ next' \in 1..Len(listing) + 1 /\ pc' \in Pc /\ result' \in Result
      /\ input' \in Seq(Byte) /\ failbit' \in BOOLEAN
  BY <1>1, <1>2, <1>3 DEF IInv, TypeOK, Pc, Result
<1> QED
  BY <1>1, <1>4, <1>6, <1>7, StepInvariant

LEMMA RecoverInvariant ==
  ASSUME IInv, Recover
  PROVE  IInv' /\ Keeps(zb, zb')
<1> DEFINE always == -1
<1> DEFINE t == [zb EXCEPT !.fuse = always]
<1>1. /\ recovered' = TRUE /\ zb' = t
      /\ UNCHANGED << listing, disk, next, input, failbit, pc, result >>
  BY DEF Recover
<1>a. always \in Int
  OBVIOUS
<1> HIDE DEF always
<1>2. Good(zb) /\ zb \in Streambuf
  BY DEF IInv, Good
<1>3. /\ t \in Streambuf
      /\ t.open = zb.open /\ t.openEntry = zb.openEntry
      /\ t.level = zb.level /\ t.zsInit = zb.zsInit /\ t.phase = zb.phase
      /\ t.entries = zb.entries /\ t.pos = zb.pos /\ t.file = zb.file
      /\ t.refused = zb.refused /\ t.thrown = zb.thrown
      /\ t.invec = zb.invec /\ t.outvec = zb.outvec
      /\ t.crc = zb.crc /\ t.overflown = zb.overflown
  BY <1>2, <1>a DEF Streambuf
<1> HIDE DEF t
<1>4. Good(t) /\ Keeps(zb, t)
  <2>1. Committed(zb) \in Nat
    BY <1>2, CommittedRange
  <2>2. Good(t) /\ Committed(t) = Committed(zb)
    BY <1>2, <1>3 DEF Good, Committed, LastEntry
  <2> QED
    BY <1>3, <2>1, <2>2 DEF Keeps
<1>5. /\ StreamOfEntry(zb) => StreamOfEntry(t)
      /\ Unwindable(zb) => Unwindable(t)
      /\ Pristine(zb) => Pristine(t)
  BY <1>3 DEF StreamOfEntry, Unwindable, Pristine
<1>6. Control
  BY DEF IInv
<1>7. (Running /\ Copying /\ InDirectory /\ Unwinding)'
  BY <1>1, <1>3, <1>5, <1>6 DEF Control, Running, Copying, InDirectory, Unwinding
<1>8. (UnwindingDirectory /\ Destroying /\ Returned)'
  BY <1>1, <1>3, <1>5, <1>6 DEF Control, UnwindingDirectory, Destroying, Returned
<1>9. Saved'
  BY <1>1, <1>3, <1>6 DEF Control, Saved
<1>10. Control'
  BY <1>7, <1>8, <1>9 DEF Control
<1>11. TypeOK'
  BY <1>1, <1>3, <1>4 DEF IInv, TypeOK, Good
<1>12. IInv'
  BY <1>1, <1>4, <1>10, <1>11 DEF IInv
<1> QED
  BY <1>1, <1>4, <1>12

LEMMA UnchangedInvariant ==
  ASSUME IInv, UNCHANGED vars
  PROVE  IInv' /\ Keeps(zb, zb')
<1>1. Committed(zb) \in Nat
  BY CommittedRange DEF IInv
<1>2. Keeps(zb, zb')
  BY <1>1 DEF vars, Keeps
<1>3. TypeOK'
  BY DEF IInv, TypeOK, vars
<1>4. Control'
  BY DEF IInv, vars, Control, Running, Copying, InDirectory, Unwinding,
     UnwindingDirectory, Destroying, Returned, Saved
<1> QED
  BY <1>2, <1>3, <1>4 DEF IInv, vars

LEMMA NextInvariant == IInv /\ [Next]_vars => IInv' /\ Keeps(zb, zb')
<1> SUFFICES ASSUME IInv, [Next]_vars
             PROVE  IInv' /\ Keeps(zb, zb')
  OBVIOUS
<1>1. CASE PutBare
  BY <1>1, PutBareInvariant DEF Safe
<1>2. CASE PutFile
  BY <1>2, PutFileInvariant DEF Safe
<1>3. CASE CopyByte
  BY <1>3, CopyByteInvariant DEF Safe
<1>4. CASE LeaveLoop
  BY <1>4, LeaveLoopInvariant DEF Safe
<1>5. CASE Finish
  BY <1>5, FinishInvariant DEF Safe
<1>6. CASE Central
  BY <1>6, CentralInvariant DEF Safe
<1>7. CASE Unwind
  BY <1>7, UnwindInvariant DEF Safe
<1>8. CASE UnwindCentral
  BY <1>8, UnwindCentralInvariant DEF Safe
<1>9. CASE Destroy
  BY <1>9, DestroyInvariant DEF Safe
<1>10. CASE Recover
  BY <1>10, RecoverInvariant
<1>11. CASE Done
  BY <1>11, UnchangedInvariant DEF Done
<1>12. CASE UNCHANGED vars
  BY <1>12, UnchangedInvariant
<1> QED
  BY <1>1, <1>2, <1>3, <1>4, <1>5, <1>6, <1>7, <1>8, <1>9, <1>10, <1>11, <1>12
     DEF Next, Step

LEMMA Invariance == Spec => []IInv
<1>1. IInv /\ [Next]_vars => IInv'
  BY NextInvariant
<1> QED
  BY InitInvariant, <1>1, PTL DEF Spec

-----------------------------------------------------------------------------
(* The theorems. *)

\* The members of the streambuf, the position of the loop and the state of the
\* output_stream always have the types of the code.
THEOREM TypeCorrect == Spec => []TypeOK
<1>1. IInv => TypeOK
  BY DEF IInv
<1> QED
  BY Invariance, <1>1, PTL

\* No later call, and no destructor, writes over what a closed entry occupies,
\* although updateEntryHeaderInfo() seeks back in the file and keeps the
\* position to return to in an int that may be too small for it.
THEOREM ClosedEntriesAreFrozen == Spec => CommittedBytesFrozen
<1>1. IInv /\ [Next]_vars =>
        [/\ Committed(zb) <= Committed(zb')
         /\ \A i \in 1..Committed(zb) : zb'.file[i] = zb.file[i]]_vars
  BY NextInvariant DEF Keeps
<1> QED
  BY Invariance, <1>1, PTL DEF Spec, CommittedBytesFrozen

\* An output that failed and stays failed makes the save fail, although
\* operator << swallows the exception that reports the fault.
THEOREM FaultsAreReported == Spec => []PersistentFaultReported
<1>1. IInv => PersistentFaultReported
  BY DEF IInv, Control, Saved, PersistentFaultReported
<1> QED
  BY Invariance, <1>1, PTL

\* init() is never called while a deflate stream is open.
THEOREM InitNeverRefuses == Spec => []NoInternalError
<1>1. IInv => NoInternalError
  BY DEF IInv, TypeOK, Pc, Control, Running, InDirectory, Unwinding,
     UnwindingDirectory, Destroying, Returned, NoInternalError
<1> QED
  BY Invariance, <1>1, PTL

\* The destructor of the streambuf, in which an exception would end the
\* program, finds nothing to flush.
THEOREM DestructorDoesNotThrow == Spec => []NeverTerminates
<1>1. IInv => NeverTerminates
  BY DEF IInv, TypeOK, Pc, Control, Running, InDirectory, Unwinding,
     UnwindingDirectory, Destroying, Returned, NeverTerminates
<1> QED
  BY Invariance, <1>1, PTL


-----------------------------------------------------------------------------
(* The entries of the archive and those of the listing. *)

\* An entry says what was listed.
AsListed(e, l) ==
  /\ e.name = l.name /\ e.dir = l.dir /\ e.method = l.method /\ e.level = l.level
  /\ e.extra = l.extra /\ e.comment = l.comment /\ e.timeOk = l.timeOk

\* The entries are those listed, they begin inside the file, and the local
\* header of a closed entry could be written.
Laid(s) ==
  /\ Len(s.entries) <= Len(listing)
  /\ \A i \in 1..Len(s.entries) :
        AsListed(s.entries[i], listing[i]) /\ s.entries[i].offset <= Len(s.file)
  /\ \A i \in 1..Closed(s) : LocalWritable(s.entries[i])
  /\ s.openEntry => DataAt(LastEntry(s)) <= s.pos

Structure ==
  result = "running" =>
    /\ Laid(zb)
    /\ Len(zb.entries) = next - 1
    /\ pc \in {"finish", "central"} => next = Len(listing) + 1 /\ ~zb.openEntry
    /\ pc = "central" => /\ zb.cdStart + zb.cdSize <= zb.pos
                         /\ zb.cdNext <= Len(zb.entries) + 1

LEMMA AsCentralListed ==
  ASSUME NEW l \in SourceEntry \cup Entry
  PROVE  AsListed(AsCentral(l), l) /\ AsCentral(l) \in Entry
<1>1. AsListed(AsCentral(l), l)
  BY DEF AsCentral, CopyEntry, AsListed
<1> QED
  BY <1>1, AsCentralType

\* What can be said of an entry of the listing can be said of its copy.
LEMMA ListedDescribable ==
  ASSUME NEW l \in SourceEntry \cup Entry, CentralWritable(AsCentral(l)),
         NEW e \in Entry, AsListed(e, l)
  PROVE  Describable(e) /\ e.comment <= FieldMod
<1>1. AsListed(AsCentral(l), l)
  BY AsCentralListed
<1> QED
  BY <1>1 DEF AsListed, CentralWritable, LocalWritable, Describable

LEMMA KeptListed ==
  ASSUME NEW e, NEW x, NEW l, Kept(e, x), AsListed(e, l)
  PROVE  AsListed(x, l)
BY DEF Kept, AsListed

LEMMA GoodParts ==
  ASSUME NEW s, Good(s)
  PROVE  /\ s.entries \in Seq(Entry) /\ Len(s.entries) \in Nat
         /\ s.file \in Seq(Cell) /\ Len(s.file) \in Nat
         /\ s.pos \in Nat /\ s.pos <= Len(s.file)
         /\ \A i \in 1..Len(s.entries) :
                s.entries[i] \in Entry /\ s.entries[i].offset \in Nat
<1>1. /\ s.entries \in Seq(Entry) /\ s.file \in Seq(Cell)
      /\ s.pos \in Nat /\ s.pos <= Len(s.file)
  BY DEF Good, Streambuf
<1>2. ASSUME NEW i \in 1..Len(s.entries)
      PROVE  s.entries[i] \in Entry /\ s.entries[i].offset \in Nat
  <2>1. s.entries[i] \in Entry
    BY <1>1, ElementOfSeq
  <2> QED
    BY <2>1 DEF Entry
<1> QED
  BY <1>1, <1>2

LEMMA ClosedRange ==
  ASSUME NEW s, Good(s)
  PROVE  /\ Len(s.entries) \in Nat /\ Closed(s) \in Nat
         /\ s.openEntry => Closed(s) = Len(s.entries) - 1
         /\ ~s.openEntry => Closed(s) = Len(s.entries)
<1>1. s.entries \in Seq(Entry) /\ Len(s.entries) \in Nat
  BY DEF Good, Streambuf
<1>2. s.openEntry => Len(s.entries) # 0
  BY <1>1, EmptySeq DEF Good
<1>3. CASE s.openEntry
  BY <1>1, <1>2, <1>3 DEF Closed
<1>4. CASE ~s.openEntry
  BY <1>1, <1>4 DEF Closed
<1> QED
  BY <1>3, <1>4

\* closeEntry() leaves the entries as they were listed.
LEMMA CloseLaid ==
  ASSUME NEW s, Good(s), s.thrown = "none", StreamOfEntry(s), Laid(s)
  PROVE  LET u == CloseEntry(s)
         IN  /\ Len(u.entries) = Len(s.entries)
             /\ Len(s.file) <= Len(u.file)
             /\ u.thrown = "none" => Laid(u)
<1> DEFINE u == CloseEntry(s)
<1>1. /\ KeptEntries(s, u)
      /\ Len(s.file) <= Len(u.file)
      /\ s.openEntry /\ u.thrown = "none" => LocalWritable(LastEntry(u))
  BY CloseEntryStructure
<1>2. Safe(s, u) /\ (u.thrown = "none" => ~u.openEntry)
  BY CloseEntrySafe
<1>a. ~s.openEntry => u = s
  BY DEF CloseEntry
<1> HIDE DEF u
<1>3. Len(u.entries) = Len(s.entries)
  BY <1>1 DEF KeptEntries
<1>4. ASSUME u.thrown = "none", s.openEntry
      PROVE  Laid(u)
  <2>1. Good(u) /\ ~u.openEntry
    BY <1>2, <1>4 DEF Safe
  <2>2. /\ Len(s.entries) \in Nat /\ Closed(u) = Len(s.entries)
        /\ Closed(s) = Len(s.entries) - 1
    BY <1>3, <1>4, <2>1, ClosedRange
  <2>3. ASSUME NEW i \in 1..Len(s.entries)
        PROVE  /\ AsListed(u.entries[i], listing[i])
               /\ u.entries[i].offset <= Len(u.file)
               /\ LocalWritable(u.entries[i])
    <3>0. /\ AsListed(s.entries[i], listing[i])
          /\ s.entries[i].offset <= Len(s.file)
          /\ s.entries[i].offset \in Nat
          /\ Len(s.file) \in Nat /\ Len(u.file) \in Nat
      <4>1. s.entries[i].offset \in Nat /\ Len(s.file) \in Nat /\ Len(u.file) \in Nat
        BY <2>1, GoodParts
      <4> QED
        BY <4>1 DEF Laid
    <3>1. CASE i = Len(s.entries)
      <4>1. u.entries[i] = LastEntry(u) /\ s.entries[i] = LastEntry(s)
        BY <1>3, <3>1 DEF LastEntry
      <4>2. Kept(LastEntry(s), LastEntry(u))
        <5>1. s.entries # << >>
          BY <1>4 DEF Good
        <5> QED
          BY <1>1, <5>1 DEF KeptEntries
      <4>3. LastEntry(u).offset = LastEntry(s).offset
        BY <4>2 DEF Kept
      <4>4. AsListed(u.entries[i], listing[i])
        BY <3>0, <4>1, <4>2, KeptListed
      <4> QED
        BY <1>1, <1>4, <3>0, <4>1, <4>3, <4>4
    <3>2. CASE i # Len(s.entries)
      <4>1. u.entries[i] = s.entries[i]
        BY <1>1, <3>2 DEF KeptEntries
      <4>2. i \in 1..Closed(s)
        BY <2>2, <3>2
      <4> QED
        BY <1>1, <3>0, <4>1, <4>2 DEF Laid
    <3> QED
      BY <3>1, <3>2
  <2> QED
    BY <1>3, <2>1, <2>2, <2>3 DEF Laid
<1>5. CASE s.openEntry
  BY <1>1, <1>3, <1>4, <1>5 DEF u
<1>6. CASE ~s.openEntry
  BY <1>1, <1>3, <1>6, <1>a DEF u
<1> QED
  BY <1>5, <1>6


\* putNextEntry() adds the next entry of the listing.
LEMMA PutLaid ==
  ASSUME listing \in Seq(SourceEntry \cup Entry),
         NEW s, Good(s), s.thrown = "none", s.open, StreamOfEntry(s), Laid(s),
         NEW n \in 1..Len(listing), Len(s.entries) = n - 1
  PROVE  LET u == PutNextEntry(s, AsCentral(listing[n]))
         IN  /\ u.thrown = "none" => Laid(u) /\ Len(u.entries) = n
             /\ u.thrown = "InvalidStateException" =>
                    \/ Len(u.file) >= IntLimit
                    \/ \E i \in 1..Len(listing) :
                            ~CentralWritable(AsCentral(listing[i]))
<1> DEFINE e == AsCentral(listing[n])
<1> DEFINE c == CloseEntry(s)
<1> DEFINE u == PutNextEntry(s, e)
<1> DEFINE at == [e EXCEPT !.offset = c.pos]
<1>1. /\ Len(listing) \in Nat
      /\ \A i \in 1..Len(listing) : listing[i] \in SourceEntry \cup Entry
  BY ElementOfSeq
<1>2. e \in Entry /\ AsListed(e, listing[n])
  BY <1>1, AsCentralListed
<1> HIDE DEF e
<1>3. /\ (u.thrown = "InvalidStateException" /\ LocalWritable(e)
            /\ (s.openEntry => /\ DataAt(LastEntry(s)) <= s.pos
                               /\ Describable(LastEntry(s))))
             => Len(u.file) >= IntLimit
      /\ u.thrown = "none" =>
             /\ c.thrown = "none"
             /\ u.entries = Append(c.entries, at)
             /\ u.pos = DataAt(at)
             /\ u.openEntry
             /\ Len(c.file) <= Len(u.file)
  BY <1>2, PutStructure
<1>4. /\ Len(c.entries) = Len(s.entries)
      /\ c.thrown = "none" => Laid(c)
  BY CloseLaid
<1>5. /\ Good(c) /\ (c.thrown = "none" => ~c.openEntry)
      /\ Good(u)
  BY <1>2, CloseEntrySafe, PutNextEntrySafe DEF Safe
<1> HIDE DEF c, u
<1>6. ASSUME u.thrown = "InvalidStateException",
             \A i \in 1..Len(listing) : CentralWritable(AsCentral(listing[i]))
      PROVE  Len(u.file) >= IntLimit
  <2>1. LocalWritable(e)
    BY <1>6 DEF CentralWritable, e
  <2>2. ASSUME s.openEntry
        PROVE  DataAt(LastEntry(s)) <= s.pos /\ Describable(LastEntry(s))
    <3>1. n - 1 \in 1..Len(s.entries) /\ n - 1 \in 1..Len(listing)
      <4>1. Len(s.entries) # 0
        BY <2>2, EmptySeq, GoodParts DEF Good
      <4> QED
        BY <1>1, <4>1
    <3>2. LastEntry(s) = s.entries[n - 1]
      BY DEF LastEntry
    <3>3. /\ s.entries[n - 1] \in Entry
          /\ AsListed(s.entries[n - 1], listing[n - 1])
      BY <3>1, GoodParts DEF Laid
    <3>4. CentralWritable(AsCentral(listing[n - 1]))
      BY <1>6, <3>1
    <3>5. Describable(s.entries[n - 1])
      BY <1>1, <3>1, <3>3, <3>4, ListedDescribable
    <3> QED
      BY <2>2, <3>2, <3>5 DEF Laid
  <2> QED
    BY <1>3, <1>6, <2>1, <2>2
<1>7. ASSUME u.thrown = "none"
      PROVE  Laid(u) /\ Len(u.entries) = n
  <2>1. /\ Laid(c) /\ ~c.openEntry /\ Len(c.entries) = n - 1
        /\ c.entries \in Seq(Entry) /\ c.pos \in Nat
    BY <1>3, <1>4, <1>5, <1>7, GoodParts
  <2>2. /\ at \in Entry /\ at.offset = c.pos /\ AsListed(at, listing[n])
    BY <1>2, <2>1 DEF Entry, AsListed
  <2> HIDE DEF at
  <2>3. /\ Len(u.entries) = n /\ u.entries[n] = at
        /\ \A i \in 1..n - 1 : u.entries[i] = c.entries[i]
    <3>1. \A q \in Seq(Entry) :
             /\ Len(Append(q, at)) = Len(q) + 1
             /\ Append(q, at)[Len(q) + 1] = at
             /\ \A i \in 1..Len(q) : Append(q, at)[i] = q[i]
      BY <2>2
    <3>2. u.entries = Append(c.entries, at)
      BY <1>3, <1>7
    <3>3. /\ Len(u.entries) = Len(c.entries) + 1
          /\ u.entries[Len(c.entries) + 1] = at
          /\ \A i \in 1..Len(c.entries) : u.entries[i] = c.entries[i]
      BY <2>1, <3>1, <3>2
    <3>4. Len(c.entries) = n - 1 /\ (n - 1) + 1 = n
      BY <2>1
    <3> QED
      BY <3>3, <3>4
  <2>4. /\ LastEntry(u) = at /\ DataAt(LastEntry(u)) <= u.pos
    <3>1. DataAt(at) \in Nat
      BY <2>2, DataAtType
    <3> QED
      BY <1>3, <1>7, <2>3, <3>1 DEF LastEntry
  <2>5. /\ Closed(c) = n - 1 /\ Closed(u) = n - 1
    BY <1>3, <1>5, <1>7, <2>1, <2>3, ClosedRange
  <2>6. /\ c.pos <= Len(c.file) /\ Len(c.file) <= Len(u.file)
        /\ Len(c.file) \in Nat /\ Len(u.file) \in Nat
    BY <1>3, <1>5, <1>7, GoodParts
  <2>7. ASSUME NEW i \in 1..n
        PROVE  AsListed(u.entries[i], listing[i]) /\ u.entries[i].offset <= Len(u.file)
    <3>1. CASE i = n
      BY <2>1, <2>2, <2>3, <2>6, <3>1
    <3>2. CASE i # n
      <4>1. i \in 1..n - 1 /\ i \in 1..Len(c.entries)
        BY <2>1, <3>2
      <4>2. /\ u.entries[i] = c.entries[i] /\ c.entries[i].offset \in Nat
            /\ AsListed(c.entries[i], listing[i])
            /\ c.entries[i].offset <= Len(c.file)
        BY <1>5, <2>1, <2>3, <4>1, GoodParts DEF Laid
      <4> QED
        BY <2>6, <4>2
    <3> QED
      BY <3>1, <3>2
  <2>8. \A i \in 1..n - 1 : LocalWritable(u.entries[i])
    BY <2>1, <2>3, <2>5 DEF Laid
  <2>9. Len(u.entries) <= Len(listing)
    BY <1>1, <2>3
  <2> QED
    BY <2>3, <2>4, <2>5, <2>7, <2>8, <2>9 DEF Laid
<1> QED
  BY <1>6, <1>7 DEF u, e


\* Writing forward disturbs no entry.
LEMMA ForwardLaid ==
  ASSUME NEW s, Good(s), NEW t, Forward(s, t), Laid(s)
  PROVE  Laid(t)
<1>1. /\ t.entries = s.entries /\ t.openEntry = s.openEntry
      /\ Good(t) /\ Len(s.file) <= Len(t.file) /\ s.pos <= t.pos
      /\ LastEntry(t) = LastEntry(s) /\ Closed(t) = Closed(s)
  BY ForwardSafe DEF Forward, Safe, LastEntry, Closed
<1>2. /\ Len(s.file) \in Nat /\ Len(t.file) \in Nat /\ s.pos \in Nat /\ t.pos \in Nat
      /\ \A i \in 1..Len(s.entries) : s.entries[i].offset \in Nat
  BY <1>1, GoodParts
<1>3. \A i \in 1..Len(s.entries) : s.entries[i].offset <= Len(t.file)
  BY <1>1, <1>2 DEF Laid
<1>4. ASSUME s.openEntry
      PROVE  DataAt(LastEntry(s)) <= t.pos
  <2>1. DataAt(LastEntry(s)) \in Nat
    BY <1>4, LastEntryType, DataAtType DEF Good
  <2> QED
    BY <1>1, <1>2, <1>4, <2>1 DEF Laid
<1> QED
  BY <1>1, <1>3, <1>4 DEF Laid

\* What is refused while the directory is written does not fit.
LEMMA CentralLaid ==
  ASSUME listing \in Seq(SourceEntry \cup Entry),
         NEW s, Good(s), s.thrown = "none", ~s.openEntry, s.phase = "central",
         Laid(s), Len(s.entries) = Len(listing), s.cdStart + s.cdSize <= s.pos,
         CentralStep(s).thrown = "InvalidStateException"
  PROVE  \/ Len(CentralStep(s).file) >= IntLimit
         \/ CentralStep(s).comment >= FieldMod
         \/ Len(listing) >= FieldMod
         \/ \E i \in 1..Len(listing) : ~CentralWritable(AsCentral(listing[i]))
<1> DEFINE t == CentralStep(s)
<1> DEFINE n == Len(s.entries)
<1>1. /\ t.comment = s.comment /\ Len(s.file) <= Len(t.file)
      /\ \/ s.cdNext <= n /\ ~CentralWritable(s.entries[s.cdNext])
         \/ ~EocdWritable(n, s.cdSize, s.cdStart, s.comment)
  BY CentralStepStructure
<1>2. Good(t)
  BY CentralStepSafe DEF Directory, Safe
<1> HIDE DEF t
<1>3. /\ n \in Nat /\ s.cdSize \in Nat /\ s.cdStart \in Nat /\ s.comment \in Nat
      /\ s.cdNext \in Nat \ {0} /\ s.pos \in Nat /\ s.pos <= Len(s.file)
      /\ Len(s.file) \in Nat /\ Len(t.file) \in Nat
  BY <1>2, GoodParts DEF Good, Streambuf
<1> SUFFICES ASSUME Len(t.file) < IntLimit, s.comment < FieldMod, n < FieldMod,
                    \A i \in 1..Len(listing) : CentralWritable(AsCentral(listing[i]))
             PROVE  FALSE
  BY <1>1, <1>3, FieldModAssumption, IntLimitAssumption DEF t
<1>4. WordMod \in Nat /\ IntLimit < WordMod
  BY IntLimitAssumption DEF WordMod
<1>5. EocdWritable(n, s.cdSize, s.cdStart, s.comment)
  BY <1>1, <1>3, <1>4, IntLimitAssumption, SMTT(20) DEF EocdWritable
<1>6. s.cdNext \in 1..n /\ s.cdNext \in 1..Len(listing)
  BY <1>1, <1>3, <1>5
<1> DEFINE e == s.entries[s.cdNext]
<1> DEFINE l == listing[s.cdNext]
<1>7. ~CentralWritable(e)
  BY <1>1, <1>5
<1>8. /\ e \in Entry /\ l \in SourceEntry \cup Entry
      /\ AsListed(e, l) /\ CentralWritable(AsCentral(l))
  BY <1>6, GoodParts, ElementOfSeq DEF Laid
<1>9. Describable(e) /\ e.comment <= FieldMod
  <2> HIDE DEF e, l
  <2> QED
    BY <1>8, ListedDescribable
<1>10. Closed(s) = n
  BY ClosedRange
<1>11. LocalWritable(e)
  BY <1>6, <1>10 DEF Laid
<1>12. e.offset <= Len(s.file) /\ e.offset \in Nat
  BY <1>6, GoodParts DEF Laid
<1>13. e.offset < WordMod
  <2> HIDE DEF e
  <2> QED
    BY <1>1, <1>3, <1>4, <1>12, IntLimitAssumption
<1> QED
  BY <1>7, <1>9, <1>11, <1>13 DEF CentralWritable

LEMMA LaidPrimed ==
  ASSUME UNCHANGED listing, Laid(zb')
  PROVE  Laid(zb)'
BY DEF Laid, Closed, LastEntry

\* In what a step of the try block may end.
LEMMA RefusedUnfit ==
  ASSUME UNCHANGED listing,
         \/ pc' # "unwind"
         \/ zb'.thrown # "InvalidStateException"
         \/ Len(zb'.file) \in Nat /\ Len(zb'.file) >= IntLimit
         \/ zb'.comment \in Nat /\ zb'.comment >= FieldMod
         \/ Len(listing) \in Nat /\ Len(listing) >= FieldMod
         \/ \E i \in 1..Len(listing) : ~CentralWritable(AsCentral(listing[i]))
  PROVE  AcceptsWhatFits'
<1>1. IntLimit \in Nat /\ FieldMod \in Nat
  BY IntLimitAssumption, FieldModAssumption
<1>2. CASE pc' # "unwind" \/ zb'.thrown # "InvalidStateException"
  BY <1>2 DEF AcceptsWhatFits, Rejected
<1>3. CASE Len(zb'.file) \in Nat /\ Len(zb'.file) >= IntLimit
  BY <1>1, <1>3 DEF AcceptsWhatFits, Fits
<1>4. CASE zb'.comment \in Nat /\ zb'.comment >= FieldMod
  BY <1>1, <1>4 DEF AcceptsWhatFits, Fits
<1>5. CASE Len(listing) \in Nat /\ Len(listing) >= FieldMod
  BY <1>1, <1>5 DEF AcceptsWhatFits, Fits
<1>6. CASE \E i \in 1..Len(listing) : ~CentralWritable(AsCentral(listing[i]))
  BY <1>6 DEF AcceptsWhatFits, Fits
<1> QED
  BY <1>2, <1>3, <1>4, <1>5, <1>6


\* The steps of the function, one by one.
LEMMA PutAccepts ==
  ASSUME IInv, Structure, pc = "put", next <= Len(listing),
         zb' = PutNextEntry(zb, AsCentral(listing[next])), next' = next + 1,
         UNCHANGED listing, pc' \in {"put", "copy", "unwind"},
         zb'.thrown # "none" => pc' = "unwind",
         pc' = "unwind" => result' = "failed"
  PROVE  Structure' /\ AcceptsWhatFits'
<1>1. /\ Good(zb) /\ zb.thrown = "none" /\ zb.open /\ StreamOfEntry(zb)
      /\ result = "running" /\ Laid(zb) /\ Len(zb.entries) = next - 1
  BY DEF IInv, Control, Running, Structure
<1>2. /\ listing \in Seq(SourceEntry \cup Entry) /\ next \in 1..Len(listing)
      /\ Len(listing) \in Nat
  BY DEF IInv, TypeOK
<1>3. /\ zb'.thrown = "none" => Laid(zb') /\ Len(zb'.entries) = next
      /\ zb'.thrown = "InvalidStateException" =>
             \/ Len(zb'.file) >= IntLimit
             \/ \E i \in 1..Len(listing) : ~CentralWritable(AsCentral(listing[i]))
  BY <1>1, <1>2, PutLaid
<1>4. Len(zb'.file) \in Nat
  <2>1. Safe(zb, zb')
    BY PutSafe
  <2> QED
    BY <2>1, GoodParts DEF Safe
<1>5. AcceptsWhatFits'
  BY <1>3, <1>4, RefusedUnfit
<1>6. CASE pc' = "unwind"
  BY <1>5, <1>6 DEF Structure
<1>7. CASE pc' # "unwind"
  <2>1. Laid(zb)' /\ Len(zb'.entries) = next' - 1
    BY <1>2, <1>3, <1>7, LaidPrimed
  <2> QED
    BY <1>5, <1>7, <2>1 DEF Structure
<1> QED
  BY <1>6, <1>7

LEMMA PutBareAccepts ==
  ASSUME IInv, Structure, PutBare
  PROVE  Structure' /\ AcceptsWhatFits'
BY PutAccepts DEF PutBare, Call

LEMMA PutFileAccepts ==
  ASSUME IInv, Structure, PutFile
  PROVE  Structure' /\ AcceptsWhatFits'
<1>1. /\ pc = "put" /\ next <= Len(listing)
      /\ zb' = PutNextEntry(zb, AsCentral(listing[next])) /\ next' = next + 1
      /\ UNCHANGED listing /\ pc' \in {"put", "copy", "unwind"}
      /\ zb'.thrown # "none" => pc' = "unwind"
      /\ pc' = "unwind" => result' = "failed"
  BY DEF PutFile
<1> QED
  BY <1>1, PutAccepts

LEMMA CopyByteAccepts ==
  ASSUME IInv, Structure, CopyByte
  PROVE  Structure' /\ AcceptsWhatFits'
<1> DEFINE t == Sputc(zb, Head(input))
<1>1. /\ pc = "copy" /\ zb' = [t EXCEPT !.thrown = "none"]
      /\ pc' \in {"put", "copy"} /\ UNCHANGED << listing, next, result >>
  BY DEF CopyByte
<1>2. /\ Good(zb) /\ result = "running" /\ input # << >> /\ input \in Seq(Byte)
      /\ Laid(zb) /\ Len(zb.entries) = next - 1
  BY <1>1 DEF IInv, Control, Running, Copying, TypeOK, Structure
<1>3. Head(input) \in Byte
  <2>1. Head(input) = input[1] /\ Len(input) \in Nat /\ Len(input) # 0
    BY <1>2, HeadTailProperties, EmptySeq
  <2> QED
    BY <1>2, <2>1, ElementOfSeq
<1>4. Forward(zb, t)
  BY <1>2, <1>3, SputcForward DEF Good
<1> HIDE DEF t
<1>5. Laid(t) /\ t.entries = zb.entries /\ t \in Streambuf
  BY <1>2, <1>4, ForwardLaid DEF Forward
<1>6. /\ zb'.entries = t.entries /\ zb'.file = t.file /\ zb'.pos = t.pos
      /\ zb'.openEntry = t.openEntry
  BY <1>1, <1>5 DEF Streambuf
<1>7. Laid(zb')
  BY <1>5, <1>6 DEF Laid, Closed, LastEntry
<1>8. Laid(zb)'
  BY <1>1, <1>7, LaidPrimed
<1> QED
  BY <1>1, <1>2, <1>5, <1>6, <1>8, RefusedUnfit DEF Structure

LEMMA LeaveLoopAccepts ==
  ASSUME IInv, Structure, LeaveLoop
  PROVE  Structure' /\ AcceptsWhatFits'
<1>1. /\ pc = "put" /\ next > Len(listing) /\ zb' = CloseEntry(zb)
      /\ pc' = IF zb'.thrown = "none" THEN "finish" ELSE "unwind"
      /\ result' = IF zb'.thrown = "none" THEN result ELSE "failed"
      /\ UNCHANGED << listing, next >>
  BY DEF LeaveLoop, Call
<1>2. /\ Good(zb) /\ zb.thrown = "none" /\ zb.open /\ StreamOfEntry(zb)
      /\ result = "running" /\ Laid(zb) /\ Len(zb.entries) = next - 1
  BY <1>1 DEF IInv, Control, Running, Structure
<1>3. /\ listing \in Seq(SourceEntry \cup Entry) /\ next = Len(listing) + 1
      /\ Len(listing) \in Nat
      /\ \A i \in 1..Len(listing) : listing[i] \in SourceEntry \cup Entry
  BY <1>1, ElementOfSeq DEF IInv, TypeOK
<1>4. /\ Len(zb'.entries) = Len(zb.entries)
      /\ zb'.thrown = "none" => Laid(zb')
  BY <1>1, <1>2, CloseLaid
<1>5. /\ (zb'.thrown = "InvalidStateException"
            /\ (zb.openEntry => /\ DataAt(LastEntry(zb)) <= zb.pos
                                /\ Describable(LastEntry(zb))))
             => Len(zb'.file) >= IntLimit
  BY <1>1, <1>2, CloseEntryStructure
<1>6. Good(zb') /\ (zb'.thrown = "none" => ~zb'.openEntry)
  BY <1>1, <1>2, CloseEntrySafe DEF Safe
<1>7. ASSUME zb.openEntry,
             \A i \in 1..Len(listing) : CentralWritable(AsCentral(listing[i]))
      PROVE  DataAt(LastEntry(zb)) <= zb.pos /\ Describable(LastEntry(zb))
  <2> DEFINE n == Len(listing)
  <2>1. n \in 1..Len(zb.entries) /\ n \in 1..Len(listing)
    <3>1. Len(zb.entries) # 0
      BY <1>2, <1>7, EmptySeq, GoodParts DEF Good
    <3> QED
      BY <1>2, <1>3, <3>1
  <2>2. LastEntry(zb) = zb.entries[n]
    BY <1>2, <1>3 DEF LastEntry
  <2> HIDE DEF n
  <2>3. /\ zb.entries[n] \in Entry /\ AsListed(zb.entries[n], listing[n])
    BY <1>2, <2>1, GoodParts DEF Laid
  <2>4. CentralWritable(AsCentral(listing[n]))
    BY <1>7, <2>1
  <2>5. Describable(zb.entries[n])
    BY <1>3, <2>1, <2>3, <2>4, ListedDescribable
  <2> QED
    BY <1>2, <1>7, <2>2, <2>5 DEF Laid
<1>8. zb'.thrown = "InvalidStateException" =>
          \/ Len(zb'.file) >= IntLimit
          \/ \E i \in 1..Len(listing) : ~CentralWritable(AsCentral(listing[i]))
  BY <1>5, <1>7
<1>9. AcceptsWhatFits'
  BY <1>1, <1>6, <1>8, GoodParts, RefusedUnfit
<1>10. CASE zb'.thrown = "none"
  <2>1. Laid(zb)'
    BY <1>1, <1>4, <1>10, LaidPrimed
  <2> QED
    BY <1>1, <1>2, <1>3, <1>4, <1>6, <1>9, <1>10, <2>1 DEF Structure
<1>11. CASE zb'.thrown # "none"
  BY <1>1, <1>9, <1>11 DEF Structure
<1> QED
  BY <1>10, <1>11

LEMMA FinishAccepts ==
  ASSUME IInv, Structure, Finish
  PROVE  Structure' /\ AcceptsWhatFits'
<1>1. /\ pc = "finish" /\ zb' = BeginFinish(zb)
      /\ pc' = IF zb'.thrown = "none" THEN "central" ELSE "unwind"
      /\ result' = IF zb'.thrown = "none" THEN result ELSE "failed"
      /\ UNCHANGED << listing, next >>
  BY DEF Finish, Call
<1>2. /\ Good(zb) /\ zb.thrown = "none" /\ zb.open
      /\ Laid(zb) /\ Len(zb.entries) = next - 1
      /\ next = Len(listing) + 1 /\ ~zb.openEntry
  BY <1>1 DEF IInv, Control, Running, Structure
<1>3. /\ zb'.thrown = "none" /\ ~zb'.openEntry
      /\ zb'.entries = zb.entries /\ zb'.pos = zb.pos /\ zb'.file = zb.file
      /\ zb'.cdStart = zb.pos /\ zb'.cdNext = 1 /\ zb'.cdSize = 0
  BY <1>1, <1>2, FinishStructure
<1>4. /\ Laid(zb')
  BY <1>2, <1>3 DEF Laid, Closed
<1>5. Laid(zb)'
  BY <1>1, <1>4, LaidPrimed
<1>6. /\ zb'.cdStart + zb'.cdSize <= zb'.pos
      /\ zb'.cdNext <= Len(zb'.entries) + 1
  BY <1>2, <1>3, GoodParts
<1>7. AcceptsWhatFits'
  BY <1>1, <1>3, RefusedUnfit
<1> QED
  BY <1>1, <1>2, <1>3, <1>5, <1>6, <1>7 DEF Structure


LEMMA CentralAccepts ==
  ASSUME IInv, Structure, Central
  PROVE  Structure' /\ AcceptsWhatFits'
<1> DEFINE t == CentralStep(zb)
<1>1. /\ pc = "central" /\ zb' = t
      /\ pc' = IF t.thrown # "none" THEN "unwind"
               ELSE IF t.phase = "sealed" THEN "destroy" ELSE "central"
      /\ result' = IF t.thrown # "none" THEN "failed"
                   ELSE IF t.phase = "sealed" THEN "saved" ELSE result
      /\ UNCHANGED << listing, next >>
  BY DEF Central
<1>2. /\ Good(zb) /\ zb.thrown = "none" /\ zb.phase = "central" /\ ~zb.openEntry
      /\ result = "running" /\ Laid(zb) /\ Len(zb.entries) = next - 1
      /\ next = Len(listing) + 1
      /\ zb.cdStart + zb.cdSize <= zb.pos /\ zb.cdNext <= Len(zb.entries) + 1
  BY <1>1 DEF IInv, Control, InDirectory, Structure
<1>3. /\ listing \in Seq(SourceEntry \cup Entry) /\ Len(listing) \in Nat
  BY DEF IInv, TypeOK
<1>4. /\ t.entries = zb.entries /\ ~t.openEntry
      /\ Len(zb.file) <= Len(t.file)
      /\ t.thrown = "none" =>
             \/ zb.cdNext <= Len(zb.entries) /\ t = WriteCentral(zb)
             \/ t.phase = "sealed"
  BY <1>2, CentralStepStructure
<1>5. Good(t) /\ t.comment \in Nat
  BY <1>2, CentralStepSafe DEF Directory, Safe, Good, Streambuf
<1>6. t.thrown = "InvalidStateException" =>
          \/ Len(t.file) >= IntLimit
          \/ t.comment >= FieldMod
          \/ Len(listing) >= FieldMod
          \/ \E i \in 1..Len(listing) : ~CentralWritable(AsCentral(listing[i]))
  <2>1. Len(zb.entries) = Len(listing)
    BY <1>2, <1>3
  <2> QED
    BY <1>2, <1>3, <2>1, CentralLaid
<1> HIDE DEF t
<1>7. AcceptsWhatFits'
  BY <1>1, <1>3, <1>5, <1>6, GoodParts, RefusedUnfit
<1>8. Laid(zb')
  <2>1. /\ Len(zb.file) \in Nat /\ Len(t.file) \in Nat
        /\ \A i \in 1..Len(zb.entries) : zb.entries[i].offset \in Nat
    BY <1>2, <1>5, GoodParts
  <2>2. \A i \in 1..Len(zb.entries) : zb.entries[i].offset <= Len(t.file)
    BY <1>2, <1>4, <2>1 DEF Laid
  <2> QED
    BY <1>1, <1>2, <1>4, <2>2 DEF Laid, Closed
<1>9. Laid(zb)'
  BY <1>1, <1>8, LaidPrimed
<1>10. CASE t.thrown # "none" \/ t.phase = "sealed"
  BY <1>1, <1>7, <1>10 DEF Structure
<1>11. CASE t.thrown = "none" /\ t.phase # "sealed"
  <2>1. /\ zb.cdNext <= Len(zb.entries) /\ t = WriteCentral(zb)
    BY <1>4, <1>11
  <2> DEFINE h == CentralHeaderSize(zb.entries[zb.cdNext])
  <2>2. t.pos = zb.pos + h /\ t.cdStart = zb.cdStart /\ t.cdNext = zb.cdNext + 1
        /\ t.cdSize = zb.cdSize + h
    BY <1>2, <1>11, <2>1, CentralWritten
  <2>3. /\ zb.cdNext \in Nat \ {0} /\ zb.cdStart \in Nat /\ zb.cdSize \in Nat
        /\ zb.pos \in Nat /\ Len(zb.entries) \in Nat
    BY <1>2, GoodParts DEF Good, Streambuf
  <2>4. h \in Nat
    BY <1>2, <2>1, <2>3, GoodParts, CentralHeaderSizeRange
  <2> HIDE DEF h
  <2>5. t.cdStart + t.cdSize <= t.pos /\ t.cdNext <= Len(t.entries) + 1
    <3>1. \A a, b, c, d \in Nat : a + b <= c => a + (b + d) <= c + d
      OBVIOUS
    <3>2. zb.cdStart + (zb.cdSize + h) <= zb.pos + h
      BY <1>2, <2>3, <2>4, <3>1
    <3>3. zb.cdNext + 1 <= Len(zb.entries) + 1
      BY <2>1, <2>3
    <3> QED
      BY <1>4, <2>2, <3>2, <3>3
  <2> QED
    BY <1>1, <1>2, <1>4, <1>7, <1>9, <1>11, <2>5 DEF Structure
<1> QED
  BY <1>10, <1>11

\* Every other step leaves the try block or stays out of it.
LEMMA OutsideAccepts ==
  ASSUME result # "running", pc' # "unwind", result' # "running"
  PROVE  Structure' /\ AcceptsWhatFits'
BY DEF Structure, AcceptsWhatFits, Rejected

LEMMA RecoverAccepts ==
  ASSUME IInv, Structure, AcceptsWhatFits, Recover
  PROVE  Structure' /\ AcceptsWhatFits'
<1> DEFINE always == -1
<1>1. /\ zb' = [zb EXCEPT !.fuse = always]
      /\ UNCHANGED << listing, next, pc, result >>
  BY DEF Recover
<1>2. zb \in Streambuf /\ always \in Int
  BY DEF IInv, TypeOK
<1> HIDE DEF always
<1>3. /\ zb'.entries = zb.entries /\ zb'.file = zb.file /\ zb'.pos = zb.pos
      /\ zb'.openEntry = zb.openEntry /\ zb'.thrown = zb.thrown
      /\ zb'.comment = zb.comment /\ zb'.cdStart = zb.cdStart
      /\ zb'.cdSize = zb.cdSize /\ zb'.cdNext = zb.cdNext
  BY <1>1, <1>2 DEF Streambuf
<1>4. Laid(zb) => Laid(zb)'
  BY <1>1, <1>3 DEF Laid, Closed, LastEntry
<1>5. Structure'
  BY <1>1, <1>3, <1>4 DEF Structure
<1>6. AcceptsWhatFits'
  BY <1>1, <1>3 DEF AcceptsWhatFits, Rejected, Fits
<1> QED
  BY <1>5, <1>6

LEMMA UnchangedAccepts ==
  ASSUME Structure, AcceptsWhatFits, UNCHANGED vars
  PROVE  Structure' /\ AcceptsWhatFits'
<1>1. Structure'
  BY DEF vars, Structure, Laid, Closed, LastEntry
<1>2. AcceptsWhatFits'
  BY DEF vars, AcceptsWhatFits, Rejected, Fits
<1> QED
  BY <1>1, <1>2

LEMMA InitAccepts ==
  ASSUME Init
  PROVE  Structure /\ AcceptsWhatFits
<1>1. PICK s \in Saves :
        /\ listing = s.listing
        /\ zb = NewStreambuf(s.comment, s.fuse, s.short)
  BY DEF Init
<1>2. zb.entries = << >> /\ ~zb.openEntry
  BY <1>1 DEF NewStreambuf
<1>3. Len(listing) \in Nat /\ pc = "put" /\ next = 1
  BY <1>1, SavesAssumption DEF Init
<1>4. Len(zb.entries) = 0 /\ Closed(zb) = 0
  BY <1>2 DEF Closed
<1>5. Laid(zb)
  BY <1>2, <1>3, <1>4 DEF Laid
<1> QED
  BY <1>3, <1>4, <1>5 DEF Structure, AcceptsWhatFits, Rejected

LEMMA NextAccepts ==
  IInv /\ Structure /\ AcceptsWhatFits /\ [Next]_vars
    => Structure' /\ AcceptsWhatFits'
<1> SUFFICES ASSUME IInv, Structure, AcceptsWhatFits, [Next]_vars
             PROVE  Structure' /\ AcceptsWhatFits'
  OBVIOUS
<1>1. CASE PutBare
  BY <1>1, PutBareAccepts
<1>2. CASE PutFile
  BY <1>2, PutFileAccepts
<1>3. CASE CopyByte
  BY <1>3, CopyByteAccepts
<1>4. CASE LeaveLoop
  BY <1>4, LeaveLoopAccepts
<1>5. CASE Finish
  BY <1>5, FinishAccepts
<1>6. CASE Central
  BY <1>6, CentralAccepts
<1>7. CASE Unwind
  BY <1>7, OutsideAccepts DEF Unwind, IInv, Control, Unwinding
<1>8. CASE UnwindCentral
  BY <1>8, OutsideAccepts DEF UnwindCentral, IInv, Control, UnwindingDirectory
<1>9. CASE Destroy
  BY <1>9, OutsideAccepts DEF Destroy, IInv, Control, Destroying
<1>10. CASE Recover
  BY <1>10, RecoverAccepts
<1>11. CASE Done
  BY <1>11, UnchangedAccepts DEF Done
<1>12. CASE UNCHANGED vars
  BY <1>12, UnchangedAccepts
<1> QED
  BY <1>1, <1>2, <1>3, <1>4, <1>5, <1>6, <1>7, <1>8, <1>9, <1>10, <1>11, <1>12
     DEF Next, Step

LEMMA StructureInvariance == Spec => [](Structure /\ AcceptsWhatFits)
<1>1. Init => Structure /\ AcceptsWhatFits
  BY InitAccepts
<1>2. IInv /\ (Structure /\ AcceptsWhatFits) /\ [Next]_vars
        => (Structure /\ AcceptsWhatFits)'
  BY NextAccepts
<1> QED
  BY Invariance, <1>1, <1>2, PTL DEF Spec

\* No write() function refuses a save that the headers can describe and that
\* stays below 2^31 bytes, whatever the sources hold and whatever fails: the
\* sizes it compares are those of entries as they were listed, and neither a
\* position nor a difference of two positions has wrapped.
THEOREM WhatFitsIsAccepted == Spec => []AcceptsWhatFits
<1> QED
  BY StructureInvariance, PTL


-----------------------------------------------------------------------------
(* What a save that goes well has stored. *)

BytesOf(i) == Expected(listing[i]).bytes

\* None of the five cases of entries.
Ordinary(i) ==
  /\ ~Moved(i)
  /\ ~Oversized(listing[i]) /\ ~Emptied(listing[i])
  /\ ~Unended(listing[i]) /\ ~Misdescribed(listing[i])

LEMMA NotAbandoned ==
  ASSUME ~Abandoned
  PROVE  /\ ~recovered /\ result \in {"running", "saved"}
         /\ \A i \in 1..Len(zb.entries) : Ordinary(i)
BY DEF Abandoned, Excepted, Ordinary

LEMMA ExpectedType ==
  ASSUME disk \in Disk, NEW l \in SourceEntry \cup Entry
  PROVE  /\ Expected(l).bytes \in Seq(Byte)
         /\ Expected(l).name = l.name /\ l.name \in Name
         /\ Expected(l) = [name |-> l.name, bytes |-> Expected(l).bytes]
         /\ l.dir => Expected(l).bytes = << >>
<1>1. AsCentral(l).offset \in Nat
  BY AsCentralType DEF Entry
<1>2. Source(l, AsCentral(l).offset).bytes \in Seq(Byte)
  BY <1>1, SourceType
<1>3. << >> \in Seq(Byte)
  OBVIOUS
<1>4. l.name \in Name
  BY DEF SourceEntry, Entry
<1> QED
  BY <1>2, <1>3, <1>4 DEF Expected, MustCopy

LEMMA SameLevel ==
  ASSUME NEW e, NEW l, AsListed(e, l)
  PROVE  EffectiveLevel(e) = EffectiveLevel(l) /\ HeaderMethod(e) = HeaderMethod(l)
BY DEF AsListed, EffectiveLevel, HeaderMethod

LEMMA NotOversized ==
  ASSUME NEW e, NEW l, AsListed(e, l), ~Oversized(l), disk \in Disk,
         l \in SourceEntry \cup Entry
  PROVE  Len(Expected(l).bytes) + EndCells(e) < WordMod
<1>1. Len(Expected(l).bytes) \in Nat /\ EndCells(e) \in Nat
  BY ExpectedType DEF EndCells
<1>2. WordMod \in Nat
  BY WordModPositive
<1>3. EndCells(e) = IF EffectiveLevel(l) = 0 THEN 0 ELSE 1
  BY SameLevel DEF EndCells
<1>4. ~(Len(Expected(l).bytes) + EndCells(e) >= WordMod)
  BY <1>3 DEF Oversized
<1> QED
  BY <1>1, <1>2, <1>4

LEMMA NotUnended ==
  ASSUME NEW e \in Entry, NEW l, AsListed(e, l), ~Unended(l),
         EffectiveLevel(e) # 0
  PROVE  Expected(l).bytes # << >>
<1>1. HeaderMethod(e) = "DEFLATED"
  BY DEF EffectiveLevel, HeaderMethod, Entry, Method
<1> QED
  BY <1>1, SameLevel DEF Unended

LEMMA ExpectedPrimed ==
  ASSUME UNCHANGED << listing, disk >>, NEW i
  PROVE  BytesOf(i)' = BytesOf(i) /\ Expected(listing[i])' = Expected(listing[i])
<1>1. Expected(listing[i])' = Expected(listing[i])
  BY DEF Expected, Source, Archived
<1> QED
  BY <1>1 DEF BytesOf

\* Entries keep their offsets, so that a save is given up for good.
LEMMA AbandonedStays ==
  ASSUME UNCHANGED << listing, disk >>, recovered => recovered',
         result \in {"running", "saved"} \/ result' \notin {"running", "saved"},
         Len(zb.entries) \in Nat, Len(zb'.entries) \in Nat,
         Len(zb.entries) <= Len(zb'.entries),
         \A i \in 1..Len(zb.entries) :
            zb'.entries[i].offset = zb.entries[i].offset,
         ~Abandoned'
  PROVE  ~Abandoned
<1>1. ~recovered /\ result \in {"running", "saved"}
  BY DEF Abandoned
<1>2. ASSUME NEW i \in 1..Len(zb.entries)
      PROVE  Ordinary(i)
  <2>1. i \in 1..Len(zb'.entries)
    OBVIOUS
  <2>2. /\ ~Moved(i)' /\ ~Oversized(listing[i])' /\ ~Emptied(listing[i])'
        /\ ~Unended(listing[i])' /\ ~Misdescribed(listing[i])'
    BY <2>1 DEF Abandoned, Excepted
  <2>3. ~Moved(i)
    BY <2>2 DEF Moved
  <2>4. ~Oversized(listing[i]) /\ ~Unended(listing[i])
    BY <2>2, ExpectedPrimed DEF Oversized, Unended
  <2>5. ~Emptied(listing[i]) /\ ~Misdescribed(listing[i])
    BY <2>2 DEF Emptied, Source, Archived, Misdescribed
  <2> QED
    BY <2>3, <2>4, <2>5 DEF Ordinary
<1> QED
  BY <1>1, <1>2 DEF Abandoned, Excepted, Ordinary


\* Every closed entry holds what was listed, below what is committed.
Held(s) ==
  \A i \in 1..Closed(s) :
    /\ Stored(s.file, s.entries[i], BytesOf(i))
    /\ EndOf(s.entries[i], BytesOf(i)) <= Committed(s)

\* The data of the open entry so far are b.
Fills(s, b) ==
  Filling(s) /\ (s.level # 0 => s.zsInit) /\ s.crc \o s.invec = b

\* Between two entries the file ends where it is written, and all was written.
Even(s) == ~s.refused /\ s.crc = << >> /\ s.pos = Len(s.file)

LEMMA BytesType ==
  ASSUME disk \in Disk, listing \in Seq(SourceEntry \cup Entry),
         NEW i \in 1..Len(listing)
  PROVE  BytesOf(i) \in Seq(Byte)
<1>1. listing[i] \in SourceEntry \cup Entry
  BY ElementOfSeq
<1> QED
  BY <1>1, ExpectedType DEF BytesOf

LEMMA HeldStays ==
  ASSUME disk \in Disk, listing \in Seq(SourceEntry \cup Entry),
         NEW s, Good(s), Laid(s), Held(s), NEW t, Good(t), Keeps(s, t),
         NEW i \in 1..Closed(s), t.entries[i] = s.entries[i]
  PROVE  /\ Stored(t.file, t.entries[i], BytesOf(i))
         /\ EndOf(t.entries[i], BytesOf(i)) <= Committed(t)
<1> DEFINE e == s.entries[i]
<1> DEFINE b == BytesOf(i)
<1>1. /\ Closed(s) \in Nat /\ Closed(s) <= Len(s.entries)
      /\ Len(s.entries) \in Nat /\ Len(s.entries) <= Len(listing)
      /\ Len(listing) \in Nat
  BY ClosedRange DEF Laid
<1>2. i \in 1..Len(s.entries) /\ i \in 1..Len(listing)
  BY <1>1
<1>3. /\ e \in Entry /\ b \in Seq(Byte)
      /\ s.file \in Seq(Cell) /\ t.file \in Seq(Cell)
  BY <1>2, GoodParts, BytesType
<1>4. Stored(s.file, e, b) /\ EndOf(e, b) <= Committed(s)
  BY DEF Held
<1>5. /\ Committed(s) \in Nat /\ Committed(t) \in Nat
      /\ Committed(s) <= Committed(t) /\ Committed(t) <= Len(t.file)
      /\ \A j \in 1..Committed(s) : t.file[j] = s.file[j]
  <2>1. /\ Committed(s) \in Nat /\ Committed(t) \in Nat
        /\ Committed(t) <= t.pos /\ t.pos \in Nat
    BY CommittedRange
  <2>2. t.pos <= Len(t.file) /\ Len(t.file) \in Nat
    BY GoodParts
  <2> QED
    BY <2>1, <2>2 DEF Keeps
<1>6. EndOf(e, b) \in Nat
  <2>1. DataAt(e) \in Nat
    BY <1>3, DataAtType
  <2> HIDE DEF e, b
  <2> QED
    BY <1>3, <2>1 DEF EndOf, EndCells
<1> HIDE DEF e, b
<1>7. Committed(s) <= Len(t.file)
  BY <1>5, GoodParts
<1>8. Stored(t.file, e, b)
  BY <1>3, <1>4, <1>5, <1>7, StoredStays
<1>9. EndOf(e, b) <= Committed(t)
  BY <1>4, <1>5, <1>6
<1> QED
  BY <1>8, <1>9 DEF e, b

\* closeEntry() of an entry whose source was ordinary.
LEMMA CloseHolds ==
  ASSUME disk \in Disk, listing \in Seq(SourceEntry \cup Entry),
         NEW s, Good(s), s.thrown = "none", StreamOfEntry(s), Latched(s),
         Laid(s), Held(s), NEW n \in Nat, Len(s.entries) = n,
         s.openEntry =>
            /\ ~s.refused => Fills(s, BytesOf(n))
            /\ ~Oversized(listing[n]) /\ ~Unended(listing[n]),
         ~s.openEntry => Even(s),
         CloseEntry(s).thrown = "none"
  PROVE  LET c == CloseEntry(s)
         IN  Held(c) /\ Even(c) /\ ~s.refused
<1> DEFINE c == CloseEntry(s)
<1>1. CASE ~s.openEntry
  BY <1>1 DEF CloseEntry, Even
<1>2. CASE s.openEntry
  <2>1. /\ KeptEntries(s, c) /\ (s.refused => c.refused)
        /\ ~c.refused /\ c.crc = << >>
    BY <1>2, CloseEntryStructure
  <2>2. /\ Safe(s, c) /\ Good(c) /\ ~c.openEntry
    BY CloseEntrySafe DEF Safe
  <2>3. /\ n \in 1..Len(s.entries) /\ n \in 1..Len(listing)
        /\ LastEntry(s) = s.entries[n]
        /\ Closed(s) = n - 1 /\ Closed(c) = n /\ Len(c.entries) = n
    <3>1. Len(s.entries) # 0
      BY <1>2, EmptySeq, GoodParts DEF Good
    <3>2. Len(c.entries) = n
      BY <2>1 DEF KeptEntries
    <3>3. n <= Len(listing) /\ Len(listing) \in Nat
      BY DEF Laid
    <3> QED
      BY <1>2, <2>2, <3>1, <3>2, <3>3, ClosedRange DEF LastEntry
  <2>4. /\ s.entries[n] \in Entry /\ AsListed(s.entries[n], listing[n])
        /\ listing[n] \in SourceEntry \cup Entry
    BY <2>3, GoodParts, ElementOfSeq DEF Laid
  <2> DEFINE b == BytesOf(n)
  <2>5. b \in Seq(Byte)
    BY <2>3, BytesType
  <2>6. /\ Filling(s) /\ (s.level # 0 => s.zsInit) /\ s.crc \o s.invec = b
    BY <1>2, <2>1 DEF Fills
  <2>7. Len(b) + EndCells(LastEntry(s)) < WordMod
    BY <1>2, <2>3, <2>4, NotOversized DEF BytesOf
  <2>8. s.level # 0 => b # << >>
    BY <1>2, <2>3, <2>4, <2>6, NotUnended DEF BytesOf, Filling
  <2> HIDE DEF b
  <2>9. /\ Stored(c.file, LastEntry(c), b)
        /\ c.pos = Len(c.file) /\ c.pos = EndOf(LastEntry(c), b)
    BY <1>2, <2>5, <2>6, <2>7, <2>8, CloseFills
  <2> HIDE DEF c
  <2>10. ASSUME NEW i \in 1..Closed(c)
         PROVE  /\ Stored(c.file, c.entries[i], BytesOf(i))
                /\ EndOf(c.entries[i], BytesOf(i)) <= Committed(c)
    <3>1. CASE i = n
      <4>1. c.entries[i] = LastEntry(c) /\ Committed(c) = c.pos /\ c.pos \in Nat
        BY <2>2, <2>3, <3>1, GoodParts DEF LastEntry, Committed
      <4> QED
        BY <2>9, <3>1, <4>1 DEF b
    <3>2. CASE i # n
      <4>1. i \in 1..Closed(s) /\ i \in 1..Len(s.entries) /\ i # Len(s.entries)
        BY <2>3, <3>2
      <4>2. c.entries[i] = s.entries[i]
        BY <2>1, <4>1 DEF KeptEntries
      <4> QED
        BY <2>2, <4>1, <4>2, HeldStays DEF Safe
    <3> QED
      BY <3>1, <3>2
  <2> QED
    BY <2>1, <2>9, <2>10 DEF Held, Even, c
<1> QED
  BY <1>1, <1>2


\* putNextEntry() leaves the closed entries as they are and begins a new one.
LEMMA PutHolds ==
  ASSUME disk \in Disk, listing \in Seq(SourceEntry \cup Entry),
         NEW s, Good(s), s.thrown = "none", s.open, StreamOfEntry(s), Latched(s),
         Laid(s), Held(s), NEW n \in 1..Len(listing), Len(s.entries) = n - 1,
         s.openEntry =>
            /\ ~s.refused => Fills(s, BytesOf(n - 1))
            /\ ~Oversized(listing[n - 1]) /\ ~Unended(listing[n - 1]),
         ~s.openEntry => Even(s),
         PutNextEntry(s, AsCentral(listing[n])).thrown = "none"
  PROVE  LET u == PutNextEntry(s, AsCentral(listing[n]))
         IN  /\ Held(u) /\ u.openEntry /\ ~u.refused /\ ~s.refused
             /\ Filling(u) /\ (u.level # 0 => u.zsInit)
             /\ u.crc = << >> /\ u.invec = << >>
<1> DEFINE e == AsCentral(listing[n])
<1> DEFINE c == CloseEntry(s)
<1> DEFINE u == PutNextEntry(s, e)
<1> DEFINE at == [e EXCEPT !.offset = c.pos]
<1>1. e \in Entry
  BY ElementOfSeq, AsCentralType
<1> HIDE DEF e
<1>2. u.thrown = "none"
  BY DEF e
<1>3. /\ c.thrown = "none" /\ u.entries = Append(c.entries, at)
      /\ u.openEntry /\ ~s.refused /\ ~u.refused /\ Keeps(c, u)
  BY <1>1, <1>2, PutStructure
<1>4. Len(c.entries) = Len(s.entries) /\ Laid(c)
  BY <1>3, CloseLaid
<1>5. Good(c) /\ ~c.openEntry
  BY <1>3, CloseEntrySafe DEF Safe
<1>6. Good(u)
  BY <1>1, PutNextEntrySafe DEF Safe
<1>7. n - 1 \in Nat /\ Len(listing) \in Nat
  OBVIOUS
<1>8. Held(c) /\ Even(c)
  BY <1>3, <1>7, CloseHolds
<1>9. /\ Filling(u) /\ u.crc = << >> /\ u.invec = << >>
      /\ (u.level # 0 => u.zsInit)
  BY <1>1, <1>2, <1>8, PutFills DEF Even
<1> HIDE DEF u, c
<1>10. /\ Closed(c) = n - 1 /\ Closed(u) = n - 1
       /\ \A i \in 1..n - 1 : u.entries[i] = c.entries[i]
  <2>1. at \in Entry
    BY <1>1, <1>5, GoodParts DEF Entry
  <2> HIDE DEF at
  <2>2. \A q \in Seq(Entry) :
           /\ Len(Append(q, at)) = Len(q) + 1
           /\ \A i \in 1..Len(q) : Append(q, at)[i] = q[i]
    BY <2>1
  <2>3. /\ Len(u.entries) = Len(c.entries) + 1
        /\ \A i \in 1..Len(c.entries) : u.entries[i] = c.entries[i]
    BY <1>3, <1>5, <2>2, GoodParts
  <2>4. Len(c.entries) = n - 1
    BY <1>4
  <2> QED
    BY <1>3, <1>5, <1>6, <1>7, <2>3, <2>4, ClosedRange, SMTT(20)
<1>11. ASSUME NEW i \in 1..Closed(u)
       PROVE  /\ Stored(u.file, u.entries[i], BytesOf(i))
              /\ EndOf(u.entries[i], BytesOf(i)) <= Committed(u)
  BY <1>3, <1>4, <1>5, <1>6, <1>8, <1>10, HeldStays
<1>12. Held(u)
  BY <1>11 DEF Held
<1> QED
  BY <1>3, <1>9, <1>12 DEF u, e


-----------------------------------------------------------------------------
(* Reading an archive back. *)

\* The size a header has for its reader is that which it has for its writer.
LEMMA LengthsRead ==
  ASSUME NEW e \in Entry, e.extra < FieldMod, WrittenName(e) < FieldMod
  PROVE  /\ e.extra % FieldMod = e.extra /\ 0 % FieldMod = 0
         /\ WrittenName(e) % FieldMod = WrittenName(e)
         /\ e.extra \in Nat /\ WrittenName(e) \in Nat
<1>1. e.extra \in Nat /\ WrittenName(e) \in Nat
  BY WrittenNameType DEF Entry
<1> QED
  BY <1>1, FieldModAssumption

LEMMA LocalCellsRead ==
  ASSUME NEW e \in Entry, e.extra < FieldMod, WrittenName(e) < FieldMod
  PROVE  HeaderCells(HeaderOf(e, 0, 0)) = LocalHeaderSize(e)
BY LengthsRead DEF HeaderCells, HeaderOf, LocalHeaderSize

LEMMA CentralCellsRead ==
  ASSUME NEW e \in Entry, e.extra < FieldMod, WrittenName(e) < FieldMod,
         e.comment = 0, NEW offset
  PROVE  /\ HeaderCells(HeaderOf(e, e.comment, offset)) = CentralHeaderSize(e)
         /\ HeaderOf(e, e.comment, offset).clen = 0
BY LengthsRead DEF HeaderCells, HeaderOf, LocalHeaderSize, CentralHeaderSize

LEMMA DataCellParts ==
  ASSUME NEW level, NEW v
  PROVE  /\ level = 0 => DataCell(level, v).k = "data"
         /\ level # 0 => DataCell(level, v).k = "zdata"
         /\ DataCell(level, v).b = v
BY DEF DataCell

\* What is read of a stored entry is what it holds.
LEMMA StoredReads ==
  ASSUME NEW f \in Seq(Cell), NEW e \in Entry, NEW b \in Seq(Byte), Stored(f, e, b),
         e.extra < FieldMod, WrittenName(e) < FieldMod, e.dir => b = << >>,
         ~(HeaderMethod(e) = "DEFLATED" /\ b = << >>)
  PROVE  Content(f, e.offset) = b
<1> DEFINE h == HeaderOf(e, 0, 0)
<1> DEFINE d == DataAt(e)
<1> DEFINE n == Len(b)
<1>1. /\ f[e.offset + 1].h = h /\ h.method = HeaderMethod(e)
      /\ h.size = e.size % WordMod
  BY DEF Stored, HeaderOf
<1>2. DataOffset(f, e.offset) = d
  BY <1>1, LocalCellsRead DEF DataOffset, DataAt
<1>3. /\ d \in Nat /\ n \in Nat /\ Len(f) \in Nat
      /\ e.size = n /\ n < WordMod
  BY DataAtType DEF Stored, LocalWritable
<1>4. h.size = n
  BY <1>1, <1>3, ModSmall
<1>5. b = [i \in 1..n |-> b[i]]
  OBVIOUS
<1>6. \A i \in 1..n : f[d + i] = DataCell(EffectiveLevel(e), b[i])
  BY DEF Stored
<1>7. EndOf(e, b) <= Len(f) /\ EndOf(e, b) = d + n + EndCells(e)
  BY DEF Stored, EndOf
<1>8. HeaderMethod(e) \in {"STORED", "DEFLATED"}
  BY DEF HeaderMethod, Entry, Method
<1>a. EffectiveLevel(e) # 0 => f[EndOf(e, b)] = [k |-> "zend"]
  BY DEF Stored
<1> HIDE DEF d, n, h
<1>9. CASE HeaderMethod(e) = "STORED"
  <2>1. EffectiveLevel(e) = 0
    BY <1>9 DEF HeaderMethod, EffectiveLevel
  <2>2. d + n <= Len(f)
    BY <1>3, <1>7, <2>1 DEF EndCells
  <2>3. \A i \in 1..n : f[d + i].k = "data" /\ f[d + i].b = b[i]
    BY <1>6, <2>1, DataCellParts
  <2>4. ASSUME NEW i \in d + 1..d + n
        PROVE  f[i].k = "data"
    <3>1. i - d \in 1..n /\ d + (i - d) = i
      BY <1>3
    <3>2. f[d + (i - d)].k = "data"
      BY <2>3, <3>1
    <3> QED
      BY <3>1, <3>2
  <2>5. StoredContent(f, e.offset) = [i \in 1..n |-> f[d + i].b]
    BY <1>1, <1>2, <1>4, <2>2, <2>4 DEF StoredContent
  <2>6. [i \in 1..n |-> f[d + i].b] = [i \in 1..n |-> b[i]]
    BY <2>3
  <2> QED
    BY <1>1, <1>5, <1>9, <2>5, <2>6 DEF Content
<1>10. CASE HeaderMethod(e) = "DEFLATED"
  <2>1. b # << >> /\ ~e.dir
    BY <1>10
  <2>2. EffectiveLevel(e) # 0
    BY <1>10, <2>1 DEF HeaderMethod, EffectiveLevel
  <2>3. d + n + 1 <= Len(f) /\ EndOf(e, b) = d + n + 1
    BY <1>7, <2>2 DEF EndCells
  <2>4. \A i \in 1..n : f[d + i].k = "zdata" /\ f[d + i].b = b[i]
    BY <1>6, <2>2, DataCellParts
  <2>5. f[d + n + 1].k = "zend"
    BY <1>a, <2>2, <2>3
  <2> DEFINE ends == {q \in d..Len(f)-1 : f[q + 1].k = "zend"
                                        /\ \A i \in d+1..q : f[i].k = "zdata"}
  <2>6. d + n \in ends
    <3>1. d + n \in d..Len(f) - 1
      BY <1>3, <2>3
    <3>2. ASSUME NEW i \in d + 1..d + n
          PROVE  f[i].k = "zdata"
      <4>1. i - d \in 1..n /\ d + (i - d) = i
        BY <1>3
      <4>2. f[d + (i - d)].k = "zdata"
        BY <2>4, <4>1
      <4> QED
        BY <4>1, <4>2
    <3> QED
      BY <2>5, <3>1, <3>2
  <2>7. ASSUME NEW q \in ends
        PROVE  q = d + n
    <3>1. q \in Int /\ d <= q
      BY <1>3
    <3>2. CASE q < d + n
      <4>1. q + 1 - d \in 1..n /\ d + (q + 1 - d) = q + 1
        BY <1>3, <3>1, <3>2
      <4>2. f[d + (q + 1 - d)].k = "zdata"
        BY <2>4, <4>1
      <4> QED
        BY <4>1, <4>2
    <3>3. CASE q > d + n
      <4>1. d + n + 1 \in d + 1..q
        BY <1>3, <3>1, <3>3
      <4>2. f[d + n + 1].k = "zdata"
        BY <4>1
      <4> QED
        BY <2>5, <4>2
    <3> QED
      BY <1>3, <3>1, <3>2, <3>3
  <2>8. DeflatedContent(f, e.offset)
            = LET m == (CHOOSE q \in ends : TRUE) - d IN [i \in 1..m |-> f[d + i].b]
    BY <1>2, <2>6 DEF DeflatedContent
  <2> HIDE DEF ends
  <2>9. (CHOOSE q \in ends : TRUE) - d = n
    <3> DEFINE last == CHOOSE q \in ends : TRUE
    <3>1. last = d + n
      BY <2>6, <2>7
    <3> HIDE DEF last
    <3>2. last - d = n
      BY <1>3, <3>1
    <3> QED
      BY <3>2 DEF last
  <2>10. [i \in 1..n |-> f[d + i].b] = [i \in 1..n |-> b[i]]
    BY <2>4
  <2> QED
    BY <1>1, <1>5, <1>10, <2>8, <2>9, <2>10 DEF Content
<1> QED
  BY <1>8, <1>9, <1>10


\* What ends a file and is no longer than a chunk is in one.
LEMMA LastChunk ==
  ASSUME NEW f, Len(f) \in Nat, NEW p \in Nat, NEW n \in Nat \ {0},
         p + n <= Len(f), Len(f) - p <= ChunkSize
  PROVE  InOneChunk(f, p, n)
<1>1. \A a \in Nat : a < ChunkSize => a \div ChunkSize = 0
  BY ChunkSizeAssumption
<1> DEFINE a == Len(f) - 1 - p
<1> DEFINE b == Len(f) - 1 - (p + n - 1)
<1>2. a \in Nat /\ a < ChunkSize /\ b \in Nat /\ b < ChunkSize
  BY ChunkSizeAssumption
<1> HIDE DEF a, b
<1>3. a \div ChunkSize = 0 /\ b \div ChunkSize = 0
  BY <1>1, <1>2
<1> QED
  BY <1>3 DEF InOneChunk, ChunksBehind, a, b

\* The search from the end of the file finds the last end of central directory.
LEMMA EocdFound ==
  ASSUME NEW f \in Seq(Cell), NEW p \in Nat, f[p + 1].k = "eocd",
         p + EocdSize <= Len(f), Len(f) - p <= ChunkSize, NoEocdFrom(p + 2, f)
  PROVE  EocdOffsets(f) # {} /\ EocdOffset(f) = p
<1>1. EocdSize \in Nat \ {0} /\ Len(f) \in Nat
  BY EocdSizeAssumption
<1>2. p \in 0..Len(f) - 1
  BY <1>1
<1>3. p \in EocdOffsets(f)
  <2>1. InOneChunk(f, p, EocdSize)
    BY <1>1, LastChunk
  <2> QED
    BY <1>2, <2>1 DEF EocdOffsets
<1>4. ASSUME NEW q \in EocdOffsets(f)
      PROVE  q \in Nat /\ q <= p
  <2>1. q \in 0..Len(f) - 1 /\ f[q + 1].k = "eocd"
    BY DEF EocdOffsets
  <2>2. q + 1 \notin p + 2..Len(f)
    BY <2>1 DEF NoEocdFrom
  <2> QED
    BY <1>1, <2>1, <2>2
<1>5. ASSUME NEW q \in EocdOffsets(f), \A r \in EocdOffsets(f) : r <= q
      PROVE  q = p
  <2>1. p <= q
    BY <1>3, <1>5
  <2> QED
    BY <1>4, <2>1
<1>6. \A q \in EocdOffsets(f) : q <= p
  BY <1>4
<1>7. EocdOffset(f) = p
  BY <1>3, <1>5, <1>6 DEF EocdOffset
<1> QED
  BY <1>3, <1>7

LEMMA SmallestOfNat ==
  ASSUME NEW S, S \subseteq Nat, S # {}
  PROVE  \E k \in S : \A j \in S : k <= j
<1>1. IsWellFoundedOn(OpToRel(<, Nat), Nat)
  BY NatLessThanWellFounded
<1>2. \E k \in S : \A j \in S : ~(<< j, k >> \in OpToRel(<, Nat))
  BY <1>1, WFMin
<1>3. \A j, k \in Nat : j < k => << j, k >> \in OpToRel(<, Nat)
  BY DEF OpToRel
<1>4. \A j, k \in Nat : ~(j < k) => k <= j
  OBVIOUS
<1> QED
  BY <1>2, <1>3, <1>4

\* Where the next entry begins, and where all of them do.
After(f, p) ==
  IF ReadableHeader(f, p, "central") THEN p + HeaderCells(f[p + 1].h) ELSE -1

Offsets(f, e, m, g) ==
  g = [i \in 1..m |-> IF i = 1 THEN e.offset ELSE After(f, g[i - 1])]

\* The offsets of the directory are those of any list that begins like it and
\* goes on like it.
LEMMA CentralOffsetsAre ==
  ASSUME NEW f, NEW e, e.count \in Nat, NEW at, at[1] = e.offset,
         \A i \in 1..e.count : at[i + 1] = After(f, at[i])
  PROVE  \A i \in 1..e.count + 1 : CentralOffsets(f, e)[i] = at[i]
<1> DEFINE m == e.count + 1
<1> DEFINE g == [i \in 1..m |-> at[i]]
<1> DEFINE c == CentralOffsets(f, e)
<1>1. m \in Nat /\ m >= 1 /\ m = e.count + 1
  OBVIOUS
<1>2. c = CHOOSE h : Offsets(f, e, m, h)
  BY DEF CentralOffsets, Offsets, After
<1> HIDE DEF m, c
<1>3. Offsets(f, e, m, g)
  <2>1. ASSUME NEW i \in 1..m
        PROVE  at[i] = IF i = 1 THEN e.offset ELSE After(f, g[i - 1])
    <3>1. CASE i = 1
      BY <3>1
    <3>2. CASE i # 1
      <4>1. i - 1 \in 1..e.count /\ i - 1 \in 1..m /\ (i - 1) + 1 = i
        BY <1>1, <3>2
      <4>2. at[(i - 1) + 1] = After(f, at[i - 1])
        BY <4>1
      <4>3. g[i - 1] = at[i - 1]
        BY <4>1
      <4> QED
        BY <3>2, <4>1, <4>2, <4>3
    <3> QED
      BY <3>1, <3>2
  <2> QED
    BY <2>1 DEF Offsets
<1>4. Offsets(f, e, m, c)
  BY <1>2, <1>3
<1>5. c = [i \in 1..m |-> IF i = 1 THEN e.offset ELSE After(f, c[i - 1])]
  BY <1>4 DEF Offsets
<1>6. \A i \in 1..m : c[i] = IF i = 1 THEN e.offset ELSE After(f, c[i - 1])
  BY <1>5
<1> DEFINE Differ == {i \in 1..m : c[i] # at[i]}
<1> SUFFICES ASSUME Differ # {} PROVE FALSE
  BY <1>1 DEF c
<1>7. PICK k \in Differ : \A j \in Differ : k <= j
  <2>1. Differ \subseteq Nat
    OBVIOUS
  <2> HIDE DEF Differ
  <2> QED
    BY <2>1, SmallestOfNat
<1>8. k \in 1..m /\ c[k] # at[k]
  BY <1>7
<1>9. CASE k = 1
  BY <1>6, <1>8, <1>9
<1>10. CASE k # 1
  <2>1. k - 1 \in 1..m /\ k - 1 \in 1..e.count /\ (k - 1) + 1 = k /\ ~(k <= k - 1)
    BY <1>1, <1>8, <1>10
  <2>2. k - 1 \notin Differ
    BY <1>7, <2>1
  <2>3. c[k - 1] = at[k - 1]
    BY <2>1, <2>2
  <2>4. at[(k - 1) + 1] = After(f, at[k - 1])
    BY <2>1
  <2> QED
    BY <1>6, <1>8, <1>10, <2>1, <2>3, <2>4
<1> QED
  BY <1>9, <1>10


\* The headers of the directory that were written are where at says, one behind
\* the other, from its start to the put position.
Indexed(s, at) ==
  /\ at[1] = s.cdStart /\ at[s.cdNext] = s.pos
  /\ \A i \in 1..s.cdNext : at[i] \in Nat /\ at[i] <= s.pos
  /\ \A i \in 1..s.cdNext - 1 :
        LET e == s.entries[i]
        IN  /\ CentralWritable(e)
            /\ at[i + 1] = at[i] + CentralHeaderSize(e)
            /\ s.file[at[i] + 1]
                = [k |-> "central", h |-> HeaderOf(e, e.comment, e.offset)]

Catalogued(s) == s.cdStart + s.cdSize = s.pos /\ \E at : Indexed(s, at)

\* The comment leaves room for the end of central directory in a chunk.
Findable(s) == EocdSize + s.comment <= ChunkSize

\* The library reads in the file what was listed.
Readable(f) ==
  /\ Opens(f)
  /\ LET hs == CentralHeaders(f)
     IN  /\ Len(hs) = Len(listing)
         /\ \A i \in 1..Len(hs) :
               /\ hs[i].dir = listing[i].dir
               /\ [name |-> hs[i].name, bytes |-> Content(f, hs[i].offset)]
                    = Expected(listing[i])

\* The name fits its length field, with the separator.
LEMMA ShortName ==
  ASSUME NEW e \in Entry, NEW l \in SourceEntry \cup Entry, AsListed(e, l),
         ~Misdescribed(l)
  PROVE  WrittenName(e) < FieldMod
<1>1. WrittenName(e) = WrittenName(l)
  BY DEF WrittenName, AsListed
<1>2. ~(WrittenName(l) >= FieldMod)
  BY DEF Misdescribed
<1>3. WrittenName(e) \in Nat
  BY WrittenNameType DEF Entry
<1> QED
  BY <1>1, <1>2, <1>3, FieldModAssumption

\* Whoever finds an entry in the directory finds it in its local header, and
\* reads there what was listed.
LEMMA EntryReads ==
  ASSUME disk \in Disk, NEW f \in Seq(Cell), NEW e \in Entry,
         NEW l \in SourceEntry \cup Entry, AsListed(e, l), CentralWritable(e),
         ~Unended(l), ~Misdescribed(l), Stored(f, e, Expected(l).bytes)
  PROVE  LET h == HeaderOf(e, e.comment, e.offset)
         IN  /\ HeaderCells(h) = CentralHeaderSize(e)
             /\ h.dir = l.dir /\ h.name = l.name /\ h.offset = e.offset
             /\ ReadableHeader(f, e.offset, "local")
             /\ SameEntry(f[e.offset + 1].h, h)
             /\ Content(f, e.offset) = Expected(l).bytes
<1> DEFINE h == HeaderOf(e, e.comment, e.offset)
<1> DEFINE g == HeaderOf(e, 0, 0)
<1> DEFINE b == Expected(l).bytes
<1>1. /\ e.extra \in Nat /\ e.comment \in Nat /\ e.offset \in Nat
      /\ FieldMod \in Nat
  BY FieldModAssumption DEF Entry
<1>a. WrittenName(e) < FieldMod
  BY ShortName
<1>2. e.extra < FieldMod /\ e.comment = 0 /\ e.offset < WordMod
  <2>1. e.extra # FieldMod /\ e.comment = 0
    BY DEF Misdescribed, AsListed
  <2>2. e.extra <= FieldMod /\ e.offset < WordMod
    BY DEF CentralWritable, LocalWritable
  <2> QED
    BY <1>1, <2>1, <2>2
<1>3. HeaderCells(h) = CentralHeaderSize(e) /\ h.clen = 0
  BY <1>2, <1>a, CentralCellsRead
<1>4. h.dir = l.dir /\ h.name = l.name
  BY DEF HeaderOf, AsListed
<1>5. h.offset = e.offset
  BY <1>1, <1>2, ModSmall DEF HeaderOf
<1>6. b \in Seq(Byte) /\ (l.dir => b = << >>)
  BY ExpectedType
<1>7. f[e.offset + 1].k = "local" /\ f[e.offset + 1].h = g
  BY DEF Stored
<1>8. HeaderCells(g) = LocalHeaderSize(e)
  BY <1>2, <1>a, LocalCellsRead
<1>9. /\ e.offset + LocalHeaderSize(e) <= Len(f)
      /\ LocalHeaderSize(e) \in Nat \ {0} /\ Len(f) \in Nat
  <2>1. EndOf(e, b) <= Len(f)
    BY DEF Stored
  <2> HIDE DEF b
  <2>2. Len(b) \in Nat /\ EndCells(e) \in Nat
    BY <1>6 DEF EndCells
  <2>3. EndOf(e, b) = (e.offset + LocalHeaderSize(e)) + Len(b) + EndCells(e)
    BY DEF EndOf, DataAt
  <2>4. LocalHeaderSize(e) \in Nat \ {0} /\ Len(f) \in Nat
    BY LocalHeaderSizeRange
  <2> QED
    BY <1>1, <2>1, <2>2, <2>3, <2>4
<1>10. ReadableHeader(f, e.offset, "local")
  BY <1>1, <1>7, <1>8, <1>9 DEF ReadableHeader
<1>11. SameEntry(g, h)
  <2>1. /\ g.name = h.name /\ g.dir = h.dir /\ g.size = h.size
        /\ g.method = h.method /\ g.crc = h.crc
    BY DEF HeaderOf
  <2> QED
    BY <1>3, <2>1 DEF SameEntry
<1>12. Content(f, e.offset) = b
  <2>1. e.dir => b = << >>
    BY <1>6 DEF AsListed
  <2>2. ~(HeaderMethod(e) = "DEFLATED" /\ b = << >>)
    BY SameLevel DEF Unended
  <2>3. Stored(f, e, b)
    OBVIOUS
  <2> HIDE DEF b
  <2> QED
    BY <1>2, <1>6, <1>a, <2>1, <2>2, <2>3, StoredReads
<1> QED
  BY <1>3, <1>4, <1>5, <1>7, <1>10, <1>11, <1>12


LEMMA CentralHeaderSizePositive ==
  ASSUME NEW e \in Entry
  PROVE  CentralHeaderSize(e) \in Nat \ {0}
<1>1. LocalHeaderSize(e) \in Nat /\ LocalHeaderSize(e) > 0 /\ e.comment \in Nat
  BY LocalHeaderSizeRange DEF Entry
<1> QED
  BY <1>1 DEF CentralHeaderSize

\* The end of central directory is what the search finds, and its fields have
\* the values they were made from.
LEMMA SealFound ==
  ASSUME NEW s, Good(s), s.thrown = "none", ~s.openEntry, s.phase = "central",
         s.pos = Len(s.file), Findable(s), WriteEocd(s).thrown = "none"
  PROVE  LET f == WriteEocd(s).file
         IN  /\ f \in Seq(Cell) /\ s.pos <= Len(f)
             /\ \A i \in 1..s.pos : f[i] = s.file[i]
             /\ EocdReadable(f)
             /\ Eocd(f).count = Len(s.entries) /\ Eocd(f).size = s.cdSize
             /\ Eocd(f).offset = s.cdStart
<1> DEFINE f == WriteEocd(s).file
<1> DEFINE n == Len(s.entries)
<1> DEFINE p == s.pos
<1> DEFINE cd == s.cdSize
<1> DEFINE at == s.cdStart
<1> DEFINE m == s.comment
<1>1. /\ n \in Nat /\ p \in Nat /\ cd \in Nat /\ at \in Nat /\ m \in Nat
  BY GoodParts DEF Good, Streambuf
<1>2. /\ EocdWritable(n, cd, at, m)
      /\ \A i \in 1..p : f[i] = s.file[i]
      /\ f[p + 1] = EocdHead(n, cd, at, m)
      /\ Len(f) = p + EocdSize + m
      /\ NoEocdFrom(p + 2, f)
  BY EocdWritten
<1>3. f \in Seq(Cell)
  BY WriteEocdSafe, GoodParts DEF Directory, Safe
<1> HIDE DEF f, n, p, cd, at, m
<1>4. /\ n % FieldMod = n /\ m % FieldMod = m
      /\ cd % WordMod = cd /\ at % WordMod = at
  <2>1. n < FieldMod /\ m < FieldMod /\ cd < WordMod /\ at < WordMod
    BY <1>2 DEF EocdWritable
  <2>2. cd % WordMod = cd /\ at % WordMod = at
    BY <1>1, <2>1, ModSmall
  <2>3. n % FieldMod = n /\ m % FieldMod = m
    BY <1>1, <2>1, FieldModAssumption
  <2> QED
    BY <2>2, <2>3
<1>5. /\ f[p + 1].k = "eocd" /\ f[p + 1].count = n /\ f[p + 1].size = cd
      /\ f[p + 1].offset = at /\ f[p + 1].clen = m
  BY <1>2, <1>4 DEF EocdHead
<1>6. EocdSize \in Nat \ {0} /\ EocdSize + m <= ChunkSize
  BY EocdSizeAssumption DEF Findable, m
<1>7. /\ p + EocdSize <= Len(f) /\ p <= Len(f) /\ Len(f) - p <= ChunkSize
      /\ p + (EocdSize + m) <= Len(f) /\ EocdSize + m \in Nat \ {0}
      /\ Len(f) \in Nat
  <2> DEFINE l == Len(f)
  <2>1. l = p + EocdSize + m
    BY <1>2
  <2> HIDE DEF l
  <2>2. p + EocdSize <= l /\ p <= l /\ l - p <= ChunkSize /\ l \in Nat
    BY <1>1, <1>6, <2>1, ChunkSizeAssumption
  <2>3. p + (EocdSize + m) <= l /\ EocdSize + m \in Nat \ {0}
    BY <1>1, <1>6, <2>1
  <2> QED
    BY <2>2, <2>3 DEF l
<1>8. EocdOffsets(f) # {} /\ EocdOffset(f) = p
  BY <1>1, <1>2, <1>3, <1>5, <1>7, EocdFound
<1>9. Eocd(f) = f[p + 1]
  BY <1>8 DEF Eocd
<1>10. EocdReadable(f)
  <2>1. InOneChunk(f, p, EocdSize + m)
    BY <1>1, <1>7, LastChunk
  <2> QED
    BY <1>5, <1>8, <1>9, <2>1 DEF EocdReadable
<1> QED
  BY <1>2, <1>3, <1>5, <1>7, <1>9, <1>10 DEF f, n, p, cd, at

\* What finish() seals reads back.
LEMMA SealedReads ==
  ASSUME disk \in Disk, listing \in Seq(SourceEntry \cup Entry),
         NEW s, Good(s), s.thrown = "none", ~s.openEntry, s.phase = "central",
         Laid(s), Held(s), Even(s), Catalogued(s), s.cdNext = Len(s.entries) + 1,
         Len(s.entries) = Len(listing),
         \A i \in 1..Len(listing) : ~Unended(listing[i]) /\ ~Misdescribed(listing[i]),
         Findable(s), WriteEocd(s).thrown = "none"
  PROVE  Readable(WriteEocd(s).file)
<1> DEFINE f == WriteEocd(s).file
<1> DEFINE n == Len(listing)
<1> DEFINE end == Eocd(f)
<1> DEFINE es == s.entries
<1> DEFINE h(i) == HeaderOf(es[i], es[i].comment, es[i].offset)
<1>1. /\ f \in Seq(Cell) /\ s.pos <= Len(f)
      /\ \A i \in 1..s.pos : f[i] = s.file[i]
      /\ EocdReadable(f)
      /\ end.count = n /\ end.size = s.cdSize /\ end.offset = s.cdStart
  BY SealFound DEF Even
<1> HIDE DEF f
<1>2. PICK at : Indexed(s, at)
  BY DEF Catalogued
<1>3. /\ n \in Nat /\ s.pos \in Nat /\ Len(f) \in Nat /\ s.cdNext = n + 1
      /\ s.file \in Seq(Cell) /\ Closed(s) = n /\ Committed(s) = s.pos
  BY <1>1, GoodParts, ClosedRange DEF Committed
<1>4. ASSUME NEW i \in 1..n
      PROVE  /\ es[i] \in Entry /\ CentralWritable(es[i])
             /\ at[i] \in Nat /\ at[i + 1] \in Nat /\ at[i + 1] <= s.pos
             /\ at[i + 1] = at[i] + CentralHeaderSize(es[i])
             /\ s.file[at[i] + 1] = [k |-> "central", h |-> h(i)]
             /\ CentralHeaderSize(es[i]) \in Nat \ {0}
  <2>1. i \in 1..s.cdNext /\ i + 1 \in 1..s.cdNext /\ i \in 1..s.cdNext - 1
        /\ i \in 1..Len(s.entries)
    BY <1>3
  <2>2. es[i] \in Entry
    BY <2>1, GoodParts
  <2>3. CentralHeaderSize(es[i]) \in Nat \ {0}
    BY <2>2, CentralHeaderSizePositive
  <2> QED
    BY <1>2, <2>1, <2>2, <2>3 DEF Indexed
<1>5. ASSUME NEW i \in 1..n
      PROVE  /\ HeaderCells(h(i)) = CentralHeaderSize(es[i])
             /\ h(i).dir = listing[i].dir /\ h(i).name = listing[i].name
             /\ h(i).offset = es[i].offset
             /\ ReadableHeader(f, es[i].offset, "local")
             /\ SameEntry(f[es[i].offset + 1].h, h(i))
             /\ Content(f, es[i].offset) = Expected(listing[i]).bytes
  <2>1. listing[i] \in SourceEntry \cup Entry /\ AsListed(es[i], listing[i])
    BY ElementOfSeq DEF Laid
  <2>2. Stored(s.file, es[i], BytesOf(i)) /\ EndOf(es[i], BytesOf(i)) <= s.pos
    BY <1>3 DEF Held
  <2>3. Stored(f, es[i], BytesOf(i))
    <3>1. BytesOf(i) \in Seq(Byte) /\ es[i] \in Entry
      BY <1>4, BytesType
    <3> QED
      BY <1>1, <1>3, <2>2, <3>1, StoredStays
  <2> QED
    BY <1>1, <1>4, <2>1, <2>3, EntryReads DEF BytesOf
<1>6. ASSUME NEW i \in 1..n
      PROVE  /\ f[at[i] + 1].k = "central" /\ f[at[i] + 1].h = h(i)
             /\ ReadableHeader(f, at[i], "central")
             /\ at[i + 1] = After(f, at[i])
  <2>1. at[i] + 1 \in 1..s.pos
    <3>1. \A a, c, d, p \in Nat : c # 0 /\ d = a + c /\ d <= p => a + 1 \in 1..p
      OBVIOUS
    <3>2. /\ at[i] \in Nat /\ at[i + 1] \in Nat /\ at[i + 1] <= s.pos
          /\ at[i + 1] = at[i] + CentralHeaderSize(es[i])
          /\ CentralHeaderSize(es[i]) \in Nat /\ CentralHeaderSize(es[i]) # 0
      BY <1>4
    <3> QED
      BY <1>3, <3>1, <3>2
  <2>2. f[at[i] + 1] = [k |-> "central", h |-> h(i)]
    BY <1>1, <1>4, <2>1
  <2>3. f[at[i] + 1].k = "central" /\ f[at[i] + 1].h = h(i)
    BY <2>2
  <2>4. at[i] + HeaderCells(h(i)) = at[i + 1]
    BY <1>4, <1>5
  <2>5. at[i + 1] <= Len(f) /\ 0 <= at[i] /\ at[i] < Len(f)
    <3>1. \A a, d, p, l \in Nat :
            a + 1 \in 1..p /\ p <= l /\ d <= p => d <= l /\ 0 <= a /\ a < l
      OBVIOUS
    <3>2. at[i] \in Nat /\ at[i + 1] \in Nat /\ at[i + 1] <= s.pos
      BY <1>4
    <3> QED
      BY <1>1, <1>3, <2>1, <3>1, <3>2
  <2> HIDE DEF h
  <2>6. ReadableHeader(f, at[i], "central")
    BY <2>3, <2>4, <2>5 DEF ReadableHeader
  <2> QED
    BY <2>3, <2>4, <2>6 DEF After
<1>7. at[1] = end.offset /\ at[n + 1] = end.offset + end.size
  BY <1>1, <1>2, <1>3 DEF Indexed, Catalogued
<1> HIDE DEF end, es, h
<1>8. \A i \in 1..n + 1 : CentralOffsets(f, end)[i] = at[i]
  <2>1. \A i \in 1..end.count : at[i + 1] = After(f, at[i])
    BY <1>1, <1>6
  <2>2. \A i \in 1..end.count + 1 : CentralOffsets(f, end)[i] = at[i]
    BY <1>1, <1>3, <1>7, <2>1, CentralOffsetsAre, SMTT(20)
  <2> QED
    BY <1>1, <2>2
<1>9. Consistent(f, end)
  <2> DEFINE c == CentralOffsets(f, end)
  <2>1. \A i \in 1..n + 1 : c[i] = at[i]
    BY <1>8
  <2>2. 1..n \subseteq 1..n + 1 /\ n + 1 \in 1..n + 1
    BY <1>3
  <2> HIDE DEF c, n
  <2>3. \A i \in 1..n : ReadableHeader(f, c[i], "central")
    BY <1>6, <2>1, <2>2
  <2>4. c[n + 1] = end.offset + end.size
    BY <1>7, <2>1, <2>2
  <2>5. ASSUME NEW i \in 1..n
        PROVE  LET x == f[c[i] + 1].h
               IN  /\ ReadableHeader(f, x.offset, "local")
                   /\ SameEntry(f[x.offset + 1].h, x)
    <3>1. f[c[i] + 1].h = h(i)
      BY <1>6, <2>1, <2>2
    <3> QED
      BY <1>5, <3>1
  <2> QED
    BY <1>1, <2>3, <2>4, <2>5 DEF Consistent, c
<1>10. Opens(f)
  BY <1>1, <1>9 DEF Opens, end
<1> DEFINE hs == CentralHeaders(f)
<1>11. hs = [i \in 1..n |-> f[at[i] + 1].h]
  <2>1. hs = [i \in 1..n |-> f[CentralOffsets(f, end)[i] + 1].h]
    BY <1>1 DEF CentralHeaders, end
  <2>2. \A i \in 1..n : CentralOffsets(f, end)[i] = at[i]
    BY <1>3, <1>8
  <2> QED
    BY <2>1, <2>2
<1> HIDE DEF hs
<1>12. Len(hs) = n /\ \A i \in 1..n : hs[i] = h(i)
  <2>1. \A i \in 1..n : hs[i] = h(i)
    BY <1>6, <1>11
  <2> QED
    BY <1>3, <1>11, <2>1
<1>13. ASSUME NEW i \in 1..n
       PROVE  /\ hs[i].dir = listing[i].dir
              /\ [name |-> hs[i].name, bytes |-> Content(f, hs[i].offset)]
                    = Expected(listing[i])
  <2>1. listing[i] \in SourceEntry \cup Entry
    BY ElementOfSeq
  <2>2. Expected(listing[i])
            = [name |-> listing[i].name, bytes |-> Expected(listing[i]).bytes]
    BY <2>1, ExpectedType
  <2> QED
    BY <1>5, <1>12, <2>2
<1> QED
  BY <1>10, <1>12, <1>13 DEF Readable, hs, f


-----------------------------------------------------------------------------
(* The contents of the archive, from the first entry to the last. *)

\* What left the copy loop, what waits in the put area and what is still to be
\* copied are together what was listed, as long as the output accepts it all.
Copied ==
  zb.openEntry /\ ~zb.refused =>
    /\ Filling(zb)
    /\ zb.level # 0 => zb.zsInit
    /\ (zb.crc \o zb.invec) \o input = BytesOf(Len(zb.entries))

Fed == IF pc = "copy" THEN zb.openEntry ELSE input = << >>

Progress ==
  /\ ~zb.openEntry => Even(zb)
  /\ Copied
  /\ failbit => zb.refused
  /\ Fed
  /\ pc = "central" => Catalogued(zb)

Contents ==
  ~Abandoned =>
    /\ Held(zb)
    /\ result = "running" => Progress
    /\ result = "saved" => /\ Findable(zb) => Readable(zb.file)
                           /\ Closed(zb) = Len(listing)

LEMMA HeldPrimed ==
  ASSUME UNCHANGED << listing, disk >>, Held(zb')
  PROVE  Held(zb)'
<1>1. \A i : BytesOf(i)' = BytesOf(i)
  BY ExpectedPrimed
<1> QED
  BY <1>1 DEF Held, Closed, Stored, EndOf, EndCells, DataAt, Committed, LastEntry

LEMMA ReadablePrimed ==
  ASSUME UNCHANGED << listing, disk >>, Readable(zb'.file)
  PROVE  Readable(zb.file)'
<1>1. \A i : Expected(listing[i])' = Expected(listing[i])
  BY ExpectedPrimed
<1> QED
  BY <1>1 DEF Readable

\* When an entry is put or closed, nothing is left to be copied.
LEMMA BeforeClosing ==
  ASSUME IInv, Structure, Contents, ~Abandoned, result = "running", pc # "copy",
         NEW n \in Nat, Len(zb.entries) = n
  PROVE  /\ Latched(zb) /\ Laid(zb) /\ Held(zb) /\ (~zb.openEntry => Even(zb))
         /\ zb.openEntry =>
              /\ ~zb.refused => Fills(zb, BytesOf(n))
              /\ ~Oversized(listing[n]) /\ ~Unended(listing[n])
<1>1. /\ ~recovered
      /\ \A i \in 1..Len(zb.entries) : Ordinary(i)
  BY NotAbandoned
<1>2. Latched(zb) /\ Laid(zb) /\ Good(zb)
  BY <1>1 DEF IInv, Structure
<1>3. Held(zb) /\ Progress
  BY DEF Contents
<1>4. ASSUME zb.openEntry
      PROVE  n \in 1..Len(zb.entries)
  <2>1. Len(zb.entries) # 0
    BY <1>2, <1>4, EmptySeq, GoodParts DEF Good
  <2> QED
    BY <2>1
<1>5. ASSUME zb.openEntry, ~zb.refused
      PROVE  Fills(zb, BytesOf(n))
  <2>1. /\ Filling(zb) /\ (zb.level # 0 => zb.zsInit)
        /\ (zb.crc \o zb.invec) \o input = BytesOf(n) /\ input = << >>
    BY <1>3, <1>5 DEF Progress, Copied, Fed
  <2>2. zb.crc \o zb.invec \in Seq(Byte)
    BY <1>2 DEF Good, Streambuf
  <2>3. \A q \in Seq(Byte) : q \o << >> = q
    OBVIOUS
  <2>4. (zb.crc \o zb.invec) \o input = zb.crc \o zb.invec
    BY <2>1, <2>2, <2>3
  <2> QED
    BY <2>1, <2>4 DEF Fills
<1>6. zb.openEntry => ~Oversized(listing[n]) /\ ~Unended(listing[n])
  BY <1>1, <1>4 DEF Ordinary
<1> QED
  BY <1>2, <1>3, <1>5, <1>6 DEF Progress

LEMMA PutKeepsOffsets ==
  ASSUME NEW s, Good(s), s.thrown = "none", StreamOfEntry(s), NEW e \in Entry,
         PutNextEntry(s, e).thrown = "none", NEW i \in 1..Len(s.entries)
  PROVE  PutNextEntry(s, e).entries[i].offset = s.entries[i].offset
<1> DEFINE c == CloseEntry(s)
<1> DEFINE u == PutNextEntry(s, e)
<1> DEFINE at == [e EXCEPT !.offset = c.pos]
<1>1. c.thrown = "none" /\ u.entries = Append(c.entries, at)
  BY PutStructure
<1>2. KeptEntries(s, c)
  BY CloseEntryStructure
<1>3. Good(c)
  BY CloseEntrySafe DEF Safe
<1> HIDE DEF c, u
<1>4. at \in Entry
  BY <1>3, GoodParts DEF Entry
<1> HIDE DEF at
<1>5. \A q \in Seq(Entry) : \A j \in 1..Len(q) : Append(q, at)[j] = q[j]
  BY <1>4
<1>6. i \in 1..Len(c.entries) /\ c.entries \in Seq(Entry) /\ Len(s.entries) \in Nat
  BY <1>2, GoodParts DEF KeptEntries
<1>7. u.entries[i] = c.entries[i]
  BY <1>1, <1>5, <1>6
<1>8. c.entries[i].offset = s.entries[i].offset
  <2>1. CASE i = Len(s.entries)
    <3>1. s.entries # << >>
      BY <1>6, <2>1, EmptySeq, GoodParts
    <3>2. Kept(LastEntry(s), LastEntry(c)) /\ Len(c.entries) = Len(s.entries)
      BY <1>2, <3>1 DEF KeptEntries
    <3> QED
      BY <2>1, <3>2 DEF Kept, LastEntry
  <2>2. CASE i # Len(s.entries)
    BY <1>2, <2>2 DEF KeptEntries
  <2> QED
    BY <2>1, <2>2
<1> QED
  BY <1>7, <1>8 DEF u

\* What putNextEntry() leaves when the save goes on.
LEMMA PutContents ==
  ASSUME IInv, Structure, Contents, pc = "put", next <= Len(listing),
         NEW n \in Nat, n = next,
         zb' = PutNextEntry(zb, AsCentral(listing[next])), zb'.thrown = "none",
         UNCHANGED << listing, disk, recovered >>, ~Abandoned'
  PROVE  /\ Held(zb)' /\ zb'.openEntry /\ ~zb'.refused /\ ~failbit
         /\ Filling(zb') /\ (zb'.level # 0 => zb'.zsInit)
         /\ zb'.crc = << >> /\ zb'.invec = << >> /\ input = << >>
         /\ Len(zb'.entries) = n /\ n \in 1..Len(listing)
         /\ result = "running" /\ listing[n] \in SourceEntry \cup Entry
         /\ ~Moved(n)' /\ ~Emptied(listing[n]) /\ ~Abandoned
<1>1. /\ Good(zb) /\ zb.thrown = "none" /\ zb.open /\ StreamOfEntry(zb)
      /\ result = "running" /\ Laid(zb) /\ Len(zb.entries) = n - 1
  BY DEF IInv, Control, Running, Structure
<1>2. /\ listing \in Seq(SourceEntry \cup Entry) /\ n \in 1..Len(listing)
      /\ Len(listing) \in Nat /\ n - 1 \in Nat /\ disk \in Disk
  BY DEF IInv, TypeOK
<1>3. Laid(zb') /\ Len(zb'.entries) = n
  BY <1>1, <1>2, PutLaid
<1>4. \A i \in 1..Len(zb.entries) : zb'.entries[i].offset = zb.entries[i].offset
  <2>1. AsCentral(listing[n]) \in Entry
    BY <1>2, ElementOfSeq, AsCentralType
  <2> QED
    BY <1>1, <2>1, PutKeepsOffsets
<1>5. ~Abandoned
  <2>1. Len(zb.entries) <= Len(zb'.entries) /\ Len(zb.entries) \in Nat
        /\ Len(zb'.entries) \in Nat
    BY <1>1, <1>2, <1>3
  <2> QED
    BY <1>1, <1>4, <2>1, AbandonedStays
<1>6. /\ Latched(zb) /\ Held(zb) /\ (~zb.openEntry => Even(zb))
      /\ zb.openEntry =>
            /\ ~zb.refused => Fills(zb, BytesOf(n - 1))
            /\ ~Oversized(listing[n - 1]) /\ ~Unended(listing[n - 1])
  BY <1>1, <1>2, <1>5, BeforeClosing
<1>7. /\ Held(zb') /\ zb'.openEntry /\ ~zb'.refused /\ ~zb.refused
      /\ Filling(zb') /\ (zb'.level # 0 => zb'.zsInit)
      /\ zb'.crc = << >> /\ zb'.invec = << >>
  BY <1>1, <1>2, <1>6, PutHolds
<1>8. ~failbit /\ input = << >>
  BY <1>1, <1>5, <1>7 DEF Contents, Progress, Fed
<1>9. Held(zb)'
  BY <1>7, HeldPrimed
<1>10. ~Moved(n)' /\ ~Emptied(listing[n])
  <2>1. n \in 1..Len(zb'.entries)
    BY <1>2, <1>3
  <2>2. ~Moved(n)' /\ ~Emptied(listing[n])'
    BY <2>1 DEF Abandoned, Excepted
  <2> QED
    BY <2>2 DEF Emptied, Source, Archived
<1> QED
  BY <1>1, <1>2, <1>3, <1>5, <1>7, <1>8, <1>9, <1>10, ElementOfSeq


LEMMA LastBytesPrimed ==
  ASSUME UNCHANGED << listing, disk >>, NEW n, Len(zb'.entries) = n
  PROVE  BytesOf(Len(zb.entries))' = BytesOf(n)
BY DEF BytesOf, Expected, Source, Archived

\* An entry that was just put, and what is to be copied for it.
LEMMA OpenedContents ==
  ASSUME UNCHANGED << listing, disk >>, Held(zb)',
         zb'.openEntry, Filling(zb'), zb'.level # 0 => zb'.zsInit,
         zb'.crc = << >>, zb'.invec = << >>,
         NEW n, Len(zb'.entries) = n, BytesOf(n) = input', input' \in Seq(Byte),
         ~failbit', result' = "running",
         pc' = IF input' = << >> THEN "put" ELSE "copy"
  PROVE  Contents'
<1>1. (zb'.crc \o zb'.invec) \o input' = BytesOf(Len(zb.entries))'
  <2>1. \A q \in Seq(Byte) : (<< >> \o << >>) \o q = q
    OBVIOUS
  <2>2. (zb'.crc \o zb'.invec) \o input' = BytesOf(n)
    BY <2>1
  <2> QED
    BY <2>2, LastBytesPrimed
<1>2. Copied'
  <2>1. Filling(zb)'
    BY DEF Filling, Filled, LastEntry, DataAt, DataCell, EffectiveLevel, LocalHeaderSize,
           WrittenName
  <2> QED
    BY <1>1, <2>1 DEF Copied
<1>3. Fed'
  BY DEF Fed
<1>4. Progress'
  BY <1>2, <1>3 DEF Progress
<1> QED
  BY <1>4 DEF Contents

LEMMA PutBareContents ==
  ASSUME IInv, Structure, Contents, PutBare, ~Abandoned'
  PROVE  Contents'
<1>0. PICK n \in Nat : n = next
  BY DEF IInv, TypeOK
<1>1. /\ pc = "put" /\ next <= Len(listing) /\ ~MustCopy(listing[n])
      /\ zb' = PutNextEntry(zb, AsCentral(listing[next]))
      /\ pc' = IF zb'.thrown = "none" THEN "put" ELSE "unwind"
      /\ result' = IF zb'.thrown = "none" THEN result ELSE "failed"
      /\ UNCHANGED << listing, disk, input, failbit, recovered >>
  BY <1>0 DEF PutBare, Call
<1>2. zb'.thrown = "none"
  BY <1>1 DEF Abandoned
<1>3. /\ Held(zb)' /\ zb'.openEntry /\ ~zb'.refused /\ ~failbit
      /\ Filling(zb') /\ (zb'.level # 0 => zb'.zsInit)
      /\ zb'.crc = << >> /\ zb'.invec = << >> /\ input = << >>
      /\ Len(zb'.entries) = n /\ result = "running"
  BY <1>0, <1>1, <1>2, PutContents
<1>4. BytesOf(n) = << >>
  BY <1>1 DEF BytesOf, Expected
<1>5. << >> \in Seq(Byte)
  OBVIOUS
<1> QED
  BY <1>1, <1>2, <1>3, <1>4, <1>5, OpenedContents

\* What getInputStream() finds at the offset an entry has by then is what it
\* would have found at the offset that was listed, unless the entry moved.
LEMMA SourceFound ==
  ASSUME UNCHANGED << listing, disk >>, NEW n \in Nat, Len(zb'.entries) = n,
         listing[n] \in SourceEntry \cup Entry, MustCopy(listing[n]), ~Moved(n)'
  PROVE  Source(listing[n], LastEntry(zb').offset)
            = Source(listing[n], AsCentral(listing[n]).offset)
<1> DEFINE l == listing[n]
<1>1. CASE ~IsCentral(l)
  BY <1>1 DEF Source
<1>2. CASE IsCentral(l)
  <2>1. zb'.entries[n].offset = l.offset
    BY <1>2 DEF Moved
  <2>2. LastEntry(zb') = zb'.entries[n] /\ AsCentral(l) = l
    BY <1>2 DEF LastEntry, AsCentral
  <2> QED
    BY <2>1, <2>2
<1> QED
  BY <1>1, <1>2

LEMMA PutFileContents ==
  ASSUME IInv, Structure, Contents, PutFile, ~Abandoned'
  PROVE  Contents'
<1>0. PICK n \in Nat : n = next
  BY DEF IInv, TypeOK
<1> DEFINE src == Source(listing[n], LastEntry(zb').offset)
<1> DEFINE copies == src.state = "file" /\ zb'.thrown = "none"
<1> DEFINE escapes == zb'.thrown # "none" \/ src.state = "throws"
<1>1. /\ pc = "put" /\ next <= Len(listing) /\ MustCopy(listing[n])
      /\ zb' = PutNextEntry(zb, AsCentral(listing[next]))
      /\ pc' = IF escapes THEN "unwind"
               ELSE IF copies /\ ~failbit /\ src.bytes # << >>
                    THEN "copy" ELSE "put"
      /\ result' = IF escapes THEN "failed" ELSE result
      /\ input' = IF copies /\ ~failbit THEN src.bytes ELSE << >>
      /\ failbit' = (failbit \/ (copies /\ src.bytes = << >>))
      /\ UNCHANGED << listing, disk, recovered >>
  BY <1>0 DEF PutFile
<1>2. ~escapes
  BY <1>1 DEF Abandoned
<1> HIDE DEF src
<1>3. /\ Held(zb)' /\ zb'.openEntry /\ ~zb'.refused /\ ~failbit
      /\ Filling(zb') /\ (zb'.level # 0 => zb'.zsInit)
      /\ zb'.crc = << >> /\ zb'.invec = << >> /\ input = << >>
      /\ Len(zb'.entries) = n /\ result = "running"
      /\ listing[n] \in SourceEntry \cup Entry /\ ~Moved(n)' /\ ~Emptied(listing[n])
  BY <1>0, <1>1, <1>2, PutContents
<1>4. src = Source(listing[n], AsCentral(listing[n]).offset)
  BY <1>1, <1>3, SourceFound DEF src
<1>5. BytesOf(n) = IF src.state = "file" THEN src.bytes ELSE << >>
  BY <1>1, <1>4 DEF BytesOf, Expected
<1>6. src.state = "file" => src.bytes # << >>
  BY <1>1, <1>3, <1>4 DEF Emptied
<1>7. src.bytes \in Seq(Byte)
  <2>1. AsCentral(listing[n]).offset \in Nat /\ disk \in Disk
    BY <1>3, AsCentralType DEF Entry, IInv, TypeOK
  <2> QED
    BY <1>3, <1>4, <2>1, SourceType
<1>8. /\ input' = BytesOf(n) /\ input' \in Seq(Byte)
      /\ ~failbit' /\ result' = "running"
      /\ pc' = IF input' = << >> THEN "put" ELSE "copy"
  <2>1. << >> \in Seq(Byte)
    OBVIOUS
  <2> QED
    BY <1>1, <1>2, <1>3, <1>5, <1>6, <1>7, <2>1
<1> QED
  BY <1>1, <1>3, <1>8, OpenedContents


\* A step that leaves the entries alone keeps what the closed ones hold.
LEMMA HeldKept ==
  ASSUME IInv, IInv', Keeps(zb, zb'), Laid(zb), Held(zb),
         zb'.entries = zb.entries, zb'.openEntry <=> zb.openEntry,
         UNCHANGED << listing, disk >>
  PROVE  Held(zb)' /\ Held(zb')
<1>1. /\ disk \in Disk /\ listing \in Seq(SourceEntry \cup Entry)
      /\ Good(zb) /\ Good(zb')
  BY DEF IInv, TypeOK, Good
<1>2. Closed(zb') = Closed(zb)
  BY DEF Closed
<1>3. ASSUME NEW i \in 1..Closed(zb')
      PROVE  /\ Stored(zb'.file, zb'.entries[i], BytesOf(i))
             /\ EndOf(zb'.entries[i], BytesOf(i)) <= Committed(zb')
  BY <1>1, <1>2, HeldStays
<1>4. Held(zb')
  BY <1>3 DEF Held
<1> QED
  BY <1>4, HeldPrimed

\* As long as no entry changes its place, nor does it get another one.
LEMMA EntriesKeepAbandoned ==
  ASSUME IInv, zb'.entries = zb.entries, UNCHANGED << listing, disk, recovered >>,
         result \in {"running", "saved"}, ~Abandoned'
  PROVE  ~Abandoned
<1>1. Len(zb.entries) \in Nat
  BY GoodParts DEF IInv
<1> QED
  BY <1>1, AbandonedStays

LEMMA HeadTailBytes ==
  ASSUME NEW q \in Seq(Byte), q # << >>
  PROVE  /\ Head(q) \in Byte /\ Tail(q) \in Seq(Byte)
         /\ q = << Head(q) >> \o Tail(q)
         /\ Len(q) = 1 => Tail(q) = << >>
<1>1. Len(q) \in Nat /\ Len(q) # 0
  BY EmptySeq
<1>2. /\ Head(q) = q[1] /\ Tail(q) \in Seq(Byte) /\ Len(Tail(q)) = Len(q) - 1
      /\ \A i \in 1..Len(Tail(q)) : Tail(q)[i] = q[i + 1]
  BY <1>1, HeadTailProperties
<1>3. Head(q) \in Byte
  BY <1>1, <1>2, ElementOfSeq
<1> DEFINE w == << Head(q) >> \o Tail(q)
<1>4. /\ w \in Seq(Byte) /\ Len(w) = Len(q)
      /\ w[1] = q[1]
      /\ \A i \in 1..Len(Tail(q)) : w[1 + i] = Tail(q)[i]
  BY <1>1, <1>2, <1>3
<1> HIDE DEF w
<1>5. ASSUME NEW i \in 1..Len(q)
      PROVE  w[i] = q[i]
  <2>1. CASE i = 1
    BY <1>4, <2>1
  <2>2. CASE i # 1
    <3>1. i - 1 \in 1..Len(Tail(q)) /\ 1 + (i - 1) = i /\ (i - 1) + 1 = i
      BY <1>1, <1>2, <2>2
    <3>2. w[1 + (i - 1)] = Tail(q)[i - 1] /\ Tail(q)[i - 1] = q[(i - 1) + 1]
      BY <1>2, <1>4, <3>1
    <3> QED
      BY <3>1, <3>2
  <2> QED
    BY <2>1, <2>2
<1>6. w = q
  BY <1>4, <1>5, SeqEqual
<1>7. Len(q) = 1 => Tail(q) = << >>
  <2>1. Len(q) = 1 => Len(Tail(q)) = 0
    BY <1>2
  <2> QED
    BY <1>2, <2>1, EmptySeq
<1> QED
  BY <1>2, <1>3, <1>6, <1>7 DEF w

LEMMA SputcFrame ==
  ASSUME NEW s \in Streambuf, NEW b \in Byte
  PROVE  Sputc(s, b).zsInit = s.zsInit
<1>1. CASE Len(s.invec) < BufSize
  BY <1>1 DEF Sputc, Streambuf
<1>2. CASE ~(Len(s.invec) < BufSize)
  <2>1. << b >> \in Seq(Byte) /\ Sputc(s, b) = Overflow(s, << b >>)
    BY <1>2 DEF Sputc
  <2> QED
    BY <2>1, OverflowFrame
<1> QED
  BY <1>1, <1>2

LEMMA CopyByteContents ==
  ASSUME IInv, IInv', Keeps(zb, zb'), Structure, Contents, CopyByte, ~Abandoned'
  PROVE  Contents'
<1> DEFINE b == Head(input)
<1> DEFINE rest == Tail(input)
<1> DEFINE t == Sputc(zb, b)
<1> DEFINE stop == t.thrown # "none"
<1>1. /\ pc = "copy" /\ zb' = [t EXCEPT !.thrown = "none"]
      /\ failbit' = (failbit \/ stop)
      /\ input' = IF stop THEN << >> ELSE rest
      /\ pc' = IF stop \/ Len(input) = 1 THEN "put" ELSE "copy"
      /\ UNCHANGED << listing, disk, next, result, recovered >>
  BY DEF CopyByte
<1>2. /\ Good(zb) /\ zb.thrown = "none" /\ result = "running"
      /\ input # << >> /\ input \in Seq(Byte) /\ Laid(zb)
      /\ zb \in Streambuf /\ zb.pos <= Len(zb.file)
  BY <1>1 DEF IInv, Control, Running, Copying, TypeOK, Structure, Good
<1>3. /\ b \in Byte /\ rest \in Seq(Byte) /\ input = << b >> \o rest
      /\ Len(input) = 1 => rest = << >>
  BY <1>2, HeadTailBytes
<1> HIDE DEF b, rest
<1>4. Forward(zb, t)
  BY <1>2, <1>3, SputcForward
<1>5. zb.openEntry => zb.entries # << >>
  BY <1>2 DEF Good
<1>6. /\ stop => t.refused
      /\ zb.entries # << >> /\ Filling(zb) /\ ~stop =>
           Filling(t) /\ t.crc \o t.invec = (zb.crc \o zb.invec) \o << b >>
      /\ t.zsInit = zb.zsInit /\ t.level = zb.level
  <2>1. stop => t.refused
    BY <1>2, <1>3, SputcRefused
  <2>2. zb.entries # << >> /\ Filling(zb) /\ ~stop =>
           Filling(t) /\ t.crc \o t.invec = (zb.crc \o zb.invec) \o << b >>
    BY <1>2, <1>3, SputcFills
  <2>3. t.zsInit = zb.zsInit
    BY <1>2, <1>3, SputcFrame
  <2> QED
    BY <1>4, <2>1, <2>2, <2>3 DEF Forward
<1> HIDE DEF t
<1>7. /\ t \in Streambuf /\ t.entries = zb.entries /\ t.openEntry = zb.openEntry
      /\ zb.refused => t.refused
  BY <1>4 DEF Forward
<1>8. /\ zb'.entries = t.entries /\ zb'.openEntry = t.openEntry
      /\ zb'.refused = t.refused /\ zb'.zsInit = t.zsInit /\ zb'.level = t.level
      /\ zb'.crc = t.crc /\ zb'.invec = t.invec /\ zb'.file = t.file
      /\ zb'.pos = t.pos /\ zb'.overflown = t.overflown /\ zb'.outvec = t.outvec
  BY <1>1, <1>7 DEF Streambuf
<1>9. ~Abandoned
  BY <1>1, <1>2, <1>7, <1>8, EntriesKeepAbandoned
<1>10. Held(zb) /\ Progress /\ zb.openEntry
  BY <1>1, <1>2, <1>9 DEF Contents, Progress, Fed
<1>11. Held(zb)'
  BY <1>1, <1>2, <1>7, <1>8, <1>10, HeldKept
<1>12. failbit' => zb'.refused
  BY <1>1, <1>6, <1>7, <1>8, <1>10 DEF Progress
<1>13. Fed'
  BY <1>1, <1>3, <1>7, <1>8, <1>10 DEF Fed
<1>14. Copied'
  <2> SUFFICES ASSUME ~zb'.refused
               PROVE  /\ Filling(zb)'
                      /\ zb'.level # 0 => zb'.zsInit
                      /\ (zb'.crc \o zb'.invec) \o input' = BytesOf(Len(zb.entries))'
    BY DEF Copied
  <2>1. ~stop /\ ~zb.refused
    BY <1>6, <1>7, <1>8
  <2>2. /\ Filling(zb) /\ (zb.level # 0 => zb.zsInit)
        /\ (zb.crc \o zb.invec) \o input = BytesOf(Len(zb.entries))
    BY <1>10, <2>1 DEF Progress, Copied
  <2>3. Filling(t) /\ t.crc \o t.invec = (zb.crc \o zb.invec) \o << b >>
    BY <1>5, <1>6, <1>10, <2>1, <2>2
  <2>4. LastEntry(zb') = LastEntry(t)
    BY <1>8 DEF LastEntry
  <2>5. Filling(zb)'
    BY <1>8, <2>3, <2>4 DEF Filling
  <2>6. (zb'.crc \o zb'.invec) \o input' = (zb.crc \o zb.invec) \o input
    <3> DEFINE front == zb.crc \o zb.invec
    <3> DEFINE one == << b >>
    <3>1. front \in Seq(Byte) /\ one \in Seq(Byte)
      BY <1>2, <1>3 DEF Streambuf
    <3>2. zb'.crc \o zb'.invec = front \o one /\ input' = rest /\ input = one \o rest
      BY <1>1, <1>3, <1>8, <2>1, <2>3
    <3> HIDE DEF front, one
    <3>3. (front \o one) \o rest = front \o (one \o rest)
      BY <1>3, <3>1, BytesAssociate
    <3> QED
      BY <3>2, <3>3 DEF front
  <2>7. BytesOf(Len(zb.entries))' = BytesOf(Len(zb.entries))
    BY <1>1, <1>7, <1>8, LastBytesPrimed
  <2> QED
    BY <1>6, <1>8, <2>2, <2>5, <2>6, <2>7
<1>15. Progress'
  BY <1>1, <1>7, <1>8, <1>10, <1>12, <1>13, <1>14 DEF Progress
<1> QED
  BY <1>1, <1>2, <1>11, <1>15 DEF Contents


LEMMA LeaveLoopStays ==
  ASSUME IInv, LeaveLoop, ~Abandoned'
  PROVE  /\ ~Abandoned /\ zb'.thrown = "none" /\ result = "running"
         /\ Len(zb'.entries) = Len(zb.entries) /\ ~zb'.openEntry
<1>1. /\ pc = "put" /\ zb' = CloseEntry(zb)
      /\ result' = IF zb'.thrown = "none" THEN result ELSE "failed"
      /\ UNCHANGED << listing, disk, recovered >>
  BY DEF LeaveLoop, Call
<1>2. zb'.thrown = "none"
  BY <1>1 DEF Abandoned
<1>3. /\ Good(zb) /\ zb.thrown = "none" /\ StreamOfEntry(zb) /\ result = "running"
  BY <1>1 DEF IInv, Control, Running
<1> DEFINE n == Len(zb.entries)
<1>4. n \in Nat
  BY <1>3, GoodParts
<1>5. KeptEntries(zb, zb') /\ ~zb'.openEntry
  BY <1>1, <1>2, <1>3, CloseEntryStructure, CloseEntrySafe
<1>6. Len(zb'.entries) = n
  BY <1>5 DEF KeptEntries
<1>7. ASSUME NEW i \in 1..n
      PROVE  zb'.entries[i].offset = zb.entries[i].offset
  <2>1. CASE i = n
    <3>1. zb.entries # << >>
      BY <1>3, <1>4, <2>1, EmptySeq, GoodParts
    <3>2. Kept(LastEntry(zb), LastEntry(zb'))
      BY <1>5, <3>1 DEF KeptEntries
    <3> QED
      BY <1>6, <2>1, <3>2 DEF Kept, LastEntry
  <2>2. CASE i # n
    BY <1>5, <2>2 DEF KeptEntries
  <2> QED
    BY <2>1, <2>2
<1>8. ~Abandoned
  BY <1>1, <1>3, <1>4, <1>6, <1>7, AbandonedStays
<1> QED
  BY <1>2, <1>3, <1>5, <1>6, <1>8

LEMMA LeaveLoopContents ==
  ASSUME IInv, IInv', Structure, Contents, LeaveLoop, ~Abandoned'
  PROVE  Contents'
<1>1. /\ pc = "put" /\ zb' = CloseEntry(zb)
      /\ pc' = IF zb'.thrown = "none" THEN "finish" ELSE "unwind"
      /\ result' = IF zb'.thrown = "none" THEN result ELSE "failed"
      /\ UNCHANGED << listing, disk, input, failbit, recovered >>
  BY DEF LeaveLoop, Call
<1>2. zb'.thrown = "none" /\ ~Abandoned /\ ~zb'.openEntry
  BY LeaveLoopStays
<1>3. /\ Good(zb) /\ zb.thrown = "none" /\ StreamOfEntry(zb) /\ result = "running"
      /\ disk \in Disk /\ listing \in Seq(SourceEntry \cup Entry)
  BY <1>1 DEF IInv, Control, Running, TypeOK
<1> DEFINE n == Len(zb.entries)
<1>4. n \in Nat
  BY <1>3, GoodParts
<1> HIDE DEF n
<1>5. /\ Latched(zb) /\ Laid(zb) /\ Held(zb) /\ (~zb.openEntry => Even(zb))
      /\ zb.openEntry =>
            /\ ~zb.refused => Fills(zb, BytesOf(n))
            /\ ~Oversized(listing[n]) /\ ~Unended(listing[n])
  BY <1>1, <1>2, <1>3, <1>4, BeforeClosing DEF n
<1>6. Held(zb') /\ Even(zb') /\ ~zb.refused
  BY <1>1, <1>2, <1>3, <1>4, <1>5, CloseHolds DEF n
<1>7. Held(zb)'
  BY <1>1, <1>6, HeldPrimed
<1>8. ~failbit /\ input = << >>
  BY <1>1, <1>2, <1>3, <1>6 DEF Contents, Progress, Fed
<1>9. Progress'
  <2>1. Even(zb)'
    BY <1>6 DEF Even
  <2> QED
    BY <1>1, <1>2, <1>8, <2>1 DEF Progress, Copied, Fed
<1> QED
  BY <1>1, <1>2, <1>3, <1>7, <1>9 DEF Contents

LEMMA FinishContents ==
  ASSUME IInv, IInv', Keeps(zb, zb'), Structure, Contents, Finish, ~Abandoned'
  PROVE  Contents'
<1>1. /\ pc = "finish" /\ zb' = BeginFinish(zb)
      /\ pc' = IF zb'.thrown = "none" THEN "central" ELSE "unwind"
      /\ result' = IF zb'.thrown = "none" THEN result ELSE "failed"
      /\ UNCHANGED << listing, disk, input, failbit, recovered >>
  BY DEF Finish, Call
<1>2. /\ Good(zb) /\ zb.thrown = "none" /\ zb.open /\ result = "running"
      /\ Laid(zb) /\ ~zb.openEntry
  BY <1>1 DEF IInv, Control, Running, Structure
<1>3. /\ zb'.thrown = "none" /\ ~zb'.openEntry
      /\ zb'.entries = zb.entries /\ zb'.pos = zb.pos /\ zb'.file = zb.file
      /\ zb'.refused = zb.refused /\ zb'.crc = zb.crc
      /\ zb'.cdStart = zb.pos /\ zb'.cdNext = 1 /\ zb'.cdSize = 0
  BY <1>1, <1>2, FinishStructure
<1>4. ~Abandoned
  BY <1>1, <1>2, <1>3, EntriesKeepAbandoned
<1>5. Held(zb) /\ Even(zb) /\ ~failbit /\ input = << >>
  BY <1>1, <1>2, <1>4 DEF Contents, Progress, Fed, Even
<1>6. Held(zb)'
  BY <1>1, <1>2, <1>3, <1>5, HeldKept
<1>7. Even(zb)'
  BY <1>3, <1>5 DEF Even
<1>8. Catalogued(zb)'
  <2> DEFINE p == zb.pos
  <2> DEFINE at == << p >>
  <2>1. p \in Nat /\ zb'.pos = p /\ zb'.cdStart = p /\ zb'.cdSize = 0 /\ zb'.cdNext = 1
    BY <1>2, <1>3, GoodParts
  <2>2. at[1] = p
    OBVIOUS
  <2> HIDE DEF p, at
  <2>3. Indexed(zb', at)
    BY <2>1, <2>2 DEF Indexed
  <2>4. Catalogued(zb')
    BY <2>1, <2>3 DEF Catalogued
  <2> QED
    BY <2>4 DEF Catalogued, Indexed
<1>9. Progress'
  BY <1>1, <1>3, <1>5, <1>7, <1>8 DEF Progress, Copied, Fed
<1> QED
  BY <1>1, <1>2, <1>3, <1>6, <1>9 DEF Contents

\* One more header, and the directory is as it should be.
LEMMA IndexGrows ==
  ASSUME NEW s, Good(s), s.thrown = "none", ~s.openEntry, s.pos = Len(s.file),
         s.cdNext <= Len(s.entries), Catalogued(s), WriteCentral(s).thrown = "none"
  PROVE  Catalogued(WriteCentral(s))
<1> DEFINE t == WriteCentral(s)
<1> DEFINE m == s.cdNext
<1> DEFINE e == s.entries[m]
<1> DEFINE c == CentralHeaderSize(e)
<1>1. /\ t.entries = s.entries
      /\ CentralWritable(e)
      /\ t.pos = s.pos + c
      /\ t.file[s.pos + 1] = [k |-> "central", h |-> HeaderOf(e, e.comment, e.offset)]
      /\ \A i \in 1..s.pos : t.file[i] = s.file[i]
      /\ t.cdStart = s.cdStart /\ t.cdNext = m + 1 /\ t.cdSize = s.cdSize + c
  BY CentralWritten
<1>2. /\ m \in Nat \ {0} /\ s.pos \in Nat /\ s.cdStart \in Nat /\ s.cdSize \in Nat
      /\ m \in 1..Len(s.entries) /\ Len(s.entries) \in Nat
  BY GoodParts DEF Good, Streambuf
<1>3. \A i \in 1..m : s.entries[i] \in Entry
  BY <1>2, GoodParts
<1>4. c \in Nat /\ c # 0
  BY <1>2, <1>3, CentralHeaderSizePositive
<1>5. PICK at : Indexed(s, at)
  BY DEF Catalogued
<1> DEFINE more == [i \in 1..m + 1 |-> IF i = m + 1 THEN t.pos ELSE at[i]]
<1>6. more[m + 1] = t.pos /\ \A i \in 1..m : more[i] = at[i]
  BY <1>2
<1> HIDE DEF t, c, more
<1>7. /\ at[1] = s.cdStart /\ at[m] = s.pos
      /\ \A i \in 1..m : at[i] \in Nat /\ at[i] <= s.pos
  BY <1>5 DEF Indexed
<1>8. t.pos \in Nat /\ s.pos <= t.pos
  BY <1>1, <1>2, <1>4
<1>9. ASSUME NEW i \in 1..m
      PROVE  /\ CentralWritable(s.entries[i])
             /\ more[i + 1] = more[i] + CentralHeaderSize(s.entries[i])
             /\ t.file[more[i] + 1]
                = [k |-> "central", h |-> HeaderOf(s.entries[i],
                        s.entries[i].comment, s.entries[i].offset)]
  <2>1. CASE i = m
    BY <1>1, <1>6, <1>7, <2>1 DEF c
  <2>2. CASE i # m
    <3>1. i \in 1..m - 1 /\ i + 1 \in 1..m
      BY <1>2, <2>2
    <3>2. /\ CentralWritable(s.entries[i])
          /\ at[i + 1] = at[i] + CentralHeaderSize(s.entries[i])
          /\ s.file[at[i] + 1]
                = [k |-> "central", h |-> HeaderOf(s.entries[i],
                        s.entries[i].comment, s.entries[i].offset)]
      BY <1>5, <3>1 DEF Indexed
    <3>3. at[i] + 1 \in 1..s.pos
      <4>1. \A a, d, q, p \in Nat : d # 0 /\ q = a + d /\ q <= p => a + 1 \in 1..p
        OBVIOUS
      <4>2. /\ CentralHeaderSize(s.entries[i]) \in Nat
            /\ CentralHeaderSize(s.entries[i]) # 0
        BY <1>3, CentralHeaderSizePositive
      <4>3. at[i] \in Nat /\ at[i + 1] \in Nat /\ at[i + 1] <= s.pos
        BY <1>7, <3>1
      <4> QED
        BY <1>2, <3>2, <4>1, <4>2, <4>3
    <3> QED
      BY <1>1, <1>6, <3>1, <3>2, <3>3
  <2> QED
    BY <2>1, <2>2
<1>10. \A i \in 1..m + 1 : more[i] \in Nat /\ more[i] <= t.pos
  <2>1. ASSUME NEW i \in 1..m + 1
        PROVE  more[i] \in Nat /\ more[i] <= t.pos
    <3>1. CASE i = m + 1
      BY <1>6, <1>8, <3>1
    <3>2. CASE i # m + 1
      <4>1. i \in 1..m
        BY <1>2, <3>2
      <4>2. more[i] = at[i] /\ at[i] \in Nat /\ at[i] <= s.pos
        BY <1>6, <1>7, <4>1
      <4> QED
        BY <1>2, <1>8, <4>2
    <3> QED
      BY <3>1, <3>2
  <2> QED
    BY <2>1
<1>11. Indexed(t, more)
  <2>1. 1 \in 1..m /\ (m + 1) - 1 = m
    BY <1>2
  <2> QED
    BY <1>1, <1>6, <1>7, <1>9, <1>10, <2>1 DEF Indexed
<1>12. t.cdStart + t.cdSize = t.pos
  <2>1. s.cdStart + s.cdSize = s.pos
    BY DEF Catalogued
  <2>2. \A a, b, d, p : a \in Nat /\ b \in Nat /\ d \in Nat /\ a + b = p
                            => a + (b + d) = p + d
    OBVIOUS
  <2>3. s.cdStart + (s.cdSize + c) = s.pos + c
    BY <1>2, <1>4, <2>1, <2>2, SMTT(20)
  <2> QED
    BY <1>1, <2>3
<1> QED
  BY <1>11, <1>12 DEF Catalogued, t


LEMMA CentralContents ==
  ASSUME IInv, IInv', Keeps(zb, zb'), Structure, Contents, Central, ~Abandoned'
  PROVE  Contents'
<1> DEFINE t == CentralStep(zb)
<1>1. /\ pc = "central" /\ zb' = t
      /\ pc' = IF t.thrown # "none" THEN "unwind"
               ELSE IF t.phase = "sealed" THEN "destroy" ELSE "central"
      /\ result' = IF t.thrown # "none" THEN "failed"
                   ELSE IF t.phase = "sealed" THEN "saved" ELSE result
      /\ UNCHANGED << listing, disk, input, failbit, recovered >>
  BY DEF Central
<1>2. /\ Good(zb) /\ zb.thrown = "none" /\ zb.phase = "central" /\ ~zb.openEntry
      /\ result = "running" /\ Laid(zb) /\ Len(zb.entries) = next - 1
      /\ next = Len(listing) + 1 /\ zb.cdNext <= Len(zb.entries) + 1
      /\ disk \in Disk /\ listing \in Seq(SourceEntry \cup Entry)
  BY <1>1 DEF IInv, Control, InDirectory, Structure, TypeOK
<1>3. t.thrown = "none"
  BY <1>1 DEF Abandoned
<1>4. /\ t.entries = zb.entries /\ ~t.openEntry
      /\ \/ zb.cdNext <= Len(zb.entries) /\ t = WriteCentral(zb) /\ t.phase = "central"
         \/ zb.cdNext > Len(zb.entries) /\ t = WriteEocd(zb) /\ t.phase = "sealed"
  BY <1>2, <1>3, CentralStepStructure
<1> HIDE DEF t
<1>5. /\ ~Abandoned /\ Latched(zb)
      /\ \A i \in 1..Len(zb.entries) : Ordinary(i)
  <2>1. ~Abandoned
    BY <1>1, <1>2, <1>4, EntriesKeepAbandoned
  <2> QED
    BY <2>1, NotAbandoned DEF IInv
<1>6. Held(zb) /\ Even(zb) /\ Catalogued(zb) /\ ~failbit /\ input = << >>
  BY <1>1, <1>2, <1>5 DEF Contents, Progress, Fed, Even
<1>7. Held(zb)'
  BY <1>1, <1>2, <1>4, <1>6, HeldKept
<1>8. /\ Len(listing) \in Nat /\ Len(zb.entries) = Len(listing)
      /\ zb.cdNext \in Nat
  BY <1>2 DEF Good, Streambuf
<1>9. CASE t = WriteCentral(zb) /\ t.phase = "central" /\ zb.cdNext <= Len(zb.entries)
  <2>1. /\ ~t.refused /\ t.crc = zb.crc /\ t.pos = Len(t.file)
    BY <1>2, <1>3, <1>5, <1>6, <1>9, CentralWritten DEF Even
  <2>2. Catalogued(t)
    BY <1>2, <1>3, <1>6, <1>9, IndexGrows DEF Even
  <2>3. Even(zb)' /\ Catalogued(zb)'
    BY <1>1, <1>6, <2>1, <2>2 DEF Even, Catalogued, Indexed
  <2>4. pc' = "central" /\ result' = "running"
    BY <1>1, <1>2, <1>3, <1>9
  <2>5. Progress'
    BY <1>1, <1>4, <1>6, <2>3, <2>4 DEF Progress, Copied, Fed
  <2> QED
    BY <1>7, <2>4, <2>5 DEF Contents
<1>10. CASE t = WriteEocd(zb) /\ t.phase = "sealed" /\ zb.cdNext > Len(zb.entries)
  <2>1. zb.cdNext = Len(zb.entries) + 1
    BY <1>2, <1>8, <1>10
  <2>2. \A i \in 1..Len(listing) : ~Unended(listing[i]) /\ ~Misdescribed(listing[i])
    BY <1>5, <1>8 DEF Ordinary
  <2>3. Findable(t) => Readable(t.file)
    <3>1. t.comment = zb.comment
      BY <1>2, <1>10, EocdWritten
    <3>2. Findable(t) => Findable(zb)
      BY <3>1 DEF Findable
    <3> QED
      BY <1>2, <1>3, <1>6, <1>8, <1>10, <2>1, <2>2, <3>2, SealedReads
  <2>4. Findable(zb)' => Readable(zb.file)'
    <3>1. Findable(zb)' <=> Findable(t)
      BY <1>1 DEF Findable
    <3> QED
      BY <1>1, <2>3, <3>1, ReadablePrimed
  <2>5. Closed(zb') = Len(listing)
    BY <1>1, <1>4, <1>8 DEF Closed
  <2>6. Closed(zb)' = Len(listing)'
    BY <1>1, <2>5 DEF Closed
  <2>7. result' = "saved"
    BY <1>1, <1>3, <1>10
  <2> QED
    BY <1>7, <2>4, <2>6, <2>7 DEF Contents
<1> QED
  BY <1>4, <1>9, <1>10

LEMMA UnchangedContents ==
  ASSUME Contents, UNCHANGED << zb, listing, disk, recovered >>,
         \/ UNCHANGED << input, failbit, pc, result >>
         \/ result = "saved" /\ result' = "saved"
  PROVE  Contents'
<1>1. Abandoned => Abandoned'
  <2>1. CASE result = result'
    BY <2>1, ZenonT(40) DEF Abandoned, Excepted, Moved, Oversized, Emptied, Unended, Misdescribed,
                Expected, Source, Archived
  <2> QED
    BY <2>1
<1>2. Held(zb) => Held(zb)'
  BY HeldPrimed
<1>3. (Findable(zb) => Readable(zb.file)) => (Findable(zb) => Readable(zb.file))'
  BY ReadablePrimed DEF Findable
<1>4. Closed(zb)' = Closed(zb)
  BY DEF Closed
<1>5. CASE result = "saved" /\ result' = "saved"
  BY <1>1, <1>2, <1>3, <1>4, <1>5 DEF Contents
<1>6. CASE UNCHANGED << input, failbit, pc, result >>
  <2>1. Progress => Progress'
    <3>1. /\ Even(zb) => Even(zb)'
          /\ Catalogued(zb) => Catalogued(zb)'
      BY DEF Even, Catalogued, Indexed
    <3>2. Fed => Fed'
      BY <1>6 DEF Fed
    <3>3. Copied => Copied'
      BY <1>6 DEF Copied, Filling, Filled, LastEntry, BytesOf, Expected, Source, Archived
    <3> QED
      BY <1>6, <3>1, <3>2, <3>3 DEF Progress
  <2> QED
    BY <1>1, <1>2, <1>3, <1>4, <1>6, <2>1 DEF Contents
<1> QED
  BY <1>5, <1>6

LEMMA DestroyContents ==
  ASSUME IInv, Contents, Destroy, ~Abandoned'
  PROVE  Contents'
<1>1. /\ pc = "destroy" /\ zb' = DestroyStream(zb)
      /\ result' = IF zb'.thrown = "none" THEN result ELSE "terminated"
      /\ UNCHANGED << listing, disk, recovered >>
  BY DEF Destroy
<1>2. result = "saved" /\ result' = "saved"
  BY <1>1 DEF Abandoned, IInv, Control, Destroying
<1>3. ~zb.zsInit
  BY <1>2 DEF IInv, Control, Saved
<1>4. zb' = zb
  BY <1>1, <1>3 DEF DestroyStream
<1> QED
  BY <1>1, <1>2, <1>4, UnchangedContents

LEMMA InitContents ==
  ASSUME Init
  PROVE  Contents
<1>1. PICK s \in Saves :
        /\ listing = s.listing
        /\ zb = NewStreambuf(s.comment, s.fuse, s.short)
  BY DEF Init
<1>2. /\ zb.entries = << >> /\ ~zb.openEntry /\ ~zb.refused /\ zb.crc = << >>
      /\ zb.file = << >> /\ zb.pos = 0
  BY <1>1 DEF NewStreambuf
<1>3. Closed(zb) = 0 /\ Len(zb.file) = 0
  BY <1>2 DEF Closed
<1>4. Held(zb)
  BY <1>3 DEF Held
<1>5. Even(zb)
  BY <1>2, <1>3 DEF Even
<1>6. pc = "put" /\ result = "running" /\ input = << >> /\ ~failbit
  BY DEF Init
<1> QED
  BY <1>2, <1>4, <1>5, <1>6 DEF Contents, Progress, Copied, Fed

LEMMA NextContents ==
  IInv /\ Structure /\ Contents /\ [Next]_vars => Contents'
<1> SUFFICES ASSUME IInv, Structure, Contents, [Next]_vars, ~Abandoned'
             PROVE  Contents'
  BY DEF Contents
<1>0. IInv' /\ Keeps(zb, zb')
  BY NextInvariant
<1>1. CASE PutBare
  BY <1>1, PutBareContents
<1>2. CASE PutFile
  BY <1>2, PutFileContents
<1>3. CASE CopyByte
  BY <1>0, <1>3, CopyByteContents
<1>4. CASE LeaveLoop
  BY <1>0, <1>4, LeaveLoopContents
<1>5. CASE Finish
  BY <1>0, <1>5, FinishContents
<1>6. CASE Central
  BY <1>0, <1>6, CentralContents
<1>7. CASE Unwind
  BY <1>7 DEF Unwind, IInv, Control, Unwinding, Abandoned
<1>8. CASE UnwindCentral
  BY <1>8 DEF UnwindCentral, IInv, Control, UnwindingDirectory, Abandoned
<1>9. CASE Destroy
  BY <1>9, DestroyContents
<1>10. CASE Recover
  BY <1>10 DEF Recover, Abandoned
<1>11. CASE Done
  BY <1>11, UnchangedContents DEF Done, vars
<1>12. CASE UNCHANGED vars
  BY <1>12, UnchangedContents DEF vars
<1> QED
  BY <1>1, <1>2, <1>3, <1>4, <1>5, <1>6, <1>7, <1>8, <1>9, <1>10, <1>11, <1>12
     DEF Next, Step

LEMMA ContentsInvariance == Spec => []Contents
<1>1. IInv /\ (Structure /\ AcceptsWhatFits) /\ Contents /\ [Next]_vars => Contents'
  BY NextContents
<1> QED
  BY Invariance, StructureInvariance, InitContents, <1>1, PTL DEF Spec

\* Whatever is listed, whatever the disk holds, whatever the output does: a save
\* that is reported as a success has left an archive that the library opens and
\* that reads back, entry for entry, as what was listed, but for an output that
\* recovered, for the five cases of entries that are excepted by name, and for a
\* comment that does not fit into a chunk with the end of central directory.
THEOREM SavedReadsBack == Spec => []SavedArchiveReadsBack
<1>1. IInv /\ Contents => SavedArchiveReadsBack
  <2>1. IInv /\ ~Unfindable => Findable(zb)
    <3>1. IInv => zb.comment \in Nat
      BY DEF IInv, TypeOK, Streambuf
    <3>2. zb.comment \in Nat /\ ~(EocdSize + zb.comment > ChunkSize)
          => EocdSize + zb.comment <= ChunkSize
      BY EocdSizeAssumption, ChunkSizeAssumption
    <3> QED
      BY <3>1, <3>2 DEF Unfindable, Findable
  <2> QED
    BY <2>1 DEF Contents, SavedArchiveReadsBack, ReadsBack, Readable
<1> QED
  BY Invariance, ContentsInvariance, <1>1, PTL


-----------------------------------------------------------------------------
(* The function implements Archive. *)

\* What Promise substitutes for the variables of Archive.
Shown == IF ~Abandoned THEN [i \in 1..Closed(zb) |-> ReadBack(zb, i)] ELSE << >>

ToDo == IF ~Abandoned
        THEN [i \in 1..Len(listing) - Closed(zb) |-> Expected(listing[Closed(zb) + i])]
        ELSE << >>

Mode == CASE Abandoned -> "abandoned"
          [] ~Abandoned /\ result = "running" -> "open"
          [] ~Abandoned /\ result = "saved" -> "sealed"

\* The listing as it should read back, up to the k-th entry and from it on.
UpTo(k) == [i \in 1..k |-> Expected(listing[i])]
From(k) == [i \in 1..Len(listing) - k |-> Expected(listing[k + i])]

LEMMA PlainReads ==
  ASSUME disk \in Disk, NEW f \in Seq(Cell), NEW e \in Entry,
         NEW l \in SourceEntry \cup Entry, AsListed(e, l),
         ~Unended(l), ~Misdescribed(l), Stored(f, e, Expected(l).bytes)
  PROVE  Content(f, e.offset) = Expected(l).bytes
<1> DEFINE b == Expected(l).bytes
<1>1. b \in Seq(Byte) /\ (e.dir => b = << >>)
  BY ExpectedType DEF AsListed
<1>2. e.extra < FieldMod /\ WrittenName(e) < FieldMod
  <2>1. e.extra # FieldMod /\ e.extra <= FieldMod
    BY DEF Misdescribed, AsListed, Stored, LocalWritable
  <2> QED
    BY <2>1, ShortName, FieldModAssumption DEF Entry
<1>3. ~(HeaderMethod(e) = "DEFLATED" /\ b = << >>)
  BY SameLevel DEF Unended
<1>4. Stored(f, e, b)
  OBVIOUS
<1> HIDE DEF b
<1>5. Content(f, e.offset) = b
  BY <1>1, <1>2, <1>3, <1>4, StoredReads
<1> QED
  BY <1>5 DEF b

\* At the offset of a closed entry the library reads what was listed.
LEMMA ClosedReads ==
  ASSUME disk \in Disk, listing \in Seq(SourceEntry \cup Entry),
         NEW s, Good(s), Held(s), Closed(s) <= Len(listing),
         \A i \in 1..Closed(s) :
            /\ AsListed(s.entries[i], listing[i])
            /\ ~Unended(listing[i]) /\ ~Misdescribed(listing[i]),
         NEW i \in 1..Closed(s)
  PROVE  ReadBack(s, i) = Expected(listing[i])
<1> DEFINE e == s.entries[i]
<1> DEFINE l == listing[i]
<1>1. Closed(s) \in Nat /\ Closed(s) <= Len(s.entries) /\ Len(s.entries) \in Nat
      /\ Len(listing) \in Nat
  BY ClosedRange
<1>2. i \in 1..Len(s.entries) /\ i \in 1..Len(listing)
  BY <1>1
<1>3. e \in Entry /\ l \in SourceEntry \cup Entry /\ s.file \in Seq(Cell)
  BY <1>2, GoodParts, ElementOfSeq
<1>4. Stored(s.file, e, Expected(l).bytes)
  BY DEF Held, BytesOf
<1>5. /\ AsListed(e, l) /\ ~Unended(l) /\ ~Misdescribed(l)
  OBVIOUS
<1>6. ReadBack(s, i) = [name |-> s.file[e.offset + 1].h.name,
                        bytes |-> Content(s.file, e.offset)]
  BY DEF ReadBack
<1> HIDE DEF e, l
<1>7. s.file[e.offset + 1].h.name = l.name
  <2>1. s.file[e.offset + 1].h = HeaderOf(e, 0, 0)
    BY <1>4 DEF Stored
  <2> QED
    BY <1>5, <2>1 DEF HeaderOf, AsListed
<1>8. Content(s.file, e.offset) = Expected(l).bytes
  BY <1>3, <1>4, <1>5, PlainReads
<1>9. Expected(l) = [name |-> l.name, bytes |-> Expected(l).bytes]
  BY <1>3, ExpectedType
<1> QED
  BY <1>6, <1>7, <1>8, <1>9 DEF l

LEMMA ShownIs ==
  ASSUME ~Abandoned, \A i \in 1..Closed(zb) : ReadBack(zb, i) = Expected(listing[i])
  PROVE  Shown = UpTo(Closed(zb)) /\ ToDo = From(Closed(zb))
BY DEF Shown, ToDo, UpTo, From

LEMMA ShownBecomes ==
  ASSUME ~Abandoned', UNCHANGED << listing, disk >>, NEW k, Closed(zb') = k,
         \A i \in 1..k : ReadBack(zb', i) = Expected(listing[i])
  PROVE  Shown' = UpTo(k) /\ ToDo' = From(k)
<1>1. Closed(zb)' = k
  BY DEF Closed
<1>2. Shown' = UpTo(k)
  BY <1>1 DEF Shown, UpTo, ReadBack
<1>3. ToDo' = From(k)
  BY <1>1 DEF ToDo, From, Expected, Source, Archived
<1> QED
  BY <1>2, <1>3


LEMMA OrdinaryNext ==
  ASSUME UNCHANGED << listing, disk >>, ~Abandoned', NEW i \in 1..Len(zb'.entries)
  PROVE  ~Unended(listing[i]) /\ ~Misdescribed(listing[i])
<1>1. ~Unended(listing[i])' /\ ~Misdescribed(listing[i])'
  BY DEF Abandoned, Excepted
<1>2. ~Unended(listing[i])
  BY <1>1, ExpectedPrimed DEF Unended
<1> QED
  BY <1>1, <1>2 DEF Misdescribed

\* How far a step that gives nothing up takes the archive.
Advances ==
  \/ result = "running" /\ result' = "running" /\ Closed(zb') \in {Closed(zb), Closed(zb) + 1}
  \/ /\ result = "running" /\ result' = "saved" /\ zb'.entries = zb.entries
     /\ Closed(zb') = Closed(zb) /\ Closed(zb) = Len(listing)
  \/ result' = result /\ zb' = zb

LEMMA PutAdvances ==
  ASSUME IInv, IInv', Structure, Contents, pc = "put", next <= Len(listing),
         zb' = PutNextEntry(zb, AsCentral(listing[next])), zb'.thrown = "none",
         result' = result, UNCHANGED << listing, disk, recovered >>, ~Abandoned'
  PROVE  ~Abandoned /\ Advances
<1>1. PICK n \in Nat : n = next
  BY DEF IInv, TypeOK
<1>2. /\ zb'.openEntry /\ Len(zb'.entries) = n /\ n \in 1..Len(listing)
      /\ result = "running" /\ ~Abandoned
  BY <1>1, PutContents
<1>3. Len(zb.entries) = n - 1
  BY <1>1, <1>2 DEF Structure
<1>4. Good(zb) /\ Good(zb')
  BY DEF IInv, Good
<1>5. Closed(zb') = n - 1 /\ Closed(zb) \in {n - 1, (n - 1) - 1}
  BY <1>2, <1>3, <1>4, ClosedRange
<1>6. Closed(zb') \in {Closed(zb), Closed(zb) + 1}
  BY <1>1, <1>5
<1> QED
  BY <1>2, <1>6 DEF Advances

LEMMA SameEntriesAdvance ==
  ASSUME IInv, zb'.entries = zb.entries, zb'.openEntry <=> zb.openEntry,
         result = "running", result' = "running",
         UNCHANGED << listing, disk, recovered >>, ~Abandoned'
  PROVE  ~Abandoned /\ Advances
<1>1. ~Abandoned
  BY EntriesKeepAbandoned
<1>2. Closed(zb') = Closed(zb)
  BY DEF Closed
<1> QED
  BY <1>1, <1>2 DEF Advances

LEMMA CentralAdvances ==
  ASSUME IInv, IInv', Structure, Central, ~Abandoned'
  PROVE  ~Abandoned /\ Advances
<1> DEFINE t == CentralStep(zb)
<1>1. /\ pc = "central" /\ zb' = t
      /\ result' = IF t.thrown # "none" THEN "failed"
                   ELSE IF t.phase = "sealed" THEN "saved" ELSE result
      /\ UNCHANGED << listing, disk, recovered >>
  BY DEF Central
<1>2. /\ Good(zb) /\ zb.thrown = "none" /\ zb.phase = "central" /\ ~zb.openEntry
      /\ result = "running" /\ Len(zb.entries) = next - 1
      /\ next = Len(listing) + 1 /\ listing \in Seq(SourceEntry \cup Entry)
  BY <1>1 DEF IInv, Control, InDirectory, Structure, TypeOK
<1>3. t.entries = zb.entries /\ ~t.openEntry
  BY <1>2, CentralStepStructure
<1> HIDE DEF t
<1>4. ~Abandoned
  BY <1>1, <1>2, <1>3, EntriesKeepAbandoned
<1>5. result' \in {"running", "saved"}
  BY DEF Abandoned
<1>6. Closed(zb') = Closed(zb) /\ Closed(zb) = Len(listing)
  <2>1. Len(listing) \in Nat
    BY <1>2
  <2> QED
    BY <1>1, <1>2, <1>3, <2>1 DEF Closed
<1> QED
  BY <1>1, <1>2, <1>3, <1>4, <1>5, <1>6 DEF Advances

LEMMA NextAdvances ==
  ASSUME IInv, IInv', Structure, Contents, [Next]_vars, ~Abandoned'
  PROVE  ~Abandoned /\ Advances /\ UNCHANGED << listing, disk >>
<1>0. /\ Good(zb) /\ Good(zb') /\ result' \in {"running", "saved"} /\ ~recovered'
      /\ UNCHANGED << listing, disk >>
  BY DEF IInv, Good, Abandoned, Next, Step, PutBare, PutFile, CopyByte, LeaveLoop,
         Finish, Central, Unwind, UnwindCentral, Destroy, Recover, Done, vars
<1>1. CASE PutBare
  <2>1. zb'.thrown = "none"
    BY <1>0, <1>1 DEF PutBare, Call
  <2> QED
    BY <1>0, <1>1, <2>1, PutAdvances DEF PutBare, Call
<1>2. CASE PutFile
  <2>1. /\ pc = "put" /\ next <= Len(listing)
        /\ zb' = PutNextEntry(zb, AsCentral(listing[next]))
        /\ zb'.thrown = "none" /\ result' = result
        /\ UNCHANGED << listing, disk, recovered >>
    BY <1>0, <1>2 DEF PutFile
  <2> QED
    BY <1>0, <2>1, PutAdvances
<1>3. CASE CopyByte
  <2> DEFINE t == Sputc(zb, Head(input))
  <2>1. /\ pc = "copy" /\ zb' = [t EXCEPT !.thrown = "none"]
        /\ UNCHANGED << listing, disk, result, recovered >>
    BY <1>3 DEF CopyByte
  <2>2. /\ input # << >> /\ input \in Seq(Byte) /\ result = "running"
        /\ zb \in Streambuf /\ zb.pos <= Len(zb.file)
    BY <2>1 DEF IInv, Control, Running, Copying, TypeOK, Good
  <2>3. Forward(zb, t)
    BY <2>2, HeadTailBytes, SputcForward
  <2> HIDE DEF t
  <2>4. zb'.entries = zb.entries /\ (zb'.openEntry <=> zb.openEntry)
    BY <2>1, <2>3 DEF Forward, Streambuf
  <2> QED
    BY <1>0, <2>1, <2>2, <2>4, SameEntriesAdvance
<1>4. CASE LeaveLoop
  <2>1. /\ ~Abandoned /\ zb'.thrown = "none" /\ result = "running"
        /\ Len(zb'.entries) = Len(zb.entries) /\ ~zb'.openEntry
    BY <1>4, LeaveLoopStays
  <2>2. result' = "running"
    BY <1>4, <2>1 DEF LeaveLoop, Call
  <2>3. /\ Len(zb.entries) \in Nat /\ Closed(zb') = Len(zb.entries)
        /\ Closed(zb) \in {Len(zb.entries), Len(zb.entries) - 1}
    BY <1>0, <2>1, ClosedRange
  <2>4. Closed(zb') \in {Closed(zb), Closed(zb) + 1}
    BY <2>3
  <2> QED
    BY <1>0, <2>1, <2>2, <2>4 DEF Advances
<1>5. CASE Finish
  <2>1. /\ pc = "finish" /\ zb' = BeginFinish(zb)
        /\ result' = IF zb'.thrown = "none" THEN result ELSE "failed"
        /\ UNCHANGED << listing, disk, recovered >>
    BY <1>5 DEF Finish, Call
  <2>2. /\ zb.thrown = "none" /\ zb.open /\ result = "running" /\ ~zb.openEntry
    BY <2>1 DEF IInv, Control, Running, Structure
  <2>3. ~zb'.openEntry /\ zb'.entries = zb.entries
    BY <1>0, <2>1, <2>2, FinishStructure
  <2>4. result' = "running"
    BY <1>0, <2>1, <2>2
  <2> QED
    BY <1>0, <2>1, <2>2, <2>3, <2>4, SameEntriesAdvance
<1>6. CASE Central
  BY <1>0, <1>6, CentralAdvances
<1>7. CASE Unwind
  BY <1>0, <1>7 DEF Unwind, IInv, Control, Unwinding
<1>8. CASE UnwindCentral
  BY <1>0, <1>8 DEF UnwindCentral, IInv, Control, UnwindingDirectory
<1>9. CASE Destroy
  <2>1. /\ pc = "destroy" /\ zb' = DestroyStream(zb)
        /\ result' = IF zb'.thrown = "none" THEN result ELSE "terminated"
        /\ UNCHANGED << listing, disk, recovered >>
    BY <1>9 DEF Destroy
  <2>2. result = "saved" /\ result' = "saved"
    BY <1>0, <2>1 DEF IInv, Control, Destroying
  <2>3. ~zb.zsInit
    BY <2>2 DEF IInv, Control, Saved
  <2>4. zb' = zb
    BY <2>1, <2>3 DEF DestroyStream
  <2>5. ~Abandoned
    BY <2>1, <2>2, <2>4, EntriesKeepAbandoned
  <2> QED
    BY <1>0, <2>2, <2>4, <2>5 DEF Advances
<1>10. CASE Recover
  BY <1>0, <1>10 DEF Recover
<1>11. CASE UNCHANGED vars
  <2>1. zb' = zb /\ UNCHANGED << listing, disk, result, recovered >>
    BY <1>11 DEF vars
  <2>2. ~Abandoned
    BY <1>0, <2>1, EntriesKeepAbandoned
  <2> QED
    BY <1>0, <2>1, <2>2 DEF Advances
<1> QED
  BY <1>1, <1>2, <1>3, <1>4, <1>5, <1>6, <1>7, <1>8, <1>9, <1>10, <1>11
     DEF Next, Step, Done


LEMMA HeldUnprimed ==
  ASSUME UNCHANGED << listing, disk >>, Held(zb)'
  PROVE  Held(zb')
<1>1. \A i : BytesOf(i)' = BytesOf(i)
  BY ExpectedPrimed
<1> QED
  BY <1>1 DEF Held, Closed, Stored, EndOf, EndCells, DataAt, Committed, LastEntry

LEMMA ShownNow ==
  ASSUME IInv, Structure, Contents, ~Abandoned, result = "running"
  PROVE  /\ Shown = UpTo(Closed(zb)) /\ ToDo = From(Closed(zb))
         /\ Closed(zb) \in Nat /\ Closed(zb) <= Len(listing)
<1>1. /\ disk \in Disk /\ listing \in Seq(SourceEntry \cup Entry)
      /\ Good(zb) /\ Laid(zb) /\ Held(zb)
  BY DEF IInv, TypeOK, Structure, Contents
<1>2. /\ Closed(zb) \in Nat /\ Closed(zb) <= Len(zb.entries)
      /\ Len(zb.entries) \in Nat /\ Len(zb.entries) <= Len(listing)
      /\ Len(listing) \in Nat
  BY <1>1, ClosedRange DEF Laid
<1>3. Closed(zb) <= Len(listing)
  BY <1>2
<1>4. ASSUME NEW i \in 1..Closed(zb)
      PROVE  /\ AsListed(zb.entries[i], listing[i])
             /\ ~Unended(listing[i]) /\ ~Misdescribed(listing[i])
  <2>1. i \in 1..Len(zb.entries)
    BY <1>2
  <2> QED
    BY <1>1, <2>1, NotAbandoned DEF Laid, Ordinary
<1>5. \A i \in 1..Closed(zb) : ReadBack(zb, i) = Expected(listing[i])
  BY <1>1, <1>3, <1>4, ClosedReads
<1> QED
  BY <1>2, <1>3, <1>5, ShownIs

LEMMA ShownNext ==
  ASSUME IInv', Contents', ~Abandoned', UNCHANGED << listing, disk >>,
         NEW k, Closed(zb') = k, Len(zb'.entries) <= Len(listing),
         \A i \in 1..Len(zb'.entries) : AsListed(zb'.entries[i], listing[i])
  PROVE  Shown' = UpTo(k) /\ ToDo' = From(k) /\ k \in Nat /\ k <= Len(listing)
<1>1. /\ disk \in Disk /\ listing \in Seq(SourceEntry \cup Entry)
      /\ Good(zb') /\ Held(zb')
  BY HeldUnprimed DEF IInv, TypeOK, Good, Contents, Disk
<1>2. /\ k \in Nat /\ k <= Len(zb'.entries)
      /\ Len(zb'.entries) \in Nat /\ Len(listing) \in Nat
  BY <1>1, ClosedRange
<1>3. k <= Len(listing)
  BY <1>2
<1>4. ASSUME NEW i \in 1..k
      PROVE  /\ AsListed(zb'.entries[i], listing[i])
             /\ ~Unended(listing[i]) /\ ~Misdescribed(listing[i])
  <2>1. i \in 1..Len(zb'.entries)
    BY <1>2
  <2> QED
    BY <2>1, OrdinaryNext
<1>5. \A i \in 1..k : ReadBack(zb', i) = Expected(listing[i])
  BY <1>1, <1>3, <1>4, ClosedReads
<1> QED
  BY <1>2, <1>3, <1>5, ShownBecomes

\* One more entry is the first of those that are left.
LEMMA OneMore ==
  ASSUME NEW k \in Nat, k + 1 <= Len(listing), listing \in Seq(SourceEntry \cup Entry)
  PROVE  /\ From(k) # << >>
         /\ UpTo(k + 1) = Append(UpTo(k), Head(From(k)))
         /\ From(k + 1) = Tail(From(k))
<1> DEFINE n == Len(listing)
<1> DEFINE x(i) == Expected(listing[i])
<1>1. n \in Nat /\ n - k \in Nat /\ n - k >= 1 /\ n - (k + 1) = (n - k) - 1
  OBVIOUS
<1> HIDE DEF n, x
<1>2. From(k) = [i \in 1..n - k |-> x(k + i)] /\ UpTo(k) = [i \in 1..k |-> x(i)]
  BY DEF From, UpTo, n, x
<1>3. /\ From(k + 1) = [i \in 1..n - (k + 1) |-> x((k + 1) + i)]
      /\ UpTo(k + 1) = [i \in 1..k + 1 |-> x(i)]
  BY DEF From, UpTo, n, x
<1>4. Len(From(k)) = n - k /\ Len(UpTo(k)) = k
  BY <1>1, <1>2
<1>5. From(k) # << >>
  BY <1>1, <1>4
<1>6. Head(From(k)) = x(k + 1)
  <2>1. 1 \in 1..n - k
    BY <1>1
  <2>2. From(k)[1] = x(k + 1)
    BY <1>2, <2>1
  <2> QED
    BY <2>2
<1>7. UpTo(k + 1) = Append(UpTo(k), x(k + 1))
  <2>1. Append(UpTo(k), x(k + 1))
            = [i \in 1..k + 1 |-> IF i = k + 1 THEN x(k + 1) ELSE UpTo(k)[i]]
    BY <1>4
  <2>2. \A i \in 1..k + 1 :
            x(i) = IF i = k + 1 THEN x(k + 1) ELSE UpTo(k)[i]
    BY <1>2
  <2> QED
    BY <1>3, <2>1, <2>2
<1>8. From(k + 1) = Tail(From(k))
  <2> DEFINE S == {x(i) : i \in 1..n}
  <2> DEFINE r == From(k)
  <2> DEFINE w == From(k + 1)
  <2>1. r \in Seq(S) /\ w \in Seq(S) /\ Len(w) = (n - k) - 1
    <3>1. \A i \in 1..n - k : k + i \in 1..n
      BY <1>1
    <3>2. \A i \in 1..(n - k) - 1 : (k + 1) + i \in 1..n
      BY <1>1
    <3>3. (n - k) - 1 \in Nat
      BY <1>1
    <3> DEFINE m == n - k
    <3> DEFINE p == (n - k) - 1
    <3>4. /\ \A i \in 1..m : x(k + i) \in S
          /\ \A i \in 1..p : x((k + 1) + i) \in S
      BY <3>1, <3>2
    <3>5. /\ m \in Nat /\ r = [i \in 1..m |-> x(k + i)]
          /\ p \in Nat /\ w = [i \in 1..p |-> x((k + 1) + i)]
      BY <1>1, <1>2, <1>3, <3>3
    <3> HIDE DEF S, m, p, r, w
    <3>6. r \in [1..m -> S] /\ w \in [1..p -> S]
      BY <3>4, <3>5
    <3>7. r \in Seq(S) /\ w \in Seq(S)
      <4>1. \A l \in Nat : [1..l -> S] \subseteq Seq(S)
        OBVIOUS
      <4> QED
        BY <3>5, <3>6, <4>1
    <3>8. Len(w) = p
      BY <3>5
    <3> QED
      BY <3>7, <3>8 DEF p
  <2>2. ASSUME NEW i \in 1..(n - k) - 1
        PROVE  r[i + 1] = w[i]
    <3>1. i + 1 \in 1..n - k /\ k + (i + 1) = (k + 1) + i
      BY <1>1
    <3> QED
      BY <1>1, <1>2, <1>3, <3>1
  <2> HIDE DEF S, r, w
  <2>3. /\ Tail(r) \in Seq(S) /\ Len(Tail(r)) = Len(r) - 1
        /\ \A i \in 1..Len(Tail(r)) : Tail(r)[i] = r[i + 1]
    BY <1>5, <2>1, HeadTailProperties DEF r
  <2>4. Len(Tail(r)) = Len(w)
    BY <1>4, <2>1, <2>3 DEF r
  <2>5. \A i \in 1..Len(w) : w[i] = Tail(r)[i]
    BY <2>1, <2>2, <2>3, <2>4
  <2>6. w = Tail(r)
    BY <2>1, <2>3, <2>4, <2>5, SeqEqual
  <2> QED
    BY <2>6 DEF r, w
<1> QED
  BY <1>5, <1>6, <1>7, <1>8


LEMMA InitPromise == Init => Promise!Init
<1> SUFFICES ASSUME Init
             PROVE  Promise!Init
  OBVIOUS
<1>1. PICK s \in Saves :
        /\ listing = s.listing
        /\ disk = s.disk
        /\ zb = NewStreambuf(s.comment, s.fuse, s.short)
  BY DEF Init
<1>2. /\ zb.entries = << >> /\ ~zb.openEntry
      /\ listing \in Seq(SourceEntry \cup Entry) /\ disk \in Disk
      /\ Len(listing) \in Nat
  BY <1>1, SavesAssumption DEF NewStreambuf
<1>3. Len(zb.entries) = 0 /\ Closed(zb) = 0
  BY <1>2 DEF Closed
<1>4. ~Abandoned /\ result = "running"
  BY <1>3 DEF Init, Abandoned, Excepted
<1>5. Mode = "open"
  BY <1>4 DEF Mode
<1>6. Shown = << >>
  BY <1>3, <1>4 DEF Shown
<1>7. ToDo \in Seq(Promise!Item)
  <2> DEFINE n == Len(listing)
  <2>1. n - 0 = n /\ \A i \in 1..n : 0 + i = i
    BY <1>2
  <2>2. \A i \in 1..n : Expected(listing[i]) \in Promise!Item
    <3>1. ASSUME NEW i \in 1..n
          PROVE  Expected(listing[i]) \in Promise!Item
      <4>1. listing[i] \in SourceEntry \cup Entry
        BY <1>2, ElementOfSeq
      <4>2. /\ Expected(listing[i]).bytes \in Seq(Byte) /\ listing[i].name \in Name
            /\ Expected(listing[i])
                = [name |-> listing[i].name, bytes |-> Expected(listing[i]).bytes]
        BY <1>2, <4>1, ExpectedType
      <4> QED
        BY <4>2 DEF Promise!Item
    <3> QED
      BY <3>1
  <2>3. ToDo = [i \in 1..n |-> Expected(listing[i])]
    BY <1>3, <1>4, <2>1 DEF ToDo
  <2>4. ToDo \in [1..n -> Promise!Item]
    BY <2>2, <2>3
  <2> DEFINE S == Promise!Item
  <2> HIDE DEF n, S
  <2>5. \A l \in Nat : [1..l -> S] \subseteq Seq(S)
    OBVIOUS
  <2>6. n \in Nat
    BY <1>2 DEF n
  <2>7. ToDo \in Seq(S)
    BY <2>4, <2>5, <2>6 DEF S
  <2> QED
    BY <2>7 DEF S
<1> QED
  BY <1>5, <1>6, <1>7 DEF Promise!Init, Shown, ToDo, Mode

\* Nothing that happens to a save that is over undoes it.
LEMMA SavedIsFinal ==
  ASSUME IInv, [Next]_vars, ~Abandoned, Abandoned'
  PROVE  result = "running"
<1>1. SUFFICES ASSUME result = "saved"
               PROVE  FALSE
  BY NotAbandoned
<1>2. /\ pc \in {"destroy", "done"} /\ ~zb.zsInit /\ ~zb.refused /\ ~recovered
  BY <1>1, NotAbandoned DEF IInv, Control, Saved
<1>3. /\ zb' = zb /\ result' = result
      /\ UNCHANGED << listing, disk, recovered >>
  <2>1. CASE Destroy
    BY <1>1, <1>2, <2>1 DEF Destroy, DestroyStream, IInv, Control, Destroying
  <2>2. CASE Done \/ UNCHANGED vars
    BY <2>2 DEF Done, vars
  <2>3. ~Recover
    BY <1>2 DEF Recover
  <2>4. ~(PutBare \/ PutFile \/ CopyByte \/ LeaveLoop \/ Finish \/ Central
            \/ Unwind \/ UnwindCentral)
    BY <1>2 DEF PutBare, PutFile, CopyByte, LeaveLoop, Finish, Central, Unwind,
                UnwindCentral
  <2> QED
    BY <2>1, <2>2, <2>3, <2>4 DEF Next, Step
<1>4. Abandoned' <=> Abandoned
  BY <1>3, ZenonT(40) DEF Abandoned, Excepted, Moved, Oversized, Emptied, Unended, Misdescribed,
              Expected, Source, Archived
<1> QED
  BY <1>4

\* Every step adds the next entry, seals, gives up, or changes nothing that is
\* promised.
LEMMA StepPromise ==
  ASSUME IInv, IInv', Structure, Structure', Contents, Contents', [Next]_vars
  PROVE  [Promise!Next]_(Promise!archiveVars)
<1> DEFINE Same == Shown' = Shown /\ ToDo' = ToDo /\ Mode' = Mode
<1> DEFINE Added == /\ Mode = "open" /\ Mode' = "open" /\ ToDo # << >>
                    /\ Shown' = Append(Shown, Head(ToDo)) /\ ToDo' = Tail(ToDo)
<1> DEFINE SealedNow == /\ Mode = "open" /\ Mode' = "sealed" /\ ToDo = << >>
                        /\ Shown' = Shown /\ ToDo' = ToDo
<1> DEFINE GivenUp == /\ Mode = "open" /\ Mode' = "abandoned"
                      /\ Shown' = << >> /\ ToDo' = << >>
<1> SUFFICES Same \/ Added \/ SealedNow \/ GivenUp
  <2>1. Same => UNCHANGED Promise!archiveVars
    BY DEF Promise!archiveVars, Shown, ToDo, Mode
  <2>2. Added => Promise!Add
    BY DEF Promise!Add, Shown, ToDo, Mode
  <2>3. SealedNow => Promise!Seal
    BY DEF Promise!Seal, Shown, ToDo, Mode
  <2>4. GivenUp => Promise!Abandon
    BY DEF Promise!Abandon, Shown, ToDo, Mode
  <2> QED
    BY <2>1, <2>2, <2>3, <2>4 DEF Promise!Next
<1>1. ASSUME ~Abandoned'
      PROVE  Same \/ Added \/ SealedNow
  <2>1. ~Abandoned /\ Advances /\ UNCHANGED << listing, disk >>
    BY <1>1, NextAdvances
  <2>2. CASE result = "running" /\ result' = "running"
             /\ Closed(zb') \in {Closed(zb), Closed(zb) + 1}
    <3> DEFINE k == Closed(zb)
    <3>1. /\ Shown = UpTo(k) /\ ToDo = From(k) /\ k \in Nat /\ k <= Len(listing)
      BY <2>1, <2>2, ShownNow
    <3>2. /\ Len(zb'.entries) <= Len(listing)
          /\ \A i \in 1..Len(zb'.entries) : AsListed(zb'.entries[i], listing[i])
      BY <2>1, <2>2 DEF Structure, Laid
    <3>3. /\ Shown' = UpTo(Closed(zb')) /\ ToDo' = From(Closed(zb'))
          /\ Closed(zb') <= Len(listing)
      BY <1>1, <2>1, <3>2, ShownNext
    <3>4. Mode = "open" /\ Mode' = "open"
      BY <1>1, <2>1, <2>2 DEF Mode
    <3> HIDE DEF k
    <3>5. CASE Closed(zb') = k
      BY <3>1, <3>3, <3>4, <3>5
    <3>6. CASE Closed(zb') = k + 1
      <4>1. listing \in Seq(SourceEntry \cup Entry)
        BY DEF IInv, TypeOK
      <4>2. /\ From(k) # << >> /\ UpTo(k + 1) = Append(UpTo(k), Head(From(k)))
            /\ From(k + 1) = Tail(From(k))
        BY <3>1, <3>3, <3>6, <4>1, OneMore
      <4> QED
        BY <3>1, <3>3, <3>4, <3>6, <4>2
    <3> QED
      BY <2>2, <3>5, <3>6 DEF k
  <2>3. CASE /\ result = "running" /\ result' = "saved" /\ zb'.entries = zb.entries
             /\ Closed(zb') = Closed(zb) /\ Closed(zb) = Len(listing)
    <3>1. /\ Shown = UpTo(Closed(zb)) /\ ToDo = From(Closed(zb))
      BY <2>1, <2>3, ShownNow
    <3>2. /\ Len(zb'.entries) <= Len(listing)
          /\ \A i \in 1..Len(zb'.entries) : AsListed(zb'.entries[i], listing[i])
      BY <2>1, <2>3 DEF Structure, Laid
    <3>3. /\ Shown' = UpTo(Closed(zb)) /\ ToDo' = From(Closed(zb))
      BY <1>1, <2>1, <2>3, <3>2, ShownNext
    <3>4. Mode = "open" /\ Mode' = "sealed"
      BY <1>1, <2>1, <2>3 DEF Mode
    <3>5. From(Closed(zb)) = << >>
      <4>1. Len(listing) \in Nat
        BY DEF IInv, TypeOK
      <4>2. Len(listing) - Closed(zb) = 0
        BY <2>3, <4>1
      <4> QED
        BY <4>2 DEF From
    <3> QED
      BY <3>1, <3>3, <3>4, <3>5
  <2>4. CASE result' = result /\ zb' = zb
    <3>1. Closed(zb)' = Closed(zb)
      BY <2>4 DEF Closed
    <3>2. Shown' = Shown
      BY <1>1, <2>1, <2>4, <3>1 DEF Shown, ReadBack
    <3>3. ToDo' = ToDo
      BY <1>1, <2>1, <2>4, <3>1 DEF ToDo, Expected, Source, Archived
    <3>4. Mode' = Mode
      <4>1. CASE result = "running"
        BY <1>1, <2>1, <2>4, <4>1 DEF Mode
      <4>2. CASE result = "saved"
        BY <1>1, <2>1, <2>4, <4>2 DEF Mode
      <4> QED
        BY <2>1, <4>1, <4>2 DEF Abandoned
    <3>5. Same
      BY <3>2, <3>3, <3>4
    <3> HIDE DEF Same, Added, SealedNow, GivenUp
    <3> QED
      BY <3>5
  <2> QED
    BY <2>1, <2>2, <2>3, <2>4 DEF Advances
<1>2. ASSUME Abandoned', Abandoned
      PROVE  Same
  BY <1>2 DEF Shown, ToDo, Mode
<1>3. ASSUME Abandoned', ~Abandoned
      PROVE  GivenUp
  <2>1. result = "running"
    BY <1>3, SavedIsFinal
  <2> QED
    BY <1>3, <2>1 DEF Shown, ToDo, Mode
<1> QED
  BY <1>1, <1>2, <1>3

\* The function implements Archive: each entry it closes is one more that reads
\* back as it was listed, none of them is lost or altered by what follows, and
\* the archive is sealed only when nothing is left to add.
THEOREM SaveImplementsArchive == Spec => ImplementsArchive
<1>1. ( IInv /\ Structure /\ Contents /\ (IInv /\ Structure /\ Contents)'
        /\ [Next]_vars )
        => [Promise!Next]_(Promise!archiveVars)
  BY StepPromise
<1>2. Spec => [](IInv /\ Structure /\ Contents)
  BY Invariance, StructureInvariance, ContentsInvariance, PTL
<1> QED
  BY InitPromise, <1>1, <1>2, PTL DEF Spec, ImplementsArchive, Promise!Spec
=============================================================================
