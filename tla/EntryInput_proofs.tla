-------------------------- MODULE EntryInput_proofs ---------------------------
(***************************************************************************)
(* What holds of the stream of an entry for every file, every size of the  *)
(* two buffers and however often the reader clears the stream.             *)
(***************************************************************************)
EXTENDS EntryInput, SequenceTheorems, WellFoundedInduction, TLAPS

-----------------------------------------------------------------------------
(* The inductive invariant. *)

Out == Byte \cup {Garbage}

IsOpen == pc \in {"idle", "inflate"}

\* How far of the file the bytes delivered so far, and those in out, come from.
Used == inPos - Len(zin)

\* Before there is a streambuf, and when its constructor threw.
Unopened ==
    ~IsOpen => /\ zin = << >> /\ out = << >> /\ getArea = << >> /\ got = << >>
               /\ status = "good" /\ zmode = "more"

\* The header was read at the offset, and what was used begins behind it.
HeaderRead ==
    IsOpen =>
        /\ ReadableHeader(reading.file, reading.offset, "local")
        /\ h = reading.file[reading.offset + 1].h
        /\ reading.foreign = "nothing"
        /\ DataAt <= Used

StoredDirect ==
    IsOpen /\ h.method = "STORED" =>
        pc = "idle" /\ zin = << >> /\ zmode = "more"

\* m_invec holds what follows in the file.
InputIsWindow == IsOpen => zin = SubSeq(reading.file, Used + 1, inPos)

\* What was used are deflated bytes, with the end marker after them once
\* inflate() has seen it.
OnlyDeflatedUsed ==
    IsOpen /\ h.method = "DEFLATED" =>
        /\ \A i \in DataAt + 1..(IF zmode = "end" THEN Used - 1 ELSE Used) :
                reading.file[i].k = "zdata"
        /\ zmode = "end" => DataAt < Used /\ reading.file[Used].k = "zend"

\* The get area is only refilled once it is empty.
OneBufferInUse ==
    /\ pc = "idle" => out = << >>
    /\ pc = "inflate" => getArea = << >> /\ status = "good"

EndIsSeen ==
    /\ pc = "inflate" /\ err = "Z_STREAM_END" => zmode = "end"
    /\ status = "eof" => /\ pc = "idle" /\ getArea = << >>
                         /\ h.method = "DEFLATED" => zmode = "end"

\* How many of the bytes that were used are bytes of the entry.
Delivered == (IF zmode = "end" THEN Used - 1 ELSE Used) - DataAt

\* The bytes the reader got and those in the buffers, in terms of the file.
InOrder ==
    IsOpen =>
        /\ h.method = "STORED" =>
            /\ Pending = [i \in 1..Delivered |-> RawByte(reading.file[DataAt + i])]
            /\ Delivered + remain = h.size
        /\ h.method = "DEFLATED" =>
            Pending = [i \in 1..Delivered |-> reading.file[DataAt + i].b]

IInv ==
    /\ reading \in Readings
    /\ TypeOK
    /\ Unopened
    /\ HeaderRead
    /\ StoredDirect
    /\ InputIsWindow
    /\ OnlyDeflatedUsed
    /\ OneBufferInUse
    /\ EndIsSeen
    /\ InOrder

-----------------------------------------------------------------------------
(* Sequences. *)

\* A part of a sequence of cells.
LEMMA Part ==
  ASSUME NEW S, NEW f \in Seq(S), NEW a \in Nat, NEW b \in Nat, a <= b, b <= Len(f)
  PROVE  /\ SubSeq(f, a + 1, b) \in Seq(S)
         /\ Len(SubSeq(f, a + 1, b)) = b - a
         /\ \A i \in 1..b - a : SubSeq(f, a + 1, b)[i] = f[a + i]
<1>1. \A i \in a + 1..b : f[i] \in S
  BY ElementOfSeq
<1>2. /\ SubSeq(f, a + 1, b) \in Seq(S)
      /\ Len(SubSeq(f, a + 1, b)) = IF a + 1 <= b THEN b - (a + 1) + 1 ELSE 0
      /\ \A i \in 1..b - (a + 1) + 1 : SubSeq(f, a + 1, b)[i] = f[a + 1 + i - 1]
  BY <1>1, SubSeqProperties
<1> QED
  BY <1>2

LEMMA NoPart ==
  ASSUME NEW f, NEW p \in Nat
  PROVE  SubSeq(f, p + 1, p) = << >>
<1>1. p + 1 \in Int /\ p \in Int /\ p < p + 1
  OBVIOUS
<1> QED
  BY <1>1, SubSeqEmpty

\* What is left of a part once its first cells were used.
LEMMA RestOfPart ==
  ASSUME NEW S, NEW f \in Seq(S), NEW a \in Nat, NEW b \in Nat, a <= b, b <= Len(f),
         NEW u \in 0..b - a
  PROVE  SubSeq(SubSeq(f, a + 1, b), u + 1, b - a) = SubSeq(f, a + u + 1, b)
<1> DEFINE part == SubSeq(f, a + 1, b)
<1> DEFINE l == SubSeq(part, u + 1, b - a)
<1> DEFINE r == SubSeq(f, a + u + 1, b)
<1>1. /\ part \in Seq(S) /\ Len(part) = b - a
      /\ \A i \in 1..b - a : part[i] = f[a + i]
  BY Part
<1>2. /\ u \in Nat /\ b - a \in Nat /\ u <= b - a
      /\ a + u \in Nat /\ a + u <= b
  OBVIOUS
<1> HIDE DEF part
<1>3. /\ l \in Seq(S) /\ Len(l) = b - a - u
      /\ \A i \in 1..b - a - u : l[i] = part[u + i]
  BY <1>1, <1>2, Part
<1>4. /\ r \in Seq(S) /\ Len(r) = b - (a + u)
      /\ \A i \in 1..b - (a + u) : r[i] = f[a + u + i]
  BY <1>2, Part
<1> HIDE DEF l, r
<1>5. Len(l) = Len(r)
  BY <1>2, <1>3, <1>4
<1>6. ASSUME NEW i \in 1..Len(l)
      PROVE  l[i] = r[i]
  <2>1. i \in 1..b - a - u /\ i \in 1..b - (a + u) /\ u + i \in 1..b - a
    BY <1>2, <1>3
  <2>2. part[u + i] = f[a + (u + i)] /\ a + (u + i) = a + u + i
    BY <1>1, <1>2, <2>1
  <2> QED
    BY <1>3, <1>4, <2>1, <2>2
<1>7. l = r
  BY <1>3, <1>4, <1>5, <1>6, SeqEqual
<1> QED
  BY <1>7 DEF l, r, part

\* The first byte of the get area goes to the reader.
LEMMA TakeKeeps ==
  ASSUME NEW S, NEW s \in Seq(S), NEW t \in Seq(S), t # << >>
  PROVE  /\ Append(s, Head(t)) \o Tail(t) = s \o t
         /\ Append(s, Head(t)) \in Seq(S) /\ Tail(t) \in Seq(S)
         /\ Len(Tail(t)) = Len(t) - 1 /\ Head(t) = t[1] /\ Head(t) \in S
         /\ Len(t) \in Nat \ {0}
<1> DEFINE l == Append(s, Head(t))
<1> DEFINE r == Tail(t)
<1>1. /\ Head(t) \in S /\ r \in Seq(S) /\ Len(r) = Len(t) - 1
      /\ \A i \in 1..Len(r) : r[i] = t[i + 1]
  BY HeadTailProperties
<1>2. Head(t) = t[1] /\ Len(t) \in Nat \ {0} /\ Len(s) \in Nat
  BY EmptySeq
<1>3. /\ l \in Seq(S) /\ Len(l) = Len(s) + 1
      /\ \A i \in 1..Len(s) : l[i] = s[i]
      /\ l[Len(s) + 1] = t[1]
  BY <1>1, <1>2, AppendProperties
<1> HIDE DEF l, r
<1>4. /\ l \o r \in Seq(S) /\ Len(l \o r) = Len(l) + Len(r)
      /\ \A i \in 1..Len(l) + Len(r) :
            (l \o r)[i] = IF i <= Len(l) THEN l[i] ELSE r[i - Len(l)]
  BY <1>1, <1>3, ConcatProperties
<1>5. /\ s \o t \in Seq(S) /\ Len(s \o t) = Len(s) + Len(t)
      /\ \A i \in 1..Len(s) + Len(t) :
            (s \o t)[i] = IF i <= Len(s) THEN s[i] ELSE t[i - Len(s)]
  BY ConcatProperties
<1>6. Len(l \o r) = Len(s \o t) /\ Len(l) + Len(r) = Len(s) + Len(t)
  BY <1>1, <1>2, <1>3, <1>4, <1>5
<1>7. ASSUME NEW i \in 1..Len(l \o r)
      PROVE  (l \o r)[i] = (s \o t)[i]
  <2>1. i \in 1..Len(l) + Len(r) /\ i \in 1..Len(s) + Len(t)
    BY <1>4, <1>6
  <2>2. CASE i <= Len(s)
    BY <1>2, <1>3, <1>4, <1>5, <2>1, <2>2
  <2>3. CASE i = Len(s) + 1
    BY <1>2, <1>3, <1>4, <1>5, <2>1, <2>3
  <2>4. CASE i > Len(s) + 1
    <3>1. i - Len(l) \in 1..Len(r) /\ i - Len(l) + 1 = i - Len(s)
      BY <1>2, <1>3, <1>1, <2>1, <2>4
    <3>2. r[i - Len(l)] = t[i - Len(s)]
      BY <1>1, <3>1
    <3> QED
      BY <1>2, <1>3, <1>4, <1>5, <2>1, <2>4, <3>2
  <2> QED
    BY <1>2, <2>1, <2>2, <2>3, <2>4
<1>8. l \o r = s \o t
  BY <1>4, <1>5, <1>6, <1>7, SeqEqual
<1> QED
  BY <1>1, <1>2, <1>3, <1>8 DEF l, r

\* More bytes come behind those there are.
LEMMA Longer ==
  ASSUME NEW S, NEW m \in Nat, NEW n \in Nat, NEW b,
         NEW p, p = [i \in 1..m |-> b[i]],
         NEW q, q = [i \in 1..n |-> b[m + i]],
         \A i \in 1..m + n : b[i] \in S
  PROVE  /\ p \o q = [i \in 1..m + n |-> b[i]]
         /\ p \in Seq(S) /\ q \in Seq(S) /\ Len(p) = m /\ Len(q) = n
<1> DEFINE w == [i \in 1..m + n |-> b[i]]
<1>1. \A i \in 1..m : b[i] \in S
  OBVIOUS
<1>2. \A i \in 1..n : b[m + i] \in S
  OBVIOUS
<1>3. p \in Seq(S) /\ Len(p) = m
  BY <1>1
<1>4. q \in Seq(S) /\ Len(q) = n
  BY <1>2
<1>5. w \in Seq(S) /\ Len(w) = m + n
  OBVIOUS
<1>6. /\ p \o q \in Seq(S) /\ Len(p \o q) = m + n
      /\ \A i \in 1..m + n : (p \o q)[i] = IF i <= m THEN p[i] ELSE q[i - m]
  BY <1>3, <1>4, ConcatProperties
<1>7. ASSUME NEW i \in 1..m + n
      PROVE  (p \o q)[i] = w[i]
  <2>1. CASE i <= m
    BY <1>6, <2>1
  <2>2. CASE ~(i <= m)
    <3>1. i - m \in 1..n /\ m + (i - m) = i
      BY <2>2
    <3> QED
      BY <1>6, <2>2, <3>1
  <2> QED
    BY <2>1, <2>2
<1> HIDE DEF w
<1>8. p \o q = w
  BY <1>5, <1>6, <1>7, SeqEqual
<1> QED
  BY <1>3, <1>4, <1>8 DEF w

-----------------------------------------------------------------------------
(* The header and the steps that read no input. *)

LEMMA FileType ==
  ASSUME reading \in Readings
  PROVE  /\ reading.file \in Seq(Cell) /\ Len(reading.file) \in Nat
         /\ reading.offset \in Nat
BY ReadingsAssumption

LEMMA HeaderCellsIs ==
  ASSUME NEW hdr \in Header
  PROVE  HeaderCells(hdr) \in Nat
<1>1. hdr.nlen \in Nat /\ hdr.xlen \in Nat /\ hdr.clen \in Nat
  BY DEF Header
<1> QED
  BY <1>1 DEF HeaderCells

LEMMA HeaderAtOffset ==
  ASSUME NEW f \in Seq(Cell), NEW p \in Nat, ReadableHeader(f, p, "local")
  PROVE  /\ f[p + 1].h \in Header
         /\ DataOffset(f, p) \in Nat /\ DataOffset(f, p) <= Len(f)
<1>1. p + 1 \in 1..Len(f) /\ f[p + 1].k = "local"
  BY DEF ReadableHeader
<1>2. f[p + 1] \in Cell
  BY <1>1, ElementOfSeq
<1>3. f[p + 1] \in [k : {"local", "central"}, h : Header]
  BY <1>1, <1>2 DEF Cell, PadKind
<1>4. f[p + 1].h \in Header
  BY <1>3
<1>5. HeaderCells(f[p + 1].h) \in Nat
  BY <1>4, HeaderCellsIs
<1>6. p + HeaderCells(f[p + 1].h) <= Len(f)
  BY DEF ReadableHeader
<1> QED
  BY <1>4, <1>5, <1>6 DEF DataOffset

LEMMA InitInvariant == Init => IInv
<1> SUFFICES ASSUME Init PROVE IInv
  OBVIOUS
<1>1. reading.file \in Seq(Cell) /\ Len(reading.file) \in Nat
  BY FileType DEF Init
<1>2. << >> \in Seq(Cell) /\ << >> \in Seq(Byte) /\ << >> \in Seq(Out) /\ Len(<< >>) = 0
  OBVIOUS
<1>3. TypeOK
  BY <1>1, <1>2, CapacityAssumption, MaxClearsAssumption
  DEF Init, TypeOK, ZlibCode, Pc, Out
<1>4. ~IsOpen
  BY DEF Init, IsOpen
<1> QED
  BY <1>3, <1>4
  DEF Init, IInv, Unopened, HeaderRead, StoredDirect, InputIsWindow, OnlyDeflatedUsed,
      OneBufferInUse, EndIsSeen, InOrder, IsOpen

LEMMA OpenInvariant ==
  ASSUME IInv, Open
  PROVE  IInv'
<1> USE DEF IInv
<1>1. /\ reading.file \in Seq(Cell) /\ Len(reading.file) \in Nat
      /\ reading.offset \in Nat
  BY FileType
<1>2. /\ UNCHANGED << reading, zin, zmode, err, out, getArea, got, status, clears >>
      /\ pc = "open"
  BY DEF Open
<1>3. /\ zin = << >> /\ out = << >> /\ getArea = << >> /\ got = << >>
      /\ status = "good" /\ zmode = "more"
  BY <1>2 DEF Unopened, IsOpen
<1>4. CASE ReadableHeader(reading.file, reading.offset, "local") /\ Supported
  <2>1. /\ h' = reading.file[reading.offset + 1].h
        /\ inPos' = DataAt
        /\ remain' = IF h'.method = "STORED" THEN h'.size ELSE 0
        /\ pc' = "idle"
    BY <1>4 DEF Open, AfterHeader, DataAt
  <2>2. h' \in Header /\ DataAt \in Nat /\ DataAt <= Len(reading.file)
    BY <1>1, <1>4, <2>1, HeaderAtOffset DEF DataAt
  <2>3. remain' \in Nat
    BY <2>1, <2>2 DEF Header
  <2>4. TypeOK'
    BY <1>2, <2>1, <2>2, <2>3 DEF TypeOK, Pc
  <2>5. Len(zin) = 0 /\ Used' = inPos' /\ DataAt' = DataAt
    BY <1>2, <1>3, <2>1, <2>2 DEF Used, DataAt
  <2>6. HeaderRead'
    BY <1>2, <1>4, <2>1, <2>2, <2>5 DEF HeaderRead, Supported
  <2>7. InputIsWindow'
    <3>1. SubSeq(reading.file, DataAt + 1, DataAt) = << >>
      BY <2>2, SubSeqEmpty
    <3> QED
      BY <1>2, <1>3, <2>1, <2>5, <3>1 DEF InputIsWindow
  <2>8. OnlyDeflatedUsed'
    BY <1>2, <1>3, <2>1, <2>2, <2>5 DEF OnlyDeflatedUsed
  <2>9. InOrder'
    <3>1. Delivered' = 0
      BY <1>2, <1>3, <2>1, <2>2, <2>5 DEF Delivered
    <3>2. Pending' = << >>
      BY <1>2, <1>3 DEF Pending
    <3>3. /\ [i \in 1..0 |-> RawByte(reading.file[DataAt + i])] = << >>
          /\ [i \in 1..0 |-> reading.file[DataAt + i].b] = << >>
      OBVIOUS
    <3>4. h'.method = "STORED" => 0 + remain' = h'.size
      <4>1. \A x \in Header : x.size \in Nat
        BY DEF Header
      <4>2. h'.size \in Nat
        BY <2>2, <4>1
      <4> QED
        BY <2>1, <4>2
    <3> QED
      BY <1>2, <2>5, <3>1, <3>2, <3>3, <3>4 DEF InOrder
  <2> QED
    BY <1>2, <1>3, <2>1, <2>4, <2>6, <2>7, <2>8, <2>9
    DEF Unopened, StoredDirect, OneBufferInUse, EndIsSeen, IsOpen
<1>5. CASE ~(ReadableHeader(reading.file, reading.offset, "local") /\ Supported)
  <2>1. pc' = "failed" /\ UNCHANGED << h, inPos, remain >>
    BY <1>5 DEF Open
  <2>2. TypeOK'
    BY <1>2, <2>1 DEF TypeOK, Pc
  <2> QED
    BY <1>2, <1>3, <2>1, <2>2
    DEF Unopened, HeaderRead, StoredDirect, InputIsWindow, OnlyDeflatedUsed,
        OneBufferInUse, EndIsSeen, InOrder, IsOpen
<1> QED
  BY <1>4, <1>5

LEMMA BuffersType ==
  ASSUME TypeOK
  PROVE  /\ got \in Seq(Out) /\ getArea \in Seq(Out) /\ out \in Seq(Byte)
         /\ out \in Seq(Out) /\ Len(out) \in Nat /\ Len(getArea) \in Nat
         /\ zin \in Seq(Cell) /\ Len(zin) \in Nat
         /\ inPos \in Nat /\ remain \in Nat
BY SeqMonotonic DEF TypeOK, Out

\* What a step leaves alone when it only moves bytes between the buffers.
LEMMA MovedInvariant ==
  ASSUME IInv, IsOpen, pc' = "idle",
         UNCHANGED << reading, h, inPos, remain, zin, zmode, clears >>,
         Pending' = Pending, TypeOK', out' = << >>,
         status' = "eof" => getArea' = << >> /\ (h.method = "DEFLATED" => zmode = "end")
  PROVE  IInv'
<1> USE DEF IInv
<1>1. Used' = Used /\ DataAt' = DataAt /\ IsOpen'
  BY DEF Used, DataAt, IsOpen
<1>2. HeaderRead' /\ StoredDirect' /\ InputIsWindow' /\ OnlyDeflatedUsed'
  BY <1>1 DEF HeaderRead, StoredDirect, InputIsWindow, OnlyDeflatedUsed
<1>3. InOrder'
  BY <1>1 DEF InOrder, IsOpen, Delivered
<1>4. Unopened' /\ OneBufferInUse' /\ EndIsSeen'
  BY <1>1 DEF Unopened, OneBufferInUse, EndIsSeen
<1> QED
  BY <1>2, <1>3, <1>4

LEMMA TakeInvariant ==
  ASSUME IInv, Take
  PROVE  IInv'
<1> USE DEF IInv
<1>1. /\ got \in Seq(Out) /\ getArea \in Seq(Out) /\ getArea # << >>
      /\ Len(getArea) <= Capacity
  BY BuffersType DEF Take, TypeOK
<1>2. /\ got' = Append(got, Head(getArea)) /\ getArea' = Tail(getArea)
      /\ UNCHANGED << reading, h, inPos, remain, zin, zmode, err, out, status, clears, pc >>
      /\ pc = "idle" /\ status = "good"
  BY DEF Take
<1>3. /\ got' \o getArea' = got \o getArea
      /\ got' \in Seq(Out) /\ getArea' \in Seq(Out)
      /\ Len(getArea') = Len(getArea) - 1 /\ Len(getArea) \in Nat
  BY <1>1, <1>2, TakeKeeps
<1>4. Len(getArea') <= Capacity
  BY <1>1, <1>3, CapacityAssumption
<1>5. TypeOK'
  BY <1>2, <1>3, <1>4 DEF TypeOK, Out
<1>6. Pending' = Pending
  BY <1>2, <1>3 DEF Pending
<1>7. out' = << >> /\ IsOpen
  BY <1>2 DEF OneBufferInUse, IsOpen
<1> QED
  BY <1>2, <1>5, <1>6, <1>7, MovedInvariant

LEMMA UnderflowInflateInvariant ==
  ASSUME IInv, UnderflowInflate
  PROVE  IInv'
<1> USE DEF IInv
<1>1. /\ out' = << >> /\ err' = "Z_OK" /\ pc' = "inflate"
      /\ UNCHANGED << reading, h, inPos, remain, zin, zmode, getArea, got, status, clears >>
      /\ pc = "idle" /\ status = "good" /\ getArea = << >> /\ h.method = "DEFLATED"
  BY DEF UnderflowInflate
<1>2. out = << >> /\ IsOpen /\ IsOpen'
  BY <1>1 DEF OneBufferInUse, IsOpen
<1>3. Used' = Used /\ DataAt' = DataAt /\ Pending' = Pending
  BY <1>1, <1>2 DEF Used, DataAt, Pending
<1>4. TypeOK'
  BY <1>1, <1>2 DEF TypeOK, Pc, ZlibCode
<1>5. HeaderRead' /\ StoredDirect' /\ InputIsWindow' /\ OnlyDeflatedUsed'
  BY <1>1, <1>2, <1>3 DEF HeaderRead, StoredDirect, InputIsWindow, OnlyDeflatedUsed
<1>6. InOrder'
  BY <1>1, <1>2, <1>3 DEF InOrder, Delivered
<1>7. Unopened' /\ OneBufferInUse' /\ EndIsSeen'
  BY <1>1, <1>2 DEF Unopened, OneBufferInUse, EndIsSeen
<1> QED
  BY <1>1, <1>4, <1>5, <1>6, <1>7

\* An error means that inflate() is not at its end; without one, and with room
\* left, it is.
LEMMA EndUnderflowInvariant ==
  ASSUME IInv, EndUnderflow
  PROVE  IInv'
<1> USE DEF IInv
<1>1. /\ getArea' = out /\ out' = << >> /\ pc' = "idle"
      /\ UNCHANGED << reading, h, inPos, remain, zin, zmode, err, got, clears >>
      /\ pc = "inflate" /\ ~Loops
      /\ status' = CASE Broken -> "bad"
                     [] ~Broken /\ out = << >> -> "eof"
                     [] OTHER -> status
  BY DEF EndUnderflow
<1>2. getArea = << >> /\ status = "good"
  BY <1>1 DEF OneBufferInUse
<1>3. /\ got \in Seq(Out) /\ out \in Seq(Out)
      /\ out \in Seq(Byte) /\ Len(out) <= Capacity
  BY BuffersType DEF TypeOK
<1>4. status' \in {"good", "eof", "bad"}
  BY <1>1, <1>2
<1>5. TypeOK'
  <2>1. out' \in Seq(Byte) /\ Len(out') <= Capacity
    BY <1>1, CapacityAssumption
  <2> QED
    BY <1>1, <1>3, <1>4, <2>1 DEF TypeOK, Pc, Out
<1>6. Pending' = Pending
  <2>1. got \o << >> = got /\ (got \o out) \o << >> = got \o out
    BY <1>3, ConcatEmptySeq, ConcatProperties
  <2> QED
    BY <1>1, <1>2, <2>1 DEF Pending
<1>7. status' = "eof" => getArea' = << >> /\ (h.method = "DEFLATED" => zmode = "end")
  <2> SUFFICES ASSUME status' = "eof"
               PROVE  getArea' = << >> /\ zmode = "end"
    OBVIOUS
  <2>1. ~Broken /\ out = << >>
    BY <1>1, <1>2
  <2>2. Len(out) < Capacity
    BY <2>1, CapacityAssumption
  <2>3. err = "Z_STREAM_END"
    BY <1>1, <2>1, <2>2 DEF Loops, Broken
  <2> QED
    BY <1>1, <2>1, <2>3 DEF EndIsSeen
<1>8. IsOpen
  BY <1>1 DEF IsOpen
<1> QED
  BY <1>1, <1>5, <1>6, <1>7, <1>8, MovedInvariant

LEMMA ClearInvariant ==
  ASSUME IInv, Clear
  PROVE  IInv'
<1> USE DEF IInv
<1>1. /\ pc = "idle" /\ status' = "good" /\ clears' = clears + 1 /\ clears < MaxClears
      /\ UNCHANGED << reading, h, inPos, remain, zin, zmode, err, out, getArea, got, pc >>
  BY DEF Clear
<1>2. TypeOK'
  BY <1>1, MaxClearsAssumption DEF TypeOK
<1>3. Used' = Used /\ DataAt' = DataAt /\ Pending' = Pending /\ IsOpen' /\ IsOpen
  BY <1>1 DEF Used, DataAt, Pending, IsOpen
<1>4. HeaderRead' /\ StoredDirect' /\ InputIsWindow' /\ OnlyDeflatedUsed'
  BY <1>1, <1>3 DEF HeaderRead, StoredDirect, InputIsWindow, OnlyDeflatedUsed
<1>5. InOrder' /\ OneBufferInUse' /\ EndIsSeen' /\ Unopened'
  BY <1>1, <1>3 DEF InOrder, Delivered, OneBufferInUse, EndIsSeen, Unopened
<1> QED
  BY <1>1, <1>2, <1>4, <1>5

-----------------------------------------------------------------------------
(* The steps that read the file. *)

LEMMA CellBytes ==
  ASSUME NEW c \in Cell
  PROVE  RawByte(c) \in Out /\ (c.k = "zdata" => c.b \in Byte)
<1>1. CASE c.k \in {"data", "zdata"}
  <2>1. c \in [k : {"data", "zdata"}, b : Byte]
    BY <1>1 DEF Cell, PadKind
  <2>2. c.b \in Byte
    BY <2>1
  <2> QED
    BY <2>2 DEF RawByte, Out
<1>2. CASE c.k \notin {"data", "zdata"}
  BY <1>2 DEF RawByte, Out
<1> QED
  BY <1>1, <1>2

\* sgetn() stays in the file.
LEMMA SgetnIs ==
  ASSUME reading \in Readings, inPos \in 0..Len(reading.file), NEW n \in Nat
  PROVE  /\ Available(n) \in 0..n /\ inPos + Available(n) <= Len(reading.file)
         /\ Available(n) = 0 /\ n > 0 => inPos = Len(reading.file)
         /\ Available(n) < n => inPos + Available(n) = Len(reading.file)
         /\ Sgetn(n) \in Seq(Cell) /\ Len(Sgetn(n)) = Available(n)
         /\ \A i \in 1..Available(n) : Sgetn(n)[i] = reading.file[inPos + i]
<1>1. reading.file \in Seq(Cell) /\ Len(reading.file) \in Nat
  BY FileType
<1>2. /\ Available(n) \in 0..n /\ inPos + Available(n) <= Len(reading.file)
      /\ Available(n) = 0 /\ n > 0 => inPos = Len(reading.file)
      /\ Available(n) < n => inPos + Available(n) = Len(reading.file)
  BY <1>1 DEF Available, Smaller
<1> DEFINE b == inPos + Available(n)
<1>3. b \in Nat /\ inPos <= b /\ b <= Len(reading.file) /\ b - inPos = Available(n)
  BY <1>1, <1>2
<1>4. Sgetn(n) = SubSeq(reading.file, inPos + 1, b)
  BY DEF Sgetn
<1> HIDE DEF b
<1>5. /\ Sgetn(n) \in Seq(Cell) /\ Len(Sgetn(n)) = b - inPos
      /\ \A i \in 1..b - inPos : Sgetn(n)[i] = reading.file[inPos + i]
  BY <1>1, <1>3, <1>4, Part
<1> QED
  BY <1>2, <1>3, <1>5

LEMMA UnderflowStoredInvariant ==
  ASSUME IInv, UnderflowStored
  PROVE  IInv'
<1> USE DEF IInv
<1> DEFINE cells == Sgetn(StoredRequest)
<1> DEFINE g == Len(cells)
<1>1. /\ UNCHANGED << reading, h, zin, zmode, err, out, got, clears, pc >>
      /\ pc = "idle" /\ status = "good" /\ getArea = << >> /\ h.method = "STORED"
      /\ getArea' = RawBytes(cells) /\ inPos' = inPos + g /\ remain' = remain - g
      /\ status' = IF g > 0 THEN status ELSE "eof"
  BY DEF UnderflowStored, RemainAfter
<1>2. /\ reading.file \in Seq(Cell) /\ Len(reading.file) \in Nat
      /\ inPos \in 0..Len(reading.file) /\ remain \in Nat /\ Capacity \in Nat
  BY FileType, CapacityAssumption DEF TypeOK
<1>3. StoredRequest \in Nat /\ StoredRequest <= remain /\ StoredRequest <= Capacity
  BY <1>2 DEF StoredRequest, Smaller
<1>4. /\ g \in Nat /\ g <= StoredRequest /\ inPos + g <= Len(reading.file)
      /\ cells \in Seq(Cell)
      /\ \A i \in 1..g : cells[i] = reading.file[inPos + i]
  <2>1. /\ Available(StoredRequest) \in 0..StoredRequest
        /\ inPos + Available(StoredRequest) <= Len(reading.file)
        /\ cells \in Seq(Cell) /\ Len(cells) = Available(StoredRequest)
        /\ \A i \in 1..Available(StoredRequest) : cells[i] = reading.file[inPos + i]
    BY <1>2, <1>3, SgetnIs
  <2> QED
    BY <1>3, <2>1
<1> HIDE DEF cells, g
<1>5. /\ IsOpen /\ IsOpen' /\ zin = << >> /\ zmode = "more" /\ out = << >>
      /\ Len(zin) = 0
  BY <1>1 DEF IsOpen, StoredDirect, OneBufferInUse
<1>6. /\ Used = inPos /\ inPos' = Used' /\ DataAt' = DataAt
      /\ DataAt \in Nat /\ DataAt <= inPos
      /\ Delivered = inPos - DataAt /\ inPos' - DataAt = Delivered'
  <2>1. DataAt' = DataAt /\ zmode' = zmode /\ zin' = << >>
    BY <1>1, <1>5 DEF DataAt
  <2>2. inPos' \in Nat /\ inPos \in Nat
    BY <1>1, <1>2, <1>4
  <2>3. Used = inPos /\ inPos' = Used'
    <3>1. \A p \in Nat : p - Len(<< >>) = p
      OBVIOUS
    <3>2. inPos - Len(zin) = inPos /\ inPos' - Len(zin') = inPos'
      BY <1>5, <2>1, <2>2, <3>1
    <3> QED
      BY <3>2 DEF Used
  <2>4. Delivered = Used - DataAt /\ Used' - DataAt' = Delivered'
    BY <1>5, <2>1 DEF Delivered
  <2>5. DataAt \in Nat /\ DataAt <= inPos
    BY <1>2, <1>5, <2>3, HeaderAtOffset, FileType DEF HeaderRead, DataAt
  <2> QED
    BY <2>1, <2>3, <2>4, <2>5
<1>7. DataAt \in Nat /\ DataAt <= inPos
  BY <1>6
<1> DEFINE bytes == [i \in 1..Len(reading.file) - DataAt |-> RawByte(reading.file[DataAt + i])]
<1> DEFINE m == inPos - DataAt
<1>8. \A i \in 1..m + g : bytes[i] \in Out
  <2> SUFFICES ASSUME NEW i \in 1..m + g PROVE bytes[i] \in Out
    OBVIOUS
  <2>1. i \in 1..Len(reading.file) - DataAt /\ DataAt + i \in 1..Len(reading.file)
    BY <1>2, <1>4, <1>7
  <2>2. reading.file[DataAt + i] \in Cell
    BY <1>2, <2>1, ElementOfSeq
  <2> QED
    BY <2>1, <2>2, CellBytes
<1>9. Pending = [i \in 1..m |-> bytes[i]]
  <2>1. Pending = [i \in 1..m |-> RawByte(reading.file[DataAt + i])]
    BY <1>1, <1>5, <1>6 DEF InOrder
  <2>2. \A i \in 1..m : i \in 1..Len(reading.file) - DataAt
    BY <1>2, <1>7
  <2> QED
    BY <2>1, <2>2
<1>10. getArea' = [i \in 1..g |-> bytes[m + i]]
  <2>1. getArea' = [i \in 1..g |-> RawByte(cells[i])]
    BY <1>1 DEF RawBytes, g
  <2>2. ASSUME NEW i \in 1..g
        PROVE  RawByte(cells[i]) = bytes[m + i]
    <3>1. m + i \in 1..Len(reading.file) - DataAt /\ DataAt + (m + i) = inPos + i
      BY <1>2, <1>4, <1>7
    <3>2. cells[i] = reading.file[inPos + i]
      BY <1>4
    <3> QED
      BY <3>1, <3>2
  <2> QED
    BY <2>1, <2>2
<1>11. m \in Nat
  BY <1>2, <1>7
<1>12. /\ Pending \o getArea' = [i \in 1..m + g |-> bytes[i]]
       /\ getArea' \in Seq(Out) /\ Len(getArea') = g
  <2> HIDE DEF bytes, m
  <2> QED
    BY <1>4, <1>8, <1>9, <1>10, <1>11, Longer
<1>13. Pending = got /\ Pending' = Pending \o getArea'
  <2>1. got \in Seq(Out)
    BY BuffersType
  <2>2. got \o << >> = got
    BY <2>1, ConcatEmptySeq
  <2>3. got \o getArea' \in Seq(Out)
    BY <2>1, <1>12, ConcatProperties
  <2>4. (got \o getArea') \o << >> = got \o getArea'
    BY <2>3, ConcatEmptySeq
  <2> QED
    BY <1>1, <1>5, <2>2, <2>4 DEF Pending
<1>14. InOrder'
  <2>1. Pending' = [i \in 1..m + g |-> RawByte(reading.file[DataAt + i])]
    <3>1. \A i \in 1..m + g : bytes[i] = RawByte(reading.file[DataAt + i])
      BY <1>2, <1>4, <1>7
    <3> QED
      BY <1>12, <1>13, <3>1
  <2>2. m + g = Delivered'
    <3>1. \A p \in Nat : p = inPos + g => m + g = p - DataAt
      BY <1>2, <1>4, <1>7
    <3>2. inPos' \in Nat /\ inPos' = inPos + g
      BY <1>1, <1>2, <1>4
    <3>3. m + g = inPos' - DataAt
      BY <3>1, <3>2
    <3> HIDE DEF m
    <3> QED
      BY <1>6, <3>3
  <2>3. Delivered' + remain' = h.size
    <3>1. Delivered + remain = h.size
      BY <1>1, <1>5 DEF InOrder
    <3> QED
      BY <1>1, <1>2, <1>4, <1>6, <1>7, <3>1
  <2> QED
    BY <1>1, <1>6, <2>1, <2>2, <2>3 DEF InOrder
<1>15. TypeOK'
  <2>1. inPos' \in 0..Len(reading.file) /\ remain' \in Nat
    BY <1>1, <1>2, <1>3, <1>4
  <2>2. status' \in {"good", "eof", "bad"} /\ Len(getArea') <= Capacity
    BY <1>1, <1>2, <1>3, <1>4, <1>12
  <2> QED
    BY <1>1, <1>12, <2>1, <2>2 DEF TypeOK, Out
<1>16. HeaderRead'
  BY <1>1, <1>2, <1>4, <1>5, <1>6, <1>7 DEF HeaderRead
<1>17. InputIsWindow'
  <2>1. inPos' \in Nat
    BY <1>1, <1>2, <1>4
  <2>2. SubSeq(reading.file, inPos' + 1, inPos') = << >>
    BY <2>1, NoPart
  <2> QED
    BY <1>1, <1>5, <1>6, <2>2 DEF InputIsWindow
<1>18. EndIsSeen'
  <2>1. status' = "eof" => getArea' = << >>
    <3> SUFFICES ASSUME status' = "eof" PROVE getArea' = << >>
      OBVIOUS
    <3>1. g = 0
      BY <1>1, <1>4
    <3> QED
      BY <1>10, <3>1
  <2> QED
    BY <1>1, <2>1 DEF EndIsSeen
<1> QED
  BY <1>1, <1>5, <1>14, <1>15, <1>16, <1>17, <1>18
  DEF Unopened, StoredDirect, OnlyDeflatedUsed, OneBufferInUse

LEMMA SmallestOfNat ==
  ASSUME NEW S, S \subseteq Nat, S # {}
  PROVE  \E k \in S : \A j \in S : k <= j
<1>1. IsWellFoundedOn(OpToRel(<, Nat), Nat)
  BY NatLessThanWellFounded
<1>2. \E k \in S : \A j \in S : ~(<< j, k >> \in OpToRel(<, Nat))
  BY <1>1, WFMin
<1>3. \A j, k \in Nat : j < k => << j, k >> \in OpToRel(<, Nat)
  BY DEF OpToRel
<1>4. \A j, k \in Nat : ~(j < k) => k <= j
  OBVIOUS
<1> QED
  BY <1>2, <1>3, <1>4

\* What inflate() turns into bytes: the deflated cells up to the first other
\* one, or as many as there is room for.
LEMMA InflatableIs ==
  ASSUME NEW F \in Seq(Cell), Len(out) \in Nat, Len(out) <= Capacity
  PROVE  /\ Inflatable(F) \in 0..Len(F) /\ Inflatable(F) <= Capacity - Len(out)
         /\ \A i \in 1..Inflatable(F) : F[i].k = "zdata"
         /\ Inflatable(F) < Len(F) /\ Inflatable(F) < Capacity - Len(out)
                => F[Inflatable(F) + 1].k # "zdata"
<1> DEFINE P(n) == /\ \A i \in 1..n : F[i].k = "zdata"
                   /\ n < Len(F) => F[n + 1].k # "zdata"
<1> DEFINE n == CHOOSE k \in 0..Len(F) : P(k)
<1> DEFINE stops == {k \in 0..Len(F) : k < Len(F) => F[k + 1].k # "zdata"}
<1>1. Len(F) \in Nat /\ Capacity \in Nat
  BY CapacityAssumption
<1>2. PICK k \in stops : \A j \in stops : k <= j
  <2>1. stops \subseteq Nat /\ Len(F) \in stops
    BY <1>1
  <2> QED
    BY <2>1, SmallestOfNat
<1>3. k \in 0..Len(F) /\ (k < Len(F) => F[k + 1].k # "zdata")
  BY <1>2
<1>4. ASSUME NEW i \in 1..k
      PROVE  F[i].k = "zdata"
  <2> SUFFICES ASSUME F[i].k # "zdata" PROVE FALSE
    OBVIOUS
  <2>1. i - 1 \in 0..Len(F) /\ (i - 1) + 1 = i
    BY <1>1, <1>3
  <2>2. i - 1 \in stops
    BY <2>1
  <2>3. k <= i - 1
    BY <1>2, <2>2
  <2> QED
    BY <1>1, <1>3, <2>3
<1>5. P(k)
  BY <1>3, <1>4
<1>6. n \in 0..Len(F) /\ P(n)
  <2> HIDE DEF P
  <2> QED
    BY <1>3, <1>5
<1>7. Inflatable(F) = Smaller(n, Capacity - Len(out))
  BY DEF Inflatable
<1> HIDE DEF n
<1>8. /\ Inflatable(F) \in 0..Len(F) /\ Inflatable(F) <= n
      /\ Inflatable(F) <= Capacity - Len(out)
      /\ Inflatable(F) = n \/ Inflatable(F) = Capacity - Len(out)
  BY <1>1, <1>6, <1>7 DEF Smaller
<1> QED
  BY <1>1, <1>6, <1>8

\* What a turn has to do with: the cells from the first that was not used.
Input == IF InputNeeded THEN Sgetn(InCapacity) ELSE zin

LEMMA InputIs ==
  ASSUME IInv, IsOpen
  PROVE  /\ Used \in Nat /\ DataAt \in Nat /\ DataAt <= Used
         /\ Input \in Seq(Cell) /\ Len(Input) <= InCapacity
         /\ Used + Len(Input) <= Len(reading.file)
         /\ Input = SubSeq(reading.file, Used + 1, Used + Len(Input))
         /\ \A i \in 1..Len(Input) : Input[i] = reading.file[Used + i]
         /\ (IF InputNeeded THEN inPos + Len(Input) ELSE inPos) = Used + Len(Input)
         /\ Input = << >> => Used = Len(reading.file)
<1> USE DEF IInv
<1>1. /\ reading.file \in Seq(Cell) /\ Len(reading.file) \in Nat
      /\ inPos \in 0..Len(reading.file) /\ InCapacity \in Nat \ {0}
      /\ zin \in Seq(Cell) /\ Len(zin) \in Nat /\ Len(zin) <= InCapacity
  BY FileType, CapacityAssumption DEF TypeOK
<1>2. DataAt \in Nat /\ DataAt <= Used
  BY HeaderAtOffset, FileType DEF HeaderRead, DataAt
<1>3. Used \in Nat /\ Used + Len(zin) = inPos
  BY <1>1, <1>2 DEF Used
<1>4. CASE InputNeeded
  <2>1. zin = << >> /\ Input = Sgetn(InCapacity) /\ Used = inPos
    BY <1>1, <1>3, <1>4 DEF InputNeeded, Input
  <2> DEFINE a == Available(InCapacity)
  <2>2. /\ a \in 0..InCapacity /\ inPos + a <= Len(reading.file)
        /\ a = 0 => inPos = Len(reading.file)
        /\ Input \in Seq(Cell) /\ Len(Input) = a
        /\ \A i \in 1..a : Input[i] = reading.file[inPos + i]
    <3>1. InCapacity \in Nat /\ InCapacity > 0
      BY <1>1
    <3>2. /\ a \in 0..InCapacity /\ inPos + a <= Len(reading.file)
          /\ a = 0 /\ InCapacity > 0 => inPos = Len(reading.file)
          /\ Sgetn(InCapacity) \in Seq(Cell) /\ Len(Sgetn(InCapacity)) = a
          /\ \A i \in 1..a : Sgetn(InCapacity)[i] = reading.file[inPos + i]
      BY <1>1, <3>1, SgetnIs
    <3> QED
      BY <2>1, <3>1, <3>2
  <2>3. Input = SubSeq(reading.file, inPos + 1, inPos + a)
    BY <2>1 DEF Sgetn
  <2>4. Input = << >> => a = 0
    BY <2>2
  <2> HIDE DEF a
  <2> QED
    BY <1>1, <1>2, <1>3, <1>4, <2>1, <2>2, <2>3, <2>4
<1>5. CASE ~InputNeeded
  <2>1. Input = zin /\ zin # << >>
    BY <1>5 DEF InputNeeded, Input
  <2>2. zin = SubSeq(reading.file, Used + 1, inPos)
    BY DEF InputIsWindow
  <2>3. Used <= inPos /\ inPos <= Len(reading.file) /\ inPos - Used = Len(zin) /\ inPos \in Nat
    BY <1>1, <1>3
  <2>4. \A i \in 1..Len(zin) : zin[i] = reading.file[Used + i]
    <3>1. \A i \in 1..inPos - Used :
            SubSeq(reading.file, Used + 1, inPos)[i] = reading.file[Used + i]
      BY <1>1, <1>3, <2>3, Part
    <3> QED
      BY <2>2, <2>3, <3>1
  <2> QED
    BY <1>1, <1>2, <1>3, <1>5, <2>1, <2>2, <2>3, <2>4
<1> QED
  BY <1>4, <1>5

LEMMA InflateSomeInvariant ==
  ASSUME IInv, InflateSome
  PROVE  IInv'
<1> USE DEF IInv
<1> DEFINE F == Input
<1> DEFINE f == reading.file
<1> DEFINE n == IF zmode = "more" THEN Inflatable(F) ELSE 0
<1> DEFINE code == InflateCode(F, n)
<1> DEFINE used == IF code = "Z_STREAM_END" /\ zmode = "more" THEN n + 1 ELSE n
<1> DEFINE chunk == [i \in 1..n |-> F[i].b]
<1>1. /\ UNCHANGED << reading, h, remain, getArea, got, status, clears, pc >>
      /\ pc = "inflate"
      /\ inPos' = IF InputNeeded THEN inPos + Len(F) ELSE inPos
      /\ out' = out \o chunk
      /\ zin' = SubSeq(F, used + 1, Len(F))
      /\ err' = code
      /\ zmode' = CASE code = "Z_STREAM_END" -> "end"
                    [] code = "Z_DATA_ERROR" -> "bad"
                    [] OTHER -> zmode
  BY DEF InflateSome, Input
<1>2. Loops
  BY DEF InflateSome
<1>3. /\ IsOpen /\ IsOpen' /\ h.method # "STORED" /\ getArea = << >> /\ status = "good"
  BY <1>1 DEF IsOpen, StoredDirect, OneBufferInUse
<1>4. h.method = "DEFLATED"
  <2>1. h \in Header
    BY <1>3, HeaderAtOffset, FileType DEF HeaderRead
  <2> QED
    BY <1>3, <2>1 DEF Header, Method
<1>5. /\ f \in Seq(Cell) /\ Len(f) \in Nat
      /\ Used \in Nat /\ DataAt \in Nat /\ DataAt <= Used
      /\ F \in Seq(Cell) /\ Len(F) <= InCapacity /\ Len(F) \in Nat
      /\ Used + Len(F) <= Len(f)
      /\ F = SubSeq(f, Used + 1, Used + Len(F))
      /\ \A i \in 1..Len(F) : F[i] = f[Used + i]
      /\ inPos' = Used + Len(F)
  BY <1>1, <1>3, InputIs, FileType, SMTT(20)
<1>6. /\ out \in Seq(Byte) /\ Len(out) \in Nat /\ Len(out) < Capacity
      /\ Capacity \in Nat /\ zmode \in {"more", "end", "bad"}
  BY <1>2, CapacityAssumption DEF TypeOK, Loops
<1> HIDE DEF F, f
<1>7. /\ n \in 0..Len(F) /\ n <= Capacity - Len(out)
      /\ \A i \in 1..n : F[i].k = "zdata"
      /\ zmode # "more" => n = 0
      /\ zmode = "more" /\ n < Len(F) /\ n < Capacity - Len(out) => F[n + 1].k # "zdata"
  <2>1. CASE zmode = "more"
    <3>1. n = Inflatable(F) /\ Len(out) <= Capacity
      BY <1>6, <2>1
    <3> QED
      BY <1>5, <1>6, <2>1, <3>1, InflatableIs
  <2>2. CASE zmode # "more"
    BY <1>5, <1>6, <2>2
  <2> QED
    BY <2>1, <2>2
<1> HIDE DEF n
\* What the code says of the mode and of the input.
<1>8. /\ code \in ZlibCode /\ used \in 0..Len(F) /\ used \in {n, n + 1}
      /\ zmode' \in {"more", "end", "bad"}
      /\ zmode # "more" => zmode' = zmode /\ used = 0
      /\ zmode = "more" =>
            /\ zmode' = "end" <=> used = n + 1
            /\ zmode' = "end" => F[n + 1].k = "zend"
      /\ code = "Z_STREAM_END" => zmode' = "end"
  <2>1. CASE zmode = "end"
    BY <1>1, <1>5, <1>7, <2>1 DEF InflateCode, ZlibCode
  <2>2. CASE zmode = "bad"
    BY <1>1, <1>5, <1>7, <2>2 DEF InflateCode, ZlibCode
  <2>3. CASE zmode = "more" /\ n < Len(F) /\ F[n + 1].k = "zend"
    <3>1. code = "Z_STREAM_END"
      BY <2>3 DEF InflateCode
    <3> QED
      BY <1>1, <1>5, <1>7, <2>3, <3>1 DEF ZlibCode
  <2>4. CASE zmode = "more" /\ ~(n < Len(F) /\ F[n + 1].k = "zend")
    <3>1. code \in {"Z_DATA_ERROR", "Z_BUF_ERROR", "Z_OK"}
      BY <2>4 DEF InflateCode
    <3> QED
      BY <1>1, <1>5, <1>7, <2>4, <3>1 DEF ZlibCode
  <2> QED
    BY <1>6, <2>1, <2>2, <2>3, <2>4
<1> HIDE DEF code, used
\* Where that leaves the input.
<1>9. /\ zin' = SubSeq(f, Used + used + 1, Used + Len(F))
      /\ zin' \in Seq(Cell) /\ Len(zin') = Len(F) - used
  <2>1. used \in Nat /\ used <= Len(F)
    BY <1>5, <1>8
  <2>2. zin' \in Seq(Cell) /\ Len(zin') = Len(F) - used
    BY <1>1, <1>5, <2>1, Part, SMTT(20)
  <2> DEFINE b == Used + Len(F)
  <2>3. b \in Nat /\ Used <= b /\ b <= Len(f) /\ b - Used = Len(F) /\ used \in 0..b - Used
    BY <1>5, <2>1
  <2>4. SubSeq(SubSeq(f, Used + 1, b), used + 1, b - Used) = SubSeq(f, Used + used + 1, b)
    <3> HIDE DEF b
    <3> QED
      BY <1>5, <2>3, RestOfPart
  <2> QED
    BY <1>1, <1>5, <2>2, <2>3, <2>4
<1>10. Used + used = Used'
  <2>1. \A p, l \in Nat : p = Used + Len(F) /\ l = Len(F) - used => p - l = Used + used
    BY <1>5, <1>8
  <2>2. inPos' \in Nat /\ Len(zin') \in Nat
    BY <1>5, <1>8, <1>9
  <2>3. inPos' - Len(zin') = Used + used
    BY <1>5, <1>9, <2>1, <2>2
  <2> QED
    BY <2>3 DEF Used
<1>11. DataAt' = DataAt
  BY <1>1 DEF DataAt
<1>12. HeaderRead'
  <2>1. DataAt <= Used + used
    BY <1>5, <1>8
  <2>2. DataAt' <= Used'
    BY <1>10, <1>11, <2>1
  <2> QED
    BY <1>1, <1>3, <2>2 DEF HeaderRead
<1>13. InputIsWindow'
  BY <1>1, <1>5, <1>9, <1>10 DEF InputIsWindow, f
<1> DEFINE m == Delivered
<1> DEFINE bytes == [i \in 1..Len(f) - DataAt |-> f[DataAt + i].b]
<1>14. /\ m \in Nat /\ DataAt + m <= Used
       /\ zmode # "end" => DataAt + m = Used
       /\ zmode = "end" => DataAt + m = Used - 1
       /\ \A i \in 1..m : f[DataAt + i].k = "zdata"
  <2>1. zmode = "end" => DataAt < Used
    BY <1>3, <1>4 DEF OnlyDeflatedUsed
  <2>2. /\ m \in Nat /\ DataAt + m <= Used
        /\ zmode # "end" => DataAt + m = Used
        /\ zmode = "end" => DataAt + m = Used - 1
    BY <1>5, <2>1 DEF Delivered
  <2>3. ASSUME NEW i \in 1..m
        PROVE  f[DataAt + i].k = "zdata"
    <3>1. DataAt + i \in DataAt + 1..(IF zmode = "end" THEN Used - 1 ELSE Used)
      BY <1>5, <2>2
    <3> QED
      BY <1>3, <1>4, <3>1 DEF OnlyDeflatedUsed, f
  <2> QED
    BY <2>2, <2>3
<1> HIDE DEF m
<1>15. ASSUME NEW i \in 1..n
       PROVE  m + i \in 1..Len(f) - DataAt /\ F[i] = f[DataAt + (m + i)]
  <2>1. zmode = "more" /\ DataAt + m = Used /\ i \in 1..Len(F)
    BY <1>5, <1>6, <1>7, <1>14
  <2>2. DataAt + (m + i) = Used + i /\ m + i \in 1..Len(f) - DataAt
    <3>1. /\ m \in Nat /\ DataAt \in Nat /\ Used \in Nat
          /\ Len(f) \in Nat /\ Len(F) \in Nat /\ Used + Len(F) <= Len(f)
      BY <1>5, <1>14
    <3> QED
      BY <2>1, <3>1
  <2>3. F[i] = f[Used + i]
    BY <1>5, <2>1
  <2> QED
    BY <2>2, <2>3
<1>16. \A i \in 1..m + n : i \in 1..Len(f) - DataAt /\ f[DataAt + i].k = "zdata"
  <2> SUFFICES ASSUME NEW i \in 1..m + n
               PROVE  i \in 1..Len(f) - DataAt /\ f[DataAt + i].k = "zdata"
    OBVIOUS
  <2>1. CASE i <= m
    BY <1>5, <1>14, <2>1
  <2>2. CASE ~(i <= m)
    <3>1. i - m \in 1..n /\ m + (i - m) = i
      BY <1>7, <1>14, <2>2
    <3> QED
      BY <1>7, <1>15, <3>1
  <2> QED
    BY <2>1, <2>2
<1>17. \A i \in 1..m + n : bytes[i] \in Byte
  <2> SUFFICES ASSUME NEW i \in 1..m + n
               PROVE  bytes[i] \in Byte
    OBVIOUS
  <2>1. i \in 1..Len(f) - DataAt /\ f[DataAt + i].k = "zdata"
    BY <1>16
  <2>2. DataAt + i \in 1..Len(f)
    BY <1>5, <2>1
  <2>3. f[DataAt + i] \in Cell
    BY <1>5, <2>2, ElementOfSeq
  <2> QED
    BY <2>1, <2>3, CellBytes
<1>18. Pending = [i \in 1..m |-> bytes[i]]
  <2>1. Pending = [i \in 1..m |-> f[DataAt + i].b]
    BY <1>3, <1>4 DEF InOrder, m, f
  <2>2. \A i \in 1..m : i \in 1..Len(f) - DataAt
    BY <1>5, <1>14
  <2> QED
    BY <2>1, <2>2
<1>19. chunk = [i \in 1..n |-> bytes[m + i]]
  BY <1>15
<1>20. n \in Nat
  BY <1>5, <1>7
<1> HIDE DEF bytes, chunk
<1>21. /\ Pending \o chunk = [i \in 1..m + n |-> bytes[i]]
       /\ chunk \in Seq(Byte) /\ Len(chunk) = n
  BY <1>14, <1>17, <1>18, <1>19, <1>20, Longer
<1>22. Pending' = Pending \o chunk
  <2>1. got \in Seq(Out) /\ getArea \in Seq(Out) /\ out \in Seq(Out) /\ chunk \in Seq(Out)
    BY <1>21, BuffersType, SeqMonotonic DEF Out
  <2>2. got \o getArea \in Seq(Out)
    BY <2>1, ConcatProperties
  <2>3. \A s, t, u \in Seq(Out) : (s \o t) \o u = s \o (t \o u)
    BY ConcatAssociative
  <2>4. (got \o getArea) \o (out \o chunk) = ((got \o getArea) \o out) \o chunk
    BY <2>1, <2>2, <2>3
  <2> QED
    BY <1>1, <2>4 DEF Pending
<1>23. m + n = Delivered'
  <2>1. ASSUME NEW c \in Nat, c = Used + used, NEW z \in {"more", "end", "bad"},
               zmode # "more" => z = zmode /\ used = 0,
               zmode = "more" => (z = "end" <=> used = n + 1)
        PROVE  (IF z = "end" THEN c - 1 ELSE c) - DataAt = m + n
    <3>1. CASE zmode = "more"
      BY <1>5, <1>7, <1>8, <1>14, <2>1, <3>1
    <3>2. CASE zmode # "more"
      BY <1>5, <1>7, <1>8, <1>14, <2>1, <3>2
    <3> QED
      BY <3>1, <3>2
  <2>2. Used + used \in Nat
    BY <1>5, <1>8
  <2>3. (IF zmode' = "end" THEN (Used + used) - 1 ELSE Used + used) - DataAt = m + n
    BY <1>8, <2>1, <2>2
  <2> QED
    BY <1>10, <1>11, <2>3 DEF Delivered
<1>24. InOrder'
  <2>1. \A i \in 1..m + n : bytes[i] = f[DataAt + i].b
    BY <1>16 DEF bytes
  <2>2. Pending' = [i \in 1..m + n |-> f[DataAt + i].b]
    BY <1>21, <1>22, <2>1
  <2> QED
    BY <1>1, <1>4, <1>11, <1>23, <2>2 DEF InOrder, f
<1>25. OnlyDeflatedUsed'
  <2>1. ASSUME NEW c \in Nat, c = Used + used
        PROVE  /\ zmode' = "end" => DataAt < c /\ f[c].k = "zend"
               /\ \A i \in DataAt + 1..(IF zmode' = "end" THEN c - 1 ELSE c) : f[i].k = "zdata"
    <3>1. zmode' = "end" => DataAt < c /\ f[c].k = "zend"
      <4>1. CASE zmode = "end"
        BY <1>3, <1>4, <1>5, <1>8, <2>1, <4>1 DEF OnlyDeflatedUsed, f
      <4>2. CASE zmode # "end"
        BY <1>5, <1>7, <1>8, <2>1, <4>2
      <4> QED
        BY <4>1, <4>2
    <3>2. (IF zmode' = "end" THEN c - 1 ELSE c) = DataAt + (m + n)
      <4>1. CASE zmode = "more"
        BY <1>5, <1>7, <1>8, <1>14, <2>1, <4>1
      <4>2. CASE zmode # "more"
        BY <1>5, <1>7, <1>8, <1>14, <2>1, <4>2
      <4> QED
        BY <4>1, <4>2
    <3>3. ASSUME NEW i \in DataAt + 1..DataAt + (m + n)
          PROVE  f[i].k = "zdata"
      <4>1. i - DataAt \in 1..m + n /\ DataAt + (i - DataAt) = i
        BY <1>5, <1>14, <1>20
      <4> QED
        BY <1>16, <4>1
    <3> QED
      BY <3>1, <3>2, <3>3
  <2>2. Used + used \in Nat
    BY <1>5, <1>8
  <2>3. /\ zmode' = "end" => DataAt < Used + used /\ f[Used + used].k = "zend"
        /\ \A i \in DataAt + 1..(IF zmode' = "end" THEN (Used + used) - 1 ELSE Used + used) :
                f[i].k = "zdata"
    BY <2>1, <2>2
  <2> QED
    BY <1>1, <1>10, <1>11, <2>3 DEF OnlyDeflatedUsed, f
<1>26. TypeOK'
  <2>1. out' \in Seq(Byte) /\ Len(out') <= Capacity
    <3>1. out \o chunk \in Seq(Byte) /\ Len(out \o chunk) = Len(out) + n
      BY <1>6, <1>21, ConcatProperties
    <3>2. Len(out) + n <= Capacity
      BY <1>6, <1>7, <1>20
    <3> QED
      BY <1>1, <3>1, <3>2
  <2>2. inPos' \in 0..Len(f)
    <3>1. Used + Len(F) \in 0..Len(f)
      BY <1>5
    <3> QED
      BY <1>5, <3>1
  <2>3. Len(zin') <= InCapacity
    BY <1>5, <1>8, <1>9, CapacityAssumption
  <2> QED
    BY <1>1, <1>8, <1>9, <2>1, <2>2, <2>3 DEF TypeOK, f
<1>27. EndIsSeen'
  BY <1>1, <1>3, <1>8 DEF EndIsSeen
<1> QED
  BY <1>1, <1>3, <1>4, <1>12, <1>13, <1>24, <1>25, <1>26, <1>27
  DEF Unopened, StoredDirect, OneBufferInUse

-----------------------------------------------------------------------------
(* The theorems. *)

LEMMA NextInvariant ==
  ASSUME IInv, [Next]_vars
  PROVE  IInv'
<1>1. CASE Open
  BY <1>1, OpenInvariant
<1>2. CASE Take
  BY <1>2, TakeInvariant
<1>3. CASE UnderflowStored
  BY <1>3, UnderflowStoredInvariant
<1>4. CASE UnderflowInflate
  BY <1>4, UnderflowInflateInvariant
<1>5. CASE InflateSome
  BY <1>5, InflateSomeInvariant
<1>6. CASE EndUnderflow
  BY <1>6, EndUnderflowInvariant
<1>7. CASE Clear
  BY <1>7, ClearInvariant
<1>8. CASE UNCHANGED vars
  <2>1. UNCHANGED << reading, h, inPos, remain, zin, zmode, err, out, getArea, got,
                     status, clears, pc >>
    BY <1>8 DEF vars
  <2>2. Used' = Used /\ DataAt' = DataAt /\ Pending' = Pending /\ IsOpen' = IsOpen
    BY <2>1 DEF Used, DataAt, Pending, IsOpen
  <2>3. Delivered' = Delivered
    BY <2>1, <2>2 DEF Delivered
  <2>4. TypeOK'
    BY <2>1 DEF IInv, TypeOK
  <2> QED
    BY <2>1, <2>2, <2>3, <2>4
    DEF IInv, Unopened, HeaderRead, StoredDirect, InputIsWindow, OnlyDeflatedUsed,
        OneBufferInUse, EndIsSeen, InOrder
<1> QED
  BY <1>1, <1>2, <1>3, <1>4, <1>5, <1>6, <1>7, <1>8 DEF Next, Read, Done

LEMMA Invariance == Spec => []IInv
<1>1. Init => IInv
  BY InitInvariant
<1>2. IInv /\ [Next]_vars => IInv'
  BY NextInvariant
<1> QED
  BY <1>1, <1>2, PTL DEF Spec

\* The type invariant: in particular no buffer ever holds more than it has room
\* for, and the position never leaves the file.
THEOREM TypeCorrect == Spec => []TypeOK
<1>1. IInv => TypeOK
  BY DEF IInv
<1> QED
  BY <1>1, Invariance, PTL

LEMMA OrderIsKept ==
  ASSUME IInv
  PROVE  NothingLost
<1> USE DEF IInv
<1> SUFFICES ASSUME IsOpen
             PROVE  NothingLost
  BY DEF NothingLost, IsOpen
<1> DEFINE f == reading.file
<1>1. /\ f \in Seq(Cell) /\ Len(f) \in Nat /\ inPos \in 0..Len(f)
      /\ Len(zin) \in Nat
  BY FileType, BuffersType DEF TypeOK
<1>2. DataAt \in Nat /\ DataAt <= Used /\ Used \in Nat /\ Used <= inPos
  <2>1. DataAt \in Nat /\ DataAt <= Used
    BY HeaderAtOffset, FileType DEF HeaderRead, DataAt
  <2> QED
    BY <1>1, <2>1 DEF Used
<1>3. h \in Header
  BY HeaderAtOffset, FileType DEF HeaderRead
<1> HIDE DEF f
<1>4. CASE h.method = "STORED"
  <2> DEFINE cells == SubSeq(f, DataAt + 1, inPos)
  <2>1. Used = inPos /\ Delivered = inPos - DataAt
    <3>1. zin = << >> /\ zmode = "more"
      BY <1>4 DEF StoredDirect
    <3> QED
      BY <1>1, <1>2, <3>1 DEF Used, Delivered
  <2>2. /\ cells \in Seq(Cell) /\ Len(cells) = inPos - DataAt
        /\ \A i \in 1..inPos - DataAt : cells[i] = f[DataAt + i]
    BY <1>1, <1>2, <2>1, Part
  <2>3. RawBytes(cells) = [i \in 1..inPos - DataAt |-> RawByte(f[DataAt + i])]
    <3> HIDE DEF cells
    <3>1. RawBytes(cells) = [i \in 1..inPos - DataAt |-> RawByte(cells[i])]
      BY <2>2 DEF RawBytes
    <3> QED
      BY <2>2, <3>1
  <2>4. Pending = RawBytes(cells)
    BY <1>4, <2>1, <2>3 DEF InOrder, f
  <2>5. Len(Pending) = Delivered
    <3>1. Len([i \in 1..inPos - DataAt |-> RawByte(f[DataAt + i])]) = inPos - DataAt
      <4>1. inPos - DataAt \in Nat
        BY <1>1, <1>2, <2>1
      <4> QED
        BY <4>1
    <3> QED
      BY <2>1, <2>3, <2>4, <3>1
  <2> QED
    BY <1>4, <2>4, <2>5 DEF InOrder, NothingLost, f
<1>5. CASE h.method # "STORED"
  <2> DEFINE cells == SubSeq(f, DataAt + 1, Used)
  <2> DEFINE n == IF zmode = "end" THEN Len(cells) - 1 ELSE Len(cells)
  <2>1. h.method = "DEFLATED"
    BY <1>3, <1>5 DEF Header, Method
  <2>2. /\ cells \in Seq(Cell) /\ Len(cells) = Used - DataAt
        /\ \A i \in 1..Used - DataAt : cells[i] = f[DataAt + i]
    BY <1>1, <1>2, Part
  <2> HIDE DEF cells
  <2>3. n = Delivered
    BY <1>2, <2>2 DEF Delivered
  <2>4. \A i \in 1..n : cells[i].b = f[DataAt + i].b
    BY <1>2, <2>2
  <2>5. Pending = [i \in 1..n |-> cells[i].b]
    <3>1. Pending = [i \in 1..n |-> f[DataAt + i].b]
      BY <2>1, <2>3 DEF InOrder, f
    <3> QED
      BY <2>4, <3>1
  <2>6. inPos - Len(zin) = Used
    BY DEF Used
  <2> QED
    BY <1>5, <2>5, <2>6 DEF NothingLost, cells, f
<1> QED
  BY <1>4, <1>5

\* Every byte taken from the file is with the reader or in a buffer, in the
\* order of the file, for every file and every size of the two buffers: also
\* when the refills do not fall together with the ends of what was read.
THEOREM NoByteIsLost == Spec => []NothingLost
<1>1. IInv => NothingLost
  BY OrderIsKept
<1> QED
  BY <1>1, Invariance, PTL

LEMMA EndIsMarked ==
  ASSUME IInv
  PROVE  EofMeansEnd
<1> USE DEF IInv
<1> SUFFICES ASSUME status = "eof"
             PROVE  /\ h.method = "DEFLATED" =>
                            got = DeflatedContent(reading.file, reading.offset)
                    /\ reading.foreign = "nothing"
  BY DEF EofMeansEnd
<1>1. pc = "idle" /\ getArea = << >> /\ (h.method = "DEFLATED" => zmode = "end")
  BY DEF EndIsSeen
<1>2. IsOpen /\ out = << >>
  BY <1>1 DEF IsOpen, OneBufferInUse
<1>3. reading.foreign = "nothing"
  BY <1>2 DEF HeaderRead
<1> SUFFICES ASSUME h.method = "DEFLATED"
             PROVE  got = DeflatedContent(reading.file, reading.offset)
  BY <1>3
<1> DEFINE f == reading.file
<1> DEFINE d == DataAt
<1>4. /\ f \in Seq(Cell) /\ Len(f) \in Nat /\ inPos \in 0..Len(f)
      /\ Len(zin) \in Nat
  BY FileType, BuffersType DEF TypeOK
<1>5. d \in Nat
  BY <1>2, HeaderAtOffset, FileType DEF HeaderRead, DataAt
<1>6. /\ d < Used /\ f[Used].k = "zend"
      /\ \A i \in d + 1..Used - 1 : f[i].k = "zdata"
  BY <1>1, <1>2 DEF OnlyDeflatedUsed
<1>7. Used \in Nat /\ Used <= Len(f) /\ Delivered = Used - 1 - d
  BY <1>1, <1>4, <1>5, <1>6 DEF Used, Delivered
<1>8. got = [i \in 1..Used - 1 - d |-> f[d + i].b]
  <2>1. Pending = got
    <3>1. got \in Seq(Out)
      BY BuffersType
    <3> QED
      BY <1>1, <1>2, <3>1, ConcatEmptySeq DEF Pending
  <2> QED
    BY <1>2, <1>7, <2>1 DEF InOrder
<1> DEFINE ends == {q \in d..Len(f)-1 : f[q + 1].k = "zend"
                                          /\ \A i \in d+1..q : f[i].k = "zdata"}
<1> HIDE DEF f, d
<1>9. Used - 1 \in ends
  <2>1. Used - 1 \in d..Len(f)-1 /\ (Used - 1) + 1 = Used
    BY <1>4, <1>5, <1>6, <1>7
  <2> QED
    BY <1>6, <2>1
<1>10. ASSUME NEW q \in ends
       PROVE  q = Used - 1
  <2>1. /\ q \in d..Len(f)-1 /\ f[q + 1].k = "zend"
        /\ \A i \in d+1..q : f[i].k = "zdata"
    OBVIOUS
  <2>2. CASE q < Used - 1
    <3>1. q + 1 \in d + 1..Used - 1
      BY <1>5, <1>7, <2>1, <2>2
    <3> QED
      BY <1>6, <2>1, <3>1
  <2>3. CASE q > Used - 1
    <3>1. Used \in d + 1..q
      BY <1>5, <1>6, <1>7, <2>1, <2>3
    <3> QED
      BY <1>6, <2>1, <3>1
  <2> QED
    BY <1>4, <1>5, <1>7, <2>1, <2>2, <2>3
<1>11. DeflatedContent(f, reading.offset)
         = IF ends = {} THEN NoContent
           ELSE LET n == (CHOOSE q \in ends : TRUE) - d
                IN  [i \in 1..n |-> f[d + i].b]
  BY DEF DeflatedContent, d, DataAt, f
<1> HIDE DEF ends
<1>12. (CHOOSE q \in ends : TRUE) = Used - 1
  BY <1>9, <1>10
<1> QED
  BY <1>8, <1>9, <1>11, <1>12 DEF f

\* A reader is only told that a deflated entry ended after its end marker was
\* seen and all its bytes were delivered, for every file.
THEOREM CutShortIsNoEnd == Spec => []EofMeansEnd
<1>1. IInv => EofMeansEnd
  BY EndIsMarked
<1> QED
  BY <1>1, Invariance, PTL

-----------------------------------------------------------------------------
(* The abstract stream. *)

\* Nothing goes wrong with an entry that is intact.
IntactGood ==
    reading.intact =>
        /\ pc # "failed"
        /\ status # "bad"
        /\ zmode # "bad"
        /\ pc = "inflate" => err \in {"Z_OK", "Z_STREAM_END"}

\* The content of an intact entry, cell by cell.
LEMMA IntactCells ==
  ASSUME reading \in Readings, reading.intact
  PROVE  LET f == reading.file
             size == Len(reading.content)
             header == f[reading.offset + 1].h
         IN  /\ ReadableHeader(f, reading.offset, "local")
             /\ reading.foreign = "nothing"
             /\ reading.content \in Seq(Byte) /\ size \in Nat
             /\ DataAt + size <= Len(f)
             /\ header.method = "STORED" =>
                    /\ header.size = size
                    /\ \A i \in 1..size : RawByte(f[DataAt + i]) = reading.content[i]
             /\ header.method = "DEFLATED" =>
                    /\ DataAt + size < Len(f) /\ f[DataAt + size + 1].k = "zend"
                    /\ \A i \in 1..size : /\ f[DataAt + i].k = "zdata"
                                          /\ f[DataAt + i].b = reading.content[i]
<1> DEFINE f == reading.file
<1> DEFINE size == Len(reading.content)
<1> DEFINE header == f[reading.offset + 1].h
<1> DEFINE cells == SubSeq(f, DataAt + 1, DataAt + size)
<1>1. /\ f \in Seq(Cell) /\ Len(f) \in Nat /\ reading.offset \in Nat
      /\ reading.content \in Seq(Byte) /\ size \in Nat
  BY ReadingsAssumption
<1>2. /\ ReadableHeader(f, reading.offset, "local")
      /\ reading.foreign = "nothing"
      /\ DataAt + size <= Len(f)
      /\ header.method = "STORED" =>
              header.size = size /\ cells = StoredCells(reading.content)
      /\ header.method = "DEFLATED" =>
              /\ DataAt + size < Len(f) /\ f[DataAt + size + 1].k = "zend"
              /\ cells = DeflatedCells(reading.content)
  BY IntactAssumption DEF Written, DataAt
<1>3. DataAt \in Nat
  BY <1>1, <1>2, HeaderAtOffset DEF DataAt
<1>4. \A i \in 1..size : cells[i] = f[DataAt + i]
  <2> DEFINE b == DataAt + size
  <2>1. b \in Nat /\ DataAt <= b /\ b <= Len(f) /\ b - DataAt = size
    BY <1>1, <1>2, <1>3
  <2> HIDE DEF b, f
  <2>2. \A i \in 1..b - DataAt : SubSeq(f, DataAt + 1, b)[i] = f[DataAt + i]
    BY <1>1, <1>3, <2>1, Part
  <2> QED
    BY <2>1, <2>2 DEF b, f
<1> HIDE DEF cells, size, f
<1>5. ASSUME header.method = "STORED", NEW i \in 1..size
      PROVE  RawByte(f[DataAt + i]) = reading.content[i]
  <2>1. StoredCells(reading.content)[i] = [k |-> "data", b |-> reading.content[i]]
    BY <1>1 DEF StoredCells, size
  <2> QED
    BY <1>2, <1>4, <1>5, <2>1 DEF RawByte
<1>6. ASSUME header.method = "DEFLATED", NEW i \in 1..size
      PROVE  f[DataAt + i].k = "zdata" /\ f[DataAt + i].b = reading.content[i]
  <2>1. DeflatedCells(reading.content)[i] = [k |-> "zdata", b |-> reading.content[i]]
    BY <1>1 DEF DeflatedCells, size
  <2> QED
    BY <1>2, <1>4, <1>6, <2>1
<1> QED
  BY <1>1, <1>2, <1>5, <1>6 DEF f, size

\* What was delivered of an intact entry is the front of its content, all of it
\* at the end; and there is more to read before.
LEMMA IntactFront ==
  ASSUME IInv, IsOpen, reading.intact
  PROVE  LET size == Len(reading.content)
         IN  /\ size \in Nat /\ reading.content \in Seq(Byte)
             /\ Delivered \in 0..size /\ Len(Pending) = Delivered
             /\ \A i \in 1..Delivered : Pending[i] = reading.content[i]
             /\ h.method = "STORED" =>
                    /\ Delivered + remain = size
                    /\ inPos + remain <= Len(reading.file)
             /\ h.method = "DEFLATED" =>
                    /\ zmode = "end" => Delivered = size
                    /\ zmode # "end" => Used <= DataAt + size
<1> USE DEF IInv
<1> DEFINE f == reading.file
<1> DEFINE size == Len(reading.content)
<1> DEFINE d == DataAt
<1>1. /\ f \in Seq(Cell) /\ Len(f) \in Nat /\ inPos \in 0..Len(f) /\ remain \in Nat
      /\ Len(zin) \in Nat
  BY FileType, BuffersType DEF TypeOK
<1>2. h = f[reading.offset + 1].h /\ h \in Header /\ d \in Nat /\ d <= Used
  BY HeaderAtOffset, FileType DEF HeaderRead, DataAt
<1>3. /\ reading.content \in Seq(Byte) /\ size \in Nat /\ d + size <= Len(f)
      /\ h.method = "STORED" =>
            /\ h.size = size
            /\ \A i \in 1..size : RawByte(f[d + i]) = reading.content[i]
      /\ h.method = "DEFLATED" =>
            /\ f[d + size + 1].k = "zend"
            /\ \A i \in 1..size : f[d + i].k = "zdata" /\ f[d + i].b = reading.content[i]
  BY <1>2, IntactCells
<1>4. Used \in Nat /\ Used <= inPos
  BY <1>1, <1>2 DEF Used
<1>5. CASE h.method = "STORED"
  <2>1. Used = inPos /\ Delivered = inPos - d
    <3>1. zin = << >> /\ zmode = "more"
      BY <1>5 DEF StoredDirect
    <3> QED
      BY <1>1, <1>2, <3>1 DEF Used, Delivered
  <2>2. Pending = [i \in 1..Delivered |-> RawByte(f[d + i])] /\ Delivered + remain = size
    BY <1>3, <1>5 DEF InOrder
  <2>3. Delivered \in 0..size /\ inPos + remain <= Len(f)
    BY <1>1, <1>2, <1>3, <1>4, <2>1, <2>2
  <2> HIDE DEF f, size, d
  <2>4. Len(Pending) = Delivered /\ \A i \in 1..Delivered : Pending[i] = RawByte(f[d + i])
    BY <1>3, <2>2, <2>3
  <2>5. \A i \in 1..Delivered : i \in 1..size
    BY <1>3, <2>3
  <2>6. \A i \in 1..Delivered : Pending[i] = reading.content[i]
    BY <1>3, <1>5, <2>4, <2>5
  <2> QED
    BY <1>3, <1>5, <2>2, <2>3, <2>4, <2>6 DEF f, size
<1>6. CASE h.method # "STORED"
  <2>1. h.method = "DEFLATED"
    BY <1>2, <1>6 DEF Header, Method
  <2> DEFINE e == IF zmode = "end" THEN Used - 1 ELSE Used
  <2>2. /\ \A i \in d + 1..e : f[i].k = "zdata"
        /\ zmode = "end" => d < Used /\ f[Used].k = "zend"
    BY <2>1 DEF OnlyDeflatedUsed
  <2>3. e \in Nat /\ d <= e /\ Delivered = e - d
    BY <1>2, <1>4, <2>2 DEF Delivered
  <2> HIDE DEF f, size, d, e
  <2>4. e <= d + size
    <3> SUFFICES ASSUME e > d + size PROVE FALSE
      BY <1>2, <1>3, <2>3
    <3>1. d + size + 1 \in d + 1..e
      BY <1>2, <1>3, <2>3
    <3> QED
      BY <1>3, <2>1, <2>2, <3>1
  <2>5. Delivered \in 0..size
    BY <1>2, <1>3, <2>3, <2>4
  <2>6. zmode = "end" => Delivered = size
    <3> SUFFICES ASSUME zmode = "end", Delivered # size PROVE FALSE
      OBVIOUS
    <3>1. e = Used - 1 /\ d < Used /\ f[Used].k = "zend"
      BY <2>2 DEF e
    <3>2. Used - d \in 1..size /\ d + (Used - d) = Used
      BY <1>2, <1>3, <1>4, <2>3, <2>5, <3>1
    <3> QED
      BY <1>3, <2>1, <3>1, <3>2
  <2>7. Pending = [i \in 1..Delivered |-> f[d + i].b]
    BY <2>1 DEF InOrder, f, d
  <2>8. Len(Pending) = Delivered /\ \A i \in 1..Delivered : Pending[i] = f[d + i].b
    BY <1>3, <2>5, <2>7
  <2>9. \A i \in 1..Delivered : i \in 1..size
    BY <1>3, <2>5
  <2>10. \A i \in 1..Delivered : Pending[i] = reading.content[i]
    BY <1>3, <2>1, <2>8, <2>9
  <2>11. zmode # "end" => Used <= d + size
    BY <2>4 DEF e
  <2> QED
    BY <1>3, <2>1, <2>5, <2>6, <2>8, <2>10, <2>11 DEF size, d
<1> QED
  BY <1>5, <1>6

\* inflate() finds a cell to turn into a byte, or the end marker.
LEMMA IntactInflates ==
  ASSUME IInv, IntactGood, reading.intact, InflateSome
  PROVE  err' \in {"Z_OK", "Z_STREAM_END"} /\ zmode' # "bad"
<1> USE DEF IInv
<1> DEFINE F == Input
<1> DEFINE f == reading.file
<1> DEFINE n == IF zmode = "more" THEN Inflatable(F) ELSE 0
<1> DEFINE code == InflateCode(F, n)
<1> DEFINE last == DataAt + Len(reading.content)
<1>1. /\ pc = "inflate" /\ Loops /\ err' = code
      /\ zmode' = CASE code = "Z_STREAM_END" -> "end"
                    [] code = "Z_DATA_ERROR" -> "bad"
                    [] OTHER -> zmode
  BY DEF InflateSome, Input
<1>2. /\ IsOpen /\ h.method # "STORED" /\ zmode \in {"more", "end", "bad"} /\ zmode # "bad"
  BY <1>1 DEF IsOpen, StoredDirect, IntactGood, TypeOK
<1>3. h = f[reading.offset + 1].h /\ h.method = "DEFLATED"
  <2>1. h = f[reading.offset + 1].h /\ h \in Header
    BY <1>2, HeaderAtOffset, FileType DEF HeaderRead
  <2> QED
    BY <1>2, <2>1 DEF Header, Method
<1>4. CASE zmode = "end"
  <2>1. code = "Z_STREAM_END"
    BY <1>4 DEF InflateCode
  <2> QED
    BY <1>1, <2>1
<1>5. CASE zmode = "more"
  <2>1. /\ F \in Seq(Cell) /\ Len(F) \in Nat /\ Used \in Nat /\ DataAt \in Nat
        /\ \A i \in 1..Len(F) : F[i] = f[Used + i]
        /\ F = << >> => Used = Len(f)
        /\ DataAt <= Used
    BY <1>2, InputIs
  <2>2. /\ last \in Nat /\ last < Len(f) /\ f[last + 1].k = "zend"
        /\ \A i \in DataAt + 1..last : f[i].k = "zdata"
    <3>1. /\ Len(reading.content) \in Nat
          /\ last < Len(f) /\ f[last + 1].k = "zend"
          /\ \A i \in 1..Len(reading.content) : f[DataAt + i].k = "zdata"
      BY <1>3, IntactCells
    <3>2. ASSUME NEW i \in DataAt + 1..last
          PROVE  f[i].k = "zdata"
      <4>1. i - DataAt \in 1..Len(reading.content) /\ DataAt + (i - DataAt) = i
        BY <2>1, <3>1
      <4> QED
        BY <3>1, <4>1
    <3> QED
      BY <2>1, <3>1, <3>2
  <2>3. Used <= last
    BY <1>2, <1>3, <1>5, IntactFront
  <2>4. /\ out \in Seq(Byte) /\ Len(out) \in Nat /\ Len(out) < Capacity /\ Capacity \in Nat
        /\ Len(f) \in Nat
    BY <1>1, BuffersType, FileType, CapacityAssumption DEF Loops
  <2> HIDE DEF F, f, last
  <2>5. /\ n \in 0..Len(F) /\ \A i \in 1..n : F[i].k = "zdata"
        /\ n < Len(F) /\ n < Capacity - Len(out) => F[n + 1].k # "zdata"
    BY <1>5, <2>1, <2>4, InflatableIs
  <2> HIDE DEF n
  <2>6. Used + n <= last
    <3> SUFFICES ASSUME Used + n > last PROVE FALSE
      BY <2>1, <2>2, <2>5
    <3>1. last + 1 - Used \in 1..n /\ Used + (last + 1 - Used) = last + 1
      BY <2>1, <2>2, <2>3, <2>5
    <3>2. F[last + 1 - Used] = f[last + 1] /\ F[last + 1 - Used].k = "zdata"
      BY <2>1, <2>5, <3>1
    <3> QED
      BY <2>2, <3>2
  <2>7. n < Len(F) => F[n + 1].k = "zend" \/ (F[n + 1].k = "zdata" /\ n # 0)
    <3> SUFFICES ASSUME n < Len(F)
                 PROVE  F[n + 1].k = "zend" \/ (F[n + 1].k = "zdata" /\ n # 0)
      OBVIOUS
    <3>1. F[n + 1] = f[Used + n + 1]
      BY <2>1, <2>5, SMTT(20)
    <3>2. CASE Used + n = last
      BY <2>2, <3>1, <3>2
    <3>3. CASE Used + n # last
      <4>1. Used + n + 1 \in DataAt + 1..last
        BY <2>1, <2>2, <2>5, <2>6, <3>3
      <4>2. F[n + 1].k = "zdata"
        BY <2>2, <3>1, <4>1
      <4>3. n # 0
        BY <2>4, <2>5, <4>2
      <4> QED
        BY <4>2, <4>3
    <3> QED
      BY <3>2, <3>3
  <2>8. ~(n < Len(F)) => n # 0
    <3> SUFFICES ASSUME n = 0, ~(n < Len(F)) PROVE FALSE
      OBVIOUS
    <3>1. F = << >>
      BY <2>1, <2>5
    <3> QED
      BY <2>1, <2>2, <2>3, <3>1, <2>4
  <2>9. code \in {"Z_OK", "Z_STREAM_END"}
    BY <1>5, <2>5, <2>7, <2>8 DEF InflateCode
  <2> QED
    BY <1>1, <1>5, <2>9
<1> QED
  BY <1>2, <1>4, <1>5

LEMMA IntactStaysGood ==
  ASSUME IInv, IntactGood, [Next]_vars
  PROVE  IntactGood'
<1> USE DEF IntactGood
<1> SUFFICES ASSUME reading.intact
             PROVE  /\ reading' = reading
                    /\ pc' # "failed"
                    /\ status' # "bad"
                    /\ zmode' # "bad"
                    /\ pc' = "inflate" => err' \in {"Z_OK", "Z_STREAM_END"}
  <2>1. reading' = reading
    BY DEF Next, Read, Done, vars, Open, Take, UnderflowStored, UnderflowInflate,
           InflateSome, EndUnderflow, Clear
  <2> QED
    BY <2>1
<1>1. CASE Open
  <2>1. ReadableHeader(reading.file, reading.offset, "local") /\ Supported
    BY IntactCells DEF IInv, Supported
  <2> QED
    BY <1>1, <2>1 DEF Open
<1>2. CASE Take
  BY <1>2 DEF Take
<1>3. CASE UnderflowStored
  BY <1>3 DEF UnderflowStored
<1>4. CASE UnderflowInflate
  BY <1>4 DEF UnderflowInflate
<1>5. CASE InflateSome
  <2>1. reading' = reading /\ pc' = pc /\ status' = status
    BY <1>5 DEF InflateSome
  <2> QED
    BY <1>5, <2>1, IntactInflates
<1>6. CASE EndUnderflow
  <2>1. ~Broken
    BY <1>6 DEF EndUnderflow, Broken
  <2> QED
    BY <1>6, <2>1 DEF EndUnderflow
<1>7. CASE Clear
  BY <1>7 DEF Clear
<1>8. CASE UNCHANGED vars
  BY <1>8 DEF vars
<1> QED
  BY <1>1, <1>2, <1>3, <1>4, <1>5, <1>6, <1>7, <1>8 DEF Next, Read, Done

\* Both hold at once.
Good == IInv /\ IntactGood

LEMMA GoodInvariance == Spec => []Good
<1>1. Init => Good
  BY InitInvariant DEF Init, IntactGood, Good
<1>2. Good /\ [Next]_vars => Good'
  BY NextInvariant, IntactStaysGood DEF Good
<1> QED
  BY <1>1, <1>2, PTL DEF Spec

\* What a step may do to the stream of a reading that is not intact: the reader
\* is told to stop, or goes on.
LEMMA SpoiltRefines ==
  ASSUME ~reading.intact, reading' = reading
  PROVE  [Source!Next]_(Source!vars)
<1>1. CASE Stopped' = Stopped
  BY <1>1 DEF Source!vars
<1>2. CASE ~Stopped /\ Stopped'
  BY <1>2 DEF Source!Next, Source!End
<1>3. CASE Stopped /\ ~Stopped'
  BY <1>3 DEF Source!Next, Source!Clear
<1> QED
  BY <1>1, <1>2, <1>3 DEF Stopped

\* The next byte of an intact entry goes to the reader.
LEMMA TakeDelivers ==
  ASSUME Good, reading.intact, Take
  PROVE  Source!Deliver
<1> USE DEF Good, IInv
<1> DEFINE size == Len(reading.content)
<1>1. /\ pc = "idle" /\ status = "good" /\ getArea # << >>
      /\ got' = Append(got, Head(getArea))
      /\ UNCHANGED << reading, status >>
  BY DEF Take
<1>2. /\ got \in Seq(Out) /\ getArea \in Seq(Out) /\ out = << >>
  BY <1>1, BuffersType DEF OneBufferInUse
<1>3. Pending = got \o getArea
  <2>1. got \o getArea \in Seq(Out)
    BY <1>2, ConcatProperties
  <2> QED
    BY <1>2, <2>1, ConcatEmptySeq DEF Pending
<1>4. /\ Len(got) \in Nat /\ Len(getArea) \in Nat \ {0}
      /\ Len(Pending) = Len(got) + Len(getArea)
      /\ Pending[Len(got) + 1] = Head(getArea)
  <2>1. Len(got) \in Nat /\ Len(getArea) \in Nat \ {0}
    BY <1>1, <1>2
  <2>2. /\ Len(got \o getArea) = Len(got) + Len(getArea)
        /\ \A i \in 1..Len(got) + Len(getArea) :
              (got \o getArea)[i] = IF i <= Len(got) THEN got[i] ELSE getArea[i - Len(got)]
    BY <1>2, ConcatProperties
  <2>3. (got \o getArea)[Len(got) + 1] = getArea[1]
    <3>1. /\ Len(got) + 1 \in 1..Len(got) + Len(getArea)
          /\ ~(Len(got) + 1 <= Len(got)) /\ Len(got) + 1 - Len(got) = 1
      BY <2>1
    <3> QED
      BY <2>2, <3>1
  <2>4. Head(getArea) = getArea[1]
    BY <1>1, <1>2
  <2> QED
    BY <1>3, <2>1, <2>2, <2>3, <2>4
<1>5. /\ size \in Nat /\ Delivered \in 0..size /\ Len(Pending) = Delivered
      /\ \A i \in 1..Delivered : Pending[i] = reading.content[i]
  <2>1. IsOpen
    BY <1>1 DEF IsOpen
  <2> QED
    BY <2>1, IntactFront
<1> HIDE DEF size
<1>6. Len(got) < size /\ Len(got) + 1 \in 1..Delivered
  BY <1>4, <1>5
<1>7. Head(getArea) = reading.content[Len(got) + 1]
  BY <1>4, <1>5, <1>6
<1> QED
  BY <1>1, <1>6, <1>7 DEF Source!Deliver, size

\* Once an intact entry is used up and the buffers are empty, the reader has all
\* of it.
LEMMA EndIsComplete ==
  ASSUME Good, reading.intact, IsOpen, out = << >>, getArea = << >>,
         h.method = "STORED" => remain = 0,
         h.method = "DEFLATED" => zmode = "end"
  PROVE  got = reading.content
<1> USE DEF Good, IInv
<1>2. h.method \in {"STORED", "DEFLATED"}
  <2>1. h \in Header
    BY HeaderAtOffset, FileType DEF HeaderRead
  <2> QED
    BY <2>1 DEF Header, Method
<1>3. /\ Len(reading.content) \in Nat /\ reading.content \in Seq(Byte)
      /\ Delivered \in 0..Len(reading.content) /\ Len(Pending) = Delivered
      /\ \A i \in 1..Delivered : Pending[i] = reading.content[i]
      /\ h.method = "STORED" => Delivered + remain = Len(reading.content)
      /\ h.method = "DEFLATED" /\ zmode = "end" => Delivered = Len(reading.content)
  BY IntactFront
<1>4. Pending = got /\ got \in Seq(Out)
  <2>1. got \in Seq(Out)
    BY BuffersType
  <2> QED
    BY <2>1, ConcatEmptySeq DEF Pending
<1>5. Delivered = Len(reading.content)
  BY <1>2, <1>3
<1>6. reading.content \in Seq(Out)
  BY <1>3, SeqMonotonic DEF Out
<1> QED
  BY <1>3, <1>4, <1>5, <1>6, SeqEqual

LEMMA StoredRefines ==
  ASSUME Good, reading.intact, UnderflowStored
  PROVE  UNCHANGED Source!vars \/ Source!End
<1> USE DEF Good, IInv
<1> DEFINE g == Len(Sgetn(StoredRequest))
<1>1. /\ pc = "idle" /\ status = "good" /\ getArea = << >> /\ h.method = "STORED"
      /\ status' = (IF g > 0 THEN status ELSE "eof")
      /\ UNCHANGED << reading, got >>
  BY DEF UnderflowStored
<1>2. IsOpen /\ out = << >> /\ Capacity \in Nat \ {0}
  BY <1>1, CapacityAssumption DEF IsOpen, OneBufferInUse
<1>3. /\ inPos \in 0..Len(reading.file) /\ Len(reading.file) \in Nat /\ remain \in Nat
      /\ inPos + remain <= Len(reading.file)
  <2>1. inPos + remain <= Len(reading.file)
    BY <1>1, <1>2, IntactFront
  <2> QED
    BY <2>1, FileType DEF TypeOK
<1>4. g \in Nat /\ (g = 0 => remain = 0)
  <2>1. StoredRequest \in Nat /\ (StoredRequest = 0 => remain = 0)
    BY <1>2, <1>3 DEF StoredRequest, Smaller
  <2>2. /\ Available(StoredRequest) \in 0..StoredRequest /\ g = Available(StoredRequest)
        /\ Available(StoredRequest) = 0 /\ StoredRequest > 0 => inPos = Len(reading.file)
    BY <1>3, <2>1, SgetnIs
  <2> HIDE DEF g
  <2> QED
    BY <1>3, <2>1, <2>2
<1> HIDE DEF g
<1>5. CASE g > 0
  BY <1>1, <1>5 DEF Source!vars
<1>6. CASE g = 0
  <2>1. got = reading.content
    BY <1>1, <1>2, <1>4, <1>6, EndIsComplete
  <2>2. status' = "eof"
    BY <1>1, <1>6
  <2> QED
    BY <1>1, <2>1, <2>2 DEF Source!End
<1> QED
  BY <1>4, <1>5, <1>6

LEMMA EndUnderflowRefines ==
  ASSUME Good, reading.intact, EndUnderflow
  PROVE  UNCHANGED Source!vars \/ Source!End
<1> USE DEF Good, IInv
<1>1. /\ pc = "inflate" /\ ~Loops /\ ~Broken /\ UNCHANGED << reading, got >>
      /\ status' = CASE Broken -> "bad"
                     [] ~Broken /\ out = << >> -> "eof"
                     [] OTHER -> status
  BY DEF EndUnderflow, Broken, IntactGood
<1>2. IsOpen /\ getArea = << >> /\ status = "good" /\ h.method # "STORED"
  BY <1>1 DEF IsOpen, OneBufferInUse, StoredDirect
<1>3. CASE out # << >>
  BY <1>1, <1>3 DEF Source!vars
<1>4. CASE out = << >>
  <2>1. Len(out) < Capacity
    BY <1>4, CapacityAssumption
  <2>2. zmode = "end"
    BY <1>1, <2>1 DEF Loops, Broken, EndIsSeen
  <2>3. got = reading.content
    BY <1>2, <1>4, <2>2, EndIsComplete
  <2>4. status' = "eof"
    BY <1>1, <1>4
  <2> QED
    BY <1>1, <1>2, <2>3, <2>4 DEF Source!End
<1> QED
  BY <1>3, <1>4

LEMMA StepRefines ==
  ASSUME Good, [Next]_vars
  PROVE  [Source!Next]_(Source!vars)
<1>1. reading' = reading
  BY DEF Next, Read, Done, vars, Open, Take, UnderflowStored, UnderflowInflate,
         InflateSome, EndUnderflow, Clear
<1>2. CASE ~reading.intact
  BY <1>1, <1>2, SpoiltRefines
<1>3. CASE reading.intact
  <2>1. CASE Take
    BY <1>3, <2>1, TakeDelivers DEF Source!Next
  <2>2. CASE UnderflowStored
    BY <1>3, <2>2, StoredRefines DEF Source!Next
  <2>3. CASE EndUnderflow
    BY <1>3, <2>3, EndUnderflowRefines DEF Source!Next
  <2>4. CASE Clear
    <3>1. status = "eof" /\ status' = "good" /\ got' = got
      BY <1>3, <2>4 DEF Clear, Good, IInv, TypeOK, IntactGood
    <3> QED
      BY <1>1, <1>3, <3>1 DEF Source!Next, Source!Clear
  <2>5. CASE Open \/ UnderflowInflate \/ InflateSome \/ UNCHANGED vars
    <3>1. status' = status /\ got' = got
      BY <2>5 DEF Open, UnderflowInflate, InflateSome, vars
    <3> QED
      BY <1>1, <1>3, <3>1 DEF Source!vars
  <2> QED
    BY <2>1, <2>2, <2>3, <2>4, <2>5 DEF Next, Read, Done
<1> QED
  BY <1>2, <1>3

\* The stream of an intact entry does what the abstract stream of its bytes may
\* do, for every file around it and every size of the buffers: it delivers the
\* next byte, or says that it ended once all of them were delivered, and never
\* that it failed.
THEOREM StreamRefines == Spec => Source!Init /\ [][Source!Next]_(Source!vars)
<1>1. Init => Source!Init
  <2> SUFFICES ASSUME Init PROVE Source!Init
    OBVIOUS
  <2>1. reading \in Readings /\ got = << >> /\ status = "good" /\ pc = "open"
    BY DEF Init
  <2>2. reading.content \in Seq(Byte)
    BY <2>1, ReadingsAssumption
  <2>3. (IF reading.intact THEN reading.content ELSE << >>) \in Seq(Byte)
    BY <2>2
  <2> QED
    BY <2>1, <2>3 DEF Source!Init, Stopped
<1>2. Good /\ [Next]_vars => [Source!Next]_(Source!vars)
  BY StepRefines
<1> QED
  BY <1>1, <1>2, GoodInvariance, PTL DEF Spec

=============================================================================
