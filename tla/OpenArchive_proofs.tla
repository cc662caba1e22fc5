-------------------------- MODULE OpenArchive_proofs --------------------------
(***************************************************************************)
(* What holds of opening every file, for every size of chunk and every     *)
(* place of an embedded archive: the search for the end of central         *)
(* directory, the checks that follow, and what is read back.               *)
(***************************************************************************)
EXTENDS OpenArchive, WellFoundedInduction, TLAPS

FileCell == Cell \cup [k : {"start"}, at : Nat]

-----------------------------------------------------------------------------
(* The inductive invariant. *)

SearchType ==
    /\ start \in Nat
    /\ end \in Nat
    /\ filePos \in Nat
    /\ chunkSize \in 0..ChunkSize
    /\ buf \in Seq(FileCell)
    /\ readP \in -1..ChunkSize - 1
    /\ pc \in Pc
    /\ file \in Seq(FileCell)

Unread ==
    pc \in {"seek", "back"} =>
        buf = << >> /\ readP = -1 /\ chunkSize = ChunkSize

\* The virtual ends are in the file once the BackBuffer exists.
Inside == pc = "search" => start + end <= Len(file)

Size == Len(file) - end - start

\* What is behind the buffer are whole chunks, and only the chunk at the front
\* of the archive is shorter; an empty chunk ends the search.
Chunks ==
    pc = "search" =>
        /\ chunkSize # 0
        /\ buf = << >> => filePos = Size /\ chunkSize = ChunkSize
        /\ chunkSize = ChunkSize \/ filePos = 0
        /\ Len(buf) <= ChunkSize
        /\ buf # << >> => Len(buf) = ChunkSize \/ filePos = 0
        /\ \E k \in Nat : Size - (filePos + Len(buf)) = k * ChunkSize

Window ==
    pc = "search" =>
        /\ readP < Len(buf)
        /\ \A i \in 1..Len(buf) : buf[i] = file[start + filePos + i]

IInv == SearchType /\ Unread /\ Inside /\ Chunks /\ Window /\ NothingMissed

-----------------------------------------------------------------------------
(* Which chunk a place of the file is in. *)

LEMMA Multiple ==
  ASSUME NEW k \in Nat
  PROVE  /\ k * ChunkSize \in Nat
         /\ (k + 1) * ChunkSize = k * ChunkSize + ChunkSize
BY ChunkSizeAssumption

LEMMA DivisionIs ==
  ASSUME NEW a \in Nat
  PROVE  /\ a \div ChunkSize \in Nat
         /\ (a \div ChunkSize) * ChunkSize <= a
BY ChunkSizeAssumption

LEMMA Quotient ==
  ASSUME NEW a \in Nat, NEW k \in Nat,
         k * ChunkSize <= a, a < k * ChunkSize + ChunkSize
  PROVE  a \div ChunkSize = k
BY ChunkSizeAssumption

\* What begins in the chunk that ends at offset to, is in it or is in no chunk
\* as a whole.
LEMMA InWindow ==
  ASSUME NEW F, Len(F) \in Nat, NEW k \in Nat, NEW to \in Nat,
         Len(F) - to = k * ChunkSize,
         NEW p \in Nat, p < to, to - p <= ChunkSize, NEW n \in Nat \ {0}
  PROVE  InOneChunk(F, p, n) <=> p + n <= to
<1>1. k * ChunkSize \in Nat /\ ChunkSize \in Nat \ {0} /\ to <= Len(F)
  BY Multiple, ChunkSizeAssumption
<1>2. ASSUME NEW q \in Nat, q < to, to - q <= ChunkSize
      PROVE  ChunksBehind(F, q) = k
  <2> DEFINE a == Len(F) - 1 - q
  <2>1. a \in Nat /\ k * ChunkSize <= a /\ a < k * ChunkSize + ChunkSize
    BY <1>1, <1>2
  <2> HIDE DEF a
  <2>2. a \div ChunkSize = k
    BY <2>1, Quotient
  <2> QED
    BY <2>2 DEF ChunksBehind, a
<1>3. ChunksBehind(F, p) = k
  BY <1>2
<1>4. p + n <= to => p + n <= Len(F) /\ ChunksBehind(F, p + n - 1) = k
  BY <1>1, <1>2
<1>5. ASSUME p + n <= Len(F), ChunksBehind(F, p + n - 1) = k
      PROVE  p + n <= to
  <2> DEFINE a == Len(F) - 1 - (p + n - 1)
  <2>1. a \in Nat /\ a = Len(F) - (p + n)
    BY <1>5
  <2>2. a \div ChunkSize = k
    BY <1>5 DEF ChunksBehind
  <2> HIDE DEF a
  <2>3. k * ChunkSize <= a
    BY <2>1, <2>2, DivisionIs
  <2> QED
    BY <1>1, <2>1, <2>3
<1> QED
  BY <1>3, <1>4, <1>5 DEF InOneChunk

-----------------------------------------------------------------------------
(* The archive between the virtual ends. *)

LEMMA ViewIs ==
  ASSUME SearchType, start + end <= Len(file)
  PROVE  /\ View \in Seq(FileCell)
         /\ Len(View) = Size
         /\ \A i \in 1..Size : View[i] = file[start + i]
<1>1. Len(file) \in Nat /\ start \in Nat /\ end \in Nat
  BY DEF SearchType
<1>2. Size \in Nat /\ start + Size = Len(file) - end
  BY <1>1 DEF Size
<1>3. View = [i \in 1..Size |-> file[start + i]]
  BY <1>1, <1>2 DEF View, Between, Size, SearchType
<1>4. \A i \in 1..Size : file[start + i] \in FileCell
  BY <1>1, <1>2 DEF SearchType
<1> QED
  BY <1>2, <1>3, <1>4

LEMMA InitInvariant == Init => IInv
<1> SUFFICES ASSUME Init PROVE IInv
  OBVIOUS
<1>1. SearchType
  BY OpeningsAssumption, ChunkSizeAssumption DEF Init, SearchType, Pc, file, FileCell
<1>2. pc # "search"
  BY DEF Init
<1> QED
  BY <1>1, <1>2 DEF IInv, Init, Unread, Inside, Chunks, Window, NothingMissed

-----------------------------------------------------------------------------
(* The steps of the search. *)

LEMMA ReadStartInvariant ==
  ASSUME IInv, ReadStart
  PROVE  IInv'
<1>1. SearchType /\ file' = file /\ filePos' = filePos /\ chunkSize' = chunkSize
      /\ buf' = buf /\ readP' = readP /\ pc = "seek"
  BY DEF IInv, ReadStart, file
<1>2. start' \in Nat /\ end' \in Nat /\ pc' \in {"back", "done"}
  <2>1. CASE file = << >>
    BY <1>1, <2>1 DEF ReadStart, Fail, SearchType
  <2>2. CASE file # << >>
    <3>1. file[Len(file)] \in FileCell /\ Len(file) \in Nat
      BY <1>1, <2>2 DEF SearchType
    <3>2. StartFields \subseteq Nat
      <4>1. CASE file[Len(file)].k = "start"
        <5>1. file[Len(file)] \in [k : {"start"}, at : Nat]
          BY <3>1, <4>1 DEF FileCell, Cell, PadKind
        <5>2. file[Len(file)].at \in Nat
          BY <5>1
        <5>3. StartFields = {file[Len(file)].at}
          BY <4>1 DEF StartFields
        <5> QED
          BY <5>2, <5>3
      <4>2. CASE file[Len(file)].k # "start"
        <5>1. StartFields = 0..Len(file)
          BY <4>2 DEF StartFields
        <5> QED
          BY <3>1, <5>1
      <4> QED
        BY <4>1, <4>2
    <3>3. start' \in StartFields /\ end' = 1 /\ pc' = "back"
      BY <2>2 DEF ReadStart
    <3> QED
      BY <3>2, <3>3
  <2> QED
    BY <2>1, <2>2
<1>3. SearchType'
  BY <1>1, <1>2 DEF SearchType, Pc
<1>4. Unread'
  BY <1>1 DEF IInv, Unread
<1> QED
  BY <1>2, <1>3, <1>4 DEF IInv, Inside, Chunks, Window, NothingMissed

LEMMA OpenBackBufferInvariant ==
  ASSUME IInv, OpenBackBuffer
  PROVE  IInv'
<1>1. SearchType /\ Unread /\ pc = "back"
  BY DEF IInv, OpenBackBuffer
<1>2. Len(file) \in Nat /\ start \in Nat /\ end \in Nat
  BY <1>1 DEF SearchType
<1>3. /\ file' = file /\ start' = start /\ end' = end
      /\ chunkSize' = chunkSize /\ buf' = buf /\ readP' = readP
  BY DEF OpenBackBuffer, file
<1>4. buf = << >> /\ readP = -1 /\ chunkSize = ChunkSize
  BY <1>1 DEF Unread
<1>5. CASE end > Len(file) \/ Len(file) - end < start
  <2>1. pc' = "done" /\ filePos' = filePos
    BY <1>5 DEF OpenBackBuffer, Fail
  <2>2. SearchType'
    BY <1>1, <1>3, <2>1 DEF SearchType, Pc
  <2> QED
    BY <2>1, <2>2 DEF IInv, Unread, Inside, Chunks, Window, NothingMissed
<1>6. CASE ~(end > Len(file) \/ Len(file) - end < start)
  <2>1. filePos' = Size /\ filePos' \in Nat /\ pc' = "search"
    BY <1>2, <1>6 DEF OpenBackBuffer, Size
  <2>2. start + end <= Len(file)
    BY <1>2, <1>6
  <2>3. SearchType'
    BY <1>1, <1>3, <2>1 DEF SearchType, Pc
  <2>4. Inside'
    BY <1>3, <2>2 DEF Inside
  <2>5. Size' = Size
    BY <1>3 DEF Size
  <2>6. Chunks'
    <3>1. Size \in Nat /\ Size - (Size + 0) = 0 * ChunkSize
      BY <1>3, <2>1, ChunkSizeAssumption
    <3> QED
      BY <1>3, <1>4, <2>1, <2>5, <3>1, ChunkSizeAssumption DEF Chunks
  <2>7. Window'
    BY <1>3, <1>4 DEF Window
  <2>8. NothingMissed'
    <3>1. View' = View /\ Len(View) = Size
      BY <1>1, <1>3, <2>2, ViewIs DEF View
    <3>2. Place' = Size - 1
      BY <1>3, <1>4, <2>1 DEF Place
    <3>3. \A p \in EocdOffsets(View) : p <= Size - 1
      BY <3>1 DEF EocdOffsets
    <3> QED
      BY <3>1, <3>2, <3>3 DEF NothingMissed
  <2> QED
    BY <2>1, <2>3, <2>4, <2>6, <2>7, <2>8 DEF IInv, Unread
<1> QED
  BY <1>5, <1>6

LEMMA ReadChunkInvariant ==
  ASSUME IInv, ReadChunk
  PROVE  /\ IInv'
         /\ pc' = "search" => Place' = Place
<1> DEFINE c == NextChunk
<1> DEFINE at == filePos - c
<1>1. SearchType /\ Inside /\ Chunks /\ NothingMissed /\ pc = "search" /\ readP = -1
  BY DEF IInv, ReadChunk, SearchType
<1>2. /\ Len(file) \in Nat /\ start \in Nat /\ end \in Nat /\ filePos \in Nat
      /\ Len(buf) \in Nat /\ start + end <= Len(file) /\ ChunkSize \in Nat \ {0}
  BY <1>1, ChunkSizeAssumption DEF SearchType, Inside
<1>3. /\ Size \in Nat /\ filePos + Len(buf) <= Size
      /\ \E k \in Nat : Size - (filePos + Len(buf)) = k * ChunkSize
  <2>1. PICK k \in Nat : Size - (filePos + Len(buf)) = k * ChunkSize
    BY <1>1 DEF Chunks
  <2>2. k * ChunkSize \in Nat /\ Size \in Int /\ start + Size = Len(file) - end
    BY <1>2, Multiple DEF Size
  <2> QED
    BY <1>2, <2>1, <2>2
<1>4. c \in 0..ChunkSize /\ c <= filePos /\ at \in Nat
  BY <1>1, <1>2 DEF NextChunk, SearchType
<1>5. start + at >= 0 /\ start + at + c <= Len(file)
  BY <1>2, <1>3, <1>4 DEF Size
<1>6. /\ file' = file /\ start' = start /\ end' = end /\ Size' = Size
      /\ filePos' = at /\ chunkSize' = c /\ readP' = c - 1
  BY <1>1, <1>4, <1>5 DEF ReadChunk, Reposition, file, Size
<1>7. CASE c = 0
  <2>1. pc' = "done" /\ buf' = << >>
    BY <1>5, <1>7 DEF ReadChunk, NoMore, Fail
  <2>2. SearchType'
    BY <1>1, <1>2, <1>4, <1>6, <1>7, <2>1 DEF SearchType, Pc
  <2> QED
    BY <2>1, <2>2 DEF IInv, Unread, Inside, Chunks, Window, NothingMissed
<1>8. CASE c > 0
  <2> DEFINE chunk == SubSeq(file, start + at + 1, start + at + c)
  <2>1. pc' = "search" /\ buf' = chunk
    <3>1. c # 0
      BY <1>4, <1>8
    <3>2. buf' = IF start + at >= 0 /\ start + at + c <= Len(file) /\ c > 0
                 THEN chunk ELSE << >>
      BY DEF ReadChunk
    <3>3. UNCHANGED << pc, result >>
      BY <1>5, <3>1 DEF ReadChunk, NoMore
    <3> QED
      BY <1>1, <1>5, <1>8, <3>2, <3>3
  <2>2. buf' = [i \in 1..c |-> file[start + at + i]]
    BY <1>1, <1>2, <1>4, <1>5, <1>8, <2>1 DEF SearchType
  <2>3. \A i \in 1..c : file[start + at + i] \in FileCell
    BY <1>1, <1>2, <1>4, <1>5 DEF SearchType
  <2>4. buf' \in Seq(FileCell) /\ Len(buf') = c
    BY <1>4, <2>2, <2>3
  <2>5. SearchType'
    BY <1>1, <1>2, <1>4, <1>6, <1>8, <2>1, <2>4 DEF SearchType, Pc
  <2>6. Inside'
    BY <1>2, <1>6 DEF Inside
  <2>7. Window'
    BY <1>4, <1>6, <2>2, <2>4 DEF Window
  <2>8. Chunks'
    <3>1. buf' # << >> /\ c # 0 /\ filePos # 0 /\ chunkSize = ChunkSize
      BY <1>1, <1>2, <1>4, <1>8, <2>4 DEF Chunks
    <3>2. c = ChunkSize \/ at = 0
      BY <1>2, <1>4, <3>1 DEF NextChunk
    <3>3. at + Len(buf') = filePos
      BY <1>2, <1>4, <2>4
    <3>4. \E k \in Nat : Size - filePos = k * ChunkSize
      <4>1. PICK k \in Nat : Size - (filePos + Len(buf)) = k * ChunkSize
        BY <1>3
      <4>2. CASE buf = << >>
        BY <1>2, <4>1, <4>2
      <4>3. CASE buf # << >>
        <5>1. Len(buf) = ChunkSize
          BY <1>1, <3>1, <4>3 DEF Chunks
        <5>2. Size - filePos = (k + 1) * ChunkSize
          BY <1>2, <1>3, <4>1, <5>1, Multiple
        <5> QED
          BY <5>2
      <4> QED
        BY <4>2, <4>3
    <3> QED
      BY <1>4, <1>6, <2>4, <3>1, <3>2, <3>3, <3>4 DEF Chunks
  <2>9. Place' = Place
    BY <1>1, <1>2, <1>4, <1>6 DEF Place
  <2>10. NothingMissed'
    BY <1>1, <1>6, <2>9 DEF NothingMissed, View
  <2> QED
    BY <2>1, <2>5, <2>6, <2>7, <2>8, <2>9, <2>10 DEF IInv, Unread
<1> QED
  BY <1>4, <1>7, <1>8

\* What the read pointer sees in the buffer is what the archive has at that
\* place, as far as the chunk goes.
LEMMA SeenAtPlace ==
  ASSUME IInv, pc = "search", readP >= 0
  PROVE  /\ View \in Seq(FileCell) /\ Len(View) = Size
         /\ Place \in Nat /\ Place + 1 \in 1..Len(View)
         /\ buf[readP + 1] = View[Place + 1]
         /\ buf[readP + 1] \in FileCell
         /\ \A n \in Nat \ {0} :
                InOneChunk(View, Place, n) <=> readP + n <= Len(buf)
         /\ Signature <=> Place \in EocdOffsets(View)
<1>1. SearchType /\ start + end <= Len(file) /\ Chunks /\ Window
  BY DEF IInv, Inside
<1>2. /\ Len(file) \in Nat /\ start \in Nat /\ end \in Nat /\ filePos \in Nat
      /\ Len(buf) \in Nat /\ ChunkSize \in Nat \ {0} /\ EocdSize \in Nat \ {0}
      /\ readP \in 0..Len(buf) - 1 /\ Size \in Nat
  BY <1>1, ChunkSizeAssumption, EocdSizeAssumption DEF SearchType, Window, Size
<1>3. /\ View \in Seq(FileCell) /\ Len(View) = Size
      /\ \A i \in 1..Size : View[i] = file[start + i]
  BY <1>1, ViewIs
<1> DEFINE place == filePos + readP
<1> DEFINE to == filePos + Len(buf)
<1>4. PICK k \in Nat : Size - to = k * ChunkSize
  BY <1>1 DEF Chunks
<1>5. /\ place \in Nat /\ to \in Nat /\ place < to
      /\ to - place <= ChunkSize /\ to <= Size
  <2>1. k * ChunkSize \in Nat
    BY Multiple
  <2>2. Len(buf) <= ChunkSize
    BY <1>1 DEF Chunks
  <2> QED
    BY <1>2, <1>4, <2>1, <2>2
<1>6. buf[readP + 1] = View[place + 1]
  <2>1. readP + 1 \in 1..Len(buf) /\ place + 1 \in 1..Size
    BY <1>2, <1>5
  <2>2. buf[readP + 1] = file[start + filePos + (readP + 1)]
    BY <1>1, <2>1 DEF Window
  <2>3. View[place + 1] = file[start + (place + 1)]
    BY <1>3, <2>1
  <2>4. start + filePos + (readP + 1) = start + (place + 1)
    BY <1>2
  <2> QED
    BY <2>2, <2>3, <2>4
<1>7. buf[readP + 1] \in FileCell
  BY <1>2, <1>3, <1>5, <1>6
<1>8. ASSUME NEW n \in Nat \ {0}
      PROVE  InOneChunk(View, place, n) <=> readP + n <= Len(buf)
  <2>1. InOneChunk(View, place, n) <=> place + n <= to
    <3> HIDE DEF place, to
    <3> QED
      BY <1>2, <1>3, <1>4, <1>5, InWindow
  <2>2. place + n <= to <=> readP + n <= Len(buf)
    BY <1>2
  <2> QED
    BY <2>1, <2>2
<1>9. Signature <=> place \in EocdOffsets(View)
  <2>1. place \in 0..Len(View) - 1
    BY <1>2, <1>3, <1>5
  <2>2. place \in EocdOffsets(View)
        <=> View[place + 1].k = "eocd" /\ InOneChunk(View, place, EocdSize)
    <3> HIDE DEF place
    <3> QED
      BY <2>1 DEF EocdOffsets
  <2>3. Len(buf) - readP >= EocdSize <=> readP + EocdSize <= Len(buf)
    BY <1>2
  <2>4. InOneChunk(View, place, EocdSize) <=> readP + EocdSize <= Len(buf)
    BY <1>2, <1>8
  <2> QED
    BY <1>6, <2>2, <2>3, <2>4 DEF Signature
<1> QED
  BY <1>2, <1>3, <1>5, <1>6, <1>7, <1>8, <1>9 DEF Place

LEMMA ScanInvariant ==
  ASSUME IInv, Scan
  PROVE  /\ IInv'
         /\ pc' = "search" => Place' = Place - 1
<1>1. /\ SearchType /\ Inside /\ Chunks /\ Window /\ NothingMissed
      /\ pc = "search" /\ readP >= 0
  BY DEF IInv, Scan
<1>2. /\ Len(file) \in Nat /\ start \in Nat /\ end \in Nat /\ filePos \in Nat
      /\ Len(buf) \in Nat /\ start + end <= Len(file) /\ ChunkSize \in Nat \ {0}
      /\ readP \in 0..Len(buf) - 1 /\ EocdSize \in Nat \ {0}
  BY <1>1, ChunkSizeAssumption, EocdSizeAssumption DEF SearchType, Inside, Window
<1>3. /\ file' = file /\ start' = start /\ end' = end /\ filePos' = filePos
      /\ chunkSize' = chunkSize /\ buf' = buf
  BY DEF Scan, file
<1>4. CASE Signature
  <2>1. pc' \in {"central", "done"} /\ readP' = readP
    BY <1>4 DEF Scan, Fail
  <2>2. SearchType'
    BY <1>1, <1>3, <2>1 DEF SearchType, Pc
  <2> QED
    BY <2>1, <2>2 DEF IInv, Unread, Inside, Chunks, Window, NothingMissed
<1>5. CASE ~Signature
  <2>1. pc' = "search" /\ readP' = readP - 1
    BY <1>1, <1>5 DEF Scan
  <2>2. SearchType'
    BY <1>1, <1>2, <1>3, <2>1 DEF SearchType, Pc
  <2>3. Inside' /\ Window' /\ Chunks'
    BY <1>1, <1>2, <1>3, <2>1 DEF Inside, Window, Chunks, Size
  <2>4. Place' = Place - 1 /\ Place \in Nat
    BY <1>2, <1>3, <2>1 DEF Place
  <2>5. View' = View /\ Len(View) = Size /\ Size \in Nat
    BY <1>1, <1>2, <1>3, ViewIs DEF View, Size
  <2>6. Place \notin EocdOffsets(View)
    BY <1>1, <1>5, SeenAtPlace
  <2>7. NothingMissed'
    <3>1. \A p \in EocdOffsets(View) : p \in Nat
      BY <2>5 DEF EocdOffsets
    <3> QED
      BY <1>1, <2>4, <2>5, <2>6, <3>1 DEF NothingMissed
  <2> QED
    BY <2>1, <2>2, <2>3, <2>4, <2>7 DEF IInv, Unread
<1> QED
  BY <1>4, <1>5

LEMMA NextInvariant ==
  ASSUME IInv, [Next]_vars
  PROVE  /\ IInv'
         /\ pc = "search" /\ pc' = "search" =>
              \/ readP < 0 /\ Place' = Place
              \/ readP >= 0 /\ Place' = Place - 1
              \/ UNCHANGED vars
<1>1. CASE ReadStart
  BY <1>1, ReadStartInvariant DEF ReadStart
<1>2. CASE OpenBackBuffer
  BY <1>2, OpenBackBufferInvariant DEF OpenBackBuffer
<1>3. CASE ReadChunk
  BY <1>3, ReadChunkInvariant DEF ReadChunk
<1>4. CASE Scan
  BY <1>4, ScanInvariant DEF Scan
<1>5. CASE ReadCentral \/ CheckLayout \/ CheckEntry \/ Opened
  <2>1. /\ pc' \in {"central", "check", "done"} /\ pc # "search" /\ file' = file
        /\ UNCHANGED << start, end, filePos, chunkSize, buf, readP >>
    BY <1>5 DEF ReadCentral, CheckLayout, CheckEntry, Opened, Fail, file
  <2>2. SearchType'
    BY <2>1 DEF IInv, SearchType, Pc
  <2> QED
    BY <2>1, <2>2 DEF IInv, Unread, Inside, Chunks, Window, NothingMissed
<1>6. CASE UNCHANGED vars
  <2>1. /\ file' = file /\ pc' = pc
        /\ UNCHANGED << start, end, filePos, chunkSize, buf, readP >>
    BY <1>6 DEF vars, file
  <2> QED
    BY <1>6, <2>1 DEF IInv, SearchType, Unread, Inside, Chunks, Window,
       NothingMissed, View, Place, Size
<1> QED
  BY <1>1, <1>2, <1>3, <1>4, <1>5, <1>6 DEF Next, Step, Done

LEMMA Invariance == Spec => []IInv
  BY InitInvariant, NextInvariant, PTL DEF Spec

-----------------------------------------------------------------------------
(* The invariant of the walk through the directory, on top of the one of    *)
(* the search.                                                             *)

DirectoryType ==
    /\ opening \in Openings
    /\ eocd \in [k : {"eocd"}, count : Nat, size : Nat, offset : Nat, clen : Nat]
    /\ tell \in Nat
    /\ entries \in Seq(Header)
    /\ num \in Nat \ {0}
    /\ result \in Result
    /\ result = "opening" <=> pc # "done"

\* The ends are those that the opening is meant to have.
AtPlace ==
    opening.intact =>
        IF pc = "seek" THEN opening.embedded ELSE Holds(opening, start, end)

\* What was found is the last end of central directory of the archive.
Located ==
    pc \in {"central", "check"} \/ result = "opened" =>
        /\ start + end <= Len(file)
        /\ EocdReadable(View) /\ eocd = Eocd(View)

Offsets == CentralOffsets(Rest, eocd)

\* The i-th entry was read where the directory has it.
Listed(i) ==
    /\ Offsets[i] \in Nat
    /\ ReadableHeader(Rest, Offsets[i], "central")
    /\ entries[i] = Rest[Offsets[i] + 1].h

\* The local header of the i-th entry says the same.
Agrees(i) ==
    /\ ReadableHeader(Rest, entries[i].offset, "local")
    /\ SameEntry(Rest[entries[i].offset + 1].h, entries[i])

Walk ==
    /\ pc \in {"seek", "back", "search"} => num = 1 /\ entries = << >>
    /\ pc = "central" =>
        /\ num <= eocd.count + 1
        /\ Len(entries) = num - 1
        /\ Offsets[num] \in Nat
        /\ tell = start + Offsets[num]
        /\ \A i \in 1..num - 1 : Listed(i)

Walked ==
    pc = "check" \/ result = "opened" =>
        /\ Len(entries) = eocd.count
        /\ num <= eocd.count + 1
        /\ Offsets[eocd.count + 1] = eocd.offset + eocd.size
        /\ \A i \in 1..eocd.count : Listed(i)
        /\ \A i \in 1..num - 1 : Agrees(i)
        /\ result = "opened" => num = eocd.count + 1

Verdict ==
    pc = "done" /\ start + end <= Len(file) =>
        (result = "opened" <=> EocdReadable(View) /\ Consistent(Rest, Eocd(View)))

Full ==
    /\ IInv
    /\ DirectoryType
    /\ AtPlace
    /\ Located
    /\ Walk
    /\ Walked
    /\ Verdict

-----------------------------------------------------------------------------
(* Headers and the offsets of the directory. *)

LEMMA SmallestOfNat ==
  ASSUME NEW S, S \subseteq Nat, S # {}
  PROVE  \E k \in S : \A j \in S : k <= j
<1>1. IsWellFoundedOn(OpToRel(<, Nat), Nat)
  BY NatLessThanWellFounded
<1>2. \E k \in S : \A j \in S : ~(<< j, k >> \in OpToRel(<, Nat))
  BY <1>1, WFMin
<1>3. \A j, k \in Nat : j < k => << j, k >> \in OpToRel(<, Nat)
  BY DEF OpToRel
<1>4. \A j, k \in Nat : ~(j < k) => k <= j
  OBVIOUS
<1> QED
  BY <1>2, <1>3, <1>4

LEMMA HeaderCell ==
  ASSUME NEW c \in FileCell, c.k \in {"local", "central"}
  PROVE  c.h \in Header
<1>1. c \in [k : {"local", "central"}, h : Header]
  BY DEF FileCell, Cell, PadKind
<1> QED
  BY <1>1

LEMMA EocdCell ==
  ASSUME NEW c \in FileCell, c.k = "eocd"
  PROVE  c \in [k : {"eocd"}, count : Nat, size : Nat, offset : Nat, clen : Nat]
BY DEF FileCell, Cell, PadKind

LEMMA HeaderCellsIs ==
  ASSUME NEW h \in Header
  PROVE  HeaderCells(h) \in Nat \ {0}
<1>1. h.nlen \in Nat /\ h.xlen \in Nat /\ h.clen \in Nat
  BY DEF Header
<1> QED
  BY <1>1 DEF HeaderCells

LEMMA ReadableIs ==
  ASSUME NEW F \in Seq(FileCell), NEW p \in Int, NEW kind \in {"local", "central"},
         ReadableHeader(F, p, kind)
  PROVE  /\ p \in Nat /\ p < Len(F)
         /\ F[p + 1] \in FileCell
         /\ F[p + 1].h \in Header
         /\ HeaderCells(F[p + 1].h) \in Nat \ {0}
<1>1. 0 <= p /\ p < Len(F) /\ F[p + 1].k = kind /\ Len(F) \in Nat
  BY DEF ReadableHeader
<1>2. p \in Nat /\ p + 1 \in 1..Len(F)
  BY <1>1
<1>3. F[p + 1] \in FileCell
  BY <1>2
<1> QED
  BY <1>1, <1>2, <1>3, HeaderCell, HeaderCellsIs

\* Where the entry after the one at offset p begins.
After(f, p) ==
    IF ReadableHeader(f, p, "central") THEN p + HeaderCells(f[p + 1].h) ELSE -1

\* The function on the first m places that CentralOffsets() defines.
FirstOffsets(f, e, m, g) ==
    g = [i \in 1..m |-> IF i = 1 THEN e.offset ELSE After(f, g[i - 1])]

\* There is such a function, however long the directory is.
LEMMA OffsetsExist ==
  ASSUME NEW f, NEW e, NEW n \in Nat
  PROVE  \E g : FirstOffsets(f, e, n, g)
<1> DEFINE Without == {m \in Nat : ~ \E g : FirstOffsets(f, e, m, g)}
<1> SUFFICES ASSUME Without # {} PROVE FALSE
  OBVIOUS
<1>1. PICK m \in Without : \A j \in Without : m <= j
  <2>1. Without \subseteq Nat
    OBVIOUS
  <2> HIDE DEF Without
  <2> QED
    BY <2>1, SmallestOfNat
<1>2. m # 0
  <2> SUFFICES ASSUME m = 0 PROVE FALSE
    OBVIOUS
  <2>1. << >> = [i \in 1..0 |-> IF i = 1 THEN e.offset ELSE After(f, << >>[i - 1])]
    OBVIOUS
  <2> QED
    BY <1>1, <2>1 DEF FirstOffsets
<1>3. m - 1 \in Nat /\ m - 1 \notin Without
  BY <1>1, <1>2
<1>4. PICK g : FirstOffsets(f, e, m - 1, g)
  BY <1>3
<1> DEFINE extended == [i \in 1..m |-> IF i = 1 THEN e.offset ELSE After(f, g[i - 1])]
<1>5. ASSUME NEW i \in 1..m - 1
      PROVE  extended[i] = g[i]
  <2>1. g = [k \in 1..m - 1 |-> IF k = 1 THEN e.offset ELSE After(f, g[k - 1])]
    BY <1>4 DEF FirstOffsets
  <2>2. i \in 1..m
    BY <1>1
  <2> QED
    BY <2>1, <2>2
<1>6. \A i \in 1..m : i # 1 => extended[i - 1] = g[i - 1]
  <2>1. \A i \in 1..m : i # 1 => i - 1 \in 1..m - 1
    BY <1>1
  <2> QED
    BY <1>5, <2>1
<1>7. extended = [i \in 1..m |-> IF i = 1 THEN e.offset ELSE After(f, extended[i - 1])]
  <2>1. \A i \in 1..m :
            (IF i = 1 THEN e.offset ELSE After(f, g[i - 1]))
            = (IF i = 1 THEN e.offset ELSE After(f, extended[i - 1]))
    <3> HIDE DEF extended
    <3> QED
      BY <1>6
  <2> QED
    BY <2>1
<1> HIDE DEF extended
<1> QED
  BY <1>1, <1>7 DEF FirstOffsets

LEMMA CentralOffsetsAre ==
  ASSUME NEW f, NEW e, e.count \in Nat
  PROVE  /\ CentralOffsets(f, e)[1] = e.offset
         /\ \A i \in 1..e.count :
                CentralOffsets(f, e)[i + 1] = After(f, CentralOffsets(f, e)[i])
<1> DEFINE n == e.count + 1
<1> DEFINE at == CentralOffsets(f, e)
<1>1. n \in Nat /\ n >= 1
  OBVIOUS
<1>2. at = CHOOSE g : FirstOffsets(f, e, n, g)
  BY DEF CentralOffsets, FirstOffsets, After
<1>3. FirstOffsets(f, e, n, at)
  <2> HIDE DEF at, n
  <2> QED
    BY <1>1, <1>2, OffsetsExist
<1>4. at = [i \in 1..n |-> IF i = 1 THEN e.offset ELSE After(f, at[i - 1])]
  <2> HIDE DEF at, n
  <2> QED
    BY <1>3 DEF FirstOffsets
<1>5. at[1] = e.offset
  <2> HIDE DEF at
  <2> QED
    BY <1>1, <1>4
<1>6. ASSUME NEW i \in 1..e.count
      PROVE  at[i + 1] = After(f, at[i])
  <2>1. i + 1 \in 1..n /\ i + 1 # 1 /\ (i + 1) - 1 = i
    OBVIOUS
  <2> HIDE DEF at, n
  <2> QED
    BY <1>4, <2>1
<1> QED
  BY <1>5, <1>6

-----------------------------------------------------------------------------
(* The rest of the file. *)

LEMMA RestIs ==
  ASSUME SearchType, start <= Len(file)
  PROVE  /\ Rest \in Seq(FileCell)
         /\ Len(Rest) = Len(file) - start
         /\ \A i \in 1..Len(Rest) : Rest[i] = file[start + i]
<1> DEFINE n == Len(file) - start
<1>1. Len(file) \in Nat /\ start \in Nat /\ n \in Nat /\ start + n = Len(file)
  BY DEF SearchType
<1>2. Rest = [i \in 1..n |-> file[start + i]]
  BY <1>1 DEF Rest, Between, SearchType
<1>3. \A i \in 1..n : file[start + i] \in FileCell
  BY <1>1 DEF SearchType
<1> HIDE DEF n
<1>4. Rest \in Seq(FileCell) /\ Len(Rest) = n
  BY <1>1, <1>2, <1>3
<1>5. \A i \in 1..n : Rest[i] = file[start + i]
  BY <1>2
<1> QED
  BY <1>4, <1>5 DEF n

\* The start offset added to an offset of the archive gives its place in the
\* file.
LEMMA ReadableInRest ==
  ASSUME SearchType, start <= Len(file), NEW p \in Nat,
         NEW kind \in {"local", "central"}
  PROVE  /\ ReadableHeader(file, start + p, kind) <=> ReadableHeader(Rest, p, kind)
         /\ ReadableHeader(Rest, p, kind) => file[start + p + 1] = Rest[p + 1]
<1>1. /\ Len(file) \in Nat /\ start \in Nat /\ Len(Rest) \in Nat
      /\ Len(Rest) = Len(file) - start
      /\ \A i \in 1..Len(Rest) : Rest[i] = file[start + i]
  BY RestIs DEF SearchType
<1>2. CASE p < Len(Rest)
  <2>1. p + 1 \in 1..Len(Rest) /\ start + (p + 1) = start + p + 1
    BY <1>1, <1>2
  <2>2. file[start + p + 1] = Rest[p + 1]
    BY <1>1, <2>1
  <2>3. 0 <= p /\ 0 <= start + p /\ start + p < Len(file)
    BY <1>1, <1>2
  <2>4. file[start + p + 1].k = kind => Rest[p + 1].h \in Header
    <3>1. Rest[p + 1] \in FileCell
      BY <2>1, RestIs
    <3> QED
      BY <2>2, <3>1, HeaderCell
  <2> DEFINE c == HeaderCells(Rest[p + 1].h)
  <2>5. ReadableHeader(file, start + p, kind)
        <=> file[start + p + 1].k = kind /\ start + p + c <= Len(file)
    BY <2>2, <2>3 DEF ReadableHeader
  <2>6. ReadableHeader(Rest, p, kind)
        <=> file[start + p + 1].k = kind /\ p + c <= Len(Rest)
    BY <1>2, <2>2, <2>3 DEF ReadableHeader
  <2> QED
    BY <1>1, <2>2, <2>4, <2>5, <2>6, HeaderCellsIs
<1>3. CASE ~(p < Len(Rest))
  BY <1>1, <1>3 DEF ReadableHeader
<1> QED
  BY <1>2, <1>3

-----------------------------------------------------------------------------
(* What the search finds. *)

LEMMA EocdOffsetIs ==
  ASSUME NEW F \in Seq(FileCell), EocdOffsets(F) # {}
  PROVE  /\ EocdOffset(F) \in EocdOffsets(F)
         /\ \A q \in EocdOffsets(F) : q <= EocdOffset(F)
<1> DEFINE Behind == {Len(F) - p : p \in EocdOffsets(F)}
<1>1. Len(F) \in Nat /\ \A p \in EocdOffsets(F) : p \in 0..Len(F) - 1
  BY DEF EocdOffsets
<1>2. Behind \subseteq Nat /\ Behind # {}
  BY <1>1
<1>3. PICK k \in Behind : \A j \in Behind : k <= j
  <2> HIDE DEF Behind
  <2> QED
    BY <1>2, SmallestOfNat
<1>4. PICK p \in EocdOffsets(F) : k = Len(F) - p
  BY <1>3
<1>5. \A q \in EocdOffsets(F) : Len(F) - p <= Len(F) - q
  BY <1>3, <1>4
<1>6. \A q \in EocdOffsets(F) : q <= p
  BY <1>1, <1>5
<1> QED
  BY <1>4, <1>6 DEF EocdOffset

LEMMA FoundIsLast ==
  ASSUME IInv, pc = "search", readP >= 0, Signature
  PROVE  /\ EocdOffsets(View) # {}
         /\ EocdOffset(View) = Place
         /\ Eocd(View) = buf[readP + 1]
         /\ buf[readP + 1] \in FileCell /\ buf[readP + 1].k = "eocd"
         /\ CommentInBuffer <=> EocdReadable(View)
<1>1. /\ View \in Seq(FileCell) /\ Place \in EocdOffsets(View) /\ Place \in Nat
      /\ buf[readP + 1] = View[Place + 1]
      /\ buf[readP + 1] \in FileCell
      /\ \A n \in Nat \ {0} :
            InOneChunk(View, Place, n) <=> readP + n <= Len(buf)
  BY SeenAtPlace
<1>2. buf[readP + 1].k = "eocd"
  BY DEF Signature
<1>3. buf[readP + 1].clen \in Nat
  BY <1>1, <1>2, EocdCell
<1>4. EocdOffset(View) = Place
  <2> DEFINE last == EocdOffset(View)
  <2>1. last \in EocdOffsets(View) /\ Place <= last
    BY <1>1, EocdOffsetIs
  <2>2. last \in Nat
    BY <2>1 DEF EocdOffsets
  <2>3. last <= Place
    BY <2>1 DEF IInv, NothingMissed
  <2> QED
    BY <1>1, <2>1, <2>2, <2>3
<1>5. Eocd(View) = buf[readP + 1]
  BY <1>1, <1>4 DEF Eocd
<1>6. CommentInBuffer <=> InOneChunk(View, Place, EocdSize + buf[readP + 1].clen)
  <2> DEFINE n == EocdSize + buf[readP + 1].clen
  <2>1. n \in Nat \ {0} /\ readP \in Int /\ EocdSize \in Nat
        /\ readP + EocdSize + buf[readP + 1].clen = readP + n
    <3>1. readP \in Int
      BY DEF IInv, SearchType
    <3> QED
      BY <1>3, <3>1, EocdSizeAssumption
  <2> HIDE DEF n
  <2>2. InOneChunk(View, Place, n) <=> readP + n <= Len(buf)
    BY <1>1, <2>1
  <2> QED
    BY <2>1, <2>2 DEF CommentInBuffer, n
<1>7. EocdReadable(View) <=> InOneChunk(View, Place, EocdSize + buf[readP + 1].clen)
  BY <1>1, <1>4, <1>5 DEF EocdReadable
<1> QED
  BY <1>1, <1>2, <1>4, <1>5, <1>6, <1>7

-----------------------------------------------------------------------------
(* The steps that open an archive. *)

LEMMA FullInit == Init => Full
<1> SUFFICES ASSUME Init PROVE Full
  OBVIOUS
<1>1. opening \in Openings /\ pc \in {"seek", "back"} /\ result = "opening"
  BY DEF Init
<1>2. DirectoryType
  <2>1. eocd \in [k : {"eocd"}, count : Nat, size : Nat, offset : Nat, clen : Nat]
    BY DEF Init, NoEocd
  <2>2. tell \in Nat /\ entries \in Seq(Header) /\ num \in Nat \ {0}
    BY DEF Init
  <2> QED
    BY <1>1, <2>1, <2>2 DEF DirectoryType, Result
<1>3. AtPlace
  <2> SUFFICES ASSUME opening.intact
               PROVE  IF pc = "seek" THEN opening.embedded
                      ELSE Holds(opening, start, end)
    BY DEF AtPlace
  <2>1. Intact(opening)
    BY <1>1, IntactAssumption
  <2>2. CASE opening.embedded
    BY <2>2 DEF Init
  <2>3. CASE ~opening.embedded
    BY <2>1, <2>3 DEF Init, Intact
  <2> QED
    BY <2>2, <2>3
<1> QED
  BY <1>1, <1>2, <1>3, InitInvariant DEF Init, Full, Located, Walk, Walked, Verdict

\* What the steps that do not move the ends leave of the definitions.
LEMMA SameArchive ==
  ASSUME UNCHANGED << opening, start, end >>
  PROVE  /\ file' = file /\ View' = View /\ Rest' = Rest
         /\ Holds(opening, start, end)' <=> Holds(opening, start, end)
BY DEF file, View, Rest

LEMMA FullReadStart ==
  ASSUME Full, ReadStart
  PROVE  Full'
<1>1. /\ IInv /\ DirectoryType /\ AtPlace /\ pc = "seek"
      /\ UNCHANGED << opening, filePos, chunkSize, buf, readP, eocd, tell,
                      entries, num >>
      /\ file' = file
  BY DEF Full, ReadStart, file
<1>2. IInv'
  BY <1>1, NextInvariant DEF Next, Step
<1>3. CASE file = << >>
  <2>1. pc' = "done" /\ result' = "IOException" /\ UNCHANGED << start, end >>
    BY <1>3 DEF ReadStart, Fail
  <2>2. DirectoryType'
    BY <1>1, <2>1 DEF DirectoryType, Result
  <2>3. AtPlace'
    BY <1>1, <1>3, IntactAssumption DEF AtPlace, DirectoryType, Intact, file
  <2>4. Verdict'
    <3> SUFFICES ASSUME start + end <= Len(file)
                 PROVE  ~EocdReadable(View)
      BY <1>1, <2>1, SameArchive DEF Verdict
    <3>1. SearchType /\ Len(file) = 0
      BY <1>1, <1>3 DEF IInv
    <3>2. Len(View) = 0
      BY <3>1, ViewIs DEF Size, SearchType
    <3> QED
      BY <3>2 DEF EocdReadable, EocdOffsets
  <2> QED
    BY <1>1, <1>2, <2>1, <2>2, <2>3, <2>4 DEF Full, Located, Walk, Walked
<1>4. CASE file # << >>
  <2>1. start' \in StartFields /\ end' = 1 /\ pc' = "back" /\ UNCHANGED result
    BY <1>4 DEF ReadStart
  <2>2. DirectoryType'
    BY <1>1, <2>1 DEF DirectoryType
  <2>3. AtPlace'
    <3> SUFFICES ASSUME opening.intact
                 PROVE  Holds(opening, start', end')
      BY <1>1, <2>1 DEF AtPlace
    <3>1. Intact(opening) /\ opening.embedded
      BY <1>1, IntactAssumption DEF AtPlace, DirectoryType
    <3>2. file[Len(file)].k = "start" /\ Holds(opening, file[Len(file)].at, 1)
      BY <3>1 DEF Intact, file
    <3> QED
      BY <2>1, <3>2 DEF StartFields
  <2>4. result' # "opened"
    BY <1>1, <2>1 DEF DirectoryType
  <2> QED
    BY <1>1, <1>2, <2>1, <2>2, <2>3, <2>4 DEF Full, Located, Walk, Walked, Verdict
<1> QED
  BY <1>3, <1>4

LEMMA FullOpenBackBuffer ==
  ASSUME Full, OpenBackBuffer
  PROVE  Full'
<1>1. /\ IInv /\ DirectoryType /\ AtPlace /\ pc = "back"
      /\ UNCHANGED << opening, start, end, eocd, tell, entries, num >>
  BY DEF Full, OpenBackBuffer
<1>2. IInv'
  BY <1>1, NextInvariant DEF Next, Step
<1>3. /\ Len(file) \in Nat /\ start \in Nat /\ end \in Nat
      /\ result # "opened"
  BY <1>1 DEF IInv, SearchType, DirectoryType
<1>4. \/ /\ pc' = "done" /\ result' = "IOException"
         /\ end > Len(file) \/ Len(file) - end < start
      \/ pc' = "search" /\ result' = result
  BY DEF OpenBackBuffer, Fail
<1>5. DirectoryType'
  BY <1>1, <1>4 DEF DirectoryType, Result
<1>6. AtPlace'
  BY <1>1, <1>4, SameArchive DEF AtPlace
<1>7. Verdict'
  <2> SUFFICES ASSUME pc' = "done", start' + end' <= Len(file')
               PROVE  FALSE
    BY DEF Verdict
  <2>1. end > Len(file) \/ Len(file) - end < start
    BY <1>4
  <2>2. start + end <= Len(file)
    BY <1>1, SameArchive
  <2> QED
    BY <1>3, <2>1, <2>2
<1> QED
  BY <1>1, <1>2, <1>3, <1>4, <1>5, <1>6, <1>7 DEF Full, Located, Walk, Walked

LEMMA FullReadChunk ==
  ASSUME Full, ReadChunk
  PROVE  Full'
<1>1. /\ IInv /\ DirectoryType /\ AtPlace /\ pc = "search" /\ readP < 0
      /\ UNCHANGED << opening, start, end, eocd, tell, entries, num >>
  BY DEF Full, ReadChunk
<1>2. IInv'
  BY <1>1, NextInvariant DEF Next, Step
<1>3. /\ SearchType /\ Inside /\ Chunks /\ NothingMissed /\ readP = -1
      /\ result # "opened"
  BY <1>1 DEF IInv, SearchType, DirectoryType
<1>4. /\ Len(file) \in Nat /\ start \in Nat /\ end \in Nat /\ filePos \in Nat
      /\ Len(buf) \in Nat /\ start + end <= Len(file) /\ ChunkSize \in Nat \ {0}
  BY <1>1, <1>3, ChunkSizeAssumption DEF SearchType, Inside
<1> DEFINE c == NextChunk
<1> DEFINE at == filePos - c
<1>5. c \in 0..ChunkSize /\ c <= filePos /\ at \in Nat
  BY <1>3, <1>4 DEF NextChunk, SearchType
<1>6. start + at >= 0 /\ start + at + c <= Len(file)
  <2>1. PICK k \in Nat : Size - (filePos + Len(buf)) = k * ChunkSize
    BY <1>1, <1>3 DEF Chunks
  <2>2. k * ChunkSize \in Nat
    BY Multiple
  <2>3. filePos + Len(buf) <= Size
    BY <1>4, <2>1, <2>2 DEF Size
  <2> QED
    BY <1>4, <1>5, <2>3 DEF Size
<1>7. IF c = 0 THEN pc' = "done" /\ result' = "FileCollectionException"
      ELSE UNCHANGED << pc, result >>
  BY <1>6 DEF ReadChunk, NoMore, Fail
<1>8. DirectoryType'
  BY <1>1, <1>7 DEF DirectoryType, Result
<1>9. AtPlace'
  BY <1>1, <1>7, SameArchive DEF AtPlace
<1>10. Verdict'
  <2> SUFFICES ASSUME pc' = "done"
               PROVE  ~EocdReadable(View)
    BY <1>1, <1>7, SameArchive DEF Verdict
  <2>1. filePos = 0
    BY <1>1, <1>3, <1>4, <1>7 DEF NextChunk, SearchType, Chunks
  <2>2. \A p \in EocdOffsets(View) : p \in Nat /\ p <= -1
    BY <1>1, <1>3, <2>1 DEF NothingMissed, Place, EocdOffsets
  <2> QED
    BY <2>2 DEF EocdReadable
<1> QED
  BY <1>1, <1>2, <1>3, <1>7, <1>8, <1>9, <1>10 DEF Full, Located, Walk, Walked

LEMMA FullScan ==
  ASSUME Full, Scan
  PROVE  Full'
<1>1. /\ IInv /\ DirectoryType /\ AtPlace /\ Walk /\ pc = "search" /\ readP >= 0
      /\ UNCHANGED << opening, start, end, entries, num >>
  BY DEF Full, Scan
<1>2. IInv'
  BY <1>1, NextInvariant DEF Next, Step
<1>3. /\ result # "opened" /\ num = 1 /\ entries = << >> /\ start \in Nat
      /\ start + end <= Len(file)
  BY <1>1 DEF IInv, SearchType, Inside, DirectoryType, Walk
<1>4. CASE ~Signature
  <2>1. UNCHANGED << eocd, tell, pc, result >>
    BY <1>4 DEF Scan
  <2>2. DirectoryType' /\ AtPlace'
    BY <1>1, <2>1, SameArchive DEF DirectoryType, AtPlace
  <2> QED
    BY <1>1, <1>2, <1>3, <2>1, <2>2 DEF Full, Located, Walk, Walked, Verdict
<1>5. CASE Signature /\ CommentInBuffer
  <2> DEFINE found == buf[readP + 1]
  <2>1. eocd' = found /\ tell' = start + found.offset /\ pc' = "central"
        /\ result' = result
    BY <1>5 DEF Scan
  <2>2. /\ found \in FileCell /\ found.k = "eocd"
        /\ found = Eocd(View) /\ EocdReadable(View)
    BY <1>1, <1>5, FoundIsLast
  <2>3. found \in [k : {"eocd"}, count : Nat, size : Nat, offset : Nat, clen : Nat]
    BY <2>2, EocdCell
  <2>4. found.offset \in Nat /\ found.count \in Nat
    BY <2>3
  <2>5. DirectoryType'
    <3>1. tell' \in Nat
      BY <1>3, <2>1, <2>4
    <3> QED
      BY <1>1, <2>1, <2>3, <3>1 DEF DirectoryType
  <2>6. AtPlace'
    BY <1>1, <2>1, SameArchive DEF AtPlace
  <2>7. Located'
    BY <1>1, <1>3, <2>1, <2>2, SameArchive DEF Located
  <2>8. Walk'
    <3>1. Offsets'[1] = found.offset
      <4>1. CentralOffsets(Rest, found)[1] = found.offset
        BY <2>4, CentralOffsetsAre
      <4> QED
        BY <1>1, <2>1, <4>1, SameArchive DEF Offsets
    <3>2. num' = 1 /\ Len(entries') = 0 /\ start' = start
      BY <1>1, <1>3
    <3>3. 1 <= found.count + 1 /\ 0 = 1 - 1 /\ \A i \in 1..1 - 1 : FALSE
      BY <2>4
    <3> QED
      BY <2>1, <2>4, <3>1, <3>2, <3>3 DEF Walk
  <2> QED
    BY <1>2, <1>3, <2>1, <2>5, <2>6, <2>7, <2>8 DEF Full, Walked, Verdict
<1>6. CASE Signature /\ ~CommentInBuffer
  <2>1. pc' = "done" /\ result' = "IOException" /\ UNCHANGED << eocd, tell >>
    BY <1>6 DEF Scan, Fail
  <2>2. DirectoryType'
    BY <1>1, <2>1 DEF DirectoryType, Result
  <2>3. AtPlace'
    BY <1>1, <2>1, SameArchive DEF AtPlace
  <2>4. Verdict'
    <3>1. ~EocdReadable(View)
      BY <1>1, <1>6, FoundIsLast
    <3> QED
      BY <1>1, <2>1, <3>1, SameArchive DEF Verdict
  <2> QED
    BY <1>2, <2>1, <2>2, <2>3, <2>4 DEF Full, Located, Walk, Walked
<1> QED
  BY <1>4, <1>5, <1>6

\* An archive that is refused while it is walked through is not consistent.
LEMMA Refused ==
  ASSUME Full, pc \in {"central", "check"}, ~Consistent(Rest, eocd),
         pc' = "done", result' \in Result \ {"opening", "opened"}, IInv',
         UNCHANGED << opening, start, end, eocd, tell, entries, num >>
  PROVE  Full'
<1>1. DirectoryType /\ AtPlace /\ Located
  BY DEF Full
<1>2. DirectoryType'
  BY <1>1 DEF DirectoryType
<1>3. AtPlace'
  BY <1>1, SameArchive DEF AtPlace
<1>4. Verdict'
  BY <1>1, SameArchive DEF Verdict, Located
<1> QED
  BY <1>2, <1>3, <1>4 DEF Full, Located, Walk, Walked

LEMMA FullReadCentral ==
  ASSUME Full, ReadCentral
  PROVE  Full'
<1>1. /\ IInv /\ DirectoryType /\ AtPlace /\ Located /\ Walk /\ pc = "central"
      /\ num <= eocd.count
      /\ UNCHANGED << opening, start, end, eocd >>
  BY DEF Full, ReadCentral
<1>2. IInv'
  BY <1>1, NextInvariant DEF Next, Step
<1>3. /\ SearchType /\ eocd.count \in Nat /\ num \in 1..eocd.count
      /\ Len(file) \in Nat /\ start \in Nat /\ end \in Nat /\ tell \in Nat
      /\ entries \in Seq(Header) /\ start + end <= Len(file) /\ start <= Len(file)
  BY <1>1 DEF IInv, SearchType, DirectoryType, Located
<1> DEFINE p == Offsets[num]
<1>4. p \in Nat /\ tell = start + p /\ Len(entries) = num - 1
  BY <1>1 DEF Walk
<1>5. /\ ReadableHeader(file, tell, "central") <=> ReadableHeader(Rest, p, "central")
      /\ ReadableHeader(Rest, p, "central") => file[tell + 1] = Rest[p + 1]
  <2> HIDE DEF p
  <2> QED
    BY <1>3, <1>4, ReadableInRest
<1>6. CASE ~ReadableHeader(file, tell, "central")
  <2>1. pc' = "done" /\ result' = "IOException" /\ UNCHANGED << entries, tell, num >>
    BY <1>6 DEF ReadCentral, Fail
  <2>2. ~Consistent(Rest, eocd)
    BY <1>3, <1>5, <1>6 DEF Consistent, Offsets
  <2> QED
    BY <1>1, <1>2, <2>1, <2>2, Refused DEF Result
<1>7. CASE ReadableHeader(file, tell, "central")
  <2> DEFINE header == file[tell + 1].h
  <2>1. /\ entries' = Append(entries, header) /\ tell' = tell + HeaderCells(header)
        /\ num' = num + 1 /\ pc' = "central" /\ result' = result
    BY <1>1, <1>7 DEF ReadCentral
  <2>2. header \in Header /\ HeaderCells(header) \in Nat
    BY <1>3, <1>7, ReadableIs DEF SearchType
  <2>3. /\ entries' \in Seq(Header) /\ Len(entries') = num
        /\ \A i \in 1..num - 1 : entries'[i] = entries[i]
        /\ entries'[num] = header
    <3>1. \A s \in Seq(Header) : \A x \in Header :
            /\ Append(s, x) \in Seq(Header) /\ Len(Append(s, x)) = Len(s) + 1
            /\ \A i \in 1..Len(s) : Append(s, x)[i] = s[i]
            /\ Append(s, x)[Len(s) + 1] = x
      OBVIOUS
    <3> HIDE DEF header
    <3>2. /\ entries' \in Seq(Header) /\ Len(entries') = Len(entries) + 1
          /\ \A i \in 1..Len(entries) : entries'[i] = entries[i]
          /\ entries'[Len(entries) + 1] = header
      BY <1>3, <2>1, <2>2, <3>1
    <3>3. Len(entries) + 1 = num
      BY <1>3, <1>4
    <3> QED
      BY <1>4, <3>2, <3>3
  <2>4. DirectoryType'
    <3>1. tell' \in Nat /\ num' \in Nat \ {0}
      <4> HIDE DEF header
      <4> QED
        BY <1>3, <2>1, <2>2
    <3> QED
      BY <1>1, <2>1, <2>3, <3>1 DEF DirectoryType
  <2>5. AtPlace'
    BY <1>1, <2>1, SameArchive DEF AtPlace
  <2>6. Located'
    BY <1>1, <2>1, SameArchive DEF Located
  <2>7. Offsets' = Offsets /\ Rest' = Rest
    BY <1>1, SameArchive DEF Offsets
  <2>8. Offsets[num + 1] = p + HeaderCells(header)
    <3>1. CentralOffsets(Rest, eocd)[num + 1] = After(Rest, CentralOffsets(Rest, eocd)[num])
      BY <1>3, CentralOffsetsAre
    <3> QED
      BY <1>5, <1>7, <3>1 DEF After, Offsets
  <2>9. Walk'
    <3>1. \A i \in 1..num - 1 : Listed(i)'
      BY <1>1, <2>3, <2>7 DEF Walk, Listed
    <3>2. \A i \in {num} : Listed(i)'
      BY <1>4, <1>5, <1>7, <2>3, <2>7 DEF Listed
    <3>3. \A i \in 1..(num + 1) - 1 : i \in 1..num - 1 \/ i = num
      BY <1>3
    <3>4. Offsets[num + 1] \in Nat
          /\ start + Offsets[num + 1] = tell + HeaderCells(header)
      <4>1. \A a, b, n \in Nat : a + n \in Nat /\ b + (a + n) = b + a + n
        OBVIOUS
      <4> HIDE DEF header, p
      <4> QED
        BY <1>3, <1>4, <2>2, <2>8, <4>1
    <3>5. num + 1 <= eocd.count + 1 /\ Len(entries') = (num + 1) - 1
      BY <1>3, <2>3
    <3>6. \A i \in 1..num' - 1 : Listed(i)'
      BY <2>1, <3>1, <3>2, <3>3
    <3>7. Offsets'[num'] = Offsets[num + 1] /\ start' = start /\ eocd' = eocd
      BY <1>1, <2>1, <2>7
    <3> HIDE DEF header
    <3> QED
      BY <2>1, <3>4, <3>5, <3>6, <3>7 DEF Walk
  <2>10. result' # "opened"
    BY <1>1, <2>1 DEF DirectoryType
  <2> QED
    BY <1>2, <2>1, <2>4, <2>5, <2>6, <2>9, <2>10 DEF Full, Walked, Verdict
<1> QED
  BY <1>6, <1>7

LEMMA FullCheckLayout ==
  ASSUME Full, CheckLayout
  PROVE  Full'
<1>1. /\ IInv /\ DirectoryType /\ AtPlace /\ Located /\ Walk /\ pc = "central"
      /\ num > eocd.count
      /\ UNCHANGED << opening, start, end, eocd, tell, entries >>
  BY DEF Full, CheckLayout
<1>2. IInv'
  BY <1>1, NextInvariant DEF Next, Step
<1>3. eocd.count \in Nat /\ num \in Nat /\ start \in Nat
  BY <1>1 DEF IInv, SearchType, DirectoryType
<1>4. num = eocd.count + 1 /\ Len(entries) = eocd.count
  BY <1>1, <1>3 DEF Walk
<1>5. Offsets[eocd.count + 1] \in Nat /\ tell = start + Offsets[eocd.count + 1]
      /\ \A i \in 1..eocd.count : Listed(i)
  <2>1. (eocd.count + 1) - 1 = eocd.count
    BY <1>3
  <2> QED
    BY <1>1, <1>4, <2>1 DEF Walk
<1>6. Vtellg = Offsets[eocd.count + 1]
  <2>1. \A a, b \in Nat : (a + b) - a = b
    OBVIOUS
  <2> QED
    BY <1>3, <1>5, <2>1 DEF Vtellg
<1>7. CASE eocd.offset + eocd.size # Vtellg
  <2>1. pc' = "done" /\ result' = "FileCollectionException" /\ num' = num
    BY <1>7 DEF CheckLayout, Fail
  <2>2. ~Consistent(Rest, eocd)
    BY <1>6, <1>7 DEF Consistent, Offsets
  <2> QED
    BY <1>1, <1>2, <2>1, <2>2, Refused DEF Result
<1>8. CASE eocd.offset + eocd.size = Vtellg
  <2>1. pc' = "check" /\ num' = 1 /\ result' = result
    BY <1>8 DEF CheckLayout
  <2>2. DirectoryType' /\ AtPlace' /\ Located'
    BY <1>1, <2>1, SameArchive DEF DirectoryType, AtPlace, Located
  <2>3. Offsets' = Offsets /\ Rest' = Rest
    BY <1>1, SameArchive DEF Offsets
  <2>4. \A i \in 1..eocd.count : Listed(i)'
    BY <1>1, <1>5, <2>3 DEF Listed
  <2>5. \A i \in 1..num' - 1 : Agrees(i)'
    <3>1. \A i \in 1..1 - 1 : FALSE
      OBVIOUS
    <3> QED
      BY <2>1, <3>1
  <2>6. result' # "opened"
    BY <1>1, <2>1 DEF DirectoryType
  <2>7. Offsets[eocd.count + 1] = eocd.offset + eocd.size /\ 1 <= eocd.count + 1
    BY <1>3, <1>6, <1>8
  <2>8. Walked'
    BY <1>1, <1>4, <2>1, <2>3, <2>4, <2>5, <2>6, <2>7 DEF Walked
  <2> QED
    BY <1>2, <2>1, <2>2, <2>6, <2>8 DEF Full, Walk, Verdict
<1> QED
  BY <1>7, <1>8

LEMMA FullCheckEntry ==
  ASSUME Full, CheckEntry
  PROVE  Full'
<1>1. /\ IInv /\ DirectoryType /\ AtPlace /\ Located /\ Walked /\ pc = "check"
      /\ num <= Len(entries)
      /\ UNCHANGED << opening, start, end, eocd, entries >>
  BY DEF Full, CheckEntry
<1>2. IInv'
  BY <1>1, NextInvariant DEF Next, Step
<1>3. /\ SearchType /\ eocd.count \in Nat /\ num \in 1..eocd.count
      /\ num \in 1..Len(entries) /\ Len(entries) = eocd.count
      /\ start \in Nat /\ start <= Len(file) /\ result # "opened"
  BY <1>1 DEF IInv, SearchType, DirectoryType, Located, Walked
<1> DEFINE header == entries[num]
<1>4. header \in Header /\ header.offset \in Nat
  <2>1. header \in Header
    BY <1>1, <1>3 DEF DirectoryType
  <2> QED
    BY <2>1 DEF Header
<1> DEFINE p == EntryOffset(header)
<1>5. p = start + header.offset /\ p \in Nat
  <2>1. \A a, b \in Nat : a + b = b + a /\ a + b \in Nat
    OBVIOUS
  <2> HIDE DEF header
  <2> QED
    BY <1>3, <1>4, <2>1 DEF EntryOffset
<1>6. /\ ReadableHeader(file, p, "local")
            <=> ReadableHeader(Rest, header.offset, "local")
      /\ ReadableHeader(Rest, header.offset, "local")
            => file[p + 1] = Rest[header.offset + 1]
  <2> HIDE DEF header, p
  <2> QED
    BY <1>3, <1>4, <1>5, ReadableInRest
<1>7. Listed(num)
  BY <1>1, <1>3 DEF Walked
<1>8. CASE ~(ReadableHeader(file, p, "local") /\ SameEntry(file[p + 1].h, header))
  <2>1. /\ pc' = "done" /\ UNCHANGED << num, tell >>
        /\ result' \in {"IOException", "FileCollectionException"}
    BY <1>8 DEF CheckEntry, Fail
  <2>2. ~Consistent(Rest, eocd)
    BY <1>3, <1>6, <1>7, <1>8 DEF Consistent, Offsets, Listed
  <2> QED
    BY <1>1, <1>2, <2>1, <2>2, Refused DEF Result
<1>9. CASE ReadableHeader(file, p, "local") /\ SameEntry(file[p + 1].h, header)
  <2>1. num' = num + 1 /\ tell' = DataOffset(file, p) /\ pc' = "check"
        /\ result' = result
    BY <1>1, <1>9 DEF CheckEntry
  <2>2. tell' \in Nat /\ num' \in Nat \ {0}
    <3>1. HeaderCells(file[p + 1].h) \in Nat
      BY <1>3, <1>5, <1>9, ReadableIs DEF SearchType
    <3>2. \A a, b \in Nat : a + b \in Nat
      OBVIOUS
    <3>3. p + HeaderCells(file[p + 1].h) \in Nat
      <4> HIDE DEF p
      <4> QED
        BY <1>5, <3>1, <3>2
    <3>4. tell' = p + HeaderCells(file[p + 1].h)
      BY <2>1 DEF DataOffset
    <3>5. num' \in Nat \ {0}
      BY <1>3, <2>1
    <3> QED
      BY <3>3, <3>4, <3>5
  <2>3. DirectoryType' /\ AtPlace' /\ Located'
    BY <1>1, <2>1, <2>2, SameArchive DEF DirectoryType, AtPlace, Located
  <2>4. Offsets' = Offsets /\ Rest' = Rest
    BY <1>1, SameArchive DEF Offsets
  <2>5. \A i \in 1..eocd.count : Listed(i)'
    BY <1>1, <2>4 DEF Walked, Listed
  <2>6. \A i \in 1..num' - 1 : Agrees(i)'
    <3>1. \A i \in 1..num - 1 : Agrees(i)'
      BY <1>1, <2>4 DEF Walked, Agrees
    <3>2. \A i \in {num} : Agrees(i)'
      BY <1>1, <1>6, <1>9, <2>4 DEF Agrees
    <3>3. \A i \in 1..(num + 1) - 1 : i \in 1..num - 1 \/ i = num
      BY <1>3
    <3> QED
      BY <2>1, <3>1, <3>2, <3>3
  <2>7. num + 1 <= eocd.count + 1
    BY <1>3
  <2>8. Walked'
    <3>1. Offsets[eocd.count + 1] = eocd.offset + eocd.size
      BY <1>1 DEF Walked
    <3> QED
      BY <1>1, <1>3, <2>1, <2>4, <2>5, <2>6, <2>7, <3>1 DEF Walked
  <2> QED
    BY <1>2, <1>3, <2>1, <2>3, <2>8 DEF Full, Walk, Verdict
<1> QED
  BY <1>8, <1>9

LEMMA FullOpened ==
  ASSUME Full, Opened
  PROVE  Full'
<1>1. /\ IInv /\ DirectoryType /\ AtPlace /\ Located /\ Walked /\ pc = "check"
      /\ num > Len(entries) /\ pc' = "done" /\ result' = "opened"
      /\ UNCHANGED << opening, start, end, eocd, tell, entries, num >>
  BY DEF Full, Opened, Fail
<1>2. IInv'
  BY <1>1, NextInvariant DEF Next, Step
<1>3. DirectoryType' /\ AtPlace' /\ Located'
  BY <1>1, SameArchive DEF DirectoryType, Result, AtPlace, Located
<1>4. eocd.count \in Nat /\ num = eocd.count + 1
  BY <1>1 DEF DirectoryType, Walked
<1>5. \A i \in 1..eocd.count : Listed(i) /\ Agrees(i)
  <2>1. (eocd.count + 1) - 1 = eocd.count
    BY <1>4
  <2> QED
    BY <1>1, <1>4, <2>1 DEF Walked
<1>6. Walked'
  <2>1. Offsets' = Offsets /\ Rest' = Rest
    BY <1>1, SameArchive DEF Offsets
  <2>2. \A i \in 1..eocd.count : Listed(i)'
    BY <1>1, <1>5, <2>1 DEF Listed
  <2>3. \A i \in 1..num - 1 : Agrees(i)'
    BY <1>1, <2>1 DEF Walked, Agrees
  <2>4. /\ Len(entries) = eocd.count
        /\ Offsets[eocd.count + 1] = eocd.offset + eocd.size
        /\ num <= eocd.count + 1
    BY <1>1 DEF Walked
  <2> QED
    BY <1>1, <1>4, <2>1, <2>2, <2>3, <2>4 DEF Walked
<1>7. Consistent(Rest, eocd)
  BY <1>1, <1>5 DEF Consistent, Offsets, Listed, Agrees, Walked
<1>8. Verdict'
  BY <1>1, <1>7, SameArchive DEF Located, Verdict
<1> QED
  BY <1>1, <1>2, <1>3, <1>6, <1>8 DEF Full, Walk

LEMMA FullInvariance == Spec => []Full
<1>1. ASSUME Full, [Next]_vars
      PROVE  Full'
  <2>1. CASE Next /\ ~Done
    BY <1>1, <2>1, FullReadStart, FullOpenBackBuffer, FullReadChunk, FullScan,
       FullReadCentral, FullCheckLayout, FullCheckEntry, FullOpened
    DEF Next, Step
  <2>2. CASE UNCHANGED vars
    <3>1. UNCHANGED << opening, start, end >>
      BY <2>2 DEF vars
    <3>2. IInv'
      BY <1>1, NextInvariant DEF Full
    <3>3. Offsets' = Offsets /\ Rest' = Rest
      BY <2>2, <3>1, SameArchive DEF Offsets, vars
    <3>4. DirectoryType' /\ AtPlace' /\ Located' /\ Verdict'
      BY <1>1, <2>2, <3>1, SameArchive
      DEF Full, vars, DirectoryType, AtPlace, Located, Verdict
    <3>5. Walk' /\ Walked'
      BY <1>1, <2>2, <3>3 DEF Full, vars, Walk, Walked, Listed, Agrees
    <3> QED
      BY <3>2, <3>4, <3>5 DEF Full
  <2> QED
    BY <1>1, <2>1, <2>2 DEF Next, Done
<1> QED
  BY FullInit, <1>1, PTL DEF Spec

-----------------------------------------------------------------------------
(* What reads in an archive reads the same in a file around it.            *)

LEMMA ReadableInLonger ==
  ASSUME NEW F \in Seq(FileCell), NEW G \in Seq(FileCell), Len(F) <= Len(G),
         \A i \in 1..Len(F) : F[i] = G[i],
         NEW p \in Nat, NEW kind \in {"local", "central"},
         ReadableHeader(F, p, kind)
  PROVE  ReadableHeader(G, p, kind) /\ G[p + 1] = F[p + 1]
<1>1. /\ p < Len(F) /\ F[p + 1].k = kind
      /\ p + HeaderCells(F[p + 1].h) <= Len(F)
  BY DEF ReadableHeader
<1>2. Len(F) \in Nat /\ Len(G) \in Nat /\ HeaderCells(F[p + 1].h) \in Nat
  BY ReadableIs
<1>3. p + 1 \in 1..Len(F)
  BY <1>1, <1>2
<1>4. G[p + 1] = F[p + 1]
  BY <1>3
<1>5. 0 <= p /\ p < Len(G) /\ p + HeaderCells(F[p + 1].h) <= Len(G)
  BY <1>1, <1>2
<1> QED
  BY <1>1, <1>4, <1>5 DEF ReadableHeader

LEMMA ConsistentInLonger ==
  ASSUME NEW F \in Seq(FileCell), NEW G \in Seq(FileCell), Len(F) <= Len(G),
         \A i \in 1..Len(F) : F[i] = G[i],
         NEW e, e.count \in Nat, e.offset \in Nat,
         Consistent(F, e)
  PROVE  /\ Consistent(G, e)
         /\ \A i \in 1..e.count :
                /\ CentralOffsets(G, e)[i] = CentralOffsets(F, e)[i]
                /\ CentralOffsets(F, e)[i] \in Nat
                /\ G[CentralOffsets(F, e)[i] + 1] = F[CentralOffsets(F, e)[i] + 1]
<1> DEFINE f == CentralOffsets(F, e)
<1> DEFINE g == CentralOffsets(G, e)
<1>1. \A i \in 1..e.count : ReadableHeader(F, f[i], "central")
  BY DEF Consistent
<1>2. /\ f[1] = e.offset /\ g[1] = e.offset
      /\ \A i \in 1..e.count : f[i + 1] = After(F, f[i]) /\ g[i + 1] = After(G, g[i])
  BY CentralOffsetsAre
<1> HIDE DEF f, g
<1> DEFINE Same(i) == f[i] \in Nat /\ g[i] = f[i]
<1>3. ASSUME NEW i \in 1..e.count, Same(i)
      PROVE  Same(i + 1)
  <2>1. /\ ReadableHeader(F, f[i], "central") /\ ReadableHeader(G, f[i], "central")
        /\ G[f[i] + 1] = F[f[i] + 1]
    BY <1>1, <1>3, ReadableInLonger
  <2>2. HeaderCells(F[f[i] + 1].h) \in Nat
    BY <1>3, <2>1, ReadableIs
  <2>3. /\ f[i + 1] = f[i] + HeaderCells(F[f[i] + 1].h)
        /\ g[i + 1] = f[i] + HeaderCells(F[f[i] + 1].h)
    BY <1>2, <1>3, <2>1 DEF After
  <2>4. \A a, b \in Nat : a + b \in Nat
    OBVIOUS
  <2> QED
    BY <1>3, <2>2, <2>3, <2>4
<1>4. \A i \in 1..e.count + 1 : Same(i)
  <2> DEFINE Bad == {i \in 1..e.count + 1 : ~Same(i)}
  <2> SUFFICES ASSUME Bad # {} PROVE FALSE
    OBVIOUS
  <2>1. Bad \subseteq Nat
    OBVIOUS
  <2>2. PICK k \in Bad : \A j \in Bad : k <= j
    <3> HIDE DEF Bad
    <3> QED
      BY <2>1, SmallestOfNat
  <2>3. k # 1
    BY <1>2, <2>2
  <2>4. k - 1 \in 1..e.count /\ (k - 1) + 1 = k /\ k - 1 \in 1..e.count + 1
    BY <2>2, <2>3
  <2>5. Same(k - 1)
    <3> HIDE DEF Same
    <3> QED
      BY <2>2, <2>4
  <2>6. Same((k - 1) + 1)
    <3> HIDE DEF Same
    <3> QED
      BY <1>3, <2>4, <2>5
  <2> QED
    BY <2>2, <2>4, <2>6
<1>5. \A i \in 1..e.count :
        /\ Same(i) /\ ReadableHeader(G, f[i], "central")
        /\ G[f[i] + 1] = F[f[i] + 1]
        /\ F[f[i] + 1].h \in Header
  <2> TAKE i \in 1..e.count
  <2>1. Same(i)
    BY <1>4
  <2>2. ReadableHeader(G, f[i], "central") /\ G[f[i] + 1] = F[f[i] + 1]
    BY <1>1, <2>1, ReadableInLonger
  <2>3. F[f[i] + 1].h \in Header
    BY <1>1, <2>1, ReadableIs
  <2> QED
    BY <2>1, <2>2, <2>3
<1>6. ASSUME NEW i \in 1..e.count
      PROVE  LET h == F[f[i] + 1].h
             IN  /\ ReadableHeader(G, h.offset, "local")
                 /\ SameEntry(G[h.offset + 1].h, h)
  <2> DEFINE h == F[f[i] + 1].h
  <2>1. ReadableHeader(F, h.offset, "local") /\ SameEntry(F[h.offset + 1].h, h)
    BY DEF Consistent, f
  <2>2. h.offset \in Nat
    BY <1>5 DEF Header
  <2>3. ReadableHeader(G, h.offset, "local") /\ G[h.offset + 1] = F[h.offset + 1]
    <3> HIDE DEF h
    <3> QED
      BY <2>1, <2>2, ReadableInLonger
  <2> QED
    BY <2>1, <2>3
<1>7. g[e.count + 1] = e.offset + e.size
  <2>1. f[e.count + 1] = e.offset + e.size
    BY DEF Consistent, f
  <2> QED
    BY <1>4, <2>1
<1>8. Consistent(G, e)
  <2>1. \A i \in 1..e.count : ReadableHeader(G, g[i], "central")
    BY <1>5
  <2>2. \A i \in 1..e.count :
            LET h == G[g[i] + 1].h
            IN  /\ ReadableHeader(G, h.offset, "local")
                /\ SameEntry(G[h.offset + 1].h, h)
    BY <1>5, <1>6
  <2> QED
    BY <1>7, <2>1, <2>2 DEF Consistent, g
<1> QED
  BY <1>5, <1>8 DEF f, g

\* Where deflated data that begins at offset d may end.
Ends(f, d) ==
    {q \in d..Len(f)-1 : f[q + 1].k = "zend" /\ \A i \in d+1..q : f[i].k = "zdata"}

LEMMA OneEnd ==
  ASSUME NEW f \in Seq(FileCell), NEW d \in Nat,
         NEW q \in Ends(f, d), NEW r \in Ends(f, d)
  PROVE  q = r
<1> SUFFICES ASSUME NEW a \in Ends(f, d), NEW b \in Ends(f, d), a < b PROVE FALSE
  <2>1. q \in Int /\ r \in Int
    BY DEF Ends
  <2> QED
    BY <2>1
<1>1. a \in Int /\ b \in Int /\ d <= a /\ f[a + 1].k = "zend"
  BY DEF Ends
<1>2. a + 1 \in d+1..b
  BY <1>1
<1>3. f[a + 1].k = "zdata"
  BY <1>2 DEF Ends
<1> QED
  BY <1>1, <1>3

LEMMA DeflatedContentIs ==
  ASSUME NEW f, NEW p, NEW d, DataOffset(f, p) = d
  PROVE  DeflatedContent(f, p)
         = IF Ends(f, d) = {} THEN NoContent
           ELSE LET n == (CHOOSE q \in Ends(f, d) : TRUE) - d
                IN  [i \in 1..n |-> f[d + i].b]
BY DEF DeflatedContent, Ends

\* The content of an entry does not depend on where its archive is.
LEMMA ContentElsewhere ==
  ASSUME NEW F \in Seq(FileCell), NEW G \in Seq(FileCell), NEW s \in Nat,
         s + Len(F) <= Len(G), \A i \in 1..Len(F) : F[i] = G[s + i],
         NEW p \in Nat, ReadableHeader(F, p, "local"), Content(F, p) # NoContent
  PROVE  Content(G, p + s) = Content(F, p)
<1> DEFINE h == F[p + 1].h
<1> DEFINE d == p + HeaderCells(h)
<1>1. /\ h \in Header /\ h.size \in Nat /\ HeaderCells(h) \in Nat \ {0}
      /\ p < Len(F) /\ d <= Len(F) /\ d \in Nat
      /\ Len(F) \in Nat /\ Len(G) \in Nat
  <2>1. h \in Header /\ HeaderCells(h) \in Nat \ {0}
    BY ReadableIs
  <2>2. h.size \in Nat
    BY <2>1 DEF Header
  <2> QED
    BY <2>1, <2>2 DEF ReadableHeader
<1>2. G[p + s + 1] = F[p + 1]
  <2>1. p + 1 \in 1..Len(F) /\ s + (p + 1) = p + s + 1
    BY <1>1
  <2> QED
    BY <2>1
<1>3. DataOffset(F, p) = d /\ DataOffset(G, p + s) = d + s
  <2>1. \A n \in Nat : p + s + n = (p + n) + s
    OBVIOUS
  <2>2. DataOffset(G, p + s) = p + s + HeaderCells(h)
    BY <1>2 DEF DataOffset
  <2> QED
    BY <1>1, <2>1, <2>2 DEF DataOffset
<1>4. \A i \in d+1..Len(F) : i \in 1..Len(F) /\ G[i + s] = F[i]
  <2> TAKE i \in d+1..Len(F)
  <2>1. i \in 1..Len(F) /\ i + s = s + i
    BY <1>1
  <2> QED
    BY <2>1
<1>5. CASE h.method = "STORED"
  <2> DEFINE n == h.size
  <2>1. Content(F, p) = IF d + n <= Len(F) /\ \A i \in d+1..d+n : F[i].k = "data"
                        THEN [i \in 1..n |-> F[d + i].b] ELSE NoContent
    BY <1>3, <1>5 DEF Content, StoredContent
  <2>2. d + n <= Len(F) /\ \A i \in d+1..d+n : F[i].k = "data"
    BY <2>1
  <2>3. Content(G, p + s)
        = IF d + s + n <= Len(G) /\ \A i \in d+s+1..d+s+n : G[i].k = "data"
          THEN [i \in 1..n |-> G[d + s + i].b] ELSE NoContent
    BY <1>2, <1>3, <1>5 DEF Content, StoredContent
  <2> HIDE DEF d, h
  <2>4. d + s + n <= Len(G)
    BY <1>1, <2>2
  <2>5. \A i \in d+s+1..d+s+n : G[i].k = "data"
    <3> TAKE i \in d+s+1..d+s+n
    <3>1. i - s \in d+1..d+n /\ i - s \in d+1..Len(F) /\ (i - s) + s = i
      BY <1>1, <2>2
    <3>2. G[(i - s) + s] = F[i - s]
      BY <1>4, <3>1
    <3> QED
      BY <2>2, <3>1, <3>2
  <2>6. \A i \in 1..n : G[d + s + i] = F[d + i]
    <3> TAKE i \in 1..n
    <3>1. d + i \in d+1..Len(F) /\ (d + i) + s = d + s + i
      BY <1>1, <2>2
    <3> QED
      BY <1>4, <3>1
  <2>7. [i \in 1..n |-> G[d + s + i].b] = [i \in 1..n |-> F[d + i].b]
    BY <2>6
  <2> QED
    BY <2>1, <2>2, <2>3, <2>4, <2>5, <2>7
<1>6. CASE h.method # "STORED"
  <2>1. Content(F, p) = IF Ends(F, d) = {} THEN NoContent
                        ELSE LET n == (CHOOSE q \in Ends(F, d) : TRUE) - d
                             IN  [i \in 1..n |-> F[d + i].b]
    <3> HIDE DEF d
    <3>1. Content(F, p) = DeflatedContent(F, p)
      BY <1>6 DEF Content
    <3> QED
      BY <1>3, <3>1, DeflatedContentIs
  <2>2. Content(G, p + s) = IF Ends(G, d + s) = {} THEN NoContent
                        ELSE LET n == (CHOOSE q \in Ends(G, d + s) : TRUE) - (d + s)
                             IN  [i \in 1..n |-> G[d + s + i].b]
    <3> HIDE DEF d
    <3>1. Content(G, p + s) = DeflatedContent(G, p + s)
      BY <1>2, <1>6 DEF Content
    <3> QED
      <4> DEFINE place == p + s
      <4> DEFINE dg == d + s
      <4>1. DataOffset(G, place) = dg /\ Content(G, place) = DeflatedContent(G, place)
        BY <1>3, <3>1
      <4> HIDE DEF place, dg
      <4>2. Content(G, place) = IF Ends(G, dg) = {} THEN NoContent
                        ELSE LET n == (CHOOSE q \in Ends(G, dg) : TRUE) - dg
                             IN  [i \in 1..n |-> G[dg + i].b]
        BY <4>1, DeflatedContentIs
      <4> QED
        BY <4>2 DEF place, dg
  <2>3. PICK q \in Ends(F, d) : TRUE
    BY <2>1
  <2> HIDE DEF d, h
  <2>4. q \in d..Len(F)-1 /\ F[q + 1].k = "zend" /\ \A i \in d+1..q : F[i].k = "zdata"
    BY <2>3 DEF Ends
  <2>5. q + s \in Ends(G, d + s)
    <3>1. q + s \in d+s..Len(G)-1
      BY <1>1, <2>4, SMTT(20)
    <3>2. q + 1 \in d+1..Len(F) /\ (q + 1) + s = q + s + 1
      <4>1. q \in Int /\ d <= q /\ q <= Len(F) - 1
        BY <1>1, <2>4
      <4>2. \A a, b \in Int : (a + 1) + b = a + b + 1
        OBVIOUS
      <4>3. (q + 1) + s = q + s + 1
        BY <4>1, <4>2
      <4> QED
        BY <1>1, <4>1, <4>3
    <3>3. G[q + s + 1].k = "zend"
      BY <1>4, <2>4, <3>2
    <3>4. \A i \in d+s+1..q+s : G[i].k = "zdata"
      <4> TAKE i \in d+s+1..q+s
      <4>1. i - s \in d+1..q /\ i - s \in d+1..Len(F) /\ (i - s) + s = i
        BY <1>1, <2>4
      <4>2. G[(i - s) + s] = F[i - s]
        BY <1>4, <4>1
      <4> QED
        BY <2>4, <4>1, <4>2
    <3> QED
      BY <3>1, <3>3, <3>4 DEF Ends
  <2>6. (CHOOSE r \in Ends(F, d) : TRUE) = q
    BY <1>1, <2>3, OneEnd
  <2>7. (CHOOSE r \in Ends(G, d + s) : TRUE) = q + s
    <3>1. d + s \in Nat
      BY <1>1
    <3> QED
      BY <2>5, <3>1, OneEnd
  <2> DEFINE n == q - d
  <2>8. (q + s) - (d + s) = n
    BY <1>1, <2>4
  <2>9. \A i \in 1..n : G[d + s + i] = F[d + i]
    <3> TAKE i \in 1..n
    <3>1. d + i \in d+1..Len(F) /\ (d + i) + s = d + s + i
      BY <1>1, <2>4
    <3> QED
      BY <1>4, <3>1
  <2> HIDE DEF n
  <2>10. Content(F, p) = [i \in 1..n |-> F[d + i].b]
    BY <2>1, <2>3, <2>6 DEF n
  <2>11. Content(G, p + s) = [i \in 1..n |-> G[d + s + i].b]
    BY <2>2, <2>5, <2>7, <2>8
  <2> QED
    BY <2>9, <2>10, <2>11
<1> QED
  BY <1>5, <1>6

-----------------------------------------------------------------------------
(* The theorems. *)

\* BackBuffer always holds a window of the archive, and the read pointer of
\* init() points into it.
THEOREM BufferStaysWindow == Spec => []BufferIsWindow
<1>1. IInv => BufferIsWindow
  <2> SUFFICES ASSUME IInv, pc = "search"
               PROVE  /\ Len(buf) <= Len(View) - filePos
                      /\ readP < Len(buf)
                      /\ \A i \in 1..Len(buf) : buf[i] = View[filePos + i]
    BY DEF BufferIsWindow
  <2>1. SearchType /\ start + end <= Len(file) /\ Chunks /\ Window
    BY DEF IInv, Inside
  <2>2. Len(View) = Size /\ \A i \in 1..Size : View[i] = file[start + i]
    BY <2>1, ViewIs
  <2>3. /\ start \in Nat /\ filePos \in Nat /\ Len(buf) \in Nat /\ Size \in Int
        /\ ChunkSize \in Nat
    BY <2>1, ChunkSizeAssumption DEF SearchType, Size
  <2>4. Len(buf) <= Size - filePos
    BY <2>1, <2>3 DEF Chunks
  <2>5. \A i \in 1..Len(buf) : filePos + i \in 1..Size
    BY <2>3, <2>4
  <2>6. \A i \in 1..Len(buf) : buf[i] = View[filePos + i]
    <3> TAKE i \in 1..Len(buf)
    <3>1. buf[i] = file[start + filePos + i]
      BY <2>1 DEF Window
    <3>2. View[filePos + i] = file[start + (filePos + i)]
      BY <2>2, <2>5
    <3>3. start + (filePos + i) = start + filePos + i
      BY <2>3
    <3> QED
      BY <3>1, <3>2, <3>3
  <2> QED
    BY <2>1, <2>2, <2>3, <2>4, <2>6 DEF Window
<1> QED
  BY Invariance, <1>1, PTL

\* Reading another chunk keeps the place the read pointer stands for, and each
\* miss moves it back by one: no place of the archive is skipped.
THEOREM SearchIsThorough == Spec => SearchSkipsNothing
<1>1. IInv /\ [Next]_vars =>
        [pc = "search" /\ pc' = "search" =>
            \/ readP < 0 /\ Place' = Place
            \/ readP >= 0 /\ Place' = Place - 1]_vars
  BY NextInvariant
<1> QED
  BY Invariance, <1>1, PTL DEF Spec, SearchSkipsNothing

\* No end of central directory that is whole in one chunk is ever passed over,
\* in whichever chunk it is and whatever surrounds the archive.
THEOREM LastDirectoryIsFound == Spec => []NothingMissed
<1>1. IInv => NothingMissed
  BY DEF IInv
<1> QED
  BY Invariance, <1>1, PTL

\* The variables stay in their ranges: the read pointer in the chunk, the
\* position of the stream at or after the start of the file, the entries
\* headers, for every file.
THEOREM TypeCorrect == Spec => []TypeOK
<1>1. Full => TypeOK
  BY DEF Full, IInv, SearchType, DirectoryType, FileCell, TypeOK
<1> QED
  BY FullInvariance, <1>1, PTL

\* The view of an archive is the beginning of what follows its start.
LEMMA ViewInRest ==
  ASSUME Full, start + end <= Len(file)
  PROVE  /\ View \in Seq(FileCell) /\ Rest \in Seq(FileCell)
         /\ Len(View) <= Len(Rest)
         /\ \A i \in 1..Len(View) : View[i] = Rest[i]
         /\ start + Len(View) <= Len(file)
         /\ \A i \in 1..Len(View) : View[i] = file[start + i]
<1>1. SearchType /\ Len(file) \in Nat /\ start \in Nat /\ end \in Nat
  BY DEF Full, IInv, SearchType
<1>2. start <= Len(file) /\ start + Size <= Len(file) /\ Size <= Len(file) - start
  BY <1>1 DEF Size
<1>3. /\ View \in Seq(FileCell) /\ Len(View) = Size
      /\ \A i \in 1..Size : View[i] = file[start + i]
  BY <1>1, ViewIs
<1>4. /\ Rest \in Seq(FileCell) /\ Len(Rest) = Len(file) - start
      /\ \A i \in 1..Len(Rest) : Rest[i] = file[start + i]
  BY <1>1, <1>2, RestIs
<1>5. \A i \in 1..Size : i \in 1..Len(Rest)
  BY <1>1, <1>2, <1>4 DEF Size
<1> QED
  BY <1>2, <1>3, <1>4, <1>5

\* The end of central directory of an archive that has one.
LEMMA EocdIs ==
  ASSUME NEW F \in Seq(FileCell), EocdOffsets(F) # {}
  PROVE  /\ Eocd(F).count \in Nat
         /\ Eocd(F).offset \in Nat
<1> DEFINE p == EocdOffset(F)
<1>1. p \in EocdOffsets(F)
  BY EocdOffsetIs
<1>2. p \in 0..Len(F) - 1 /\ F[p + 1].k = "eocd" /\ Len(F) \in Nat
  BY <1>1 DEF EocdOffsets
<1> HIDE DEF p
<1>3. F[p + 1] \in FileCell
  <2>1. p + 1 \in 1..Len(F)
    BY <1>2
  <2> QED
    BY <2>1
<1>4. F[p + 1] \in [k : {"eocd"}, count : Nat, size : Nat, offset : Nat, clen : Nat]
  BY <1>2, <1>3, EocdCell
<1>5. F[p + 1].count \in Nat /\ F[p + 1].offset \in Nat
  BY <1>4
<1> QED
  BY <1>5 DEF Eocd, p

\* init() accepts an archive exactly if its end of central directory and what
\* that describes are as they should be, for every file, every size of chunk
\* and every pair of virtual ends.
THEOREM OpensExactly == Spec => []OpensWhatIsWellFormed
<1>1. Full => OpensWhatIsWellFormed
  <2> SUFFICES ASSUME Full, pc = "done", start + end <= Len(file)
               PROVE  /\ result = "opened"
                            <=> EocdReadable(View) /\ Consistent(Rest, Eocd(View))
                      /\ Opens(View) => result = "opened"
    BY DEF OpensWhatIsWellFormed
  <2>1. result = "opened" <=> EocdReadable(View) /\ Consistent(Rest, Eocd(View))
    BY DEF Full, Verdict
  <2>2. ASSUME Opens(View)
        PROVE  Consistent(Rest, Eocd(View))
    BY <2>2, ViewInRest, EocdIs, ConsistentInLonger DEF Opens, EocdReadable
  <2> QED
    BY <2>1, <2>2 DEF Opens
<1> QED
  BY FullInvariance, <1>1, PTL

\* An archive that reads back alone is opened in every file that holds it
\* between the virtual ends, and each entry of it has the content it should,
\* read at the place that getInputStream() opens the file at.
THEOREM ReadsBackAnywhere == Spec => []ContentsReadBack
<1>1. Full => ContentsReadBack
  <2> SUFFICES ASSUME Full, pc = "done", opening.intact
               PROVE  /\ result = "opened"
                      /\ Len(entries) = Len(opening.contents)
                      /\ \A i \in 1..Len(entries) :
                            Content(file, EntryOffset(entries[i])) = opening.contents[i]
    BY DEF ContentsReadBack
  <2>1. Holds(opening, start, end)
    BY DEF Full, AtPlace
  <2> DEFINE e == Eocd(View)
  <2> DEFINE at == CentralOffsets(View, e)
  <2>2. /\ start + end <= Len(file) /\ Opens(View) /\ Len(opening.contents) = e.count
        /\ \A i \in 1..e.count :
            /\ Content(View, CentralHeaders(View)[i].offset) = opening.contents[i]
            /\ opening.contents[i] # NoContent
    BY <2>1 DEF Holds, View, file
  <2>3. View \in Seq(FileCell) /\ e.count \in Nat /\ e.offset \in Nat
    BY <2>2, ViewInRest, EocdIs DEF Opens, EocdReadable
  <2>4. /\ Consistent(Rest, e)
        /\ \A i \in 1..e.count : /\ CentralOffsets(Rest, e)[i] = at[i]
                                 /\ at[i] \in Nat
                                 /\ Rest[at[i] + 1] = View[at[i] + 1]
    <3>1. Consistent(View, e)
      BY <2>2 DEF Opens
    <3>2. /\ Rest \in Seq(FileCell) /\ Len(View) <= Len(Rest)
          /\ \A i \in 1..Len(View) : View[i] = Rest[i]
      BY <2>2, ViewInRest
    <3> HIDE DEF e
    <3> QED
      BY <2>3, <3>1, <3>2, ConsistentInLonger
  <2>5. result = "opened"
    BY <2>2, <2>4 DEF Full, Verdict, Opens
  <2>6. /\ eocd = e /\ Len(entries) = e.count
        /\ \A i \in 1..e.count : Listed(i)
    BY <2>5 DEF Full, Located, Walked
  <2>7. ASSUME NEW i \in 1..e.count
        PROVE  Content(file, EntryOffset(entries[i])) = opening.contents[i]
    <3> DEFINE h == View[at[i] + 1].h
    <3>1. entries[i] = h
      BY <2>4, <2>6 DEF Listed, Offsets
    <3>2. CentralHeaders(View)[i] = h
      BY DEF CentralHeaders
    <3>3. ReadableHeader(View, at[i], "central") /\ ReadableHeader(View, h.offset, "local")
      BY <2>2 DEF Opens, Consistent
    <3>4. h \in Header /\ h.offset \in Nat
      <4>1. h \in Header
        BY <2>3, <2>4, <3>3, ReadableIs
      <4> QED
        BY <4>1 DEF Header
    <3> HIDE DEF h
    <3>5. Content(View, h.offset) = opening.contents[i] /\ opening.contents[i] # NoContent
      BY <2>2, <3>2
    <3>6. Content(file, h.offset + start) = Content(View, h.offset)
      <4>1. file \in Seq(FileCell) /\ start \in Nat
        BY DEF Full, IInv, SearchType
      <4> QED
        BY <2>2, <2>3, <3>3, <3>4, <3>5, <4>1, ViewInRest, ContentElsewhere, SMTT(20)
    <3> QED
      BY <3>1, <3>5, <3>6 DEF EntryOffset
  <2> QED
    BY <2>2, <2>5, <2>6, <2>7
<1> QED
  BY FullInvariance, <1>1, PTL
=============================================================================
