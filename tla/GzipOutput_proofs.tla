-------------------------- MODULE GzipOutput_proofs ---------------------------
(***************************************************************************)
(* What holds of a GZIP stream for every size of its buffer, every output, *)
(* however much the client writes and however often it calls finish().     *)
(***************************************************************************)
EXTENDS GzipOutput, FiniteSetTheorems, SequenceTheorems, TLAPS

-----------------------------------------------------------------------------
(* The inductive invariant. *)

\* A Streambuf whose file holds the header and the trailer of a gzip member too.
GzipStreambuf ==
    [open : BOOLEAN, openEntry : BOOLEAN, level : Nat, overflown : 0..WordMod-1,
     crc : Seq(Byte), invec : Seq(Byte), outvec : Seq(Cell), zsInit : BOOLEAN,
     entries : Seq(Entry), comment : Nat, thrown : Exception,
     phase : {"idle", "central", "sealed"}, cdStart : Nat, cdNext : Nat \ {0},
     cdSize : Nat, file : Seq(GzipCell), pos : Nat, fuse : Int, short : Nat,
     refused : BOOLEAN]

\* Everything is written at the end of the file, and no byte is ever counted.
Typed(s) ==
    /\ s \in GzipStreambuf
    /\ s.pos = Len(s.file)
    /\ Len(s.invec) <= BufSize
    /\ s.overflown = 0

\* The only header, and then the data.
HeaderThenData(f) ==
    /\ f # << >> /\ f[1].k = "gzip"
    /\ \A i \in 2..Len(f) : f[i].k = "zdata"

\* Before the first overflow(), from then to finish(), and after closeStream().
Unwritten(s, bytes) ==
    /\ ~s.open /\ s.zsInit
    /\ s.file = << >> /\ s.crc = << >> /\ s.outvec = << >>
    /\ s.invec = bytes

Writing(s, bytes) ==
    /\ s.open /\ s.zsInit
    /\ Holds(s.file, s.crc) /\ HeaderThenData(s.file)
    /\ s.outvec = << >>
    /\ s.crc \o s.invec = bytes

Closed(s, bytes) ==
    /\ ~s.zsInit
    /\ Holds(s.file, bytes)
    /\ s.invec = << >>

Stage ==
    ~sb.refused /\ life = "alive" =>
        \/ Unwritten(sb, put)
        \/ finished = 0 /\ Writing(sb, put)
        \/ finished > 0 /\ Closed(sb, put)

Settings ==
    /\ name \in BOOLEAN /\ note \in BOOLEAN /\ good \in BOOLEAN
    /\ put \in Seq(Byte)
    /\ finished \in 0..MaxFinish
    /\ life \in {"alive", "destroyed", "terminated"}
    /\ finished = 0 /\ good /\ life = "alive" => sb.thrown = "none"

IInv == Typed(sb) /\ Settings /\ Stage

-----------------------------------------------------------------------------
(* The deflated bytes of a file. *)

LEMMA CountsUpTo ==
  ASSUME NEW f, NEW n \in Nat
  PROVE  /\ IsFiniteSet({i \in 1..n : f[i].k = "zdata"})
         /\ DeflatedIn(f, n) \in Nat /\ DeflatedIn(f, n) <= n
<1>1. IsFiniteSet(1..n) /\ Cardinality(1..n) = n
  BY FS_Interval
<1>2. {i \in 1..n : f[i].k = "zdata"} \subseteq 1..n
  OBVIOUS
<1> QED
  BY <1>1, <1>2, FS_Subset, FS_CardinalityType DEF DeflatedIn

\* Cells behind them do not matter to the first ones.
LEMMA CountsSame ==
  ASSUME NEW f, NEW g, NEW n \in Nat, \A i \in 1..n : g[i] = f[i]
  PROVE  DeflatedIn(g, n) = DeflatedIn(f, n)
<1>1. {i \in 1..n : g[i].k = "zdata"} = {i \in 1..n : f[i].k = "zdata"}
  OBVIOUS
<1> QED
  BY <1>1 DEF DeflatedIn

\* One deflated byte more.
LEMMA CountsNext ==
  ASSUME NEW f, NEW n \in Nat
  PROVE  DeflatedIn(f, n + 1) = IF f[n + 1].k = "zdata" THEN DeflatedIn(f, n) + 1
                                                       ELSE DeflatedIn(f, n)
<1> DEFINE A == {i \in 1..n : f[i].k = "zdata"}
<1> DEFINE B == {i \in 1..n + 1 : f[i].k = "zdata"}
<1>1. IsFiniteSet(A)
  BY CountsUpTo
<1>2. CASE f[n + 1].k = "zdata"
  <2>1. B = A \cup {n + 1} /\ n + 1 \notin A
    BY <1>2
  <2>2. Cardinality(A \cup {n + 1}) = Cardinality(A) + 1
    <3> HIDE DEF A
    <3> QED
      BY <1>1, <2>1, FS_AddElement
  <2> QED
    BY <1>2, <2>1, <2>2 DEF DeflatedIn
<1>3. CASE f[n + 1].k # "zdata"
  <2>1. B = A
    BY <1>3
  <2> QED
    BY <1>3, <2>1 DEF DeflatedIn
<1> QED
  BY <1>2, <1>3

\* A header or a trailer is no deflated byte.
LEMMA HoldsOther ==
  ASSUME NEW S, NEW f \in Seq(S), NEW c \in S, NEW bytes, Holds(f, bytes), c.k # "zdata"
  PROVE  Holds(f \o << c >>, bytes)
<1> DEFINE g == f \o << c >>
<1>1. /\ Len(f) \in Nat /\ Len(g) = Len(f) + 1 /\ g[Len(f) + 1] = c
      /\ \A i \in 1..Len(f) : g[i] = f[i]
  OBVIOUS
<1> HIDE DEF g
<1>2. ASSUME NEW i \in 0..Len(f)
      PROVE  DeflatedIn(g, i) = DeflatedIn(f, i)
  <2>1. i \in Nat /\ \A j \in 1..i : g[j] = f[j]
    BY <1>1
  <2> QED
    BY <2>1, CountsSame
<1>3. DeflatedIn(g, Len(g)) = DeflatedIn(f, Len(f))
  <2>1. DeflatedIn(g, Len(f) + 1) = DeflatedIn(g, Len(f))
    BY <1>1, CountsNext
  <2> QED
    BY <1>1, <1>2, <2>1
<1>4. ASSUME NEW i \in 1..Len(g), g[i].k = "zdata"
      PROVE  g[i].b = bytes[DeflatedIn(g, i)]
  <2>1. i \in 1..Len(f)
    BY <1>1, <1>4
  <2>2. DeflatedIn(g, i) = DeflatedIn(f, i)
    BY <1>1, <1>2, <2>1
  <2> QED
    BY <1>1, <1>4, <2>1, <2>2 DEF Holds
<1> QED
  BY <1>3, <1>4 DEF Holds, g

\* Deflated bytes behind those there are.
LEMMA CountsBlock ==
  ASSUME NEW g, NEW m \in Nat, NEW k \in Nat, \A i \in m + 1..m + k : g[i].k = "zdata"
  PROVE  DeflatedIn(g, m + k) = DeflatedIn(g, m) + k
<1> DEFINE A == {i \in 1..m : g[i].k = "zdata"}
<1> DEFINE B == m + 1..m + k
<1> DEFINE C == {i \in 1..m + k : g[i].k = "zdata"}
<1>1. IsFiniteSet(A) /\ Cardinality(A) \in Nat
  BY CountsUpTo, FS_CardinalityType
<1>2. IsFiniteSet(B) /\ Cardinality(B) = k
  <2>1. m + 1 \in Int /\ m + k \in Int
    OBVIOUS
  <2>2. IsFiniteSet(B) /\ Cardinality(B) = IF m + 1 > m + k THEN 0 ELSE (m + k) - (m + 1) + 1
    BY <2>1, FS_Interval
  <2>3. (IF m + 1 > m + k THEN 0 ELSE (m + k) - (m + 1) + 1) = k
    OBVIOUS
  <2> QED
    BY <2>2, <2>3
<1>3. A \cap B = {} /\ C = A \cup B
  <2>1. \A i \in 1..m + k : i \in 1..m \/ i \in B
    OBVIOUS
  <2>2. \A i \in 1..m : i \in 1..m + k /\ i \notin B
    OBVIOUS
  <2>3. \A i \in B : i \in 1..m + k
    OBVIOUS
  <2> HIDE DEF B
  <2> QED
    BY <2>1, <2>2, <2>3 DEF B
<1> HIDE DEF A, B, C
<1>4. Cardinality(C) = Cardinality(A) + Cardinality(B)
  <2>1. Cardinality(A \cup B) = Cardinality(A) + Cardinality(B) - Cardinality(A \cap B)
    BY <1>1, <1>2, FS_Union
  <2>2. Cardinality(A \cap B) = 0
    BY <1>3, FS_EmptySet
  <2>3. \A x, y \in Nat : x + y - 0 = x + y
    OBVIOUS
  <2> QED
    BY <1>1, <1>2, <1>3, <2>1, <2>2, <2>3
<1> QED
  BY <1>2, <1>4 DEF DeflatedIn, A, C

LEMMA HoldsMore ==
  ASSUME NEW S, NEW f \in Seq(S), NEW T, NEW bytes \in Seq(T), NEW more \in Seq(T),
         DeflatedCells(more) \in Seq(S), Holds(f, bytes)
  PROVE  Holds(f \o DeflatedCells(more), bytes \o more)
<1> DEFINE cells == DeflatedCells(more)
<1> DEFINE g == f \o cells
<1> DEFINE m == Len(f)
<1> DEFINE all == bytes \o more
<1>1. /\ m \in Nat /\ Len(more) \in Nat /\ Len(bytes) \in Nat
      /\ Len(cells) = Len(more)
      /\ \A i \in 1..Len(more) : cells[i].k = "zdata" /\ cells[i].b = more[i]
  BY DEF DeflatedCells
<1>2. /\ Len(all) = Len(bytes) + Len(more)
      /\ \A i \in 1..Len(bytes) + Len(more) :
            all[i] = IF i <= Len(bytes) THEN bytes[i] ELSE more[i - Len(bytes)]
  BY ConcatProperties
<1> HIDE DEF all, cells
<1>3. /\ Len(g) = m + Len(more)
      /\ \A i \in 1..m + Len(more) : g[i] = IF i <= m THEN f[i] ELSE cells[i - m]
  <2>1. cells \in Seq(S)
    BY DEF cells
  <2>2. /\ Len(g) = m + Len(cells)
        /\ \A i \in 1..m + Len(cells) : g[i] = IF i <= m THEN f[i] ELSE cells[i - m]
    BY <2>1, ConcatProperties
  <2> QED
    BY <1>1, <2>2
<1> HIDE DEF g, m
<1>4. \A i \in 1..m : g[i] = f[i]
  BY <1>1, <1>3
<1>5. ASSUME NEW i \in 1..Len(more)
      PROVE  g[m + i].k = "zdata" /\ g[m + i].b = more[i]
  <2>1. m + i \in 1..m + Len(more) /\ ~(m + i <= m) /\ m + i - m = i
    BY <1>1
  <2> QED
    BY <1>1, <1>3, <2>1, SMTT(20)
<1>6. ASSUME NEW i \in 0..m
      PROVE  DeflatedIn(g, i) = DeflatedIn(f, i)
  <2>1. i \in Nat /\ \A j \in 1..i : g[j] = f[j]
    BY <1>1, <1>4
  <2> QED
    BY <2>1, CountsSame
<1>7. ASSUME NEW k \in 0..Len(more)
      PROVE  DeflatedIn(g, m + k) = Len(bytes) + k
  <2>1. k \in Nat /\ \A i \in m + 1..m + k : g[i].k = "zdata"
    <3>1. ASSUME NEW i \in m + 1..m + k
          PROVE  g[i].k = "zdata"
      <4>1. i - m \in 1..Len(more) /\ m + (i - m) = i
        BY <1>1
      <4> QED
        BY <1>5, <4>1
    <3> QED
      BY <1>1, <3>1
  <2>2. DeflatedIn(g, m + k) = DeflatedIn(g, m) + k
    BY <1>1, <2>1, CountsBlock
  <2>3. DeflatedIn(g, m) = Len(bytes)
    BY <1>1, <1>6 DEF Holds, m
  <2> QED
    BY <2>2, <2>3
<1>8. DeflatedIn(g, Len(g)) = Len(all)
  BY <1>1, <1>2, <1>3, <1>7
<1>9. ASSUME NEW i \in 1..Len(g), g[i].k = "zdata"
      PROVE  g[i].b = all[DeflatedIn(g, i)]
  <2>1. CASE i <= m
    <3>1. i \in 1..m /\ i \in 0..m /\ i \in Nat /\ i # 0
      BY <1>1, <1>3, <2>1
    <3>2. f[i].k = "zdata" /\ f[i].b = bytes[DeflatedIn(f, i)]
      BY <1>4, <1>9, <3>1 DEF Holds, m
    <3>3. DeflatedIn(f, i) \in 1..Len(bytes)
      <4>1. \A j \in 1..m : DeflatedIn(f, j) \in Nat /\ DeflatedIn(f, j) <= DeflatedIn(f, m)
        <5> SUFFICES ASSUME NEW j \in 1..m
                     PROVE  DeflatedIn(f, j) \in Nat /\ DeflatedIn(f, j) <= DeflatedIn(f, m)
          OBVIOUS
        <5>1. {x \in 1..j : f[x].k = "zdata"} \subseteq {x \in 1..m : f[x].k = "zdata"}
          BY <1>1
        <5>2. j \in Nat /\ m \in Nat
          BY <1>1
        <5>3. /\ IsFiniteSet({x \in 1..m : f[x].k = "zdata"})
              /\ IsFiniteSet({x \in 1..j : f[x].k = "zdata"})
          BY <5>2, CountsUpTo
        <5> QED
          BY <5>1, <5>3, FS_Subset, FS_CardinalityType DEF DeflatedIn
      <4>2. DeflatedIn(f, i) # 0
        <5>1. DeflatedIn(f, (i - 1) + 1) = DeflatedIn(f, i - 1) + 1
          <6>1. i - 1 \in Nat /\ (i - 1) + 1 = i
            BY <3>1
          <6> QED
            BY <3>2, <6>1, CountsNext
        <5>2. (i - 1) + 1 = i /\ i - 1 \in Nat
          BY <3>1
        <5>3. DeflatedIn(f, i - 1) \in Nat
          BY <5>2, CountsUpTo
        <5> QED
          BY <5>1, <5>2, <5>3
      <4>3. DeflatedIn(f, m) = Len(bytes)
        BY DEF Holds, m
      <4> QED
        BY <1>1, <3>1, <4>1, <4>2, <4>3
    <3>4. DeflatedIn(g, i) = DeflatedIn(f, i)
      BY <1>6, <3>1
    <3>5. all[DeflatedIn(f, i)] = bytes[DeflatedIn(f, i)]
      BY <1>1, <1>2, <3>3
    <3> QED
      BY <1>4, <3>1, <3>2, <3>4, <3>5
  <2>2. CASE ~(i <= m)
    <3>1. PICK k \in 1..Len(more) : m + k = i
      <4>1. i - m \in 1..Len(more) /\ m + (i - m) = i
        BY <1>1, <1>3, <2>2
      <4> QED
        BY <4>1
    <3>2. g[i].b = more[k] /\ DeflatedIn(g, i) = Len(bytes) + k
      <4>1. k \in 0..Len(more)
        BY <1>1
      <4>2. g[m + k].b = more[k] /\ DeflatedIn(g, m + k) = Len(bytes) + k
        BY <1>5, <1>7, <4>1
      <4> QED
        BY <3>1, <4>2
    <3>3. all[Len(bytes) + k] = more[k]
      <4>1. /\ Len(bytes) + k \in 1..Len(bytes) + Len(more)
            /\ ~(Len(bytes) + k <= Len(bytes)) /\ Len(bytes) + k - Len(bytes) = k
        BY <1>1
      <4> QED
        BY <1>2, <4>1
    <3> QED
      BY <3>2, <3>3
  <2> QED
    BY <2>1, <2>2
<1> QED
  BY <1>8, <1>9 DEF Holds, g, cells, all

-----------------------------------------------------------------------------
(* What the member functions do. *)

\* Nothing but the output changed.
SameStream(s, t) ==
    /\ t.open = s.open /\ t.zsInit = s.zsInit /\ t.crc = s.crc
    /\ t.invec = s.invec /\ t.outvec = s.outvec /\ t.thrown = s.thrown

\* An output that never refused anything has these cells behind the others.
Wrote(s, t, cells) ==
    /\ s.refused => t.refused
    /\ ~t.refused => t.file = s.file \o cells

LEMMA StreambufFields ==
  ASSUME NEW s \in GzipStreambuf
  PROVE  /\ s.open \in BOOLEAN /\ s.zsInit \in BOOLEAN /\ s.refused \in BOOLEAN
         /\ s.crc \in Seq(Byte) /\ s.invec \in Seq(Byte) /\ s.outvec \in Seq(Cell)
         /\ s.thrown \in Exception /\ s.file \in Seq(GzipCell)
         /\ s.pos \in Nat /\ s.fuse \in Int /\ s.short \in Nat
         /\ s.overflown \in 0..WordMod-1
BY DEF GzipStreambuf

\* What is written lands at the end of the file.
LEMMA OverwriteAtEnd ==
  ASSUME NEW S, NEW f \in Seq(S), NEW cells \in Seq(S)
  PROVE  Overwrite(f, Len(f), cells) = f \o cells
<1> DEFINE n == Len(f) + Len(cells)
<1> DEFINE g == [i \in 1..n |-> IF Len(f) < i /\ i <= n THEN cells[i - Len(f)] ELSE f[i]]
<1>1. Len(f) \in Nat /\ Len(cells) \in Nat /\ n \in Nat
  OBVIOUS
<1>2. Overwrite(f, Len(f), cells) = g
  <2>1. (IF Len(f) + Len(cells) > Len(f) THEN Len(f) + Len(cells) ELSE Len(f)) = n
    BY <1>1
  <2> QED
    BY <2>1 DEF Overwrite
<1>3. /\ f \o cells \in Seq(S) /\ Len(f \o cells) = n
      /\ \A i \in 1..n : (f \o cells)[i] = IF i <= Len(f) THEN f[i] ELSE cells[i - Len(f)]
  BY ConcatProperties
<1>4. ASSUME NEW i \in 1..n
      PROVE  g[i] = (f \o cells)[i]
  BY <1>1, <1>3
<1>5. g \in Seq(S) /\ Len(g) = n
  <2>1. ASSUME NEW i \in 1..n
        PROVE  g[i] \in S
    <3>1. (f \o cells)[i] \in S
      BY <1>3, ElementOfSeq
    <3> QED
      BY <1>4, <3>1
  <2> QED
    BY <1>1, <2>1, IsASeq
<1> HIDE DEF g, n
<1> QED
  BY <1>2, <1>3, <1>4, <1>5, SeqEqual

LEMMA SputnWrote ==
  ASSUME NEW s, Typed(s), NEW cells \in Seq(GzipCell)
  PROVE  /\ Typed(Sputn(s, cells)) /\ SameStream(s, Sputn(s, cells))
         /\ Wrote(s, Sputn(s, cells), cells)
         /\ Accepted(s, Len(cells)) < Len(cells) => Sputn(s, cells).refused
<1> DEFINE n == Accepted(s, Len(cells))
<1> DEFINE part == SubSeq(cells, 1, n)
<1> DEFINE t == Sputn(s, cells)
<1>1. /\ s \in GzipStreambuf /\ s.pos = Len(s.file) /\ s.file \in Seq(GzipCell)
      /\ s.fuse \in Int /\ s.short \in Nat /\ s.refused \in BOOLEAN
  BY StreambufFields DEF Typed
<1>2. n \in 0..Len(cells) /\ Len(cells) \in Nat
  BY <1>1 DEF Accepted
<1>3. part \in Seq(GzipCell) /\ Len(part) = n
  BY <1>2, SubSeqProperties
<1>4. n = Len(cells) => part = cells
  <2> SUFFICES ASSUME n = Len(cells) PROVE part = cells
    OBVIOUS
  <2>1. SubSeq(cells, 1, Len(cells)) = cells
    BY SubSeqFull
  <2> QED
    BY <2>1
<1> HIDE DEF part, n
<1>5. /\ Overwrite(s.file, s.pos, part) = s.file \o part
      /\ s.file \o part \in Seq(GzipCell) /\ Len(s.file \o part) = s.pos + n
  <2>1. Overwrite(s.file, Len(s.file), part) = s.file \o part
    BY <1>1, <1>3, OverwriteAtEnd
  <2>2. s.file \o part \in Seq(GzipCell) /\ Len(s.file \o part) = Len(s.file) + Len(part)
    BY <1>1, <1>3, ConcatProperties
  <2> QED
    BY <1>1, <1>3, <2>1, <2>2
<1>6. t = [s EXCEPT !.file = s.file \o part, !.pos = s.pos + n,
                    !.fuse = IF s.fuse > 0 THEN s.fuse - 1 ELSE s.fuse,
                    !.short = IF n < Len(cells) THEN 0 ELSE s.short,
                    !.refused = s.refused \/ n < Len(cells)]
  BY <1>5 DEF Sputn, n, part
<1> HIDE DEF t
<1>7. /\ t.file = s.file \o part /\ t.pos = s.pos + n
      /\ t.refused = (s.refused \/ n < Len(cells))
      /\ SameStream(s, t) /\ t.overflown = s.overflown
  BY <1>1, <1>6 DEF GzipStreambuf, SameStream
<1>8. t \in GzipStreambuf
  <2>1. s.pos + n \in Nat
    BY <1>1, <1>2, StreambufFields
  <2>2. (IF s.fuse > 0 THEN s.fuse - 1 ELSE s.fuse) \in Int
    BY <1>1
  <2>3. (IF n < Len(cells) THEN 0 ELSE s.short) \in Nat
    BY <1>1
  <2>4. (s.refused \/ n < Len(cells)) \in BOOLEAN
    OBVIOUS
  <2> QED
    BY <1>1, <1>5, <1>6, <2>1, <2>2, <2>3, <2>4, ZenonT(40) DEF GzipStreambuf
<1>9. Typed(t)
  BY <1>1, <1>5, <1>7, <1>8 DEF Typed, SameStream
<1>10. Wrote(s, t, cells)
  <2>1. s.refused => t.refused
    BY <1>7
  <2>2. ~t.refused => n = Len(cells)
    <3>1. ~t.refused => ~(n < Len(cells))
      BY <1>7
    <3> QED
      BY <1>2, <3>1
  <2> QED
    BY <1>4, <1>7, <2>1, <2>2 DEF Wrote
<1> QED
  BY <1>7, <1>9, <1>10 DEF t, n

LEMMA FieldChanges ==
  ASSUME NEW s, Typed(s)
  PROVE  /\ \A x \in BOOLEAN : Typed([s EXCEPT !.open = x]) /\ Typed([s EXCEPT !.zsInit = x])
         /\ \A x \in Seq(Byte) :
                /\ Typed([s EXCEPT !.crc = x])
                /\ Len(x) <= BufSize => Typed([s EXCEPT !.invec = x])
         /\ \A x \in Seq(Cell) : Typed([s EXCEPT !.outvec = x])
         /\ \A x \in Exception : Typed(Throw(s, x))
         /\ \A x \in Int : Typed([s EXCEPT !.fuse = x])
         /\ \A x \in Nat : Typed([s EXCEPT !.short = x])
<1> USE DEF Typed, GzipStreambuf
<1>1. \A x \in BOOLEAN : Typed([s EXCEPT !.open = x])
  OBVIOUS
<1>2. \A x \in BOOLEAN : Typed([s EXCEPT !.zsInit = x])
  OBVIOUS
<1>3. \A x \in Seq(Byte) : Typed([s EXCEPT !.crc = x])
  OBVIOUS
<1>4. \A x \in Seq(Byte) : Len(x) <= BufSize => Typed([s EXCEPT !.invec = x])
  OBVIOUS
<1>5. \A x \in Seq(Cell) : Typed([s EXCEPT !.outvec = x])
  OBVIOUS
<1>6. \A x \in Exception : Typed(Throw(s, x))
  BY DEF Throw
<1>7. \A x \in Int : Typed([s EXCEPT !.fuse = x])
  OBVIOUS
<1>8. \A x \in Nat : Typed([s EXCEPT !.short = x])
  OBVIOUS
<1> HIDE DEF Typed, GzipStreambuf
<1> QED
  BY <1>1, <1>2, <1>3, <1>4, <1>5, <1>6, <1>7, <1>8

LEMMA HeaderCellType ==
  ASSUME name \in BOOLEAN, note \in BOOLEAN
  PROVE  /\ << HeaderCell >> \in Seq(GzipCell) /\ HeaderCell.k = "gzip"
<1>1. HeaderCell \in GzipCell
  BY DEF HeaderCell, GzipCell
<1> QED
  BY <1>1 DEF HeaderCell

\* The cells the first overflow() writes.
FirstCells(s) == IF s.open THEN << >> ELSE << HeaderCell >>

LEMMA OpenOnOverflowIs ==
  ASSUME NEW s, Typed(s), name \in BOOLEAN, note \in BOOLEAN
  PROVE  LET t == OpenOnOverflow(s)
         IN  /\ Typed(t) /\ SameStream([s EXCEPT !.open = TRUE], t)
             /\ Wrote(s, t, FirstCells(s))
<1>1. s \in GzipStreambuf /\ s.file \in Seq(GzipCell)
  BY StreambufFields DEF Typed
<1>2. CASE s.open
  <2>1. OpenOnOverflow(s) = s
    BY <1>2 DEF OpenOnOverflow
  <2>2. s.file \o << >> = s.file
    BY <1>1, ConcatEmptySeq
  <2>3. SameStream([s EXCEPT !.open = TRUE], s)
    BY <1>1, <1>2 DEF SameStream, GzipStreambuf
  <2> QED
    BY <1>2, <2>1, <2>2, <2>3 DEF Wrote, FirstCells
<1>3. CASE ~s.open
  <2> DEFINE u == Sputn(s, << HeaderCell >>)
  <2> DEFINE t == [u EXCEPT !.open = TRUE]
  <2>1. Typed(u) /\ SameStream(s, u) /\ Wrote(s, u, << HeaderCell >>)
    BY HeaderCellType, SputnWrote
  <2>2. OpenOnOverflow(s) = t
    BY <1>3 DEF OpenOnOverflow, WriteHeader
  <2> HIDE DEF u
  <2>3. u \in GzipStreambuf
    BY <2>1 DEF Typed
  <2>4. Typed(t)
    BY <2>1, FieldChanges
  <2>5. SameStream([s EXCEPT !.open = TRUE], t)
    BY <1>1, <2>1, <2>3 DEF SameStream, GzipStreambuf
  <2>6. t.file = u.file /\ t.refused = u.refused
    BY <2>3 DEF GzipStreambuf
  <2>7. Wrote(s, t, << HeaderCell >>)
    BY <2>1, <2>6 DEF Wrote
  <2> QED
    BY <1>3, <2>2, <2>4, <2>5, <2>7 DEF FirstCells
<1> QED
  BY <1>2, <1>3

\* A write that is refused throws.
LEMMA WriteIs ==
  ASSUME NEW s, Typed(s), NEW cells \in Seq(GzipCell)
  PROVE  LET t == Write(s, cells)
         IN  /\ Typed(t)
             /\ t.open = s.open /\ t.zsInit = s.zsInit /\ t.crc = s.crc
             /\ t.invec = s.invec /\ t.outvec = s.outvec
             /\ Wrote(s, t, cells)
             /\ ~t.refused => t.thrown = s.thrown
<1> DEFINE u == Sputn(s, cells)
<1>1. s \in GzipStreambuf /\ s.file \in Seq(GzipCell)
  BY StreambufFields DEF Typed
<1>2. /\ Typed(u) /\ SameStream(s, u) /\ Wrote(s, u, cells)
      /\ Accepted(s, Len(cells)) < Len(cells) => u.refused
  BY SputnWrote
<1> HIDE DEF u
<1>3. u \in GzipStreambuf
  BY <1>2 DEF Typed
<1>4. CASE cells = << >>
  <2>1. s.file \o << >> = s.file
    BY <1>1, ConcatEmptySeq
  <2> QED
    BY <1>4, <2>1 DEF Write, Wrote
<1>5. CASE cells # << >> /\ Accepted(s, Len(cells)) < Len(cells)
  <2> DEFINE t == Throw(u, "IOException")
  <2>1. Write(s, cells) = t
    BY <1>5 DEF Write, u
  <2>2. Typed(t)
    BY <1>2, FieldChanges DEF Exception
  <2>3. /\ t.open = u.open /\ t.zsInit = u.zsInit /\ t.crc = u.crc
        /\ t.invec = u.invec /\ t.outvec = u.outvec /\ t.refused = u.refused
        /\ t.file = u.file
    BY <1>3 DEF Throw, GzipStreambuf
  <2> HIDE DEF t
  <2> QED
    BY <1>2, <1>5, <2>1, <2>2, <2>3 DEF SameStream, Wrote
<1>6. CASE cells # << >> /\ ~(Accepted(s, Len(cells)) < Len(cells))
  <2>1. Write(s, cells) = u
    BY <1>6 DEF Write, u
  <2> QED
    BY <1>2, <2>1 DEF SameStream
<1> QED
  BY <1>4, <1>5, <1>6

LEMMA FlushOutvecIs ==
  ASSUME NEW s, Typed(s)
  PROVE  LET t == FlushOutvec(s)
         IN  /\ Typed(t)
             /\ t.open = s.open /\ t.zsInit = s.zsInit /\ t.crc = s.crc
             /\ t.invec = s.invec
             /\ Wrote(s, t, s.outvec)
             /\ ~t.refused => t.thrown = s.thrown
             /\ t.thrown = "none" => t.outvec = << >>
<1> DEFINE u == Write(s, s.outvec)
<1> DEFINE t == [u EXCEPT !.outvec = << >>]
<1>1. s \in GzipStreambuf /\ s.outvec \in Seq(GzipCell)
  BY StreambufFields, SeqMonotonic DEF Typed, GzipCell
<1>2. /\ Typed(u)
      /\ u.open = s.open /\ u.zsInit = s.zsInit /\ u.crc = s.crc
      /\ u.invec = s.invec /\ u.outvec = s.outvec
      /\ Wrote(s, u, s.outvec)
      /\ ~u.refused => u.thrown = s.thrown
  BY <1>1, WriteIs
<1>3. FlushOutvec(s) = IF u.thrown # "none" THEN u ELSE t
  BY DEF FlushOutvec, Then
<1> HIDE DEF u
<1>4. u \in GzipStreambuf
  BY <1>2 DEF Typed
<1>5. /\ Typed(t) /\ t.open = u.open /\ t.zsInit = u.zsInit /\ t.crc = u.crc
      /\ t.invec = u.invec /\ t.outvec = << >> /\ t.refused = u.refused
      /\ t.file = u.file /\ t.thrown = u.thrown
  <2>1. << >> \in Seq(Cell)
    OBVIOUS
  <2>2. Typed(t)
    BY <1>2, <2>1, FieldChanges
  <2> QED
    BY <1>4, <2>2 DEF GzipStreambuf
<1> HIDE DEF t
<1>6. CASE u.thrown # "none"
  BY <1>2, <1>3, <1>6
<1>7. CASE u.thrown = "none"
  BY <1>2, <1>3, <1>5, <1>7 DEF Wrote
<1> QED
  BY <1>6, <1>7

LEMMA ZDataType ==
  ASSUME NEW bytes \in Seq(Byte)
  PROVE  DeflatedCells(bytes) \in Seq(Cell) /\ DeflatedCells(bytes) \in Seq(GzipCell)
<1>1. ASSUME NEW i \in 1..Len(bytes)
      PROVE  [k |-> "zdata", b |-> bytes[i]] \in Cell
  <2>1. bytes[i] \in Byte
    BY ElementOfSeq
  <2> QED
    BY <2>1 DEF Cell
<1>2. DeflatedCells(bytes) \in Seq(Cell)
  BY <1>1, IsASeq DEF DeflatedCells
<1> QED
  BY <1>2, SeqMonotonic DEF GzipCell

\* The put area is deflated into m_outvec and flushed, and c kept; when the
\* output refuses a part the put area stays as it is.
LEMMA OverflowDeflateIs ==
  ASSUME NEW s, Typed(s), NEW c \in Seq(Byte), Len(c) <= BufSize
  PROVE  LET t == OverflowDeflate(s, c)
         IN  /\ Typed(t)
             /\ t.open = s.open /\ t.zsInit = s.zsInit /\ t.crc = s.crc \o s.invec
             /\ s.refused => t.refused
             /\ s.outvec = << >> => Wrote(s, t, DeflatedCells(s.invec))
             /\ ~t.refused => t.thrown = s.thrown
             /\ t.thrown = "none" => t.outvec = << >> /\ t.invec = c
<1> DEFINE w == CrcPutArea(s)
<1> DEFINE v == IF s.invec = << >> THEN w ELSE [w EXCEPT !.outvec = DeflatedCells(s.invec)]
<1> DEFINE u == FlushOutvec(v)
<1> DEFINE t == [u EXCEPT !.invec = c]
<1>1. s \in GzipStreambuf /\ s.invec \in Seq(Byte) /\ s.crc \in Seq(Byte)
  BY StreambufFields DEF Typed
<1>2. /\ Typed(w) /\ w.crc = s.crc \o s.invec /\ w.open = s.open /\ w.zsInit = s.zsInit
      /\ w.invec = s.invec /\ w.outvec = s.outvec /\ w.file = s.file
      /\ w.refused = s.refused /\ w.thrown = s.thrown
  <2>1. s.crc \o s.invec \in Seq(Byte)
    BY <1>1, ConcatProperties
  <2>2. Typed(w)
    BY <2>1, FieldChanges DEF CrcPutArea
  <2> QED
    BY <1>1, <2>2 DEF CrcPutArea, GzipStreambuf
<1> HIDE DEF w
<1>3. /\ Typed(v) /\ v.crc = w.crc /\ v.open = w.open /\ v.zsInit = w.zsInit
      /\ v.invec = w.invec /\ v.file = w.file
      /\ v.refused = w.refused /\ v.thrown = w.thrown
      /\ s.outvec = << >> => v.outvec = DeflatedCells(s.invec)
  <2>1. CASE s.invec = << >>
    <3>1. DeflatedCells(s.invec) = << >>
      BY <2>1 DEF DeflatedCells
    <3> QED
      BY <1>2, <2>1, <3>1
  <2>2. CASE s.invec # << >>
    <3> DEFINE x == [w EXCEPT !.outvec = DeflatedCells(s.invec)]
    <3>1. v = x
      BY <2>2
    <3>2. Typed(x)
      BY <1>1, <1>2, ZDataType, FieldChanges
    <3>3. /\ x.crc = w.crc /\ x.open = w.open /\ x.zsInit = w.zsInit
          /\ x.invec = w.invec /\ x.file = w.file
          /\ x.refused = w.refused /\ x.thrown = w.thrown
          /\ x.outvec = DeflatedCells(s.invec)
      BY <1>2 DEF Typed, GzipStreambuf
    <3> HIDE DEF x, v
    <3> QED
      BY <3>1, <3>2, <3>3
  <2> QED
    BY <2>1, <2>2
<1>4. OverflowDeflate(s, c) = IF u.thrown # "none" THEN u ELSE t
  BY DEF OverflowDeflate, Then, w
<1> HIDE DEF v
<1>5. /\ Typed(u)
      /\ u.open = v.open /\ u.zsInit = v.zsInit /\ u.crc = v.crc
      /\ u.invec = v.invec
      /\ Wrote(v, u, v.outvec)
      /\ ~u.refused => u.thrown = v.thrown
      /\ u.thrown = "none" => u.outvec = << >>
  BY <1>3, FlushOutvecIs
<1> HIDE DEF u
<1>6. /\ Typed(t) /\ t.open = u.open /\ t.zsInit = u.zsInit /\ t.crc = u.crc
      /\ t.invec = c /\ t.outvec = u.outvec /\ t.file = u.file
      /\ t.refused = u.refused /\ t.thrown = u.thrown
  <2>1. Typed(t)
    BY <1>5, FieldChanges
  <2> QED
    BY <1>5, <2>1 DEF Typed, GzipStreambuf
<1> HIDE DEF t
<1>7. /\ s.refused => u.refused
      /\ s.outvec = << >> => Wrote(s, u, DeflatedCells(s.invec))
  BY <1>2, <1>3, <1>5 DEF Wrote
<1>8. CASE u.thrown # "none"
  BY <1>2, <1>3, <1>4, <1>5, <1>7, <1>8
<1>9. CASE u.thrown = "none"
  <2>1. s.outvec = << >> => Wrote(s, t, DeflatedCells(s.invec))
    BY <1>6, <1>7 DEF Wrote
  <2> QED
    BY <1>2, <1>3, <1>4, <1>5, <1>6, <1>7, <1>9, <2>1
<1> QED
  BY <1>8, <1>9

\* As no byte is counted, Z_FINISH is never asked for: nothing is written, and
\* deflateEnd() reports what was not finished.
LEMMA EndStreamIs ==
  ASSUME NEW s, Typed(s)
  PROVE  LET t == EndStream(s)
         IN  /\ Typed(t)
             /\ t.open = s.open /\ t.zsInit = s.zsInit /\ t.crc = s.crc
             /\ t.invec = s.invec /\ t.file = s.file /\ t.refused = s.refused
<1> DEFINE v == [s EXCEPT !.outvec = << >>]
<1>1. s \in GzipStreambuf /\ s.overflown = 0
  BY DEF Typed
<1>2. /\ Typed(v) /\ v.open = s.open /\ v.zsInit = s.zsInit /\ v.crc = s.crc
      /\ v.invec = s.invec /\ v.file = s.file /\ v.refused = s.refused
      /\ v.outvec = << >> /\ v.thrown = s.thrown
  <2>1. << >> \in Seq(Cell)
    OBVIOUS
  <2>2. Typed(v)
    BY <2>1, FieldChanges
  <2> QED
    BY <1>1, <2>2 DEF GzipStreambuf
<1>3. EndDeflation(s) = IF s.thrown # "none" THEN s ELSE FlushOutvec(v)
  BY <1>1 DEF EndDeflation, Then
<1> HIDE DEF v
<1>4. FlushOutvec(v) = IF v.thrown # "none" THEN v ELSE [v EXCEPT !.outvec = << >>]
  <2>1. Write(v, v.outvec) = v
    BY <1>2 DEF Write
  <2> QED
    BY <2>1 DEF FlushOutvec, Then
<1>5. [v EXCEPT !.outvec = << >>] = v
  <2>1. v \in GzipStreambuf /\ v.outvec = << >>
    BY <1>2 DEF Typed
  <2> QED
    BY <2>1 DEF GzipStreambuf
<1> DEFINE u == EndDeflation(s)
<1>6. /\ Typed(u) /\ u.open = s.open /\ u.zsInit = s.zsInit /\ u.crc = s.crc
      /\ u.invec = s.invec /\ u.file = s.file /\ u.refused = s.refused
  BY <1>2, <1>3, <1>4, <1>5
<1>7. EndStream(s) = u \/ EndStream(s) = Throw(u, "IOException")
  BY DEF EndStream, Then
<1> HIDE DEF u
<1> DEFINE t == Throw(u, "IOException")
<1>8. /\ Typed(t) /\ t.open = u.open /\ t.zsInit = u.zsInit /\ t.crc = u.crc
      /\ t.invec = u.invec /\ t.file = u.file /\ t.refused = u.refused
  <2>1. Typed(t)
    BY <1>6, FieldChanges DEF Exception
  <2> QED
    BY <1>6, <2>1 DEF Throw, Typed, GzipStreambuf
<1> HIDE DEF t
<1> QED
  BY <1>6, <1>7, <1>8 DEF t

LEMMA OverflowGzipIs ==
  ASSUME NEW s, Typed(s), name \in BOOLEAN, note \in BOOLEAN,
         NEW c \in Seq(Byte), Len(c) <= BufSize
  PROVE  LET t == OverflowGzip(s, c)
         IN  /\ Typed(t)
             /\ t.open = TRUE /\ t.zsInit = s.zsInit /\ t.crc = s.crc \o s.invec
             /\ s.refused => t.refused
             /\ s.outvec = << >> /\ ~t.refused =>
                    t.file = (s.file \o FirstCells(s)) \o DeflatedCells(s.invec)
             /\ ~t.refused => t.thrown = s.thrown
             /\ t.thrown = "none" => t.outvec = << >> /\ t.invec = c
<1> DEFINE u == OpenOnOverflow(s)
<1> DEFINE t == OverflowDeflate(u, c)
<1>1. s \in GzipStreambuf
  BY DEF Typed
<1>2. Typed(u) /\ SameStream([s EXCEPT !.open = TRUE], u) /\ Wrote(s, u, FirstCells(s))
  BY OpenOnOverflowIs
<1>3. /\ u.open = TRUE /\ u.zsInit = s.zsInit /\ u.crc = s.crc /\ u.invec = s.invec
      /\ u.outvec = s.outvec /\ u.thrown = s.thrown
  BY <1>1, <1>2 DEF SameStream, GzipStreambuf
<1>4. OverflowGzip(s, c) = t
  BY DEF OverflowGzip
<1> HIDE DEF u
<1>5. /\ Typed(t)
      /\ t.open = u.open /\ t.zsInit = u.zsInit /\ t.crc = u.crc \o u.invec
      /\ u.outvec = << >> => Wrote(u, t, DeflatedCells(u.invec))
      /\ u.refused => t.refused
      /\ ~t.refused => t.thrown = u.thrown
      /\ t.thrown = "none" => t.outvec = << >> /\ t.invec = c
  BY <1>2, OverflowDeflateIs
<1> HIDE DEF t
<1>7. s.outvec = << >> /\ ~t.refused =>
          t.file = (s.file \o FirstCells(s)) \o DeflatedCells(s.invec)
  BY <1>2, <1>3, <1>5 DEF Wrote
<1>8. s.refused => t.refused
  BY <1>2, <1>5 DEF Wrote
<1> QED
  BY <1>3, <1>4, <1>5, <1>7, <1>8

LEMMA CloseGzipIs ==
  ASSUME NEW s, Typed(s), name \in BOOLEAN, note \in BOOLEAN
  PROVE  LET t == CloseGzip(s)
         IN  /\ Typed(t) /\ ~t.zsInit
             /\ s.refused => t.refused
             /\ ~s.zsInit => t = s
             /\ s.zsInit /\ s.outvec = << >> /\ s.thrown = "none" /\ ~t.refused =>
                    /\ t.invec = << >>
                    /\ t.file = (s.file \o FirstCells(s)) \o DeflatedCells(s.invec)
<1> DEFINE v == [s EXCEPT !.zsInit = FALSE]
<1> DEFINE u == OverflowGzip(v, << >>)
<1> DEFINE t == EndStream(u)
<1>1. s \in GzipStreambuf
  BY DEF Typed
<1>2. CASE ~s.zsInit
  BY <1>2 DEF CloseGzip
<1>3. CASE s.zsInit
  <2>1. CloseGzip(s) = t
    BY <1>3 DEF CloseGzip
  <2>2. /\ Typed(v) /\ v.open = s.open /\ ~v.zsInit /\ v.crc = s.crc /\ v.file = s.file
        /\ v.invec = s.invec /\ v.outvec = s.outvec /\ v.thrown = s.thrown
        /\ v.refused = s.refused
    <3>1. Typed(v)
      BY FieldChanges
    <3> QED
      BY <1>1, <3>1 DEF GzipStreambuf
  <2>3. FirstCells(v) = FirstCells(s)
    BY <2>2 DEF FirstCells
  <2> HIDE DEF v
  <2>4. /\ Typed(u) /\ u.zsInit = v.zsInit
        /\ v.refused => u.refused
        /\ v.outvec = << >> /\ ~u.refused =>
               u.file = (v.file \o FirstCells(v)) \o DeflatedCells(v.invec)
        /\ ~u.refused => u.thrown = v.thrown
        /\ u.thrown = "none" => u.outvec = << >> /\ u.invec = << >>
    <3>1. << >> \in Seq(Byte) /\ Len(<< >>) <= BufSize
      BY BufSizeAssumption
    <3> QED
      BY <2>2, <3>1, OverflowGzipIs
  <2> HIDE DEF u
  <2>5. /\ Typed(t) /\ t.zsInit = u.zsInit
        /\ t.invec = u.invec /\ t.file = u.file /\ t.refused = u.refused
    BY <2>4, EndStreamIs
  <2> HIDE DEF t
  <2> QED
    BY <1>3, <2>1, <2>2, <2>3, <2>4, <2>5
<1> QED
  BY <1>2, <1>3

LEMMA WriteTrailerIs ==
  ASSUME NEW s, Typed(s), NEW bytes
  PROVE  LET t == WriteTrailer(s)
         IN  /\ Typed(t) /\ t.zsInit = s.zsInit
             /\ s.refused => t.refused
             /\ Closed(s, bytes) /\ ~t.refused => Closed(t, bytes)
<1> DEFINE cell == TrailerCell(s)
<1> DEFINE t == Sputn(s, << cell >>)
<1>1. s.file \in Seq(GzipCell)
  BY StreambufFields DEF Typed
<1>2. cell \in GzipCell /\ cell.k = "trailer"
  <2>1. s.crc \in Seq(Byte) /\ s.overflown \in Nat
    BY StreambufFields DEF Typed
  <2>2. cell \in [k : {"trailer"}, crc : Seq(Byte), size : Nat]
    BY <2>1 DEF TrailerCell
  <2> QED
    BY <2>2 DEF GzipCell
<1> HIDE DEF cell
<1>3. Typed(t) /\ SameStream(s, t) /\ Wrote(s, t, << cell >>)
  <2>1. << cell >> \in Seq(GzipCell)
    BY <1>2
  <2> QED
    BY <2>1, SputnWrote
<1>4. WriteTrailer(s) = t
  BY DEF WriteTrailer, cell
<1> HIDE DEF t
<1>5. ASSUME Closed(s, bytes), ~t.refused
      PROVE  Closed(t, bytes)
  <2>1. t.file = s.file \o << cell >>
    BY <1>3, <1>5 DEF Wrote
  <2>2. Holds(s.file \o << cell >>, bytes)
    BY <1>1, <1>2, <1>5, HoldsOther DEF Closed
  <2> QED
    BY <1>3, <1>5, <2>1, <2>2 DEF Closed, SameStream
<1> QED
  BY <1>3, <1>4, <1>5 DEF SameStream, Wrote

LEMMA FinishGzipIs ==
  ASSUME NEW s, Typed(s), name \in BOOLEAN, note \in BOOLEAN, NEW bytes
  PROVE  LET t == FinishGzip(s)
         IN  /\ Typed(t)
             /\ s.refused => t.refused
             /\ ~s.open => t = s
             /\ Writing(s, bytes) /\ s.thrown = "none" /\ ~t.refused => Closed(t, bytes)
             /\ Closed(s, bytes) /\ ~t.refused => Closed(t, bytes)
<1> DEFINE v == [s EXCEPT !.open = FALSE]
<1> DEFINE u == CloseGzip(v)
<1> DEFINE t == FinishGzip(s)
<1>1. CASE ~s.open
  <2>1. t = s
    BY <1>1 DEF FinishGzip
  <2>2. ~Writing(s, bytes)
    BY <1>1 DEF Writing
  <2> QED
    BY <2>1, <2>2
<1>2. CASE s.open
  <2>1. t = IF u.thrown # "none" THEN u ELSE WriteTrailer(u)
    BY <1>2 DEF FinishGzip, Then
  <2>2. /\ Typed(v) /\ ~v.open /\ v.zsInit = s.zsInit /\ v.crc = s.crc /\ v.file = s.file
        /\ v.invec = s.invec /\ v.outvec = s.outvec /\ v.thrown = s.thrown
        /\ v.refused = s.refused
    <3>1. Typed(v)
      BY FieldChanges
    <3> QED
      BY <3>1 DEF Typed, GzipStreambuf
  <2> HIDE DEF v
  <2>3. /\ Typed(u) /\ ~u.zsInit
        /\ v.refused => u.refused
        /\ ~v.zsInit => u = v
        /\ v.zsInit /\ v.outvec = << >> /\ v.thrown = "none" /\ ~u.refused =>
               /\ u.invec = << >>
               /\ u.file = (v.file \o FirstCells(v)) \o DeflatedCells(v.invec)
    BY <2>2, CloseGzipIs
  <2> HIDE DEF u
  <2>4. Writing(s, bytes) /\ s.thrown = "none" /\ ~u.refused => Closed(u, bytes)
    <3> SUFFICES ASSUME Writing(s, bytes), s.thrown = "none", ~u.refused
                 PROVE  Closed(u, bytes)
      OBVIOUS
    <3>1. /\ s.zsInit /\ s.outvec = << >> /\ Holds(s.file, s.crc) /\ s.crc \o s.invec = bytes
      BY DEF Writing
    <3>2. /\ u.invec = << >>
          /\ u.file = (s.file \o << HeaderCell >>) \o DeflatedCells(s.invec)
      BY <2>2, <2>3, <3>1 DEF FirstCells
    <3>3. s.file \in Seq(GzipCell) /\ s.crc \in Seq(Byte) /\ s.invec \in Seq(Byte)
      BY StreambufFields DEF Typed
    <3>4. HeaderCell \in GzipCell /\ HeaderCell.k # "zdata"
      BY DEF HeaderCell, GzipCell
    <3>5. Holds(s.file \o << HeaderCell >>, s.crc)
      BY <3>1, <3>3, <3>4, HoldsOther
    <3>6. s.file \o << HeaderCell >> \in Seq(GzipCell)
      BY <3>3, <3>4
    <3>7. DeflatedCells(s.invec) \in Seq(GzipCell)
      BY <3>3, ZDataType
    <3>8. Holds((s.file \o << HeaderCell >>) \o DeflatedCells(s.invec), s.crc \o s.invec)
      BY <3>3, <3>5, <3>6, <3>7, HoldsMore
    <3> QED
      BY <2>3, <3>1, <3>2, <3>8 DEF Closed
  <2>5. Closed(s, bytes) => Closed(u, bytes)
    BY <2>2, <2>3 DEF Closed
  <2>6. /\ Typed(WriteTrailer(u))
        /\ u.refused => WriteTrailer(u).refused
        /\ Closed(u, bytes) /\ ~WriteTrailer(u).refused => Closed(WriteTrailer(u), bytes)
    BY <2>3, WriteTrailerIs
  <2>7. CASE u.thrown # "none"
    <3>1. FinishGzip(s) = u
      BY <2>1, <2>7
    <3> QED
      BY <1>2, <2>2, <2>3, <2>4, <2>5, <3>1
  <2>8. CASE u.thrown = "none"
    <3>1. FinishGzip(s) = WriteTrailer(u)
      BY <2>1, <2>8
    <3> QED
      BY <1>2, <2>2, <2>3, <2>4, <2>5, <2>6, <3>1
  <2> QED
    BY <2>7, <2>8
<1> QED
  BY <1>1, <1>2

LEMMA DestroyStreamType ==
  ASSUME NEW s, Typed(s)
  PROVE  Typed(DestroyStream(s))
<1> DEFINE v == [s EXCEPT !.zsInit = FALSE]
<1>1. Typed(v)
  BY FieldChanges
<1>2. << >> \in Seq(Byte) /\ Len(<< >>) <= BufSize
  BY BufSizeAssumption
<1> HIDE DEF v
<1>3. Typed(OverflowDeflate(v, << >>))
  BY <1>1, <1>2, OverflowDeflateIs
<1>4. Typed(EndStream(OverflowDeflate(v, << >>)))
  BY <1>3, EndStreamIs
<1> QED
  BY <1>4 DEF DestroyStream, v

-----------------------------------------------------------------------------
(* The steps. *)

LEMMA InitInvariant == Init => IInv
<1> SUFFICES ASSUME Init PROVE IInv
  OBVIOUS
<1>1. PICK fuse \in Fuses :
        sb = InitDeflate([NewStreambuf(0, fuse, 0) EXCEPT !.open = FALSE])
  BY DEF Init
<1>2. fuse \in Int
  BY FusesAssumption
<1>3. sb = [NewStreambuf(0, fuse, 0) EXCEPT !.open = FALSE, !.zsInit = TRUE,
                !.invec = << >>, !.outvec = << >>, !.crc = << >>]
  BY <1>1 DEF InitDeflate, NewStreambuf
<1>4. sb = [open |-> FALSE, openEntry |-> FALSE, level |-> 1, overflown |-> 0,
            crc |-> << >>, invec |-> << >>, outvec |-> << >>, zsInit |-> TRUE,
            entries |-> << >>, comment |-> 0, thrown |-> "none",
            phase |-> "idle", cdStart |-> 0, cdNext |-> 1, cdSize |-> 0,
            file |-> << >>, pos |-> 0, fuse |-> fuse, short |-> 0,
            refused |-> FALSE]
  BY <1>3 DEF NewStreambuf
<1>5. 0 \in 0..WordMod-1
  BY IntLimitAssumption DEF WordMod
<1>6. sb \in GzipStreambuf
  BY <1>2, <1>4, <1>5 DEF GzipStreambuf, Exception
<1>7. Typed(sb)
  BY <1>4, <1>6, BufSizeAssumption DEF Typed
<1>8. Settings
  <2>1. /\ name = FALSE /\ note = FALSE /\ good = TRUE /\ put = << >> /\ finished = 0
        /\ life = "alive"
    BY DEF Init
  <2>2. finished \in 0..MaxFinish
    BY <2>1, MaxFinishAssumption
  <2>3. sb.thrown = "none"
    BY <1>4
  <2>4. name \in BOOLEAN /\ note \in BOOLEAN /\ good \in BOOLEAN
    BY <2>1, Zenon
  <2>5. put \in Seq(Byte) /\ life \in {"alive", "destroyed", "terminated"}
    BY <2>1
  <2> QED
    BY <2>2, <2>3, <2>4, <2>5 DEF Settings
<1>9. Stage
  BY <1>4 DEF Stage, Unwritten, Init
<1> QED
  BY <1>7, <1>8, <1>9 DEF IInv

LEMMA NothingHeld == Holds(<< >>, << >>)
<1>1. DeflatedIn(<< >>, 0) = 0
  <2>1. DeflatedIn(<< >>, 0) \in Nat /\ DeflatedIn(<< >>, 0) <= 0
    BY CountsUpTo
  <2> QED
    BY <2>1
<1> QED
  BY <1>1 DEF Holds

LEMMA HeaderThenMore ==
  ASSUME NEW f \in Seq(GzipCell), HeaderThenData(f), NEW bytes \in Seq(Byte)
  PROVE  HeaderThenData(f \o DeflatedCells(bytes))
<1> DEFINE cells == DeflatedCells(bytes)
<1> DEFINE g == f \o cells
<1>1. /\ cells \in Seq(GzipCell) /\ Len(cells) \in Nat /\ Len(f) \in Nat \ {0}
      /\ \A i \in 1..Len(cells) : cells[i].k = "zdata"
  <2>1. cells \in Seq(GzipCell)
    BY ZDataType
  <2>2. Len(cells) = Len(bytes) /\ \A i \in 1..Len(bytes) : cells[i].k = "zdata"
    BY DEF DeflatedCells
  <2>3. Len(f) \in Nat \ {0}
    BY DEF HeaderThenData
  <2> QED
    BY <2>1, <2>2, <2>3
<1>2. /\ Len(g) = Len(f) + Len(cells)
      /\ \A i \in 1..Len(f) + Len(cells) :
            g[i] = IF i <= Len(f) THEN f[i] ELSE cells[i - Len(f)]
  <2> HIDE DEF cells
  <2> QED
    BY <1>1, ConcatProperties
<1> HIDE DEF g, cells
<1>3. g # << >> /\ g[1].k = "gzip"
  BY <1>1, <1>2 DEF HeaderThenData
<1>4. ASSUME NEW i \in 2..Len(g)
      PROVE  g[i].k = "zdata"
  <2>1. CASE i <= Len(f)
    BY <1>1, <1>2, <2>1 DEF HeaderThenData
  <2>2. CASE ~(i <= Len(f))
    <3>1. i - Len(f) \in 1..Len(cells)
      BY <1>1, <1>2, <2>2
    <3>2. g[i] = cells[i - Len(f)]
      BY <1>1, <1>2, <2>2
    <3> QED
      BY <1>1, <3>1, <3>2
  <2> QED
    BY <2>1, <2>2
<1> QED
  BY <1>3, <1>4 DEF HeaderThenData, g, cells

\* What a byte that did not fit brings about.
LEMMA OverflowStage ==
  ASSUME NEW s, Typed(s), name \in BOOLEAN, note \in BOOLEAN, NEW b \in Byte,
         NEW bytes, Unwritten(s, bytes) \/ Writing(s, bytes), s.thrown = "none",
         ~OverflowGzip(s, << b >>).refused
  PROVE  /\ OverflowGzip(s, << b >>).thrown = "none"
         /\ Writing(OverflowGzip(s, << b >>), Append(bytes, b))
<1> DEFINE t == OverflowGzip(s, << b >>)
<1>1. << b >> \in Seq(Byte) /\ Len(<< b >>) <= BufSize
  BY BufSizeAssumption
<1>2. /\ Typed(t) /\ t.open = TRUE /\ t.zsInit = s.zsInit /\ t.crc = s.crc \o s.invec
      /\ s.outvec = << >> => t.file = (s.file \o FirstCells(s)) \o DeflatedCells(s.invec)
      /\ t.thrown = s.thrown
      /\ t.thrown = "none" => t.outvec = << >> /\ t.invec = << b >>
  BY <1>1, OverflowGzipIs
<1> HIDE DEF t
<1>3. /\ s.file \in Seq(GzipCell) /\ s.crc \in Seq(Byte) /\ s.invec \in Seq(Byte)
  BY StreambufFields DEF Typed
<1>4. s.outvec = << >> /\ s.zsInit /\ s.crc \o s.invec = bytes
  <2>1. CASE Unwritten(s, bytes)
    <3>1. << >> \o s.invec = s.invec
      BY <1>3, ConcatEmptySeq
    <3> QED
      BY <2>1, <3>1 DEF Unwritten
  <2>2. CASE Writing(s, bytes)
    BY <2>2 DEF Writing
  <2> QED
    BY <2>1, <2>2
<1> DEFINE f == s.file \o FirstCells(s)
<1>5. f \in Seq(GzipCell) /\ Holds(f, s.crc) /\ HeaderThenData(f)
  <2>1. CASE Unwritten(s, bytes)
    <3>1. HeaderCell \in GzipCell /\ HeaderCell.k = "gzip" /\ << >> \in Seq(GzipCell)
      BY DEF HeaderCell, GzipCell
    <3>2. f = << >> \o << HeaderCell >> /\ s.crc = << >>
      BY <2>1 DEF Unwritten, FirstCells
    <3>3. Holds(<< >> \o << HeaderCell >>, << >>)
      BY <3>1, NothingHeld, HoldsOther
    <3>4. f = << HeaderCell >>
      <4>1. << HeaderCell >> \in Seq(GzipCell)
        BY <3>1
      <4> QED
        BY <3>2, <4>1, ConcatEmptySeq
    <3> QED
      BY <3>1, <3>2, <3>3, <3>4 DEF HeaderThenData
  <2>2. CASE Writing(s, bytes)
    <3>1. f = s.file
      BY <1>3, <2>2, ConcatEmptySeq DEF Writing, FirstCells
    <3> QED
      BY <1>3, <2>2, <3>1 DEF Writing
  <2> QED
    BY <2>1, <2>2
<1> HIDE DEF f
<1>6. t.file = f \o DeflatedCells(s.invec)
  BY <1>2, <1>4 DEF f
<1>7. Holds(f \o DeflatedCells(s.invec), s.crc \o s.invec)
  <2>1. DeflatedCells(s.invec) \in Seq(GzipCell)
    BY <1>3, ZDataType
  <2> QED
    BY <1>3, <1>5, <2>1, HoldsMore
<1>8. HeaderThenData(f \o DeflatedCells(s.invec))
  BY <1>3, <1>5, HeaderThenMore
<1>9. t.crc \o << b >> = Append(bytes, b)
  <2>1. t.crc = bytes /\ bytes \in Seq(Byte)
    BY <1>2, <1>3, <1>4, ConcatProperties
  <2> QED
    BY <2>1, AppendIsConcat
<1>10. Writing(t, Append(bytes, b))
  BY <1>2, <1>4, <1>6, <1>7, <1>8, <1>9 DEF Writing
<1> QED
  BY <1>2, <1>10 DEF t

LEMMA PutInvariant ==
  ASSUME IInv, NEW b \in Byte, Put(b)
  PROVE  IInv'
<1> USE DEF IInv
<1> DEFINE t == OverflowGzip(sb, << b >>)
<1>1. /\ life = "alive" /\ good /\ finished = 0 /\ sb.thrown = "none"
      /\ UNCHANGED << name, note, finished, life >>
  BY DEF Put, Settings
<1>2. /\ name \in BOOLEAN /\ note \in BOOLEAN /\ put \in Seq(Byte)
      /\ Append(put, b) \in Seq(Byte)
  BY DEF Settings
<1>3. /\ sb \in GzipStreambuf /\ sb.invec \in Seq(Byte) /\ sb.crc \in Seq(Byte)
      /\ sb.refused \in BOOLEAN /\ Len(sb.invec) \in Nat /\ Len(sb.invec) <= BufSize
  BY StreambufFields DEF Typed
<1>4. sb.refused \/ Unwritten(sb, put) \/ Writing(sb, put)
  BY <1>1 DEF Stage
<1>5. CASE Len(sb.invec) < BufSize
  <2> DEFINE u == [sb EXCEPT !.invec = Append(sb.invec, b)]
  <2>1. sb' = u /\ good' = (u.thrown = "none")
        /\ put' = IF u.thrown = "none" THEN Append(put, b) ELSE put
    BY <1>5 DEF Put
  <2>2. /\ Append(sb.invec, b) \in Seq(Byte) /\ Len(Append(sb.invec, b)) <= BufSize
    BY <1>3, <1>5, BufSizeAssumption
  <2>3. /\ Typed(u) /\ u.invec = Append(sb.invec, b) /\ u.thrown = "none"
        /\ u.open = sb.open /\ u.zsInit = sb.zsInit /\ u.crc = sb.crc
        /\ u.outvec = sb.outvec /\ u.file = sb.file /\ u.refused = sb.refused
    <3>1. Typed(u)
      BY <2>2, FieldChanges
    <3> QED
      BY <1>1, <1>3, <3>1 DEF GzipStreambuf
  <2> HIDE DEF u
  <2>4. put' = Append(put, b) /\ good' = TRUE
    BY <2>1, <2>3
  <2>5. Unwritten(sb, put) => Unwritten(u, Append(put, b))
    BY <2>3 DEF Unwritten
  <2>6. Writing(sb, put) => Writing(u, Append(put, b))
    <3> SUFFICES ASSUME Writing(sb, put) PROVE Writing(u, Append(put, b))
      OBVIOUS
    <3>1. sb.crc \o Append(sb.invec, b) = Append(sb.crc \o sb.invec, b)
      <4>1. << b >> \in Seq(Byte) /\ sb.crc \o sb.invec \in Seq(Byte)
        BY <1>3, ConcatProperties
      <4>2. sb.crc \o (sb.invec \o << b >>) = (sb.crc \o sb.invec) \o << b >>
        <5>1. \A x, y, z \in Seq(Byte) : (x \o y) \o z = x \o (y \o z)
          BY ConcatAssociative
        <5> QED
          BY <1>3, <4>1, <5>1
      <4> QED
        BY <1>3, <4>1, <4>2, AppendIsConcat
    <3> QED
      BY <2>3, <3>1 DEF Writing
  <2>7. Stage'
    BY <1>1, <1>4, <2>1, <2>3, <2>4, <2>5, <2>6 DEF Stage
  <2>8. Settings'
    BY <1>1, <1>2, <2>1, <2>3, <2>4 DEF Settings
  <2> QED
    BY <2>1, <2>3, <2>7, <2>8
<1>6. CASE ~(Len(sb.invec) < BufSize)
  <2>1. sb' = t /\ good' = (t.thrown = "none")
        /\ put' = IF t.thrown = "none" THEN Append(put, b) ELSE put
    BY <1>6 DEF Put
  <2>2. Typed(t) /\ (sb.refused => t.refused)
    <3>1. << b >> \in Seq(Byte) /\ Len(<< b >>) <= BufSize
      BY BufSizeAssumption
    <3> QED
      BY <1>2, <3>1, OverflowGzipIs
  <2>3. ~t.refused => t.thrown = "none" /\ Writing(t, Append(put, b))
    <3> SUFFICES ASSUME ~t.refused
                 PROVE  t.thrown = "none" /\ Writing(t, Append(put, b))
      OBVIOUS
    <3>1. Unwritten(sb, put) \/ Writing(sb, put)
      BY <1>4, <2>2
    <3> QED
      BY <1>1, <1>2, <3>1, OverflowStage
  <2> HIDE DEF t
  <2>4. Stage'
    BY <1>1, <2>1, <2>3 DEF Stage
  <2>5. Settings'
    <3>1. good' \in BOOLEAN /\ (good' => sb'.thrown = "none")
      BY <2>1
    <3>2. put' \in Seq(Byte)
      BY <1>2, <2>1
    <3> QED
      BY <1>1, <1>2, <3>1, <3>2 DEF Settings
  <2> QED
    BY <2>1, <2>2, <2>4, <2>5
<1> QED
  BY <1>5, <1>6

\* What finish() makes of a stream that is alive.
LEMMA FinishedStage ==
  ASSUME IInv, life = "alive", finished < MaxFinish
  PROVE  LET t == FinishGzip(Called(sb))
         IN  /\ Typed(t)
             /\ ~t.refused => Unwritten(t, put) \/ Closed(t, put)
<1> USE DEF IInv
<1> DEFINE s == Called(sb)
<1> DEFINE t == FinishGzip(s)
<1>1. name \in BOOLEAN /\ note \in BOOLEAN
  BY DEF Settings
<1>2. /\ Typed(s) /\ s.thrown = "none" /\ s.refused = sb.refused
      /\ s.open = sb.open /\ s.zsInit = sb.zsInit /\ s.crc = sb.crc
      /\ s.invec = sb.invec /\ s.outvec = sb.outvec /\ s.file = sb.file
  <2>1. s = Throw(sb, "none")
    BY DEF Called, Throw
  <2>2. Typed(s)
    BY <2>1, FieldChanges DEF Exception
  <2> QED
    BY <2>2 DEF Called, Typed, GzipStreambuf
<1> HIDE DEF s
<1>3. /\ Typed(t) /\ (s.refused => t.refused) /\ (~s.open => t = s)
      /\ Writing(s, put) /\ s.thrown = "none" /\ ~t.refused => Closed(t, put)
      /\ Closed(s, put) /\ ~t.refused => Closed(t, put)
  BY <1>1, <1>2, FinishGzipIs
<1>4. ~sb.refused => Unwritten(s, put) \/ Writing(s, put) \/ Closed(s, put)
  BY <1>2 DEF Stage, Unwritten, Writing, Closed
<1>5. Unwritten(s, put) => t = s
  BY <1>3 DEF Unwritten
<1> HIDE DEF t
<1> QED
  BY <1>2, <1>3, <1>4, <1>5 DEF s, t

LEMMA FinishInvariant ==
  ASSUME IInv, Finish
  PROVE  IInv'
<1> DEFINE t == FinishGzip(Called(sb))
<1>1. /\ life = "alive" /\ finished < MaxFinish /\ sb' = t /\ finished' = finished + 1
      /\ UNCHANGED << name, note, good, put, life >>
  BY DEF Finish
<1>2. Typed(t) /\ (~t.refused => Unwritten(t, put) \/ Closed(t, put))
  BY <1>1, FinishedStage
<1> HIDE DEF t
<1>3. Settings'
  BY <1>1, MaxFinishAssumption DEF IInv, Settings
<1>4. finished' > 0
  BY <1>1, MaxFinishAssumption DEF IInv, Settings
<1>5. Stage'
  BY <1>1, <1>2, <1>4 DEF Stage
<1> QED
  BY <1>1, <1>2, <1>3, <1>5 DEF IInv

\* A closed output is one that refuses from now on; what it holds stays.
LEMMA CloseInvariant ==
  ASSUME IInv, Close
  PROVE  IInv'
<1> DEFINE t == FinishGzip(Called(sb))
<1> DEFINE u == [t EXCEPT !.fuse = 0, !.short = 0]
<1>1. /\ life = "alive" /\ finished < MaxFinish /\ sb' = Then(t, u) /\ finished' = finished + 1
      /\ UNCHANGED << name, note, good, put, life >>
  BY DEF Close
<1>2. Typed(t) /\ (~t.refused => Unwritten(t, put) \/ Closed(t, put))
  BY <1>1, FinishedStage
<1> HIDE DEF t
<1>3. /\ Typed(u) /\ u.refused = t.refused
      /\ u.open = t.open /\ u.zsInit = t.zsInit /\ u.crc = t.crc
      /\ u.invec = t.invec /\ u.outvec = t.outvec /\ u.file = t.file
  <2> DEFINE x == [t EXCEPT !.fuse = 0]
  <2>1. t \in GzipStreambuf
    BY <1>2 DEF Typed
  <2>2. Typed(x)
    <3>1. \A y \in Int : Typed([t EXCEPT !.fuse = y])
      BY <1>2, FieldChanges
    <3>2. 0 \in Int
      OBVIOUS
    <3> QED
      BY <3>1, <3>2, Zenon
  <2>3. /\ x.refused = t.refused /\ x.open = t.open /\ x.zsInit = t.zsInit
        /\ x.crc = t.crc /\ x.invec = t.invec /\ x.outvec = t.outvec
        /\ x.file = t.file
    BY <2>1 DEF GzipStreambuf
  <2>4. u = [x EXCEPT !.short = 0]
    OBVIOUS
  <2> HIDE DEF x, u
  <2>5. Typed(u)
    <3>1. \A y \in Nat : Typed([x EXCEPT !.short = y])
      BY <2>2, FieldChanges
    <3>2. 0 \in Nat
      OBVIOUS
    <3> QED
      BY <2>4, <3>1, <3>2, Zenon
  <2>6. /\ u.refused = x.refused /\ u.open = x.open /\ u.zsInit = x.zsInit
        /\ u.crc = x.crc /\ u.invec = x.invec /\ u.outvec = x.outvec
        /\ u.file = x.file
    BY <2>2, <2>4 DEF Typed, GzipStreambuf
  <2> QED
    BY <2>3, <2>5, <2>6
<1> HIDE DEF u
<1>4. Typed(u) /\ (~u.refused => Unwritten(u, put) \/ Closed(u, put))
  BY <1>2, <1>3 DEF Unwritten, Closed
<1>5. sb' = t \/ sb' = u
  BY <1>1 DEF Then
<1>6. Settings'
  BY <1>1, MaxFinishAssumption DEF IInv, Settings
<1>7. finished' > 0
  BY <1>1, MaxFinishAssumption DEF IInv, Settings
<1>8. Stage'
  BY <1>1, <1>2, <1>4, <1>5, <1>7 DEF Stage
<1> QED
  BY <1>2, <1>4, <1>5, <1>6, <1>8 DEF IInv

LEMMA DestroyInvariant ==
  ASSUME IInv, Destroy
  PROVE  IInv'
<1> DEFINE s == FinishGzip(Called(sb))
<1> DEFINE t == Then(s, DestroyStream(s))
<1>1. /\ sb' = t /\ life' \in {"destroyed", "terminated"}
      /\ UNCHANGED << name, note, good, put, finished >>
  BY DEF Destroy
<1>2. Typed(s)
  <2>1. Called(sb) = Throw(sb, "none")
    BY DEF Called, Throw
  <2>2. Typed(Called(sb))
    BY <2>1, FieldChanges DEF Exception, IInv
  <2> QED
    BY <2>2, FinishGzipIs DEF IInv, Settings
<1> HIDE DEF s
<1>3. Typed(t)
  BY <1>2, DestroyStreamType DEF Then
<1> HIDE DEF t
<1>4. Settings' /\ Stage'
  BY <1>1 DEF IInv, Settings, Stage
<1> QED
  BY <1>1, <1>3, <1>4 DEF IInv

LEMMA NextInvariant ==
  ASSUME IInv, [Next]_vars
  PROVE  IInv'
<1>1. CASE SetFilename
  BY <1>1 DEF SetFilename, IInv, Settings, Stage
<1>2. CASE SetComment
  BY <1>2 DEF SetComment, IInv, Settings, Stage
<1>3. CASE \E b \in Byte : Put(b)
  BY <1>3, PutInvariant
<1>4. CASE Finish
  BY <1>4, FinishInvariant
<1>5. CASE Close
  BY <1>5, CloseInvariant
<1>6. CASE Destroy
  BY <1>6, DestroyInvariant
<1>7. CASE UNCHANGED vars
  BY <1>7 DEF vars, IInv, Settings, Stage
<1> QED
  BY <1>1, <1>2, <1>3, <1>4, <1>5, <1>6, <1>7 DEF Next, Done

LEMMA Invariance == Spec => []IInv
<1>1. Init => IInv
  BY InitInvariant
<1>2. IInv /\ [Next]_vars => IInv'
  BY NextInvariant
<1> QED
  BY <1>1, <1>2, PTL DEF Spec

-----------------------------------------------------------------------------
(* The theorems. *)

\* The stream and what the client knows of it keep their types, whatever the
\* output refuses and whenever.
THEOREM TypeCorrect == Spec => []TypeOK
<1>1. IInv => TypeOK
  <2> SUFFICES ASSUME IInv PROVE TypeOK
    OBVIOUS
  <2>1. /\ sb \in GzipStreambuf /\ Len(sb.invec) <= BufSize /\ sb.file \in Seq(GzipCell)
    BY StreambufFields DEF IInv, Typed
  <2>2. [sb EXCEPT !.file = << >>] \in Streambuf
    <3>1. \A x \in Seq(Cell) : [sb EXCEPT !.file = x] \in Streambuf
      BY <2>1 DEF GzipStreambuf, Streambuf
    <3>2. << >> \in Seq(Cell)
      OBVIOUS
    <3> QED
      BY <3>1, <3>2
  <2>3. << name, note, good >> \in BOOLEAN \X BOOLEAN \X BOOLEAN
    BY DEF IInv, Settings
  <2>4. /\ put \in Seq(Byte) /\ finished \in 0..MaxFinish
        /\ life \in {"alive", "destroyed", "terminated"}
    BY DEF IInv, Settings
  <2> QED
    BY <2>1, <2>2, <2>3, <2>4 DEF TypeOK
<1> QED
  BY <1>1, Invariance, PTL

LEMMA PrefixWhole ==
  ASSUME NEW S, NEW p \in Seq(S), NEW r \in Seq(S)
  PROVE  /\ Len(p) \in 0..Len(p \o r)
         /\ SubSeq(p \o r, 1, Len(p)) = p
         /\ SubSeq(p \o r, Len(p) + 1, Len(p \o r)) = r
<1> DEFINE w == p \o r
<1> DEFINE front == SubSeq(w, 1, Len(p))
<1> DEFINE back == SubSeq(w, Len(p) + 1, Len(w))
<1>1. /\ w \in Seq(S) /\ Len(p) \in Nat /\ Len(r) \in Nat /\ Len(w) = Len(p) + Len(r)
      /\ \A i \in 1..Len(p) + Len(r) : w[i] = IF i <= Len(p) THEN p[i] ELSE r[i - Len(p)]
  BY ConcatProperties
<1> HIDE DEF w
<1>2. \A i \in 1..Len(w) : w[i] \in S
  BY <1>1, ElementOfSeq
<1>3. /\ front \in Seq(S) /\ Len(front) = Len(p)
      /\ \A i \in 1..Len(p) : front[i] = w[i]
  <2>1. /\ front \in Seq(S)
        /\ Len(front) = IF 1 <= Len(p) THEN Len(p) - 1 + 1 ELSE 0
        /\ \A i \in 1..Len(p) - 1 + 1 : front[i] = w[1 + i - 1]
    <3>1. \A i \in 1..Len(p) : w[i] \in S
      BY <1>1, <1>2
    <3> QED
      BY <1>1, <3>1, SubSeqProperties
  <2> HIDE DEF front
  <2> QED
    BY <1>1, <2>1
<1>4. /\ back \in Seq(S) /\ Len(back) = Len(r)
      /\ \A i \in 1..Len(r) : back[i] = w[Len(p) + i]
  <2>1. /\ back \in Seq(S)
        /\ Len(back) = IF Len(p) + 1 <= Len(w) THEN Len(w) - (Len(p) + 1) + 1 ELSE 0
        /\ \A i \in 1..Len(w) - (Len(p) + 1) + 1 : back[i] = w[Len(p) + 1 + i - 1]
    <3>1. \A i \in Len(p) + 1..Len(w) : w[i] \in S
      BY <1>1, <1>2
    <3> QED
      BY <1>1, <3>1, SubSeqProperties
  <2>2. (IF Len(p) + 1 <= Len(w) THEN Len(w) - (Len(p) + 1) + 1 ELSE 0) = Len(r)
    BY <1>1
  <2>3. \A i \in 1..Len(r) : /\ i \in 1..Len(w) - (Len(p) + 1) + 1
                             /\ Len(p) + 1 + i - 1 = Len(p) + i
    BY <1>1
  <2> HIDE DEF back
  <2>4. \A i \in 1..Len(r) : back[i] = w[Len(p) + 1 + i - 1]
    BY <2>1, <2>3
  <2> QED
    BY <2>1, <2>2, <2>3, <2>4
<1> HIDE DEF front, back
<1>5. front = p
  BY <1>1, <1>3, SeqEqual
<1>6. back = r
  <2>1. ASSUME NEW i \in 1..Len(r)
        PROVE  back[i] = r[i]
    <3>1. Len(p) + i \in 1..Len(p) + Len(r) /\ ~(Len(p) + i <= Len(p)) /\ Len(p) + i - Len(p) = i
      BY <1>1
    <3>2. w[Len(p) + i] = r[Len(p) + i - Len(p)]
      BY <1>1, <3>1
    <3> QED
      BY <1>4, <3>1, <3>2
  <2> QED
    BY <1>4, <2>1, SeqEqual
<1> QED
  BY <1>1, <1>5, <1>6 DEF front, back, w

\* What the client wrote is deflated in the file up to some byte and in the put
\* area from there on, for every size of the put area, as long as the output
\* accepts everything and the stream lives: also after any number of calls of
\* finish() and close(), whatever they throw.
THEOREM NoByteTwice == Spec => []InOrder
<1>1. IInv => InOrder
  <2> SUFFICES ASSUME IInv, ~sb.refused, life = "alive"
               PROVE  \E n \in 0..Len(put) : /\ Holds(sb.file, SubSeq(put, 1, n))
                                             /\ sb.invec = SubSeq(put, n + 1, Len(put))
    BY DEF InOrder
  <2> USE DEF IInv
  <2>1. /\ sb.crc \in Seq(Byte) /\ sb.invec \in Seq(Byte) /\ put \in Seq(Byte)
        /\ << >> \in Seq(Byte)
    BY StreambufFields DEF Typed, Settings
  <2>2. \E p \in Seq(Byte) : Holds(sb.file, p) /\ put = p \o sb.invec
    <3>1. CASE Unwritten(sb, put)
      <4>1. << >> \o sb.invec = sb.invec
        BY <2>1, ConcatEmptySeq
      <4> QED
        BY <2>1, <3>1, <4>1, NothingHeld DEF Unwritten
    <3>2. CASE Writing(sb, put)
      BY <2>1, <3>2 DEF Writing
    <3>3. CASE Closed(sb, put)
      <4>1. put \o << >> = put
        BY <2>1, ConcatEmptySeq
      <4> QED
        BY <2>1, <3>3, <4>1 DEF Closed
    <3> QED
      BY <3>1, <3>2, <3>3 DEF Stage
  <2>3. PICK p \in Seq(Byte) : Holds(sb.file, p) /\ put = p \o sb.invec
    BY <2>2
  <2>4. /\ Len(p) \in 0..Len(p \o sb.invec)
        /\ SubSeq(p \o sb.invec, 1, Len(p)) = p
        /\ SubSeq(p \o sb.invec, Len(p) + 1, Len(p \o sb.invec)) = sb.invec
    BY <2>1, PrefixWhole, SMTT(20)
  <2> QED
    BY <2>3, <2>4
<1> QED
  BY <1>1, Invariance, PTL

\* Until the client finishes, there is one header and only deflated bytes come
\* after it, however often the put area overflows.
THEOREM OneHeader == Spec => []HeaderFirst
<1>1. IInv => HeaderFirst
  <2> SUFFICES ASSUME IInv, finished = 0, life = "alive", ~sb.refused
               PROVE  \/ sb.file = << >>
                      \/ /\ sb.file[1].k = "gzip"
                         /\ \A i \in 2..Len(sb.file) : sb.file[i].k = "zdata"
    BY DEF HeaderFirst
  <2>1. Unwritten(sb, put) \/ Writing(sb, put)
    BY DEF IInv, Stage
  <2> QED
    BY <2>1 DEF Unwritten, Writing, HeaderThenData
<1> QED
  BY <1>1, Invariance, PTL

=============================================================================
