--------------------------- MODULE FilePath_proofs ---------------------------
(***************************************************************************)
(* Proofs about FilePath: what an object holds is always a path, what it   *)
(* answers was once true of that path, and a sum has the name of its last  *)
(* part.                                                                   *)
(***************************************************************************)
EXTENDS FilePath, SequenceTheorems, WellFoundedInduction, TLAPS

\* pruneTrailingSeparator() makes a path of any string without double
\* separators.
LEMMA PruneIsPath ==
    ASSUME NEW s \in Seq(Char), Neat(s)
    PROVE  PruneTrailingSeparator(s) \in Path
<1>1. CASE s = << >>
  BY <1>1 DEF PruneTrailingSeparator, Path, Neat
<1>2. CASE s # << >> /\ s[Len(s)] # Separator
  BY <1>2 DEF PruneTrailingSeparator, Path
<1>3. CASE s # << >> /\ s[Len(s)] = Separator
  <2> DEFINE p == SubSeq(s, 1, Len(s) - 1)
  <2>1. Len(s) \in Nat /\ Len(s) >= 1
    BY <1>3
  <2>2. p \in Seq(Char) /\ Len(p) = Len(s) - 1 /\ \A i \in 1..Len(p) : p[i] = s[i]
    <3>1. \A i \in 1..Len(s) - 1 : s[i] \in Char
      BY <2>1, ElementOfSeq
    <3>2. PICK n \in Int : n = Len(s) - 1 /\ n >= 0
      BY <2>1
    <3>3. \A i \in 1..n : s[i] \in Char
      BY <3>1, <3>2
    <3> HIDE DEF p
    <3>4. p = SubSeq(s, 1, n)
      BY <3>2 DEF p
    <3>5. p \in Seq(Char)
      BY <3>3, <3>4, SubSeqProperties
    <3>6. Len(p) = IF 1 <= n THEN n - 1 + 1 ELSE 0
      BY <3>3, <3>4, SubSeqProperties
    <3>7. Len(p) = n
      BY <3>2, <3>6
    <3>8. \A i \in 1 .. n - 1 + 1 : p[i] = s[1 + i - 1]
      BY <3>3, <3>4, SubSeqProperties
    <3>9. ASSUME NEW i \in 1..n PROVE p[i] = s[i]
      <4>1. i \in 1 .. n - 1 + 1 /\ 1 + i - 1 = i
        OBVIOUS
      <4> QED  BY <3>8, <4>1
    <3> QED  BY <3>2, <3>5, <3>7, <3>9
  <2>3. Neat(p)
    BY <2>1, <2>2 DEF Neat
  <2>4. p = << >> \/ p[Len(p)] # Separator
    <3>1. CASE Len(s) = 1
      BY <3>1, <2>2
    <3>2. CASE Len(s) >= 2
      BY <3>2, <2>1, <2>2, <1>3 DEF Neat
    <3> QED  BY <2>1, <3>1, <3>2
  <2> QED  BY <1>3, <2>2, <2>3, <2>4 DEF PruneTrailingSeparator, Path
<1> QED  BY <1>1, <1>2, <1>3

\* Two paths with one separator between them have no double separators.
LEMMA JoinedIsNeat ==
    ASSUME NEW p \in Path, NEW q \in Path, p # << >>, q # << >>
    PROVE  /\ q[1] = Separator => p \o q \in Seq(Char) /\ Neat(p \o q)
           /\ q[1] # Separator => /\ p \o << Separator >> \o q \in Seq(Char)
                                  /\ Neat(p \o << Separator >> \o q)
<1>1. /\ p \in Seq(Char) /\ Len(p) \in Nat /\ Len(p) >= 1 /\ p[Len(p)] # Separator
      /\ q \in Seq(Char) /\ Len(q) \in Nat /\ Len(q) >= 1
      /\ Neat(p) /\ Neat(q) /\ Separator \in Char
  BY FilePathAssumption, EmptySeq DEF Path
<1>2. ASSUME q[1] = Separator
      PROVE  p \o q \in Seq(Char) /\ Neat(p \o q)
  <2> DEFINE r == p \o q
  <2>1. /\ r \in Seq(Char) /\ Len(r) = Len(p) + Len(q)
        /\ \A i \in 1 .. Len(p) + Len(q) :
            r[i] = IF i <= Len(p) THEN p[i] ELSE q[i - Len(p)]
    BY <1>1, ConcatProperties
  <2> HIDE DEF r
  <2>2. \A i \in 1..Len(p) : r[i] = p[i]
    BY <1>1, <2>1
  <2>3. \A i \in 1..Len(q) : r[Len(p) + i] = q[i]
    <3> TAKE i \in 1..Len(q)
    <3> DEFINE k == Len(p) + i
    <3>1. k \in 1 .. Len(p) + Len(q) /\ ~(k <= Len(p)) /\ k - Len(p) = i
      BY <1>1
    <3> HIDE DEF k
    <3>2. r[k] = q[i]
      BY <2>1, <3>1
    <3> QED  BY <3>2 DEF k
  <2>4. ASSUME NEW i \in 2..Len(r)
        PROVE  ~(r[i - 1] = Separator /\ r[i] = Separator)
    <3>1. CASE i <= Len(p)
      <4>1. i \in 2..Len(p) /\ i - 1 \in 1..Len(p) /\ i \in 1..Len(p)
        BY <3>1, <2>1, <1>1
      <4> QED  BY <4>1, <2>2, <1>1 DEF Neat
    <3>2. CASE i = Len(p) + 1
      <4>1. i - 1 = Len(p) /\ Len(p) \in 1..Len(p)
        BY <3>2, <1>1
      <4> QED  BY <4>1, <2>2, <1>1
    <3>3. CASE i > Len(p) + 1
      <4>1. PICK j \in 2..Len(q) : i = Len(p) + j /\ i - 1 = Len(p) + (j - 1)
        <5>1. i - Len(p) \in 2..Len(q)
          BY <3>3, <2>1, <1>1
        <5>2. i = Len(p) + (i - Len(p)) /\ i - 1 = Len(p) + (i - Len(p) - 1)
          BY <2>1, <1>1
        <5> QED  BY <5>1, <5>2
      <4>2. j - 1 \in 1..Len(q) /\ j \in 1..Len(q)
        BY <1>1
      <4>3. r[i] = q[j] /\ r[i - 1] = q[j - 1]
        BY <4>1, <4>2, <2>3
      <4> QED  BY <4>3, <1>1 DEF Neat
    <3> QED  BY <3>1, <3>2, <3>3, <1>1, <2>1
  <2> QED  BY <2>1, <2>4 DEF Neat, r
<1>3. ASSUME q[1] # Separator
      PROVE  p \o << Separator >> \o q \in Seq(Char) /\ Neat(p \o << Separator >> \o q)
  <2> DEFINE t == p \o << Separator >>
             r == t \o q
  <2>1. /\ t \in Seq(Char) /\ Len(t) = Len(p) + 1 /\ t[Len(t)] = Separator
        /\ \A i \in 1..Len(p) : t[i] = p[i]
    BY <1>1
  <2>2. /\ r \in Seq(Char) /\ Len(r) = Len(t) + Len(q)
        /\ \A i \in 1 .. Len(t) + Len(q) :
            r[i] = IF i <= Len(t) THEN t[i] ELSE q[i - Len(t)]
    <3> HIDE DEF t
    <3>1. t \in Seq(Char) /\ q \in Seq(Char)
      BY <1>1, <2>1
    <3> QED  BY <3>1, ConcatProperties, Zenon
  <2> HIDE DEF r, t
  <2>3. \A i \in 1..Len(p) : r[i] = p[i]
    BY <1>1, <2>1, <2>2
  <2>4. \A i \in 1..Len(q) : r[Len(t) + i] = q[i]
    <3> TAKE i \in 1..Len(q)
    <3> DEFINE k == Len(t) + i
    <3>1. k \in 1 .. Len(t) + Len(q) /\ ~(k <= Len(t)) /\ k - Len(t) = i
      BY <1>1, <2>1
    <3> HIDE DEF k
    <3>2. r[k] = q[i]
      BY <2>2, <3>1
    <3> QED  BY <3>2 DEF k
  <2>5. ASSUME NEW i \in 2..Len(r)
        PROVE  ~(r[i - 1] = Separator /\ r[i] = Separator)
    <3>1. CASE i <= Len(p)
      <4>1. i \in 2..Len(p) /\ i - 1 \in 1..Len(p) /\ i \in 1..Len(p)
        BY <3>1, <2>2, <1>1
      <4> QED  BY <4>1, <2>3, <1>1 DEF Neat
    <3>2. CASE i = Len(p) + 1
      <4>1. i - 1 = Len(p) /\ Len(p) \in 1..Len(p)
        BY <3>2, <1>1
      <4> QED  BY <4>1, <2>3, <1>1
    <3>3. CASE i = Len(p) + 2
      <4>1. i = Len(t) + 1 /\ 1 \in 1..Len(q)
        BY <3>3, <2>1, <1>1
      <4> QED  BY <4>1, <2>4, <1>3
    <3>4. CASE i > Len(p) + 2
      <4>1. PICK j \in 2..Len(q) : i = Len(t) + j /\ i - 1 = Len(t) + (j - 1)
        <5>1. i - Len(t) \in 2..Len(q)
          BY <3>4, <2>1, <2>2, <1>1
        <5>2. i = Len(t) + (i - Len(t)) /\ i - 1 = Len(t) + (i - Len(t) - 1)
          BY <2>1, <2>2, <1>1
        <5> QED  BY <5>1, <5>2
      <4>2. j - 1 \in 1..Len(q) /\ j \in 1..Len(q)
        BY <1>1
      <4>3. r[i] = q[j] /\ r[i - 1] = q[j - 1]
        BY <4>1, <4>2, <2>4
      <4> QED  BY <4>3, <1>1 DEF Neat
    <3>5. i <= Len(p) \/ i = Len(p) + 1 \/ i = Len(p) + 2 \/ i > Len(p) + 2
      BY <1>1, <2>1, <2>2
    <3> QED  BY <3>1, <3>2, <3>3, <3>4, <3>5
  <2> QED  BY <2>2, <2>5 DEF Neat, r, t
<1> QED  BY <1>2, <1>3

FilePathType == [path : Path, checked : BOOLEAN, kind : Kinds]

LEMMA SumType ==
    ASSUME NEW f \in FilePathType, NEW g \in FilePathType
    PROVE  Sum(f, g) \in FilePathType
<1> USE FilePathAssumption
<1>1. CASE f.path = << >> \/ g.path = << >>
  BY <1>1 DEF Sum, FilePathType
<1>2. CASE f.path # << >> /\ g.path # << >>
  <2>1. f.path \in Path /\ g.path \in Path
    BY DEF FilePathType
  <2>2. CASE g.path[1] = Separator
    <3>1. PruneTrailingSeparator(f.path \o g.path) \in Path
      BY <1>2, <2>1, <2>2, JoinedIsNeat, PruneIsPath
    <3> QED  BY <1>2, <2>2, <3>1 DEF Sum, New, FilePathType
  <2>3. CASE g.path[1] # Separator
    <3>1. PruneTrailingSeparator(f.path \o << Separator >> \o g.path) \in Path
      BY <1>2, <2>1, <2>3, JoinedIsNeat, PruneIsPath
    <3> QED  BY <1>2, <2>3, <3>1 DEF Sum, New, FilePathType
  <2> QED  BY <2>2, <2>3
<1> QED  BY <1>1, <1>2

LEMMA EmptyPath == << >> \in Path /\ Neat(<< >>) /\ PruneTrailingSeparator(<< >>) = << >>
BY DEF Path, Neat, PruneTrailingSeparator

LEMMA InitType == Init => TypeOK
BY FilePathAssumption, EmptyPath DEF Init, TypeOK, New

LEMMA StepType == TypeOK /\ [Next]_vars => TypeOK'
<1> USE FilePathAssumption DEF FilePathType
<1> SUFFICES ASSUME TypeOK, [Next]_vars PROVE TypeOK'
  OBVIOUS
<1> USE DEF TypeOK
<1>1. ASSUME NEW o \in Object, NEW string \in Strings \cup {<< >>}, Assign(o, string)
      PROVE  TypeOK'
  <2>1. PruneTrailingSeparator(string) \in Path
    BY EmptyPath, PruneIsPath, FilePathAssumption
  <2> QED  BY <1>1, <2>1 DEF Assign, Assigned
<1>2. ASSUME NEW o \in Object, NEW p \in Object, Copy(o, p)
      PROVE  TypeOK'
  BY <1>2 DEF Copy
<1>3. ASSUME NEW o \in Object, NEW p \in Object, NEW q \in Object, AssignSum(o, p, q)
      PROVE  TypeOK'
  <2>1. Sum(fp[p], fp[q]) \in FilePathType
    BY SumType
  <2> QED  BY <1>3, <2>1 DEF AssignSum
<1>4. ASSUME NEW o \in Object, Query(o)
      PROVE  TypeOK'
  <2>1. Checked(fp[o]) \in FilePathType
    BY DEF Checked, Stat
  <2> QED  BY <1>4, <2>1 DEF Query
<1>5. ASSUME NEW path \in File, NEW kind \in Kinds, Change(path, kind)
      PROVE  TypeOK'
  BY <1>5 DEF Change
<1>6. CASE UNCHANGED vars
  BY <1>6 DEF vars
<1> QED  BY <1>1, <1>2, <1>3, <1>4, <1>5, <1>6 DEF Next

\* Whatever a program does with its objects they hold paths: without double
\* separators if the program gives none, and without one at the end.
THEOREM TypeCorrect == Spec => []TypeOK
BY InitType, StepType, PTL DEF Spec

-----------------------------------------------------------------------------
\* What is there now was there at some time, and so were the answers.
AnswersInv ==
    /\ TypeOK
    /\ AnswersForItsPath
    /\ \A path \in File : disk[path] \in seen[path]

\* The answer of one object, given that its path was asked for at some time.
AnswerOf(f, shown) == f.checked => f.kind \in IF f.path \in File THEN shown[f.path] ELSE {"nothing"}

\* A sum answers like one of its operands or not at all.
LEMMA SumAnswers ==
    ASSUME NEW f, NEW g, NEW shown, AnswerOf(f, shown), AnswerOf(g, shown)
    PROVE  AnswerOf(Sum(f, g), shown)
<1>1. CASE f.path = << >>
  BY <1>1 DEF Sum
<1>2. CASE f.path # << >> /\ g.path = << >>
  BY <1>2 DEF Sum
<1>3. CASE f.path # << >> /\ g.path # << >>
  BY <1>3 DEF Sum, New, AnswerOf
<1> QED  BY <1>1, <1>2, <1>3

\* An object never answers for another path than its own, through any sequence
\* of assignments, copies, sums and changes of the files.
THEOREM AnswersCorrect == Spec => []AnswersForItsPath
<1> USE FilePathAssumption
<1>1. Init => AnswersInv
  <2> SUFFICES ASSUME Init PROVE AnswersInv
    OBVIOUS
  <2>1. \A o \in Object : ~fp[o].checked
    BY DEF Init, New
  <2>2. \A path \in File : disk[path] \in seen[path]
    BY DEF Init
  <2>3. TypeOK
    BY InitType
  <2> QED  BY <2>1, <2>2, <2>3 DEF AnswersInv, AnswersForItsPath
<1>2. AnswersInv /\ [Next]_vars => AnswersInv'
  <2> SUFFICES ASSUME AnswersInv, [Next]_vars PROVE AnswersInv'
    OBVIOUS
  <2>0. TypeOK /\ TypeOK'
    BY StepType DEF AnswersInv
  <2>a. /\ fp \in [Object -> FilePathType] /\ seen \in [File -> SUBSET Kinds]
        /\ disk \in [File -> Kinds]
    BY <2>0 DEF TypeOK, FilePathType
  <2>b. \A o \in Object : AnswerOf(fp[o], seen)
    BY DEF AnswersInv, AnswersForItsPath, AnswerOf
  <2>c. \A path \in File : disk[path] \in seen[path]
    BY DEF AnswersInv
  <2>d. SUFFICES /\ \A o \in Object : AnswerOf(fp'[o], seen')
                 /\ \A path \in File : disk'[path] \in seen'[path]
    BY <2>0 DEF AnswersInv, AnswersForItsPath, AnswerOf
  <2>1. ASSUME NEW o \in Object, NEW string \in Strings \cup {<< >>}, Assign(o, string)
        PROVE  /\ \A r \in Object : AnswerOf(fp'[r], seen')
               /\ \A path \in File : disk'[path] \in seen'[path]
    <3>1. ~Assigned(fp[o], string).checked
      BY <2>a DEF Assigned, FilePathType
    <3>2. AnswerOf(Assigned(fp[o], string), seen)
      BY <3>1 DEF AnswerOf
    <3> QED  BY <2>a, <2>b, <2>c, <2>1, <3>2 DEF Assign
  <2>2. ASSUME NEW o \in Object, NEW p \in Object, Copy(o, p)
        PROVE  /\ \A r \in Object : AnswerOf(fp'[r], seen')
               /\ \A path \in File : disk'[path] \in seen'[path]
    BY <2>a, <2>b, <2>c, <2>2 DEF Copy
  <2>3. ASSUME NEW o \in Object, NEW p \in Object, NEW q \in Object, AssignSum(o, p, q)
        PROVE  /\ \A r \in Object : AnswerOf(fp'[r], seen')
               /\ \A path \in File : disk'[path] \in seen'[path]
    <3>1. AnswerOf(Sum(fp[p], fp[q]), seen)
      BY <2>b, SumAnswers
    <3> QED  BY <2>a, <2>b, <2>c, <2>3, <3>1 DEF AssignSum
  <2>4. ASSUME NEW o \in Object, Query(o)
        PROVE  /\ \A r \in Object : AnswerOf(fp'[r], seen')
               /\ \A path \in File : disk'[path] \in seen'[path]
    <3>1. CASE fp[o].checked
      BY <3>1, <2>a, <2>b, <2>c, <2>4 DEF Query, Checked
    <3>2. CASE ~fp[o].checked
      <4>1. /\ Checked(fp[o]).path = fp[o].path
            /\ Checked(fp[o]).kind = Stat(fp[o].path)
        BY <3>2, <2>a DEF Checked, FilePathType
      <4>2. AnswerOf(Checked(fp[o]), seen)
        BY <4>1, <2>c DEF AnswerOf, Stat
      <4> QED  BY <2>a, <2>b, <2>c, <2>4, <4>2 DEF Query
    <3> QED  BY <3>1, <3>2
  <2>5. ASSUME NEW path \in File, NEW kind \in Kinds, Change(path, kind)
        PROVE  /\ \A r \in Object : AnswerOf(fp'[r], seen')
               /\ \A q \in File : disk'[q] \in seen'[q]
    <3>1. \A q \in File : seen[q] \subseteq seen'[q]
      BY <2>a, <2>5 DEF Change
    <3>2. \A q \in File : disk'[q] \in seen'[q]
      BY <2>a, <2>c, <2>5 DEF Change
    <3> QED  BY <2>b, <2>5, <3>1, <3>2 DEF Change, AnswerOf
  <2>6. CASE UNCHANGED vars
    BY <2>b, <2>c, <2>6 DEF vars
  <2> QED  BY <2>1, <2>2, <2>3, <2>4, <2>5, <2>6 DEF Next
<1>3. AnswersInv => AnswersForItsPath
  BY DEF AnswersInv
<1> QED  BY <1>1, <1>2, <1>3, PTL DEF Spec


-----------------------------------------------------------------------------
\* Everything before the name of a path: nothing, or what ends with its last
\* separator.
NameAt(s, n) ==
    /\ n \in 0..Len(s)
    /\ n = 0 \/ s[n] = Separator
    /\ \A j \in n + 1 .. Len(s) : s[j] # Separator

\* filename() is what follows the last separator.
LEMMA FilenameFollows ==
    ASSUME NEW s \in Seq(Char), NEW n, NameAt(s, n)
    PROVE  Filename(s) = SubSeq(s, n + 1, Len(s))
<1> DEFINE last == {i \in 1..Len(s) :
                      s[i] = Separator /\ \A j \in i + 1 .. Len(s) : s[j] # Separator}
<1>1. n \in 0..Len(s) /\ Len(s) \in Nat
  BY DEF NameAt
<1>2. CASE n = 0
  <2>1. \A j \in 1..Len(s) : s[j] # Separator
    BY <1>2 DEF NameAt
  <2>2. last = {}
    BY <2>1
  <2>3. Filename(s) = s
    BY <2>2 DEF Filename
  <2>4. SubSeq(s, 1, Len(s)) = s
    OBVIOUS
  <2> QED
    BY <1>2, <2>3, <2>4
<1>3. CASE n \in 1..Len(s)
  <2>1. n \in last
    BY <1>3 DEF NameAt
  <2>2. ASSUME NEW i \in last PROVE i = n
    <3>1. ~(i < n)
      <4>1. i < n => n \in i + 1 .. Len(s)
        BY <1>1
      <4> QED
        BY <1>3, <4>1 DEF NameAt
    <3>2. ~(n < i)
      <4>1. n < i => i \in n + 1 .. Len(s)
        BY <1>1
      <4> QED
        BY <4>1 DEF NameAt
    <3> QED
      BY <1>1, <3>1, <3>2
  <2> HIDE DEF last
  <2>3. last # {} /\ (CHOOSE i \in last : TRUE) = n
    BY <2>1, <2>2
  <2> QED
    BY <2>3 DEF Filename, last
<1> QED
  BY <1>1, <1>2, <1>3

\* Every path has a name.
LEMMA NameExists ==
    ASSUME NEW s \in Seq(Char)
    PROVE  \E n : NameAt(s, n)
<1> DEFINE l == Len(s)
<1>1. l \in Nat
  OBVIOUS
<1>2. CASE \A j \in 1..l : s[j] # Separator
  BY <1>1, <1>2 DEF NameAt
<1>3. CASE \E j \in 1..l : s[j] = Separator
  <2> DEFINE T == {m \in 0..l : m < l /\ s[l - m] = Separator}
  <2>1. PICK j \in 1..l : s[j] = Separator
    BY <1>3
  <2>2. l - j \in 0..l /\ l - j < l /\ l - (l - j) = j
    BY <1>1
  <2>3. l - j \in T
    BY <2>1, <2>2
  <2>4. T \subseteq Nat
    BY <1>1
  <2>5. PICK m \in T : \A k \in T : ~(<< k, m >> \in OpToRel(<, Nat))
    <3> HIDE DEF T
    <3>1. IsWellFoundedOn(OpToRel(<, Nat), Nat)
      BY NatLessThanWellFounded
    <3> QED
      BY <2>3, <2>4, <3>1, WFMin
  <2>6. ASSUME NEW k \in T PROVE ~(k < m)
    BY <2>4, <2>5 DEF OpToRel
  <2>7. PICK n \in 1..l : n = l - m
    BY <1>1
  <2>8. s[n] = Separator
    BY <2>7
  <2>9. ASSUME NEW i \in n + 1 .. l PROVE s[i] # Separator
    <3>1. l - i \in 0..l /\ l - i < l /\ l - (l - i) = i /\ l - i < m
      BY <1>1, <2>7
    <3>2. l - i \notin T
      BY <2>6, <3>1
    <3> QED
      BY <3>1, <3>2
  <2>10. NameAt(s, n)
    BY <1>1, <2>7, <2>8, <2>9 DEF NameAt
  <2> QED
    BY <2>10
<1> QED
  BY <1>2, <1>3

\* What stands before a separator does not change the name that follows it.
LEMMA NameOfJoined ==
    ASSUME NEW l \in Seq(Char), NEW q \in Seq(Char), q # << >>, q[Len(q)] # Separator,
           l # << >>, l[Len(l)] = Separator \/ q[1] = Separator
    PROVE  Filename(l \o q) = Filename(q)
<1> DEFINE r == l \o q
           a == Len(l)
           b == Len(q)
<1>1. a \in Nat /\ b \in Nat /\ a >= 1 /\ b >= 1
  BY EmptySeq
<1>2. /\ r \in Seq(Char) /\ Len(r) = a + b
      /\ \A i \in 1 .. a + b : r[i] = IF i <= a THEN l[i] ELSE q[i - a]
  BY ConcatProperties
<1> HIDE DEF r
<1>3. PICK n : NameAt(q, n)
  BY NameExists
<1>4. n \in 0..b
  BY <1>3 DEF NameAt
<1>5. ASSUME NEW i \in 1..b PROVE a + i \in 1 .. a + b /\ r[a + i] = q[i]
  <2>1. PICK k \in 1 .. a + b : k = a + i /\ ~(k <= a) /\ k - a = i
    BY <1>1
  <2>2. r[k] = q[k - a]
    BY <1>2, <2>1
  <2> QED
    BY <2>1, <2>2
<1>6. n = 0 => l[a] = Separator
  <2>1. n = 0 => q[1] # Separator
    BY <1>1, <1>3 DEF NameAt
  <2> QED
    BY <2>1
<1>7. r[a] = l[a]
  BY <1>1, <1>2
<1>8. r[a + n] = Separator
  <2>1. CASE n = 0
    BY <1>1, <1>6, <1>7, <2>1
  <2>2. CASE n \in 1..b
    BY <1>3, <1>5, <2>2 DEF NameAt
  <2> QED
    BY <1>1, <1>4, <2>1, <2>2
<1>9. ASSUME NEW j \in a + n + 1 .. a + b PROVE r[j] # Separator
  <2>1. PICK i \in n + 1 .. b : j = a + i /\ i \in 1..b
    <3>1. j - a \in n + 1 .. b /\ j - a \in 1..b /\ j = a + (j - a)
      BY <1>1, <1>4
    <3> QED
      BY <3>1
  <2>2. q[i] # Separator
    BY <1>3 DEF NameAt
  <2> QED
    BY <1>5, <2>1, <2>2
<1>10. NameAt(r, a + n)
  <2>1. a + n \in 0 .. a + b
    BY <1>1, <1>4
  <2> QED
    BY <1>2, <1>8, <1>9, <2>1 DEF NameAt
<1>11. Filename(r) = SubSeq(r, a + n + 1, a + b)
  BY <1>2, <1>10, FilenameFollows
<1>12. Filename(q) = SubSeq(q, n + 1, b)
  BY <1>3, FilenameFollows
<1>13. SubSeq(r, a + n + 1, a + b) = SubSeq(q, n + 1, b)
  <2> DEFINE u == SubSeq(r, a + n + 1, a + b)
             v == SubSeq(q, n + 1, b)
  <2>1. PICK e \in Int, f \in Int, c \in Int :
            e = a + n + 1 /\ f = a + b /\ c = n + 1 /\ e >= 1 /\ c >= 1
    BY <1>1, <1>4
  <2>2. u = SubSeq(r, e, f) /\ v = SubSeq(q, c, b)
    BY <2>1
  <2>3. f = a + b /\ e - c = a /\ f - b = a /\ f - e + 1 = b - c + 1 /\ (e <= f <=> c <= b)
    BY <1>1, <1>4, <2>1
  <2> HIDE DEF u, v, a, b
  <2>4. \A i \in e .. f : i \in 1..Len(r)
    BY <1>1, <1>2, <2>1, <2>3
  <2>5. \A i \in e .. f : r[i] \in Char
    BY <1>2, <2>4, ElementOfSeq
  <2>6. \A i \in c .. b : q[i] \in Char
    <3>1. \A i \in c .. b : i \in 1..Len(q)
      BY <1>1, <2>1 DEF b
    <3> QED
      BY <3>1, ElementOfSeq
  <2>7. /\ u \in Seq(Char) /\ Len(u) = IF e <= f THEN f - e + 1 ELSE 0
        /\ \A i \in 1 .. f - e + 1 : u[i] = r[e + i - 1]
    BY <2>2, <2>5, SubSeqProperties
  <2>8. b \in Int
    BY <1>1
  <2>9. /\ v \in Seq(Char) /\ Len(v) = IF c <= b THEN b - c + 1 ELSE 0
        /\ \A i \in 1 .. b - c + 1 : v[i] = q[c + i - 1]
    BY <2>2, <2>6, <2>8, SubSeqProperties
  <2>10. Len(u) = Len(v)
    BY <2>3, <2>7, <2>9
  <2>11. ASSUME NEW i \in 1..Len(u) PROVE u[i] = v[i]
    <3>1. i \in 1 .. f - e + 1 /\ i \in 1 .. b - c + 1
      BY <2>3, <2>7
    <3>2. PICK k \in 1..b : k = c + i - 1 /\ e + i - 1 = a + k
      <4>1. c + i - 1 \in 1..b /\ e + i - 1 = a + (c + i - 1)
        <5>1. c + i - 1 <= b
          BY <1>1, <2>1, <3>1
        <5>2. c + i - 1 \in Int /\ c + i - 1 >= 1
          BY <2>1, <3>1
        <5>3. e = a + c
          BY <1>1, <2>1, <2>3
        <5>4. e + i - 1 = a + (c + i - 1)
          BY <1>1, <2>1, <3>1, <5>3
        <5> QED
          BY <1>1, <5>1, <5>2, <5>4
      <4> QED
        BY <4>1
    <3>3. r[a + k] = q[k]
      BY <1>5
    <3> QED
      BY <2>7, <2>9, <3>1, <3>2, <3>3
  <2>12. u = v
    BY <2>7, <2>9, <2>10, <2>11, SeqEqual
  <2> QED
    BY <2>12 DEF u, v, a, b
<1> QED
  BY <1>11, <1>12, <1>13 DEF r

\* Without a separator at its end nothing is pruned.
LEMMA NotPruned ==
    ASSUME NEW l \in Seq(Char), NEW q \in Seq(Char), q # << >>, q[Len(q)] # Separator
    PROVE  PruneTrailingSeparator(l \o q) = l \o q
<1>1. Len(q) \in Nat /\ Len(q) >= 1 /\ Len(l) \in Nat
  BY EmptySeq
<1>2. /\ Len(l \o q) = Len(l) + Len(q)
      /\ \A i \in 1 .. Len(l) + Len(q) :
            (l \o q)[i] = IF i <= Len(l) THEN l[i] ELSE q[i - Len(l)]
  BY ConcatProperties
<1> DEFINE k == Len(l) + Len(q)
<1>3. k \in 1..k /\ ~(k <= Len(l)) /\ k - Len(l) = Len(q)
  BY <1>1
<1>4. (l \o q)[k] = q[Len(q)]
  BY <1>2, <1>3
<1> QED
  BY <1>2, <1>4 DEF PruneTrailingSeparator

\* Of the paths that objects hold, the sum has the name of its last part.
LEMMA SumName ==
    ASSUME NEW f \in FilePathType, NEW g \in FilePathType, g.path # << >>
    PROVE  Filename(Sum(f, g).path) = Filename(g.path)
<1> DEFINE p == f.path
           q == g.path
<1>1. p \in Seq(Char) /\ q \in Seq(Char) /\ q[Len(q)] # Separator /\ Separator \in Char
  BY FilePathAssumption DEF FilePathType, Path
<1>2. CASE p = << >>
  BY <1>2 DEF Sum
<1>3. CASE p # << >> /\ q[1] = Separator
  <2>1. Sum(f, g).path = PruneTrailingSeparator(p \o q)
    BY <1>3 DEF Sum, New
  <2> HIDE DEF p, q
  <2>2. PruneTrailingSeparator(p \o q) = p \o q
    BY <1>1, NotPruned DEF q
  <2>3. Filename(p \o q) = Filename(q)
    BY <1>1, <1>3, NameOfJoined DEF q
  <2> QED
    BY <2>1, <2>2, <2>3 DEF q
<1>4. CASE p # << >> /\ q[1] # Separator
  <2> DEFINE t == p \o << Separator >>
  <2>1. Sum(f, g).path = PruneTrailingSeparator(t \o q)
    BY <1>4 DEF Sum, New
  <2>2. t \in Seq(Char) /\ Len(t) = Len(p) + 1 /\ t[Len(t)] = Separator
    BY <1>1
  <2>3. t # << >>
    BY <1>1, <2>2, EmptySeq
  <2> HIDE DEF p, q, t
  <2>4. PruneTrailingSeparator(t \o q) = t \o q
    BY <1>1, <2>2, NotPruned DEF q
  <2>5. Filename(t \o q) = Filename(q)
    BY <1>1, <2>2, <2>3, NameOfJoined DEF q
  <2> QED
    BY <2>1, <2>4, <2>5 DEF q
<1> QED
  BY <1>2, <1>3, <1>4

\* Whatever paths the objects of a program come to hold, the sum of any two is
\* again a path without double separators, and its name is that of its last
\* part.
THEOREM SumsAreNamesAlways == Spec => []SumsAreNames
<1>1. TypeOK => SumsAreNames
  <2> SUFFICES ASSUME TypeOK, NEW o \in Object, NEW p \in Object
               PROVE  /\ Sum(fp[o], fp[p]).path \in Path
                      /\ fp[p].path # << >> =>
                            Filename(Sum(fp[o], fp[p]).path) = Filename(fp[p].path)
    BY DEF SumsAreNames
  <2>1. fp[o] \in FilePathType /\ fp[p] \in FilePathType
    BY DEF TypeOK, FilePathType
  <2>2. Sum(fp[o], fp[p]) \in FilePathType
    BY <2>1, SumType
  <2>3. Sum(fp[o], fp[p]).path \in Path
    BY <2>2 DEF FilePathType
  <2>4. fp[p].path # << >> => Filename(Sum(fp[o], fp[p]).path) = Filename(fp[p].path)
    BY <2>1, SumName
  <2> QED
    BY <2>3, <2>4
<1> QED
  BY <1>1, TypeCorrect, PTL
=============================================================================
