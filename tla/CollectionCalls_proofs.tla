----------------------- MODULE CollectionCalls_proofs -----------------------
(***************************************************************************)
(* What CollectionCalls promises, proved for every value of its constants. *)
(* The inductive invariant, IInv, says of the collections of all variables *)
(* together that each is a tree of objects, that their entries exist, are  *)
(* listed once in each object, and are no other object's. The first parts  *)
(* show what every call of Collections does to one object and to such a    *)
(* tree (NodeEffect, Effect); from that every action keeps the invariant,  *)
(* and what a search, a size, a stream and a repeated call come to.        *)
(***************************************************************************)
EXTENDS CollectionCalls, SequenceTheorems, WellFoundedInduction, TLAPS

-----------------------------------------------------------------------------
(* Recursive functions and sequences that are joined. *)

\* Induction, as a statement about the set of the numbers that have a property.
LEMMA Counting ==
    ASSUME NEW S, S \subseteq Nat, 0 \in S, \A n \in S : n + 1 \in S
    PROVE  S = Nat
<1>1. SUFFICES ASSUME Nat \ S # {} PROVE FALSE
    OBVIOUS
<1>2. IsWellFoundedOn(OpToRel(<, Nat), Nat)
    BY NatLessThanWellFounded
<1>3. PICK n \in Nat \ S : \A m \in Nat \ S : ~(<< m, n >> \in OpToRel(<, Nat))
    BY <1>1, <1>2, WFMin
<1>4. \A m \in Nat : m < n => m \in S
    BY <1>3 DEF OpToRel
<1>5. n # 0
    BY <1>3
<1>6. n - 1 \in Nat /\ n - 1 < n /\ (n - 1) + 1 = n
    BY <1>5
<1>7. n - 1 \in S
    BY <1>4, <1>6
<1>. QED
    BY <1>3, <1>6, <1>7

\* f is the recursive function whose value at i is made from that at i - 1.
Runs(f, n, first, step) == f[0] = first /\ \A i \in 1..n : f[i] = step[i][f[i - 1]]

\* There is one.
LEMMA Recursion ==
    ASSUME NEW X, NEW n \in Nat, NEW first \in X, NEW step \in [1..n -> [X -> X]]
    PROVE  \E f \in [0..n -> X] : Runs(f, n, first, step)
<1>. DEFINE Steps(f, m) == f[0] = first /\ \A i \in 1..m : f[i] = step[i][f[i - 1]]
            Reaches(m) == \E f \in [0..m -> X] : Steps(f, m)
            S == {m \in Nat : m <= n => Reaches(m)}
<1>1. 0 \in S
    <2>. DEFINE f == [i \in 0..0 |-> first]
    <2>1. f \in [0..0 -> X] /\ Steps(f, 0)
        OBVIOUS
    <2>. QED
        BY <2>1
<1>2. ASSUME NEW m \in S PROVE m + 1 \in S
    <2>1. SUFFICES ASSUME m + 1 <= n PROVE Reaches(m + 1)
        <3>. HIDE DEF Reaches
        <3>. QED
            OBVIOUS
    <2>2. PICK f \in [0..m -> X] : Steps(f, m)
        BY <2>1
    <2>. DEFINE g == [i \in 0..m + 1 |-> IF i = m + 1 THEN step[m + 1][f[m]] ELSE f[i]]
    <2>3. m + 1 \in 1..n /\ step[m + 1] \in [X -> X] /\ f[m] \in X
        BY <2>1
    <2>4. step[m + 1][f[m]] \in X
        BY <2>3
    <2>5. g \in [0..m + 1 -> X]
        BY <2>4
    <2>6. Steps(g, m + 1)
        BY <2>2
    <2>. QED
        BY <2>5, <2>6
<1>3. S = Nat
    <2>1. S \subseteq Nat
        OBVIOUS
    <2>. HIDE DEF S
    <2>. QED
        BY <1>1, <1>2, <2>1, Counting
<1>4. Reaches(n)
    <2>. HIDE DEF Reaches
    <2>. QED
        BY <1>3
<1>. QED
    BY <1>4 DEF Runs

\* FlattenSeq() joins the sequences one after the other.
LEMMA Joining ==
    ASSUME NEW Y, NEW seqs \in Seq(Seq(Y))
    PROVE  \E f \in [0..Len(seqs) -> Seq(Y)] :
            /\ f[0] = << >>
            /\ \A i \in 1..Len(seqs) : f[i] = f[i - 1] \o seqs[i]
            /\ FlattenSeq(seqs) = f[Len(seqs)]
<1>. DEFINE n == Len(seqs)
            step == [i \in 1..n |-> [s \in Seq(Y) |-> s \o seqs[i]]]
            Flat(h) == h = [i \in 1..n |-> IF i = 1 THEN seqs[i] ELSE h[i - 1] \o seqs[i]]
<1>0. n \in Nat /\ << >> \in Seq(Y)
    OBVIOUS
<1>1. \A i \in 1..n : seqs[i] \in Seq(Y)
    OBVIOUS
<1>2. step \in [1..n -> [Seq(Y) -> Seq(Y)]]
    BY ConcatProperties
<1>3. PICK f \in [0..n -> Seq(Y)] : Runs(f, n, << >>, step)
    <2>. HIDE DEF n, step
    <2>1. n \in Nat
        BY <1>0
    <2>2. << >> \in Seq(Y)
        BY <1>0
    <2>. DEFINE X == Seq(Y)
    <2>3. << >> \in X /\ step \in [1..n -> [X -> X]]
        BY <1>2, <2>2
    <2>. HIDE DEF X
    <2>4. \E f \in [0..n -> X] : Runs(f, n, << >>, step)
        BY <2>1, <2>3, Recursion
    <2>. QED
        BY <2>4 DEF X
<1>. HIDE DEF step
<1>4. f[0] = << >> /\ \A i \in 1..n : f[i] = step[i][f[i - 1]]
    BY <1>3 DEF Runs
<1>5. \A i \in 1..n : f[i] = f[i - 1] \o seqs[i]
    <2>1. ASSUME NEW i \in 1..n PROVE f[i] = f[i - 1] \o seqs[i]
        <3>1. i - 1 \in 0..n
            BY <1>0
        <3>2. f[i - 1] \in Seq(Y)
            BY <3>1
        <3>3. step[i][f[i - 1]] = f[i - 1] \o seqs[i]
            BY <3>2 DEF step
        <3>. QED
            BY <1>4, <3>3
    <2>. QED
        BY <2>1
<1>6. CASE n = 0
    BY <1>4, <1>5, <1>6 DEF FlattenSeq
<1>7. CASE n # 0
    <2>. DEFINE h == [i \in 1..n |-> f[i]]
    <2>1. ASSUME NEW i \in 1..n
          PROVE  h[i] = IF i = 1 THEN seqs[i] ELSE h[i - 1] \o seqs[i]
        <3>1. h[i] = f[i - 1] \o seqs[i]
            BY <1>5
        <3>2. CASE i = 1
            <4>1. i - 1 = 0
                BY <3>2
            <4>2. h[i] = << >> \o seqs[i]
                BY <1>4, <3>1, <4>1, Zenon
            <4>3. seqs[i] \in Seq(Y)
                BY <1>1
            <4>. HIDE DEF h
            <4>. QED
                BY <3>2, <4>2, <4>3, ConcatEmptySeq
        <3>3. CASE i # 1
            <4>1. i - 1 \in 1..n
                BY <1>0, <3>3
            <4>2. h[i - 1] = f[i - 1]
                BY <4>1
            <4>. HIDE DEF h
            <4>. QED
                BY <3>1, <3>3, <4>2
        <3>. HIDE DEF h
        <3>. QED
            BY <3>2, <3>3
    <2>2. Flat(h)
        BY <2>1
    <2>. DEFINE flatten == CHOOSE k : Flat(k)
    <2>3. Flat(flatten)
        BY <2>2
    <2>4. FlattenSeq(seqs) = flatten[n]
        BY <1>7 DEF FlattenSeq
    <2>. HIDE DEF flatten
    <2>5. ASSUME NEW i \in 1..n
          PROVE  flatten[i] = IF i = 1 THEN seqs[i] ELSE flatten[i - 1] \o seqs[i]
        BY <2>3, Zenon
    <2>. DEFINE S == {i \in Nat : i \in 1..n => flatten[i] = h[i]}
    <2>. HIDE DEF h
    <2>6. 0 \in S
        OBVIOUS
    <2>7. ASSUME NEW i \in S PROVE i + 1 \in S
        <3>1. SUFFICES ASSUME i + 1 \in 1..n PROVE flatten[i + 1] = h[i + 1]
            OBVIOUS
        <3>2. CASE i = 0
            BY <2>1, <2>5, <3>1, <3>2
        <3>3. CASE i # 0
            <4>1. i \in 1..n /\ (i + 1) - 1 = i /\ i + 1 # 1
                BY <1>0, <3>1, <3>3
            <4>2. flatten[i] = h[i]
                BY <4>1
            <4>3. flatten[i + 1] = flatten[i] \o seqs[i + 1]
                BY <2>5, <3>1, <4>1
            <4>4. h[i + 1] = h[i] \o seqs[i + 1]
                BY <2>1, <3>1, <4>1
            <4>. QED
                BY <4>2, <4>3, <4>4
        <3>. QED
            BY <3>2, <3>3
    <2>8. S = Nat
        <3>1. S \subseteq Nat
            OBVIOUS
        <3>. HIDE DEF S
        <3>. QED
            BY <2>6, <2>7, <3>1, Counting
    <2>9. n \in S /\ n \in 1..n
        <3>. HIDE DEF S
        <3>. QED
            BY <1>0, <1>7, <2>8
    <2>10. flatten[n] = h[n]
        BY <2>9
    <2>11. h[n] = f[n]
        BY <2>9 DEF h
    <2>12. FlattenSeq(seqs) = f[n]
        BY <2>4, <2>10, <2>11
    <2>. QED
        BY <1>4, <1>5, <2>12
<1>. QED
    BY <1>6, <1>7

\* The elements of s are those of the first n parts.
DrawnFrom(s, seqs, n) ==
    \A p \in 1..Len(s) : \E k \in 1..n : \E j \in 1..Len(seqs[k]) : s[p] = seqs[k][j]

\* Another sequence is joined to those that s was drawn from.
LEMMA DrawnStep ==
    ASSUME NEW Y, NEW seqs \in Seq(Seq(Y)), NEW n \in Nat, n + 1 <= Len(seqs),
           NEW s \in Seq(Y), DrawnFrom(s, seqs, n)
    PROVE  DrawnFrom(s \o seqs[n + 1], seqs, n + 1)
<1>. DEFINE t == s \o seqs[n + 1]
<1>1. n + 1 \in 1..Len(seqs) /\ seqs[n + 1] \in Seq(Y)
    OBVIOUS
<1>2. ASSUME NEW p \in 1..Len(t)
      PROVE  \E k \in 1..n + 1 : \E j \in 1..Len(seqs[k]) : t[p] = seqs[k][j]
    <2>1. CASE p <= Len(s)
        <3>1. p \in 1..Len(s) /\ t[p] = s[p]
            BY <1>1, <2>1
        <3>2. PICK k \in 1..n : \E j \in 1..Len(seqs[k]) : s[p] = seqs[k][j]
            BY <3>1 DEF DrawnFrom
        <3>3. k \in 1..n + 1
            OBVIOUS
        <3>. HIDE DEF t
        <3>. QED
            BY <3>1, <3>2, <3>3
    <2>2. CASE p > Len(s)
        <3>1. p - Len(s) \in 1..Len(seqs[n + 1]) /\ t[p] = seqs[n + 1][p - Len(s)]
            BY <1>1, <2>2
        <3>2. n + 1 \in 1..n + 1
            OBVIOUS
        <3>. HIDE DEF t
        <3>. QED
            BY <3>1, <3>2
    <2>3. p <= Len(s) \/ p > Len(s)
        BY <1>1
    <2>. QED
        BY <2>1, <2>2, <2>3, Zenon
<1>. QED
    BY <1>2, Zenon DEF DrawnFrom

\* What is joined has the elements of the parts,
LEMMA JoinedElements ==
    ASSUME NEW Y, NEW seqs \in Seq(Seq(Y))
    PROVE  FlattenSeq(seqs) \in Seq(Y) /\ DrawnFrom(FlattenSeq(seqs), seqs, Len(seqs))
<1>1. PICK f \in [0..Len(seqs) -> Seq(Y)] :
        /\ f[0] = << >>
        /\ \A i \in 1..Len(seqs) : f[i] = f[i - 1] \o seqs[i]
        /\ FlattenSeq(seqs) = f[Len(seqs)]
    BY Joining
<1>2. DrawnFrom(f[0], seqs, 0)
    BY <1>1 DEF DrawnFrom
<1>3. ASSUME NEW n \in Nat, n + 1 <= Len(seqs), DrawnFrom(f[n], seqs, n)
      PROVE  DrawnFrom(f[n + 1], seqs, n + 1)
    <2>0. n \in 0..Len(seqs)
        BY <1>3
    <2>1. f[n] \in Seq(Y) /\ n + 1 \in 1..Len(seqs) /\ (n + 1) - 1 = n
        BY <1>3, <2>0
    <2>2. f[n + 1] = f[n] \o seqs[n + 1]
        BY <1>1, <2>1
    <2>. QED
        BY <1>3, <2>1, <2>2, DrawnStep
<1>. DEFINE S == {n \in Nat : n <= Len(seqs) => DrawnFrom(f[n], seqs, n)}
<1>4. 0 \in S
    BY <1>2
<1>5. ASSUME NEW n \in S PROVE n + 1 \in S
    <2>1. n \in Nat /\ n + 1 \in Nat /\ (n + 1 <= Len(seqs) => n <= Len(seqs))
        OBVIOUS
    <2>2. SUFFICES ASSUME n + 1 <= Len(seqs) PROVE DrawnFrom(f[n + 1], seqs, n + 1)
        BY <2>1
    <2>3. DrawnFrom(f[n], seqs, n)
        BY <2>1, <2>2
    <2>. QED
        BY <1>3, <2>1, <2>2, <2>3
<1>6. S = Nat
    <2>1. S \subseteq Nat
        OBVIOUS
    <2>. HIDE DEF S
    <2>. QED
        BY <1>4, <1>5, <2>1, Counting
<1>7. Len(seqs) \in Nat /\ Len(seqs) \in 0..Len(seqs)
    OBVIOUS
<1>8. DrawnFrom(f[Len(seqs)], seqs, Len(seqs))
    BY <1>6, <1>7
<1>9. f[Len(seqs)] \in Seq(Y)
    BY <1>7
<1>. QED
    BY <1>1, <1>8, <1>9

Once(s) == \A p, q \in 1..Len(s) : s[p] = s[q] => p = q

\* No two of the parts have an element in common, and none has one twice.
Apart(seqs) ==
    \A k, l \in 1..Len(seqs) : \A i \in 1..Len(seqs[k]), j \in 1..Len(seqs[l]) :
        seqs[k][i] = seqs[l][j] => k = l /\ i = j

\* Joining sequences that share no element, each without duplicates, makes
\* none.
LEMMA OnceStep ==
    ASSUME NEW Y, NEW seqs \in Seq(Seq(Y)), NEW n \in Nat, n + 1 <= Len(seqs),
           Apart(seqs),
           NEW s \in Seq(Y), DrawnFrom(s, seqs, n), Once(s)
    PROVE  Once(s \o seqs[n + 1])
<1>. DEFINE t == s \o seqs[n + 1]
            part == seqs[n + 1]
<1>1. n + 1 \in 1..Len(seqs) /\ part \in Seq(Y) /\ t \in Seq(Y)
    OBVIOUS
<1>2. ASSUME NEW p \in 1..Len(t)
      PROVE  \/ p \in 1..Len(s) /\ t[p] = s[p]
             \/ p > Len(s) /\ p - Len(s) \in 1..Len(part) /\ t[p] = part[p - Len(s)]
    BY <1>1
<1>3. ASSUME NEW p \in 1..Len(s), NEW q \in 1..Len(part) PROVE s[p] # part[q]
    <2>1. PICK k \in 1..n : \E j \in 1..Len(seqs[k]) : s[p] = seqs[k][j]
        BY DEF DrawnFrom
    <2>2. PICK j \in 1..Len(seqs[k]) : s[p] = seqs[k][j]
        BY <2>1
    <2>3. k \in 1..Len(seqs) /\ k # n + 1
        OBVIOUS
    <2>4. seqs[k][j] # seqs[n + 1][q]
        BY <1>1, <2>3 DEF Apart
    <2>. QED
        BY <2>2, <2>4
<1>4. ASSUME NEW p \in 1..Len(part), NEW q \in 1..Len(part), part[p] = part[q]
      PROVE  p = q
    <2>. DEFINE m == n + 1
    <2>1. m \in 1..Len(seqs) /\ p \in 1..Len(seqs[m]) /\ q \in 1..Len(seqs[m])
          /\ seqs[m][p] = seqs[m][q]
        BY <1>1, <1>4
    <2>. HIDE DEF m
    <2>. QED
        BY <2>1, Zenon DEF Apart
<1>. HIDE DEF t, part
<1>5. ASSUME NEW p \in 1..Len(t), NEW q \in 1..Len(t), t[p] = t[q] PROVE p = q
    <2>1. CASE p \in 1..Len(s) /\ t[p] = s[p] /\ q \in 1..Len(s) /\ t[q] = s[q]
        BY <1>5, <2>1 DEF Once
    <2>2. CASE /\ p > Len(s) /\ p - Len(s) \in 1..Len(part) /\ t[p] = part[p - Len(s)]
               /\ q > Len(s) /\ q - Len(s) \in 1..Len(part) /\ t[q] = part[q - Len(s)]
        <3>1. p - Len(s) = q - Len(s)
            BY <1>4, <1>5, <2>2
        <3>. QED
            BY <1>1, <3>1
    <2>. QED
        BY <1>2, <1>3, <1>5, <2>1, <2>2
<1>. QED
    BY <1>5 DEF Once, t, part

\* and none of them twice if no two parts have one in common.
LEMMA JoinedOnce ==
    ASSUME NEW Y, NEW seqs \in Seq(Seq(Y)), Apart(seqs)
    PROVE  Once(FlattenSeq(seqs))
<1>1. PICK f \in [0..Len(seqs) -> Seq(Y)] :
        /\ f[0] = << >>
        /\ \A i \in 1..Len(seqs) : f[i] = f[i - 1] \o seqs[i]
        /\ FlattenSeq(seqs) = f[Len(seqs)]
    BY Joining
<1>2. DrawnFrom(f[0], seqs, 0) /\ Once(f[0])
    BY <1>1 DEF DrawnFrom, Once
<1>3. ASSUME NEW n \in Nat, n + 1 <= Len(seqs), DrawnFrom(f[n], seqs, n), Once(f[n])
      PROVE  DrawnFrom(f[n + 1], seqs, n + 1) /\ Once(f[n + 1])
    <2>0. n \in 0..Len(seqs)
        BY <1>3
    <2>1. f[n] \in Seq(Y) /\ n + 1 \in 1..Len(seqs) /\ (n + 1) - 1 = n
        BY <1>3, <2>0
    <2>2. f[n + 1] = f[n] \o seqs[n + 1]
        BY <1>1, <2>1
    <2>3. DrawnFrom(f[n + 1], seqs, n + 1)
        BY <1>3, <2>1, <2>2, DrawnStep
    <2>4. Once(f[n + 1])
        BY <1>3, <2>1, <2>2, OnceStep
    <2>. QED
        BY <2>3, <2>4
<1>. DEFINE S == {n \in Nat : n <= Len(seqs) => DrawnFrom(f[n], seqs, n) /\ Once(f[n])}
<1>4. 0 \in S
    BY <1>2
<1>5. ASSUME NEW n \in S PROVE n + 1 \in S
    <2>1. n \in Nat /\ (n + 1 <= Len(seqs) => n <= Len(seqs))
        OBVIOUS
    <2>2. ASSUME n + 1 <= Len(seqs)
          PROVE  DrawnFrom(f[n + 1], seqs, n + 1) /\ Once(f[n + 1])
        <3>1. DrawnFrom(f[n], seqs, n) /\ Once(f[n])
            BY <2>1, <2>2
        <3>. HIDE DEF S
        <3>. QED
            BY <1>3, <2>1, <2>2, <3>1
    <2>. QED
        BY <2>1, <2>2
<1>6. S = Nat
    <2>1. S \subseteq Nat
        OBVIOUS
    <2>. HIDE DEF S
    <2>. QED
        BY <1>4, <1>5, <2>1, Counting
<1>7. Len(seqs) \in Nat
    OBVIOUS
<1>8. Once(f[Len(seqs)])
    BY <1>6, <1>7
<1>. QED
    BY <1>1, <1>8

-----------------------------------------------------------------------------
(* What load() comes to. *)

\* What is below dir when g says what is below each of its files.
OneLevel(g, dir) ==
    FlattenSeq([i \in DOMAIN Children[dir] |->
        << Children[dir][i] >> \o g[Children[dir][i]]])

\* A directory's children, each followed by what is below it, are names.
LEMMA PartsType ==
    ASSUME NEW g \in [Name -> Seq(Name)], NEW dir \in Name
    PROVE  /\ Children[dir] \in Seq(Name)
           /\ [i \in DOMAIN Children[dir] |-> << Children[dir][i] >> \o g[Children[dir][i]]]
                \in Seq(Seq(Name))
<1>1. Children[dir] \in Seq(Name)
    BY FilesAssumption
<1>2. ASSUME NEW i \in DOMAIN Children[dir]
      PROVE  << Children[dir][i] >> \o g[Children[dir][i]] \in Seq(Name)
    <2>1. Children[dir][i] \in Name
        BY <1>1
    <2>2. << Children[dir][i] >> \in Seq(Name) /\ g[Children[dir][i]] \in Seq(Name)
        BY <2>1
    <2>. QED
        BY <2>2, ConcatProperties
<1>3. DOMAIN Children[dir] = 1..Len(Children[dir]) /\ Len(Children[dir]) \in Nat
    BY <1>1
<1>. QED
    BY <1>1, <1>2, <1>3

\* One level more of a listing is again a sequence of names.
LEMMA OneLevelType ==
    ASSUME NEW g \in [Name -> Seq(Name)], NEW dir \in Name
    PROVE  OneLevel(g, dir) \in Seq(Name)
BY PartsType, JoinedElements DEF OneLevel

\* Below is its recursive definition: nothing at depth 0, one level more at
\* each depth.
LEMMA BelowIs ==
    /\ \A n \in 0..MaxNesting : Below[n] \in [Name -> Seq(Name)]
    /\ \A dir \in Name : Below[0][dir] = << >>
    /\ \A n \in 1..MaxNesting, dir \in Name : Below[n][dir] = OneLevel(Below[n - 1], dir)
<1>. DEFINE X == [Name -> Seq(Name)]
            first == [dir \in Name |-> << >>]
            step == [n \in 1..MaxNesting |-> [g \in X |-> [dir \in Name |-> OneLevel(g, dir)]]]
            Level(b, n) == [dir \in Name |-> IF n = 0 THEN << >> ELSE OneLevel(b[n - 1], dir)]
            IsBelow(b) == b = [n \in 0..MaxNesting |-> Level(b, n)]
<1>1. MaxNesting \in Nat
    BY FilesAssumption
<1>2. first \in X
    OBVIOUS
<1>3. step \in [1..MaxNesting -> [X -> X]]
    BY OneLevelType
<1>4. PICK f \in [0..MaxNesting -> X] : Runs(f, MaxNesting, first, step)
    <2>. HIDE DEF X, first, step
    <2>. QED
        BY <1>1, <1>2, <1>3, Recursion
<1>5. f[0] = first /\ \A n \in 1..MaxNesting : f[n] = step[n][f[n - 1]]
    <2>. HIDE DEF X, first, step
    <2>. QED
        BY <1>4 DEF Runs
<1>6. ASSUME NEW n \in 0..MaxNesting PROVE f[n] = Level(f, n)
    <2>1. CASE n = 0
        BY <1>5, <2>1
    <2>2. CASE n # 0
        <3>1. n \in 1..MaxNesting /\ n - 1 \in 0..MaxNesting
            BY <1>1, <2>2
        <3>2. f[n - 1] \in X
            BY <3>1
        <3>3. f[n] = step[n][f[n - 1]]
            BY <1>5, <3>1
        <3>4. step[n][f[n - 1]] = [dir \in Name |-> OneLevel(f[n - 1], dir)]
            BY <3>1, <3>2
        <3>. QED
            BY <2>2, <3>3, <3>4
    <2>. QED
        BY <2>1, <2>2
<1>. HIDE DEF Level
<1>7. IsBelow(f)
    BY <1>6
<1>8. Below = CHOOSE b : IsBelow(b)
    BY DEF Below, Level, OneLevel
<1>9. IsBelow(Below)
    BY <1>7, <1>8, Zenon
<1>10. \A n \in 0..MaxNesting : Below[n] = Level(Below, n)
    BY <1>9, Zenon
<1>. DEFINE S == {n \in Nat : n <= MaxNesting => Below[n] \in X}
<1>11. 0 \in S
    <2>1. Below[0] = Level(Below, 0)
        BY <1>1, <1>10
    <2>2. Below[0] = first
        BY <2>1 DEF Level
    <2>. HIDE DEF X, first
    <2>. QED
        BY <1>2, <2>2
<1>12. ASSUME NEW n \in Nat, n + 1 <= MaxNesting, Below[n] \in X PROVE Below[n + 1] \in X
    <2>1. n + 1 \in 0..MaxNesting /\ (n + 1) - 1 = n /\ n + 1 # 0
        BY <1>1, <1>12
    <2>2. Below[n + 1] = [dir \in Name |-> OneLevel(Below[n], dir)]
        BY <1>10, <2>1 DEF Level
    <2>. QED
        BY <1>12, <2>2, OneLevelType
<1>13. ASSUME NEW n \in S PROVE n + 1 \in S
    <2>1. n \in Nat /\ (n + 1 <= MaxNesting => n <= MaxNesting)
        BY <1>1
    <2>. HIDE DEF X
    <2>. QED
        BY <1>12, <2>1
<1>14. S = Nat
    <2>1. S \subseteq Nat
        OBVIOUS
    <2>. HIDE DEF S
    <2>. QED
        BY <1>11, <1>13, <2>1, Counting
<1>15. \A n \in 0..MaxNesting : Below[n] \in X
    <2>. HIDE DEF X
    <2>. QED
        BY <1>1, <1>14
<1>16. \A dir \in Name : Below[0][dir] = << >>
    <2>1. Below[0] = Level(Below, 0)
        BY <1>1, <1>10
    <2>. QED
        BY <2>1 DEF Level
<1>17. \A n \in 1..MaxNesting, dir \in Name : Below[n][dir] = OneLevel(Below[n - 1], dir)
    <2>1. ASSUME NEW n \in 1..MaxNesting
          PROVE  Below[n] = [dir \in Name |-> OneLevel(Below[n - 1], dir)]
        <3>1. n \in 0..MaxNesting /\ n # 0
            BY <1>1
        <3>. QED
            BY <1>10, <3>1 DEF Level
    <2>. QED
        BY <2>1
<1>. QED
    BY <1>15, <1>16, <1>17

\* The levels of the tree of files.
IsLevel(level) ==
    /\ level \in [Name -> 0..MaxNesting]
    /\ \A dir \in Name : \A i \in DOMAIN Children[dir] :
        level[Children[dir][i]] = level[dir] + 1

\* A file and what load() comes to in it.
Within(n, dir) == {dir} \cup {Below[n][dir][p] : p \in 1..Len(Below[n][dir])}

\* What is below a directory is within one of its files.
LEMMA BelowStep ==
    ASSUME NEW n \in Nat, n + 1 <= MaxNesting, NEW dir \in Name,
           NEW p \in 1..Len(Below[n + 1][dir])
    PROVE  \E i \in DOMAIN Children[dir] :
            Below[n + 1][dir][p] \in Within(n, Children[dir][i])
<1>. DEFINE seqs == [i \in DOMAIN Children[dir] |->
                        << Children[dir][i] >> \o Below[n][Children[dir][i]]]
<1>1. /\ n + 1 \in 1..MaxNesting /\ n \in 0..MaxNesting /\ (n + 1) - 1 = n
    <2>1. MaxNesting \in Nat
        BY FilesAssumption
    <2>. QED
        BY <2>1
<1>2. Below[n] \in [Name -> Seq(Name)]
    BY <1>1, BelowIs
<1>3. Children[dir] \in Seq(Name) /\ seqs \in Seq(Seq(Name))
    BY <1>2, PartsType
<1>4. Below[n + 1][dir] = FlattenSeq(seqs)
    BY <1>1, BelowIs DEF OneLevel
<1>5. DrawnFrom(Below[n + 1][dir], seqs, Len(seqs))
    <2>. HIDE DEF seqs
    <2>. QED
        BY <1>3, <1>4, JoinedElements
<1>6. Len(seqs) = Len(Children[dir]) /\ DOMAIN Children[dir] = 1..Len(seqs)
    BY <1>3
<1>7. PICK k \in 1..Len(seqs) : \E j \in 1..Len(seqs[k]) :
            Below[n + 1][dir][p] = seqs[k][j]
    <2>. HIDE DEF seqs
    <2>. QED
        BY <1>5 DEF DrawnFrom
<1>8. PICK j \in 1..Len(seqs[k]) : Below[n + 1][dir][p] = seqs[k][j]
    BY <1>7
<1>. DEFINE child == Children[dir][k]
<1>9. k \in DOMAIN Children[dir] /\ child \in Name /\ Below[n][child] \in Seq(Name)
    BY <1>2, <1>3, <1>6
<1>10. seqs[k] = << child >> \o Below[n][child]
    BY <1>9
<1>. HIDE DEF seqs, child
<1>11. seqs[k][j] \in Within(n, child)
    <2>1. CASE j = 1
        BY <1>9, <1>10, <2>1 DEF Within
    <2>2. CASE j # 1
        <3>1. j - 1 \in 1..Len(Below[n][child]) /\ seqs[k][j] = Below[n][child][j - 1]
            BY <1>9, <1>10, <2>2
        <3>. QED
            BY <3>1 DEF Within
    <2>. QED
        BY <2>1, <2>2
<1>. QED
    BY <1>8, <1>9, <1>11 DEF child

\* What is below a directory is at a deeper level;
Deeper(level, n) ==
    \A dir \in Name : \A p \in 1..Len(Below[n][dir]) :
        Below[n][dir][p] \in Name /\ level[Below[n][dir][p]] > level[dir]

\* what is within two directories of the same level is within one;
Disjoint(level, n) ==
    \A a, b \in Name, x \in Name :
        level[a] = level[b] /\ x \in Within(n, a) /\ x \in Within(n, b) => a = b

\* and load() comes to each file once.
OnceEach(n) == \A dir \in Name : Once(Below[n][dir])

\* If whatever is n levels below a directory is deeper than it, so is what is n
\* + 1 levels below.
LEMMA DeeperStep ==
    ASSUME NEW level, IsLevel(level), NEW n \in Nat, n + 1 <= MaxNesting, Deeper(level, n)
    PROVE  Deeper(level, n + 1)
<1>1. MaxNesting \in Nat
    BY FilesAssumption
<1>2. ASSUME NEW dir \in Name, NEW p \in 1..Len(Below[n + 1][dir])
      PROVE  /\ Below[n + 1][dir][p] \in Name
             /\ level[Below[n + 1][dir][p]] > level[dir]
    <2>1. PICK i \in DOMAIN Children[dir] :
            Below[n + 1][dir][p] \in Within(n, Children[dir][i])
        BY BelowStep
    <2>. DEFINE child == Children[dir][i]
    <2>2. child \in Name /\ level[child] = level[dir] + 1
        BY FilesAssumption DEF IsLevel
    <2>3. level[child] \in Nat /\ level[dir] \in Nat
        BY <1>1, <2>2 DEF IsLevel
    <2>4. ASSUME NEW x \in Within(n, child) PROVE x \in Name /\ level[x] > level[dir]
        <3>1. CASE x = child
            BY <2>2, <2>3, <3>1
        <3>2. CASE x # child
            <4>1. PICK q \in 1..Len(Below[n][child]) : x = Below[n][child][q]
                BY <3>2 DEF Within
            <4>2. x \in Name /\ level[x] > level[child]
                BY <2>2, <4>1 DEF Deeper
            <4>3. level[x] \in Nat
                BY <1>1, <4>2 DEF IsLevel
            <4>. QED
                BY <2>2, <2>3, <4>2, <4>3
        <3>. QED
            BY <3>1, <3>2
    <2>. QED
        BY <2>1, <2>4
<1>. QED
    BY <1>2 DEF Deeper

\* If two directories of one depth share nothing n levels below, neither do
\* they n + 1 levels below.
LEMMA DisjointStep ==
    ASSUME NEW level, IsLevel(level), NEW n \in Nat, n + 1 <= MaxNesting,
           Deeper(level, n + 1), Disjoint(level, n)
    PROVE  Disjoint(level, n + 1)
<1>1. MaxNesting \in Nat /\ Children \in [Name -> Seq(Name)]
    BY FilesAssumption
<1>2. \A dir \in Name : level[dir] \in Nat
    BY <1>1 DEF IsLevel
<1>3. ASSUME NEW a \in Name, NEW x \in Within(n + 1, a), x # a
      PROVE  /\ level[x] > level[a]
             /\ \E i \in DOMAIN Children[a] : x \in Within(n, Children[a][i])
    <2>1. PICK p \in 1..Len(Below[n + 1][a]) : x = Below[n + 1][a][p]
        BY <1>3 DEF Within
    <2>. QED
        BY <2>1, BelowStep DEF Deeper
<1>4. SUFFICES ASSUME NEW a \in Name, NEW b \in Name, NEW x \in Name,
                      level[a] = level[b], x \in Within(n + 1, a), x \in Within(n + 1, b)
               PROVE  a = b
    BY DEF Disjoint
<1>5. CASE x = a \/ x = b
    BY <1>2, <1>3, <1>4, <1>5
<1>6. CASE x # a /\ x # b
    <2>1. PICK i \in DOMAIN Children[a] : x \in Within(n, Children[a][i])
        BY <1>3, <1>4, <1>6
    <2>2. PICK j \in DOMAIN Children[b] : x \in Within(n, Children[b][j])
        BY <1>3, <1>4, <1>6
    <2>3. Children[a][i] \in Name /\ Children[b][j] \in Name
        BY <1>1
    <2>4. level[Children[a][i]] = level[Children[b][j]]
        BY <1>4 DEF IsLevel
    <2>5. Children[a][i] = Children[b][j]
        BY <2>1, <2>2, <2>3, <2>4 DEF Disjoint
    <2>. QED
        BY <2>5, TreeAssumption
<1>. QED
    BY <1>5, <1>6

\* An index of a sequence with one element put before it.
LEMMA FrontIndex ==
    ASSUME NEW Y, NEW d \in Y, NEW t \in Seq(Y), NEW i \in 1..Len(<< d >> \o t)
    PROVE  /\ i \in Nat
           /\ \/ i = 1 /\ (<< d >> \o t)[i] = d
              \/ i - 1 \in 1..Len(t) /\ (<< d >> \o t)[i] = t[i - 1]
OBVIOUS

\* If a listing of n levels has each name once, so does one of n + 1 levels.
LEMMA OnceEachStep ==
    ASSUME NEW level, IsLevel(level), NEW n \in Nat, n + 1 <= MaxNesting,
           Deeper(level, n), Disjoint(level, n), OnceEach(n)
    PROVE  OnceEach(n + 1)
<1>1. n + 1 \in 1..MaxNesting /\ n \in 0..MaxNesting /\ (n + 1) - 1 = n
    <2>1. MaxNesting \in Nat
        BY FilesAssumption
    <2>. QED
        BY <2>1
<1>2. Below[n] \in [Name -> Seq(Name)]
    BY <1>1, BelowIs
<1>3. \A dir \in Name : level[dir] \in Nat
    BY FilesAssumption DEF IsLevel
<1>4. SUFFICES ASSUME NEW dir \in Name PROVE Once(Below[n + 1][dir])
    BY DEF OnceEach
<1>. DEFINE child(i) == Children[dir][i]
            seqs == [i \in DOMAIN Children[dir] |->
                        << Children[dir][i] >> \o Below[n][Children[dir][i]]]
<1>5. Children[dir] \in Seq(Name) /\ seqs \in Seq(Seq(Name))
    BY <1>2, PartsType
<1>6. Below[n + 1][dir] = FlattenSeq(seqs)
    BY <1>1, BelowIs DEF OneLevel
<1>7. Len(seqs) = Len(Children[dir]) /\ DOMAIN Children[dir] = 1..Len(seqs)
    BY <1>5
<1>8. ASSUME NEW k \in 1..Len(seqs)
      PROVE  /\ k \in DOMAIN Children[dir] /\ child(k) \in Name
             /\ Below[n][child(k)] \in Seq(Name)
             /\ seqs[k] = << child(k) >> \o Below[n][child(k)]
             /\ level[child(k)] = level[dir] + 1
    <2>1. k \in DOMAIN Children[dir] /\ child(k) \in Name
        <3>. HIDE DEF seqs
        <3>. QED
            BY <1>5, <1>7
    <2>2. Below[n][child(k)] \in Seq(Name)
        <3>. HIDE DEF child
        <3>. QED
            BY <1>2, <2>1
    <2>3. seqs[k] = << child(k) >> \o Below[n][child(k)]
        BY <2>1
    <2>4. level[child(k)] = level[dir] + 1
        BY <2>1 DEF IsLevel
    <2>. QED
        BY <2>1, <2>2, <2>3, <2>4
<1>. HIDE DEF seqs, child
<1>9. ASSUME NEW k \in 1..Len(seqs), NEW i \in 1..Len(seqs[k])
      PROVE  /\ i \in Nat
             /\ \/ i = 1 /\ seqs[k][i] = child(k)
                \/ /\ i - 1 \in 1..Len(Below[n][child(k)])
                   /\ seqs[k][i] = Below[n][child(k)][i - 1]
    <2>. DEFINE d == child(k)
                t == Below[n][child(k)]
    <2>1. d \in Name /\ t \in Seq(Name) /\ seqs[k] = << d >> \o t
        BY <1>8
    <2>2. i \in 1..Len(<< d >> \o t)
        BY <2>1
    <2>. HIDE DEF d, t
    <2>3. /\ i \in Nat
          /\ \/ i = 1 /\ (<< d >> \o t)[i] = d
             \/ i - 1 \in 1..Len(t) /\ (<< d >> \o t)[i] = t[i - 1]
        BY <2>1, <2>2, FrontIndex
    <2>. QED
        BY <2>1, <2>3 DEF d, t
<1>10. ASSUME NEW k \in 1..Len(seqs), NEW i \in 1..Len(seqs[k])
       PROVE  seqs[k][i] \in Within(n, child(k)) /\ seqs[k][i] \in Name
    <2>1. child(k) \in Name /\ Below[n][child(k)] \in Seq(Name)
        BY <1>8
    <2>2. \/ seqs[k][i] = child(k)
          \/ \E q \in 1..Len(Below[n][child(k)]) : seqs[k][i] = Below[n][child(k)][q]
        BY <1>9
    <2>3. seqs[k][i] \in Within(n, child(k))
        BY <2>2 DEF Within
    <2>. QED
        BY <2>1, <2>2, <2>3
<1>11. ASSUME NEW k \in 1..Len(seqs), NEW i \in 1..Len(seqs[k]), NEW j \in 1..Len(seqs[k]),
              seqs[k][i] = seqs[k][j]
       PROVE  i = j
    <2>. DEFINE t == Below[n][child(k)]
    <2>1. Once(t)
        BY <1>8 DEF OnceEach
    <2>2. child(k) \in Name /\ level[child(k)] \in Nat
        BY <1>3, <1>8
    <2>3. ASSUME NEW q \in 1..Len(t) PROVE t[q] # child(k)
        <3>1. level[t[q]] > level[child(k)]
            BY <2>2 DEF Deeper
        <3>. QED
            BY <2>2, <3>1
    <2>4. /\ i \in Nat
          /\ \/ i = 1 /\ seqs[k][i] = child(k)
             \/ i - 1 \in 1..Len(t) /\ seqs[k][i] = t[i - 1]
        BY <1>9
    <2>5. /\ j \in Nat
          /\ \/ j = 1 /\ seqs[k][j] = child(k)
             \/ j - 1 \in 1..Len(t) /\ seqs[k][j] = t[j - 1]
        BY <1>9
    <2>. HIDE DEF t
    <2>6. CASE i - 1 \in 1..Len(t) /\ seqs[k][i] = t[i - 1]
        <3>1. j - 1 \in 1..Len(t) /\ seqs[k][j] = t[j - 1]
            BY <1>11, <2>3, <2>5, <2>6
        <3>2. i - 1 = j - 1
            BY <1>11, <2>1, <2>6, <3>1 DEF Once
        <3>. QED
            BY <2>4, <2>5, <3>2
    <2>7. CASE i = 1 /\ seqs[k][i] = child(k)
        BY <1>11, <2>3, <2>5, <2>7
    <2>. QED
        BY <2>4, <2>6, <2>7
<1>12. ASSUME NEW k \in 1..Len(seqs), NEW l \in 1..Len(seqs),
              NEW i \in 1..Len(seqs[k]), NEW j \in 1..Len(seqs[l]), seqs[k][i] = seqs[l][j]
       PROVE  k = l /\ i = j
    <2>1. child(k) = child(l)
        <3>1. seqs[k][i] \in Within(n, child(k)) /\ seqs[l][j] \in Within(n, child(l))
            BY <1>10
        <3>2. seqs[k][i] \in Name /\ level[child(k)] = level[child(l)]
            BY <1>8, <1>10
        <3>3. child(k) \in Name /\ child(l) \in Name
            BY <1>8
        <3>. QED
            BY <1>12, <3>1, <3>2, <3>3 DEF Disjoint
    <2>2. k = l
        <3>1. k \in DOMAIN Children[dir] /\ l \in DOMAIN Children[dir]
            BY <1>8
        <3>. QED
            BY <2>1, <3>1, TreeAssumption DEF child
    <2>. QED
        BY <1>11, <1>12, <2>2
<1>13. Apart(seqs)
    BY <1>12 DEF Apart
<1>. QED
    BY <1>5, <1>6, <1>13, JoinedOnce

\* load() finds every file once and does not come back to where it began.
LEMMA BelowOnce ==
    ASSUME NEW n \in 0..MaxNesting, NEW dir \in Name
    PROVE  /\ Below[n][dir] \in Seq(Name) /\ Once(Below[n][dir])
           /\ \A p \in 1..Len(Below[n][dir]) : Below[n][dir][p] # dir
<1>1. PICK level : IsLevel(level)
    BY TreeAssumption DEF IsLevel
<1>2. MaxNesting \in Nat
    BY FilesAssumption
<1>3. \A d \in Name : Below[0][d] = << >>
    BY BelowIs
<1>4. Deeper(level, 0) /\ OnceEach(0) /\ Disjoint(level, 0)
    BY <1>3 DEF Deeper, OnceEach, Once, Disjoint, Within
<1>. DEFINE Proper(m) == Deeper(level, m) /\ OnceEach(m) /\ Disjoint(level, m)
            S == {m \in Nat : m <= MaxNesting => Proper(m)}
<1>5. ASSUME NEW m \in Nat, m + 1 <= MaxNesting, Proper(m) PROVE Proper(m + 1)
    BY <1>1, <1>5, DeeperStep, DisjointStep, OnceEachStep
<1>. HIDE DEF Proper
<1>6. 0 \in S
    BY <1>4 DEF Proper
<1>7. ASSUME NEW m \in S PROVE m + 1 \in S
    <2>1. m \in Nat /\ (m + 1 <= MaxNesting => m <= MaxNesting)
        BY <1>2
    <2>. QED
        BY <1>5, <2>1
<1>8. S = Nat
    <2>1. S \subseteq Nat
        OBVIOUS
    <2>. HIDE DEF S
    <2>. QED
        BY <1>6, <1>7, <2>1, Counting
<1>9. Proper(n)
    BY <1>2, <1>8
<1>10. level[dir] \in Nat
    BY <1>1, <1>2 DEF IsLevel
<1>11. Below[n][dir] \in Seq(Name)
    BY BelowIs
<1>12. Once(Below[n][dir])
    BY <1>9 DEF Proper, OnceEach
<1>13. ASSUME NEW p \in 1..Len(Below[n][dir]) PROVE Below[n][dir][p] # dir
    <2>1. level[Below[n][dir][p]] > level[dir]
        BY <1>9 DEF Proper, Deeper
    <2>. QED
        BY <1>10, <2>1
<1>. QED
    BY <1>11, <1>12, <1>13

-----------------------------------------------------------------------------
(* Least and greatest numbers. *)

\* Min of a nonempty set of numbers is its least element.
LEMMA LeastIs ==
    ASSUME NEW S, S \subseteq Nat, S # {}
    PROVE  Min(S) \in S /\ \A n \in S : Min(S) <= n
<1>1. IsWellFoundedOn(OpToRel(<, Nat), Nat)
    BY NatLessThanWellFounded
<1>2. PICK m \in S : \A n \in S : ~(<< n, m >> \in OpToRel(<, Nat))
    BY <1>1, WFMin
<1>3. m \in Nat /\ \A n \in S : n \in Nat
    OBVIOUS
<1>4. ASSUME NEW n \in S PROVE m <= n
    <2>1. ~(n < m)
        BY <1>2, <1>3 DEF OpToRel
    <2>. QED
        BY <1>3, <2>1
<1>. QED
    BY <1>2, <1>4 DEF Min

\* FirstOf(S, n) is the least element of S, or n when S has none.
LEMMA FirstOfIs ==
    ASSUME NEW S, S \subseteq Nat, NEW n
    PROVE  /\ S = {} => FirstOf(S, n) = n
           /\ S # {} => FirstOf(S, n) \in S /\ \A k \in S : FirstOf(S, n) <= k
BY LeastIs DEF FirstOf

\* The least element of a part of 1..n is in 0..n when n stands for none.
LEMMA FirstOfRange ==
    ASSUME NEW n \in Nat, NEW S, S \subseteq 1..n
    PROVE  FirstOf(S, n) \in 0..n
<1>1. S \subseteq Nat
    OBVIOUS
<1>2. CASE S = {}
    BY <1>2 DEF FirstOf
<1>3. CASE S # {}
    <2>1. FirstOf(S, n) \in S
        BY <1>1, <1>3, FirstOfIs
    <2>. DEFINE k == FirstOf(S, n)
    <2>. HIDE DEF k
    <2>2. k \in 1..n
        BY <2>1 DEF k
    <2>3. k \in 0..n
        BY <2>2
    <2>. QED
        BY <2>3 DEF k
<1>. QED
    BY <1>2, <1>3

\* Max of a bounded nonempty set of numbers is its greatest element.
LEMMA GreatestIs ==
    ASSUME NEW n \in Nat, NEW S, S \subseteq 0..n, S # {}
    PROVE  Max(S) \in S /\ \A k \in S : k <= Max(S)
<1>. DEFINE T == {n - k : k \in S}
<1>0. ASSUME NEW k \in S PROVE k \in Nat /\ n - k \in Nat /\ n - k \in T
    OBVIOUS
<1>1. T \subseteq Nat /\ T # {}
    BY <1>0
<1>2. Min(T) \in T /\ \A k \in T : Min(T) <= k
    <2>. HIDE DEF T
    <2>. QED
        BY <1>1, LeastIs
<1>3. PICK m \in S : Min(T) = n - m
    BY <1>2
<1>4. ASSUME NEW k \in S PROVE k <= m
    <2>1. n - m <= n - k
        BY <1>0, <1>2, <1>3
    <2>. QED
        BY <1>0, <2>1
<1>. QED
    BY <1>4 DEF Max

-----------------------------------------------------------------------------
(* What a listing has. *)

\* A new entry is an entry, with the name and the origin it was given.
LEMMA NewEntryType ==
    ASSUME NEW name \in Name, NEW from \in {"listing", "archive", "program", "stream"},
           NEW valid \in BOOLEAN, NEW directory \in BOOLEAN, NEW size \in 0..1
    PROVE  /\ NewEntry(name, from, valid, directory, size) \in Entry
           /\ NewEntry(name, from, valid, directory, size).name = name
           /\ NewEntry(name, from, valid, directory, size).from = from
BY DEF NewEntry, Entry, EntryType, Uncompressed, SupportedMethod, CompressionLevel,
       COMPRESSION_LEVEL_DEFAULT, COMPRESSION_LEVEL_MAXIMUM, COMPRESSION_LEVEL_MINIMUM

\* A DirectoryEntry is an entry of a listing, under the name it was made for.
LEMMA DirectoryEntryType ==
    ASSUME NEW name \in Name
    PROVE  /\ DirectoryEntry(name) \in Entry
           /\ DirectoryEntry(name).name = name /\ DirectoryEntry(name).from = "listing"
<1>. DEFINE valid == IsDirectory(name) \/ IsRegular(name)
            directory == IsDirectory(name)
            size == IF IsRegular(name) THEN 1 ELSE 0
<1>1. valid \in BOOLEAN /\ directory \in BOOLEAN
    BY DEF IsDirectory, IsRegular, Exists
<1>2. size \in 0..1
    OBVIOUS
<1>3. DirectoryEntry(name) = NewEntry(name, "listing", valid, directory, size)
    BY DEF DirectoryEntry
<1>. HIDE DEF valid, directory, size
<1>4. "listing" \in {"listing", "archive", "program", "stream"}
    OBVIOUS
<1>. QED
    BY <1>1, <1>2, <1>3, <1>4, NewEntryType

\* No two entries of s have the same name.
NamedOnce(s) == \A p, q \in 1..Len(s) : s[p].name = s[q].name => p = q

\* load() makes entries of listings, one for each path, and none for the
\* directory it reads.
LEMMA LoadIs ==
    ASSUME NEW dir \in Name, NEW recursive \in BOOLEAN
    PROVE  /\ Load(dir, recursive) \in Seq(Entry)
           /\ NamedOnce(Load(dir, recursive))
           /\ \A p \in 1..Len(Load(dir, recursive)) :
                /\ Load(dir, recursive)[p].from = "listing"
                /\ Load(dir, recursive)[p].name # dir
<1>. DEFINE n == IF recursive THEN MaxNesting ELSE 1
            names == Visited[recursive][dir]
            unreadable == Unreadable(dir, recursive)
            last == FirstOf(unreadable, Len(names))
            seqs == [i \in 1..last |->
                        IF Exists(names[i]) THEN << DirectoryEntry(names[i]) >> ELSE << >>]
            all == FlattenSeq(seqs)
<1>1. n \in 0..MaxNesting
    BY FilesAssumption
<1>2. names \in Seq(Name) /\ Once(names) /\ \A p \in 1..Len(names) : names[p] # dir
    <2>1. names = Below[n][dir]
        BY DEF Visited
    <2>. HIDE DEF n, names
    <2>. QED
        BY <1>1, <2>1, BelowOnce
<1>. HIDE DEF names
<1>3. last \in 0..Len(names)
    <2>1. unreadable \subseteq DOMAIN names
        BY DEF Unreadable, names
    <2>2. unreadable \subseteq Nat /\ unreadable \subseteq 1..Len(names)
        BY <1>2, <2>1
    <2>. HIDE DEF unreadable
    <2>3. Len(names) \in Nat
        BY <1>2
    <2>. QED
        BY <2>2, <2>3, FirstOfRange
<1>. HIDE DEF last
<1>4. last \in Nat /\ \A i \in 1..last : i \in 1..Len(names) /\ names[i] \in Name
    BY <1>2, <1>3
<1>5. ASSUME NEW i \in 1..last PROVE seqs[i] \in Seq(Entry)
    <2>1. DirectoryEntry(names[i]) \in Entry
        BY <1>4, DirectoryEntryType
    <2>. QED
        BY <2>1
<1>6. seqs \in Seq(Seq(Entry)) /\ Len(seqs) = last
    BY <1>4, <1>5
<1>7. ASSUME NEW k \in 1..last, NEW j \in 1..Len(seqs[k])
      PROVE  seqs[k][j] = DirectoryEntry(names[k]) /\ j = 1
    <2>1. CASE Exists(names[k])
        BY <2>1
    <2>2. CASE ~Exists(names[k])
        BY <2>2
    <2>. QED
        BY <2>1, <2>2
<1>8. Apart(seqs)
    <2>1. ASSUME NEW k \in 1..last, NEW l \in 1..last,
                 NEW i \in 1..Len(seqs[k]), NEW j \in 1..Len(seqs[l]),
                 seqs[k][i] = seqs[l][j]
          PROVE  k = l /\ i = j
        <3>1. /\ seqs[k][i] = DirectoryEntry(names[k]) /\ i = 1
              /\ seqs[l][j] = DirectoryEntry(names[l]) /\ j = 1
            <4>. HIDE DEF seqs
            <4>. QED
                BY <1>7
        <3>2. names[k] = names[l]
            <4>1. DirectoryEntry(names[k]).name = names[k]
                BY <1>4, DirectoryEntryType
            <4>2. DirectoryEntry(names[l]).name = names[l]
                BY <1>4, DirectoryEntryType
            <4>. HIDE DEF seqs
            <4>. QED
                BY <2>1, <3>1, <4>1, <4>2
        <3>. HIDE DEF seqs
        <3>. QED
            BY <1>2, <1>4, <3>1, <3>2 DEF Once
    <2>. HIDE DEF seqs
    <2>. QED
        BY <1>6, <2>1 DEF Apart
<1>. HIDE DEF seqs
<1>9. all \in Seq(Entry) /\ DrawnFrom(all, seqs, last) /\ Once(all)
    BY <1>6, <1>8, JoinedElements, JoinedOnce
<1>. HIDE DEF all
<1>10. ASSUME NEW p \in 1..Len(all)
       PROVE  \E k \in 1..last : all[p] = DirectoryEntry(names[k])
    BY <1>7, <1>9 DEF DrawnFrom
<1>11. \A p \in 1..Len(all) : all[p].from = "listing" /\ all[p].name # dir
    BY <1>2, <1>4, <1>10, DirectoryEntryType
<1>12. NamedOnce(all)
    <2>1. ASSUME NEW p \in 1..Len(all), NEW q \in 1..Len(all), all[p].name = all[q].name
          PROVE  p = q
        <3>1. PICK k \in 1..last : all[p] = DirectoryEntry(names[k])
            BY <1>10
        <3>2. PICK l \in 1..last : all[q] = DirectoryEntry(names[l])
            BY <1>10
        <3>3. names[k] = names[l]
            BY <1>4, <2>1, <3>1, <3>2, DirectoryEntryType
        <3>. QED
            BY <1>9, <3>1, <3>2, <3>3 DEF Once
    <2>. QED
        BY <2>1 DEF NamedOnce
<1>13. CASE ~Exists(dir) \/ dir \in locked
    <2>1. Load(dir, recursive) = << >>
        BY <1>13, Zenon DEF Load
    <2>. QED
        BY <2>1 DEF NamedOnce
<1>14. CASE ~(~Exists(dir) \/ dir \in locked)
    <2>1. Load(dir, recursive) = all
        BY <1>14, Zenon DEF Load, all, seqs, last, names
    <2>. QED
        BY <1>9, <1>11, <1>12, <2>1
<1>. QED
    BY <1>13, <1>14

\* So does the listing of a directory collection, the directory itself
\* included.
LEMMA ListingIs ==
    ASSUME NEW node, node.path \in Name, node.recursive \in BOOLEAN
    PROVE  /\ Listing(node) \in Seq(Entry)
           /\ NamedOnce(Listing(node))
           /\ \A p \in 1..Len(Listing(node)) :
                Listing(node)[p].from = "listing"
<1>. DEFINE directory == Kind[node.path] = "directory"
            size == IF directory THEN 0 ELSE 1
            root == NewEntry(node.path, "listing", TRUE, directory, size)
            below == IF directory THEN Load(node.path, node.recursive)
                     ELSE << >>
            all == << root >> \o below
<1>1. root \in Entry /\ root.name = node.path /\ root.from = "listing"
    <2>1. directory \in BOOLEAN /\ size \in 0..1
        OBVIOUS
    <2>. DEFINE valid == TRUE
                from == "listing"
                name == node.path
    <2>2. from \in {"listing", "archive", "program", "stream"} /\ valid \in BOOLEAN
        OBVIOUS
    <2>3. name \in Name
        OBVIOUS
    <2>4. root = NewEntry(name, from, valid, directory, size) /\ from = "listing"
        OBVIOUS
    <2>5. name = node.path
        OBVIOUS
    <2>. HIDE DEF directory, size, valid, from, name, root
    <2>. QED
        BY <2>1, <2>2, <2>3, <2>4, <2>5, NewEntryType
<1>2. /\ below \in Seq(Entry) /\ NamedOnce(below)
      /\ \A p \in 1..Len(below) :
            below[p].from = "listing" /\ below[p].name # node.path
    <2>1. CASE directory
        BY <2>1, LoadIs
    <2>2. CASE ~directory
        BY <2>2 DEF NamedOnce
    <2>. HIDE DEF directory
    <2>. QED
        BY <2>1, <2>2
<1>3. Listing(node) = all
    BY DEF Listing
<1>. HIDE DEF root, below
<1>4. all \in Seq(Entry)
    BY <1>1, <1>2
<1>5. ASSUME NEW p \in 1..Len(all)
      PROVE  /\ p \in Nat
             /\ \/ p = 1 /\ all[p] = root
                \/ p - 1 \in 1..Len(below) /\ all[p] = below[p - 1]
    BY <1>1, <1>2, FrontIndex
<1>. HIDE DEF all
<1>6. \A p \in 1..Len(all) : all[p].from = "listing"
    BY <1>1, <1>2, <1>5
<1>7. NamedOnce(all)
    <2>1. ASSUME NEW p \in 1..Len(all), NEW q \in 1..Len(all), all[p].name = all[q].name
          PROVE  p = q
        <3>1. CASE p - 1 \in 1..Len(below) /\ all[p] = below[p - 1]
            <4>1. q - 1 \in 1..Len(below) /\ all[q] = below[q - 1]
                BY <1>1, <1>2, <1>5, <2>1, <3>1
            <4>2. p - 1 = q - 1
                BY <1>2, <2>1, <3>1, <4>1 DEF NamedOnce
            <4>. QED
                BY <1>5, <4>2
        <3>2. CASE p = 1 /\ all[p] = root
            BY <1>1, <1>2, <1>5, <2>1, <3>2
        <3>. QED
            BY <1>5, <3>1, <3>2
    <2>. QED
        BY <2>1 DEF NamedOnce
<1>. QED
    BY <1>2, <1>3, <1>4, <1>6, <1>7

-----------------------------------------------------------------------------
(* Entries and their allocation. *)

Heap == Seq(Seq(Seq(Entry)))

\* The length and the elements of two sequences that are joined.
LEMMA JoinIs ==
    ASSUME NEW Y, NEW s \in Seq(Y), NEW t \in Seq(Y)
    PROVE  /\ s \o t \in Seq(Y) /\ Len(s) \in Nat /\ Len(t) \in Nat
           /\ Len(s \o t) = Len(s) + Len(t)
           /\ \A j \in 1..Len(s) : (s \o t)[j] = s[j]
           /\ \A j \in 1..Len(t) : (s \o t)[Len(s) + j] = t[j]
           /\ \A j \in 1..Len(s \o t) :
                /\ j <= Len(s) => j \in 1..Len(s) /\ (s \o t)[j] = s[j]
                /\ j > Len(s) => j - Len(s) \in 1..Len(t) /\ (s \o t)[j] = t[j - Len(s)]
OBVIOUS

\* A sequence with these elements is the two joined.
LEMMA IsJoin ==
    ASSUME NEW Y, NEW s \in Seq(Y), NEW t \in Seq(Y), NEW u \in Seq(Y),
           Len(u) = Len(s) + Len(t),
           \A j \in 1..Len(u) : u[j] = IF j <= Len(s) THEN s[j] ELSE t[j - Len(s)]
    PROVE  u = s \o t
<1>. DEFINE v == s \o t
<1>1. /\ v \in Seq(Y) /\ Len(v) = Len(u)
      /\ \A j \in 1..Len(v) :
            /\ j <= Len(s) => v[j] = s[j]
            /\ j > Len(s) => v[j] = t[j - Len(s)]
    BY JoinIs
<1>. HIDE DEF v
<1>2. ASSUME NEW j \in 1..Len(u) PROVE u[j] = v[j]
    <2>1. Len(s) \in Nat
        OBVIOUS
    <2>2. CASE j <= Len(s)
        BY <1>1, <2>2
    <2>3. CASE j > Len(s)
        BY <1>1, <2>1, <2>3
    <2>. QED
        BY <2>1, <2>2, <2>3
<1>3. u = v
    BY <1>1, <1>2, SeqEqual
<1>. QED
    BY <1>3 DEF v

\* A reference points into the heap, to an entry.
LEMMA ReferenceIs ==
    ASSUME NEW hp \in Heap, NEW ref \in References(hp)
    PROVE  /\ ref[1] \in 1..Len(hp) /\ ref[2] \in 1..Len(hp[ref[1]])
           /\ ref[3] \in 1..Len(hp[ref[1]][ref[2]])
           /\ ref = << ref[1], ref[2], ref[3] >> /\ At(hp, ref) \in Entry
<1>1. /\ ref[1] \in Nat /\ ref[2] \in Nat /\ ref[3] \in Nat
      /\ ref = << ref[1], ref[2], ref[3] >>
    BY DEF References
<1>2. ref[1] \in DOMAIN hp /\ ref[2] \in DOMAIN hp[ref[1]] /\ ref[3] \in DOMAIN hp[ref[1]][ref[2]]
    BY DEF References
<1>3. hp \in Seq(Seq(Seq(Entry)))
    BY DEF Heap
<1>4. ref[1] \in 1..Len(hp) /\ hp[ref[1]] \in Seq(Seq(Entry))
    BY <1>2, <1>3
<1>5. ref[2] \in 1..Len(hp[ref[1]]) /\ hp[ref[1]][ref[2]] \in Seq(Entry)
    BY <1>2, <1>4
<1>6. ref[3] \in 1..Len(hp[ref[1]][ref[2]]) /\ hp[ref[1]][ref[2]][ref[3]] \in Entry
    BY <1>2, <1>5
<1>. QED
    BY <1>1, <1>4, <1>5, <1>6 DEF At

\* Three indices into the heap are a reference.
LEMMA IsReference ==
    ASSUME NEW hp \in Heap, NEW k \in 1..Len(hp), NEW i \in 1..Len(hp[k]),
           NEW j \in 1..Len(hp[k][i])
    PROVE  << k, i, j >> \in References(hp) /\ At(hp, << k, i, j >>) = hp[k][i][j]
<1>1. hp \in Seq(Seq(Seq(Entry)))
    BY DEF Heap
<1>2. hp[k] \in Seq(Seq(Entry)) /\ k \in DOMAIN hp /\ k \in Nat
    BY <1>1
<1>3. hp[k][i] \in Seq(Entry) /\ i \in DOMAIN hp[k] /\ i \in Nat
    BY <1>2
<1>4. j \in DOMAIN hp[k][i] /\ j \in Nat
    BY <1>3
<1>. QED
    BY <1>2, <1>3, <1>4 DEF References, At

\* hp2 has what hp had, and perhaps more.
Extends(hp2, hp) ==
    /\ hp2 \in Heap
    /\ Len(hp) \in Nat /\ Len(hp2) \in Nat /\ Len(hp) <= Len(hp2)
    /\ \A k \in 1..Len(hp) : hp2[k] = hp[k]

\* Allocating keeps every entry and every reference to it.
LEMMA ExtendsKeeps ==
    ASSUME NEW hp \in Heap, NEW hp2, Extends(hp2, hp)
    PROVE  /\ References(hp) \subseteq References(hp2)
           /\ \A ref \in References(hp) : At(hp2, ref) = At(hp, ref)
<1>1. ASSUME NEW ref \in References(hp)
      PROVE  ref \in References(hp2) /\ At(hp2, ref) = At(hp, ref)
    <2>1. /\ ref[1] \in 1..Len(hp) /\ ref[2] \in 1..Len(hp[ref[1]])
          /\ ref[3] \in 1..Len(hp[ref[1]][ref[2]])
          /\ ref = << ref[1], ref[2], ref[3] >>
        BY ReferenceIs
    <2>2. ref[1] \in 1..Len(hp2) /\ hp2[ref[1]] = hp[ref[1]] /\ hp2 \in Heap
        BY <2>1 DEF Extends
    <2>3. << ref[1], ref[2], ref[3] >> \in References(hp2)
        BY <2>1, <2>2, IsReference
    <2>. QED
        BY <2>1, <2>2, <2>3 DEF At
<1>. QED
    BY <1>1

\* Allocating blocks makes a reference for each entry of each block.
LEMMA AllocatedIs ==
    ASSUME NEW hp \in Heap, NEW blocks \in Seq(Seq(Entry))
    PROVE  /\ Extends(Allocated(hp, blocks), hp)
           /\ \A i \in 1..Len(blocks), j \in Nat : j \in 1..Len(blocks[i]) =>
                /\ << Len(hp) + 1, i, j >> \in References(Allocated(hp, blocks))
                /\ At(Allocated(hp, blocks), << Len(hp) + 1, i, j >>) = blocks[i][j]
<1>. DEFINE hp2 == Allocated(hp, blocks)
<1>1. hp \in Seq(Seq(Seq(Entry))) /\ Len(hp) \in Nat
    BY DEF Heap
<1>2. CASE \A i \in DOMAIN blocks : blocks[i] = << >>
    <2>1. hp2 = hp
        BY <1>2 DEF Allocated
    <2>2. \A i \in 1..Len(blocks) : blocks[i] = << >> /\ Len(blocks[i]) = 0
        BY <1>2
    <2>. QED
        BY <1>1, <2>1, <2>2 DEF Extends
<1>3. CASE ~(\A i \in DOMAIN blocks : blocks[i] = << >>)
    <2>1. hp2 = Append(hp, blocks)
        BY <1>3 DEF Allocated
    <2>. HIDE DEF hp2
    <2>2. /\ hp2 \in Seq(Seq(Seq(Entry))) /\ Len(hp2) = Len(hp) + 1
          /\ \A k \in 1..Len(hp) : hp2[k] = hp[k]
          /\ hp2[Len(hp) + 1] = blocks
        <3>. DEFINE B == Seq(Seq(Entry))
        <3>1. hp \in Seq(B) /\ blocks \in B
            BY <1>1
        <3>. HIDE DEF B
        <3>2. /\ hp2 \in Seq(B) /\ Len(hp2) = Len(hp) + 1
              /\ \A k \in 1..Len(hp) : hp2[k] = hp[k]
              /\ hp2[Len(hp) + 1] = blocks
            BY <2>1, <3>1, AppendProperties
        <3>. QED
            BY <3>2 DEF B
    <2>3. Extends(hp2, hp)
        BY <1>1, <2>2 DEF Extends, Heap
    <2>4. ASSUME NEW i \in 1..Len(blocks), NEW j \in Nat, j \in 1..Len(blocks[i])
          PROVE  /\ << Len(hp) + 1, i, j >> \in References(hp2)
                 /\ At(hp2, << Len(hp) + 1, i, j >>) = blocks[i][j]
        <3>. DEFINE k == Len(hp) + 1
        <3>1. hp2 \in Heap /\ k \in 1..Len(hp2) /\ hp2[k] = blocks
            BY <1>1, <2>2 DEF Heap
        <3>. HIDE DEF k
        <3>2. i \in 1..Len(hp2[k]) /\ j \in 1..Len(hp2[k][i])
            BY <2>4, <3>1
        <3>3. << k, i, j >> \in References(hp2) /\ At(hp2, << k, i, j >>) = hp2[k][i][j]
            BY <3>1, <3>2, IsReference
        <3>. QED
            BY <3>1, <3>3 DEF k
    <2>. QED
        BY <2>3, <2>4 DEF hp2
<1>. QED
    BY <1>2, <1>3

\* What a node says but for its entries.
Profile(node) == [class |-> node.class, valid |-> node.valid, loaded |-> node.loaded,
                  path |-> node.path, recursive |-> node.recursive, depth |-> node.depth]

\* The first references of new are the first of node, and the others are those
\* of the block that is made for the i-th object.
Continues(new, node, hp, i, m) ==
    /\ m \in Nat /\ m <= Len(node.entries) /\ m <= Len(new.entries)
    /\ \A j \in 1..Len(new.entries) :
        new.entries[j] = IF j <= m THEN node.entries[j] ELSE << Len(hp) + 1, i, j - m >>

\* The entries of an object are a sequence of references.
LEMMA NodeType ==
    ASSUME NEW hp, NEW node \in Node(hp)
    PROVE  /\ node.entries \in Seq(References(hp)) /\ Len(node.entries) \in Nat
           /\ DOMAIN node.entries = 1..Len(node.entries)
           /\ \A j \in 1..Len(node.entries) : node.entries[j] \in References(hp)
<1>1. node.entries \in Seq(References(hp))
    BY DEF Node
<1>. QED
    BY <1>1

\* The values of an object's entries are entries.
LEMMA ValuesType ==
    ASSUME NEW hp \in Heap, NEW node \in Node(hp)
    PROVE  /\ Values(node, hp) \in Seq(Entry) /\ Len(Values(node, hp)) = Len(node.entries)
           /\ \A j \in 1..Len(node.entries) : Values(node, hp)[j] = At(hp, node.entries[j])
<1>1. /\ Len(node.entries) \in Nat /\ DOMAIN node.entries = 1..Len(node.entries)
      /\ \A j \in 1..Len(node.entries) : node.entries[j] \in References(hp)
    BY NodeType
<1>2. \A j \in 1..Len(node.entries) : At(hp, node.entries[j]) \in Entry
    BY <1>1, ReferenceIs
<1>3. Values(node, hp) = [j \in 1..Len(node.entries) |-> At(hp, node.entries[j])]
    BY <1>1 DEF Values
<1>. HIDE DEF Values
<1>. QED
    BY <1>1, <1>2, <1>3

\* hp2 has at least the references of hp, and the same entries under them but
\* perhaps for those in S.
Keeps(hp, hp2, S) ==
    /\ hp \in Heap /\ hp2 \in Heap /\ Len(hp) <= Len(hp2)
    /\ References(hp) \subseteq References(hp2)
    /\ \A ref \in References(hp) : ref \notin S => At(hp2, ref) = At(hp, ref)

\* An object none of whose entries is written stays what it was, with its
\* values.
LEMMA NodeKept ==
    ASSUME NEW hp, NEW hp2, NEW S, Keeps(hp, hp2, S), NEW node \in Node(hp),
           \A j \in 1..Len(node.entries) : node.entries[j] \notin S
    PROVE  node \in Node(hp2) /\ Values(node, hp2) = Values(node, hp)
<1>1. /\ node.entries \in Seq(References(hp)) /\ Len(node.entries) \in Nat
      /\ DOMAIN node.entries = 1..Len(node.entries)
      /\ \A j \in 1..Len(node.entries) : node.entries[j] \in References(hp)
    BY NodeType
<1>2. node.entries \in Seq(References(hp2))
    <2>1. References(hp) \subseteq References(hp2)
        BY DEF Keeps
    <2>. QED
        BY <1>1, <2>1
<1>3. node \in Node(hp2)
    BY <1>2 DEF Node
<1>4. \A j \in DOMAIN node.entries : At(hp2, node.entries[j]) = At(hp, node.entries[j])
    BY <1>1 DEF Keeps
<1>. QED
    BY <1>3, <1>4 DEF Values

\* An object whose entries are written is still an object.
LEMMA NodeStays ==
    ASSUME NEW hp, NEW hp2, NEW S, Keeps(hp, hp2, S), NEW node \in Node(hp)
    PROVE  node \in Node(hp2)
<1>1. node.entries \in Seq(References(hp))
    BY NodeType
<1>2. node.entries \in Seq(References(hp2))
    <2>1. References(hp) \subseteq References(hp2)
        BY DEF Keeps
    <2>. QED
        BY <1>1, <2>1
<1>. QED
    BY <1>2 DEF Node

\* Allocating writes to no entry.
LEMMA AllocatedKeeps ==
    ASSUME NEW hp \in Heap, NEW blocks \in Seq(Seq(Entry))
    PROVE  Keeps(hp, Allocated(hp, blocks), {})
BY AllocatedIs, ExtendsKeeps DEF Keeps, Extends

\* Entries that are new are appended to an object and their values to its
\* values.
LEMMA WithEntriesIs ==
    ASSUME NEW hp \in Heap, NEW blocks \in Seq(Seq(Entry)), NEW i \in 1..Len(blocks),
           NEW node \in Node(hp)
    PROVE  LET new == WithEntries(node, hp, i, blocks[i])
               hp2 == Allocated(hp, blocks)
           IN  /\ new \in Node(hp2)
               /\ Profile(new) = Profile(node)
               /\ Continues(new, node, hp, i, Len(node.entries))
               /\ Len(new.entries) = Len(node.entries) + Len(blocks[i])
               /\ Values(new, hp2) = Values(node, hp) \o blocks[i]
<1>. DEFINE entries == blocks[i]
            new == WithEntries(node, hp, i, entries)
            hp2 == Allocated(hp, blocks)
            refs == node.entries
            fresh == [j \in 1..Len(entries) |-> << Len(hp) + 1, i, j >>]
            R == References(hp2)
<1>1. entries \in Seq(Entry) /\ Len(entries) \in Nat
    OBVIOUS
<1>2. Keeps(hp, hp2, {})
    BY AllocatedKeeps
<1>3. /\ refs \in Seq(References(hp)) /\ Len(refs) \in Nat
      /\ \A j \in 1..Len(refs) : refs[j] \in References(hp)
    BY NodeType
<1>4. new = [node EXCEPT !.entries = refs \o fresh]
    BY DEF WithEntries
<1>5. ASSUME NEW j \in 1..Len(entries)
      PROVE  fresh[j] \in R /\ fresh[j] = << Len(hp) + 1, i, j >> /\ At(hp2, fresh[j]) = entries[j]
    <2>1. j \in Nat /\ j \in 1..Len(blocks[i])
        OBVIOUS
    <2>2. << Len(hp) + 1, i, j >> \in R /\ At(hp2, << Len(hp) + 1, i, j >>) = blocks[i][j]
        BY <2>1, AllocatedIs
    <2>3. fresh[j] = << Len(hp) + 1, i, j >>
        OBVIOUS
    <2>. HIDE DEF fresh, R, hp2
    <2>. QED
        BY <2>2, <2>3
<1>6. fresh \in Seq(R) /\ Len(fresh) = Len(entries)
    <2>1. \A j \in 1..Len(entries) : << Len(hp) + 1, i, j >> \in R
        BY <1>5
    <2>. HIDE DEF R, entries
    <2>. QED
        BY <1>1, <2>1
<1>. HIDE DEF fresh, hp2, R
<1>7. refs \in Seq(R)
    <2>1. References(hp) \subseteq R
        BY <1>2 DEF Keeps, R
    <2>. QED
        BY <1>3, <2>1
<1>. DEFINE all == refs \o fresh
<1>8. /\ all \in Seq(R) /\ Len(all) = Len(refs) + Len(fresh)
      /\ \A j \in 1..Len(refs) : all[j] = refs[j]
      /\ \A j \in 1..Len(all) :
            /\ j <= Len(refs) => j \in 1..Len(refs) /\ all[j] = refs[j]
            /\ j > Len(refs) => /\ j - Len(refs) \in 1..Len(fresh)
                                /\ all[j] = fresh[j - Len(refs)]
    <2>. HIDE DEF refs
    <2>1. all \in Seq(R) /\ Len(all) = Len(refs) + Len(fresh)
        BY <1>6, <1>7, JoinIs
    <2>2. \A j \in 1..Len(refs) : all[j] = refs[j]
        BY <1>6, <1>7, JoinIs
    <2>3. ASSUME NEW j \in 1..Len(all)
          PROVE  /\ j <= Len(refs) => j \in 1..Len(refs) /\ all[j] = refs[j]
                 /\ j > Len(refs) => /\ j - Len(refs) \in 1..Len(fresh)
                                     /\ all[j] = fresh[j - Len(refs)]
        BY <1>6, <1>7, JoinIs
    <2>. QED
        BY <2>1, <2>2, <2>3
<1>. HIDE DEF all
<1>9. new.entries = all
    BY <1>4 DEF Node, all
<1>10. new \in Node(hp2)
    BY <1>4, <1>8 DEF Node, R, all
<1>11. Profile(new) = Profile(node)
    BY <1>4 DEF Node, Profile
<1>. HIDE DEF new
<1>12. Len(new.entries) = Len(refs) + Len(entries)
    BY <1>6, <1>8, <1>9
<1>13. ASSUME NEW j \in 1..Len(all)
       PROVE  /\ j <= Len(refs) => all[j] = refs[j] /\ j \in 1..Len(refs)
              /\ j > Len(refs) => /\ j - Len(refs) \in 1..Len(entries)
                                  /\ all[j] = fresh[j - Len(refs)]
    BY <1>6, <1>8
<1>14. Continues(new, node, hp, i, Len(node.entries))
    <2>1. ASSUME NEW j \in 1..Len(all)
          PROVE  all[j] = IF j <= Len(refs) THEN refs[j] ELSE << Len(hp) + 1, i, j - Len(refs) >>
        <3>1. CASE j <= Len(refs)
            BY <1>13, <3>1
        <3>2. CASE j > Len(refs)
            BY <1>5, <1>13, <3>2
        <3>. QED
            BY <1>3, <3>1, <3>2
    <2>2. Len(refs) <= Len(all)
        <3>. DEFINE m == Len(refs)
                    n == Len(entries)
        <3>1. m \in Nat /\ n \in Nat /\ Len(all) = m + n
            BY <1>1, <1>3, <1>9, <1>12
        <3>. HIDE DEF m, n
        <3>2. m <= Len(all)
            BY <3>1
        <3>. QED
            BY <3>2 DEF m
    <2>. QED
        BY <1>3, <1>9, <2>1, <2>2, SMTT(20) DEF Continues
<1>15. Values(new, hp2) = Values(node, hp) \o entries
    <2>. DEFINE old == Values(node, hp)
                made == Values(new, hp2)
    <2>1. /\ old \in Seq(Entry) /\ Len(old) = Len(refs)
          /\ \A j \in 1..Len(refs) : old[j] = At(hp, refs[j])
        BY ValuesType
    <2>2. /\ made \in Seq(Entry) /\ Len(made) = Len(refs) + Len(entries)
          /\ \A j \in 1..Len(all) : made[j] = At(hp2, all[j])
        <3>1. hp2 \in Heap
            BY <1>2 DEF Keeps
        <3>. QED
            BY <1>9, <1>10, <1>12, <3>1, ValuesType
    <2>3. ASSUME NEW j \in 1..Len(all)
          PROVE  made[j] = IF j <= Len(old) THEN old[j] ELSE entries[j - Len(old)]
        <3>1. CASE j <= Len(refs)
            <4>1. made[j] = At(hp2, refs[j]) /\ j \in 1..Len(refs)
                BY <1>13, <2>2, <3>1
            <4>2. At(hp2, refs[j]) = At(hp, refs[j])
                BY <1>2, <1>3, <4>1 DEF Keeps
            <4>. HIDE DEF old, made
            <4>. QED
                BY <2>1, <3>1, <4>1, <4>2
        <3>2. CASE j > Len(refs)
            <4>1. made[j] = At(hp2, fresh[j - Len(refs)]) /\ j - Len(refs) \in 1..Len(entries)
                BY <1>13, <2>2, <3>2
            <4>2. At(hp2, fresh[j - Len(refs)]) = entries[j - Len(refs)]
                BY <1>5, <4>1
            <4>3. ~(j <= Len(refs)) /\ Len(old) = Len(refs)
                BY <1>3, <2>1, <3>2
            <4>. HIDE DEF old, made, entries, refs
            <4>. QED
                BY <4>1, <4>2, <4>3
        <3>. QED
            BY <1>3, <3>1, <3>2
    <2>. HIDE DEF old, made, entries, refs
    <2>4. Len(all) = Len(made)
        BY <1>9, <1>12, <2>2
    <2>5. made = old \o entries
        <3>1. entries \in Seq(Entry) /\ Len(made) = Len(old) + Len(entries)
            BY <1>1, <2>1, <2>2
        <3>2. \A j \in 1..Len(made) :
                made[j] = IF j <= Len(old) THEN old[j] ELSE entries[j - Len(old)]
            BY <2>3, <2>4
        <3>. QED
            BY <2>1, <2>2, <3>1, <3>2, IsJoin
    <2>. QED
        BY <2>5 DEF old, made, entries
<1>. QED
    BY <1>10, <1>11, <1>12, <1>14, <1>15 DEF new, hp2

-----------------------------------------------------------------------------
(* What a call makes of one object. *)

HasPath(node) == node.class = "DirectoryCollection" /\ node.valid => node.path \in Name

\* ListedOnce, of the values.
ProperListing(class, loaded, values) ==
    class = "DirectoryCollection" =>
        /\ ~loaded => \A j \in 1..Len(values) : values[j].from # "listing"
        /\ \A i, j \in 1..Len(values) :
            /\ values[i].from = "listing" /\ values[j].from = "listing"
            /\ values[i].name = values[j].name
            => i = j

\* ListedOnce depends on the class, the flag and the values only.
LEMMA ListedOnceIs ==
    ASSUME NEW hp \in Heap, NEW node \in Node(hp)
    PROVE  ListedOnce(node, hp) <=> ProperListing(node.class, node.loaded, Values(node, hp))
<1>. DEFINE values == Values(node, hp)
            listed == {j \in DOMAIN values : values[j].from = "listing"}
<1>1. DOMAIN values = 1..Len(values)
    <2>1. values \in Seq(Entry)
        BY ValuesType
    <2>. HIDE DEF values
    <2>. QED
        BY <2>1
<1>2. ListedOnce(node, hp) <=>
        (node.class = "DirectoryCollection" =>
            /\ ~node.loaded => listed = {}
            /\ \A i, j \in listed : values[i].name = values[j].name => i = j)
    BY DEF ListedOnce
<1>. HIDE DEF values
<1>. QED
    BY <1>1, <1>2 DEF ProperListing, values

\* Appending a listing to an object that had none of it makes a proper listing.
LEMMA ListingAdded ==
    ASSUME NEW class, NEW old \in Seq(Entry), NEW new \in Seq(Entry),
           ProperListing(class, FALSE, old), NamedOnce(new)
    PROVE  ProperListing(class, TRUE, old \o new)
<1>. DEFINE all == old \o new
<1>1. ASSUME NEW j \in 1..Len(all)
      PROVE  /\ j \in Nat /\ Len(old) \in Nat
             /\ j <= Len(old) => j \in 1..Len(old) /\ all[j] = old[j]
             /\ j > Len(old) => j - Len(old) \in 1..Len(new) /\ all[j] = new[j - Len(old)]
    BY JoinIs
<1>. HIDE DEF all
<1>2. ASSUME NEW i \in 1..Len(all), NEW j \in 1..Len(all), class = "DirectoryCollection",
             all[i].from = "listing", all[j].from = "listing", all[i].name = all[j].name
      PROVE  i = j
    <2>1. i > Len(old) /\ j > Len(old)
        <3>1. \A k \in 1..Len(old) : old[k].from # "listing"
            BY <1>2 DEF ProperListing
        <3>2. ~(i <= Len(old)) /\ ~(j <= Len(old))
            BY <1>1, <1>2, <3>1
        <3>3. i \in Nat /\ j \in Nat /\ Len(old) \in Nat
            BY <1>1
        <3>. QED
            BY <3>2, <3>3
    <2>2. /\ i - Len(old) \in 1..Len(new) /\ all[i] = new[i - Len(old)]
          /\ j - Len(old) \in 1..Len(new) /\ all[j] = new[j - Len(old)]
        BY <1>1, <2>1
    <2>3. i - Len(old) = j - Len(old)
        BY <1>2, <2>2 DEF NamedOnce
    <2>. QED
        BY <1>1, <2>3
<1>. QED
    BY <1>2 DEF ProperListing, all

\* Appending an entry that is not of a listing keeps a proper listing.
LEMMA EntryAdded ==
    ASSUME NEW class, NEW loaded, NEW old \in Seq(Entry), NEW e \in Entry,
           ProperListing(class, loaded, old), e.from # "listing"
    PROVE  ProperListing(class, loaded, old \o << e >>)
<1>. DEFINE all == old \o << e >>
<1>1. ASSUME NEW j \in 1..Len(all)
      PROVE  \/ j \in 1..Len(old) /\ all[j] = old[j]
             \/ all[j] = e
    OBVIOUS
<1>. HIDE DEF all
<1>. QED
    BY <1>1 DEF ProperListing, all

NodeEffect(new, node, hp, hp2, i) ==
    /\ new \in Node(hp2) /\ ListedOnce(new, hp2) /\ HasPath(new)
    /\ new.class = node.class /\ new.depth = node.depth
    /\ \E m : Continues(new, node, hp, i, m)

\* Objects of one profile agree in everything but the entries.
LEMMA ProfileIs ==
    ASSUME NEW new, NEW node, Profile(new) = Profile(node)
    PROVE  /\ new.class = node.class /\ new.valid = node.valid /\ new.loaded = node.loaded
           /\ new.path = node.path /\ new.recursive = node.recursive /\ new.depth = node.depth
<1>1. Profile(new).class = Profile(node).class /\ Profile(new).valid = Profile(node).valid
      /\ Profile(new).loaded = Profile(node).loaded /\ Profile(new).path = Profile(node).path
      /\ Profile(new).recursive = Profile(node).recursive
      /\ Profile(new).depth = Profile(node).depth
    OBVIOUS
<1>. QED
    BY <1>1 DEF Profile

\* What loadEntries() adds has every path once, and is nothing when it has run.
LEMMA NewEntriesIs ==
    ASSUME NEW hp, NEW node \in Node(hp), node.valid, HasPath(node)
    PROVE  /\ NewEntries(node) \in Seq(Entry) /\ NamedOnce(NewEntries(node))
           /\ ~Unlisted(node) => NewEntries(node) = << >>
<1>1. node.recursive \in BOOLEAN
    BY DEF Node
<1>2. CASE Unlisted(node)
    <2>1. node.path \in Name
        BY <1>2 DEF Unlisted, HasPath
    <2>. QED
        BY <1>1, <1>2, <2>1, ListingIs DEF NewEntries
<1>3. CASE ~Unlisted(node)
    BY <1>3 DEF NewEntries, NamedOnce
<1>. QED
    BY <1>2, <1>3

\* close() of one object gives up its entries and nothing else.
LEMMA ClosedNodeIs ==
    ASSUME NEW hp \in Heap, NEW hp2 \in Heap, NEW node \in Node(hp), NEW i
    PROVE  NodeEffect(ClosedNode(node), node, hp, hp2, i)
<1>. DEFINE new == ClosedNode(node)
<1>1. /\ new \in Node(hp2) /\ new.class = node.class /\ new.depth = node.depth
      /\ new.valid = FALSE /\ new.entries = << >>
    <2>. DEFINE none == << >>
                path == ""
    <2>1. none \in Seq(References(hp2)) /\ path \in Name \cup {""}
        OBVIOUS
    <2>2. new = [node EXCEPT !.valid = FALSE, !.loaded = FALSE, !.path = path, !.entries = none]
        BY DEF ClosedNode
    <2>. HIDE DEF none, path, new
    <2>3. /\ new \in Node(hp2) /\ new.class = node.class /\ new.depth = node.depth
          /\ new.valid = FALSE /\ new.entries = none
        BY <2>1, <2>2 DEF Node
    <2>. QED
        BY <2>3 DEF none
<1>. HIDE DEF new
<1>2. Continues(new, node, hp, i, 0)
    <2>1. Len(node.entries) \in Nat
        BY NodeType
    <2>. QED
        BY <1>1, <2>1 DEF Continues
<1>3. HasPath(new)
    BY <1>1 DEF HasPath
<1>4. ListedOnce(new, hp2)
    BY <1>1 DEF ListedOnce, Values
<1>. QED
    BY <1>1, <1>2, <1>3, <1>4 DEF NodeEffect, new

\* loadEntries() of one object appends the whole listing or gives the object
\* up.
LEMMA LoadEntriesIs ==
    ASSUME NEW hp \in Heap, NEW blocks \in Seq(Seq(Entry)), NEW i \in 1..Len(blocks),
           NEW node \in Node(hp), node.valid, HasPath(node), ListedOnce(node, hp),
           blocks[i] = NewEntries(node)
    PROVE  LET new == LoadEntries(node, hp, i)
               hp2 == Allocated(hp, blocks)
           IN  /\ NodeEffect(new, node, hp, hp2, i)
               /\ ~Fails(node) =>
                    /\ new.valid /\ ~Unlisted(new) /\ new.path = node.path
                    /\ Values(new, hp2) = Values(node, hp) \o NewEntries(node)
<1>. DEFINE hp2 == Allocated(hp, blocks)
            loaded == node.loaded \/ Unlisted(node)
            marked == [node EXCEPT !.loaded = loaded]
            new == LoadEntries(node, hp, i)
<1>1. hp2 \in Heap
    BY AllocatedKeeps DEF Keeps
<1>2. CASE Fails(node)
    <2>1. new = ClosedNode(node)
        BY <1>2 DEF LoadEntries, LoadFailed
    <2>. HIDE DEF new, hp2
    <2>. QED
        BY <1>1, <1>2, <2>1, ClosedNodeIs DEF new, hp2
<1>3. CASE ~Fails(node)
    <2>1. new = WithEntries(marked, hp, i, blocks[i])
        BY <1>3 DEF LoadEntries
    <2>2. /\ marked \in Node(hp) /\ marked.entries = node.entries
          /\ marked.class = node.class /\ marked.valid = node.valid
          /\ marked.path = node.path /\ marked.recursive = node.recursive
          /\ marked.depth = node.depth /\ marked.loaded = loaded
        BY DEF Node, Unlisted
    <2>3. Values(marked, hp) = Values(node, hp)
        BY <2>2 DEF Values
    <2>. HIDE DEF marked, new, hp2, loaded
    <2>4. /\ new \in Node(hp2) /\ Profile(new) = Profile(marked)
          /\ Continues(new, marked, hp, i, Len(marked.entries))
          /\ Values(new, hp2) = Values(marked, hp) \o blocks[i]
        BY <2>1, <2>2, WithEntriesIs DEF hp2
    <2>5. /\ new.class = node.class /\ new.valid = node.valid /\ new.loaded = loaded
          /\ new.path = node.path /\ new.depth = node.depth
        BY <2>2, <2>4, ProfileIs
    <2>6. Continues(new, node, hp, i, Len(node.entries))
        BY <2>2, <2>4 DEF Continues
    <2>7. HasPath(new)
        BY <2>5 DEF HasPath
    <2>8. ListedOnce(new, hp2)
        <3>1. ProperListing(node.class, node.loaded, Values(node, hp))
            BY ListedOnceIs
        <3>2. Values(node, hp) \in Seq(Entry)
            BY ValuesType
        <3>3. NewEntries(node) \in Seq(Entry) /\ NamedOnce(NewEntries(node))
            BY NewEntriesIs
        <3>. DEFINE old == Values(node, hp)
                    made == NewEntries(node)
        <3>4. ProperListing(node.class, loaded, old \o made)
            <4>1. CASE Unlisted(node)
                <5>1. loaded = TRUE /\ node.loaded = FALSE
                    BY <4>1 DEF loaded, Unlisted, Node
                <5>. HIDE DEF old, made
                <5>2. ProperListing(node.class, FALSE, old)
                    BY <3>1, <5>1 DEF old
                <5>3. ProperListing(node.class, TRUE, old \o made)
                    BY <3>2, <3>3, <5>2, ListingAdded DEF old, made
                <5>. QED
                    BY <5>1, <5>3
            <4>2. CASE ~Unlisted(node)
                <5>1. loaded = node.loaded /\ made = << >>
                    BY <4>2, NewEntriesIs DEF loaded, Node
                <5>. HIDE DEF made, old
                <5>2. old \o made = old
                    BY <3>2, <5>1, ConcatEmptySeq DEF old
                <5>. QED
                    BY <3>1, <5>1, <5>2 DEF old
            <4>. QED
                BY <4>1, <4>2
        <3>5. ProperListing(new.class, new.loaded, Values(new, hp2))
            BY <2>3, <2>4, <2>5, <3>4
        <3>. QED
            BY <1>1, <2>4, <3>5, ListedOnceIs
    <2>9. ~Unlisted(new)
        BY <2>5 DEF Unlisted, loaded
    <2>10. NodeEffect(new, node, hp, hp2, i)
        BY <2>4, <2>5, <2>6, <2>7, <2>8 DEF NodeEffect
    <2>. QED
        BY <2>3, <2>4, <2>5, <2>9, <2>10 DEF new, hp2
<1>. QED
    BY <1>2, <1>3

\* Copying an object gives it new entries with the values of the old.
LEMMA CopyEntriesIs ==
    ASSUME NEW hp \in Heap, NEW blocks \in Seq(Seq(Entry)), NEW i \in 1..Len(blocks),
           NEW node \in Node(hp), HasPath(node), ListedOnce(node, hp),
           blocks[i] = Values(node, hp)
    PROVE  LET new == CopyEntries(node, hp, i)
               hp2 == Allocated(hp, blocks)
           IN  /\ NodeEffect(new, node, hp, hp2, i)
               /\ Continues(new, node, hp, i, 0)
               /\ Profile(new) = Profile(node) /\ Values(new, hp2) = Values(node, hp)
<1>. DEFINE hp2 == Allocated(hp, blocks)
            empty == [node EXCEPT !.entries = << >>]
            new == CopyEntries(node, hp, i)
<1>1. hp2 \in Heap
    BY AllocatedKeeps DEF Keeps
<1>2. new = WithEntries(empty, hp, i, blocks[i])
    BY DEF CopyEntries
<1>3. empty \in Node(hp) /\ empty.entries = << >> /\ Profile(empty) = Profile(node)
    <2>. DEFINE none == << >>
    <2>1. none \in Seq(References(hp))
        OBVIOUS
    <2>2. empty = [node EXCEPT !.entries = none]
        OBVIOUS
    <2>. HIDE DEF none, empty
    <2>3. empty \in Node(hp) /\ empty.entries = none
        BY <2>1, <2>2 DEF Node
    <2>4. Profile(empty) = Profile(node)
        BY <2>2 DEF Node, Profile
    <2>. QED
        BY <2>3, <2>4 DEF none
<1>. HIDE DEF hp2, empty, new
<1>4. /\ new \in Node(hp2) /\ Profile(new) = Profile(empty)
      /\ Continues(new, empty, hp, i, Len(empty.entries))
      /\ Values(new, hp2) = Values(empty, hp) \o blocks[i]
    BY <1>2, <1>3, WithEntriesIs DEF hp2
<1>5. Values(new, hp2) = Values(node, hp)
    <2>1. Values(empty, hp) = << >>
        BY <1>3 DEF Values
    <2>2. Values(node, hp) \in Seq(Entry)
        BY ValuesType
    <2>. HIDE DEF Values
    <2>. QED
        BY <1>4, <2>1, <2>2, ConcatEmptySeq
<1>6. Continues(new, node, hp, i, 0)
    <2>1. Len(node.entries) \in Nat /\ Len(empty.entries) = 0
        BY <1>3, NodeType
    <2>. QED
        BY <1>4, <2>1 DEF Continues
<1>7. Profile(new) = Profile(node)
    BY <1>3, <1>4
<1>8. /\ new.class = node.class /\ new.valid = node.valid /\ new.loaded = node.loaded
      /\ new.path = node.path /\ new.depth = node.depth
    BY <1>7, ProfileIs
<1>9. ListedOnce(new, hp2)
    BY <1>1, <1>4, <1>5, <1>8, ListedOnceIs
<1>10. HasPath(new)
    BY <1>8 DEF HasPath
<1>11. NodeEffect(new, node, hp, hp2, i)
    BY <1>4, <1>6, <1>8, <1>9, <1>10 DEF NodeEffect
<1>. QED
    BY <1>5, <1>6, <1>7, <1>11 DEF new, hp2

\* An object that a call leaves alone.
LEMMA LeftAlone ==
    ASSUME NEW hp \in Heap, NEW hp2, NEW S, Keeps(hp, hp2, S), NEW node \in Node(hp),
           \A j \in 1..Len(node.entries) : node.entries[j] \notin S,
           HasPath(node), ListedOnce(node, hp), NEW i
    PROVE  /\ NodeEffect(node, node, hp, hp2, i)
           /\ Values(node, hp2) = Values(node, hp)
<1>1. node \in Node(hp2) /\ Values(node, hp2) = Values(node, hp)
    BY NodeKept
<1>2. ListedOnce(node, hp2)
    BY <1>1 DEF ListedOnce
<1>3. Continues(node, node, hp, i, Len(node.entries))
    BY NodeType DEF Continues
<1>. QED
    BY <1>1, <1>2, <1>3 DEF NodeEffect

-----------------------------------------------------------------------------
(* What a call makes of a collection. *)

Nodes(hp) == Seq(Node(hp))

\* The references in a collection.
Holds(c) == UNION {{c[i].entries[j] : j \in 1..Len(c[i].entries)} : i \in 1..Len(c)}

\* No reference is in it twice.
Private(c) ==
    \A i, k \in 1..Len(c) : \A j \in 1..Len(c[i].entries), l \in 1..Len(c[k].entries) :
        c[i].entries[j] = c[k].entries[l] => i = k /\ j = l

\* In a private collection one entry has one place.
LEMMA PrivateIs ==
    ASSUME NEW c, Private(c), NEW i \in 1..Len(c), NEW k \in 1..Len(c),
           NEW j \in 1..Len(c[i].entries), NEW l \in 1..Len(c[k].entries),
           c[i].entries[j] = c[k].entries[l]
    PROVE  i = k /\ j = l
BY Zenon DEF Private

\* Equal references have equal parts.
LEMMA TupleIs ==
    ASSUME NEW x, NEW i, NEW k, NEW j, NEW l, << x, i, j >> = << x, k, l >>
    PROVE  i = k /\ j = l
OBVIOUS

Sound(c, hp) ==
    /\ hp \in Heap /\ c \in Nodes(hp) /\ Private(c)
    /\ \A i \in 1..Len(c) : HasPath(c[i]) /\ ListedOnce(c[i], hp)

\* The objects are the same, and so are the entries that are in no object of
\* the collection; what the collection has got is new.
Effect(c, hp, d, hp2) ==
    /\ Sound(d, hp2)
    /\ Len(d) = Len(c)
    /\ \A i \in 1..Len(c) : d[i].class = c[i].class /\ d[i].depth = c[i].depth
    /\ Keeps(hp, hp2, Holds(c))
    /\ \A ref \in Holds(d) : ref \in Holds(c) \/ ref \notin References(hp)

\* The entries that a collection holds are those of its objects.
LEMMA HoldsIs ==
    ASSUME NEW c, NEW ref
    PROVE  ref \in Holds(c) <=>
            \E i \in 1..Len(c) : \E j \in 1..Len(c[i].entries) : ref = c[i].entries[j]
BY DEF Holds

\* What soundness says of each object and each entry.
LEMMA SoundNodes ==
    ASSUME NEW c, NEW hp, Sound(c, hp)
    PROVE  /\ hp \in Heap /\ Len(c) \in Nat /\ DOMAIN c = 1..Len(c)
           /\ \A i \in 1..Len(c) :
                /\ c[i] \in Node(hp) /\ HasPath(c[i]) /\ ListedOnce(c[i], hp)
                /\ \A j \in 1..Len(c[i].entries) :
                    c[i].entries[j] \in References(hp) /\ c[i].entries[j] \in Holds(c)
<1>. DEFINE X == Node(hp)
<1>1. c \in Seq(X)
    BY DEF Sound, Nodes
<1>. HIDE DEF X
<1>2. Len(c) \in Nat /\ DOMAIN c = 1..Len(c) /\ \A i \in 1..Len(c) : c[i] \in X
    BY <1>1
<1>3. ASSUME NEW i \in 1..Len(c), NEW j \in 1..Len(c[i].entries)
      PROVE  c[i].entries[j] \in References(hp) /\ c[i].entries[j] \in Holds(c)
    BY <1>2, NodeType, HoldsIs DEF X
<1>. QED
    BY <1>2, <1>3 DEF Sound, X

\* A sound collection holds only entries that exist.
LEMMA HeldExists ==
    ASSUME NEW c, NEW hp, Sound(c, hp), NEW ref \in Holds(c)
    PROVE  ref \in References(hp)
BY SoundNodes, HoldsIs

\* Doing nothing is an effect a call may have.
LEMMA NoEffect ==
    ASSUME NEW c, NEW hp, Sound(c, hp)
    PROVE  Effect(c, hp, c, hp)
<1>1. Keeps(hp, hp, Holds(c))
    <2>1. hp \in Seq(Seq(Seq(Entry)))
        BY DEF Sound, Heap
    <2>2. Len(hp) \in Nat
        BY <2>1
    <2>. QED
        BY <2>2 DEF Keeps, Sound
<1>. QED
    BY <1>1 DEF Effect

\* Two calls in a row have such an effect together.
LEMMA EffectOnEffect ==
    ASSUME NEW c, NEW hp, NEW d, NEW hp2, NEW e, NEW hp3,
           Effect(c, hp, d, hp2), Effect(d, hp2, e, hp3)
    PROVE  Effect(c, hp, e, hp3)
<1>1. Keeps(hp, hp2, Holds(c)) /\ Keeps(hp2, hp3, Holds(d))
    BY DEF Effect
<1>2. \A ref \in Holds(d) : ref \in Holds(c) \/ ref \notin References(hp)
    BY DEF Effect
<1>3. \A ref \in Holds(e) : ref \in Holds(d) \/ ref \notin References(hp2)
    BY DEF Effect
<1>4. Keeps(hp, hp3, Holds(c))
    <2>1. hp \in Heap /\ hp3 \in Heap /\ References(hp) \subseteq References(hp3)
        BY <1>1 DEF Keeps
    <2>2. Len(hp) <= Len(hp3)
        <3>1. Len(hp) <= Len(hp2) /\ Len(hp2) <= Len(hp3)
            BY <1>1 DEF Keeps
        <3>2. hp \in Seq(Seq(Seq(Entry))) /\ hp2 \in Seq(Seq(Seq(Entry)))
              /\ hp3 \in Seq(Seq(Seq(Entry)))
            BY <1>1 DEF Keeps, Heap
        <3>3. Len(hp) \in Nat /\ Len(hp2) \in Nat /\ Len(hp3) \in Nat
            BY <3>2
        <3>. QED
            BY <3>1, <3>3
    <2>3. ASSUME NEW ref \in References(hp), ref \notin Holds(c) PROVE At(hp3, ref) = At(hp, ref)
        <3>1. At(hp2, ref) = At(hp, ref) /\ ref \in References(hp2)
            BY <1>1, <2>3 DEF Keeps
        <3>2. ref \notin Holds(d)
            BY <1>2, <2>3
        <3>. QED
            BY <1>1, <3>1, <3>2 DEF Keeps
    <2>. QED
        BY <2>1, <2>2, <2>3 DEF Keeps
<1>5. \A ref \in Holds(e) : ref \in Holds(c) \/ ref \notin References(hp)
    BY <1>1, <1>2, <1>3 DEF Keeps
<1>6. /\ Len(e) = Len(c)
      /\ \A i \in 1..Len(c) : e[i].class = c[i].class /\ e[i].depth = c[i].depth
    BY DEF Effect
<1>. QED
    BY <1>4, <1>5, <1>6 DEF Effect

\* A call that only makes entries.
LEMMA Grown ==
    ASSUME NEW c, NEW hp, Sound(c, hp), NEW hp2, Keeps(hp, hp2, {}),
           NEW d, DOMAIN d = 1..Len(d), Len(d) = Len(c), d \in Seq(Node(hp2)),
           \A i \in 1..Len(c) : NodeEffect(d[i], c[i], hp, hp2, i)
    PROVE  Effect(c, hp, d, hp2)
<1>1. /\ hp \in Heap /\ Len(c) \in Nat
      /\ \A i \in 1..Len(c) :
            /\ c[i] \in Node(hp)
            /\ \A j \in 1..Len(c[i].entries) :
                c[i].entries[j] \in References(hp) /\ c[i].entries[j] \in Holds(c)
    BY SoundNodes
<1>2. Len(hp) \in Nat
    <2>1. hp \in Seq(Seq(Seq(Entry)))
        BY <1>1 DEF Heap
    <2>. QED
        BY <2>1
<1>3. ASSUME NEW ref, ref[1] = Len(hp) + 1 PROVE ref \notin References(hp)
    <2>1. SUFFICES ASSUME ref \in References(hp) PROVE FALSE
        OBVIOUS
    <2>2. ref[1] \in 1..Len(hp)
        BY <1>1, <2>1, ReferenceIs
    <2>. QED
        BY <1>2, <1>3, <2>2
<1>4. ASSUME NEW i \in 1..Len(c), NEW j \in 1..Len(d[i].entries)
      PROVE  \/ /\ j \in 1..Len(c[i].entries) /\ d[i].entries[j] = c[i].entries[j]
                /\ d[i].entries[j] \in References(hp) /\ d[i].entries[j] \in Holds(c)
             \/ /\ d[i].entries[j] \notin References(hp)
                /\ \E m \in Nat : /\ Continues(d[i], c[i], hp, i, m)
                                  /\ d[i].entries[j] = << Len(hp) + 1, i, j - m >>
    <2>1. PICK m : Continues(d[i], c[i], hp, i, m)
        BY DEF NodeEffect
    <2>2. m \in Nat /\ m <= Len(c[i].entries) /\ Len(c[i].entries) \in Nat
        BY <1>1, <2>1, NodeType DEF Continues
    <2>3. d[i].entries[j] = IF j <= m THEN c[i].entries[j] ELSE << Len(hp) + 1, i, j - m >>
        BY <2>1 DEF Continues
    <2>4. CASE j <= m
        <3>1. j \in 1..Len(c[i].entries)
            BY <2>2, <2>4
        <3>. QED
            BY <1>1, <2>3, <2>4, <3>1
    <2>5. CASE ~(j <= m)
        <3>1. d[i].entries[j] = << Len(hp) + 1, i, j - m >>
            BY <2>3, <2>5
        <3>2. d[i].entries[j] \notin References(hp)
            BY <1>3, <3>1
        <3>. QED
            BY <2>1, <2>2, <3>1, <3>2
    <2>. QED
        BY <2>4, <2>5
<1>5. ASSUME NEW i \in 1..Len(c), NEW k \in 1..Len(c),
             NEW j \in 1..Len(d[i].entries), NEW l \in 1..Len(d[k].entries),
             d[i].entries[j] = d[k].entries[l]
      PROVE  i = k /\ j = l
    <2>1. CASE d[i].entries[j] \in References(hp)
        <3>1. j \in 1..Len(c[i].entries) /\ d[i].entries[j] = c[i].entries[j]
            BY <1>4, <2>1
        <3>2. l \in 1..Len(c[k].entries) /\ d[k].entries[l] = c[k].entries[l]
            BY <1>4, <1>5, <2>1
        <3>3. Private(c)
            BY DEF Sound
        <3>4. c[i].entries[j] = c[k].entries[l]
            BY <1>5, <3>1, <3>2, Zenon
        <3>5. \A x \in 1..Len(c[i].entries), y \in 1..Len(c[k].entries) :
                c[i].entries[x] = c[k].entries[y] => i = k /\ x = y
            BY <3>3, Zenon DEF Private
        <3>. QED
            BY <3>1, <3>2, <3>4, <3>5, Zenon
    <2>2. CASE d[i].entries[j] \notin References(hp)
        <3>1. PICK m \in Nat : /\ Continues(d[i], c[i], hp, i, m)
                               /\ d[i].entries[j] = << Len(hp) + 1, i, j - m >>
            BY <1>4, <2>2
        <3>2. PICK n \in Nat : /\ Continues(d[k], c[k], hp, k, n)
                               /\ d[k].entries[l] = << Len(hp) + 1, k, l - n >>
            BY <1>4, <1>5, <2>2
        <3>3. i = k /\ j - m = l - n
            <4>1. << Len(hp) + 1, i, j - m >> = << Len(hp) + 1, k, l - n >>
                BY <1>5, <3>1, <3>2, Zenon
            <4>. QED
                BY <4>1, TupleIs, Zenon
        <3>4. ~(j <= m) /\ ~(l <= n)
            <4>1. CASE j <= m
                <5>1. j \in 1..Len(c[i].entries) /\ d[i].entries[j] = c[i].entries[j]
                    <6>1. Len(c[i].entries) \in Nat /\ m <= Len(c[i].entries)
                        BY <1>1, <3>1, NodeType DEF Continues
                    <6>2. d[i].entries[j] = c[i].entries[j]
                        BY <3>1, <4>1 DEF Continues
                    <6>. QED
                        BY <4>1, <6>1, <6>2
                <5>. QED
                    BY <1>1, <2>2, <5>1
            <4>2. CASE l <= n
                <5>1. l \in 1..Len(c[k].entries) /\ d[k].entries[l] = c[k].entries[l]
                    <6>1. Len(c[k].entries) \in Nat /\ n <= Len(c[k].entries)
                        BY <1>1, <3>2, NodeType DEF Continues
                    <6>2. d[k].entries[l] = c[k].entries[l]
                        BY <3>2, <4>2 DEF Continues
                    <6>. QED
                        BY <4>2, <6>1, <6>2
                <5>. QED
                    BY <1>1, <1>5, <2>2, <5>1
            <4>. QED
                BY <4>1, <4>2
        <3>5. d[i].entries[l] = << Len(hp) + 1, i, l - m >>
            <4>1. CASE l <= m
                <5>1. m <= Len(c[i].entries) /\ Len(c[i].entries) \in Nat
                    BY <1>1, <3>1, NodeType DEF Continues
                <5>2. l \in 1..Len(d[i].entries) /\ i = k
                    BY <3>3
                <5>3. d[i].entries[l] = c[i].entries[l]
                    BY <3>1, <4>1, <5>2 DEF Continues
                <5>4. l \in 1..Len(c[i].entries)
                    BY <4>1, <5>1, <5>2
                <5>. QED
                    BY <1>1, <1>5, <2>2, <3>3, <5>3, <5>4
            <4>2. CASE ~(l <= m)
                BY <3>1, <3>3, <4>2 DEF Continues
            <4>. QED
                BY <4>1, <4>2
        <3>6. j - m = l - m
            <4>1. << Len(hp) + 1, i, j - m >> = << Len(hp) + 1, i, l - m >>
                BY <1>5, <3>1, <3>3, <3>5, Zenon
            <4>. QED
                BY <4>1, TupleIs, Zenon
        <3>. QED
            BY <3>3, <3>6
    <2>. QED
        BY <2>1, <2>2
<1>6. Private(d)
    BY <1>5 DEF Private
<1>7. ASSUME NEW ref \in Holds(d) PROVE ref \in Holds(c) \/ ref \notin References(hp)
    <2>1. PICK i \in 1..Len(d) : \E j \in 1..Len(d[i].entries) : ref = d[i].entries[j]
        BY HoldsIs
    <2>2. PICK j \in 1..Len(d[i].entries) : ref = d[i].entries[j]
        BY <2>1
    <2>. QED
        BY <1>4, <2>2
<1>8. hp2 \in Heap /\ Keeps(hp, hp2, Holds(c))
    BY DEF Keeps
<1>9. /\ \A i \in 1..Len(c) : d[i].class = c[i].class /\ d[i].depth = c[i].depth
      /\ \A i \in 1..Len(d) : HasPath(d[i]) /\ ListedOnce(d[i], hp2)
    BY DEF NodeEffect
<1>10. Sound(d, hp2)
    BY <1>6, <1>8, <1>9 DEF Sound, Nodes
<1>. QED
    BY <1>7, <1>8, <1>9, <1>10 DEF Effect

\* The objects from a on, up to b.
LEMMA PartIs ==
    ASSUME NEW c, NEW hp, Sound(c, hp), NEW a \in 1..Len(c), NEW b \in a..Len(c)
    PROVE  /\ Sound(SubSeq(c, a, b), hp)
           /\ Len(SubSeq(c, a, b)) = b - a + 1
           /\ \A i \in 1..b - a + 1 : SubSeq(c, a, b)[i] = c[a + i - 1]
<1>. DEFINE d == SubSeq(c, a, b)
            X == Node(hp)
            n == b - a + 1
<1>1. /\ Len(c) \in Nat /\ hp \in Heap /\ Private(c)
      /\ \A i \in 1..Len(c) : c[i] \in X /\ HasPath(c[i]) /\ ListedOnce(c[i], hp)
    BY SoundNodes DEF Sound
<1>2. n \in Nat /\ \A i \in 1..n : a + i - 1 \in 1..Len(c)
    BY <1>1
<1>3. c \in Seq(X)
    BY DEF Sound, Nodes
<1>. HIDE DEF X
<1>5. d \in Seq(X) /\ Len(d) = n /\ \A i \in 1..n : d[i] = c[a + i - 1]
    <2>1. a \in 1..Len(c) + 1 /\ b \in a - 1..Len(c)
        BY <1>1
    <2>2. d \in Seq(X) /\ Len(d) = b - a + 1 /\ \A i \in 1..b - a + 1 : d[i] = c[a + i - 1]
        <3>1. Len(d) = IF a <= b THEN b - a + 1 ELSE 0
            BY <1>3, <2>1, SubSeqProperties
        <3>2. d \in Seq(X)
            BY <1>3, <2>1, SubSeqProperties
        <3>3. \A i \in 1..b - a + 1 : d[i] = c[a + i - 1]
            BY <1>3, <2>1, SubSeqProperties, SMTT(20)
        <3>4. a <= b
            BY <1>1
        <3>. QED
            BY <3>1, <3>2, <3>3, <3>4
    <2>. QED
        BY <2>2
<1>. HIDE DEF d, n
<1>6. Private(d)
    <2>1. ASSUME NEW i \in 1..n, NEW k \in 1..n,
                 NEW j \in 1..Len(d[i].entries), NEW l \in 1..Len(d[k].entries),
                 d[i].entries[j] = d[k].entries[l]
          PROVE  i = k /\ j = l
        <3>1. /\ a + i - 1 \in 1..Len(c) /\ d[i] = c[a + i - 1]
              /\ a + k - 1 \in 1..Len(c) /\ d[k] = c[a + k - 1]
            BY <1>2, <1>5
        <3>. DEFINE ii == a + i - 1
                    kk == a + k - 1
        <3>2. ii = kk /\ j = l
            <4>1. c[ii].entries[j] = c[kk].entries[l]
                BY <2>1, <3>1, Zenon
            <4>2. j \in 1..Len(c[ii].entries) /\ l \in 1..Len(c[kk].entries)
                BY <3>1, Zenon
            <4>3. ii \in 1..Len(c) /\ kk \in 1..Len(c) /\ Private(c)
                BY <1>1, <3>1
            <4>. HIDE DEF ii, kk
            <4>. QED
                BY <4>1, <4>2, <4>3, PrivateIs
        <3>. QED
            BY <1>2, <3>2
    <2>. QED
        BY <1>5, <2>1 DEF Private
<1>7. \A i \in 1..n : HasPath(d[i]) /\ ListedOnce(d[i], hp)
    BY <1>1, <1>2, <1>5
<1>. QED
    BY <1>1, <1>5, <1>6, <1>7 DEF Sound, Nodes, X, d, n

-----------------------------------------------------------------------------
(* The calls that look for entries. *)

\* What keeps the number, the classes and the depths of the objects keeps a
\* tree.
LEMMA TreeKept ==
    ASSUME NEW c, NEW d, IsTree(c), Len(c) \in Nat, Len(d) = Len(c),
           \A i \in 1..Len(c) : d[i].class = c[i].class /\ d[i].depth = c[i].depth
    PROVE  IsTree(d)
<1>1. Len(d) > 0 /\ 1 \in 1..Len(c) /\ d[1].depth = 0
    BY DEF IsTree
<1>2. ASSUME NEW i \in 2..Len(d)
      PROVE  /\ d[i].depth \in 1..d[i - 1].depth + 1
             /\ d[i].depth > d[i - 1].depth => d[i - 1].class = "CollectionCollection"
    <2>. DEFINE k == i - 1
    <2>1. i \in 1..Len(c) /\ k \in 1..Len(c) /\ i \in 2..Len(c)
        OBVIOUS
    <2>2. /\ c[i].depth \in 1..c[k].depth + 1
          /\ c[i].depth > c[k].depth => c[k].class = "CollectionCollection"
        BY <2>1 DEF IsTree
    <2>. HIDE DEF k
    <2>3. /\ d[i].depth = c[i].depth /\ d[k].depth = c[k].depth /\ d[k].class = c[k].class
        BY <2>1
    <2>4. /\ d[i].depth \in 1..d[k].depth + 1
          /\ d[i].depth > d[k].depth => d[k].class = "CollectionCollection"
        BY <2>2, <2>3
    <2>. QED
        BY <2>4 DEF k
<1>. QED
    BY <1>1, <1>2 DEF IsTree

\* e takes the place of the objects from a to b.
Replaced(c, a, b, e) == [i \in DOMAIN c |-> IF i \in a..b THEN e[i - a + 1] ELSE c[i]]

\* What is done to a part of a collection is done to the collection.
LEMMA PartEffect ==
    ASSUME NEW c, NEW hp, Sound(c, hp), NEW a \in 1..Len(c), NEW b \in a..Len(c),
           NEW e, NEW hp2, Effect(SubSeq(c, a, b), hp, e, hp2)
    PROVE  Effect(c, hp, Replaced(c, a, b, e), hp2)
<1>. DEFINE s == SubSeq(c, a, b)
            n == b - a + 1
            d == Replaced(c, a, b, e)
<1>1. /\ hp \in Heap /\ Len(c) \in Nat /\ DOMAIN c = 1..Len(c)
      /\ \A i \in 1..Len(c) :
            /\ c[i] \in Node(hp) /\ HasPath(c[i]) /\ ListedOnce(c[i], hp)
            /\ \A j \in 1..Len(c[i].entries) :
                c[i].entries[j] \in References(hp) /\ c[i].entries[j] \in Holds(c)
    BY SoundNodes
<1>2. n \in Nat /\ \A i \in a..b : i \in 1..Len(c) /\ i - a + 1 \in 1..n /\ a + (i - a + 1) - 1 = i
    BY <1>1
<1>3. Len(s) = n /\ \A i \in 1..n : s[i] = c[a + i - 1]
    BY PartIs
<1>. HIDE DEF s, n
<1>4. /\ Sound(e, hp2) /\ Len(e) = n /\ Keeps(hp, hp2, Holds(s))
      /\ \A i \in 1..n : e[i].class = s[i].class /\ e[i].depth = s[i].depth
      /\ \A ref \in Holds(e) : ref \in Holds(s) \/ ref \notin References(hp)
    BY <1>3 DEF Effect, s
<1>5. /\ hp2 \in Heap
      /\ \A i \in 1..n :
            /\ e[i] \in Node(hp2) /\ HasPath(e[i]) /\ ListedOnce(e[i], hp2)
            /\ \A j \in 1..Len(e[i].entries) : e[i].entries[j] \in Holds(e)
    BY <1>4, SoundNodes
<1>6. ASSUME NEW ref \in Holds(s)
      PROVE  \E i \in a..b : \E j \in 1..Len(c[i].entries) : ref = c[i].entries[j]
    <2>1. PICK i \in 1..n : \E j \in 1..Len(s[i].entries) : ref = s[i].entries[j]
        BY <1>3, HoldsIs
    <2>2. s[i] = c[a + i - 1] /\ a + i - 1 \in a..b
        BY <1>1, <1>2, <1>3 DEF n
    <2>. QED
        BY <2>1, <2>2
<1>7. Holds(s) \subseteq Holds(c)
    <2>1. \A i \in a..b : i \in 1..Len(c)
        BY <1>2
    <2>. QED
        BY <1>1, <1>6, <2>1
<1>8. Private(c) /\ Private(e)
    BY <1>4 DEF Sound
<1>9. ASSUME NEW i \in 1..Len(c), i \notin a..b
      PROVE  \A j \in 1..Len(c[i].entries) : c[i].entries[j] \notin Holds(s)
    <2>1. SUFFICES ASSUME NEW j \in 1..Len(c[i].entries), c[i].entries[j] \in Holds(s)
                   PROVE  FALSE
        OBVIOUS
    <2>2. PICK k \in a..b : \E l \in 1..Len(c[k].entries) : c[i].entries[j] = c[k].entries[l]
        BY <1>6, <2>1
    <2>3. PICK l \in 1..Len(c[k].entries) : c[i].entries[j] = c[k].entries[l]
        BY <2>2
    <2>4. k \in 1..Len(c)
        BY <1>2
    <2>5. i = k
        BY <1>8, <2>3, <2>4, PrivateIs
    <2>. QED
        BY <1>9, <2>5
<1>10. ASSUME NEW i \in 1..Len(c), i \notin a..b
       PROVE  c[i] \in Node(hp2) /\ HasPath(c[i]) /\ ListedOnce(c[i], hp2)
    <2>1. \A j \in 1..Len(c[i].entries) : c[i].entries[j] \notin Holds(s)
        BY <1>9, <1>10
    <2>2. NodeEffect(c[i], c[i], hp, hp2, i)
        BY <1>1, <1>4, <2>1, LeftAlone
    <2>. QED
        BY <2>2 DEF NodeEffect
<1>11. /\ DOMAIN d = 1..Len(c)
       /\ \A i \in 1..Len(c) : d[i] = IF i \in a..b THEN e[i - a + 1] ELSE c[i]
    BY <1>1 DEF Replaced
<1>0. d = [i \in 1..Len(c) |-> d[i]]
    BY <1>1 DEF Replaced
<1>. HIDE DEF d
<1>12. ASSUME NEW i \in 1..Len(c)
       PROVE  /\ d[i] \in Node(hp2) /\ HasPath(d[i]) /\ ListedOnce(d[i], hp2)
              /\ d[i].class = c[i].class /\ d[i].depth = c[i].depth
    <2>1. CASE i \in a..b
        <3>. DEFINE k == i - a + 1
        <3>1. k \in 1..n /\ a + k - 1 = i /\ d[i] = e[k]
            BY <1>2, <1>11, <2>1
        <3>. HIDE DEF k
        <3>2. s[k] = c[i]
            BY <1>3, <3>1
        <3>. QED
            BY <1>4, <1>5, <3>1, <3>2
    <2>2. CASE i \notin a..b
        BY <1>10, <1>11, <2>2
    <2>. QED
        BY <2>1, <2>2
<1>13. d \in Seq(Node(hp2)) /\ Len(d) = Len(c)
    <2>. DEFINE X == Node(hp2)
    <2>1. \A i \in 1..Len(c) : d[i] \in X
        BY <1>12
    <2>. HIDE DEF X
    <2>3. d \in Seq(X) /\ Len(d) = Len(c)
        BY <1>0, <1>1, <2>1
    <2>. QED
        BY <2>3 DEF X
<1>14. ASSUME NEW i \in 1..Len(c), NEW k \in 1..Len(c), i \in a..b, k \notin a..b,
              NEW j \in 1..Len(d[i].entries), NEW l \in 1..Len(d[k].entries)
       PROVE  d[i].entries[j] # d[k].entries[l]
    <2>1. d[i].entries[j] \in Holds(s) \/ d[i].entries[j] \notin References(hp)
        <3>. DEFINE m == i - a + 1
        <3>1. m \in 1..n /\ d[i] = e[m]
            BY <1>2, <1>11, <1>14
        <3>. HIDE DEF m
        <3>2. d[i].entries[j] \in Holds(e)
            BY <1>5, <3>1
        <3>. QED
            BY <1>4, <3>2
    <2>2. d[k] = c[k]
        BY <1>11, <1>14
    <2>3. d[k].entries[l] \notin Holds(s) /\ d[k].entries[l] \in References(hp)
        BY <1>1, <1>9, <1>14, <2>2
    <2>. QED
        BY <2>1, <2>3
<1>15. ASSUME NEW i \in 1..Len(c), NEW k \in 1..Len(c),
              NEW j \in 1..Len(d[i].entries), NEW l \in 1..Len(d[k].entries),
              d[i].entries[j] = d[k].entries[l]
       PROVE  i = k /\ j = l
    <2>1. CASE i \in a..b /\ k \in a..b
        <3>. DEFINE ii == i - a + 1
                    kk == k - a + 1
        <3>1. ii \in 1..n /\ d[i] = e[ii] /\ kk \in 1..n /\ d[k] = e[kk]
            BY <1>2, <1>11, <2>1
        <3>2. i \in Int /\ k \in Int /\ a \in Int /\ (ii = kk => i = k)
            BY <1>1
        <3>. HIDE DEF ii, kk
        <3>3. j \in 1..Len(e[ii].entries) /\ l \in 1..Len(e[kk].entries)
              /\ e[ii].entries[j] = e[kk].entries[l]
            BY <1>15, <3>1
        <3>4. ii \in 1..Len(e) /\ kk \in 1..Len(e)
            BY <1>4, <3>1
        <3>5. ii = kk /\ j = l
            <4>1. Private(e)
                BY <1>8
            <4>2. \A x \in 1..Len(e[ii].entries), y \in 1..Len(e[kk].entries) :
                    e[ii].entries[x] = e[kk].entries[y] => ii = kk /\ x = y
                BY <3>4, <4>1, Zenon DEF Private
            <4>. QED
                BY <3>3, <4>2, Zenon
        <3>. QED
            BY <3>2, <3>5
    <2>2. CASE i \notin a..b /\ k \notin a..b
        <3>1. d[i] = c[i] /\ d[k] = c[k]
            BY <1>11, <2>2
        <3>2. j \in 1..Len(c[i].entries) /\ l \in 1..Len(c[k].entries)
              /\ c[i].entries[j] = c[k].entries[l]
            BY <1>15, <3>1
        <3>3. \A x \in 1..Len(c[i].entries), y \in 1..Len(c[k].entries) :
                c[i].entries[x] = c[k].entries[y] => i = k /\ x = y
            BY <1>8, Zenon DEF Private
        <3>. QED
            BY <3>2, <3>3, Zenon
    <2>. HIDE DEF d
    <2>3. CASE i \in a..b /\ k \notin a..b
        BY <1>14, <1>15, <2>3
    <2>4. CASE i \notin a..b /\ k \in a..b
        <3>1. d[k].entries[l] # d[i].entries[j]
            BY <1>14, <1>15, <2>4
        <3>. QED
            BY <1>15, <3>1
    <2>. QED
        BY <2>1, <2>2, <2>3, <2>4
<1>16. Private(d)
    BY <1>13, <1>15 DEF Private
<1>17. Sound(d, hp2)
    BY <1>5, <1>12, <1>13, <1>16 DEF Sound, Nodes
<1>18. Keeps(hp, hp2, Holds(c))
    BY <1>4, <1>7 DEF Keeps
<1>19. ASSUME NEW ref \in Holds(d) PROVE ref \in Holds(c) \/ ref \notin References(hp)
    <2>1. PICK i \in 1..Len(c) : \E j \in 1..Len(d[i].entries) : ref = d[i].entries[j]
        BY <1>13, HoldsIs
    <2>2. PICK j \in 1..Len(d[i].entries) : ref = d[i].entries[j]
        BY <2>1
    <2>3. CASE i \in a..b
        <3>. DEFINE m == i - a + 1
        <3>1. m \in 1..n /\ d[i] = e[m]
            BY <1>2, <1>11, <2>3
        <3>. HIDE DEF m
        <3>2. ref \in Holds(e)
            BY <1>5, <2>2, <3>1
        <3>. QED
            BY <1>4, <1>7, <3>2
    <2>4. CASE i \notin a..b
        BY <1>1, <1>11, <2>2, <2>4
    <2>. QED
        BY <2>3, <2>4
<1>. QED
    BY <1>12, <1>13, <1>17, <1>18, <1>19 DEF Effect, d

\* Asking the first n objects lists each of them, unless it fails, and leaves
\* the others.
LEMMA AskedIs ==
    ASSUME NEW c, NEW hp, Sound(c, hp), Usable(c), NEW n \in 0..Len(c)
    PROVE  LET r == Asked(c, hp, n)
           IN  /\ Effect(c, hp, r.c, r.heap)
               /\ \A i \in 1..Len(c) :
                    /\ i <= n /\ ~Fails(c[i]) =>
                        /\ r.c[i].valid /\ ~Unlisted(r.c[i]) /\ r.c[i].path = c[i].path
                        /\ Values(r.c[i], r.heap) = Values(c[i], hp) \o NewEntries(c[i])
                    /\ i > n => /\ r.c[i] = c[i]
                                /\ Values(c[i], r.heap) = Values(c[i], hp)
<1>. DEFINE r == Asked(c, hp, n)
            d == [i \in DOMAIN c |-> IF i <= n THEN LoadEntries(c[i], hp, i) ELSE c[i]]
            blocks == [i \in DOMAIN c |-> IF i <= n THEN NewEntries(c[i]) ELSE << >>]
            hp2 == Allocated(hp, blocks)
<1>1. r.c = d /\ r.heap = hp2
    BY DEF Asked
<1>2. /\ hp \in Heap /\ Len(c) \in Nat /\ DOMAIN c = 1..Len(c)
      /\ \A i \in 1..Len(c) : c[i] \in Node(hp) /\ HasPath(c[i]) /\ ListedOnce(c[i], hp)
    BY SoundNodes
<1>3. \A i \in 1..Len(c) : c[i].valid
    BY <1>2 DEF Usable
<1>4. blocks \in Seq(Seq(Entry)) /\ Len(blocks) = Len(c)
    <2>1. \A i \in 1..Len(c) : NewEntries(c[i]) \in Seq(Entry)
        BY <1>2, <1>3, NewEntriesIs
    <2>. DEFINE none == << >>
    <2>2. none \in Seq(Entry)
        OBVIOUS
    <2>. HIDE DEF none
    <2>3. \A i \in 1..Len(c) : (IF i <= n THEN NewEntries(c[i]) ELSE none) \in Seq(Entry)
        BY <2>1, <2>2
    <2>. DEFINE B == Seq(Entry)
                b(i) == IF i <= n THEN NewEntries(c[i]) ELSE none
    <2>4. \A i \in 1..Len(c) : b(i) \in B
        BY <2>3
    <2>5. blocks = [i \in 1..Len(c) |-> b(i)]
        BY <1>2 DEF none
    <2>. HIDE DEF B, b, blocks
    <2>6. blocks \in Seq(B) /\ Len(blocks) = Len(c)
        BY <1>2, <2>4, <2>5
    <2>. QED
        BY <2>6 DEF B
<1>5. \A i \in 1..Len(c) : blocks[i] = IF i <= n THEN NewEntries(c[i]) ELSE << >>
    BY <1>2
<1>6. \A i \in 1..Len(c) : d[i] = IF i <= n THEN LoadEntries(c[i], hp, i) ELSE c[i]
    BY <1>2
<1>7. DOMAIN d = 1..Len(c)
    BY <1>2
<1>. HIDE DEF d, blocks
<1>8. Keeps(hp, hp2, {})
    BY <1>2, <1>4, AllocatedKeeps
<1>9. ASSUME NEW i \in 1..Len(c), i <= n
      PROVE  /\ NodeEffect(d[i], c[i], hp, hp2, i)
             /\ ~Fails(c[i]) =>
                    /\ d[i].valid /\ ~Unlisted(d[i]) /\ d[i].path = c[i].path
                    /\ Values(d[i], hp2) = Values(c[i], hp) \o NewEntries(c[i])
    <2>1. i \in 1..Len(blocks) /\ blocks[i] = NewEntries(c[i]) /\ d[i] = LoadEntries(c[i], hp, i)
        BY <1>4, <1>5, <1>6, <1>9
    <2>. QED
        BY <1>2, <1>3, <1>4, <2>1, LoadEntriesIs
<1>10. ASSUME NEW i \in 1..Len(c), ~(i <= n)
       PROVE  /\ NodeEffect(d[i], c[i], hp, hp2, i)
              /\ d[i] = c[i] /\ Values(c[i], hp2) = Values(c[i], hp)
    <2>1. d[i] = c[i]
        BY <1>6, <1>10
    <2>. QED
        BY <1>2, <1>8, <2>1, LeftAlone
<1>. HIDE DEF hp2
<1>11. \A i \in 1..Len(c) : NodeEffect(d[i], c[i], hp, hp2, i)
    BY <1>9, <1>10
<1>12. d \in Seq(Node(hp2)) /\ Len(d) = Len(c)
    <2>. DEFINE X == Node(hp2)
    <2>1. \A i \in 1..Len(c) : d[i] \in X
        BY <1>11 DEF NodeEffect
    <2>. HIDE DEF X
    <2>2. d = [i \in 1..Len(c) |-> d[i]]
        BY <1>7 DEF d
    <2>3. d \in Seq(X) /\ Len(d) = Len(c)
        BY <1>2, <2>1, <2>2
    <2>. QED
        BY <2>3 DEF X
<1>13. Effect(c, hp, d, hp2)
    BY <1>7, <1>8, <1>11, <1>12, Grown
<1>14. \A i \in 1..Len(c) : i > n => ~(i <= n)
    BY <1>2
<1>. QED
    BY <1>1, <1>9, <1>10, <1>13, <1>14

\* FirstOf(S, n) is in 1..n when S is part of 1..n, which is not empty.
LEMMA FirstOfBetween ==
    ASSUME NEW n \in Nat, n > 0, NEW S, S \subseteq 1..n
    PROVE  FirstOf(S, n) \in 1..n
<1>1. S \subseteq Nat
    OBVIOUS
<1>2. CASE S = {}
    BY <1>2 DEF FirstOf
<1>3. CASE S # {}
    BY <1>1, <1>3, FirstOfIs
<1>. QED
    BY <1>2, <1>3

\* The place at which a call fails is in the collection.
LEMMA UsableIs ==
    ASSUME NEW c, NEW hp, Sound(c, hp)
    PROVE  Failing(c) \subseteq 1..Len(c) /\ FirstOf(Failing(c), Len(c)) \in 0..Len(c)
<1>1. Failing(c) \subseteq 1..Len(c) /\ Len(c) \in Nat
    BY SoundNodes DEF Failing
<1>. QED
    BY <1>1, FirstOfRange

\* entries() does no more than list objects or give them up.
LEMMA EntriesIs ==
    ASSUME NEW c, NEW hp, Sound(c, hp)
    PROVE  Effect(c, hp, Entries(c, hp).c, Entries(c, hp).heap)
<1>. DEFINE n == FirstOf(Failing(c), Len(c))
            r == Asked(c, hp, n)
<1>1. CASE ~Usable(c)
    <2>1. Entries(c, hp) = Threw(c, hp, "InvalidStateException")
        BY <1>1 DEF Entries
    <2>2. Entries(c, hp).c = c /\ Entries(c, hp).heap = hp
        BY <2>1 DEF Threw
    <2>. QED
        BY <2>2, NoEffect
<1>2. CASE Usable(c)
    <2>1. n \in 0..Len(c)
        BY UsableIs
    <2>. HIDE DEF n
    <2>2. Effect(c, hp, r.c, r.heap)
        BY <1>2, <2>1, AskedIs
    <2>3. r = [c |-> r.c, heap |-> r.heap, thrown |-> r.thrown, out |-> r.out]
        BY DEF Asked
    <2>4. Entries(c, hp).c = r.c /\ Entries(c, hp).heap = r.heap
        <3>. DEFINE all == FlattenSeq([i \in DOMAIN r.c |-> Own(r.c[i])])
        <3>1. Entries(c, hp) = r \/ Entries(c, hp) = [r EXCEPT !.out = all]
            BY <1>2 DEF Entries, n
        <3>. HIDE DEF r, all
        <3>. QED
            BY <2>3, <3>1
    <2>. QED
        BY <2>2, <2>4
<1>. QED
    BY <1>1, <1>2

\* Entries() returns a record.
LEMMA EntriesRecord ==
    ASSUME NEW c, NEW hp
    PROVE  \E d, hp2, thrown, out :
            Entries(c, hp) = [c |-> d, heap |-> hp2, thrown |-> thrown, out |-> out]
<1>. DEFINE r == Asked(c, hp, FirstOf(Failing(c), Len(c)))
            all == FlattenSeq([i \in DOMAIN r.c |-> Own(r.c[i])])
            t == Threw(c, hp, "InvalidStateException")
<1>1. Entries(c, hp) = t \/ Entries(c, hp) = r \/ Entries(c, hp) = [r EXCEPT !.out = all]
    BY DEF Entries
<1>2. r = [c |-> r.c, heap |-> r.heap, thrown |-> r.thrown, out |-> r.out]
    BY DEF Asked
<1>3. t = [c |-> c, heap |-> hp, thrown |-> "InvalidStateException", out |-> << >>]
    BY DEF Threw
<1>. HIDE DEF r, all, t
<1>4. [r EXCEPT !.out = all] = [c |-> r.c, heap |-> r.heap, thrown |-> r.thrown, out |-> all]
    BY <1>2
<1>. QED
    BY <1>1, <1>2, <1>3, <1>4

\* Neither does size().
LEMMA SizeIs ==
    ASSUME NEW c, NEW hp, Sound(c, hp)
    PROVE  Effect(c, hp, Size(c, hp).c, Size(c, hp).heap)
<1>. DEFINE r == Entries(c, hp)
<1>1. Effect(c, hp, r.c, r.heap)
    BY EntriesIs
<1>2. PICK d, hp2, thrown, out : r = [c |-> d, heap |-> hp2, thrown |-> thrown, out |-> out]
    BY EntriesRecord
<1>. DEFINE size == << Counted(r.c) >>
<1>3. Size(c, hp) = r \/ Size(c, hp) = [r EXCEPT !.out = size]
    BY DEF Size
<1>. HIDE DEF r, size
<1>4. Size(c, hp).c = r.c /\ Size(c, hp).heap = r.heap
    BY <1>2, <1>3
<1>. QED
    BY <1>1, <1>4

\* FindFirst finds the first of the entries that match, or nothing.
LEMMA FindFirstIs ==
    ASSUME NEW X, NEW refs \in Seq(X), NEW hp, NEW name, NEW matchpath
    PROVE  LET found == {i \in 1..Len(refs) : Matches(At(hp, refs[i]), name, matchpath)}
               out == FindFirst(refs, hp, name, matchpath)
           IN  \/ found = {} /\ out = << >>
               \/ \E j \in found : /\ out = << refs[j] >>
                                   /\ \A i \in found : j <= i
<1>. DEFINE found == {i \in 1..Len(refs) : Matches(At(hp, refs[i]), name, matchpath)}
            out == FindFirst(refs, hp, name, matchpath)
<1>1. out = IF found = {} THEN << >> ELSE << refs[Min(found)] >>
    <2>. DEFINE all == {i \in DOMAIN refs : Matches(At(hp, refs[i]), name, matchpath)}
    <2>1. all = found
        BY DOMAIN refs = 1..Len(refs)
    <2>2. out = IF all = {} THEN << >> ELSE << refs[Min(all)] >>
        BY DEF FindFirst
    <2>. HIDE DEF all, found, out
    <2>. QED
        BY <2>1, <2>2
<1>2. CASE found = {}
    BY <1>1, <1>2
<1>3. CASE found # {}
    <2>1. found \subseteq Nat
        OBVIOUS
    <2>. HIDE DEF found, out
    <2>2. Min(found) \in found /\ \A i \in found : Min(found) <= i
        BY <1>3, <2>1, LeastIs
    <2>. QED
        BY <1>1, <1>3, <2>2 DEF found, out
<1>. QED
    BY <1>2, <1>3

\* What getEntry() finds is in an object that is not a CollectionCollection.
LEMMA GetEntryIs ==
    ASSUME NEW c, NEW hp, Sound(c, hp), Len(c) > 0, NEW name, NEW matchpath
    PROVE  LET r == GetEntry(c, hp, name, matchpath)
           IN  /\ Effect(c, hp, r.c, r.heap)
               /\ r = [c |-> r.c, heap |-> r.heap, thrown |-> r.thrown, out |-> r.out]
               /\ \/ r.out = << >>
                  \/ \E i \in 1..Len(r.c) : \E j \in 1..Len(r.c[i].entries) :
                        /\ r.c[i].class # "CollectionCollection"
                        /\ r.out = << r.c[i].entries[j] >>
<1>. DEFINE matching == {i \in DOMAIN c : Found(c[i], hp, name, matchpath)}
            last == FirstOf(Failing(c) \cup matching, Len(c))
            r == Asked(c, hp, last)
            g == GetEntry(c, hp, name, matchpath)
            found == FindFirst(Own(r.c[last]), r.heap, name, matchpath)
            s == [r EXCEPT !.out = found]
            t == Threw(c, hp, "InvalidStateException")
<1>1. Len(c) \in Nat /\ DOMAIN c = 1..Len(c)
    BY SoundNodes
<1>2. last \in 1..Len(c)
    <2>1. Failing(c) \cup matching \subseteq 1..Len(c)
        BY <1>1, UsableIs
    <2>. HIDE DEF matching
    <2>. QED
        BY <1>1, <2>1, FirstOfBetween
<1>0. last \in 0..Len(c)
    BY <1>2
<1>. HIDE DEF last
<1>3. \/ ~Usable(c) /\ g = t
      \/ Usable(c) /\ g = r
      \/ Usable(c) /\ g = s
    BY Zenon DEF GetEntry, last
<1>4. r = [c |-> r.c, heap |-> r.heap, thrown |-> r.thrown, out |-> << >>]
    BY DEF Asked
<1>5. CASE ~Usable(c) /\ g = t
    <2>1. t = [c |-> c, heap |-> hp, thrown |-> "InvalidStateException", out |-> << >>]
        BY DEF Threw
    <2>. HIDE DEF g, t
    <2>2. g.c = c /\ g.heap = hp /\ g.out = << >>
        BY <1>5, <2>1
    <2>3. g = [c |-> g.c, heap |-> g.heap, thrown |-> g.thrown, out |-> g.out]
        BY <1>5, <2>1
    <2>4. Effect(c, hp, g.c, g.heap)
        BY <2>2, NoEffect
    <2>. QED
        BY <2>2, <2>3, <2>4 DEF g
<1>6. CASE Usable(c) /\ g = r
    <2>1. Effect(c, hp, r.c, r.heap)
        BY <1>0, <1>6, AskedIs
    <2>. HIDE DEF g, r
    <2>2. r.out = << >> /\ r = [c |-> r.c, heap |-> r.heap, thrown |-> r.thrown, out |-> r.out]
        BY <1>4
    <2>. QED
        BY <1>6, <2>1, <2>2 DEF g
<1>7. CASE Usable(c) /\ g = s
    <2>1. Effect(c, hp, r.c, r.heap)
        BY <1>0, <1>7, AskedIs
    <2>2. Sound(r.c, r.heap) /\ Len(r.c) = Len(c)
        BY <2>1 DEF Effect
    <2>. HIDE DEF g, r, found
    <2>3. s = [c |-> r.c, heap |-> r.heap, thrown |-> r.thrown, out |-> found]
        BY <1>4
    <2>. HIDE DEF s
    <2>4. /\ g.c = r.c /\ g.heap = r.heap /\ g.out = found
          /\ g = [c |-> g.c, heap |-> g.heap, thrown |-> g.thrown, out |-> g.out]
        BY <1>7, <2>3
    <2>5. \/ found = << >>
          \/ \E i \in 1..Len(r.c) : \E j \in 1..Len(r.c[i].entries) :
                r.c[i].class # "CollectionCollection" /\ found = << r.c[i].entries[j] >>
        <3>1. CASE r.c[last].class = "CollectionCollection"
            <4>1. Own(r.c[last]) = << >>
                BY <3>1 DEF Own
            <4>2. found = << >>
                BY <4>1 DEF FindFirst, found
            <4>. QED
                BY <4>2
        <3>2. CASE r.c[last].class # "CollectionCollection"
            <4>. DEFINE refs == r.c[last].entries
                        hp2 == r.heap
            <4>1. Own(r.c[last]) = refs
                BY <3>2 DEF Own
            <4>2. refs \in Seq(References(hp2))
                BY <1>2, <2>2, SoundNodes, NodeType
            <4>. HIDE DEF refs, hp2
            <4>3. found = FindFirst(refs, hp2, name, matchpath)
                BY <4>1 DEF found, hp2
            <4>4. found = << >> \/ \E j \in 1..Len(refs) : found = << refs[j] >>
                BY <4>2, <4>3, FindFirstIs
            <4>. QED
                BY <1>2, <2>2, <3>2, <4>4 DEF refs
        <3>. QED
            BY <3>1, <3>2
    <2>. QED
        BY <2>1, <2>4, <2>5 DEF g
<1>. QED
    BY <1>3, <1>5, <1>6, <1>7

-----------------------------------------------------------------------------
(* The calls that open streams. *)

\* The object that has a reference is found from it: there is only one.
LEMMA NodeOfIs ==
    ASSUME NEW c, NEW hp, Sound(c, hp), NEW i \in 1..Len(c), NEW j \in 1..Len(c[i].entries)
    PROVE  NodeOf(c, c[i].entries[j]) = i
<1>. DEFINE ref == c[i].entries[j]
            Has(k) == k \in DOMAIN c /\ ref \in ToSet(c[k].entries)
<1>1. /\ DOMAIN c = 1..Len(c) /\ Private(c)
      /\ \A k \in 1..Len(c) : c[k] \in Node(hp)
    BY SoundNodes DEF Sound
<1>2. ASSUME NEW k \in 1..Len(c)
      PROVE  ref \in ToSet(c[k].entries) <=> \E l \in 1..Len(c[k].entries) : ref = c[k].entries[l]
    <2>1. DOMAIN c[k].entries = 1..Len(c[k].entries)
        BY <1>1, NodeType
    <2>. HIDE DEF ref
    <2>. QED
        BY <2>1 DEF ToSet
<1>3. Has(i)
    BY <1>1, <1>2
<1>4. ASSUME NEW k, Has(k) PROVE k = i
    <2>1. PICK l \in 1..Len(c[k].entries) : ref = c[k].entries[l]
        BY <1>1, <1>2, <1>4
    <2>2. k \in 1..Len(c) /\ c[i].entries[j] = c[k].entries[l]
        BY <1>1, <1>4, <2>1
    <2>. QED
        BY <1>1, <2>2, PrivateIs
<1>5. NodeOf(c, ref) = CHOOSE k \in DOMAIN c : ref \in ToSet(c[k].entries)
    BY DEF NodeOf
<1>. HIDE DEF ref
<1>6. NodeOf(c, ref) = i
    BY <1>3, <1>4, <1>5
<1>. QED
    BY <1>6 DEF ref

\* The child in which an object is: it begins at an object of depth 1, after
\* which there is none up to the object.
LEMMA HolderIs ==
    ASSUME NEW c, Len(c) \in Nat, DOMAIN c = 1..Len(c), IsTree(c), NEW i \in 2..Len(c)
    PROVE  /\ Holder(c, i) \in 2..i /\ c[Holder(c, i)].depth = 1
           /\ \A k \in Holder(c, i) + 1..i : c[k].depth # 1
<1>. DEFINE S == {k \in 1..i : c[k].depth = 1}
            h == Holder(c, i)
<1>1. h = Max(S)
    BY DEF Holder
<1>2. c[1].depth = 0 /\ c[2].depth = 1
    <2>1. c[1].depth = 0 /\ c[2].depth \in 1..c[2 - 1].depth + 1
        BY DEF IsTree
    <2>2. 2 - 1 = 1
        OBVIOUS
    <2>3. c[2].depth \in 1..0 + 1
        BY <2>1, <2>2
    <2>. QED
        BY <2>1, <2>3
<1>3. S \subseteq 0..i /\ S # {} /\ i \in Nat
    <2>1. 2 \in S
        BY <1>2
    <2>. QED
        BY <2>1
<1>4. \A k \in S : k \in 1..i /\ c[k].depth = 1
    OBVIOUS
<1>5. \A k \in 1..i : c[k].depth = 1 => k \in S
    OBVIOUS
<1>. HIDE DEF S, h
<1>6. h \in S /\ \A k \in S : k <= h
    BY <1>1, <1>3, GreatestIs
<1>7. h \in 2..i
    <2>1. h # 1 /\ h \in 1..i
        BY <1>2, <1>4, <1>6
    <2>. QED
        BY <2>1
<1>8. ASSUME NEW k \in h + 1..i PROVE c[k].depth # 1
    <2>1. k \in 1..i /\ ~(k <= h)
        BY <1>7
    <2>. QED
        BY <1>5, <1>6, <2>1
<1>. QED
    BY <1>4, <1>6, <1>7, <1>8 DEF h

\* The objects of a member, up to the next member, are at least those seen so
\* far.
LEMMA HolderEndIs ==
    ASSUME NEW c, Len(c) \in Nat, DOMAIN c = 1..Len(c), NEW i \in 1..Len(c), NEW n \in i..Len(c),
           \A k \in i + 1..n : c[k].depth # 1
    PROVE  HolderEnd(c, i) \in n..Len(c)
<1>. DEFINE S == {k \in DOMAIN c : k > i /\ c[k].depth = 1}
            first == FirstOf(S, Len(c) + 1)
<1>1. HolderEnd(c, i) = first - 1
    BY DEF HolderEnd
<1>2. \A k \in S : k \in n + 1..Len(c) /\ k \in Nat
    OBVIOUS
<1>3. S \subseteq Nat
    BY <1>2
<1>. HIDE DEF S
<1>4. first \in n + 1..Len(c) + 1
    <2>1. CASE S = {}
        <3>1. first = Len(c) + 1
            BY <1>3, <2>1, FirstOfIs
        <3>. QED
            BY <3>1
    <2>2. CASE S # {}
        <3>1. first \in S
            BY <1>3, <2>2, FirstOfIs
        <3>2. first \in n + 1..Len(c)
            BY <1>2, <3>1
        <3>. HIDE DEF first
        <3>. QED
            BY <3>2
    <2>. QED
        BY <2>1, <2>2
<1>. HIDE DEF first
<1>5. first - 1 \in n..Len(c)
    BY <1>4
<1>. QED
    BY <1>1, <1>5

\* r.out is a reference in an object of r.c other than the first one.
HasFound(r, i, j) ==
    /\ r = [c |-> r.c, heap |-> r.heap, thrown |-> r.thrown, out |-> r.out]
    /\ Sound(r.c, r.heap) /\ IsTree(r.c)
    /\ i \in 1..Len(r.c) /\ j \in 1..Len(r.c[i].entries)
    /\ r.c[i].class # "CollectionCollection" /\ r.out = << r.c[i].entries[j] >>

\* The child that is asked again is that in which the entry is.
LEMMA ChildIs ==
    ASSUME NEW r, NEW i, NEW j, HasFound(r, i, j), r.c[1].class = "CollectionCollection"
    PROVE  LET first == Holder(r.c, NodeOf(r.c, r.out[1]))
               last == HolderEnd(r.c, first)
           IN  /\ first \in 2..i /\ last \in i..Len(r.c)
               /\ r.c[first].depth = 1 /\ \A k \in first + 1..i : r.c[k].depth # 1
<1>. DEFINE c == r.c
            first == Holder(c, NodeOf(c, r.out[1]))
            last == HolderEnd(c, first)
<1>1. Len(c) \in Nat /\ DOMAIN c = 1..Len(c) /\ IsTree(c) /\ i \in 1..Len(c)
    BY SoundNodes DEF HasFound
<1>2. NodeOf(c, r.out[1]) = i
    BY NodeOfIs DEF HasFound
<1>3. i \in 2..Len(c)
    <2>1. i # 1
        BY DEF HasFound
    <2>. QED
        BY <1>1, <2>1
<1>. HIDE DEF c
<1>4. first \in 2..i /\ c[first].depth = 1 /\ \A k \in first + 1..i : c[k].depth # 1
    BY <1>1, <1>2, <1>3, HolderIs
<1>. HIDE DEF first
<1>5. first \in 1..Len(c) /\ i \in first..Len(c)
    BY <1>1, <1>3, <1>4
<1>6. last \in i..Len(c)
    BY <1>1, <1>4, <1>5, HolderEndIs
<1>. QED
    BY <1>4, <1>6 DEF first, c

\* Asking the member that has an entry has the effect of a call, and finds
\* again what it opens.
LEMMA AskHolderIs ==
    ASSUME NEW r, NEW i, NEW j, HasFound(r, i, j), r.c[1].class = "CollectionCollection",
           NEW name
    PROVE  LET s == AskHolder(r, name)
           IN  /\ Effect(r.c, r.heap, s.c, s.heap)
               /\ s = [c |-> s.c, heap |-> s.heap, thrown |-> s.thrown, out |-> s.out]
               /\ \/ s.out = << >>
                  \/ \E k, l : HasFound(s, k, l)
<1>. DEFINE first == Holder(r.c, NodeOf(r.c, r.out[1]))
            last == HolderEnd(r.c, first)
            part == SubSeq(r.c, first, last)
            k == GetEntry(part, r.heap, name, "MATCH")
            d == Replaced(r.c, first, last, k.c)
            s == AskHolder(r, name)
            c == r.c
<1>1. Sound(c, r.heap) /\ IsTree(c) /\ Len(c) \in Nat /\ DOMAIN c = 1..Len(c)
    BY SoundNodes DEF HasFound
<1>2. first \in 1..Len(c) /\ last \in first..Len(c)
    <2>1. first \in 2..i /\ last \in i..Len(c) /\ i \in 1..Len(c)
        BY ChildIs DEF HasFound
    <2>. HIDE DEF first, last, c
    <2>. QED
        BY <1>1, <2>1
<1>3. s = [k EXCEPT !.c = d]
    BY DEF AskHolder, Replaced
<1>. HIDE DEF first, last, c
<1>4. /\ Sound(part, r.heap) /\ Len(part) = last - first + 1
    BY <1>1, <1>2, PartIs DEF c
<1>5. Len(part) > 0
    BY <1>1, <1>2, <1>4
<1>. DEFINE match == "MATCH"
<1>6. /\ Effect(part, r.heap, k.c, k.heap)
      /\ k = [c |-> k.c, heap |-> k.heap, thrown |-> k.thrown, out |-> k.out]
      /\ \/ k.out = << >>
         \/ \E m \in 1..Len(k.c) : \E l \in 1..Len(k.c[m].entries) :
                /\ k.c[m].class # "CollectionCollection"
                /\ k.out = << k.c[m].entries[l] >>
    <2>1. k = GetEntry(part, r.heap, name, match)
        OBVIOUS
    <2>. HIDE DEF part, match, k
    <2>. QED
        BY <1>4, <1>5, <2>1, GetEntryIs
<1>. HIDE DEF k
<1>7. Effect(c, r.heap, d, k.heap)
    BY <1>1, <1>2, <1>6, PartEffect DEF c
<1>. HIDE DEF s, d
<1>8. /\ s = [c |-> s.c, heap |-> s.heap, thrown |-> s.thrown, out |-> s.out]
      /\ s.c = d /\ s.heap = k.heap /\ s.out = k.out
    BY <1>3, <1>6
<1>9. Effect(c, r.heap, s.c, s.heap)
    BY <1>7, <1>8
<1>10. Len(d) = Len(c) /\ IsTree(d) /\ Sound(d, k.heap)
    BY <1>1, <1>7, TreeKept DEF Effect
<1>11. ASSUME s.out # << >> PROVE \E m, l : HasFound(s, m, l)
    <2>1. PICK m \in 1..Len(k.c) : \E l \in 1..Len(k.c[m].entries) :
                /\ k.c[m].class # "CollectionCollection"
                /\ k.out = << k.c[m].entries[l] >>
        BY <1>6, <1>8, <1>11
    <2>2. PICK l \in 1..Len(k.c[m].entries) :
                /\ k.c[m].class # "CollectionCollection"
                /\ k.out = << k.c[m].entries[l] >>
        BY <2>1
    <2>3. Len(k.c) = last - first + 1
        BY <1>4, <1>6 DEF Effect
    <2>. DEFINE n == first + m - 1
    <2>4. n \in first..last /\ n \in 1..Len(c) /\ n - first + 1 = m
        BY <1>1, <1>2, <2>3
    <2>. HIDE DEF n
    <2>5. d[n] = k.c[m]
        BY <1>1, <2>4 DEF d, Replaced, c
    <2>6. HasFound(s, n, l)
        BY <1>8, <1>10, <2>2, <2>4, <2>5 DEF HasFound
    <2>. QED
        BY <2>6
<1>. QED
    BY <1>8, <1>9, <1>11 DEF s, c

\* The fields of an entry; a directory is not compressed.
LEMMA EntryIs ==
    ASSUME NEW e \in Entry
    PROVE  /\ e.name \in Name /\ e.from \in {"listing", "archive", "program", "stream"}
           /\ e.directory \in BOOLEAN /\ e.size \in 0..1
           /\ e.method \in SupportedMethod /\ e.level \in CompressionLevel
           /\ e.directory => Uncompressed(e)
BY DEF Entry, EntryType

\* Which of the cases of Opened() it is.
LEMMA OpenedIs ==
    ASSUME NEW r, NEW i, NEW j, HasFound(r, i, j)
    PROVE  LET s == Opened(r)
               entry == At(r.heap, r.c[i].entries[j])
           IN  /\ s.c = r.c /\ s.heap = r.heap
               /\ entry \in Entry
               /\ \/ r.c[i].class = "DirectoryCollection"
                  \/ r.c[i].class = "ZipFile"
               /\ r.c[i].class = "DirectoryCollection" =>
                    IF entry.directory THEN s = [r EXCEPT !.out = << >>]
                    ELSE s = [r EXCEPT !.out = << [where |-> "disk", name |-> entry.name] >>]
               /\ r.c[i].class = "ZipFile" /\ entry.from \in {"archive", "stream"} =>
                    s = [r EXCEPT !.out = << [where |-> entry.from, name |-> entry.name] >>]
<1>. DEFINE c == r.c
            node == c[i]
            ref == node.entries[j]
            entry == At(r.heap, ref)
            values == Values(node, r.heap)
            members == {l \in DOMAIN values : values[l].from = "archive"}
            content(where, e) ==
                [r EXCEPT !.out = << [where |-> where, name |-> e.name] >>]
            s == Opened(r)
<1>1. /\ Sound(c, r.heap) /\ i \in 1..Len(c) /\ node.class # "CollectionCollection"
      /\ r.out = << ref >> /\ j \in 1..Len(node.entries)
      /\ r = [c |-> r.c, heap |-> r.heap, thrown |-> r.thrown, out |-> r.out]
    BY DEF HasFound
<1>2. NodeOf(r.c, r.out[1]) = i /\ r.out[1] = ref
    BY <1>1, NodeOfIs
<1>3. node \in Node(r.heap) /\ ref \in References(r.heap) /\ r.heap \in Heap
    BY <1>1, SoundNodes
<1>4. node.class \in {"DirectoryCollection", "ZipFile"}
    BY <1>1, <1>3 DEF Node, Class
<1>5. entry \in Entry
    BY <1>3, ReferenceIs
<1>6. entry.from \in {"listing", "archive", "program", "stream"} /\ entry.directory \in BOOLEAN
    BY <1>5, EntryIs
<1>. DEFINE nothing == [r EXCEPT !.out = << >>]
            disk_content == content("disk", entry)
            stream_content == content("stream", entry)
            member == content("archive", entry)
            failed == Threw(r.c, r.heap, "IOException")
            other == IF members = {} THEN failed ELSE content("archive", values[Min(members)])
<1>7. s = CASE node.class = "DirectoryCollection" /\ entry.directory -> nothing
          [] node.class = "DirectoryCollection" /\ ~entry.directory -> disk_content
          [] node.class = "ZipFile" /\ entry.from = "stream" -> stream_content
          [] node.class = "ZipFile" /\ entry.from = "archive" -> member
          [] node.class = "ZipFile" /\ entry.from \in {"listing", "program"} -> other
    BY <1>2, Zenon DEF Opened
<1>8. ASSUME NEW out PROVE [r EXCEPT !.out = out].c = r.c /\ [r EXCEPT !.out = out].heap = r.heap
    BY <1>1
<1>. DEFINE Same(t) == t.c = r.c /\ t.heap = r.heap
<1>9. \A where, e : Same(content(where, e))
    BY <1>8
<1>10. Same(failed)
    BY DEF Threw
<1>11. Same(nothing) /\ Same(disk_content) /\ Same(stream_content) /\ Same(member)
    <2>1. Same(nothing)
        BY <1>8
    <2>. HIDE DEF nothing, content, Same
    <2>. QED
        BY <1>9, <2>1
<1>12. Same(other)
    <2>. HIDE DEF content, members, failed, Same
    <2>. QED
        BY <1>9, <1>10
<1>13. /\ node.class = "DirectoryCollection" /\ entry.directory => s = nothing
       /\ node.class = "DirectoryCollection" /\ ~entry.directory => s = disk_content
       /\ node.class = "ZipFile" /\ entry.from = "stream" => s = stream_content
       /\ node.class = "ZipFile" /\ entry.from = "archive" => s = member
       /\ node.class = "ZipFile" /\ entry.from \in {"listing", "program"} => s = other
    <2>. HIDE DEF s, nothing, disk_content, stream_content, member, other, node, entry
    <2>. QED
        BY <1>4, <1>6, <1>7
<1>14. Same(s)
    <2>. HIDE DEF s, nothing, disk_content, stream_content, member, other, node, entry, Same
    <2>. QED
        BY <1>4, <1>6, <1>11, <1>12, <1>13
<1>. QED
    BY <1>4, <1>5, <1>13, <1>14

\* getInputStream() does no more than list objects or give them up.
LEMMA GetInputStreamIs ==
    ASSUME NEW c, NEW hp, Sound(c, hp), IsTree(c), NEW name, NEW matchpath
    PROVE  LET s == GetInputStream(c, hp, name, matchpath)
           IN  Effect(c, hp, s.c, s.heap)
<1>. DEFINE r == GetEntry(c, hp, name, matchpath)
            a == AskHolder(r, name)
            s == IF c[1].class = "CollectionCollection" THEN a ELSE r
            o == Opened(s)
            g == GetInputStream(c, hp, name, matchpath)
<1>1. Len(c) \in Nat /\ Len(c) > 0 /\ 1 \in 1..Len(c)
    BY SoundNodes DEF IsTree
<1>2. /\ Effect(c, hp, r.c, r.heap)
      /\ r = [c |-> r.c, heap |-> r.heap, thrown |-> r.thrown, out |-> r.out]
      /\ \/ r.out = << >>
         \/ \E i \in 1..Len(r.c) : \E j \in 1..Len(r.c[i].entries) :
                r.c[i].class # "CollectionCollection" /\ r.out = << r.c[i].entries[j] >>
    BY <1>1, GetEntryIs
<1>3. g = r \/ (r.out # << >> /\ g = s) \/ (r.out # << >> /\ s.out # << >> /\ g = o)
    <2>. DEFINE found == ~(r.thrown # "none" \/ r.out = << >>)
    <2>1. CASE ~found
        BY <2>1 DEF GetInputStream
    <2>2. CASE found /\ c[1].class = "CollectionCollection"
        <3>1. g = IF a.thrown # "none" \/ a.out = << >> THEN a ELSE Opened(a)
            BY <2>2, Zenon DEF GetInputStream
        <3>2. s = a
            BY <2>2
        <3>. HIDE DEF r, g, a
        <3>. QED
            BY <2>2, <3>1, <3>2
    <2>3. CASE found /\ c[1].class # "CollectionCollection"
        <3>1. g = Opened(r)
            BY <2>3, Zenon DEF GetInputStream
        <3>2. s = r
            BY <2>3
        <3>. HIDE DEF r, g, a
        <3>. QED
            BY <2>3, <3>1, <3>2
    <2>. QED
        BY <2>1, <2>2, <2>3
<1>. HIDE DEF r, g, o, a
<1>4. CASE g = r
    BY <1>2, <1>4 DEF g
<1>5. CASE r.out # << >>
    <2>1. IsTree(r.c) /\ Sound(r.c, r.heap) /\ r.c[1].class = c[1].class
        BY <1>1, <1>2, TreeKept DEF Effect
    <2>2. PICK i, j : HasFound(r, i, j)
        BY <1>2, <1>5, <2>1 DEF HasFound
    <2>3. /\ Effect(c, hp, s.c, s.heap)
          /\ s.out # << >> => \E k, l : HasFound(s, k, l)
        <3>1. CASE c[1].class = "CollectionCollection"
            <4>1. /\ Effect(r.c, r.heap, a.c, a.heap)
                  /\ a.out # << >> => \E k, l : HasFound(a, k, l)
                BY <2>1, <2>2, <3>1, AskHolderIs DEF a
            <4>2. Effect(c, hp, a.c, a.heap)
                BY <1>2, <4>1, EffectOnEffect
            <4>. QED
                BY <3>1, <4>1, <4>2
        <3>2. CASE c[1].class # "CollectionCollection"
            BY <1>2, <2>2, <3>2
        <3>. QED
            BY <3>1, <3>2
    <2>. HIDE DEF s
    <2>4. ASSUME s.out # << >> PROVE o.c = s.c /\ o.heap = s.heap
        <3>1. PICK k, l : HasFound(s, k, l)
            BY <2>3, <2>4
        <3>. QED
            BY <3>1, OpenedIs DEF o
    <2>5. Effect(c, hp, g.c, g.heap)
        BY <1>2, <1>3, <2>3, <2>4
    <2>. QED
        BY <2>5 DEF g
<1>. QED
    BY <1>3, <1>4, <1>5

-----------------------------------------------------------------------------
(* The calls that change entries. *)

\* The entry e and what setMethod() or setLevel() makes of it.
SameFile(f, e) ==
    f \in Entry /\ f.name = e.name /\ f.from = e.from /\ f.size = e.size
    /\ f.directory = e.directory

\* A method that an entry allows leaves it the entry of the same file.
LEMMA WithMethodIs ==
    ASSUME NEW e \in Entry, NEW method, MethodAllowed(method)
    PROVE  SameFile(WithMethod(e, method), e)
<1>. DEFINE m == IF e.directory THEN "STORED" ELSE method
            f == [e EXCEPT !.method = m]
<1>1. e \in EntryType /\ (e.directory => Uncompressed(e))
    BY DEF Entry
<1>2. m \in SupportedMethod /\ (e.directory => m = "STORED")
    BY DEF MethodAllowed, SupportedMethod
<1>3. WithMethod(e, method) = f
    BY DEF WithMethod
<1>. HIDE DEF m
<1>4. /\ f \in EntryType /\ f.name = e.name /\ f.from = e.from /\ f.size = e.size
      /\ f.directory = e.directory /\ f.method = m /\ f.level = e.level
    BY <1>1, <1>2 DEF EntryType
<1>. HIDE DEF f
<1>5. f.directory => Uncompressed(f)
    BY <1>1, <1>2, <1>4 DEF Uncompressed
<1>. QED
    BY <1>3, <1>4, <1>5 DEF SameFile, Entry

\* A level that an entry allows leaves it the entry of the same file.
LEMMA WithLevelIs ==
    ASSUME NEW e \in Entry, NEW level, LevelAllowed(e, level)
    PROVE  SameFile(WithLevel(e, level), e)
<1>. DEFINE m == IF e.directory THEN COMPRESSION_LEVEL_NONE ELSE level
            f == [e EXCEPT !.level = m]
<1>1. e \in EntryType /\ (e.directory => Uncompressed(e))
    BY DEF Entry
<1>2. m \in CompressionLevel /\ (e.directory => m < COMPRESSION_LEVEL_MINIMUM)
    BY DEF LevelAllowed, CompressionLevel, COMPRESSION_LEVEL_NONE,
           COMPRESSION_LEVEL_MINIMUM, COMPRESSION_LEVEL_DEFAULT, COMPRESSION_LEVEL_MAXIMUM
<1>3. WithLevel(e, level) = f
    BY DEF WithLevel
<1>. HIDE DEF m
<1>4. /\ f \in EntryType /\ f.name = e.name /\ f.from = e.from /\ f.size = e.size
      /\ f.directory = e.directory /\ f.method = e.method /\ f.level = m
    BY <1>1, <1>2 DEF EntryType
<1>. HIDE DEF f
<1>5. f.directory => Uncompressed(f)
    BY <1>1, <1>2, <1>4 DEF Uncompressed
<1>. QED
    BY <1>3, <1>4, <1>5 DEF SameFile, Entry

\* i is before the first of those that refuse.
LEMMA BeforeIs ==
    ASSUME NEW n \in Nat, NEW refusing, refusing \subseteq 1..n, NEW i \in 1..n
    PROVE  /\ Before(n, refusing) \in 0..n
           /\ ~(i > Before(n, refusing)) <=> \A j \in refusing : i < j
<1>1. CASE refusing = {}
    BY <1>1 DEF Before
<1>2. CASE refusing # {}
    <2>. DEFINE m == CHOOSE k \in refusing : \A j \in refusing : k <= j
    <2>1. refusing \subseteq Nat
        OBVIOUS
    <2>2. Min(refusing) \in refusing /\ \A j \in refusing : Min(refusing) <= j
        BY <1>2, <2>1, LeastIs
    <2>3. m \in refusing /\ \A j \in refusing : m <= j
        BY <2>2, Zenon
    <2>4. Before(n, refusing) = m - 1
        BY <1>2 DEF Before
    <2>. HIDE DEF m
    <2>5. m \in 1..n /\ \A j \in refusing : j \in 1..n
        BY <2>3
    <2>6. ~(i > m - 1) <=> i < m
        BY <2>5
    <2>7. i < m => \A j \in refusing : i < j
        BY <2>3, <2>5
    <2>8. m - 1 \in 0..n
        BY <2>5
    <2>. QED
        BY <2>3, <2>4, <2>6, <2>7, <2>8
<1>. QED
    BY <1>1, <1>2

\* Setting methods keeps the number of the entries and the files they are of.
LEMMA SetMethodsIs ==
    ASSUME NEW es \in Seq(Entry), NEW limit, NEW small, NEW large
    PROVE  LET done == SetMethods(es, limit, small, large)
           IN  /\ done.entries \in Seq(Entry) /\ Len(done.entries) = Len(es)
               /\ \A i \in 1..Len(es) : SameFile(done.entries[i], es[i])
<1>. DEFINE choice(i) == Chosen(es[i], limit, small, large)
            refusing == {i \in DOMAIN es : ~MethodAllowed(choice(i))}
            n == Before(Len(es), refusing)
            done == [i \in DOMAIN es |-> IF i > n THEN es[i] ELSE WithMethod(es[i], choice(i))]
<1>1. Len(es) \in Nat /\ DOMAIN es = 1..Len(es) /\ \A i \in 1..Len(es) : es[i] \in Entry
    OBVIOUS
<1>2. SetMethods(es, limit, small, large).entries = done
    BY DEF SetMethods
<1>. HIDE DEF choice
<1>3. ASSUME NEW i \in 1..Len(es), ~(i > n) PROVE MethodAllowed(choice(i))
    <2>1. refusing \subseteq 1..Len(es)
        BY <1>1
    <2>2. \A j \in refusing : i < j
        <3>. HIDE DEF refusing
        <3>. QED
            BY <1>1, <1>3, <2>1, BeforeIs
    <2>3. i \notin refusing
        BY <2>2
    <2>. QED
        BY <1>1, <2>3
<1>. HIDE DEF n
<1>4. DOMAIN done = 1..Len(es)
      /\ \A i \in 1..Len(es) :
            done[i] = IF i > n THEN es[i] ELSE WithMethod(es[i], choice(i))
    BY <1>1
<1>5. Len(done) = Len(es)
    BY <1>1
<1>. HIDE DEF done
<1>6. ASSUME NEW i \in 1..Len(es) PROVE SameFile(done[i], es[i])
    <2>1. CASE i > n
        BY <1>1, <1>4, <2>1 DEF SameFile
    <2>2. CASE ~(i > n)
        BY <1>1, <1>3, <1>4, <2>2, WithMethodIs
    <2>. QED
        BY <2>1, <2>2
<1>7. done \in Seq(Entry)
    <2>1. \A i \in 1..Len(es) : done[i] \in Entry
        BY <1>6 DEF SameFile
    <2>2. done = [i \in 1..Len(es) |-> done[i]]
        BY <1>1 DEF done
    <2>. QED
        BY <1>1, <2>1, <2>2
<1>. QED
    BY <1>2, <1>5, <1>6, <1>7

\* Setting levels keeps the number of the entries and the files they are of.
LEMMA SetLevelsIs ==
    ASSUME NEW es \in Seq(Entry), NEW limit, NEW small, NEW large
    PROVE  LET done == SetLevels(es, limit, small, large)
           IN  /\ done.entries \in Seq(Entry) /\ Len(done.entries) = Len(es)
               /\ \A i \in 1..Len(es) : SameFile(done.entries[i], es[i])
<1>. DEFINE choice(i) == Chosen(es[i], limit, small, large)
            refusing == {i \in DOMAIN es : ~LevelAllowed(es[i], choice(i))}
            n == Before(Len(es), refusing)
            done == [i \in DOMAIN es |-> IF i > n THEN es[i] ELSE WithLevel(es[i], choice(i))]
<1>1. Len(es) \in Nat /\ DOMAIN es = 1..Len(es) /\ \A i \in 1..Len(es) : es[i] \in Entry
    OBVIOUS
<1>2. SetLevels(es, limit, small, large).entries = done
    BY DEF SetLevels
<1>. HIDE DEF choice
<1>3. ASSUME NEW i \in 1..Len(es), ~(i > n) PROVE LevelAllowed(es[i], choice(i))
    <2>1. refusing \subseteq 1..Len(es)
        BY <1>1
    <2>2. \A j \in refusing : i < j
        <3>. HIDE DEF refusing
        <3>. QED
            BY <1>1, <1>3, <2>1, BeforeIs
    <2>3. i \notin refusing
        BY <2>2
    <2>. QED
        BY <1>1, <2>3
<1>. HIDE DEF n
<1>4. DOMAIN done = 1..Len(es)
      /\ \A i \in 1..Len(es) :
            done[i] = IF i > n THEN es[i] ELSE WithLevel(es[i], choice(i))
    BY <1>1
<1>5. Len(done) = Len(es)
    BY <1>1
<1>. HIDE DEF done
<1>6. ASSUME NEW i \in 1..Len(es) PROVE SameFile(done[i], es[i])
    <2>1. CASE i > n
        BY <1>1, <1>4, <2>1 DEF SameFile
    <2>2. CASE ~(i > n)
        BY <1>1, <1>3, <1>4, <2>2, WithLevelIs
    <2>. QED
        BY <2>1, <2>2
<1>7. done \in Seq(Entry)
    <2>1. \A i \in 1..Len(es) : done[i] \in Entry
        BY <1>6 DEF SameFile
    <2>2. done = [i \in 1..Len(es) |-> done[i]]
        BY <1>1 DEF done
    <2>. QED
        BY <1>1, <2>1, <2>2
<1>. QED
    BY <1>2, <1>5, <1>6, <1>7

\* Storing the changed values of the first object's entries leaves the others'
\* alone.
LEMMA ChangedIs ==
    ASSUME NEW r, Sound(r.c, r.heap), Len(r.c) > 0, NEW changed,
           Len(changed.entries) = Len(r.c[1].entries),
           changed.entries \in Seq(Entry),
           \A j \in 1..Len(r.c[1].entries) :
                SameFile(changed.entries[j], At(r.heap, r.c[1].entries[j]))
    PROVE  LET s == Changed(r, changed)
           IN  /\ s.c = r.c /\ s.thrown = changed.thrown
               /\ Effect(r.c, r.heap, s.c, s.heap)
               /\ Values(r.c[1], s.heap) = changed.entries
               /\ \A i \in 2..Len(r.c) : Values(r.c[i], s.heap) = Values(r.c[i], r.heap)
<1>. DEFINE c == r.c
            hp == r.heap
            own == c[1].entries
            value(ref) ==
                IF ref \in ToSet(own)
                THEN changed.entries[CHOOSE j \in DOMAIN own : own[j] = ref]
                ELSE At(hp, ref)
            hp2 == [k \in DOMAIN hp |-> [i \in DOMAIN hp[k] |->
                        [j \in DOMAIN hp[k][i] |-> value(<< k, i, j >>)]]]
            s == Changed(r, changed)
<1>1. s = [c |-> c, out |-> << >>, thrown |-> changed.thrown, heap |-> hp2]
    BY DEF Changed
<1>2. s.c = c /\ s.thrown = changed.thrown /\ s.heap = hp2
    <2>. HIDE DEF c, hp2, s
    <2>. QED
        BY <1>1
<1>3. /\ hp \in Heap /\ Private(c) /\ Sound(c, hp) /\ 1 \in 1..Len(c) /\ Len(c) \in Nat
      /\ \A i \in 1..Len(c) :
            /\ c[i] \in Node(hp) /\ HasPath(c[i]) /\ ListedOnce(c[i], hp)
            /\ \A j \in 1..Len(c[i].entries) :
                c[i].entries[j] \in References(hp) /\ c[i].entries[j] \in Holds(c)
    BY SoundNodes DEF Sound
<1>4. DOMAIN own = 1..Len(own)
    BY <1>3, NodeType
<1>5. \A ref : ref \in ToSet(own) <=> \E j \in 1..Len(own) : ref = own[j]
    <2>. HIDE DEF own
    <2>. QED
        BY <1>4 DEF ToSet
<1>6. ASSUME NEW j \in 1..Len(own) PROVE value(own[j]) = changed.entries[j]
    <2>1. own[j] \in ToSet(own)
        BY <1>5
    <2>2. ASSUME NEW k \in 1..Len(own), own[k] = own[j] PROVE k = j
        BY <1>3, <2>2, PrivateIs
    <2>. DEFINE l == CHOOSE k \in DOMAIN own : own[k] = own[j]
    <2>3. l = j
        <3>. HIDE DEF own
        <3>. QED
            BY <1>4, <2>2
    <2>4. value(own[j]) = changed.entries[l]
        BY <2>1
    <2>. QED
        BY <2>3, <2>4
<1>7. \A ref : ref \notin ToSet(own) => value(ref) = At(hp, ref)
    OBVIOUS
<1>. HIDE DEF value
<1>8. ASSUME NEW ref \in References(hp) PROVE SameFile(value(ref), At(hp, ref))
    <2>1. CASE ref \in ToSet(own)
        <3>1. PICK j \in 1..Len(own) : ref = own[j]
            BY <1>5, <2>1
        <3>. QED
            BY <1>6, <3>1
    <2>2. CASE ref \notin ToSet(own)
        BY <1>3, <1>7, <2>2, ReferenceIs DEF SameFile
    <2>. QED
        BY <2>1, <2>2
<1>9. ASSUME NEW k \in 1..Len(hp), NEW i \in 1..Len(hp[k]), NEW j \in 1..Len(hp[k][i])
      PROVE  << k, i, j >> \in References(hp) /\ value(<< k, i, j >>) \in Entry
    <2>1. << k, i, j >> \in References(hp)
        BY <1>3, IsReference
    <2>. QED
        BY <1>8, <2>1 DEF SameFile
<1>10. /\ Len(hp) \in Nat /\ DOMAIN hp = 1..Len(hp)
       /\ \A k \in 1..Len(hp) : hp[k] \in Seq(Seq(Entry))
    BY <1>3 DEF Heap
<1>11. \A k \in 1..Len(hp) :
        /\ Len(hp[k]) \in Nat /\ DOMAIN hp[k] = 1..Len(hp[k])
        /\ \A i \in 1..Len(hp[k]) : hp[k][i] \in Seq(Entry)
    BY <1>10
<1>12. \A k \in 1..Len(hp) : \A i \in 1..Len(hp[k]) :
        Len(hp[k][i]) \in Nat /\ DOMAIN hp[k][i] = 1..Len(hp[k][i])
    BY <1>11
<1>. DEFINE block(k) == [i \in DOMAIN hp[k] |-> [j \in DOMAIN hp[k][i] |-> value(<< k, i, j >>)]]
            piece(k, i) == [j \in DOMAIN hp[k][i] |-> value(<< k, i, j >>)]
<1>13. ASSUME NEW k \in 1..Len(hp), NEW i \in 1..Len(hp[k])
       PROVE  piece(k, i) \in Seq(Entry) /\ Len(piece(k, i)) = Len(hp[k][i])
    <2>1. piece(k, i) = [j \in 1..Len(hp[k][i]) |-> value(<< k, i, j >>)]
        BY <1>12
    <2>. DEFINE n == Len(hp[k][i])
                f(j) == value(<< k, i, j >>)
    <2>2. \A j \in 1..n : f(j) \in Entry
        BY <1>9
    <2>3. n \in Nat /\ piece(k, i) = [j \in 1..n |-> f(j)]
        BY <1>12, <2>1
    <2>. HIDE DEF piece, n, f
    <2>4. piece(k, i) \in Seq(Entry) /\ Len(piece(k, i)) = n
        BY <2>2, <2>3
    <2>. QED
        BY <2>4 DEF n
<1>14. ASSUME NEW k \in 1..Len(hp)
       PROVE  /\ block(k) \in Seq(Seq(Entry)) /\ Len(block(k)) = Len(hp[k])
              /\ \A i \in 1..Len(hp[k]) : block(k)[i] = piece(k, i)
    <2>1. block(k) = [i \in 1..Len(hp[k]) |-> piece(k, i)]
        BY <1>11
    <2>. DEFINE X == Seq(Entry)
    <2>2. \A i \in 1..Len(hp[k]) : piece(k, i) \in X
        BY <1>13
    <2>. HIDE DEF piece, block, X
    <2>3. block(k) \in Seq(X) /\ Len(block(k)) = Len(hp[k])
        BY <1>11, <2>1, <2>2
    <2>. QED
        BY <2>1, <2>3 DEF X
<1>15. hp2 \in Heap /\ Len(hp2) = Len(hp) /\ \A k \in 1..Len(hp) : hp2[k] = block(k)
    <2>1. hp2 = [k \in 1..Len(hp) |-> block(k)]
        BY <1>10
    <2>. DEFINE X == Seq(Seq(Entry))
    <2>2. \A k \in 1..Len(hp) : block(k) \in X
        BY <1>14
    <2>. HIDE DEF hp2, block, X
    <2>3. hp2 \in Seq(X) /\ Len(hp2) = Len(hp)
        BY <1>10, <2>1, <2>2
    <2>. QED
        BY <2>1, <2>3 DEF X, Heap
<1>. HIDE DEF hp2
<1>16. ASSUME NEW k \in 1..Len(hp), NEW i \in 1..Len(hp[k]), NEW j \in 1..Len(hp[k][i])
       PROVE  /\ << k, i, j >> \in References(hp2)
              /\ At(hp2, << k, i, j >>) = value(<< k, i, j >>)
    <2>1. hp2[k] = block(k) /\ block(k)[i] = piece(k, i)
        BY <1>14, <1>15
    <2>2. k \in 1..Len(hp2) /\ i \in 1..Len(hp2[k]) /\ j \in 1..Len(hp2[k][i])
        <3>. HIDE DEF block, piece
        <3>1. Len(block(k)) = Len(hp[k])
            BY <1>14
        <3>2. Len(piece(k, i)) = Len(hp[k][i])
            BY <1>13
        <3>. QED
            BY <1>15, <2>1, <3>1, <3>2
    <2>3. piece(k, i)[j] = value(<< k, i, j >>)
        BY <1>12
    <2>. HIDE DEF block, piece
    <2>4. << k, i, j >> \in References(hp2) /\ At(hp2, << k, i, j >>) = hp2[k][i][j]
        BY <1>15, <2>2, IsReference
    <2>. QED
        BY <2>1, <2>3, <2>4
<1>. HIDE DEF block, piece
<1>17. ASSUME NEW ref \in References(hp)
       PROVE  ref \in References(hp2) /\ At(hp2, ref) = value(ref)
    <2>1. /\ ref[1] \in 1..Len(hp) /\ ref[2] \in 1..Len(hp[ref[1]])
          /\ ref[3] \in 1..Len(hp[ref[1]][ref[2]])
          /\ ref = << ref[1], ref[2], ref[3] >>
        BY <1>3, ReferenceIs
    <2>2. /\ << ref[1], ref[2], ref[3] >> \in References(hp2)
          /\ At(hp2, << ref[1], ref[2], ref[3] >>) = value(<< ref[1], ref[2], ref[3] >>)
        BY <1>16, <2>1
    <2>. QED
        BY <2>1, <2>2
<1>. DEFINE S == ToSet(own)
<1>18. Keeps(hp, hp2, S)
    <2>1. Len(hp) <= Len(hp2)
        BY <1>10, <1>15
    <2>2. \A ref \in References(hp) : ref \notin S => At(hp2, ref) = At(hp, ref)
        BY <1>7, <1>17
    <2>. HIDE DEF S
    <2>. QED
        BY <1>3, <1>15, <1>17, <2>1, <2>2 DEF Keeps
<1>19. S \subseteq Holds(c)
    BY <1>3, <1>5
<1>20. Keeps(hp, hp2, Holds(c))
    <2>. HIDE DEF S
    <2>. QED
        BY <1>18, <1>19 DEF Keeps
<1>21. \A i \in 1..Len(c) : c[i] \in Node(hp2)
    BY <1>3, <1>20, NodeStays
<1>22. ASSUME NEW i \in 1..Len(c) PROVE ListedOnce(c[i], hp2)
    <2>. DEFINE new == Values(c[i], hp2)
                old == Values(c[i], hp)
    <2>1. /\ Len(old) = Len(c[i].entries)
          /\ \A j \in 1..Len(c[i].entries) : old[j] = At(hp, c[i].entries[j])
        BY <1>3, ValuesType
    <2>2. /\ Len(new) = Len(c[i].entries)
          /\ \A j \in 1..Len(c[i].entries) : new[j] = At(hp2, c[i].entries[j])
        BY <1>15, <1>21, ValuesType
    <2>. HIDE DEF new, old
    <2>3. ASSUME NEW j \in 1..Len(c[i].entries)
          PROVE  new[j].from = old[j].from /\ new[j].name = old[j].name
        <3>1. c[i].entries[j] \in References(hp)
            BY <1>3
        <3>2. SameFile(new[j], old[j])
            BY <1>8, <1>17, <2>1, <2>2, <3>1
        <3>. QED
            BY <3>2 DEF SameFile
    <2>4. ProperListing(c[i].class, c[i].loaded, old)
        BY <1>3, ListedOnceIs DEF old
    <2>5. ProperListing(c[i].class, c[i].loaded, new)
        BY <2>1, <2>2, <2>3, <2>4 DEF ProperListing
    <2>. QED
        BY <1>15, <1>21, <2>5, ListedOnceIs DEF new
<1>23. Sound(c, hp2)
    <2>. DEFINE X == Node(hp2)
    <2>1. \A i \in 1..Len(c) : c[i] \in X
        BY <1>21
    <2>2. c \in Seq(Node(hp))
        BY <1>3 DEF Sound, Nodes
    <2>. HIDE DEF X
    <2>3. c \in Seq(X)
        BY <2>1, <2>2
    <2>. QED
        BY <1>3, <1>15, <1>22, <2>3 DEF Sound, Nodes, X
<1>24. Effect(c, hp, c, hp2)
    BY <1>20, <1>23 DEF Effect
<1>25. Values(c[1], hp2) = changed.entries
    <2>1. Values(c[1], hp2) = [j \in 1..Len(own) |-> At(hp2, own[j])]
        BY <1>4 DEF Values
    <2>2. ASSUME NEW j \in 1..Len(own) PROVE At(hp2, own[j]) = changed.entries[j]
        BY <1>3, <1>6, <1>17
    <2>3. changed.entries = [j \in 1..Len(own) |-> changed.entries[j]]
        OBVIOUS
    <2>. QED
        BY <2>1, <2>2, <2>3
<1>26. ASSUME NEW i \in 2..Len(c) PROVE Values(c[i], hp2) = Values(c[i], hp)
    <2>1. i \in 1..Len(c) /\ i # 1
        BY <1>3
    <2>2. ASSUME NEW j \in 1..Len(c[i].entries) PROVE c[i].entries[j] \notin S
        <3>1. SUFFICES ASSUME c[i].entries[j] \in S PROVE FALSE
            OBVIOUS
        <3>2. PICK l \in 1..Len(c[1].entries) : c[i].entries[j] = c[1].entries[l]
            BY <1>5, <3>1
        <3>3. i = 1
            <4>1. Private(c) /\ 1 \in 1..Len(c) /\ i \in 1..Len(c)
                BY <1>3, <2>1 DEF Sound
            <4>. QED
                BY <2>2, <3>2, <4>1, Zenon DEF Private
        <3>. QED
            BY <2>1, <3>3
    <2>. HIDE DEF S
    <2>. QED
        BY <1>3, <1>18, <2>1, <2>2, NodeKept
<1>. QED
    BY <1>2, <1>24, <1>25, <1>26 DEF s, c, hp, hp2

\* entries() succeeded or not, and then the entries were changed.
LEMMA SetMethodIs ==
    ASSUME NEW c, NEW hp, Sound(c, hp), Len(c) > 0, NEW limit, NEW small, NEW large
    PROVE  LET r == SetMethod(c, hp, limit, small, large)
           IN  Effect(c, hp, r.c, r.heap)
<1>. DEFINE e == Entries(c, hp)
            values == Values(e.c[1], e.heap)
            changed == SetMethods(values, limit, small, large)
            s == Changed(e, changed)
            r == SetMethod(c, hp, limit, small, large)
<1>1. Effect(c, hp, e.c, e.heap)
    BY EntriesIs
<1>2. Sound(e.c, e.heap) /\ Len(e.c) > 0 /\ Len(e.c) \in Nat
    BY <1>1, SoundNodes DEF Effect
<1>3. r = e \/ r = s
    BY DEF SetMethod
<1>. HIDE DEF e, r
<1>4. e.c[1] \in Node(e.heap) /\ e.heap \in Heap
    BY <1>2, SoundNodes
<1>5. /\ values \in Seq(Entry) /\ Len(values) = Len(e.c[1].entries)
      /\ \A j \in 1..Len(e.c[1].entries) : values[j] = At(e.heap, e.c[1].entries[j])
    BY <1>4, ValuesType
<1>. HIDE DEF values
<1>6. /\ changed.entries \in Seq(Entry) /\ Len(changed.entries) = Len(values)
      /\ \A i \in 1..Len(values) : SameFile(changed.entries[i], values[i])
    BY <1>5, SetMethodsIs
<1>. HIDE DEF changed
<1>7. s.c = e.c /\ Effect(e.c, e.heap, s.c, s.heap)
    BY <1>2, <1>5, <1>6, ChangedIs
<1>8. Effect(c, hp, s.c, s.heap)
    BY <1>1, <1>7, EffectOnEffect
<1>. HIDE DEF s
<1>. QED
    BY <1>1, <1>3, <1>8 DEF r

\* setLevel() lists objects and writes to entries of this collection only.
LEMMA SetLevelIs ==
    ASSUME NEW c, NEW hp, Sound(c, hp), Len(c) > 0, NEW limit, NEW small, NEW large
    PROVE  LET r == SetLevel(c, hp, limit, small, large)
           IN  Effect(c, hp, r.c, r.heap)
<1>. DEFINE e == Entries(c, hp)
            values == Values(e.c[1], e.heap)
            changed == SetLevels(values, limit, small, large)
            s == Changed(e, changed)
            r == SetLevel(c, hp, limit, small, large)
<1>1. Effect(c, hp, e.c, e.heap)
    BY EntriesIs
<1>2. Sound(e.c, e.heap) /\ Len(e.c) > 0 /\ Len(e.c) \in Nat
    BY <1>1, SoundNodes DEF Effect
<1>3. r = e \/ r = s
    BY DEF SetLevel
<1>. HIDE DEF e, r
<1>4. e.c[1] \in Node(e.heap) /\ e.heap \in Heap
    BY <1>2, SoundNodes
<1>5. /\ values \in Seq(Entry) /\ Len(values) = Len(e.c[1].entries)
      /\ \A j \in 1..Len(e.c[1].entries) : values[j] = At(e.heap, e.c[1].entries[j])
    BY <1>4, ValuesType
<1>. HIDE DEF values
<1>6. /\ changed.entries \in Seq(Entry) /\ Len(changed.entries) = Len(values)
      /\ \A i \in 1..Len(values) : SameFile(changed.entries[i], values[i])
    BY <1>5, SetLevelsIs
<1>. HIDE DEF changed
<1>7. s.c = e.c /\ Effect(e.c, e.heap, s.c, s.heap)
    BY <1>2, <1>5, <1>6, ChangedIs
<1>8. Effect(c, hp, s.c, s.heap)
    BY <1>1, <1>7, EffectOnEffect
<1>. HIDE DEF s
<1>. QED
    BY <1>1, <1>3, <1>8 DEF r

-----------------------------------------------------------------------------
(* The calls that make collections. *)

\* clone() makes a collection whose entries are all new.
LEMMA CloneIs ==
    ASSUME NEW c, NEW hp, Sound(c, hp)
    PROVE  LET r == Clone(c, hp)
           IN  /\ Effect(c, hp, r.c, r.heap) /\ Keeps(hp, r.heap, {})
               /\ \A ref \in Holds(r.c) : ref \notin References(hp)
               /\ \A i \in 1..Len(c) : r.c[i].valid = c[i].valid
<1>. DEFINE d == [i \in DOMAIN c |-> CopyEntries(c[i], hp, i)]
            blocks == [i \in DOMAIN c |-> Values(c[i], hp)]
            hp2 == Allocated(hp, blocks)
            r == Clone(c, hp)
<1>1. r = [c |-> d, heap |-> hp2, thrown |-> "none", out |-> << >>]
    BY DEF Clone, Returned
<1>2. /\ hp \in Heap /\ Len(c) \in Nat /\ DOMAIN c = 1..Len(c)
      /\ \A i \in 1..Len(c) : c[i] \in Node(hp) /\ HasPath(c[i]) /\ ListedOnce(c[i], hp)
    BY SoundNodes
<1>3. \A i \in 1..Len(c) : Values(c[i], hp) \in Seq(Entry)
    BY <1>2, ValuesType
<1>4. blocks \in Seq(Seq(Entry)) /\ Len(blocks) = Len(c)
    <2>. DEFINE X == Seq(Entry)
                b(i) == Values(c[i], hp)
    <2>1. \A i \in 1..Len(c) : b(i) \in X
        BY <1>3
    <2>2. blocks = [i \in 1..Len(c) |-> b(i)]
        BY <1>2
    <2>. HIDE DEF X, b, blocks
    <2>3. blocks \in Seq(X) /\ Len(blocks) = Len(c)
        BY <1>2, <2>1, <2>2
    <2>. QED
        BY <2>3 DEF X
<1>5. /\ DOMAIN d = 1..Len(c) /\ d = [i \in 1..Len(c) |-> d[i]]
      /\ \A i \in 1..Len(c) : d[i] = CopyEntries(c[i], hp, i) /\ blocks[i] = Values(c[i], hp)
    BY <1>2
<1>. HIDE DEF d, blocks
<1>6. Keeps(hp, hp2, {})
    BY <1>2, <1>4, AllocatedKeeps
<1>7. ASSUME NEW i \in 1..Len(c)
      PROVE  /\ NodeEffect(d[i], c[i], hp, hp2, i) /\ Continues(d[i], c[i], hp, i, 0)
             /\ Profile(d[i]) = Profile(c[i])
    <2>1. i \in 1..Len(blocks) /\ blocks[i] = Values(c[i], hp) /\ d[i] = CopyEntries(c[i], hp, i)
        BY <1>4, <1>5
    <2>. QED
        BY <1>2, <1>4, <2>1, CopyEntriesIs
<1>. HIDE DEF hp2
<1>8. d \in Seq(Node(hp2)) /\ Len(d) = Len(c) /\ DOMAIN d = 1..Len(d)
    <2>. DEFINE X == Node(hp2)
    <2>1. \A i \in 1..Len(c) : d[i] \in X
        BY <1>7 DEF NodeEffect
    <2>. HIDE DEF X
    <2>2. d \in Seq(X) /\ Len(d) = Len(c)
        BY <1>2, <1>5, <2>1
    <2>. QED
        BY <1>5, <2>2 DEF X
<1>9. Effect(c, hp, d, hp2)
    BY <1>6, <1>7, <1>8, Grown
<1>10. ASSUME NEW ref \in Holds(d) PROVE ref \notin References(hp)
    <2>1. PICK i \in 1..Len(c) : \E j \in 1..Len(d[i].entries) : ref = d[i].entries[j]
        BY <1>8, HoldsIs
    <2>2. PICK j \in 1..Len(d[i].entries) : ref = d[i].entries[j]
        BY <2>1
    <2>3. ~(j <= 0)
        OBVIOUS
    <2>4. Continues(d[i], c[i], hp, i, 0)
        BY <1>7
    <2>5. d[i].entries[j] = << Len(hp) + 1, i, j - 0 >>
        BY <2>3, <2>4 DEF Continues
    <2>6. ref[1] = Len(hp) + 1
        BY <2>2, <2>5
    <2>7. Len(hp) \in Nat
        <3>1. hp \in Seq(Seq(Seq(Entry)))
            BY <1>2 DEF Heap
        <3>. QED
            BY <3>1
    <2>8. ref \in References(hp) => ref[1] \in 1..Len(hp)
        BY <1>2, ReferenceIs
    <2>. QED
        BY <2>6, <2>7, <2>8
<1>11. r.c = d /\ r.heap = hp2
    <2>. HIDE DEF r
    <2>. QED
        BY <1>1
<1>12. \A i \in 1..Len(c) : d[i].valid = c[i].valid
    BY <1>7, ProfileIs
<1>. HIDE DEF r
<1>. QED
    BY <1>6, <1>9, <1>10, <1>11, <1>12 DEF r

\* A new collection is one object, without entries.
LEMMA NewCollectionIs ==
    ASSUME NEW class \in Class, NEW hp \in Heap
    PROVE  LET c == NewCollection(class)
           IN  /\ Len(c) = 1 /\ c[1] \in Node(hp) /\ c[1].class = class /\ c[1].entries = << >>
               /\ c[1].depth = 0 /\ c[1].valid = TRUE /\ c[1].loaded = FALSE
               /\ c \in Seq(Node(hp)) /\ IsTree(c)
<1>. DEFINE none == << >>
            path == ""
            node == [class |-> class, valid |-> TRUE, loaded |-> FALSE, path |-> path,
                     recursive |-> TRUE, entries |-> none, depth |-> 0]
            c == << node >>
<1>1. none \in Seq(References(hp)) /\ path \in Name \cup {""}
    OBVIOUS
<1>2. NewCollection(class) = c
    BY DEF NewCollection
<1>. HIDE DEF none, path
<1>3. /\ node \in Node(hp) /\ node.class = class /\ node.entries = none /\ node.depth = 0
      /\ node.valid = TRUE /\ node.loaded = FALSE
    BY <1>1 DEF Node
<1>. HIDE DEF node
<1>4. Len(c) = 1 /\ c[1] = node /\ c \in Seq(Node(hp))
    BY <1>3
<1>. HIDE DEF c
<1>5. IsTree(c)
    BY <1>3, <1>4 DEF IsTree
<1>. QED
    BY <1>2, <1>3, <1>4, <1>5 DEF none

\* A collection of one object without entries.
LEMMA BareIs ==
    ASSUME NEW hp \in Heap, NEW c \in Seq(Node(hp)), Len(c) = 1, c[1].entries = << >>,
           c[1].depth = 0, HasPath(c[1])
    PROVE  Sound(c, hp) /\ IsTree(c) /\ Holds(c) = {}
<1>1. \A i \in 1..Len(c) : i = 1 /\ Len(c[i].entries) = 0
    OBVIOUS
<1>2. Holds(c) = {}
    BY <1>1, HoldsIs
<1>3. Private(c)
    BY <1>1 DEF Private
<1>4. ListedOnce(c[1], hp)
    BY DEF ListedOnce, Values
<1>5. IsTree(c)
    BY DEF IsTree
<1>. QED
    BY <1>1, <1>2, <1>3, <1>4, <1>5 DEF Sound, Nodes

\* The DirectoryCollection constructor makes a sound collection that holds no
\* entry.
LEMMA DirectoryIs ==
    ASSUME NEW path \in Name, NEW recursive \in BOOLEAN, NEW hp \in Heap
    PROVE  LET c == Directory(path, recursive)
           IN  Sound(c, hp) /\ IsTree(c) /\ Holds(c) = {}
<1>. DEFINE class == "DirectoryCollection"
            old == NewCollection(class)[1]
            valid == IsDirectory(path) \/ IsRegular(path)
            node == [old EXCEPT !.valid = valid, !.path = path, !.recursive = recursive]
            c == << node >>
<1>1. Directory(path, recursive) = c
    BY DEF Directory
<1>2. valid \in BOOLEAN
    BY DEF IsDirectory, IsRegular, Exists
<1>3. class \in Class
    BY DEF Class
<1>. HIDE DEF valid, class
<1>4. /\ old \in Node(hp) /\ old.class = class /\ old.entries = << >> /\ old.depth = 0
    BY <1>3, NewCollectionIs
<1>. HIDE DEF old
<1>5. /\ node \in Node(hp) /\ node.entries = << >> /\ node.depth = 0 /\ node.path = path
    BY <1>2, <1>4 DEF Node
<1>. HIDE DEF node
<1>6. c \in Seq(Node(hp)) /\ Len(c) = 1 /\ c[1] = node
    BY <1>5
<1>7. HasPath(node)
    BY <1>5 DEF HasPath
<1>. HIDE DEF c
<1>. QED
    BY <1>1, <1>5, <1>6, <1>7, BareIs

\* So do those of an empty ZipFile and an empty CollectionCollection.
LEMMA EmptyCollectionIs ==
    ASSUME NEW class \in {"ZipFile", "CollectionCollection"}, NEW hp \in Heap
    PROVE  LET c == NewCollection(class)
           IN  Sound(c, hp) /\ IsTree(c) /\ Holds(c) = {}
<1>. DEFINE c == NewCollection(class)
<1>1. class \in Class
    BY DEF Class
<1>2. /\ Len(c) = 1 /\ c[1].class = class /\ c[1].entries = << >> /\ c[1].depth = 0
      /\ c \in Seq(Node(hp))
    BY <1>1, NewCollectionIs
<1>. HIDE DEF c
<1>3. HasPath(c[1])
    BY <1>2 DEF HasPath
<1>. QED
    BY <1>2, <1>3, BareIs DEF c

\* close() leaves a sound collection that holds no entry.
LEMMA ClosedIs ==
    ASSUME NEW c, NEW hp, Sound(c, hp), IsTree(c)
    PROVE  Sound(Closed(c), hp) /\ IsTree(Closed(c)) /\ Holds(Closed(c)) = {}
<1>. DEFINE d == Closed(c)
            node == ClosedNode(c[1])
<1>1. c[1] \in Node(hp) /\ hp \in Heap /\ c[1].depth = 0
    BY SoundNodes DEF IsTree
<1>2. NodeEffect(node, c[1], hp, hp, 1)
    BY <1>1, ClosedNodeIs
<1>3. node \in Node(hp) /\ node.depth = 0 /\ HasPath(node)
    BY <1>1, <1>2 DEF NodeEffect
<1>4. node.entries = << >>
    BY <1>1 DEF ClosedNode, Node
<1>5. d = << node >>
    BY DEF Closed
<1>. HIDE DEF node, d
<1>6. d \in Seq(Node(hp)) /\ Len(d) = 1 /\ d[1] = node
    BY <1>3, <1>5
<1>. QED
    BY <1>1, <1>3, <1>4, <1>6, BareIs DEF d

\* A sequence of one block.
LEMMA OneBlock ==
    ASSUME NEW X, NEW b \in X
    PROVE  << b >> \in Seq(X) /\ Len(<< b >>) = 1 /\ << b >>[1] = b
OBVIOUS

\* What the program adds is an entry, and not one of a listing.
LEMMA AddedEntryType ==
    ASSUME NEW name \in Name, NEW from \in {"program", "stream"}
    PROVE  LET entry == IF from = "stream"
                        THEN NewEntry(name, from, TRUE, IsDirectory(name), 1)
                        ELSE [DirectoryEntry(name) EXCEPT !.from = from]
           IN  entry \in Entry /\ entry.from # "listing"
<1>1. CASE from = "stream"
    <2>. DEFINE directory == IsDirectory(name)
                valid == TRUE
                size == 1
                entry == NewEntry(name, from, valid, directory, size)
    <2>1. /\ directory \in BOOLEAN /\ valid \in BOOLEAN /\ size \in 0..1
          /\ from \in {"listing", "archive", "program", "stream"}
        BY DEF IsDirectory, Exists
    <2>2. entry = NewEntry(name, from, TRUE, IsDirectory(name), 1)
        OBVIOUS
    <2>. HIDE DEF directory, valid, size, entry
    <2>3. entry \in Entry /\ entry.from = from
        BY <2>1, NewEntryType DEF entry
    <2>. QED
        BY <1>1, <2>2, <2>3
<1>2. CASE from # "stream"
    <2>. DEFINE old == DirectoryEntry(name)
                entry == [old EXCEPT !.from = from]
    <2>1. old \in Entry
        BY DirectoryEntryType
    <2>2. from \in {"listing", "archive", "program", "stream"} /\ from # "listing"
        OBVIOUS
    <2>. HIDE DEF old
    <2>3. /\ entry \in EntryType /\ entry.from = from /\ entry.directory = old.directory
          /\ entry.method = old.method /\ entry.level = old.level
        BY <2>1, <2>2 DEF Entry, EntryType
    <2>. HIDE DEF entry
    <2>4. entry.directory => Uncompressed(entry)
        BY <2>1, <2>3 DEF Entry, Uncompressed
    <2>5. entry \in Entry
        BY <2>3, <2>4 DEF Entry
    <2>. QED
        BY <1>2, <2>2, <2>3, <2>5 DEF entry, old
<1>. QED
    BY <1>1, <1>2

\* addEntry() appends a copy of its own of the entry, or throws.
LEMMA AddEntryIs ==
    ASSUME NEW c, NEW hp, Sound(c, hp), Len(c) > 0, NEW name \in Name,
           NEW from \in {"program", "stream"}
    PROVE  LET r == AddEntry(c, hp, name, from)
           IN  Effect(c, hp, r.c, r.heap)
<1>. DEFINE entry == IF from = "stream" THEN NewEntry(name, from, TRUE, IsDirectory(name), 1)
                     ELSE [DirectoryEntry(name) EXCEPT !.from = from]
            block == << entry >>
            blocks == << block >>
            hp2 == Allocated(hp, blocks)
            new == WithEntries(c[1], hp, 1, block)
            d == [c EXCEPT ![1] = new]
            r == AddEntry(c, hp, name, from)
<1>1. r = [c |-> d, heap |-> hp2, thrown |-> "none", out |-> << >>]
    BY DEF AddEntry, Returned
<1>2. r.c = d /\ r.heap = hp2
    <2>. HIDE DEF r, d, hp2
    <2>. QED
        BY <1>1
<1>3. entry \in Entry /\ entry.from # "listing"
    BY AddedEntryType
<1>. HIDE DEF entry
<1>4. block \in Seq(Entry) /\ Len(block) = 1 /\ block[1] = entry
    BY <1>3
<1>. HIDE DEF block
<1>5. blocks \in Seq(Seq(Entry)) /\ Len(blocks) = 1 /\ blocks[1] = block
    BY <1>4
<1>. HIDE DEF blocks
<1>6. /\ hp \in Heap /\ Len(c) \in Nat /\ DOMAIN c = 1..Len(c) /\ 1 \in 1..Len(c)
      /\ \A i \in 1..Len(c) : c[i] \in Node(hp) /\ HasPath(c[i]) /\ ListedOnce(c[i], hp)
    BY SoundNodes
<1>7. Keeps(hp, hp2, {}) /\ hp2 \in Heap
    BY <1>5, <1>6, AllocatedKeeps DEF Keeps
<1>8. /\ new \in Node(hp2) /\ Profile(new) = Profile(c[1])
      /\ Continues(new, c[1], hp, 1, Len(c[1].entries))
      /\ Values(new, hp2) = Values(c[1], hp) \o block
    <2>. DEFINE first == 1
                node == c[first]
                made == WithEntries(node, hp, first, blocks[first])
    <2>1. first \in 1..Len(blocks) /\ node \in Node(hp)
        BY <1>5, <1>6
    <2>2. made = new /\ node = c[1] /\ first = 1 /\ blocks[first] = block
        BY <1>5
    <2>. HIDE DEF first, node, made, new, hp2
    <2>3. /\ made \in Node(hp2) /\ Profile(made) = Profile(node)
          /\ Continues(made, node, hp, first, Len(node.entries))
          /\ Values(made, hp2) = Values(node, hp) \o blocks[first]
        BY <1>5, <1>6, <2>1, WithEntriesIs DEF made, hp2
    <2>. QED
        BY <2>2, <2>3
<1>. HIDE DEF new, hp2
<1>9. NodeEffect(new, c[1], hp, hp2, 1)
    <2>1. new.class = c[1].class /\ new.valid = c[1].valid /\ new.loaded = c[1].loaded
          /\ new.path = c[1].path /\ new.depth = c[1].depth
        BY <1>8, ProfileIs
    <2>2. HasPath(new)
        BY <1>6, <2>1 DEF HasPath
    <2>3. ProperListing(c[1].class, c[1].loaded, Values(c[1], hp))
        BY <1>6, ListedOnceIs
    <2>4. Values(c[1], hp) \in Seq(Entry)
        BY <1>6, ValuesType
    <2>5. ProperListing(c[1].class, c[1].loaded, Values(c[1], hp) \o block)
        BY <1>3, <2>3, <2>4, EntryAdded DEF block
    <2>6. ListedOnce(new, hp2)
        BY <1>7, <1>8, <2>1, <2>5, ListedOnceIs
    <2>. QED
        BY <1>8, <2>1, <2>2, <2>6 DEF NodeEffect
<1>10. DOMAIN d = 1..Len(c) /\ \A i \in 1..Len(c) : d[i] = IF i = 1 THEN new ELSE c[i]
    BY <1>6
<1>11. d = [i \in 1..Len(c) |-> d[i]]
    BY <1>10
<1>. HIDE DEF d
<1>12. \A i \in 1..Len(c) : NodeEffect(d[i], c[i], hp, hp2, i)
    <2>1. ASSUME NEW i \in 1..Len(c), i # 1 PROVE NodeEffect(d[i], c[i], hp, hp2, i)
        BY <1>6, <1>7, <1>10, <2>1, LeftAlone
    <2>. QED
        BY <1>9, <1>10, <2>1
<1>13. d \in Seq(Node(hp2)) /\ Len(d) = Len(c) /\ DOMAIN d = 1..Len(d)
    <2>. DEFINE X == Node(hp2)
    <2>1. \A i \in 1..Len(c) : d[i] \in X
        BY <1>12 DEF NodeEffect
    <2>. HIDE DEF X
    <2>2. d \in Seq(X) /\ Len(d) = Len(c)
        BY <1>6, <1>11, <2>1
    <2>. QED
        BY <1>10, <2>2 DEF X
<1>14. Effect(c, hp, d, hp2)
    BY <1>7, <1>12, <1>13, Grown
<1>. HIDE DEF r
<1>. QED
    BY <1>2, <1>14 DEF r

\* ZipFile()
LEMMA ZipFileIs ==
    ASSUME NEW hp \in Heap, NEW entries \in Seq(Entry)
    PROVE  LET old == NewCollection("ZipFile")
               d == << WithEntries(old[1], hp, 1, entries) >>
               hp2 == Allocated(hp, << entries >>)
           IN  /\ Sound(d, hp2) /\ IsTree(d) /\ Keeps(hp, hp2, {})
               /\ \A ref \in Holds(d) : ref \notin References(hp)
<1>. DEFINE class == "ZipFile"
            old == NewCollection(class)
            blocks == << entries >>
            new == WithEntries(old[1], hp, 1, blocks[1])
            d == << new >>
            hp2 == Allocated(hp, blocks)
<1>1. class \in Class /\ class \in {"ZipFile", "CollectionCollection"} /\ class # "DirectoryCollection"
    BY DEF Class
<1>2. blocks \in Seq(Seq(Entry)) /\ Len(blocks) = 1 /\ blocks[1] = entries
    OBVIOUS
<1>. HIDE DEF class, old, blocks
<1>3. Sound(old, hp) /\ IsTree(old) /\ Holds(old) = {}
    BY <1>1, EmptyCollectionIs DEF old
<1>4. Len(old) = 1 /\ old[1] \in Node(hp) /\ old[1].class = class
    BY <1>1, NewCollectionIs DEF old
<1>5. Keeps(hp, hp2, {}) /\ hp2 \in Heap
    BY <1>2, AllocatedKeeps DEF Keeps
<1>6. /\ new \in Node(hp2) /\ Profile(new) = Profile(old[1])
      /\ Continues(new, old[1], hp, 1, Len(old[1].entries))
    <2>. DEFINE first == 1
                node == old[first]
                made == WithEntries(node, hp, first, blocks[first])
    <2>1. first \in 1..Len(blocks) /\ node \in Node(hp)
        BY <1>2, <1>4
    <2>2. made = new /\ node = old[1] /\ first = 1
        OBVIOUS
    <2>. HIDE DEF first, node, made, new, hp2
    <2>3. /\ made \in Node(hp2) /\ Profile(made) = Profile(node)
          /\ Continues(made, node, hp, first, Len(node.entries))
        BY <1>2, <2>1, WithEntriesIs DEF made, hp2
    <2>. QED
        BY <2>2, <2>3
<1>. HIDE DEF new, hp2
<1>7. NodeEffect(new, old[1], hp, hp2, 1)
    <2>1. new.class = class /\ new.depth = old[1].depth /\ new.class = old[1].class
        BY <1>4, <1>6, ProfileIs
    <2>2. HasPath(new) /\ ListedOnce(new, hp2)
        BY <1>1, <2>1 DEF HasPath, ListedOnce
    <2>. QED
        BY <1>6, <2>1, <2>2 DEF NodeEffect
<1>8. d \in Seq(Node(hp2)) /\ Len(d) = 1 /\ DOMAIN d = 1..Len(d) /\ d[1] = new
    BY <1>6
<1>. HIDE DEF d
<1>9. \A i \in 1..Len(old) : NodeEffect(d[i], old[i], hp, hp2, i)
    <2>1. \A i \in 1..Len(old) : i = 1
        BY <1>4
    <2>. QED
        BY <1>7, <1>8, <2>1
<1>10. Effect(old, hp, d, hp2)
    BY <1>3, <1>4, <1>5, <1>8, <1>9, Grown
<1>11. Sound(d, hp2) /\ \A ref \in Holds(d) : ref \notin References(hp)
    BY <1>3, <1>10 DEF Effect
<1>12. IsTree(d)
    BY <1>3, <1>4, <1>10, TreeKept DEF Effect
<1>. QED
    BY <1>2, <1>5, <1>11, <1>12 DEF d, new, hp2, blocks, old, class

\* The objects of c as a child of another collection.
Lowered(c) == [i \in DOMAIN c |-> [c[i] EXCEPT !.depth = @ + 1]]

\* Moving a collection one level down changes nothing but its depths.
LEMMA LoweredIs ==
    ASSUME NEW c, NEW hp, Sound(c, hp)
    PROVE  /\ Sound(Lowered(c), hp) /\ Len(Lowered(c)) = Len(c)
           /\ Holds(Lowered(c)) = Holds(c)
           /\ \A i \in 1..Len(c) : /\ Lowered(c)[i].depth = c[i].depth + 1
                                   /\ Lowered(c)[i].class = c[i].class
                                   /\ Lowered(c)[i].valid = c[i].valid
<1>. DEFINE d == Lowered(c)
<1>1. /\ hp \in Heap /\ Len(c) \in Nat /\ DOMAIN c = 1..Len(c) /\ Private(c)
      /\ \A i \in 1..Len(c) : c[i] \in Node(hp) /\ HasPath(c[i]) /\ ListedOnce(c[i], hp)
    BY SoundNodes DEF Sound
<1>2. /\ d = [i \in 1..Len(c) |-> d[i]] /\ DOMAIN d = 1..Len(c)
      /\ \A i \in 1..Len(c) : d[i] = [c[i] EXCEPT !.depth = @ + 1]
    BY <1>1 DEF Lowered
<1>. HIDE DEF d
<1>3. ASSUME NEW i \in 1..Len(c)
      PROVE  /\ d[i] \in Node(hp) /\ d[i].entries = c[i].entries /\ d[i].class = c[i].class
             /\ d[i].valid = c[i].valid /\ d[i].path = c[i].path /\ d[i].loaded = c[i].loaded
             /\ d[i].depth = c[i].depth + 1
    <2>. DEFINE node == c[i]
                depth == node.depth + 1
    <2>1. node \in Node(hp)
        BY <1>1
    <2>2. node.depth \in Nat
        BY <2>1 DEF Node
    <2>3. depth \in Nat
        BY <2>2
    <2>4. d[i] = [node EXCEPT !.depth = depth]
        BY <1>2
    <2>. HIDE DEF depth, node
    <2>5. /\ d[i] \in Node(hp) /\ d[i].entries = node.entries /\ d[i].class = node.class
          /\ d[i].valid = node.valid /\ d[i].path = node.path /\ d[i].loaded = node.loaded
          /\ d[i].depth = depth
        BY <2>1, <2>3, <2>4 DEF Node
    <2>. QED
        BY <2>5 DEF depth, node
<1>4. d \in Seq(Node(hp)) /\ Len(d) = Len(c)
    <2>. DEFINE X == Node(hp)
    <2>1. \A i \in 1..Len(c) : d[i] \in X
        BY <1>3
    <2>. HIDE DEF X
    <2>2. d \in Seq(X) /\ Len(d) = Len(c)
        BY <1>1, <1>2, <2>1
    <2>. QED
        BY <2>2 DEF X
<1>5. ASSUME NEW ref PROVE ref \in Holds(d) <=> ref \in Holds(c)
    <2>1. ref \in Holds(d) <=> \E i \in 1..Len(c) : \E j \in 1..Len(d[i].entries) : ref = d[i].entries[j]
        BY <1>4, HoldsIs
    <2>2. ref \in Holds(c) <=> \E i \in 1..Len(c) : \E j \in 1..Len(c[i].entries) : ref = c[i].entries[j]
        BY HoldsIs
    <2>. QED
        BY <1>3, <2>1, <2>2
<1>6. Private(d)
    <2>1. ASSUME NEW i \in 1..Len(d), NEW k \in 1..Len(d),
                 NEW j \in 1..Len(d[i].entries), NEW l \in 1..Len(d[k].entries),
                 d[i].entries[j] = d[k].entries[l]
          PROVE  i = k /\ j = l
        <3>1. i \in 1..Len(c) /\ k \in 1..Len(c)
            BY <1>4
        <3>2. d[i].entries = c[i].entries /\ d[k].entries = c[k].entries
            BY <1>3, <3>1
        <3>3. j \in 1..Len(c[i].entries) /\ l \in 1..Len(c[k].entries)
              /\ c[i].entries[j] = c[k].entries[l]
            BY <2>1, <3>2
        <3>4. Private(c)
            BY <1>1
        <3>5. \A x \in 1..Len(c[i].entries), y \in 1..Len(c[k].entries) :
                c[i].entries[x] = c[k].entries[y] => i = k /\ x = y
            BY <3>1, <3>4, Zenon DEF Private
        <3>. QED
            BY <3>3, <3>5, Zenon
    <2>. QED
        BY <2>1 DEF Private
<1>7. ASSUME NEW i \in 1..Len(c) PROVE HasPath(d[i]) /\ ListedOnce(d[i], hp)
    <2>1. HasPath(c[i]) /\ ListedOnce(c[i], hp)
        BY <1>1
    <2>2. HasPath(d[i])
        BY <1>3, <2>1 DEF HasPath
    <2>3. Values(d[i], hp) = Values(c[i], hp)
        BY <1>3 DEF Values
    <2>4. ListedOnce(d[i], hp)
        BY <1>1, <1>3, <2>1, <2>3, ListedOnceIs
    <2>. QED
        BY <2>2, <2>4
<1>8. Sound(d, hp)
    BY <1>1, <1>4, <1>6, <1>7 DEF Sound, Nodes
<1>. QED
    BY <1>3, <1>4, <1>5, <1>8 DEF d

\* Two collections that have no entry in common, one after the other.
LEMMA JoinedIs ==
    ASSUME NEW c, NEW e, NEW hp, Sound(c, hp), Sound(e, hp), Holds(c) \cap Holds(e) = {}
    PROVE  /\ Sound(c \o e, hp) /\ Holds(c \o e) = Holds(c) \cup Holds(e)
<1>. DEFINE d == c \o e
            n == Len(c)
<1>1. /\ hp \in Heap /\ n \in Nat /\ Private(c)
      /\ \A i \in 1..n :
            /\ c[i] \in Node(hp) /\ HasPath(c[i]) /\ ListedOnce(c[i], hp)
            /\ \A j \in 1..Len(c[i].entries) : c[i].entries[j] \in Holds(c)
    BY SoundNodes DEF Sound
<1>2. /\ Len(e) \in Nat /\ Private(e)
      /\ \A i \in 1..Len(e) :
            /\ e[i] \in Node(hp) /\ HasPath(e[i]) /\ ListedOnce(e[i], hp)
            /\ \A j \in 1..Len(e[i].entries) : e[i].entries[j] \in Holds(e)
    BY SoundNodes DEF Sound
<1>3. /\ d \in Seq(Node(hp)) /\ Len(d) = n + Len(e)
      /\ \A i \in 1..n : d[i] = c[i]
      /\ \A i \in 1..Len(e) : d[n + i] = e[i]
      /\ \A i \in 1..Len(d) :
            /\ i <= n => i \in 1..n /\ d[i] = c[i]
            /\ i > n => i - n \in 1..Len(e) /\ d[i] = e[i - n]
    <2>1. c \in Seq(Node(hp)) /\ e \in Seq(Node(hp))
        BY DEF Sound, Nodes
    <2>. QED
        BY <2>1, JoinIs
<1>. HIDE DEF d, n
<1>4. ASSUME NEW i \in 1..Len(d)
      PROVE  \/ i \in 1..n /\ d[i] = c[i]
             \/ i - n \in 1..Len(e) /\ d[i] = e[i - n]
    <2>1. i <= n \/ i > n
        BY <1>1
    <2>. QED
        BY <1>3, <2>1
<1>5. \A i \in 1..Len(d) : HasPath(d[i]) /\ ListedOnce(d[i], hp)
    BY <1>1, <1>2, <1>4
<1>6. ASSUME NEW i \in 1..Len(d), NEW k \in 1..Len(d),
             NEW j \in 1..Len(d[i].entries), NEW l \in 1..Len(d[k].entries),
             d[i].entries[j] = d[k].entries[l]
      PROVE  i = k /\ j = l
    <2>1. CASE i \in 1..n /\ d[i] = c[i] /\ k \in 1..n /\ d[k] = c[k]
        <3>1. c[i].entries[j] = c[k].entries[l]
              /\ j \in 1..Len(c[i].entries) /\ l \in 1..Len(c[k].entries)
            BY <1>6, <2>1
        <3>2. i \in 1..Len(c) /\ k \in 1..Len(c)
            BY <2>1 DEF n
        <3>3. \A x \in 1..Len(c[i].entries), y \in 1..Len(c[k].entries) :
                c[i].entries[x] = c[k].entries[y] => i = k /\ x = y
            BY <1>1, <3>2, Zenon DEF Private
        <3>. QED
            BY <3>1, <3>3, Zenon
    <2>2. CASE i - n \in 1..Len(e) /\ d[i] = e[i - n] /\ k - n \in 1..Len(e) /\ d[k] = e[k - n]
        <3>. DEFINE ii == i - n
                    kk == k - n
        <3>1. (ii = kk => i = k)
            BY <1>1
        <3>2. ii \in 1..Len(e) /\ kk \in 1..Len(e) /\ d[i] = e[ii] /\ d[k] = e[kk]
            BY <2>2
        <3>. HIDE DEF ii, kk
        <3>3. e[ii].entries[j] = e[kk].entries[l]
              /\ j \in 1..Len(e[ii].entries) /\ l \in 1..Len(e[kk].entries)
            BY <1>6, <3>2
        <3>4. ii = kk /\ j = l
            BY <1>2, <3>2, <3>3, PrivateIs
        <3>. QED
            BY <3>1, <3>4
    <2>3. CASE i \in 1..n /\ d[i] = c[i] /\ k - n \in 1..Len(e) /\ d[k] = e[k - n]
        <3>1. d[i].entries[j] \in Holds(c) /\ d[k].entries[l] \in Holds(e)
            BY <1>1, <1>2, <2>3
        <3>. QED
            BY <1>6, <3>1
    <2>4. CASE i - n \in 1..Len(e) /\ d[i] = e[i - n] /\ k \in 1..n /\ d[k] = c[k]
        <3>1. d[i].entries[j] \in Holds(e) /\ d[k].entries[l] \in Holds(c)
            BY <1>1, <1>2, <2>4
        <3>. QED
            BY <1>6, <3>1
    <2>. QED
        BY <1>4, <2>1, <2>2, <2>3, <2>4
<1>7. Private(d)
    BY <1>6 DEF Private
<1>8. ASSUME NEW ref \in Holds(d) PROVE ref \in Holds(c) \cup Holds(e)
    <2>1. PICK i \in 1..Len(d) : \E j \in 1..Len(d[i].entries) : ref = d[i].entries[j]
        BY HoldsIs
    <2>2. CASE i \in 1..n /\ d[i] = c[i]
        BY <1>1, <2>1, <2>2
    <2>3. CASE i - n \in 1..Len(e) /\ d[i] = e[i - n]
        BY <1>2, <2>1, <2>3
    <2>. QED
        BY <1>4, <2>2, <2>3
<1>9. ASSUME NEW ref \in Holds(c) PROVE ref \in Holds(d)
    <2>1. PICK i \in 1..n : \E j \in 1..Len(c[i].entries) : ref = c[i].entries[j]
        BY HoldsIs DEF n
    <2>2. i \in 1..Len(d) /\ d[i] = c[i]
        BY <1>1, <1>2, <1>3
    <2>. QED
        BY <2>1, <2>2, HoldsIs
<1>10. ASSUME NEW ref \in Holds(e) PROVE ref \in Holds(d)
    <2>1. PICK i \in 1..Len(e) : \E j \in 1..Len(e[i].entries) : ref = e[i].entries[j]
        BY HoldsIs
    <2>. DEFINE k == n + i
    <2>2. k \in 1..Len(d) /\ d[k] = e[i]
        BY <1>1, <1>2, <1>3
    <2>. HIDE DEF k
    <2>. QED
        BY <2>1, <2>2, HoldsIs
<1>11. Sound(d, hp)
    BY <1>1, <1>3, <1>5, <1>7 DEF Sound, Nodes
<1>. QED
    BY <1>8, <1>9, <1>10, <1>11 DEF d

\* A collection with a member appended, one level down, is a tree.
LEMMA AdoptedTree ==
    ASSUME NEW c, NEW e, NEW hp, Sound(c, hp), Sound(e, hp), IsTree(c), IsTree(e),
           c[1].class = "CollectionCollection"
    PROVE  IsTree(c \o Lowered(e))
<1>. DEFINE f == Lowered(e)
            d == c \o f
            n == Len(c)
<1>1. /\ n \in Nat /\ n > 0 /\ c[1].depth = 0
      /\ \A i \in 1..n : c[i] \in Node(hp) /\ c[i].depth \in Nat
    BY SoundNodes DEF IsTree, Node
<1>2. /\ Len(e) \in Nat /\ Len(e) > 0 /\ e[1].depth = 0
      /\ \A i \in 1..Len(e) : e[i].depth \in Nat
    BY SoundNodes DEF IsTree, Node
<1>3. /\ Sound(f, hp) /\ Len(f) = Len(e)
      /\ \A i \in 1..Len(e) : f[i].depth = e[i].depth + 1 /\ f[i].class = e[i].class
    BY LoweredIs
<1>4. /\ Len(d) = n + Len(f)
      /\ \A i \in 1..n : d[i] = c[i]
      /\ \A i \in 1..Len(f) : d[n + i] = f[i]
    <2>1. c \in Seq(Node(hp)) /\ f \in Seq(Node(hp))
        BY <1>3 DEF Sound, Nodes
    <2>. HIDE DEF f
    <2>. QED
        BY <2>1, JoinIs
<1>. HIDE DEF d, f, n
<1>. DEFINE Follows(i) ==
                /\ d[i].depth \in 1..d[i - 1].depth + 1
                /\ d[i].depth > d[i - 1].depth => d[i - 1].class = "CollectionCollection"
<1>5. ASSUME NEW i \in 2..n PROVE Follows(i)
    <2>. DEFINE k == i - 1
    <2>1. i \in 1..n /\ k \in 1..n
        BY <1>1
    <2>2. d[i] = c[i] /\ d[k] = c[k]
        BY <1>4, <2>1
    <2>3. /\ c[i].depth \in 1..c[k].depth + 1
          /\ c[i].depth > c[k].depth => c[k].class = "CollectionCollection"
        BY DEF IsTree, n
    <2>. QED
        BY <2>2, <2>3
<1>6. Follows(n + 1)
    <2>1. f[1].depth = 1 /\ 1 \in 1..Len(f)
        BY <1>2, <1>3
    <2>2. d[n + 1] = f[1] /\ d[n] = c[n] /\ n \in 1..n /\ (n + 1) - 1 = n
        BY <1>1, <1>4, <2>1
    <2>3. c[n].depth \in Nat
        BY <1>1, <2>2
    <2>4. c[n].depth = 0 => c[n].class = "CollectionCollection"
        <3>1. CASE n = 1
            BY <3>1
        <3>2. CASE n # 1
            <4>. DEFINE k == n - 1
            <4>1. n \in 2..n /\ k \in 1..n
                BY <1>1, <3>2
            <4>2. c[n].depth \in 1..c[k].depth + 1
                BY <4>1 DEF IsTree, n
            <4>3. c[k].depth \in Nat
                BY <1>1, <4>1
            <4>. QED
                BY <4>2, <4>3
        <3>. QED
            BY <3>1, <3>2
    <2>5. d[n + 1].depth = 1 /\ d[(n + 1) - 1].depth = c[n].depth
          /\ d[(n + 1) - 1].class = c[n].class
        BY <2>1, <2>2
    <2>6. 1 \in 1..c[n].depth + 1 /\ (1 > c[n].depth => c[n].depth = 0)
        BY <2>3
    <2>. QED
        BY <2>4, <2>5, <2>6
<1>7. ASSUME NEW i \in 2..Len(e) PROVE Follows(n + i)
    <2>. DEFINE k == i - 1
    <2>1. i \in 1..Len(e) /\ k \in 1..Len(e) /\ (n + i) - 1 = n + k
        BY <1>1, <1>2
    <2>2. /\ e[i].depth \in 1..e[k].depth + 1
          /\ e[i].depth > e[k].depth => e[k].class = "CollectionCollection"
        BY DEF IsTree
    <2>3. e[i].depth \in Nat /\ e[k].depth \in Nat
        BY <1>2, <2>1
    <2>. HIDE DEF k
    <2>4. d[n + i] = f[i] /\ d[n + k] = f[k]
        BY <1>3, <1>4, <2>1
    <2>5. d[n + i].depth = e[i].depth + 1 /\ d[n + k].depth = e[k].depth + 1
          /\ d[n + k].class = e[k].class
        BY <1>3, <2>1, <2>4
    <2>6. /\ e[i].depth + 1 \in 1..(e[k].depth + 1) + 1
          /\ e[i].depth + 1 > e[k].depth + 1 => e[i].depth > e[k].depth
        <3>. DEFINE a == e[i].depth
                    b == e[k].depth
        <3>1. a \in Nat /\ b \in Nat /\ a \in 1..b + 1
            BY <2>2, <2>3
        <3>. HIDE DEF a, b
        <3>2. a + 1 \in 1..(b + 1) + 1 /\ (a + 1 > b + 1 => a > b)
            BY <3>1
        <3>. QED
            BY <3>2 DEF a, b
    <2>. QED
        BY <2>1, <2>2, <2>5, <2>6
<1>8. ASSUME NEW i \in 2..Len(d) PROVE Follows(i)
    <2>. DEFINE k == i - n
    <2>1. i \in 2..n \/ k = 1 \/ k \in 2..Len(e)
        BY <1>1, <1>2, <1>3, <1>4
    <2>2. n + k = i
        BY <1>1
    <2>. HIDE DEF k, Follows
    <2>. QED
        BY <1>5, <1>6, <1>7, <2>1, <2>2
<1>9. Len(d) > 0 /\ d[1].depth = 0
    BY <1>1, <1>2, <1>3, <1>4
<1>. QED
    BY <1>8, <1>9 DEF IsTree, d, f

-----------------------------------------------------------------------------
(* The inductive invariant. *)

\* The collections of the variables are sound, and no entry is in two of them.
Program(vs, hp) ==
    /\ hp \in Heap /\ vs \in [Var -> Nodes(hp)]
    /\ \A v \in Var : Sound(vs[v], hp) /\ IsTree(vs[v])
    /\ \A v, w \in Var : v # w => Holds(vs[v]) \cap Holds(vs[w]) = {}

\* What a call on one of them may do to it and to the heap.
CallEffect(c, hp, d, hp2) ==
    /\ Sound(d, hp2) /\ IsTree(d)
    /\ Keeps(hp, hp2, Holds(c))
    /\ \A ref \in Holds(d) : ref \in Holds(c) \/ ref \notin References(hp)

\* A collection that has none of the entries that change.
LEMMA Untouched ==
    ASSUME NEW c, NEW hp, Sound(c, hp), NEW hp2, NEW S, Keeps(hp, hp2, S),
           Holds(c) \cap S = {}
    PROVE  Sound(c, hp2) /\ View(c, hp2) = View(c, hp)
<1>1. /\ hp \in Heap /\ Len(c) \in Nat /\ DOMAIN c = 1..Len(c) /\ Private(c)
      /\ \A i \in 1..Len(c) :
            /\ c[i] \in Node(hp) /\ HasPath(c[i]) /\ ListedOnce(c[i], hp)
            /\ \A j \in 1..Len(c[i].entries) : c[i].entries[j] \in Holds(c)
    BY SoundNodes DEF Sound
<1>2. hp2 \in Heap
    BY DEF Keeps
<1>3. ASSUME NEW i \in 1..Len(c)
      PROVE  /\ c[i] \in Node(hp2) /\ HasPath(c[i]) /\ ListedOnce(c[i], hp2)
             /\ Values(c[i], hp2) = Values(c[i], hp)
    <2>. DEFINE node == c[i]
    <2>1. node \in Node(hp) /\ HasPath(node) /\ ListedOnce(node, hp)
        BY <1>1
    <2>2. \A j \in 1..Len(node.entries) : node.entries[j] \notin S
        BY <1>1
    <2>. HIDE DEF node
    <2>3. NodeEffect(node, node, hp, hp2, i) /\ Values(node, hp2) = Values(node, hp)
        BY <1>1, <2>1, <2>2, LeftAlone
    <2>. QED
        BY <2>3 DEF NodeEffect, node
<1>4. c \in Nodes(hp2)
    <2>. DEFINE X == Node(hp2)
                Y == Node(hp)
    <2>1. c \in Seq(Y)
        BY DEF Sound, Nodes
    <2>2. \A i \in 1..Len(c) : c[i] \in X
        BY <1>3
    <2>. HIDE DEF X, Y
    <2>3. c \in Seq(X)
        BY <1>1, <2>1, <2>2
    <2>. QED
        BY <2>3 DEF X, Nodes
<1>5. Sound(c, hp2)
    BY <1>1, <1>2, <1>3, <1>4 DEF Sound
<1>6. View(c, hp2) = View(c, hp)
    BY <1>1, <1>3 DEF View
<1>. QED
    BY <1>5, <1>6

Updated(new, vs, v, d) == new = [vs EXCEPT ![v] = d]

\* A call that has such an effect on one variable keeps the program's
\* collections sound and apart, and shows in no other variable.
LEMMA CallKeeps ==
    ASSUME NEW vs, NEW hp, Program(vs, hp), NEW v \in Var, NEW d, NEW hp2,
           CallEffect(vs[v], hp, d, hp2), NEW new, Updated(new, vs, v, d)
    PROVE  /\ Program(new, hp2)
           /\ \A w \in Var : w # v => View(new[w], hp2) = View(vs[w], hp)
<1>1. /\ \A w \in Var : Sound(vs[w], hp) /\ IsTree(vs[w])
      /\ \A u, w \in Var : u # w => Holds(vs[u]) \cap Holds(vs[w]) = {}
      /\ DOMAIN vs = Var
    BY DEF Program
<1>2. /\ Sound(d, hp2) /\ IsTree(d) /\ Keeps(hp, hp2, Holds(vs[v]))
      /\ \A ref \in Holds(d) : ref \in Holds(vs[v]) \/ ref \notin References(hp)
    BY DEF CallEffect
<1>3. DOMAIN new = Var /\ new[v] = d /\ \A w \in Var : w # v => new[w] = vs[w]
    BY <1>1 DEF Updated
<1>4. new = [w \in Var |-> new[w]]
    BY <1>1 DEF Updated
<1>5. ASSUME NEW w \in Var, w # v
      PROVE  /\ Sound(new[w], hp2) /\ IsTree(new[w])
             /\ View(new[w], hp2) = View(vs[w], hp)
             /\ Holds(new[w]) \cap Holds(new[v]) = {}
    <2>1. Holds(vs[w]) \cap Holds(vs[v]) = {}
        BY <1>1, <1>5
    <2>2. Sound(vs[w], hp2) /\ View(vs[w], hp2) = View(vs[w], hp)
        BY <1>1, <1>2, <2>1, Untouched
    <2>3. \A ref \in Holds(vs[w]) : ref \in References(hp)
        BY <1>1, HeldExists
    <2>4. Holds(vs[w]) \cap Holds(d) = {}
        BY <1>2, <2>1, <2>3
    <2>. QED
        BY <1>1, <1>3, <1>5, <2>2, <2>4
<1>6. \A w \in Var : Sound(new[w], hp2) /\ IsTree(new[w])
    BY <1>2, <1>3, <1>5
<1>7. ASSUME NEW u \in Var, NEW w \in Var, u # w
      PROVE  Holds(new[u]) \cap Holds(new[w]) = {}
    <2>1. CASE u = v
        BY <1>5, <1>7, <2>1
    <2>2. CASE w = v
        BY <1>5, <1>7, <2>2
    <2>3. CASE u # v /\ w # v
        BY <1>1, <1>3, <1>7, <2>3
    <2>. QED
        BY <2>1, <2>2, <2>3
<1>8. \A w \in Var : new[w] \in Nodes(hp2)
    BY <1>6 DEF Sound
<1>9. new \in [Var -> Nodes(hp2)]
    BY <1>4, <1>8
<1>10. Program(new, hp2)
    BY <1>2, <1>6, <1>7, <1>9 DEF Program, Sound
<1>. QED
    BY <1>5, <1>10

\* What the invariant says of one variable.
LEMMA ProgramIs ==
    ASSUME NEW vs, NEW hp, Program(vs, hp), NEW v \in Var
    PROVE  /\ Sound(vs[v], hp) /\ IsTree(vs[v]) /\ hp \in Heap
           /\ Len(vs[v]) \in Nat /\ Len(vs[v]) > 0
BY SoundNodes DEF Program, IsTree

\* A call that keeps the objects of the collection.
LEMMA EffectIs ==
    ASSUME NEW c, NEW hp, Sound(c, hp), IsTree(c), NEW d, NEW hp2, Effect(c, hp, d, hp2)
    PROVE  CallEffect(c, hp, d, hp2)
BY SoundNodes, TreeKept DEF Effect, CallEffect

\* A collection that is made anew.
LEMMA FreshIs ==
    ASSUME NEW c, NEW hp, NEW d, NEW hp2, Sound(d, hp2), IsTree(d), Keeps(hp, hp2, {}),
           \A ref \in Holds(d) : ref \notin References(hp)
    PROVE  CallEffect(c, hp, d, hp2)
BY DEF CallEffect, Keeps

\* A heap that is not written to keeps everything.
LEMMA KeepsAll ==
    ASSUME NEW hp \in Heap, NEW S
    PROVE  Keeps(hp, hp, S)
BY DEF Keeps, Heap

\* addCollection(): the copy becomes part of the collection.
LEMMA AdoptedIs ==
    ASSUME NEW c, NEW e, NEW hp, Sound(c, hp), Sound(e, hp), IsTree(c), IsTree(e),
           c[1].class = "CollectionCollection"
    PROVE  LET r == Clone(e, hp)
           IN  CallEffect(c, hp, c \o Lowered(r.c), r.heap)
<1>. DEFINE r == Clone(e, hp)
            d == c \o Lowered(r.c)
<1>1. /\ Effect(e, hp, r.c, r.heap) /\ Keeps(hp, r.heap, {})
      /\ \A ref \in Holds(r.c) : ref \notin References(hp)
    BY CloneIs
<1>. HIDE DEF r
<1>2. Sound(r.c, r.heap) /\ IsTree(r.c)
    BY <1>1, SoundNodes, TreeKept DEF Effect
<1>3. Sound(c, r.heap)
    BY <1>1, Untouched
<1>4. \A ref \in Holds(c) : ref \in References(hp)
    BY HeldExists
<1>5. Sound(Lowered(r.c), r.heap) /\ Holds(Lowered(r.c)) = Holds(r.c)
    BY <1>2, LoweredIs
<1>6. Holds(c) \cap Holds(Lowered(r.c)) = {}
    BY <1>1, <1>4, <1>5
<1>7. Sound(d, r.heap) /\ Holds(d) = Holds(c) \cup Holds(r.c)
    BY <1>3, <1>5, <1>6, JoinedIs
<1>8. IsTree(d)
    BY <1>2, <1>3, AdoptedTree
<1>. HIDE DEF d
<1>. QED
    BY <1>1, <1>7, <1>8 DEF CallEffect, Keeps, d, r

\* No step shows in the collections of two variables.
OthersKept(v) == \A w \in Var : w # v => View(var'[w], heap') = View(var[w], heap)

\* A step that is a call on v.
LEMMA CallStep ==
    ASSUME Program(var, heap), NEW v \in Var, NEW d, NEW hp2,
           CallEffect(var[v], heap, d, hp2),
           var' = [var EXCEPT ![v] = d], heap' = hp2
    PROVE  Program(var', heap') /\ OthersKept(v)
<1>. DEFINE new == [var EXCEPT ![v] = d]
<1>1. var' = new /\ Updated(new, var, v, d)
    BY DEF Updated
<1>. HIDE DEF new
<1>2. Program(new, hp2) /\ \A w \in Var : w # v => View(new[w], hp2) = View(var[w], heap)
    BY <1>1, CallKeeps
<1>3. Program(var', heap')
    BY <1>1, <1>2, Zenon
<1>4. \A w \in Var : w # v => View(var'[w], heap') = View(var[w], heap)
    BY <1>1, <1>2, Zenon
<1>. QED
    BY <1>3, <1>4 DEF OthersKept

-----------------------------------------------------------------------------
(* Each action keeps it, and shows in the collection of one variable. *)

Kept(v) == Program(var', heap') /\ OthersKept(v)

\* A step that changes no collection and no entry is seen in none.
LEMMA UnchangedStep ==
    ASSUME Program(var, heap), UNCHANGED << var, heap >>, NEW v \in Var
    PROVE  Kept(v)
BY Zenon DEF Kept, OthersKept

\* A call with an effect on its own variable is seen in no other.
LEMMA EffectStep ==
    ASSUME Program(var, heap), NEW v \in Var, NEW r, Call(v, r),
           Effect(var[v], heap, r.c, r.heap)
    PROVE  Kept(v)
<1>1. Sound(var[v], heap) /\ IsTree(var[v])
    BY ProgramIs
<1>2. CallEffect(var[v], heap, r.c, r.heap)
    BY <1>1, EffectIs
<1>. QED
    BY <1>2, CallStep DEF Call, Kept

\* The DirectoryCollection constructor.
LEMMA NewDirectoryStep ==
    ASSUME Program(var, heap), NEW v \in Var, NEW path \in Name, NEW recursive \in BOOLEAN,
           NewDirectory(v, path, recursive)
    PROVE  Kept(v)
<1>. DEFINE d == Directory(path, recursive)
<1>1. heap \in Heap
    BY DEF Program
<1>2. Sound(d, heap) /\ IsTree(d) /\ Holds(d) = {}
    BY <1>1, DirectoryIs
<1>3. var' = [var EXCEPT ![v] = d] /\ heap' = heap
    BY DEF NewDirectory
<1>. HIDE DEF d
<1>4. CallEffect(var[v], heap, d, heap)
    BY <1>1, <1>2, FreshIs, KeepsAll
<1>. QED
    BY <1>3, <1>4, CallStep DEF Kept

\* The CollectionCollection constructor.
LEMMA NewCollectionsStep ==
    ASSUME Program(var, heap), NEW v \in Var, NewCollections(v)
    PROVE  Kept(v)
<1>. DEFINE class == "CollectionCollection"
            d == NewCollection(class)
<1>1. heap \in Heap /\ class \in {"ZipFile", "CollectionCollection"}
    BY DEF Program
<1>2. var' = [var EXCEPT ![v] = d] /\ heap' = heap
    BY DEF NewCollections
<1>. HIDE DEF class
<1>3. Sound(d, heap) /\ IsTree(d) /\ Holds(d) = {}
    BY <1>1, EmptyCollectionIs
<1>. HIDE DEF d
<1>4. CallEffect(var[v], heap, d, heap)
    BY <1>1, <1>3, FreshIs, KeepsAll
<1>. QED
    BY <1>2, <1>4, CallStep DEF Kept

\* The ZipFile constructor, which reads the entries of its archive.
LEMMA NewZipFileStep ==
    ASSUME Program(var, heap), NEW v \in Var, NEW names \in Seq(Name), NewZipFile(v, names)
    PROVE  Kept(v)
<1>. DEFINE from == "archive"
            valid == TRUE
            directory == FALSE
            size == 1
            entries == [i \in DOMAIN names |->
                            NewEntry(names[i], from, valid, directory, size)]
            old == NewCollection("ZipFile")
            d == << WithEntries(old[1], heap, 1, entries) >>
            hp2 == Allocated(heap, << entries >>)
            r == Returned(d, hp2, << >>)
<1>1. heap \in Heap
    BY DEF Program
<1>2. from \in {"listing", "archive", "program", "stream"} /\ valid \in BOOLEAN
      /\ directory \in BOOLEAN /\ size \in 0..1
    OBVIOUS
<1>3. Call(v, r)
    BY DEF NewZipFile
<1>4. r.c = d /\ r.heap = hp2
    BY DEF Returned
<1>. HIDE DEF from, valid, directory, size, r, d, hp2
<1>5. entries \in Seq(Entry)
    <2>1. DOMAIN names = 1..Len(names) /\ Len(names) \in Nat
          /\ \A i \in 1..Len(names) : names[i] \in Name
        OBVIOUS
    <2>. DEFINE entry(i) == NewEntry(names[i], from, valid, directory, size)
    <2>2. \A i \in 1..Len(names) : entry(i) \in Entry
        BY <1>2, <2>1, NewEntryType
    <2>. HIDE DEF entry
    <2>3. [i \in 1..Len(names) |-> entry(i)] \in Seq(Entry)
        BY <2>1, <2>2
    <2>. QED
        BY <2>1, <2>3 DEF entry
<1>. HIDE DEF entries
<1>6. /\ Sound(d, hp2) /\ IsTree(d) /\ Keeps(heap, hp2, {})
      /\ \A ref \in Holds(d) : ref \notin References(heap)
    BY <1>1, <1>5, ZipFileIs DEF d, hp2
<1>. HIDE DEF old
<1>7. CallEffect(var[v], heap, d, hp2)
    BY <1>6, FreshIs
<1>8. var' = [var EXCEPT ![v] = d] /\ heap' = hp2
    BY <1>3, <1>4 DEF Call
<1>. QED
    BY <1>7, <1>8, CallStep DEF Kept

\* Assigning one collection to the variable of another.
LEMMA AssignStep ==
    ASSUME Program(var, heap), NEW v \in Var, NEW w \in Var, Assign(v, w)
    PROVE  Kept(v)
<1>. DEFINE r == Clone(var[w], heap)
<1>1. Sound(var[w], heap) /\ IsTree(var[w]) /\ Len(var[w]) \in Nat
    BY ProgramIs
<1>2. /\ Effect(var[w], heap, r.c, r.heap) /\ Keeps(heap, r.heap, {})
      /\ \A ref \in Holds(r.c) : ref \notin References(heap)
    BY <1>1, CloneIs
<1>3. Call(v, r)
    BY DEF Assign
<1>. HIDE DEF r
<1>4. Sound(r.c, r.heap) /\ IsTree(r.c)
    BY <1>1, <1>2, TreeKept DEF Effect
<1>5. CallEffect(var[v], heap, r.c, r.heap)
    BY <1>2, <1>4, FreshIs
<1>. QED
    BY <1>3, <1>5, CallStep DEF Call, Kept

\* addCollection(), which clones the collection it is given.
LEMMA AddCollectionStep ==
    ASSUME Program(var, heap), NEW v \in Var, NEW w \in Var, AddCollection(v, w)
    PROVE  Kept(v)
<1>1. /\ Sound(var[v], heap) /\ IsTree(var[v]) /\ Sound(var[w], heap) /\ IsTree(var[w])
    BY ProgramIs
<1>2. var[v][1].class = "CollectionCollection"
    BY DEF AddCollection
<1>. DEFINE r == Clone(var[w], heap)
            d == var[v] \o Lowered(r.c)
<1>3. CASE Adopt(v, r)
    <2>1. CallEffect(var[v], heap, d, r.heap)
        BY <1>1, <1>2, AdoptedIs
    <2>2. heap' = r.heap
        BY <1>3 DEF Adopt
    <2>3. var' = [var EXCEPT ![v] = d]
        <3>1. v \in DOMAIN var
            BY DEF Program
        <3>. HIDE DEF r
        <3>. QED
            BY <1>3, <3>1 DEF Adopt, Lowered
    <2>. HIDE DEF d, r
    <2>. QED
        BY <2>1, <2>2, <2>3, CallStep DEF Kept
<1>4. CASE UNCHANGED << heap, var >>
    BY <1>4, UnchangedStep
<1>. QED
    BY <1>3, <1>4 DEF AddCollection

\* close().
LEMMA CloseStep ==
    ASSUME Program(var, heap), NEW v \in Var, Close(v)
    PROVE  Kept(v)
<1>. DEFINE d == Closed(var[v])
<1>1. Sound(var[v], heap) /\ IsTree(var[v]) /\ heap \in Heap
    BY ProgramIs
<1>2. Sound(d, heap) /\ IsTree(d) /\ Holds(d) = {}
    BY <1>1, ClosedIs
<1>3. var' = [var EXCEPT ![v] = d] /\ heap' = heap
    BY DEF Close
<1>. HIDE DEF d
<1>4. CallEffect(var[v], heap, d, heap)
    BY <1>1, <1>2, FreshIs, KeepsAll
<1>. QED
    BY <1>3, <1>4, CallStep DEF Kept

\* The calls that list, search, open and change entries.
LEMMA OrdinaryStep ==
    ASSUME Program(var, heap), NEW v \in Var,
           \/ \E name \in Name, from \in {"program", "stream"} : AddEntryTo(v, name, from)
           \/ CallEntries(v) \/ CallSize(v)
           \/ \E name, matchpath :
                CallGetEntry(v, name, matchpath) \/ CallGetInputStream(v, name, matchpath)
           \/ \E limit, small, large :
                CallSetMethod(v, limit, small, large) \/ CallSetLevel(v, limit, small, large)
    PROVE  Kept(v)
<1>. DEFINE c == var[v]
<1>1. Sound(c, heap) /\ IsTree(c) /\ Len(c) > 0
    BY ProgramIs
<1>2. ASSUME NEW name \in Name, NEW from \in {"program", "stream"}, AddEntryTo(v, name, from)
      PROVE  Kept(v)
    <2>1. Effect(c, heap, AddEntry(c, heap, name, from).c, AddEntry(c, heap, name, from).heap)
        BY <1>1, AddEntryIs
    <2>. QED
        BY <1>2, <2>1, EffectStep DEF AddEntryTo
<1>3. CASE CallEntries(v)
    BY <1>1, <1>3, EntriesIs, EffectStep DEF CallEntries
<1>4. CASE CallSize(v)
    BY <1>1, <1>4, SizeIs, EffectStep DEF CallSize
<1>5. ASSUME NEW name, NEW matchpath, CallGetEntry(v, name, matchpath) PROVE Kept(v)
    <2>1. Effect(c, heap, GetEntry(c, heap, name, matchpath).c,
                 GetEntry(c, heap, name, matchpath).heap)
        BY <1>1, GetEntryIs
    <2>. QED
        BY <1>5, <2>1, EffectStep DEF CallGetEntry
<1>6. ASSUME NEW name, NEW matchpath, CallGetInputStream(v, name, matchpath) PROVE Kept(v)
    <2>1. Effect(c, heap, GetInputStream(c, heap, name, matchpath).c,
                 GetInputStream(c, heap, name, matchpath).heap)
        BY <1>1, GetInputStreamIs
    <2>. QED
        BY <1>6, <2>1, EffectStep DEF CallGetInputStream
<1>7. ASSUME NEW limit, NEW small, NEW large, CallSetMethod(v, limit, small, large) PROVE Kept(v)
    <2>1. Effect(c, heap, SetMethod(c, heap, limit, small, large).c,
                 SetMethod(c, heap, limit, small, large).heap)
        BY <1>1, SetMethodIs
    <2>. QED
        BY <1>7, <2>1, EffectStep DEF CallSetMethod
<1>8. ASSUME NEW limit, NEW small, NEW large, CallSetLevel(v, limit, small, large) PROVE Kept(v)
    <2>1. Effect(c, heap, SetLevel(c, heap, limit, small, large).c,
                 SetLevel(c, heap, limit, small, large).heap)
        BY <1>1, SetLevelIs
    <2>. QED
        BY <1>8, <2>1, EffectStep DEF CallSetLevel
<1>. QED
    BY <1>2, <1>3, <1>4, <1>5, <1>6, <1>7, <1>8

\* A call on one variable, or a file that vanishes or is locked.
LEMMA StepIs ==
    ASSUME Program(var, heap), Step
    PROVE  \/ UNCHANGED << heap, var >>
           \/ \E v \in Var : Kept(v)
<1>1. ASSUME NEW name \in Name, Vanish(name) \/ Lock(name) PROVE UNCHANGED << heap, var >>
    BY <1>1 DEF Vanish, Lock
<1>2. ASSUME NEW v \in Var, NEW path \in Paths, NEW recursive \in BOOLEAN,
             NewDirectory(v, path, recursive)
      PROVE  Kept(v)
    BY <1>2, NewDirectoryStep, FilesAssumption
<1>3. ASSUME NEW v \in Var, NewCollections(v) PROVE Kept(v)
    BY <1>3, NewCollectionsStep
<1>4. ASSUME NEW v \in Var, NEW names \in {<< >>, ArchiveNames}, NewZipFile(v, names)
      PROVE  Kept(v)
    <2>. DEFINE none == << >>
    <2>1. none \in Seq(Name) /\ ArchiveNames \in Seq(Name)
        BY FilesAssumption
    <2>2. names = none \/ names = ArchiveNames
        OBVIOUS
    <2>. HIDE DEF none
    <2>3. names \in Seq(Name)
        BY <2>1, <2>2
    <2>. QED
        BY <1>4, <2>3, NewZipFileStep
<1>5. ASSUME NEW v \in Var, NEW w \in Var, Assign(v, w) \/ AddCollection(v, w) PROVE Kept(v)
    BY <1>5, AssignStep, AddCollectionStep
<1>6. ASSUME NEW v \in Var, Close(v) PROVE Kept(v)
    BY <1>6, CloseStep
<1>7. ASSUME NEW v \in Var,
             \/ \E name \in Added, from \in {"program", "stream"} : AddEntryTo(v, name, from)
             \/ CallEntries(v) \/ CallSize(v)
             \/ \E w \in Wanted :
                 CallGetEntry(v, w[1], w[2]) \/ CallGetInputStream(v, w[1], w[2])
             \/ \E limit \in Limits, m \in MethodChoices : CallSetMethod(v, limit, m[1], m[2])
             \/ \E limit \in Limits, l \in LevelChoices : CallSetLevel(v, limit, l[1], l[2])
      PROVE  Kept(v)
    <2>1. Added \subseteq Name
        BY FilesAssumption
    <2>2. \/ \E name \in Name, from \in {"program", "stream"} : AddEntryTo(v, name, from)
          \/ CallEntries(v) \/ CallSize(v)
          \/ \E name, matchpath :
                CallGetEntry(v, name, matchpath) \/ CallGetInputStream(v, name, matchpath)
          \/ \E limit, small, large :
                CallSetMethod(v, limit, small, large) \/ CallSetLevel(v, limit, small, large)
        BY <1>7, <2>1, Zenon
    <2>. QED
        BY <2>2, OrdinaryStep
<1>. QED
    BY <1>1, <1>2, <1>3, <1>4, <1>5, <1>6, <1>7 DEF Step

IInv ==
    /\ disk \subseteq Name /\ locked \subseteq Name /\ steps \in 0..MaxSteps
    /\ Program(var, heap)

\* The program starts with collections that are sound and hold no entry.
LEMMA InitHolds ==
    ASSUME Init
    PROVE  IInv
<1>. DEFINE empty == << >>
            class == "CollectionCollection"
            recursive == TRUE
<1>1. empty \in Heap /\ heap = empty /\ class \in {"ZipFile", "CollectionCollection"}
      /\ recursive \in BOOLEAN
    BY DEF Init, Heap
<1>2. DOMAIN var = Var /\ var = [v \in Var |-> var[v]]
    BY DEF Init
<1>3. \A v \in Var : \/ var[v] = NewCollection(class)
                     \/ \E path \in Name : var[v] = Directory(path, recursive)
    BY FilesAssumption DEF Init
<1>. HIDE DEF empty, class, recursive
<1>4. ASSUME NEW v \in Var
      PROVE  Sound(var[v], heap) /\ IsTree(var[v]) /\ Holds(var[v]) = {}
    BY <1>1, <1>3, EmptyCollectionIs, DirectoryIs
<1>5. \A v \in Var : var[v] \in Nodes(heap)
    BY <1>4 DEF Sound
<1>6. var \in [Var -> Nodes(heap)]
    BY <1>2, <1>5
<1>7. Program(var, heap)
    BY <1>1, <1>4, <1>6 DEF Program
<1>8. disk \subseteq Name /\ locked \subseteq Name /\ steps \in 0..MaxSteps
    BY FilesAssumption DEF Init
<1>. QED
    BY <1>7, <1>8 DEF IInv

\* What happens to the disk stays among its names.
LEMMA DiskKept ==
    ASSUME disk \subseteq Name, locked \subseteq Name, Step
    PROVE  disk' \subseteq Name /\ locked' \subseteq Name
<1>1. ASSUME NEW name \in Name, Vanish(name) \/ Lock(name)
      PROVE  disk' \subseteq Name /\ locked' \subseteq Name
    BY <1>1 DEF Vanish, Lock
<1>2. ASSUME NEW v \in Var, NEW w \in Var, Assign(v, w) \/ AddCollection(v, w)
      PROVE  UNCHANGED << disk, locked >>
    BY <1>2 DEF Assign, AddCollection, Call
<1>3. ASSUME NEW v \in Var, NEW names, NewZipFile(v, names)
      PROVE  UNCHANGED << disk, locked >>
    BY <1>3 DEF NewZipFile, Call
<1>4. ASSUME NEW v \in Var,
             \/ \E path \in Paths, recursive \in BOOLEAN : NewDirectory(v, path, recursive)
             \/ NewCollections(v) \/ Close(v)
             \/ \E name \in Added, from \in {"program", "stream"} : AddEntryTo(v, name, from)
             \/ CallEntries(v) \/ CallSize(v)
             \/ \E w \in Wanted :
                 CallGetEntry(v, w[1], w[2]) \/ CallGetInputStream(v, w[1], w[2])
             \/ \E limit \in Limits, m \in MethodChoices : CallSetMethod(v, limit, m[1], m[2])
             \/ \E limit \in Limits, l \in LevelChoices : CallSetLevel(v, limit, l[1], l[2])
      PROVE  UNCHANGED << disk, locked >>
    BY <1>4, Zenon DEF NewDirectory, NewCollections, Close, AddEntryTo, CallEntries, CallSize,
        CallGetEntry, CallGetInputStream, CallSetMethod, CallSetLevel, Call
<1>. QED
    BY <1>1, <1>2, <1>3, <1>4 DEF Step

\* Every step keeps the invariant and is seen in the collection of one variable
\* at most.
LEMMA StepKeeps ==
    ASSUME IInv, [Next]_vars
    PROVE  IInv' /\ (UNCHANGED << heap, var >> \/ \E v \in Var : Kept(v))
<1>1. CASE UNCHANGED vars
    <2>1. UNCHANGED << heap, var >> /\ UNCHANGED << disk, locked, steps >>
        BY <1>1 DEF vars
    <2>. QED
        BY <2>1, Zenon DEF IInv
<1>2. CASE Next
    <2>1. Step /\ steps' \in 0..MaxSteps
        BY <1>2, FilesAssumption DEF Next, IInv
    <2>2. UNCHANGED << heap, var >> \/ \E v \in Var : Kept(v)
        BY <2>1, StepIs DEF IInv
    <2>3. Program(var, heap)
        BY DEF IInv
    <2>4. Program(var', heap')
        <3>1. CASE UNCHANGED << heap, var >>
            BY <2>3, <3>1, Zenon
        <3>2. CASE \E v \in Var : Kept(v)
            BY <3>2 DEF Kept
        <3>. QED
            BY <2>2, <3>1, <3>2
    <2>5. disk' \subseteq Name /\ locked' \subseteq Name
        BY <2>1, DiskKept DEF IInv
    <2>. QED
        BY <2>1, <2>2, <2>4, <2>5 DEF IInv
<1>. QED
    BY <1>1, <1>2

\* The inductive invariant: the collections of the variables are trees of valid
\* or invalid objects as the constructors, the assignments, addCollection() and
\* close() build them, and no std::shared_ptr to an entry that copies, listings
\* and added entries hand on is in two objects, of one collection or of two.
THEOREM CollectionsAreSeparate == Spec => []IInv
<1>1. Init => IInv
    BY InitHolds
<1>2. IInv /\ [Next]_vars => IInv'
    BY StepKeeps
<1>. QED
    BY <1>1, <1>2, PTL DEF Spec

\* Every object has the fields of its class and every pointer in it is to an
\* entry that was made, whatever sequence of calls of FileCollection and its
\* three classes made the collections.
THEOREM TypeCorrect == Spec => []TypeOK
<1>1. IInv => TypeOK
    BY DEF IInv, TypeOK, Program, Heap, Nodes
<1>. QED
    BY <1>1, CollectionsAreSeparate, PTL

\* An object that has loaded its directory or its archive has every path of it
\* once, and one that has not has none: a loadEntries() that fails after part
\* of the tree was read (directorycollection.cpp:236) never leaves that part in
\* m_entries, so that the next call does not list it twice.
THEOREM ListingsAreWhole == Spec => []NoHalfListing
<1>1. IInv => NoHalfListing
    <2>1. ASSUME IInv, NEW v \in Var, NEW i \in DOMAIN var[v] PROVE ListedOnce(var[v][i], heap)
        <3>1. Sound(var[v], heap)
            BY <2>1 DEF IInv, Program
        <3>. QED
            BY <3>1, SoundNodes
    <2>. QED
        BY <2>1 DEF NoHalfListing
<1>. QED
    BY <1>1, CollectionsAreSeparate, PTL

\* A call on one variable never shows in another, in what its objects are and
\* in the values of their entries: FileCollection's copy constructor and
\* assignment (filecollection.cpp:286, 312) and those of CollectionCollection
\* clone their entries, and no setMethod() or setLevel() on a copy reaches the
\* entries of what it was copied from.
THEOREM CopiesStayIndependent == Spec => CopiesAreIndependent
<1>. DEFINE Independent ==
        \A v, w \in Var :
            v # w => \/ View(var'[v], heap') = View(var[v], heap)
                     \/ View(var'[w], heap') = View(var[w], heap)
<1>1. IInv /\ [Next]_vars => [Independent]_vars
    <2>1. ASSUME IInv, [Next]_vars, NEW v \in Var, NEW w \in Var, v # w
          PROVE  \/ View(var'[v], heap') = View(var[v], heap)
                 \/ View(var'[w], heap') = View(var[w], heap)
        <3>1. UNCHANGED << heap, var >> \/ \E u \in Var : Kept(u)
            BY <2>1, StepKeeps
        <3>2. CASE UNCHANGED << heap, var >>
            BY <3>2, Zenon
        <3>3. CASE \E u \in Var : Kept(u)
            <4>1. PICK u \in Var : OthersKept(u)
                BY <3>3 DEF Kept
            <4>2. v # u \/ w # u
                BY <2>1
            <4>. QED
                BY <4>1, <4>2 DEF OthersKept
        <3>. QED
            BY <3>1, <3>2, <3>3
    <2>. QED
        BY <2>1
<1>. QED
    BY <1>1, CollectionsAreSeparate, PTL DEF Spec, CopiesAreIndependent

-----------------------------------------------------------------------------
(* Collections that are listed already. *)

Settled(c, n) == \A i \in 1..n : ~Unlisted(c[i])

\* Appending no entry changes nothing.
LEMMA NothingAdded ==
    ASSUME NEW hp, NEW node \in Node(hp), NEW i
    PROVE  WithEntries(node, hp, i, << >>) = node
<1>. DEFINE X == References(hp)
            none == << >>
            made == [j \in 1..Len(none) |-> << Len(hp) + 1, i, j >>]
            entries == node.entries \o made
<1>1. made = << >>
    <2>1. 1..Len(none) = {}
        OBVIOUS
    <2>. QED
        BY <2>1
<1>2. node.entries \in Seq(X)
    BY NodeType
<1>. HIDE DEF made, X
<1>3. entries = node.entries
    BY <1>1, <1>2, ConcatEmptySeq
<1>4. WithEntries(node, hp, i, none) = [node EXCEPT !.entries = entries]
    BY DEF WithEntries, made
<1>. HIDE DEF entries
<1>5. [node EXCEPT !.entries = entries] = node
    BY <1>3 DEF Node
<1>. QED
    BY <1>4, <1>5

\* loadEntries() of an object that is listed does nothing.
LEMMA LoadedIsIdle ==
    ASSUME NEW hp, NEW node \in Node(hp), ~Unlisted(node), NEW i
    PROVE  /\ ~Fails(node) /\ NewEntries(node) = << >>
           /\ LoadEntries(node, hp, i) = node
<1>. DEFINE loaded == node.loaded \/ Unlisted(node)
            marked == [node EXCEPT !.loaded = loaded]
            none == << >>
<1>1. ~Fails(node) /\ NewEntries(node) = none
    BY DEF Fails, NewEntries
<1>2. loaded = node.loaded /\ loaded \in BOOLEAN
    BY DEF Node
<1>3. LoadEntries(node, hp, i) = WithEntries(marked, hp, i, none)
    BY <1>1, Zenon DEF LoadEntries
<1>. HIDE DEF loaded, none
<1>4. marked = node
    BY <1>2 DEF Node
<1>. HIDE DEF marked
<1>5. WithEntries(node, hp, i, none) = node
    BY NothingAdded DEF none
<1>. QED
    BY <1>1, <1>3, <1>4, <1>5 DEF none

\* Asking objects that are all listed does nothing.
LEMMA IdleIs ==
    ASSUME NEW c, NEW hp, Sound(c, hp), NEW n \in 0..Len(c), Settled(c, n)
    PROVE  Asked(c, hp, n) = [c |-> c, heap |-> hp, thrown |-> "none", out |-> << >>]
<1>. DEFINE d == [i \in DOMAIN c |-> IF i <= n THEN LoadEntries(c[i], hp, i) ELSE c[i]]
            blocks == [i \in DOMAIN c |-> IF i <= n THEN NewEntries(c[i]) ELSE << >>]
            hp2 == Allocated(hp, blocks)
            thrown == IF \E i \in 1..n : Fails(c[i]) THEN "IOException" ELSE "none"
<1>1. /\ hp \in Heap /\ Len(c) \in Nat /\ DOMAIN c = 1..Len(c)
      /\ \A i \in 1..Len(c) : c[i] \in Node(hp)
    BY SoundNodes
<1>2. ASSUME NEW i \in 1..Len(c), i <= n
      PROVE  ~Fails(c[i]) /\ NewEntries(c[i]) = << >> /\ LoadEntries(c[i], hp, i) = c[i]
    <2>1. i \in 1..n
        BY <1>1, <1>2
    <2>2. ~Unlisted(c[i])
        BY <2>1 DEF Settled
    <2>. QED
        BY <1>1, <2>2, LoadedIsIdle
<1>3. d = c
    <2>1. c = [i \in DOMAIN c |-> c[i]]
        BY DEF Sound, Nodes
    <2>2. \A i \in DOMAIN c : (IF i <= n THEN LoadEntries(c[i], hp, i) ELSE c[i]) = c[i]
        BY <1>1, <1>2
    <2>. QED
        BY <2>1, <2>2, Zenon
<1>4. \A i \in DOMAIN blocks : blocks[i] = << >>
    BY <1>1, <1>2
<1>5. hp2 = hp
    BY <1>4, Zenon DEF Allocated
<1>6. thrown = "none"
    <2>1. \A i \in 1..n : i \in 1..Len(c) /\ i <= n
        BY <1>1
    <2>. QED
        BY <1>2, <2>1
<1>7. Asked(c, hp, n) = [c |-> d, heap |-> hp2, thrown |-> thrown, out |-> << >>]
    BY Zenon DEF Asked
<1>. HIDE DEF d, hp2, thrown
<1>. QED
    BY <1>3, <1>5, <1>6, <1>7, Zenon

\* What entries() was asked for is listed.
LEMMA EntriesListed ==
    ASSUME NEW c, NEW hp, Sound(c, hp), Entries(c, hp).thrown = "none"
    PROVE  LET r == Asked(c, hp, Len(c))
               e == Entries(c, hp)
           IN  /\ Usable(c) /\ Failing(c) = {} /\ r.thrown = "none"
               /\ e.c = r.c /\ e.heap = r.heap
               /\ e.out = FlattenSeq([i \in DOMAIN r.c |-> Own(r.c[i])])
               /\ Sound(e.c, e.heap) /\ Len(e.c) = Len(c) /\ Usable(e.c)
               /\ Settled(e.c, Len(e.c))
<1>. DEFINE last == FirstOf(Failing(c), Len(c))
            r == Asked(c, hp, last)
            all == FlattenSeq([i \in DOMAIN r.c |-> Own(r.c[i])])
            e == Entries(c, hp)
            t == Threw(c, hp, "InvalidStateException")
<1>1. Len(c) \in Nat /\ DOMAIN c = 1..Len(c)
    BY SoundNodes
<1>2. Failing(c) \subseteq 1..Len(c) /\ last \in 0..Len(c)
    BY UsableIs
<1>3. /\ e = IF ~Usable(c) THEN t ELSE IF r.thrown # "none" THEN r ELSE [r EXCEPT !.out = all]
      /\ e.thrown = "none"
    BY Zenon DEF Entries
<1>4. t.thrown = "InvalidStateException"
    BY DEF Threw
<1>5. r = [c |-> r.c, heap |-> r.heap, thrown |-> r.thrown, out |-> << >>]
    BY DEF Asked
<1>6. r.thrown = IF \E i \in 1..last : Fails(c[i]) THEN "IOException" ELSE "none"
    BY DEF Asked
<1>. HIDE DEF all, e, t, r
<1>7. Usable(c)
    <2>1. t.thrown # "none"
        BY <1>4
    <2>. QED
        BY <1>3, <2>1
<1>8. r.thrown = "none" /\ e = [r EXCEPT !.out = all]
    BY <1>3, <1>7
<1>9. Failing(c) = {}
    <2>1. SUFFICES ASSUME Failing(c) # {} PROVE FALSE
        OBVIOUS
    <2>2. last \in Failing(c)
        BY <1>2, <2>1, FirstOfIs
    <2>. HIDE DEF last
    <2>3. last \in 1..last /\ Fails(c[last])
        BY <1>1, <1>2, <2>2 DEF Failing
    <2>4. r.thrown = "IOException"
        BY <1>6, <2>3
    <2>. QED
        BY <1>8, <2>4
<1>10. last = Len(c)
    BY <1>1, <1>9, FirstOfIs
<1>11. e = [c |-> r.c, heap |-> r.heap, thrown |-> "none", out |-> all]
    BY <1>5, <1>8
<1>. HIDE DEF last
<1>12. /\ Effect(c, hp, r.c, r.heap)
       /\ \A i \in 1..Len(c) : i <= last /\ ~Fails(c[i]) => r.c[i].valid /\ ~Unlisted(r.c[i])
    BY <1>2, <1>7, AskedIs DEF r
<1>13. \A i \in 1..Len(c) : i <= last /\ ~Fails(c[i])
    BY <1>1, <1>9, <1>10 DEF Failing
<1>14. Sound(r.c, r.heap) /\ Len(r.c) = Len(c)
    BY <1>12 DEF Effect
<1>15. DOMAIN r.c = 1..Len(r.c)
    BY <1>14, SoundNodes
<1>16. Usable(r.c) /\ Settled(r.c, Len(r.c))
    BY <1>12, <1>13, <1>14, <1>15 DEF Usable, Settled
<1>17. e.c = r.c /\ e.heap = r.heap /\ e.out = all
    BY <1>11
<1>. QED
    BY <1>7, <1>8, <1>9, <1>10, <1>14, <1>16, <1>17 DEF r, e, all

\* entries() of a collection that is listed changes nothing.
LEMMA EntriesAgain ==
    ASSUME NEW c, NEW hp, Sound(c, hp), Usable(c), Settled(c, Len(c))
    PROVE  LET e == Entries(c, hp)
           IN  e.c = c /\ e.heap = hp /\ e.thrown = "none"
<1>. DEFINE last == FirstOf(Failing(c), Len(c))
            r == Asked(c, hp, last)
            all == FlattenSeq([i \in DOMAIN r.c |-> Own(r.c[i])])
            e == Entries(c, hp)
<1>1. Len(c) \in Nat /\ DOMAIN c = 1..Len(c) /\ \A i \in 1..Len(c) : c[i] \in Node(hp)
    BY SoundNodes
<1>2. Failing(c) = {}
    BY <1>1, LoadedIsIdle DEF Failing, Settled
<1>3. last = Len(c)
    BY <1>2, FirstOfIs
<1>4. last \in 0..Len(c) /\ Settled(c, last)
    BY <1>1, <1>3
<1>. HIDE DEF last
<1>5. r = [c |-> c, heap |-> hp, thrown |-> "none", out |-> << >>]
    BY <1>4, IdleIs
<1>6. e = IF r.thrown # "none" THEN r ELSE [r EXCEPT !.out = all]
    BY Zenon DEF Entries, last
<1>. HIDE DEF r, all, e
<1>7. e.c = c /\ e.heap = hp /\ e.thrown = "none"
    BY <1>5, <1>6
<1>. QED
    BY <1>7 DEF e

-----------------------------------------------------------------------------
(* Setting levels a second time. *)

\* f is e, or e with another level.
Releveled(f, e) == f = e \/ \E level : f = WithLevel(e, level)

\* setLevel() changes no more of an entry than its level.
LEMMA LevelsChanged ==
    ASSUME NEW es \in Seq(Entry), NEW limit, NEW small, NEW large
    PROVE  LET done == SetLevels(es, limit, small, large)
           IN  \A i \in 1..Len(es) : Releveled(done.entries[i], es[i])
<1>. DEFINE choice(i) == Chosen(es[i], limit, small, large)
            refusing == {i \in DOMAIN es : ~LevelAllowed(es[i], choice(i))}
            n == Before(Len(es), refusing)
            done == [i \in DOMAIN es |-> IF i > n THEN es[i] ELSE WithLevel(es[i], choice(i))]
<1>1. DOMAIN es = 1..Len(es)
    OBVIOUS
<1>2. SetLevels(es, limit, small, large).entries = done
    BY DEF SetLevels
<1>. HIDE DEF choice, n
<1>3. \A i \in 1..Len(es) : done[i] = es[i] \/ done[i] = WithLevel(es[i], choice(i))
    BY <1>1
<1>. HIDE DEF done
<1>4. \A i \in 1..Len(es) : Releveled(done[i], es[i])
    BY <1>3, Zenon DEF Releveled
<1>. QED
    BY <1>2, <1>4

\* When no entry refuses, all are set.
LEMMA LevelsSet ==
    ASSUME NEW es \in Seq(Entry), NEW limit, NEW small, NEW large
    PROVE  LET done == SetLevels(es, limit, small, large)
           IN  /\ (done.thrown = "none") <=>
                    \A i \in 1..Len(es) : LevelAllowed(es[i], Chosen(es[i], limit, small, large))
               /\ done.thrown = "none" =>
                    done = [entries |-> [i \in 1..Len(es) |->
                                WithLevel(es[i], Chosen(es[i], limit, small, large))],
                            thrown |-> "none"]
<1>. DEFINE choice(i) == Chosen(es[i], limit, small, large)
            refusing == {i \in DOMAIN es : ~LevelAllowed(es[i], choice(i))}
            n == Before(Len(es), refusing)
            entries == [i \in DOMAIN es |->
                            IF i > n THEN es[i] ELSE WithLevel(es[i], choice(i))]
            all == [i \in 1..Len(es) |-> WithLevel(es[i], choice(i))]
            done == SetLevels(es, limit, small, large)
<1>1. DOMAIN es = 1..Len(es) /\ Len(es) \in Nat
    OBVIOUS
<1>2. done = [entries |-> entries, thrown |-> Outcome(refusing)]
    BY Zenon DEF SetLevels
<1>. HIDE DEF choice
<1>3. refusing = {} <=> \A i \in 1..Len(es) : LevelAllowed(es[i], choice(i))
    BY <1>1
<1>. HIDE DEF refusing
<1>4. (Outcome(refusing) = "none") <=> refusing = {}
    BY DEF Outcome
<1>5. refusing = {} => n = Len(es)
    BY DEF Before
<1>. HIDE DEF n
<1>6. ASSUME refusing = {} PROVE entries = all
    <2>1. \A i \in 1..Len(es) : ~(i > n)
        BY <1>1, <1>5, <1>6
    <2>. QED
        BY <1>1, <2>1
<1>. HIDE DEF entries, all, done
<1>7. done.thrown = Outcome(refusing)
    BY <1>2
<1>8. done.thrown = "none" => done = [entries |-> all, thrown |-> "none"]
    BY <1>2, <1>4, <1>6, <1>7
<1>. QED
    BY <1>3, <1>4, <1>7, <1>8 DEF done, all, choice

\* What an entry is given, allows and becomes does not depend on the level it
\* has.
LEMMA LevelAgain ==
    ASSUME NEW e \in Entry, NEW f, Releveled(f, e), NEW limit, NEW small, NEW large
    PROVE  /\ Chosen(f, limit, small, large) = Chosen(e, limit, small, large)
           /\ \A level : LevelAllowed(f, level) <=> LevelAllowed(e, level)
           /\ \A level : WithLevel(f, level) = WithLevel(e, level)
<1>1. CASE f = e
    BY <1>1, Zenon
<1>2. CASE \E level : f = WithLevel(e, level)
    <2>1. PICK first : f = WithLevel(e, first)
        BY <1>2
    <2>. DEFINE x == IF e.directory THEN COMPRESSION_LEVEL_NONE ELSE first
    <2>2. f = [e EXCEPT !.level = x]
        BY <2>1 DEF WithLevel
    <2>3. e \in EntryType
        BY DEF Entry
    <2>. HIDE DEF x
    <2>4. f.size = e.size /\ f.directory = e.directory
        BY <2>2, <2>3 DEF EntryType
    <2>5. ASSUME NEW level PROVE WithLevel(f, level) = WithLevel(e, level)
        <3>. DEFINE y == IF e.directory THEN COMPRESSION_LEVEL_NONE ELSE level
        <3>1. /\ WithLevel(f, level) = [f EXCEPT !.level = y]
              /\ WithLevel(e, level) = [e EXCEPT !.level = y]
            BY <2>4, Zenon DEF WithLevel
        <3>. HIDE DEF y
        <3>. QED
            BY <2>2, <2>3, <3>1 DEF EntryType
    <2>6. Chosen(f, limit, small, large) = Chosen(e, limit, small, large)
        BY <2>4, Zenon DEF Chosen
    <2>7. \A level : LevelAllowed(f, level) <=> LevelAllowed(e, level)
        BY <2>4, Zenon DEF LevelAllowed
    <2>. QED
        BY <2>5, <2>6, <2>7
<1>. QED
    BY <1>1, <1>2 DEF Releveled

\* Setting levels that all entries take ends the same whatever levels they had.
LEMMA LevelsAgain ==
    ASSUME NEW es \in Seq(Entry), NEW fs \in Seq(Entry), Len(fs) = Len(es),
           \A i \in 1..Len(es) : Releveled(fs[i], es[i]),
           NEW limit, NEW small, NEW large,
           SetLevels(es, limit, small, large).thrown = "none"
    PROVE  SetLevels(fs, limit, small, large) = SetLevels(es, limit, small, large)
<1>. DEFINE c(i) == Chosen(es[i], limit, small, large)
            d(i) == Chosen(fs[i], limit, small, large)
            a == SetLevels(es, limit, small, large)
            b == SetLevels(fs, limit, small, large)
<1>1. /\ \A i \in 1..Len(es) : LevelAllowed(es[i], c(i))
      /\ a = [entries |-> [i \in 1..Len(es) |-> WithLevel(es[i], c(i))], thrown |-> "none"]
    BY LevelsSet
<1>2. ASSUME \A i \in 1..Len(fs) : LevelAllowed(fs[i], d(i))
      PROVE  b = [entries |-> [i \in 1..Len(fs) |-> WithLevel(fs[i], d(i))], thrown |-> "none"]
    BY <1>2, LevelsSet
<1>3. ASSUME NEW i \in 1..Len(es)
      PROVE  /\ LevelAllowed(fs[i], d(i)) /\ WithLevel(fs[i], d(i)) = WithLevel(es[i], c(i))
    <2>1. es[i] \in Entry /\ Releveled(fs[i], es[i])
        OBVIOUS
    <2>2. d(i) = c(i) /\ (LevelAllowed(fs[i], d(i)) <=> LevelAllowed(es[i], d(i)))
          /\ WithLevel(fs[i], d(i)) = WithLevel(es[i], d(i))
        BY <2>1, LevelAgain
    <2>. HIDE DEF c, d
    <2>. QED
        BY <1>1, <2>2
<1>. HIDE DEF a, b, c, d
<1>4. b = [entries |-> [i \in 1..Len(fs) |-> WithLevel(fs[i], d(i))], thrown |-> "none"]
    BY <1>2, <1>3
<1>5. [i \in 1..Len(fs) |-> WithLevel(fs[i], d(i))] = [i \in 1..Len(es) |-> WithLevel(es[i], c(i))]
    BY <1>3
<1>. QED
    BY <1>1, <1>4, <1>5 DEF a, b

\* What setLevel() does once entries() returned e.
LEMMA SetLevelThen ==
    ASSUME NEW c, NEW hp, Sound(c, hp), Len(c) > 0, NEW e, Sound(e.c, e.heap), Len(e.c) > 0,
           Entries(c, hp) = e, e.thrown = "none", NEW limit, NEW small, NEW large
    PROVE  LET s == SetLevel(c, hp, limit, small, large)
               values == Values(e.c[1], e.heap)
               done == SetLevels(values, limit, small, large)
           IN  /\ values \in Seq(Entry) /\ done.entries \in Seq(Entry)
               /\ Len(done.entries) = Len(values)
               /\ s.c = e.c /\ s.thrown = done.thrown /\ Sound(s.c, s.heap)
               /\ Values(e.c[1], s.heap) = done.entries
               /\ \A i \in 2..Len(e.c) : Values(e.c[i], s.heap) = Values(e.c[i], e.heap)
<1>. DEFINE values == Values(e.c[1], e.heap)
            done == SetLevels(values, limit, small, large)
            s == Changed(e, done)
            t == SetLevel(c, hp, limit, small, large)
<1>1. t = s
    <2>1. t = IF e.thrown # "none" THEN e ELSE s
        BY Zenon DEF SetLevel
    <2>. HIDE DEF s, t
    <2>. QED
        BY <2>1
<1>2. e.c[1] \in Node(e.heap) /\ e.heap \in Heap
    BY SoundNodes
<1>3. /\ values \in Seq(Entry) /\ Len(values) = Len(e.c[1].entries)
      /\ \A j \in 1..Len(e.c[1].entries) : values[j] = At(e.heap, e.c[1].entries[j])
    BY <1>2, ValuesType
<1>. HIDE DEF values
<1>4. /\ done.entries \in Seq(Entry) /\ Len(done.entries) = Len(values)
      /\ \A i \in 1..Len(values) : SameFile(done.entries[i], values[i])
    BY <1>3, SetLevelsIs
<1>. HIDE DEF done, t
<1>5. /\ s.c = e.c /\ s.thrown = done.thrown /\ Effect(e.c, e.heap, s.c, s.heap)
      /\ Values(e.c[1], s.heap) = done.entries
      /\ \A i \in 2..Len(e.c) : Values(e.c[i], s.heap) = Values(e.c[i], e.heap)
    BY <1>3, <1>4, ChangedIs
<1>6. Sound(s.c, s.heap)
    BY <1>5 DEF Effect
<1>. HIDE DEF s
<1>. QED
    BY <1>1, <1>3, <1>4, <1>5, <1>6 DEF values, done, t

\* Collections with the same objects whose entries have the same values.
LEMMA SameView ==
    ASSUME NEW c, NEW hp, Sound(c, hp), NEW hp2, Len(c) > 0,
           Values(c[1], hp2) = Values(c[1], hp),
           \A i \in 2..Len(c) : Values(c[i], hp2) = Values(c[i], hp)
    PROVE  View(c, hp2) = View(c, hp)
<1>1. DOMAIN c = 1..Len(c) /\ Len(c) \in Nat
    BY SoundNodes
<1>2. \A i \in 1..Len(c) : i = 1 \/ i \in 2..Len(c)
    BY <1>1
<1>3. \A i \in 1..Len(c) : Values(c[i], hp2) = Values(c[i], hp)
    BY <1>2
<1>. QED
    BY <1>1, <1>3 DEF View

\* A second setLevel() on the same collection has the effect it would have had
\* at once.
LEMMA RetryIs ==
    ASSUME NEW c, NEW hp, Sound(c, hp), Len(c) > 0, NEW limit,
           NEW small, NEW large, NEW small2, NEW large2
    PROVE  LET first == SetLevel(c, hp, limit, small, large)
               again == SetLevel(first.c, first.heap, limit, small2, large2)
               at_once == SetLevel(c, hp, limit, small2, large2)
           IN  at_once.thrown = "none" =>
                /\ again.thrown = "none"
                /\ View(again.c, again.heap) = View(at_once.c, at_once.heap)
<1>. DEFINE first == SetLevel(c, hp, limit, small, large)
            again == SetLevel(first.c, first.heap, limit, small2, large2)
            at_once == SetLevel(c, hp, limit, small2, large2)
            e == Entries(c, hp)
            f == Entries(first.c, first.heap)
<1>1. SUFFICES ASSUME at_once.thrown = "none"
               PROVE  /\ again.thrown = "none"
                      /\ View(again.c, again.heap) = View(at_once.c, at_once.heap)
    OBVIOUS
<1>2. e.thrown = "none"
    <2>. DEFINE s == Changed(e, SetLevels(Values(e.c[1], e.heap), limit, small2, large2))
    <2>1. at_once = IF e.thrown # "none" THEN e ELSE s
        BY Zenon DEF SetLevel
    <2>. HIDE DEF s, at_once, e
    <2>. QED
        BY <1>1, <2>1
<1>4. Sound(e.c, e.heap) /\ Len(e.c) = Len(c) /\ Usable(e.c) /\ Settled(e.c, Len(e.c))
    BY <1>2, EntriesListed
<1>. HIDE DEF e
<1>. DEFINE V == Values(e.c[1], e.heap)
            done1 == SetLevels(V, limit, small, large)
            done2 == SetLevels(V, limit, small2, large2)
            W == done1.entries
            done3 == SetLevels(W, limit, small2, large2)
<1>5. /\ V \in Seq(Entry) /\ W \in Seq(Entry) /\ Len(W) = Len(V)
      /\ first.c = e.c /\ Sound(first.c, first.heap) /\ Values(e.c[1], first.heap) = W
      /\ \A i \in 2..Len(e.c) : Values(e.c[i], first.heap) = Values(e.c[i], e.heap)
    BY <1>2, <1>4, SetLevelThen DEF e
<1>6. /\ at_once.c = e.c /\ Sound(at_once.c, at_once.heap) /\ at_once.thrown = done2.thrown
      /\ Values(e.c[1], at_once.heap) = done2.entries
      /\ \A i \in 2..Len(e.c) : Values(e.c[i], at_once.heap) = Values(e.c[i], e.heap)
    BY <1>2, <1>4, SetLevelThen DEF e
<1>7. \A i \in 1..Len(V) : Releveled(W[i], V[i])
    BY <1>5, LevelsChanged
<1>. HIDE DEF V, done1, W, first, at_once
<1>8. done3 = done2
    BY <1>1, <1>5, <1>6, <1>7, LevelsAgain
<1>9. f.c = e.c /\ f.heap = first.heap /\ f.thrown = "none"
    BY <1>4, <1>5, EntriesAgain
<1>10. Sound(first.c, first.heap) /\ Len(first.c) > 0 /\ Sound(f.c, f.heap) /\ Len(f.c) > 0
       /\ Entries(first.c, first.heap) = f
    BY <1>4, <1>5, <1>9
<1>11. Values(f.c[1], f.heap) = W
    BY <1>5, <1>9
<1>. HIDE DEF f, done3
<1>12. /\ again.c = f.c /\ again.thrown = done3.thrown
       /\ Values(f.c[1], again.heap) = done3.entries
       /\ \A i \in 2..Len(f.c) : Values(f.c[i], again.heap) = Values(f.c[i], f.heap)
    BY <1>9, <1>10, <1>11, SetLevelThen DEF done3
<1>. HIDE DEF again, done2
<1>13. again.c = e.c /\ again.thrown = "none"
       /\ Values(e.c[1], again.heap) = Values(e.c[1], at_once.heap)
       /\ \A i \in 2..Len(e.c) : Values(e.c[i], again.heap) = Values(e.c[i], at_once.heap)
    BY <1>1, <1>5, <1>6, <1>8, <1>9, <1>12
<1>14. View(e.c, again.heap) = View(e.c, at_once.heap)
    BY <1>4, <1>6, <1>13, SameView
<1>. QED
    BY <1>6, <1>13, <1>14

\* When setLevel() is refused by an entry half way (filecollection.cpp:571),
\* the entries before it are changed and those after it are not; a second call
\* with levels that all entries take has then the result and the effect that it
\* would have had at once, because what an entry refuses depends on its method
\* and not on the level it was given.
THEOREM RetriesRepair == Spec => []RetryRepairs
<1>1. ASSUME IInv, NEW v \in Var, NEW limit \in Limits, NEW l \in LevelChoices,
             NEW m \in LevelChoices
      PROVE  LET first == SetLevel(var[v], heap, limit, l[1], l[2])
                 again == SetLevel(first.c, first.heap, limit, m[1], m[2])
                 at_once == SetLevel(var[v], heap, limit, m[1], m[2])
             IN  at_once.thrown = "none" =>
                    /\ again.thrown = at_once.thrown
                    /\ View(again.c, again.heap) = View(at_once.c, at_once.heap)
    <2>1. Sound(var[v], heap) /\ Len(var[v]) > 0
        BY <1>1, ProgramIs DEF IInv
    <2>. QED
        BY <2>1, RetryIs
<1>2. IInv => RetryRepairs
    BY <1>1, ZenonT(30) DEF RetryRepairs
<1>. QED
    BY <1>2, CollectionsAreSeparate, PTL

-----------------------------------------------------------------------------
(* What entries() returns, and what getEntry() finds in it. *)

\* The k-th part in all, and before it nothing but elements of those before it.
PartIn(all, seqs, k) ==
    \E m \in Nat :
        /\ m + Len(seqs[k]) <= Len(all)
        /\ \A p \in 1..m : \E i \in 1..k - 1 : \E j \in 1..Len(seqs[i]) : all[p] = seqs[i][j]
        /\ \A j \in 1..Len(seqs[k]) : all[m + j] = seqs[k][j]

\* Every sequence is a part of the sequence they are joined to.
LEMMA JoinedAt ==
    ASSUME NEW Y, NEW seqs \in Seq(Seq(Y)), NEW k \in 1..Len(seqs)
    PROVE  PartIn(FlattenSeq(seqs), seqs, k)
<1>. DEFINE n == Len(seqs)
            all == FlattenSeq(seqs)
<1>1. PICK f \in [0..n -> Seq(Y)] :
        /\ f[0] = << >>
        /\ \A i \in 1..n : f[i] = f[i - 1] \o seqs[i]
        /\ all = f[n]
    BY Joining
<1>2. n \in Nat /\ \A i \in 1..n : seqs[i] \in Seq(Y)
    OBVIOUS
<1>3. \A i \in 0..n : f[i] \in Seq(Y) /\ Len(f[i]) \in Nat
    <2>. HIDE DEF n
    <2>1. \A i \in 0..n : f[i] \in Seq(Y)
        OBVIOUS
    <2>. QED
        BY <2>1
<1>. HIDE DEF all
<1>4. k \in 1..n
    OBVIOUS
<1>. DEFINE S == {i \in Nat : i <= n => DrawnFrom(f[i], seqs, i)}
            P(i) == /\ Len(f[k]) <= Len(f[i])
                    /\ \A p \in 1..Len(f[k]) : f[i][p] = f[k][p]
            T == {i \in Nat : k + i <= n => P(k + i)}
<1>5. \A i \in Nat : i <= n => DrawnFrom(f[i], seqs, i)
    <2>1. 0 \in S
        <3>1. Len(f[0]) = 0
            BY <1>1
        <3>2. \A p \in 1..Len(f[0]) : FALSE
            BY <3>1
        <3>. QED
            BY <3>2 DEF DrawnFrom
    <2>2. ASSUME NEW i \in S PROVE i + 1 \in S
        <3>1. SUFFICES ASSUME i + 1 <= n PROVE DrawnFrom(f[i + 1], seqs, i + 1)
            OBVIOUS
        <3>2. i \in Nat /\ i \in 0..n /\ i + 1 \in 1..n /\ (i + 1) - 1 = i
            BY <1>2, <3>1
        <3>3. DrawnFrom(f[i], seqs, i)
            BY <1>2, <3>1, <3>2
        <3>4. f[i] \in Seq(Y) /\ f[i + 1] = f[i] \o seqs[i + 1]
            BY <1>1, <1>3, <3>2
        <3>. QED
            BY <3>1, <3>2, <3>3, <3>4, DrawnStep
    <2>3. S \subseteq Nat
        OBVIOUS
    <2>. HIDE DEF S
    <2>4. S = Nat
        BY <2>1, <2>2, <2>3, Counting
    <2>. QED
        BY <2>4 DEF S
<1>6. P(n)
    <2>1. 0 \in T
        BY <1>4
    <2>2. ASSUME NEW i \in T PROVE i + 1 \in T
        <3>1. SUFFICES ASSUME k + (i + 1) <= n PROVE P(k + (i + 1))
            OBVIOUS
        <3>. DEFINE l == k + i
        <3>2. l \in 0..n /\ l + 1 \in 1..n /\ (l + 1) - 1 = l /\ k + (i + 1) = l + 1 /\ k \in 0..n
            BY <1>2, <1>4, <3>1
        <3>3. P(l)
            BY <1>2, <3>1, <3>2
        <3>. HIDE DEF l
        <3>4. f[l + 1] = f[l] \o seqs[l + 1]
            BY <1>1, <3>2
        <3>. DEFINE a == f[l]
                    b == seqs[l + 1]
        <3>5. a \in Seq(Y) /\ b \in Seq(Y) /\ f[k] \in Seq(Y) /\ Len(f[k]) \in Nat
            BY <1>2, <1>3, <3>2
        <3>. HIDE DEF a, b
        <3>6. /\ Len(a) \in Nat /\ Len(b) \in Nat
              /\ Len(a \o b) = Len(a) + Len(b) /\ \A p \in 1..Len(a) : (a \o b)[p] = a[p]
            BY <3>5, JoinIs
        <3>7. Len(f[k]) <= Len(a) /\ \A p \in 1..Len(f[k]) : a[p] = f[k][p]
            BY <3>3 DEF a
        <3>8. Len(f[k]) <= Len(a \o b) /\ \A p \in 1..Len(f[k]) : (a \o b)[p] = f[k][p]
            BY <3>5, <3>6, <3>7
        <3>. QED
            BY <3>2, <3>4, <3>8 DEF a, b
    <2>3. T \subseteq Nat
        OBVIOUS
    <2>. HIDE DEF T
    <2>4. T = Nat
        BY <2>1, <2>2, <2>3, Counting
    <2>5. n - k \in T /\ k + (n - k) = n
        BY <1>2, <1>4, <2>4
    <2>. QED
        BY <2>5 DEF T
<1>. HIDE DEF S, T
<1>. DEFINE before == f[k - 1]
            m == Len(before)
<1>7. k - 1 \in 0..n /\ k - 1 \in Nat /\ k - 1 <= n
    BY <1>2, <1>4
<1>8. before \in Seq(Y) /\ m \in Nat /\ DrawnFrom(before, seqs, k - 1)
    BY <1>3, <1>5, <1>7
<1>9. f[k] = before \o seqs[k] /\ seqs[k] \in Seq(Y)
    BY <1>1, <1>2
<1>. HIDE DEF before
<1>10. /\ Len(seqs[k]) \in Nat /\ Len(f[k]) = m + Len(seqs[k])
       /\ \A p \in 1..m : f[k][p] = before[p]
       /\ \A j \in 1..Len(seqs[k]) : f[k][m + j] = seqs[k][j]
    BY <1>8, <1>9, JoinIs
<1>11. /\ Len(f[k]) <= Len(all) /\ \A p \in 1..Len(f[k]) : all[p] = f[k][p]
    BY <1>1, <1>6
<1>12. Len(all) \in Nat
    BY <1>1, <1>2, <1>3
<1>13. m + Len(seqs[k]) <= Len(all)
    BY <1>10, <1>11
<1>14. ASSUME NEW p \in 1..m
       PROVE  \E i \in 1..k - 1 : \E j \in 1..Len(seqs[i]) : all[p] = seqs[i][j]
    <2>1. p \in 1..Len(f[k])
        BY <1>8, <1>10
    <2>2. all[p] = before[p] /\ p \in 1..Len(before)
        BY <1>10, <1>11, <2>1
    <2>. QED
        BY <1>8, <2>2 DEF DrawnFrom
<1>15. ASSUME NEW j \in 1..Len(seqs[k]) PROVE all[m + j] = seqs[k][j]
    <2>1. m + j \in 1..Len(f[k])
        BY <1>8, <1>10
    <2>. QED
        BY <1>10, <1>11, <2>1
<1>. HIDE DEF m
<1>. QED
    BY <1>8, <1>13, <1>14, <1>15 DEF all, PartIn

\* size() adds up what entries() joins.
LEMMA CountedIs ==
    ASSUME NEW Y, NEW c, DOMAIN c = 1..Len(c), Len(c) \in Nat,
           \A i \in 1..Len(c) : Own(c[i]) \in Seq(Y)
    PROVE  Counted(c) = Len(FlattenSeq([i \in DOMAIN c |-> Own(c[i])]))
<1>. DEFINE n == Len(c)
            seqs == [i \in DOMAIN c |-> Own(c[i])]
            step == [i \in 1..n |-> [s \in Nat |-> s + Len(seqs[i])]]
            Total(g) == g = [i \in 0..n |-> IF i = 0 THEN 0 ELSE g[i - 1] + Len(Own(c[i]))]
            total == CHOOSE g : Total(g)
<1>1. seqs \in Seq(Seq(Y)) /\ Len(seqs) = n
    <2>. DEFINE X == Seq(Y)
    <2>1. \A i \in 1..n : Own(c[i]) \in X
        OBVIOUS
    <2>. HIDE DEF X
    <2>2. seqs \in Seq(X) /\ Len(seqs) = n
        BY <2>1
    <2>. QED
        BY <2>2 DEF X
<1>2. \A i \in 1..n : seqs[i] = Own(c[i]) /\ Len(Own(c[i])) \in Nat
    OBVIOUS
<1>3. Counted(c) = total[n]
    BY Zenon DEF Counted
<1>. HIDE DEF seqs
<1>4. \E f \in [0..n -> Seq(Y)] :
        /\ f[0] = << >>
        /\ \A i \in 1..n : f[i] = f[i - 1] \o seqs[i]
        /\ FlattenSeq(seqs) = f[n]
    <2>. DEFINE k == Len(seqs)
    <2>1. \E f \in [0..k -> Seq(Y)] :
            /\ f[0] = << >>
            /\ \A i \in 1..k : f[i] = f[i - 1] \o seqs[i]
            /\ FlattenSeq(seqs) = f[k]
        BY <1>1, Joining
    <2>2. k = n
        BY <1>1
    <2>. HIDE DEF k
    <2>. QED
        BY <2>1, <2>2, Zenon
<1>. PICK f \in [0..n -> Seq(Y)] :
        /\ f[0] = << >>
        /\ \A i \in 1..n : f[i] = f[i - 1] \o seqs[i]
        /\ FlattenSeq(seqs) = f[n]
    BY <1>4
<1>5. \A i \in 0..n : f[i] \in Seq(Y) /\ Len(f[i]) \in Nat
    <2>. HIDE DEF n
    <2>1. \A i \in 0..n : f[i] \in Seq(Y)
        OBVIOUS
    <2>. QED
        BY <2>1
<1>6. Len(f[0]) = 0 /\ \A i \in 1..n : Len(f[i]) = Len(f[i - 1]) + Len(Own(c[i]))
    <2>1. ASSUME NEW i \in 1..n PROVE Len(f[i]) = Len(f[i - 1]) + Len(Own(c[i]))
        <3>. DEFINE a == f[i - 1]
                    b == seqs[i]
        <3>0. i - 1 \in 0..n
            OBVIOUS
        <3>1. a \in Seq(Y) /\ b \in Seq(Y) /\ f[i] = a \o b
            BY <1>2, <1>5, <3>0
        <3>. HIDE DEF a, b
        <3>2. Len(f[i]) = Len(a) + Len(b)
            BY <3>1, JoinIs
        <3>. QED
            BY <1>2, <3>2 DEF a, b
    <2>2. Len(f[0]) = 0
        OBVIOUS
    <2>. QED
        BY <2>1, <2>2
<1>. DEFINE g == [i \in 0..n |-> Len(f[i])]
<1>7. Total(g)
    <2>1. ASSUME NEW i \in 0..n
          PROVE  Len(f[i]) = IF i = 0 THEN 0 ELSE g[i - 1] + Len(Own(c[i]))
        <3>1. CASE i = 0
            BY <1>6, <3>1
        <3>2. CASE i # 0
            <4>1. i \in 1..n /\ i - 1 \in 0..n
                BY <3>2
            <4>2. g[i - 1] = Len(f[i - 1])
                BY <4>1
            <4>. HIDE DEF g
            <4>. QED
                BY <1>6, <3>2, <4>1, <4>2
        <3>. QED
            BY <3>1, <3>2
    <2>. QED
        BY <2>1
<1>8. Total(total)
    BY <1>7
<1>. HIDE DEF total, g
<1>9. total[0] = 0 /\ \A i \in 1..n : total[i] = total[i - 1] + Len(Own(c[i]))
    <2>1. ASSUME NEW i \in 0..n
          PROVE  total[i] = IF i = 0 THEN 0 ELSE total[i - 1] + Len(Own(c[i]))
        BY <1>8, Zenon
    <2>2. 0 \in 0..n /\ \A i \in 1..n : i \in 0..n /\ i # 0
        OBVIOUS
    <2>. QED
        BY <2>1, <2>2
<1>. DEFINE S == {i \in Nat : i <= n => total[i] = Len(f[i])}
<1>10. 0 \in S
    BY <1>6, <1>9
<1>11. ASSUME NEW i \in S PROVE i + 1 \in S
    <2>1. SUFFICES ASSUME i + 1 <= n PROVE total[i + 1] = Len(f[i + 1])
        OBVIOUS
    <2>2. i + 1 \in 1..n /\ (i + 1) - 1 = i /\ i <= n
        BY <2>1
    <2>3. total[i] = Len(f[i])
        BY <2>2
    <2>. HIDE DEF S
    <2>. QED
        BY <1>6, <1>9, <2>2, <2>3
<1>12. S \subseteq Nat
    OBVIOUS
<1>. HIDE DEF S
<1>13. S = Nat
    BY <1>10, <1>11, <1>12, Counting
<1>14. total[n] = Len(f[n])
    BY <1>13 DEF S
<1>. QED
    BY <1>3, <1>14 DEF seqs

\* The values of the entries an object has once it is listed.
Listed(node, hp) == Values(node, hp) \o NewEntries(node)

\* What an object has once it is listed is a sequence of entries.
LEMMA ListedType ==
    ASSUME NEW c, NEW hp, Sound(c, hp), Usable(c), NEW i \in 1..Len(c)
    PROVE  Listed(c[i], hp) \in Seq(Entry)
<1>1. /\ hp \in Heap /\ DOMAIN c = 1..Len(c)
      /\ c[i] \in Node(hp) /\ HasPath(c[i])
    BY SoundNodes
<1>2. c[i].valid
    BY <1>1 DEF Usable
<1>3. Values(c[i], hp) \in Seq(Entry) /\ NewEntries(c[i]) \in Seq(Entry)
    BY <1>1, <1>2, ValuesType, NewEntriesIs
<1>. QED
    BY <1>3, JoinIs DEF Listed

\* A search finds something in an object when an entry of its listing matches.
LEMMA FoundIs ==
    ASSUME NEW node, NEW hp, Listed(node, hp) \in Seq(Entry), NEW name, NEW matchpath
    PROVE  Found(node, hp, name, matchpath) <=>
            /\ node.class # "CollectionCollection"
            /\ \E j \in 1..Len(Listed(node, hp)) : Matches(Listed(node, hp)[j], name, matchpath)
<1>. DEFINE W == Listed(node, hp)
<1>1. Found(node, hp, name, matchpath) <=>
        /\ node.class # "CollectionCollection"
        /\ \E e \in ToSet(W) : Matches(e, name, matchpath)
    BY Zenon DEF Found, Listed
<1>2. DOMAIN W = 1..Len(W)
    OBVIOUS
<1>. HIDE DEF W
<1>3. ToSet(W) = {W[j] : j \in 1..Len(W)}
    BY <1>2, Zenon DEF ToSet
<1>. QED
    BY <1>1, <1>3 DEF W

\* d is what node is once it is listed.
ListedAs(d, h, node, hp) ==
    /\ h \in Heap /\ d \in Node(h) /\ d.class = node.class
    /\ Listed(node, hp) \in Seq(Entry) /\ Values(d, h) = Listed(node, hp)

\* What an object contributes to entries() is its listing; a
\* CollectionCollection has none of its own.
LEMMA OwnIs ==
    ASSUME NEW d, NEW h, NEW node, NEW hp, ListedAs(d, h, node, hp)
    PROVE  /\ Own(d) \in Seq(References(h))
           /\ \A j \in 1..Len(Own(d)) : At(h, Own(d)[j]) = Listed(node, hp)[j]
           /\ Len(Own(d)) = IF node.class = "CollectionCollection" THEN 0
                            ELSE Len(Listed(node, hp))
<1>. DEFINE W == Listed(node, hp)
<1>1. /\ h \in Heap /\ d \in Node(h) /\ d.class = node.class
      /\ W \in Seq(Entry) /\ Values(d, h) = W
    BY DEF ListedAs
<1>2. /\ d.entries \in Seq(References(h)) /\ Len(d.entries) = Len(W) /\ Len(d.entries) \in Nat
      /\ \A j \in 1..Len(d.entries) : W[j] = At(h, d.entries[j])
    BY <1>1, ValuesType, NodeType
<1>. HIDE DEF W
<1>3. CASE node.class = "CollectionCollection"
    <2>. DEFINE none == << >>
    <2>1. Own(d) = none
        BY <1>1, <1>3 DEF Own
    <2>2. none \in Seq(References(h)) /\ Len(none) = 0
        OBVIOUS
    <2>. HIDE DEF none
    <2>3. \A j \in 1..Len(Own(d)) : FALSE
        BY <2>1, <2>2
    <2>. QED
        BY <1>3, <2>1, <2>2, <2>3
<1>4. CASE node.class # "CollectionCollection"
    <2>1. Own(d) = d.entries
        BY <1>1, <1>4 DEF Own
    <2>. QED
        BY <1>2, <1>4, <2>1 DEF W
<1>. QED
    BY <1>3, <1>4

\* An object contributes a match when a search finds something in it.
LEMMA OwnMatches ==
    ASSUME NEW d, NEW h, NEW node, NEW hp, ListedAs(d, h, node, hp),
           NEW name, NEW matchpath
    PROVE  /\ \A j \in 1..Len(Own(d)) :
                Matches(At(h, Own(d)[j]), name, matchpath) => Found(node, hp, name, matchpath)
           /\ Found(node, hp, name, matchpath) =>
                \E j \in 1..Len(Own(d)) : Matches(At(h, Own(d)[j]), name, matchpath)
<1>. DEFINE W == Listed(node, hp)
<1>0. /\ h \in Heap /\ d \in Node(h) /\ d.class = node.class
      /\ W \in Seq(Entry) /\ Values(d, h) = W
    BY DEF ListedAs
<1>1. /\ Found(node, hp, name, matchpath) <=>
            /\ node.class # "CollectionCollection"
            /\ \E j \in 1..Len(W) : Matches(W[j], name, matchpath)
    BY <1>0, FoundIs
<1>2. /\ d.entries \in Seq(References(h)) /\ Len(d.entries) = Len(W) /\ Len(d.entries) \in Nat
      /\ \A j \in 1..Len(d.entries) : W[j] = At(h, d.entries[j])
    BY <1>0, ValuesType, NodeType
<1>. HIDE DEF W
<1>3. CASE node.class = "CollectionCollection"
    <2>. DEFINE none == << >>
    <2>1. Own(d) = none
        BY <1>0, <1>3 DEF Own
    <2>2. none \in Seq(References(h)) /\ Len(none) = 0
        OBVIOUS
    <2>. HIDE DEF none
    <2>3. \A j \in 1..Len(Own(d)) : FALSE
        BY <2>1, <2>2
    <2>. QED
        BY <1>1, <1>3, <2>1, <2>2, <2>3
<1>4. CASE node.class # "CollectionCollection"
    <2>1. Own(d) = d.entries
        BY <1>0, <1>4 DEF Own
    <2>2. \A j \in 1..Len(Own(d)) : At(h, Own(d)[j]) = W[j] /\ j \in 1..Len(W)
        BY <1>2, <2>1
    <2>. QED
        BY <1>1, <1>2, <1>4, <2>1, <2>2 DEF W
<1>. QED
    BY <1>3, <1>4

\* The search for a name ends with the last-th object.
Ends(c, hp, name, matchpath, last) ==
    /\ last \in 1..Len(c)
    /\ \A i \in 1..Len(c) : i < last => ~Found(c[i], hp, name, matchpath) /\ ~Fails(c[i])
    /\ Found(c[last], hp, name, matchpath) \/ Fails(c[last]) \/ last = Len(c)

\* getEntry() returns g, and the loop over the objects r.
Gets(g, r, name, matchpath, last) ==
    /\ r.thrown = "none" =>
        /\ g.c = r.c /\ g.heap = r.heap /\ g.thrown = "none"
        /\ g.out = FindFirst(Own(r.c[last]), r.heap, name, matchpath)
    /\ r.thrown # "none" => g.out = << >>

\* getEntry() asks the objects up to the first that fails or has a match, and
\* then searches those it asked.
LEMMA GetEntryThen ==
    ASSUME NEW c, NEW hp, Sound(c, hp), Usable(c), Len(c) > 0, NEW name, NEW matchpath
    PROVE  \E last \in 1..Len(c) :
            /\ Ends(c, hp, name, matchpath, last)
            /\ (Asked(c, hp, last).thrown = "none") <=> ~Fails(c[last])
            /\ Gets(GetEntry(c, hp, name, matchpath), Asked(c, hp, last), name, matchpath, last)
<1>. DEFINE matching == {i \in DOMAIN c : Found(c[i], hp, name, matchpath)}
            last == FirstOf(Failing(c) \cup matching, Len(c))
            r == Asked(c, hp, last)
            g == GetEntry(c, hp, name, matchpath)
            found == FindFirst(Own(r.c[last]), r.heap, name, matchpath)
<1>1. Len(c) \in Nat /\ DOMAIN c = 1..Len(c)
    BY SoundNodes
<1>. DEFINE ends == Failing(c) \cup matching
<1>2. ends \subseteq 1..Len(c)
    BY <1>1, UsableIs
<1>3. \A i \in 1..Len(c) : i \in ends <=> Fails(c[i]) \/ Found(c[i], hp, name, matchpath)
    BY <1>1 DEF Failing
<1>4. ends \subseteq Nat
    BY <1>2
<1>5. g = IF r.thrown # "none" THEN r ELSE [r EXCEPT !.out = found]
    BY Zenon DEF GetEntry
<1>6. last = FirstOf(ends, Len(c))
    OBVIOUS
<1>. HIDE DEF ends, matching, last
<1>7. last \in 1..Len(c)
    BY <1>1, <1>2, <1>6, FirstOfBetween
<1>8. \A i \in ends : last <= i
    BY <1>4, <1>6, FirstOfIs
<1>9. last \in ends \/ last = Len(c)
    BY <1>4, <1>6, FirstOfIs
<1>10. \A i \in 1..Len(c) : i < last => ~Found(c[i], hp, name, matchpath) /\ ~Fails(c[i])
    <2>1. \A i \in 1..Len(c) : i < last => i \notin ends
        BY <1>7, <1>8
    <2>. QED
        BY <1>3, <2>1
<1>11. Found(c[last], hp, name, matchpath) \/ Fails(c[last]) \/ last = Len(c)
    BY <1>3, <1>7, <1>9
<1>12. r = [c |-> r.c, heap |-> r.heap, thrown |-> r.thrown, out |-> << >>]
    BY DEF Asked
<1>13. r.thrown = IF \E i \in 1..last : Fails(c[i]) THEN "IOException" ELSE "none"
    BY DEF Asked
<1>. HIDE DEF r, g, found
<1>14. (r.thrown = "none") <=> ~Fails(c[last])
    <2>1. \A i \in 1..last : i \in 1..Len(c) /\ (i < last \/ i = last)
        BY <1>1, <1>7
    <2>2. last \in 1..last
        BY <1>7
    <2>3. (\E i \in 1..last : Fails(c[i])) <=> Fails(c[last])
        BY <1>10, <2>1, <2>2
    <2>. QED
        BY <1>13, <2>3
<1>15. r.thrown = "none" => /\ g.c = r.c /\ g.heap = r.heap /\ g.thrown = "none"
                            /\ g.out = found
    BY <1>5, <1>12
<1>16. r.thrown # "none" => g.out = << >>
    BY <1>5, <1>12
<1>17. Ends(c, hp, name, matchpath, last)
    BY <1>7, <1>10, <1>11 DEF Ends
<1>18. Gets(g, r, name, matchpath, last)
    BY <1>15, <1>16 DEF Gets, found
<1>. QED
    BY <1>7, <1>14, <1>17, <1>18 DEF g, r

ValuesOf(refs, hp) == [j \in DOMAIN refs |-> At(hp, refs[j])]

\* When entries() succeeds, getEntry() lists each object to which it comes as
\* entries() does.
LEMMA SearchListed ==
    ASSUME NEW c, NEW hp, Sound(c, hp), Usable(c), NEW n \in 0..Len(c), NEW i \in 1..n,
           ~Fails(c[i])
    PROVE  LET r == Asked(c, hp, n)
           IN  ListedAs(r.c[i], r.heap, c[i], hp)
<1>. DEFINE r == Asked(c, hp, n)
<1>1. Len(c) \in Nat
    BY SoundNodes
<1>2. i \in 1..Len(c) /\ i <= n
    BY <1>1
<1>3. /\ Effect(c, hp, r.c, r.heap)
      /\ Values(r.c[i], r.heap) = Values(c[i], hp) \o NewEntries(c[i])
    BY <1>2, AskedIs
<1>4. Listed(c[i], hp) \in Seq(Entry)
    BY <1>2, ListedType
<1>. HIDE DEF r
<1>5. r.heap \in Heap /\ r.c[i] \in Node(r.heap) /\ r.c[i].class = c[i].class
    BY <1>2, <1>3, SoundNodes DEF Effect
<1>. QED
    BY <1>3, <1>4, <1>5 DEF r, Listed, ListedAs

\* The value of the first match of what getEntry() asks last is that of the
\* first match of what entries() returns.
Agrees(own, h2, seqs, h, last, name, matchpath) ==
    /\ Len(own) = Len(seqs[last])
    /\ \A j \in 1..Len(own) : At(h2, own[j]) = At(h, seqs[last][j])
    /\ \A i \in 1..Len(seqs) : i < last =>
        \A j \in 1..Len(seqs[i]) : ~Matches(At(h, seqs[i][j]), name, matchpath)
    /\ \/ last = Len(seqs)
       \/ \E j \in 1..Len(own) : Matches(At(h2, own[j]), name, matchpath)

\* The first match among the objects that were asked is the first match of all.
LEMMA FirstOfAll ==
    ASSUME NEW X, NEW seqs \in Seq(Seq(X)), NEW last \in 1..Len(seqs), NEW h,
           NEW Y, NEW own \in Seq(Y), NEW h2, NEW name, NEW matchpath,
           Agrees(own, h2, seqs, h, last, name, matchpath)
    PROVE  ValuesOf(FindFirst(own, h2, name, matchpath), h2)
            = ValuesOf(FindFirst(FlattenSeq(seqs), h, name, matchpath), h)
<1>. DEFINE all == FlattenSeq(seqs)
            part == seqs[last]
            M(e) == Matches(e, name, matchpath)
            a == FindFirst(own, h2, name, matchpath)
            b == FindFirst(all, h, name, matchpath)
            inOwn == {i \in 1..Len(own) : M(At(h2, own[i]))}
            inAll == {i \in 1..Len(all) : M(At(h, all[i]))}
<1>1. all \in Seq(X) /\ DrawnFrom(all, seqs, Len(seqs))
    BY JoinedElements
<1>0. PartIn(all, seqs, last)
    BY JoinedAt
<1>2. PICK m \in Nat :
        /\ m + Len(part) <= Len(all)
        /\ \A p \in 1..m : \E i \in 1..last - 1 : \E j \in 1..Len(seqs[i]) :
            all[p] = seqs[i][j]
        /\ \A j \in 1..Len(part) : all[m + j] = part[j]
    <2>. HIDE DEF all
    <2>. QED
        BY <1>0 DEF PartIn
<1>3. part \in Seq(X) /\ Len(part) \in Nat /\ Len(own) = Len(part)
    BY DEF Agrees
<1>4. Len(all) \in Nat
    BY <1>1
<1>5. \/ inOwn = {} /\ a = << >>
      \/ \E j \in inOwn : a = << own[j] >> /\ \A i \in inOwn : j <= i
    BY FindFirstIs
<1>6. \/ inAll = {} /\ b = << >>
      \/ \E j \in inAll : b = << all[j] >> /\ \A i \in inAll : j <= i
    <2>. HIDE DEF all
    <2>. QED
        BY <1>1, FindFirstIs
<1>7. ASSUME NEW i \in 1..Len(seqs), i < last, NEW j \in 1..Len(seqs[i])
      PROVE  ~M(At(h, seqs[i][j]))
    BY <1>7 DEF Agrees
<1>8. last \in 1..Len(seqs) /\ Len(seqs) \in Nat
    OBVIOUS
<1>9. \A j \in 1..Len(own) : At(h2, own[j]) = At(h, part[j])
    BY DEF Agrees
<1>10. last = Len(seqs) \/ inOwn # {}
    BY DEF Agrees
<1>. HIDE DEF all, part, M, a, b
<1>11. \A j \in 1..Len(own) : M(At(h2, own[j])) <=> M(At(h, part[j]))
    BY <1>9
<1>12. ASSUME NEW p \in 1..m PROVE p \notin inAll
    <2>1. PICK i \in 1..last - 1 : \E j \in 1..Len(seqs[i]) : all[p] = seqs[i][j]
        BY <1>2
    <2>2. i \in 1..Len(seqs) /\ i < last
        BY <1>8
    <2>3. ~M(At(h, all[p]))
        BY <1>7, <2>1, <2>2
    <2>. QED
        BY <2>3
<1>13. CASE inOwn = {}
    <2>1. last = Len(seqs)
        BY <1>10, <1>13
    <2>2. ASSUME NEW p \in 1..Len(all) PROVE ~M(At(h, all[p]))
        <3>1. PICK i \in 1..Len(seqs) : \E j \in 1..Len(seqs[i]) : all[p] = seqs[i][j]
            BY <1>1 DEF DrawnFrom
        <3>2. PICK j \in 1..Len(seqs[i]) : all[p] = seqs[i][j]
            BY <3>1
        <3>3. CASE i < last
            BY <1>7, <3>2, <3>3
        <3>4. CASE i = last
            <4>1. j \in 1..Len(own) /\ all[p] = part[j]
                BY <1>3, <3>2, <3>4 DEF part
            <4>2. ~M(At(h2, own[j]))
                BY <1>13, <4>1
            <4>. QED
                BY <1>11, <4>1, <4>2
        <3>. QED
            BY <1>8, <2>1, <3>3, <3>4
    <2>3. inAll = {}
        BY <2>2
    <2>4. a = << >> /\ b = << >>
        BY <1>5, <1>6, <1>13, <2>3
    <2>5. ValuesOf(a, h2) = ValuesOf(b, h)
        BY <2>4 DEF ValuesOf
    <2>. QED
        BY <2>5 DEF a, b, all
<1>14. CASE inOwn # {}
    <2>1. PICK j \in inOwn : a = << own[j] >> /\ \A i \in inOwn : j <= i
        BY <1>5, <1>14
    <2>2. j \in 1..Len(own) /\ M(At(h, part[j]))
        BY <1>11
    <2>. DEFINE p == m + j
    <2>3. p \in 1..Len(all) /\ all[p] = part[j]
        BY <1>2, <1>3, <1>4, <2>2
    <2>4. p \in inAll
        BY <2>2, <2>3
    <2>5. PICK q \in inAll : b = << all[q] >> /\ \A i \in inAll : q <= i
        BY <1>6, <2>4
    <2>6. q <= p /\ q \in 1..Len(all)
        BY <2>4, <2>5
    <2>7. q \notin 1..m
        BY <1>12
    <2>. DEFINE k == q - m
    <2>8. k \in 1..Len(part) /\ m + k = q
        BY <1>2, <1>3, <1>4, <2>2, <2>6, <2>7
    <2>9. all[q] = part[k] /\ k \in 1..Len(own)
        BY <1>2, <1>3, <2>8
    <2>10. k \in inOwn
        <3>1. M(At(h, part[k]))
            BY <2>9
        <3>. QED
            BY <1>11, <2>9, <3>1
    <2>11. j <= k
        BY <2>1, <2>10
    <2>12. q = p
        BY <1>2, <2>2, <2>6, <2>8, <2>11
    <2>13. b = << part[j] >>
        BY <2>3, <2>5, <2>12
    <2>14. At(h2, own[j]) = At(h, part[j])
        BY <1>9, <2>2
    <2>. DEFINE x == own[j]
                y == part[j]
    <2>. HIDE DEF x, y
    <2>15. ValuesOf(<< x >>, h2) = << At(h2, x) >> /\ ValuesOf(<< y >>, h) = << At(h, y) >>
        BY DEF ValuesOf
    <2>16. ValuesOf(a, h2) = ValuesOf(b, h)
        BY <2>1, <2>13, <2>14, <2>15 DEF x, y
    <2>. QED
        BY <2>16 DEF a, b, all
<1>. QED
    BY <1>13, <1>14

\* getEntry() finds the first match of entries().
LEMMA FirstMatchIs ==
    ASSUME NEW c, NEW hp, Sound(c, hp), Len(c) > 0, Entries(c, hp).thrown = "none",
           NEW name, NEW matchpath
    PROVE  LET all == Entries(c, hp)
               g == GetEntry(c, hp, name, matchpath)
           IN  /\ g.thrown = "none"
               /\ ValuesOf(g.out, g.heap)
                    = ValuesOf(FindFirst(all.out, all.heap, name, matchpath), all.heap)
<1>. DEFINE g == GetEntry(c, hp, name, matchpath)
            all == Entries(c, hp)
            a == Asked(c, hp, Len(c))
            seqs == [i \in DOMAIN a.c |-> Own(a.c[i])]
            n == Len(c)
            M(e) == Matches(e, name, matchpath)
<1>1. /\ Usable(c) /\ Failing(c) = {}
      /\ all.heap = a.heap /\ all.out = FlattenSeq(seqs)
      /\ all.c = a.c /\ Sound(all.c, all.heap) /\ Len(all.c) = n
    BY EntriesListed
<1>2. n \in Nat /\ DOMAIN c = 1..n /\ DOMAIN a.c = 1..n
    BY <1>1, SoundNodes
<1>3. \A i \in 1..n : ~Fails(c[i])
    BY <1>1, <1>2 DEF Failing
<1>0. PICK last \in 1..Len(c) :
        /\ Ends(c, hp, name, matchpath, last)
        /\ (Asked(c, hp, last).thrown = "none") <=> ~Fails(c[last])
        /\ Gets(g, Asked(c, hp, last), name, matchpath, last)
    BY <1>1, GetEntryThen
<1>. DEFINE r == Asked(c, hp, last)
<1>. HIDE DEF g, all
<1>4. /\ last \in 1..n
      /\ \A i \in 1..n : i < last => ~Found(c[i], hp, name, matchpath)
      /\ Found(c[last], hp, name, matchpath) \/ Fails(c[last]) \/ last = n
      /\ (r.thrown = "none") <=> ~Fails(c[last])
      /\ r.thrown = "none" =>
            /\ g.c = r.c /\ g.heap = r.heap /\ g.thrown = "none"
            /\ g.out = FindFirst(Own(r.c[last]), r.heap, name, matchpath)
    BY <1>0 DEF Ends, Gets
<1>5. /\ g.thrown = "none" /\ g.heap = r.heap
      /\ g.out = FindFirst(Own(r.c[last]), r.heap, name, matchpath)
      /\ Found(c[last], hp, name, matchpath) \/ last = n
    BY <1>3, <1>4
<1>6. last \in 0..n /\ last \in 1..last /\ n \in 0..n
    BY <1>2, <1>4
<1>7. ListedAs(r.c[last], r.heap, c[last], hp)
    BY <1>1, <1>3, <1>4, <1>6, SearchListed
<1>8. ASSUME NEW i \in 1..n PROVE ListedAs(a.c[i], a.heap, c[i], hp)
    BY <1>1, <1>3, <1>6, SearchListed
<1>. DEFINE h == a.heap
            h2 == r.heap
            own == Own(r.c[last])
            list == Listed(c[last], hp)
<1>. HIDE DEF a, r
<1>9. /\ own \in Seq(References(h2))
      /\ \A j \in 1..Len(own) : At(h2, own[j]) = list[j]
      /\ Found(c[last], hp, name, matchpath) => \E j \in 1..Len(own) : M(At(h2, own[j]))
    BY <1>7, OwnIs, OwnMatches
<1>10. ASSUME NEW i \in 1..n
       PROVE  /\ Own(a.c[i]) \in Seq(References(h))
              /\ \A j \in 1..Len(Own(a.c[i])) :
                    /\ At(h, Own(a.c[i])[j]) = Listed(c[i], hp)[j]
                    /\ M(At(h, Own(a.c[i])[j])) => Found(c[i], hp, name, matchpath)
    <2>1. ListedAs(a.c[i], h, c[i], hp)
        BY <1>8
    <2>. HIDE DEF h
    <2>. QED
        BY <2>1, OwnIs, OwnMatches
<1>11. seqs \in Seq(Seq(References(h))) /\ Len(seqs) = n
    <2>. DEFINE X == Seq(References(h))
    <2>1. \A i \in 1..n : Own(a.c[i]) \in X
        BY <1>10
    <2>. HIDE DEF X
    <2>2. seqs \in Seq(X) /\ Len(seqs) = n
        BY <1>2, <2>1
    <2>. QED
        BY <2>2 DEF X
<1>12. \A i \in 1..n : seqs[i] = Own(a.c[i])
    BY <1>2
<1>13. Len(own) = Len(seqs[last])
    <2>1. Len(own) = Len(Own(a.c[last]))
        BY <1>4, <1>7, <1>8, OwnIs
    <2>. QED
        BY <1>4, <1>12, <2>1
<1>. HIDE DEF seqs, own, h, h2, list, M, n
<1>14. ASSUME NEW j \in 1..Len(own) PROVE At(h2, own[j]) = At(h, seqs[last][j])
    <2>1. At(h2, own[j]) = list[j]
        BY <1>9
    <2>2. j \in 1..Len(Own(a.c[last])) /\ seqs[last] = Own(a.c[last])
        BY <1>4, <1>12, <1>13
    <2>3. At(h, Own(a.c[last])[j]) = list[j]
        BY <1>4, <1>10, <2>2 DEF list
    <2>. QED
        BY <2>1, <2>2, <2>3
<1>15. ASSUME NEW i \in 1..n, i < last, NEW j \in 1..Len(seqs[i])
       PROVE  ~M(At(h, seqs[i][j]))
    <2>1. seqs[i] = Own(a.c[i])
        BY <1>12
    <2>2. j \in 1..Len(Own(a.c[i]))
        BY <2>1
    <2>3. M(At(h, Own(a.c[i])[j])) => Found(c[i], hp, name, matchpath)
        BY <1>10, <2>2
    <2>4. ~Found(c[i], hp, name, matchpath)
        BY <1>4, <1>15
    <2>. QED
        BY <2>1, <2>3, <2>4
<1>16. last = n \/ \E j \in 1..Len(own) : M(At(h2, own[j]))
    BY <1>5, <1>9
<1>20. Agrees(own, h2, seqs, h, last, name, matchpath)
    <2>1. Len(seqs) = n
        BY <1>11
    <2>2. Len(own) = Len(seqs[last])
        BY <1>13
    <2>3. last = Len(seqs) \/ \E j \in 1..Len(own) : M(At(h2, own[j]))
        BY <1>16, <2>1
    <2>. QED
        BY <1>14, <1>15, <2>1, <2>2, <2>3 DEF Agrees, M
<1>17. ValuesOf(FindFirst(own, h2, name, matchpath), h2)
        = ValuesOf(FindFirst(FlattenSeq(seqs), h, name, matchpath), h)
    BY <1>4, <1>9, <1>11, <1>20, FirstOfAll
<1>18. g.out = FindFirst(own, h2, name, matchpath) /\ g.heap = h2
    BY <1>5 DEF own, h2
<1>19. all.out = FlattenSeq(seqs) /\ all.heap = h
    BY <1>1 DEF h
<1>. QED
    BY <1>5, <1>17, <1>18, <1>19 DEF g, all

\* size() counts what entries() returns.
LEMMA SizeCounts ==
    ASSUME NEW c, NEW hp, Sound(c, hp), Entries(c, hp).thrown = "none"
    PROVE  Size(c, hp).out = << Len(Entries(c, hp).out) >>
<1>. DEFINE e == Entries(c, hp)
            X == References(e.heap)
            size == << Counted(e.c) >>
<1>1. /\ e.out = FlattenSeq([i \in DOMAIN e.c |-> Own(e.c[i])]) /\ Sound(e.c, e.heap)
    BY EntriesListed
<1>2. PICK d, hp2, thrown, out : e = [c |-> d, heap |-> hp2, thrown |-> thrown, out |-> out]
    BY EntriesRecord
<1>3. Size(c, hp) = IF e.thrown # "none" THEN e ELSE [e EXCEPT !.out = size]
    BY Zenon DEF Size
<1>. HIDE DEF e
<1>4. e.thrown = "none"
    BY DEF e
<1>5. DOMAIN e.c = 1..Len(e.c) /\ Len(e.c) \in Nat
    BY <1>1, SoundNodes
<1>6. ASSUME NEW i \in 1..Len(e.c) PROVE Own(e.c[i]) \in Seq(X)
    <2>1. e.c[i].entries \in Seq(X)
        BY <1>1, SoundNodes, NodeType
    <2>. HIDE DEF X
    <2>. DEFINE none == << >>
    <2>2. none \in Seq(X)
        OBVIOUS
    <2>. HIDE DEF none
    <2>3. Own(e.c[i]) = none \/ Own(e.c[i]) = e.c[i].entries
        BY DEF Own, none
    <2>. QED
        BY <2>1, <2>2, <2>3
<1>. HIDE DEF X
<1>7. Counted(e.c) = Len(e.out)
    BY <1>1, <1>5, <1>6, CountedIs
<1>. HIDE DEF size
<1>8. Size(c, hp).out = size
    BY <1>2, <1>3, <1>4
<1>. QED
    BY <1>7, <1>8 DEF size, e

\* Whenever entries() succeeds, size() is the number of entries it returns and
\* getEntry() finds, for every name and both ways of matching, the first of
\* them that matches: CollectionCollection's search, which asks one collection
\* after another and stops at the first that has the entry
\* (collectioncollection.cpp:58, 346, 413), agrees with the one list that
\* entries() joins.
THEOREM FirstMatchComesFirst == Spec => []FirstMatchWins
<1>1. ASSUME IInv, NEW v \in Var, Entries(var[v], heap).thrown = "none"
      PROVE  /\ Size(var[v], heap).out = << Len(Entries(var[v], heap).out) >>
             /\ \A w \in Wanted :
                LET all == Entries(var[v], heap)
                    g == GetEntry(var[v], heap, w[1], w[2])
                IN  /\ g.thrown = "none"
                    /\ ValuesOf(g.out, g.heap)
                        = ValuesOf(FindFirst(all.out, all.heap, w[1], w[2]), all.heap)
    <2>1. Sound(var[v], heap) /\ Len(var[v]) > 0
        BY <1>1, ProgramIs DEF IInv
    <2>. QED
        BY <1>1, <2>1, FirstMatchIs, SizeCounts
<1>2. IInv => FirstMatchWins
    BY <1>1, Zenon DEF FirstMatchWins, ValuesOf
<1>. QED
    BY <1>2, CollectionsAreSeparate, PTL

-----------------------------------------------------------------------------
(* Searching a second time. *)

\* e is what getEntry() returned when it had asked the first last objects.
SearchedTo(e, last, name, matchpath) ==
    /\ e = [c |-> e.c, heap |-> e.heap, thrown |-> "none", out |-> e.out]
    /\ Sound(e.c, e.heap) /\ Usable(e.c)
    /\ last \in 1..Len(e.c) /\ Settled(e.c, last)
    /\ \A i \in 1..Len(e.c) : i < last => ~Found(e.c[i], e.heap, name, matchpath)
    /\ Found(e.c[last], e.heap, name, matchpath)
    /\ e.out = FindFirst(Own(e.c[last]), e.heap, name, matchpath)

\* A listed object is found if it was found before it was listed.
LEMMA FoundOnce ==
    ASSUME NEW d, NEW h, NEW node, NEW hp, ListedAs(d, h, node, hp), ~Unlisted(d),
           NEW name, NEW matchpath
    PROVE  Found(d, h, name, matchpath) <=> Found(node, hp, name, matchpath)
<1>. DEFINE W == Listed(node, hp)
<1>1. /\ h \in Heap /\ d \in Node(h) /\ d.class = node.class
      /\ W \in Seq(Entry) /\ Values(d, h) = W
    BY DEF ListedAs
<1>2. NewEntries(d) = << >>
    BY <1>1, LoadedIsIdle
<1>. HIDE DEF W
<1>3. Listed(d, h) = W
    BY <1>1, <1>2, ConcatEmptySeq DEF Listed
<1>4. Found(node, hp, name, matchpath) <=>
            /\ node.class # "CollectionCollection"
            /\ \E j \in 1..Len(W) : Matches(W[j], name, matchpath)
    BY <1>1, FoundIs DEF W
<1>5. Found(d, h, name, matchpath) <=>
            /\ d.class # "CollectionCollection"
            /\ \E j \in 1..Len(Listed(d, h)) : Matches(Listed(d, h)[j], name, matchpath)
    BY <1>1, <1>3, FoundIs
<1>. QED
    BY <1>1, <1>3, <1>4, <1>5

\* When getEntry() finds an entry, every object before it was listed without
\* failing.
LEMMA GetEntryFound ==
    ASSUME NEW c, NEW hp, Sound(c, hp), Len(c) > 0, NEW name, NEW matchpath,
           GetEntry(c, hp, name, matchpath).out # << >>
    PROVE  \E last : SearchedTo(GetEntry(c, hp, name, matchpath), last, name, matchpath)
<1>. DEFINE e == GetEntry(c, hp, name, matchpath)
<1>1. Usable(c)
    <2>1. SUFFICES ASSUME ~Usable(c) PROVE FALSE
        OBVIOUS
    <2>2. e = Threw(c, hp, "InvalidStateException")
        BY <2>1, Zenon DEF GetEntry
    <2>3. e.out = << >>
        BY <2>2 DEF Threw
    <2>. QED
        BY <2>3
<1>2. /\ Effect(c, hp, e.c, e.heap)
      /\ e = [c |-> e.c, heap |-> e.heap, thrown |-> e.thrown, out |-> e.out]
    BY GetEntryIs
<1>3. PICK last \in 1..Len(c) :
        /\ Ends(c, hp, name, matchpath, last)
        /\ (Asked(c, hp, last).thrown = "none") <=> ~Fails(c[last])
        /\ Gets(e, Asked(c, hp, last), name, matchpath, last)
    BY <1>1, GetEntryThen
<1>4. e.out # << >>
    OBVIOUS
<1>. DEFINE r == Asked(c, hp, last)
<1>. HIDE DEF e
<1>5. /\ ~Fails(c[last])
      /\ \A i \in 1..Len(c) : i < last => ~Found(c[i], hp, name, matchpath) /\ ~Fails(c[i])
      /\ e.c = r.c /\ e.heap = r.heap /\ e.thrown = "none"
      /\ e.out = FindFirst(Own(r.c[last]), r.heap, name, matchpath)
    BY <1>3, <1>4 DEF Ends, Gets
<1>6. Len(c) \in Nat /\ DOMAIN c = 1..Len(c) /\ last \in 0..Len(c)
    BY SoundNodes
<1>7. ASSUME NEW i \in 1..last PROVE i \in 1..Len(c) /\ i <= last /\ ~Fails(c[i])
    <2>1. i \in 1..Len(c) /\ (i < last \/ i = last)
        BY <1>6
    <2>. QED
        BY <1>5, <2>1
<1>8. ASSUME NEW i \in 1..last
      PROVE  /\ ListedAs(r.c[i], r.heap, c[i], hp) /\ r.c[i].valid /\ ~Unlisted(r.c[i])
    <2>1. ListedAs(r.c[i], r.heap, c[i], hp)
        BY <1>1, <1>6, <1>7, SearchListed
    <2>2. r.c[i].valid /\ ~Unlisted(r.c[i])
        BY <1>1, <1>6, <1>7, AskedIs
    <2>. QED
        BY <2>1, <2>2
<1>9. ASSUME NEW i \in 1..Len(c), i > last PROVE r.c[i].valid
    <2>1. r.c[i] = c[i]
        BY <1>1, <1>6, <1>9, AskedIs
    <2>. QED
        BY <1>1, <1>6, <2>1 DEF Usable
<1>. HIDE DEF r
<1>10. Sound(e.c, e.heap) /\ Len(e.c) = Len(c) /\ DOMAIN e.c = 1..Len(c)
    BY <1>2, SoundNodes DEF Effect
<1>11. Usable(e.c)
    <2>1. \A i \in 1..Len(c) : i \in 1..last \/ i > last
        BY <1>6
    <2>. QED
        BY <1>5, <1>8, <1>9, <1>10, <2>1 DEF Usable
<1>12. Settled(e.c, last)
    BY <1>5, <1>8 DEF Settled
<1>13. ASSUME NEW i \in 1..last
       PROVE  Found(e.c[i], e.heap, name, matchpath) <=> Found(c[i], hp, name, matchpath)
    BY <1>5, <1>8, FoundOnce
<1>14. \A i \in 1..Len(e.c) : i < last => ~Found(e.c[i], e.heap, name, matchpath)
    <2>1. \A i \in 1..Len(c) : i < last => i \in 1..last
        BY <1>6
    <2>. QED
        BY <1>5, <1>10, <1>13, <2>1
<1>15. last \in 1..last
    BY <1>6
<1>16. Found(c[last], hp, name, matchpath)
    <2>. DEFINE refs == Own(r.c[last])
                h == r.heap
    <2>1. ListedAs(r.c[last], h, c[last], hp)
        BY <1>8, <1>15
    <2>2. refs \in Seq(References(h))
        BY <2>1, OwnIs
    <2>3. \A j \in 1..Len(refs) :
            Matches(At(h, refs[j]), name, matchpath) => Found(c[last], hp, name, matchpath)
        BY <2>1, OwnMatches
    <2>4. FindFirst(refs, h, name, matchpath) # << >>
        BY <1>4, <1>5
    <2>. HIDE DEF refs, h
    <2>5. \E j \in 1..Len(refs) : Matches(At(h, refs[j]), name, matchpath)
        BY <2>2, <2>4, FindFirstIs
    <2>. QED
        BY <2>3, <2>5
<1>17. SearchedTo(e, last, name, matchpath)
    BY <1>2, <1>5, <1>10, <1>11, <1>12, <1>13, <1>14, <1>15, <1>16 DEF SearchedTo
<1>. QED
    BY <1>17 DEF e

\* In a part of the collection, the same search finds the same entry and lists
\* nothing.
LEMMA SearchAgain ==
    ASSUME NEW e, NEW last, NEW name, NEW matchpath, SearchedTo(e, last, name, matchpath),
           NEW a \in 1..last, NEW b \in last..Len(e.c)
    PROVE  GetEntry(SubSeq(e.c, a, b), e.heap, name, matchpath)
            = [c |-> SubSeq(e.c, a, b), heap |-> e.heap, thrown |-> "none", out |-> e.out]
<1>. DEFINE c == e.c
            part == SubSeq(c, a, b)
            h == e.heap
            g == GetEntry(part, h, name, matchpath)
            n == last - a + 1
<1>1. /\ Sound(c, h) /\ Usable(c) /\ last \in 1..Len(c) /\ Settled(c, last)
      /\ \A i \in 1..Len(c) : i < last => ~Found(c[i], h, name, matchpath)
      /\ Found(c[last], h, name, matchpath)
      /\ e.out = FindFirst(Own(c[last]), h, name, matchpath)
    BY DEF SearchedTo
<1>. HIDE DEF c, h
<1>2. /\ Len(c) \in Nat /\ DOMAIN c = 1..Len(c)
      /\ \A i \in 1..Len(c) : c[i] \in Node(h)
    BY <1>1, SoundNodes
<1>3. a \in 1..Len(c) /\ b \in a..Len(c) /\ a \in Nat /\ b \in Nat /\ last \in Nat
    BY <1>1, <1>2 DEF c
<1>4. /\ Sound(part, h) /\ Len(part) = b - a + 1
      /\ \A i \in 1..b - a + 1 : part[i] = c[a + i - 1]
    BY <1>1, <1>3, PartIs
<1>5. n \in 1..Len(part) /\ Len(part) > 0 /\ Len(part) \in Nat /\ a + n - 1 = last /\ n \in Nat
    BY <1>3, <1>4
<1>. HIDE DEF part, n
<1>6. ASSUME NEW i \in 1..Len(part)
      PROVE  /\ i \in 1..b - a + 1 /\ a + i - 1 \in 1..Len(c) /\ part[i] = c[a + i - 1]
             /\ (i < n => a + i - 1 < last) /\ (i <= n => a + i - 1 <= last)
    <2>1. i \in 1..b - a + 1
        BY <1>4
    <2>2. /\ a + i - 1 \in 1..Len(c)
          /\ (i < n => a + i - 1 < last) /\ (i <= n => a + i - 1 <= last)
        BY <1>2, <1>3, <1>5, <2>1
    <2>. QED
        BY <1>4, <2>1, <2>2
<1>7. DOMAIN part = 1..Len(part) /\ \A i \in 1..Len(part) : part[i] \in Node(h)
    BY <1>4, SoundNodes
<1>8. Usable(part)
    BY <1>1, <1>2, <1>6, <1>7 DEF Usable
<1>9. ASSUME NEW i \in 1..Len(part), i <= n PROVE ~Unlisted(part[i])
    <2>1. a + i - 1 \in 1..last
        BY <1>1, <1>2, <1>6, <1>9
    <2>. QED
        BY <1>1, <1>6, <2>1 DEF Settled
<1>10. ASSUME NEW i \in 1..Len(part), i < n
       PROVE  ~Found(part[i], h, name, matchpath) /\ ~Fails(part[i])
    <2>1. ~Found(part[i], h, name, matchpath)
        BY <1>1, <1>6, <1>10
    <2>2. i <= n
        BY <1>5, <1>10
    <2>3. ~Unlisted(part[i])
        BY <1>9, <2>2
    <2>. QED
        BY <1>7, <2>1, <2>3, LoadedIsIdle
<1>11. part[n] = c[last]
    BY <1>5, <1>6
<1>12. Found(part[n], h, name, matchpath)
    BY <1>1, <1>11
<1>13. PICK l \in 1..Len(part) :
        /\ Ends(part, h, name, matchpath, l)
        /\ Gets(g, Asked(part, h, l), name, matchpath, l)
    BY <1>4, <1>5, <1>8, GetEntryThen
<1>14. l = n
    <2>1. /\ \A i \in 1..Len(part) : i < l => ~Found(part[i], h, name, matchpath)
          /\ Found(part[l], h, name, matchpath) \/ Fails(part[l]) \/ l = Len(part)
        BY <1>13 DEF Ends
    <2>2. ~(n < l)
        BY <1>5, <1>12, <2>1
    <2>3. ~(l < n)
        <3>1. SUFFICES ASSUME l < n PROVE FALSE
            OBVIOUS
        <3>2. ~Found(part[l], h, name, matchpath) /\ ~Fails(part[l])
            BY <1>10, <3>1
        <3>3. l # Len(part)
            BY <1>5, <3>1
        <3>. QED
            BY <2>1, <3>2, <3>3
    <2>. QED
        BY <1>5, <2>2, <2>3
<1>15. n \in 0..Len(part) /\ Settled(part, n)
    <2>1. \A i \in 1..n : i \in 1..Len(part) /\ i <= n
        BY <1>5
    <2>. QED
        BY <1>5, <1>9, <2>1 DEF Settled
<1>16. Asked(part, h, n) = [c |-> part, heap |-> h, thrown |-> "none", out |-> << >>]
    BY <1>4, <1>15, IdleIs
<1>. DEFINE r == Asked(part, h, n)
<1>17. r.c = part /\ r.heap = h /\ r.thrown = "none"
    BY <1>16
<1>18. g = [c |-> g.c, heap |-> g.heap, thrown |-> g.thrown, out |-> g.out]
    BY <1>4, <1>5, GetEntryIs
<1>. HIDE DEF g, r
<1>19. /\ g.c = part /\ g.heap = h /\ g.thrown = "none"
       /\ g.out = FindFirst(Own(part[n]), h, name, matchpath)
    BY <1>13, <1>14, <1>17 DEF Gets, r
<1>20. g.out = e.out
    BY <1>1, <1>11, <1>19
<1>21. g = [c |-> part, heap |-> h, thrown |-> "none", out |-> e.out]
    BY <1>18, <1>19, <1>20
<1>. QED
    BY <1>21 DEF g, part, h, c

\* The child that is asked again returns the same entry.
LEMMA AskHolderAgain ==
    ASSUME NEW e, NEW last, NEW name, NEW j, SearchedTo(e, last, name, "MATCH"),
           HasFound(e, last, j), e.c[1].class = "CollectionCollection"
    PROVE  AskHolder(e, name) = e
<1>. DEFINE match == "MATCH"
            first == Holder(e.c, NodeOf(e.c, e.out[1]))
            end == HolderEnd(e.c, first)
            part == SubSeq(e.c, first, end)
            k == GetEntry(part, e.heap, name, match)
            d == [i \in DOMAIN e.c |->
                    IF i \in first..end THEN k.c[i - first + 1] ELSE e.c[i]]
            s == AskHolder(e, name)
<1>1. first \in 2..last /\ end \in last..Len(e.c)
    BY ChildIs
<1>2. s = [k EXCEPT !.c = d]
    BY Zenon DEF AskHolder
<1>3. /\ Sound(e.c, e.heap) /\ last \in 1..Len(e.c)
      /\ e = [c |-> e.c, heap |-> e.heap, thrown |-> "none", out |-> e.out]
    BY DEF SearchedTo
<1>4. Len(e.c) \in Nat /\ DOMAIN e.c = 1..Len(e.c)
    BY <1>3, SoundNodes
<1>. HIDE DEF first, end, k, s
<1>5. first \in 1..last /\ first \in 1..Len(e.c) /\ end \in first..Len(e.c)
      /\ first \in Nat /\ end \in Nat
    BY <1>1, <1>3, <1>4
<1>6. SearchedTo(e, last, name, match)
    OBVIOUS
<1>. HIDE DEF match
<1>7. k = [c |-> part, heap |-> e.heap, thrown |-> "none", out |-> e.out]
    BY <1>1, <1>5, <1>6, SearchAgain DEF k
<1>8. /\ Len(part) = end - first + 1
      /\ \A i \in 1..end - first + 1 : part[i] = e.c[first + i - 1]
    BY <1>3, <1>5, PartIs
<1>. HIDE DEF part
<1>9. k.c = part
    BY <1>7
<1>10. ASSUME NEW i \in 1..Len(e.c), i \in first..end PROVE k.c[i - first + 1] = e.c[i]
    <2>. DEFINE m == i - first + 1
    <2>1. m \in 1..end - first + 1 /\ first + m - 1 = i
        BY <1>4, <1>5, <1>10
    <2>. HIDE DEF m
    <2>2. part[m] = e.c[i]
        BY <1>8, <2>1
    <2>. QED
        BY <1>9, <2>2 DEF m
<1>11. d = e.c
    <2>1. e.c = [i \in DOMAIN e.c |-> e.c[i]]
        BY <1>3 DEF Sound, Nodes
    <2>2. \A i \in DOMAIN e.c :
            (IF i \in first..end THEN k.c[i - first + 1] ELSE e.c[i]) = e.c[i]
        BY <1>4, <1>10
    <2>. QED
        BY <2>1, <2>2, Zenon
<1>. HIDE DEF d
<1>12. s = [c |-> e.c, heap |-> e.heap, thrown |-> "none", out |-> e.out]
    BY <1>2, <1>7, <1>11
<1>. QED
    BY <1>3, <1>12 DEF s

-----------------------------------------------------------------------------
(* What getInputStream() opens. *)

\* The object that has the entry can open it.
LEMMA OpenedMeant ==
    ASSUME NEW r, NEW i, NEW j, HasFound(r, i, j), r.thrown = "none",
           CanOpen(r.c, r.heap, r.out[1])
    PROVE  LET s == Opened(r)
               entry == At(r.heap, r.out[1])
           IN  /\ s.thrown = "none"
               /\ \/ s.out = << Meant(entry) >>
                  \/ s.out = << >> /\ entry.directory
<1>. DEFINE s == Opened(r)
            c == r.c
            ref == c[i].entries[j]
            entry == At(r.heap, ref)
<1>1. /\ r = [c |-> r.c, heap |-> r.heap, thrown |-> r.thrown, out |-> r.out]
      /\ Sound(c, r.heap) /\ i \in 1..Len(c) /\ j \in 1..Len(c[i].entries)
      /\ r.out = << ref >>
    BY DEF HasFound
<1>2. r.out[1] = ref
    <2>. HIDE DEF ref
    <2>. QED
        BY <1>1
<1>3. /\ entry \in Entry
      /\ c[i].class = "DirectoryCollection" \/ c[i].class = "ZipFile"
      /\ c[i].class = "DirectoryCollection" =>
            IF entry.directory THEN s = [r EXCEPT !.out = << >>]
            ELSE s = [r EXCEPT !.out = << [where |-> "disk", name |-> entry.name] >>]
      /\ c[i].class = "ZipFile" /\ entry.from \in {"archive", "stream"} =>
            s = [r EXCEPT !.out = << [where |-> entry.from, name |-> entry.name] >>]
    BY OpenedIs
<1>4. /\ DOMAIN c = 1..Len(c) /\ Private(c)
      /\ \A k \in 1..Len(c) : c[k] \in Node(r.heap)
    BY <1>1, SoundNodes DEF Sound
<1>5. \/ c[i].class = "ZipFile" /\ entry.from \in {"archive", "stream"}
      \/ c[i].class = "DirectoryCollection" /\ entry.from \in {"listing", "program"}
    <2>1. PICK k \in DOMAIN c :
            /\ ref \in ToSet(c[k].entries)
            /\ \/ c[k].class = "ZipFile" /\ entry.from \in {"archive", "stream"}
               \/ c[k].class = "DirectoryCollection" /\ entry.from \in {"listing", "program"}
        BY <1>2, Zenon DEF CanOpen
    <2>2. k \in 1..Len(c) /\ c[k] \in Node(r.heap)
        BY <1>4
    <2>3. DOMAIN c[k].entries = 1..Len(c[k].entries)
        BY <2>2, NodeType
    <2>4. PICK l \in 1..Len(c[k].entries) : ref = c[k].entries[l]
        BY <2>1, <2>3 DEF ToSet
    <2>5. i = k
        BY <1>1, <1>4, <2>2, <2>4, PrivateIs
    <2>. QED
        BY <2>1, <2>5
<1>. HIDE DEF s, c, ref, entry
<1>6. CASE c[i].class = "ZipFile" /\ entry.from \in {"archive", "stream"}
    <2>. DEFINE content == [where |-> entry.from, name |-> entry.name]
                out == << content >>
    <2>1. s = [r EXCEPT !.out = out]
        BY <1>3, <1>6
    <2>2. Meant(entry) = content
        <3>1. CASE entry.from = "archive"
            BY <3>1 DEF Meant
        <3>2. CASE entry.from = "stream"
            BY <3>2 DEF Meant
        <3>. QED
            BY <1>6, <3>1, <3>2
    <2>. HIDE DEF content
    <2>3. out = << Meant(entry) >>
        BY <2>2
    <2>. HIDE DEF out
    <2>4. s.thrown = "none" /\ s.out = out
        BY <1>1, <2>1
    <2>. QED
        BY <1>2, <2>3, <2>4 DEF s, entry
<1>7. CASE c[i].class = "DirectoryCollection" /\ entry.from \in {"listing", "program"}
    <2>. DEFINE content == [where |-> "disk", name |-> entry.name]
                out == << content >>
                none == << >>
    <2>1. IF entry.directory THEN s = [r EXCEPT !.out = none] ELSE s = [r EXCEPT !.out = out]
        BY <1>3, <1>7
    <2>2. Meant(entry) = content
        BY <1>7 DEF Meant
    <2>. HIDE DEF content
    <2>3. out = << Meant(entry) >>
        BY <2>2
    <2>. HIDE DEF out, none
    <2>4. CASE entry.directory
        <3>1. s.thrown = "none" /\ s.out = none
            BY <1>1, <2>1, <2>4
        <3>. QED
            BY <1>2, <2>4, <3>1 DEF s, entry, none
    <2>5. CASE ~entry.directory
        <3>1. s.thrown = "none" /\ s.out = out
            BY <1>1, <2>1, <2>5
        <3>. QED
            BY <1>2, <2>3, <3>1 DEF s, entry
    <2>. QED
        BY <2>4, <2>5
<1>. QED
    BY <1>5, <1>6, <1>7

\* getInputStream() opens the content that is meant, or none for a directory.
LEMMA StreamIs ==
    ASSUME NEW c, NEW hp, Sound(c, hp), IsTree(c), NEW name,
           GetEntry(c, hp, name, "MATCH").out # << >>,
           CanOpen(GetEntry(c, hp, name, "MATCH").c, GetEntry(c, hp, name, "MATCH").heap,
                   GetEntry(c, hp, name, "MATCH").out[1])
    PROVE  LET e == GetEntry(c, hp, name, "MATCH")
               s == GetInputStream(c, hp, name, "MATCH")
               entry == At(e.heap, e.out[1])
           IN  /\ s.thrown = "none"
               /\ \/ s.out = << Meant(entry) >>
                  \/ s.out = << >> /\ entry.directory
<1>. DEFINE match == "MATCH"
            e == GetEntry(c, hp, name, match)
            a == AskHolder(e, name)
            t == IF c[1].class = "CollectionCollection" THEN a ELSE e
            o == Opened(t)
            s == GetInputStream(c, hp, name, match)
<1>1. /\ e.out # << >> /\ CanOpen(e.c, e.heap, e.out[1])
      /\ s = IF e.thrown # "none" \/ e.out = << >> THEN e
             ELSE IF t.thrown # "none" \/ t.out = << >> THEN t
             ELSE o
    <2>1. e.out # << >> /\ CanOpen(e.c, e.heap, e.out[1])
        OBVIOUS
    <2>2. CASE e.thrown # "none"
        BY <2>1, <2>2, Zenon DEF GetInputStream
    <2>3. CASE e.thrown = "none" /\ c[1].class = "CollectionCollection"
        <3>1. s = IF a.thrown # "none" \/ a.out = << >> THEN a ELSE Opened(a)
            BY <2>1, <2>3, Zenon DEF GetInputStream
        <3>2. t = a
            BY <2>3
        <3>. HIDE DEF e, a, s
        <3>. QED
            BY <2>1, <2>3, <3>1, <3>2
    <2>4. CASE e.thrown = "none" /\ c[1].class # "CollectionCollection"
        <3>1. s = Opened(e)
            BY <2>1, <2>4, Zenon DEF GetInputStream
        <3>2. t = e
            BY <2>4
        <3>. HIDE DEF e, a, s
        <3>. QED
            BY <2>1, <2>4, <3>1, <3>2
    <2>. QED
        BY <2>1, <2>2, <2>3, <2>4
<1>2. Len(c) > 0 /\ 1 \in 1..Len(c) /\ Len(c) \in Nat
    BY SoundNodes DEF IsTree
<1>. HIDE DEF match
<1>3. PICK last : SearchedTo(e, last, name, match)
    BY <1>1, <1>2, GetEntryFound
<1>4. /\ Effect(c, hp, e.c, e.heap)
      /\ \E i \in 1..Len(e.c) : \E j \in 1..Len(e.c[i].entries) :
            /\ e.c[i].class # "CollectionCollection"
            /\ e.out = << e.c[i].entries[j] >>
    BY <1>1, <1>2, GetEntryIs
<1>. HIDE DEF e
<1>5. e.thrown = "none" /\ e = [c |-> e.c, heap |-> e.heap, thrown |-> e.thrown, out |-> e.out]
    BY <1>3 DEF SearchedTo
<1>6. Sound(e.c, e.heap) /\ IsTree(e.c) /\ e.c[1].class = c[1].class
    BY <1>2, <1>4, TreeKept DEF Effect
<1>7. PICK j : HasFound(e, last, j)
    <2>1. /\ last \in 1..Len(e.c) /\ Found(e.c[last], e.heap, name, match)
          /\ e.out = FindFirst(Own(e.c[last]), e.heap, name, match)
        BY <1>3 DEF SearchedTo
    <2>2. e.c[last].class # "CollectionCollection"
        BY <2>1 DEF Found
    <2>. DEFINE refs == e.c[last].entries
                X == References(e.heap)
    <2>3. Own(e.c[last]) = refs
        BY <2>2 DEF Own
    <2>4. refs \in Seq(X)
        BY <1>6, <2>1, SoundNodes, NodeType
    <2>. HIDE DEF refs, X
    <2>5. e.out = FindFirst(refs, e.heap, name, match)
        BY <2>1, <2>3
    <2>6. \E j \in 1..Len(refs) : e.out = << refs[j] >>
        BY <1>1, <2>4, <2>5, FindFirstIs
    <2>. QED
        BY <1>5, <1>6, <2>1, <2>2, <2>6 DEF HasFound, refs
<1>8. t = e
    <2>1. CASE c[1].class = "CollectionCollection"
        <3>1. SearchedTo(e, last, name, "MATCH")
            BY <1>3 DEF match
        <3>2. AskHolder(e, name) = e
            BY <1>6, <1>7, <2>1, <3>1, AskHolderAgain
        <3>. QED
            BY <2>1, <3>2
    <2>2. CASE c[1].class # "CollectionCollection"
        BY <2>2
    <2>. QED
        BY <2>1, <2>2
<1>. HIDE DEF t
<1>9. s = Opened(e)
    BY <1>1, <1>5, <1>8
<1>. HIDE DEF s
<1>10. /\ Opened(e).thrown = "none"
       /\ \/ Opened(e).out = << Meant(At(e.heap, e.out[1])) >>
          \/ Opened(e).out = << >> /\ At(e.heap, e.out[1]).directory
    BY <1>1, <1>5, <1>7, OpenedMeant
<1>. QED
    BY <1>9, <1>10 DEF s, e, match

\* getInputStream() opens the content of the entry that getEntry() finds for
\* the same full name, whatever collections hold it, when the object that has
\* the entry can open it; for a directory it may also return a null pointer
\* (collectioncollection.cpp:389, directorycollection.cpp:203,
\* zipfile.cpp:544).
THEOREM StreamIsOfTheEntry == Spec => []StreamOfFullName
<1>1. ASSUME IInv, NEW v \in Var, NEW name \in Name,
             GetEntry(var[v], heap, name, "MATCH").out # << >>,
             CanOpen(GetEntry(var[v], heap, name, "MATCH").c,
                     GetEntry(var[v], heap, name, "MATCH").heap,
                     GetEntry(var[v], heap, name, "MATCH").out[1])
      PROVE  LET e == GetEntry(var[v], heap, name, "MATCH")
                 s == GetInputStream(var[v], heap, name, "MATCH")
             IN  /\ s.thrown = "none"
                 /\ \/ s.out = << Meant(At(e.heap, e.out[1])) >>
                    \/ s.out = << >> /\ At(e.heap, e.out[1]).directory
    <2>1. Sound(var[v], heap) /\ IsTree(var[v])
        BY <1>1, ProgramIs DEF IInv
    <2>. QED
        BY <1>1, <2>1, StreamIs
<1>2. IInv => StreamOfFullName
    BY <1>1, Zenon DEF StreamOfFullName
<1>. QED
    BY <1>2, CollectionsAreSeparate, PTL

=============================================================================
