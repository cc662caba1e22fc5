--------------------------- MODULE CollectionCalls ---------------------------
(***************************************************************************)
(* Programs that use file collections: any sequence of calls of the public *)
(* member functions on the collections a few variables hold, while files   *)
(* vanish from the disk and directories become unreadable.                 *)
(***************************************************************************)
EXTENDS Collections

\* DirectoryCollection(path, recursive)
Directory(path, recursive) ==
    << [NewCollection("DirectoryCollection")[1] EXCEPT
            !.valid = IsDirectory(path) \/ IsRegular(path),
            !.path = path, !.recursive = recursive] >>

\* Each variable has been constructed.
Init ==
    /\ disk = Name
    /\ locked = {}
    /\ heap = << >>
    /\ var \in [Var -> {NewCollection("CollectionCollection")}
                        \cup {Directory(path, TRUE) : path \in Paths}]
    /\ steps = 0

\* A file or a directory vanishes, with everything below it.
Vanish(name) ==
    /\ name \in disk
    /\ disk' = disk \ ({name} \cup ToSet(Below[MaxNesting][name]))
    /\ UNCHANGED << locked, heap, var >>

Lock(name) ==
    /\ IsDirectory(name) /\ name \notin locked
    /\ locked' = locked \cup {name}
    /\ UNCHANGED << disk, heap, var >>

\* A call on v returned or threw r.
Call(v, r) ==
    /\ var' = [var EXCEPT ![v] = r.c]
    /\ heap' = r.heap
    /\ UNCHANGED << disk, locked >>

\* v = DirectoryCollection(path, recursive)
NewDirectory(v, path, recursive) ==
    /\ var' = [var EXCEPT ![v] = Directory(path, recursive)]
    /\ UNCHANGED << disk, locked, heap >>

\* v = ZipFile(filename), or v = ZipFile(), which is valid and has no entries
NewZipFile(v, names) ==
    LET entries == [i \in DOMAIN names |->
                        NewEntry(names[i], "archive", TRUE, FALSE, 1)]
        node == WithEntries(NewCollection("ZipFile")[1], heap, 1, entries)
    IN  Call(v, Returned(<< node >>, Allocated(heap, << entries >>), << >>))

\* v = CollectionCollection()
NewCollections(v) ==
    /\ var' = [var EXCEPT ![v] = NewCollection("CollectionCollection")]
    /\ UNCHANGED << disk, locked, heap >>

\* v = w, or v = w.clone()
Assign(v, w) ==
    /\ v # w
    /\ Call(v, Clone(var[w], heap))

\* The copy r becomes the last child of v.
Adopt(v, r) ==
    /\ var' = [var EXCEPT ![v] =
                @ \o [i \in DOMAIN r.c |-> [r.c[i] EXCEPT !.depth = @ + 1]]]
    /\ heap' = r.heap

Kids(c) == {i \in DOMAIN c : c[i].depth = 1}

\* v.addCollection(w)
AddCollection(v, w) ==
    /\ var[v][1].class = "CollectionCollection"
    /\ Usable(var[v])
    /\ Cardinality(Kids(var[v])) < MaxKids
    /\ \A i \in DOMAIN var[w] : var[w][i].depth < MaxDepth
    /\ IF v # w /\ var[w][1].valid THEN Adopt(v, Clone(var[w], heap))
       ELSE UNCHANGED << heap, var >>
    /\ UNCHANGED << disk, locked >>

\* v.addEntry(DirectoryEntry(name)), or v.addEntry(StreamEntry(is, name))
AddEntryTo(v, name, from) == Call(v, AddEntry(var[v], heap, name, from))

\* v.close()
Close(v) ==
    /\ var' = [var EXCEPT ![v] = Closed(var[v])]
    /\ UNCHANGED << disk, locked, heap >>

CallEntries(v) == Call(v, Entries(var[v], heap))

CallSize(v) == Call(v, Size(var[v], heap))

CallGetEntry(v, name, matchpath) ==
    Call(v, GetEntry(var[v], heap, name, matchpath))

CallGetInputStream(v, name, matchpath) ==
    Call(v, GetInputStream(var[v], heap, name, matchpath))

CallSetMethod(v, limit, small, large) ==
    Call(v, SetMethod(var[v], heap, limit, small, large))

CallSetLevel(v, limit, small, large) ==
    Call(v, SetLevel(var[v], heap, limit, small, large))

\* What is looked for: full names, and base names in any directory.
Wanted ==
    (Name \X {"MATCH"}) \cup ({BaseName[n] : n \in Name} \X {"IGNORE"})

Step ==
    \/ \E name \in Name : Vanish(name) \/ Lock(name)
    \/ \E v \in Var :
        \/ \E path \in Paths, recursive \in BOOLEAN : NewDirectory(v, path, recursive)
        \/ NewCollections(v)
        \/ \E names \in {<< >>, ArchiveNames} : NewZipFile(v, names)
        \/ \E w \in Var : Assign(v, w) \/ AddCollection(v, w)
        \/ \E name \in Added, from \in {"program", "stream"} : AddEntryTo(v, name, from)
        \/ Close(v)
        \/ CallEntries(v) \/ CallSize(v)
        \/ \E w \in Wanted :
            CallGetEntry(v, w[1], w[2]) \/ CallGetInputStream(v, w[1], w[2])
        \/ \E limit \in Limits, m \in MethodChoices : CallSetMethod(v, limit, m[1], m[2])
        \/ \E limit \in Limits, l \in LevelChoices : CallSetLevel(v, limit, l[1], l[2])

Next == steps < MaxSteps /\ steps' = steps + 1 /\ Step

Spec == Init /\ [][Next]_vars

-----------------------------------------------------------------------------
(* Properties. *)

References(hp) ==
    {ref \in Nat \X Nat \X Nat :
        /\ ref[1] \in DOMAIN hp
        /\ ref[2] \in DOMAIN hp[ref[1]]
        /\ ref[3] \in DOMAIN hp[ref[1]][ref[2]]}

Node(hp) ==
    [class : Class, valid : BOOLEAN, loaded : BOOLEAN, path : Name \cup {""},
     recursive : BOOLEAN, entries : Seq(References(hp)), depth : Nat]

\* Only a CollectionCollection has children.
IsTree(c) ==
    /\ Len(c) > 0 /\ c[1].depth = 0
    /\ \A i \in 2..Len(c) :
        /\ c[i].depth \in 1..c[i - 1].depth + 1
        /\ c[i].depth > c[i - 1].depth => c[i - 1].class = "CollectionCollection"

EntryType ==
    [name : Name, from : {"listing", "archive", "program", "stream"},
     valid : BOOLEAN, directory : BOOLEAN, size : 0..1,
     method : SupportedMethod, level : CompressionLevel]

\* What setMethod() and setLevel() keep of a directory, also when they throw.
Uncompressed(e) == e.method = "STORED" /\ e.level < COMPRESSION_LEVEL_MINIMUM

Entry == {e \in EntryType : e.directory => Uncompressed(e)}

TypeOK ==
    /\ disk \subseteq Name
    /\ locked \subseteq Name
    /\ heap \in Seq(Seq(Seq(Entry)))
    /\ var \in [Var -> Seq(Node(heap))]
    /\ \A v \in Var : IsTree(var[v])
    /\ steps \in 0..MaxSteps

\* What a program can see of a collection: its entries by value.
View(c, hp) == [i \in DOMAIN c |-> [c[i] EXCEPT !.entries = Values(c[i], hp)]]

\* "entries in the source or new collection can be modified and it has no
\* effect on the entries in the other collection": no call on one collection
\* shows in another, whatever was copied from what before and through however
\* many levels of collections of collections.
CopiesAreIndependent ==
    [][\A v, w \in Var :
        v # w => \/ View(var'[v], heap') = View(var[v], heap)
                 \/ View(var'[w], heap') = View(var[w], heap)]_vars

\* A listing is all or nothing: after one that failed the entries found until
\* then are gone, in every collection of the tree, so that no later call can
\* return half a directory or list it twice.
ListedOnce(node, hp) ==
    LET values == Values(node, hp)
        listed == {j \in DOMAIN values : values[j].from = "listing"}
    IN  node.class = "DirectoryCollection" =>
            /\ ~node.loaded => listed = {}
            /\ \A i, j \in listed : values[i].name = values[j].name => i = j

NoHalfListing == \A v \in Var : \A i \in DOMAIN var[v] : ListedOnce(var[v][i], heap)

\* "If more than one collection contain a file with the same path only the one
\* in the first added collection is accessible": what getEntry() would find now,
\* child by child, is what comes first in what entries() would return, and that
\* is as long as size() would say, whichever of the three makes the listing.
FirstMatchWins ==
    \A v \in Var :
        LET all == Entries(var[v], heap)
            values(out, hp) == [i \in DOMAIN out |-> At(hp, out[i])]
            agree(e, w) ==
                /\ e.thrown = "none"
                /\ values(e.out, e.heap)
                    = values(FindFirst(all.out, all.heap, w[1], w[2]), all.heap)
        IN  all.thrown = "none" =>
                /\ Size(var[v], heap).out = << Len(all.out) >>
                /\ \A w \in Wanted : agree(GetEntry(var[v], heap, w[1], w[2]), w)

\* What an entry stands for.
Meant(e) ==
    [where |-> CASE e.from \in {"listing", "program"} -> "disk"
                 [] e.from = "archive" -> "archive"
                 [] e.from = "stream" -> "stream",
     name |-> e.name]

\* The collection that has the entry can open what it stands for: addEntry()
\* takes any, but a ZipFile does not open files of the disk, nor a
\* DirectoryCollection an std::istream.
CanOpen(c, hp, ref) ==
    \E i \in DOMAIN c :
        /\ ref \in ToSet(c[i].entries)
        /\ \/ c[i].class = "ZipFile" /\ At(hp, ref).from \in {"archive", "stream"}
           \/ /\ c[i].class = "DirectoryCollection"
              /\ At(hp, ref).from \in {"listing", "program"}

\* Given the full name of an entry, getInputStream() would open what the entry
\* that getEntry() would return stands for, or nothing if that is a directory:
\* across all children, also when a child is listed, or fails to be listed, by
\* the call, and for entries that were added to a collection that can open them.
StreamOfFullName ==
    \A v \in Var, name \in Name :
        LET agree(e, s) ==
                e.out # << >> /\ CanOpen(e.c, e.heap, e.out[1]) =>
                    /\ s.thrown = "none"
                    /\ \/ s.out = << Meant(At(e.heap, e.out[1])) >>
                       \/ s.out = << >> /\ At(e.heap, e.out[1]).directory
        IN  agree(GetEntry(var[v], heap, name, "MATCH"),
                  GetInputStream(var[v], heap, name, "MATCH"))

\* A setLevel() that is refused by an entry half way leaves some entries changed
\* and others not, but nothing that a second call with levels they all take
\* would not put right: it has the effect it would have had at once.
RetryRepairs ==
    \A v \in Var, limit \in Limits, l \in LevelChoices :
        LET first == SetLevel(var[v], heap, limit, l[1], l[2])
            same(r, s) == /\ r.thrown = s.thrown
                          /\ View(r.c, r.heap) = View(s.c, s.heap)
            repaired(again, at_once) == at_once.thrown = "none" => same(again, at_once)
        IN  first.thrown = "InvalidStateException" =>
                \A m \in LevelChoices :
                    repaired(SetLevel(first.c, first.heap, limit, m[1], m[2]),
                             SetLevel(var[v], heap, limit, m[1], m[2]))
=============================================================================
