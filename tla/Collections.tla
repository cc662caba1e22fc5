----------------------------- MODULE Collections -----------------------------
(***************************************************************************)
(* File collections: FileCollection (src/src/filecollection.cpp) and the   *)
(* classes derived from it, DirectoryCollection                            *)
(* (src/src/directorycollection.cpp), ZipFile once it is open              *)
(* (src/src/zipfile.cpp) and CollectionCollection                          *)
(* (src/src/collectioncollection.cpp).                                     *)
(*                                                                         *)
(* A collection is a value, since whoever holds one holds a clone of his   *)
(* own: the sequence of the objects it is made of, itself and then its     *)
(* children one after the other, each before its own children, which is    *)
(* the order in which the loops over m_collections reach them.  Entries    *)
(* are references into a heap, since entries() and getEntry() hand out     *)
(* pointers to them.  Every member function takes a collection and the     *)
(* heap and returns both as the call leaves them, what it threw and what   *)
(* it returned.  A directory is listed by the first call that needs its    *)
(* entries; the files may have changed by then.                            *)
(***************************************************************************)
EXTENDS FileEntries, SequencesExt

CONSTANTS
    Var,            \* the variables of the program that hold a collection
    Name,           \* full names of files, in the archive and on disk
    Kind,           \* what is on disk under each name
    BaseName,       \* its last segment
    Children,       \* what readdir() lists in each directory, in its order
    Paths,          \* what collections are made of
    Added,          \* what is added to collections one by one
    ArchiveNames,   \* the entries of the archive that is opened
    Limits,         \* the limits between small and large files that are used,
    MethodChoices,  \*   the methods for both, and
    LevelChoices,   \*   the compression levels
    MaxNesting,     \* how many directories are below one another
    MaxKids,        \* how many collections a CollectionCollection holds, and
    MaxDepth,       \*   how many of them one inside the other
    MaxSteps        \* how many calls are made and files are touched

ASSUME FilesAssumption ==
    /\ Kind \in [Name -> {"directory", "regular", "special"}]
    /\ Children \in [Name -> Seq(Name)]
    /\ Paths \subseteq Name /\ Added \subseteq Name
    /\ ArchiveNames \in Seq(Name)
    /\ Limits \subseteq Nat
    /\ MethodChoices \subseteq StorageMethod \X StorageMethod
    /\ LevelChoices \subseteq Int \X Int
    /\ MaxNesting \in Nat \ {0} /\ MaxDepth \in Nat /\ MaxSteps \in Nat

\* A file is listed once, in the directory its full name says, which is one
\* level further up.
ASSUME TreeAssumption ==
    /\ \A dir, other \in Name :
        \A i \in DOMAIN Children[dir], j \in DOMAIN Children[other] :
            Children[dir][i] = Children[other][j] => dir = other /\ i = j
    /\ \E level \in [Name -> 0..MaxNesting] :
        \A dir \in Name : \A i \in DOMAIN Children[dir] :
            level[Children[dir][i]] = level[dir] + 1

VARIABLES
    disk,       \* the names that exist
    locked,     \* the directories that cannot be read
    heap,       \* the FileEntry objects: for each call that made some, and each
                \*   object of the collection it was called on, those it made
    var,        \* the collection each variable holds
    steps       \* how many steps were taken

vars == << disk, locked, heap, var, steps >>

Class == {"DirectoryCollection", "ZipFile", "CollectionCollection"}

\* depth: in how many collections the object is.
NewCollection(class) ==
    << [class |-> class, valid |-> TRUE, loaded |-> FALSE, path |-> "",
        recursive |-> TRUE, entries |-> << >>, depth |-> 0] >>

Returned(c, hp, out) == [c |-> c, heap |-> hp, thrown |-> "none", out |-> out]
Threw(c, hp, e) == [c |-> c, heap |-> hp, thrown |-> e, out |-> << >>]

FirstOf(S, otherwise) == IF S = {} THEN otherwise ELSE Min(S)

-----------------------------------------------------------------------------
(* Entries and their allocation. *)

\* What a reference points to.
At(hp, ref) == hp[ref[1]][ref[2]][ref[3]]

Values(node, hp) == [j \in DOMAIN node.entries |-> At(hp, node.entries[j])]

\* The next call that allocates makes blocks[i] for the i-th object.
Allocated(hp, blocks) ==
    IF \A i \in DOMAIN blocks : blocks[i] = << >> THEN hp ELSE Append(hp, blocks)

\* What it makes for the i-th object comes after the entries that one has.
WithEntries(node, hp, i, entries) ==
    [node EXCEPT !.entries =
        @ \o [j \in 1..Len(entries) |-> << Len(hp) + 1, i, j >>]]

\* Bug: the pointers are copied.
CopyEntriesShared(node, hp, i) == node

\* FileCollection(FileCollection const &): each entry is cloned.
CopyEntries(node, hp, i) ==
    WithEntries([node EXCEPT !.entries = << >>], hp, i, Values(node, hp))

\* clone(), and the copy constructors and assignments
Clone(c, hp) ==
    Returned([i \in DOMAIN c |-> CopyEntries(c[i], hp, i)],
             Allocated(hp, [i \in DOMAIN c |-> Values(c[i], hp)]), << >>)

-----------------------------------------------------------------------------
(* Validity and closing. *)

\* mustBeValid() does not throw.
Usable(c) == \A i \in DOMAIN c : c[i].valid

ClosedNode(node) ==
    [node EXCEPT !.valid = FALSE, !.loaded = FALSE, !.path = "", !.entries = << >>]

\* close() of all classes; the children are closed and then dropped.
Closed(c) == << ClosedNode(c[1]) >>

-----------------------------------------------------------------------------
(* Listing a directory. *)

\* What stat() says of a file.
Exists(name) == name \in disk
IsDirectory(name) == Exists(name) /\ Kind[name] = "directory"
IsRegular(name) == Exists(name) /\ Kind[name] = "regular"

\* DirectoryEntry(name, "")
DirectoryEntry(name) ==
    NewEntry(name, "listing", IsDirectory(name) \/ IsRegular(name), IsDirectory(name),
             IF IsRegular(name) THEN 1 ELSE 0)

\* The names to which load() comes in a directory when it descends n levels,
\* in its order.
Below[n \in 0..MaxNesting] ==
    [dir \in Name |->
        IF n = 0 THEN << >>
        ELSE FlattenSeq([i \in DOMAIN Children[dir] |->
                << Children[dir][i] >> \o Below[n - 1][Children[dir][i]]])]

\* Those it can come to in a directory.
Visited == [recursive \in BOOLEAN |-> Below[IF recursive THEN MaxNesting ELSE 1]]

\* Where it cannot go on.
Unreadable(dir, recursive) ==
    LET names == Visited[recursive][dir]
    IN  {i \in DOMAIN names :
            recursive /\ IsDirectory(names[i]) /\ names[i] \in locked}

LoadFails(dir, recursive) ==
    ~Exists(dir) \/ dir \in locked \/ Unreadable(dir, recursive) # {}

\* load(): the entries of a directory and of those below it, up to the one
\* that cannot be opened.
Load(dir, recursive) ==
    LET names == Visited[recursive][dir]
    IN  IF ~Exists(dir) \/ dir \in locked THEN << >>
        ELSE FlattenSeq([i \in 1..FirstOf(Unreadable(dir, recursive), Len(names)) |->
                IF Exists(names[i]) THEN << DirectoryEntry(names[i]) >> ELSE << >>])

\* loadEntries(): what the path was when the collection was made is remembered
\* by its FilePath, so the root entry is what it was then.
Listing(node) ==
    LET directory == Kind[node.path] = "directory"
        root == NewEntry(node.path, "listing", TRUE, directory,
                         IF directory THEN 0 ELSE 1)
    IN  << root >> \o IF directory THEN Load(node.path, node.recursive) ELSE << >>

\* if(!m_entries_loaded)
Unlisted(node) == node.class = "DirectoryCollection" /\ ~node.loaded

Fails(node) ==
    /\ Unlisted(node) /\ Kind[node.path] = "directory"
    /\ LoadFails(node.path, node.recursive)

NewEntries(node) == IF Unlisted(node) THEN Listing(node) ELSE << >>

\* Bug: what was listed before the failure is kept.
LoadFailedKeeping(node, hp, i) == WithEntries(node, hp, i, NewEntries(node))

\* The catch block of loadEntries().
LoadFailed(node, hp, i) == ClosedNode(node)

LoadEntries(node, hp, i) ==
    IF Fails(node) THEN LoadFailed(node, hp, i)
    ELSE WithEntries([node EXCEPT !.loaded = @ \/ Unlisted(node)], hp, i,
                     NewEntries(node))

-----------------------------------------------------------------------------
(* Looking for entries. *)

\* The loops over m_collections, when they end after the first n objects.
Asked(c, hp, n) ==
    [c |-> [i \in DOMAIN c |-> IF i <= n THEN LoadEntries(c[i], hp, i) ELSE c[i]],
     heap |-> Allocated(hp, [i \in DOMAIN c |->
                                IF i <= n THEN NewEntries(c[i]) ELSE << >>]),
     thrown |-> IF \E i \in 1..n : Fails(c[i]) THEN "IOException" ELSE "none",
     out |-> << >>]

\* A call that throws ends them.
Failing(c) == {i \in DOMAIN c : Fails(c[i])}

\* What a CollectionCollection has in m_entries is not looked at.
Own(node) == IF node.class = "CollectionCollection" THEN << >> ELSE node.entries

\* entries()
Entries(c, hp) ==
    LET all(r) == IF r.thrown # "none" THEN r
                  ELSE [r EXCEPT !.out = FlattenSeq([i \in DOMAIN r.c |-> Own(r.c[i])])]
    IN  IF ~Usable(c) THEN Threw(c, hp, "InvalidStateException")
        ELSE all(Asked(c, hp, FirstOf(Failing(c), Len(c))))

\* The sizes of the children are added up.
Counted(c) ==
    LET total[n \in 0..Len(c)] ==
            IF n = 0 THEN 0 ELSE total[n - 1] + Len(Own(c[n]))
    IN  total[Len(c)]

\* size(): the listing is made for it.
Size(c, hp) ==
    LET count(r) == IF r.thrown # "none" THEN r
                    ELSE [r EXCEPT !.out = << Counted(r.c) >>]
    IN  count(Entries(c, hp))

Matches(e, name, matchpath) ==
    IF matchpath = "MATCH" THEN e.name = name ELSE BaseName[e.name] = name

\* std::find_if(): the first reference that matches, or none.
FindFirst(refs, hp, name, matchpath) ==
    LET found == {i \in DOMAIN refs : Matches(At(hp, refs[i]), name, matchpath)}
    IN  IF found = {} THEN << >> ELSE << refs[Min(found)] >>

\* Bug: the search goes on, and the last child decides.
FoundNever(node, hp, name, matchpath) == FALSE

\* if(cep) { ... return; }: once its listing is made, the object has a match.
Found(node, hp, name, matchpath) ==
    /\ node.class # "CollectionCollection"
    /\ \E e \in ToSet(Values(node, hp) \o NewEntries(node)) :
        Matches(e, name, matchpath)

\* getEntry(), and matchEntry() for the children
GetEntry(c, hp, name, matchpath) ==
    LET matching == {i \in DOMAIN c : Found(c[i], hp, name, matchpath)}
        last == FirstOf(Failing(c) \cup matching, Len(c))
        find(r) ==
            IF r.thrown # "none" THEN r
            ELSE [r EXCEPT !.out = FindFirst(Own(r.c[last]), r.heap, name, matchpath)]
    IN  IF ~Usable(c) THEN Threw(c, hp, "InvalidStateException")
        ELSE find(Asked(c, hp, last))

-----------------------------------------------------------------------------
(* Opening streams. *)

NodeOf(c, ref) == CHOOSE i \in DOMAIN c : ref \in ToSet(c[i].entries)

\* Bug: the first child is asked.
HolderFirst(c, i) == 2

\* file_collection of matchEntry(): the child in which the i-th object is
Holder(c, i) == Max({k \in 1..i : c[k].depth = 1})

\* The last object of the child that begins with the i-th.
HolderEnd(c, i) ==
    FirstOf({k \in DOMAIN c : k > i /\ c[k].depth = 1}, Len(c) + 1) - 1

\* The child is searched again, and without the matchpath.  It does the same
\* with its own child if it is a CollectionCollection: another search for the
\* same name in objects that are all listed by now.
AskHolder(r, name) ==
    LET first == Holder(r.c, NodeOf(r.c, r.out[1]))
        last == HolderEnd(r.c, first)
        within(k) ==
            [k EXCEPT !.c = [i \in DOMAIN r.c |->
                                IF i \in first..last THEN k.c[i - first + 1] ELSE r.c[i]]]
    IN  within(GetEntry(SubSeq(r.c, first, last), r.heap, name, "MATCH"))

\* What a stream reads: a file of the disk, a member of the archive, or an entry
\* of the archive that begins at the front of an std::istream.
Content == [where : {"disk", "archive", "stream"}, name : Name]

\* DirectoryCollection::getInputStream() opens the file the entry is named for.
\* ZipFile::getInputStream() opens the archive at the offset of the entry: one
\* that was added never got any and has that of the first, if there is one.
Opened(r) ==
    LET node == r.c[NodeOf(r.c, r.out[1])]
        entry == At(r.heap, r.out[1])
        values == Values(node, r.heap)
        members == {j \in DOMAIN values : values[j].from = "archive"}
        content(where, e) ==
            [r EXCEPT !.out = << [where |-> where, name |-> e.name] >>]
    IN  CASE node.class = "DirectoryCollection" /\ entry.directory ->
                [r EXCEPT !.out = << >>]
          [] node.class = "DirectoryCollection" /\ ~entry.directory ->
                content("disk", entry)
          [] node.class = "ZipFile" /\ entry.from = "stream" -> content("stream", entry)
          [] node.class = "ZipFile" /\ entry.from = "archive" -> content("archive", entry)
          [] node.class = "ZipFile" /\ entry.from \in {"listing", "program"} ->
                IF members = {} THEN Threw(r.c, r.heap, "IOException")
                ELSE content("archive", values[Min(members)])

\* getInputStream()
GetInputStream(c, hp, name, matchpath) ==
    LET open(s) == IF s.thrown # "none" \/ s.out = << >> THEN s ELSE Opened(s)
        ask(r) ==
            IF r.thrown # "none" \/ r.out = << >> THEN r
            ELSE IF c[1].class = "CollectionCollection" THEN open(AskHolder(r, name))
            ELSE Opened(r)
    IN  ask(GetEntry(c, hp, name, matchpath))

-----------------------------------------------------------------------------
(* Changing entries. *)

\* The collection's own entries take the values in changed.entries.
Changed(r, changed) ==
    LET own == r.c[1].entries
        value(ref) ==
            IF ref \in ToSet(own)
            THEN changed.entries[CHOOSE j \in DOMAIN own : own[j] = ref]
            ELSE At(r.heap, ref)
    IN  [c |-> r.c, out |-> << >>, thrown |-> changed.thrown,
         heap |-> [k \in DOMAIN r.heap |-> [i \in DOMAIN r.heap[k] |->
                    [j \in DOMAIN r.heap[k][i] |-> value(<< k, i, j >>)]]]]

\* FileCollection::setMethod(limit, small, large) and setLevel(): they are not
\* virtual and go through m_entries, after entries() loaded them.
SetMethod(c, hp, limit, small, large) ==
    LET change(r) ==
            IF r.thrown # "none" THEN r
            ELSE Changed(r, SetMethods(Values(r.c[1], r.heap), limit, small, large))
    IN  change(Entries(c, hp))

\* Bug: a loop that refused a level takes the collection out of use.
SetLevelClosing(c, hp, limit, small, large) ==
    LET closing(s) == IF s.thrown = "none" THEN s ELSE [s EXCEPT !.c = Closed(s.c)]
        change(r) ==
            IF r.thrown # "none" THEN r
            ELSE closing(Changed(r, SetLevels(Values(r.c[1], r.heap),
                                              limit, small, large)))
    IN  change(Entries(c, hp))

SetLevel(c, hp, limit, small, large) ==
    LET change(r) ==
            IF r.thrown # "none" THEN r
            ELSE Changed(r, SetLevels(Values(r.c[1], r.heap), limit, small, large))
    IN  change(Entries(c, hp))

\* addEntry() of a DirectoryEntry or a StreamEntry the program has, which is
\* cloned; all clones of a StreamEntry have the same std::istream.
AddEntry(c, hp, name, from) ==
    LET entry == IF from = "stream" THEN NewEntry(name, from, TRUE, IsDirectory(name), 1)
                 ELSE [DirectoryEntry(name) EXCEPT !.from = from]
    IN  Returned([c EXCEPT ![1] = WithEntries(c[1], hp, 1, << entry >>)],
                 Allocated(hp, << << entry >> >>), << >>)

=============================================================================
