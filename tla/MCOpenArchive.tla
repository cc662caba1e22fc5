---------------------------- MODULE MCOpenArchive ----------------------------
(***************************************************************************)
(* Small instances of OpenArchive: archives the library itself wrote,      *)
(* alone, appended to another file with appendzip or opened with explicit  *)
(* offsets, and the same archives with a cell missing or cut short.        *)
(***************************************************************************)
EXTENDS OpenArchive, Archives

CONSTANTS
    Menu,       \* the names of the items archives are made of
    MaxItems,   \* how many items an archive has at most
    Comments    \* the lengths of the archive comments

MCName == {"dir", "stored", "packed", "empty", "other"}
MCNameLength == [n \in MCName |-> 1]
MCByte == {"a", "b"}

E(name, dir, method) ==
    [name |-> name, dir |-> dir, method |-> method, level |-> 1, extra |-> 0,
     comment |-> 0, timeOk |-> TRUE, size |-> 1]

MenuItem ==
    [dir    |-> [entry |-> E("dir", TRUE, "STORED"), bytes |-> << >>],
     stored |-> [entry |-> E("stored", FALSE, "STORED"), bytes |-> << "a" >>],
     packed |-> [entry |-> E("packed", FALSE, "DEFLATED"), bytes |-> << "b", "a" >>],
     empty  |-> [entry |-> E("empty", FALSE, "STORED"), bytes |-> << >>],
     other  |-> [entry |-> [E("other", FALSE, "STORED") EXCEPT !.extra = 1],
                 bytes |-> << "b" >>]]

ItemLists ==
    {[i \in DOMAIN l |-> MenuItem[l[i]]] : l \in SeqOf(Menu, MaxItems)}

\* What the archive may be appended to: nothing, some bytes, an archive.
Surroundings ==
    {<< >>, StoredCells(<< "a", "b" >>), ArchiveOf(<< MenuItem["other"] >>, 0)}

Opening(f, embedded, from, to, items) ==
    [file |-> f, embedded |-> embedded, start |-> from, end |-> to,
     intact |-> TRUE, contents |-> [i \in DOMAIN items |-> items[i].bytes]]

Broken(f, embedded, from, to) ==
    [file |-> f, embedded |-> embedded, start |-> from, end |-> to,
     intact |-> FALSE, contents |-> << >>]

StartCell(n) == << [k |-> "start", at |-> n] >>

Whole ==
    {Opening(ArchiveOf(items, c), FALSE, 0, 0, items) :
        items \in ItemLists, c \in Comments}
    \cup {Opening(p \o ArchiveOf(items, c) \o StartCell(Len(p)), TRUE, 0, 0, items) :
        p \in Surroundings, items \in ItemLists, c \in Comments}
    \cup {Opening(p \o ArchiveOf(items, c) \o t, FALSE, Len(p), Len(t), items) :
        p \in Surroundings, t \in Surroundings, items \in ItemLists, c \in Comments}

\* One cell is missing, or the end is; the offsets may be wrong.
Damaged ==
    LET archives == {ArchiveOf(items, c) : items \in ItemLists, c \in Comments}
        bad(a) == {RemoveAt(a, i) : i \in DOMAIN a}
                    \cup {SubSeq(a, 1, n) : n \in 0..Len(a)}
    IN  UNION {{Broken(b, embedded, s, e) :
                    b \in bad(a), embedded \in BOOLEAN, s \in 0..1, e \in 0..1} :
                a \in archives}

\* The end of central directory comes first and the virtual end is after it:
\* the directory and the local header are found all the same.
Detached ==
    LET e == CopyEntry(MenuItem["stored"].entry)
        local == LocalCells(e)
        central == CentralCells([e EXCEPT !.offset = EocdSize])
        eocdCells == EocdCells(1, Len(central), EocdSize + Len(local), 0)
    IN  {Broken(eocdCells \o local \o central, FALSE, 0, n) :
            n \in 0..Len(local) + Len(central)}

\* Bytes follow the archive, or it has a longer comment: the end of central
\* directory is anywhere in a chunk, in two of them, or apart from its comment.
Displaced ==
    {Broken(ArchiveOf(items, c) \o StoredCells([i \in 1..n |-> "a"]), FALSE, 0, 0) :
        items \in ItemLists, c \in 0..ChunkSize, n \in 0..ChunkSize + 1}

MCOpenings == Whole \cup Damaged \cup Detached \cup Displaced
=============================================================================
