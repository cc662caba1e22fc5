---------------------------- MODULE MCEntryInput -----------------------------
(***************************************************************************)
(* Small instances of EntryInput: each entry of archives the library       *)
(* wrote, read from the archive as it is, cut short, with a cell           *)
(* overwritten, replaced by another archive, or written by another program. *)
(***************************************************************************)
EXTENDS EntryInput, Archives

MCName == {"dir", "plain", "packed", "last"}
MCNameLength == [n \in MCName |-> 1]
MCByte == {"a", "b"}

Item(name, dir, method, extra, bytes) ==
    [entry |-> [name |-> name, dir |-> dir, method |-> method, level |-> 1,
                extra |-> extra, comment |-> 0, timeOk |-> TRUE, size |-> 0],
     bytes |-> bytes]

\* Contents shorter than, as long as and longer than the buffer.
Contents == {<< >>, << "a" >>, << "a", "b" >>, << "b", "b", "a" >>,
             << "a", "b", "b", "a", "a" >>}

ItemLists ==
    {<< Item("plain", FALSE, "STORED", x, b), Item("packed", FALSE, "DEFLATED", 1 - x, c),
        Item("dir", TRUE, "STORED", 0, << >>) >> :
            x \in 0..1, b \in Contents, c \in Contents \ {<< >>}}

\* Where the entries of the archive are.
OffsetsOf(f) == [i \in 1..Eocd(f).count |-> CentralHeaders(f)[i].offset]

ReadingOf(f, offset, intact, content) ==
    [file |-> f, offset |-> offset, intact |-> intact, content |-> content,
     foreign |-> "nothing"]

Intact ==
    UNION {LET f == ArchiveOf(items, 0)
           IN  {ReadingOf(f, OffsetsOf(f)[i], TRUE, items[i].bytes) :
                    i \in DOMAIN items} : items \in ItemLists}

\* The archive may be cut anywhere, or one of its cells be that of a header.
Spoilt(f) ==
    {SubSeq(f, 1, n) : n \in 0..Len(f)}
        \cup {[f EXCEPT ![i] = f[Len(f)]] : i \in DOMAIN f}

Damaged ==
    UNION {{ReadingOf(g, r.offset, FALSE, << >>) : g \in Spoilt(r.file)} : r \in Intact}

\* The archive was saved again, with other contents.
Replaced ==
    {ReadingOf(r.file, s.offset, FALSE, << >>) : r \in Intact, s \in Intact}

\* Other programs wrote the archive: the local header has no sizes, or a method
\* the library does not know.
Streamed(r) ==
    LET header == r.file[r.offset + 1].h
    IN  [r EXCEPT !.intact = FALSE, !.foreign = "descriptor",
                  !.file[r.offset + 1].h =
                        [header EXCEPT !.size = 0, !.csize = 0, !.crc = << >>]]

Foreign ==
    UNION {{Streamed(r), [r EXCEPT !.intact = FALSE, !.foreign = "method"]} : r \in Intact}

MCReadings == Intact \cup Damaged \cup Replaced \cup Foreign
=============================================================================
