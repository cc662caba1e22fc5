---------------------------- MODULE FileEntries ------------------------------
(***************************************************************************)
(* FileEntry objects (src/src/fileentry.cpp) and what a collection does to *)
(* all of its own at once (src/src/filecollection.cpp): the compression    *)
(* method and level they will be saved with.  Directories are never        *)
(* compressed, and a value an entry refuses makes the loop stop there.     *)
(***************************************************************************)
EXTENDS Integers, Sequences

\* FileEntry::CompressionLevel
COMPRESSION_LEVEL_DEFAULT  == -3
COMPRESSION_LEVEL_SMALLEST == -2
COMPRESSION_LEVEL_FASTEST  == -1
COMPRESSION_LEVEL_NONE     == 0
COMPRESSION_LEVEL_MINIMUM  == 1
COMPRESSION_LEVEL_MAXIMUM  == 100

CompressionLevel == COMPRESSION_LEVEL_DEFAULT..COMPRESSION_LEVEL_MAXIMUM

\* BZIP2 stands for the methods the library knows but does not support.
StorageMethod == {"STORED", "DEFLATED", "BZIP2"}
SupportedMethod == {"STORED", "DEFLATED"}

\* from: found by listing a directory or an archive, or made by the program for
\* a file or an std::istream.
NewEntry(name, from, valid, directory, size) ==
    [name |-> name, from |-> from, valid |-> valid, directory |-> directory,
     size |-> size, method |-> "STORED", level |-> COMPRESSION_LEVEL_DEFAULT]

\* setMethod() and setLevel() do not throw.
MethodAllowed(method) == method \in SupportedMethod

LevelAllowed(e, level) ==
    /\ level \in CompressionLevel
    /\ e.directory => level < COMPRESSION_LEVEL_MINIMUM

\* Bug: directories are treated as files.
WithMethodOfAny(e, method) == [e EXCEPT !.method = method]

\* FileEntry::setMethod() and setLevel(), once they accepted the value.
WithMethod(e, method) ==
    [e EXCEPT !.method = IF e.directory THEN "STORED" ELSE method]

WithLevel(e, level) ==
    [e EXCEPT !.level = IF e.directory THEN COMPRESSION_LEVEL_NONE ELSE level]

-----------------------------------------------------------------------------
(* The loops of FileCollection::setMethod() and setLevel(). *)

\* Bug: a file of the size of the limit is large.
ChosenAtLimit(e, limit, small, large) == IF e.size >= limit THEN large ELSE small

Chosen(e, limit, small, large) == IF e.size > limit THEN large ELSE small

\* How many of n entries come before the first one that refuses.
Before(n, refusing) ==
    IF refusing = {} THEN n
    ELSE (CHOOSE i \in refusing : \A j \in refusing : i <= j) - 1

Outcome(refusing) == IF refusing = {} THEN "none" ELSE "InvalidStateException"

SetMethods(es, limit, small, large) ==
    LET refusing == {i \in DOMAIN es :
                        ~MethodAllowed(Chosen(es[i], limit, small, large))}
        done == Before(Len(es), refusing)
    IN  [entries |-> [i \in DOMAIN es |->
                        IF i > done THEN es[i]
                        ELSE WithMethod(es[i], Chosen(es[i], limit, small, large))],
         thrown |-> Outcome(refusing)]

SetLevels(es, limit, small, large) ==
    LET refusing == {i \in DOMAIN es :
                        ~LevelAllowed(es[i], Chosen(es[i], limit, small, large))}
        done == Before(Len(es), refusing)
    IN  [entries |-> [i \in DOMAIN es |->
                        IF i > done THEN es[i]
                        ELSE WithLevel(es[i], Chosen(es[i], limit, small, large))],
         thrown |-> Outcome(refusing)]

=============================================================================
