------------------------------ MODULE Archives -------------------------------
(***************************************************************************)
(* The archives the library writes to an output that never fails: what the *)
(* operators of ZipOutput leave in the file when they are called the way   *)
(* saveCollectionToArchive() calls them.  They are the inputs of the       *)
(* modules about reading.                                                  *)
(***************************************************************************)
EXTENDS ZipOutput, SequencesExt

\* An item is an entry and the bytes that are copied for it.
PutItem(s, item) ==
    FoldLeft(Sputc, PutNextEntry(s, CopyEntry(item.entry)), item.bytes)

RECURSIVE AllCentral(_)
AllCentral(s) == IF s.phase = "central" THEN AllCentral(CentralStep(s)) ELSE s

\* The streambuf after all items were put and finish() was called.
Saved(items, comment) ==
    AllCentral(BeginFinish(FoldLeft(PutItem, NewStreambuf(comment, -1, 0), items)))

ArchiveOf(items, comment) == Saved(items, comment).file
=============================================================================
