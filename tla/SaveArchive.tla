----------------------------- MODULE SaveArchive -----------------------------
(***************************************************************************)
(* ZipFile::saveCollectionToArchive() (src/src/zipfile.cpp): the loop that *)
(* turns a collection into an archive, the std::ostream it copies file     *)
(* content through, whose operator << swallows exceptions, and the         *)
(* destructors that run when the loop is left by an exception.             *)
(*                                                                         *)
(* The listing of the collection is fixed when entries() is called; the    *)
(* files it names are on a disk other programs change, so what a file      *)
(* holds when it is copied has no fixed relation to the size listed.       *)
(* Entries of an opened archive are listed as the objects the ZipFile      *)
(* itself holds, and its getInputStream() goes by their offset.            *)
(***************************************************************************)
EXTENDS ZipOutput, ZipReader

CONSTANTS
    Saves           \* what is saved: a listing, what its sources turn out to hold
                    \*   and the length of the global comment; and to what: how
                    \*   many writes the output accepts before it fails (-1 for
                    \*   all) and how much of the first refused write it takes

\* A file is read, or its stream is null or not good, or opening it throws.
DiskFile == [state : {"file", "missing", "throws"}, bytes : Seq(Byte)]

\* The files of the disk, and the file of the archive the collection opened, if
\* any, with the offset its start has there: one in which whatever follows a
\* local header can be read.
Disk ==
    {d \in [files : [Name -> DiskFile], archive : Seq(Cell), start : Nat] :
        \A p \in 0..Len(d.archive) - 1 :
            ReadableHeader(d.archive, p, "local")
                => Content(d.archive, p) \in Seq(Byte)}

ASSUME SavesAssumption ==
    \A s \in Saves : /\ s.listing \in Seq(SourceEntry \cup Entry)
                     /\ s.disk \in Disk
                     /\ s.comment \in Nat
                     /\ s.fuse \in Int
                     /\ s.short \in Nat

VARIABLES
    zb,         \* the ZipOutputStreambuf inside output_stream
    listing,    \* the local vector entries
    disk,       \* what each source holds when it is opened
    next,       \* the iterator over entries
    input,      \* what is left of the stream being copied
    failbit,    \* the failbit of output_stream
    pc,         \* where the function is
    result,     \* how it ended
    recovered   \* did the output refuse a write and work again later

vars == << zb, listing, disk, next, input, failbit, pc, result, recovered >>

\* unwind: an exception left the try block and the destructors run.
Pc == {"put", "copy", "finish", "central",
       "unwind", "unwindCentral", "destroy", "done"}

Result == {"running", "saved", "failed", "terminated"}

Init ==
    /\ \E s \in Saves :
            /\ listing = s.listing
            /\ disk = s.disk
            /\ zb = NewStreambuf(s.comment, s.fuse, s.short)
    /\ next = 1
    /\ input = << >>
    /\ failbit = FALSE
    /\ pc = "put"
    /\ result = "running"
    /\ recovered = FALSE

\* A public call of output_stream that is not swallowed: it throws out of the
\* try block, or the function goes on at pc.
Call(s, goOn) ==
    /\ zb' = s
    /\ pc' = IF s.thrown = "none" THEN goOn ELSE "unwind"
    /\ result' = IF s.thrown = "none" THEN result ELSE "failed"

\* ZipInputStream(m_filename, p): the entry whose local header is there.
Archived(p) ==
    IF ReadableHeader(disk.archive, p, "local")
    THEN [state |-> "file", bytes |-> Content(disk.archive, p)]
    ELSE [state |-> "throws", bytes |-> << >>]

\* The stream the collection returns for an entry that must be copied, and
\* that has the given offset by then.
Source(e, offset) ==
    IF IsCentral(e) THEN Archived(offset + disk.start) ELSE disk.files[e.name]

MustCopy(e) == ~e.dir /\ e.size > 0

\* putNextEntry(), for an entry whose content is then not looked for.
PutBare ==
    /\ pc = "put"
    /\ next <= Len(listing)
    /\ ~MustCopy(listing[next])
    /\ Call(PutNextEntry(zb, AsCentral(listing[next])), "put")
    /\ next' = next + 1
    /\ UNCHANGED << listing, disk, input, failbit, recovered >>

\* putNextEntry(), then getInputStream() and output_stream << is->rdbuf().
\* An output_stream that is not good() copies nothing, and copying nothing
\* makes it not good().
PutFile ==
    /\ pc = "put"
    /\ next <= Len(listing)
    /\ MustCopy(listing[next])
    /\ LET put == PutNextEntry(zb, AsCentral(listing[next]))
           src == Source(listing[next], LastEntry(put).offset)
           copies == src.state = "file" /\ put.thrown = "none"
           escapes == put.thrown # "none" \/ src.state = "throws"
       IN  /\ zb' = put
           /\ pc' = IF escapes THEN "unwind"
                    ELSE IF copies /\ ~failbit /\ src.bytes # << >>
                         THEN "copy" ELSE "put"
           /\ result' = IF escapes THEN "failed" ELSE result
           /\ input' = IF copies /\ ~failbit THEN src.bytes ELSE << >>
           /\ failbit' = (failbit \/ (copies /\ src.bytes = << >>))
    /\ next' = next + 1
    /\ UNCHANGED << listing, disk, recovered >>

\* One byte of output_stream << is->rdbuf(); operator << turns an exception
\* into failbit and stops copying.
CopyByte ==
    /\ pc = "copy"
    /\ LET t == Sputc(zb, Head(input))
           stop == t.thrown # "none"
       IN  /\ zb' = [t EXCEPT !.thrown = "none"]
           /\ failbit' = (failbit \/ stop)
           /\ input' = IF stop THEN << >> ELSE Tail(input)
           /\ pc' = IF stop \/ Len(input) = 1 THEN "put" ELSE "copy"
    /\ UNCHANGED << listing, disk, next, result, recovered >>

LeaveLoop ==
    /\ pc = "put"
    /\ next > Len(listing)
    /\ Call(CloseEntry(zb), "finish")
    /\ UNCHANGED << listing, disk, next, input, failbit, recovered >>

Finish ==
    /\ pc = "finish"
    /\ Call(BeginFinish(zb), "central")
    /\ UNCHANGED << listing, disk, next, input, failbit, recovered >>

\* The loop of writeZipCentralDirectory(); close() then finds the archive
\* closed and does nothing, and so does ~ZipOutputStreambuf().
Central ==
    /\ pc = "central"
    /\ LET t == CentralStep(zb)
       IN  /\ zb' = t
           /\ pc' = IF t.thrown # "none" THEN "unwind"
                    ELSE IF t.phase = "sealed" THEN "destroy" ELSE "central"
           /\ result' = IF t.thrown # "none" THEN "failed"
                        ELSE IF t.phase = "sealed" THEN "saved" ELSE result
    /\ UNCHANGED << listing, disk, next, input, failbit, recovered >>

\* ~ZipOutputStreambuf(): finish() once more, and any exception gobbled.
Unwind ==
    /\ pc = "unwind"
    /\ LET t == BeginFinish([zb EXCEPT !.thrown = "none"])
       IN  /\ zb' = [t EXCEPT !.thrown = "none"]
           /\ pc' = IF zb.open /\ t.thrown = "none"
                    THEN "unwindCentral" ELSE "destroy"
    /\ UNCHANGED << listing, disk, next, input, failbit, result, recovered >>

UnwindCentral ==
    /\ pc = "unwindCentral"
    /\ LET t == CentralStep(zb)
       IN  /\ zb' = [t EXCEPT !.thrown = "none"]
           /\ pc' = IF t.phase = "central" THEN "unwindCentral" ELSE "destroy"
    /\ UNCHANGED << listing, disk, next, input, failbit, result, recovered >>

\* ~DeflateOutputStreambuf(), from which nothing may escape; then the function
\* returns, or its catch block throws again.
Destroy ==
    /\ pc = "destroy"
    /\ zb' = DestroyStream(zb)
    /\ pc' = "done"
    /\ result' = IF zb'.thrown = "none" THEN result ELSE "terminated"
    /\ UNCHANGED << listing, disk, next, input, failbit, recovered >>

\* The output works again: space was freed, a network file system came back.
Recover ==
    /\ pc # "done"
    /\ zb.refused
    /\ zb.fuse = 0
    /\ zb' = [zb EXCEPT !.fuse = -1]
    /\ recovered' = TRUE
    /\ UNCHANGED << listing, disk, next, input, failbit, pc, result >>

Step ==
    \/ PutBare \/ PutFile \/ CopyByte \/ LeaveLoop \/ Finish \/ Central
    \/ Unwind \/ UnwindCentral \/ Destroy

\* The function has returned.
Done == pc = "done" /\ UNCHANGED vars

Next == Step \/ Recover \/ Done

Spec == Init /\ [][Next]_vars

-----------------------------------------------------------------------------
(* The archive a save promises, and how far it is. *)

\* What the archive must hold for an entry of the listing: what its source
\* holds at the offset it was listed with.
Expected(e) ==
    LET src == Source(e, AsCentral(e).offset)
    IN  [name |-> e.name,
         bytes |-> IF MustCopy(e) /\ src.state = "file" THEN src.bytes ELSE << >>]

\* How many entries have been closed.
Closed(s) == Len(s.entries) - (IF s.openEntry THEN 1 ELSE 0)

\* What the library reads at the local header of a closed entry.
ReadBack(s, i) ==
    LET p == s.entries[i].offset
    IN  [name |-> s.file[p + 1].h.name, bytes |-> Content(s.file, p)]

\* Five ways in which the archive does not hold what was listed although nothing
\* failed.  An entry of the opened archive was put at another offset than it had
\* there: the entry is shared, so that getInputStream() looks for it at the new one.
Moved(i) ==
    /\ IsCentral(listing[i]) /\ MustCopy(listing[i])
    /\ zb.entries[i].offset # listing[i].offset

\* A file takes 2^32 bytes, before or after it was compressed: more than the
\* counter of bytes and the positions between which it is measured can tell.
Oversized(e) ==
    Len(Expected(e).bytes) + (IF EffectiveLevel(e) = 0 THEN 0 ELSE 1) >= WordMod

\* The stream of an entry turns out to be empty: copying nothing sets failbit,
\* which nothing clears, and no later file is copied.
Emptied(e) ==
    MustCopy(e) /\ LET src == Source(e, AsCentral(e).offset)
                   IN  src.state = "file" /\ src.bytes = << >>

\* An entry without data that is said to be deflated has no end of deflate data.
Unended(e) == HeaderMethod(e) = "DEFLATED" /\ Expected(e).bytes = << >>

\* The length of a name or an extra field of 2^16 bytes is written as 0, that of
\* a name also when only its separator makes it so long, and an entry with a
\* comment never equals its local header.
Misdescribed(e) ==
    WrittenName(e) >= FieldMod \/ e.extra = FieldMod \/ e.comment # 0

Excepted ==
    \E i \in 1..Len(zb.entries) :
        \/ Moved(i)
        \/ Oversized(listing[i]) \/ Emptied(listing[i])
        \/ Unended(listing[i]) \/ Misdescribed(listing[i])

\* Nothing is promised of a save that failed, nor of one to an output that
\* refused a write and then took the next, nor in these five cases.
Abandoned == recovered \/ Excepted \/ result \notin {"running", "saved"}

Promise == INSTANCE Archive WITH
    archive <- IF ~Abandoned
               THEN [i \in 1..Closed(zb) |-> ReadBack(zb, i)] ELSE << >>,
    todo <- IF ~Abandoned
            THEN [i \in 1..Len(listing) - Closed(zb)
                    |-> Expected(listing[Closed(zb) + i])] ELSE << >>,
    status <- CASE Abandoned -> "abandoned"
                [] ~Abandoned /\ result = "running" -> "open"
                [] ~Abandoned /\ result = "saved" -> "sealed"

-----------------------------------------------------------------------------
(* Properties. *)

TypeOK ==
    /\ zb \in Streambuf
    /\ zb.pos <= Len(zb.file)
    /\ listing \in Seq(SourceEntry \cup Entry)
    /\ disk \in Disk
    /\ next \in 1..Len(listing) + 1
    /\ input \in Seq(Byte)
    /\ failbit \in BOOLEAN
    /\ pc \in Pc
    /\ result \in Result
    /\ recovered \in BOOLEAN

\* What has been committed to the archive is never written again, and the
\* commit point never moves back: updateEntryHeaderInfo() seeks backwards, and
\* an exception may leave the put position anywhere, but no later call touches
\* an earlier entry.
CommittedBytesFrozen ==
    [][/\ Committed(zb) <= Committed(zb')
       /\ \A i \in 1..Committed(zb) : zb'.file[i] = zb.file[i]]_vars

\* If the output refused any byte and did not recover, the save is never
\* reported as a success: operator << swallows the exception, so a later
\* closeEntry() or finish() has to fail.
PersistentFaultReported ==
    result = "saved" /\ ~recovered => ~zb.refused

\* The checks of init() for an internal error are never reached: every path to
\* a new entry has closed the deflate stream of the entry before.
NoInternalError == zb.thrown # "logic_error"

\* No exception leaves ~DeflateOutputStreambuf(), where it would end the
\* program: whatever interrupted the save, nothing is left to flush there.
NeverTerminates == result # "terminated"

\* The archive opens, and it holds every entry of the listing, in its order,
\* with the content its source had when it was copied.
ReadsBack ==
    /\ Opens(zb.file)
    /\ LET hs == CentralHeaders(zb.file)
       IN  /\ Len(hs) = Len(listing)
           /\ \A i \in 1..Len(hs) :
                /\ hs[i].dir = listing[i].dir
                /\ [name |-> hs[i].name,
                    bytes |-> Content(zb.file, hs[i].offset)]
                        = Expected(listing[i])

\* A sixth way: the comment of the archive is too long for a BackBuffer to hold
\* the end of central directory with it, though not for its 16 bit length, so
\* that init() cannot open what was saved.
Unfindable == EocdSize + zb.comment > ChunkSize

\* A save that is reported as a success left an archive that the library opens
\* and that holds what was listed, whatever the listing and the disk are, up to
\* the last byte that 32 bits can count: but for the five cases above, each of
\* which takes an entry that is unusual, or that changed since it was listed, and
\* for a comment of the archive that is too long to be found again.
SavedArchiveReadsBack ==
    pc = "done" /\ result = "saved" /\ ~Abandoned /\ ~Unfindable => ReadsBack

\* The same without those cases: "If these functions do not fail, then the output
\* file is considered valid and you can keep it."
EverySavedArchiveReadsBack ==
    pc = "done" /\ result = "saved" /\ ~recovered => ReadsBack

\* The function implements Archive: each entry it closes is one more entry
\* that reads back with the content promised, it stays so, and the archive is
\* sealed only when nothing is left to add.
ImplementsArchive == Promise!Spec

\* What the headers of an archive can describe: so many bytes, a comment and a
\* number of entries, and every entry of the listing.
Fits(bytes) ==
    /\ Len(zb.file) < bytes
    /\ zb.comment < FieldMod
    /\ Len(listing) < FieldMod
    /\ \A i \in 1..Len(listing) : CentralWritable(AsCentral(listing[i]))

Rejected == pc = "unwind" /\ zb.thrown = "InvalidStateException"

\* A write() function refuses an entry only for what it says: that no header can
\* describe the archive.
RejectsOnlyTooLarge == Rejected => ~Fits(WordMod)

\* And what does fit, in an archive of less than 2^31 bytes, is never refused,
\* whatever failed before.
AcceptsWhatFits == Rejected => ~Fits(IntLimit)
=============================================================================
