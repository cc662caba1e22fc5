# A TLA+ model of Zipios

Zipios is a C++ library that reads and writes `.zip` archives through
`std::streambuf` classes. This directory holds TLA+ modules translated from its
source, the TLC configurations that check them on small instances, and proofs
that TLAPS checks of what matters most. Paths below are those of the repository.

    tlc -workers 2 -config save_any.cfg MCSaveArchive.tla
    tlapm SaveArchive_proofs.tla

`PROJECT.json` lists the runs with the properties each checks, the lines every
definition stands for, the changed definitions ("Bug:" operators) that each
property catches, the places where the code is hard to test and what was found.

## 1. The system

The library is single threaded and keeps nothing between runs of a program. What
makes it hard is elsewhere: exceptions that leave a call half done, destructors
that run the same code again, a `std::ostream` that swallows exceptions, files
that change between the moment they are listed and the moment they are read,
entries shared between what is read and what is written, buffers refilled at the wrong place, and fields of 16 and 32 bits.

| part | state | operations | talks to |
|---|---|---|---|
| **Saving a collection** `src/zipfile.cpp` | local iterator, one output stream | `saveCollectionToArchive()` | lists a collection, opens each file, writes to the archive stream, lets its destructor clean up |
| **Archive output stream** `src/zipoutputstreambuf.cpp`, `src/deflateoutputstreambuf.cpp`, `src/filteroutputstreambuf.cpp`, `src/zipoutputstream.cpp` | put area, zlib stream, CRC, byte count, list of entries, `m_open`, `m_open_entry` | `putNextEntry`, `closeEntry`, `overflow`, `finish`, `close`, destructors | the streambuf of the output, sequentially, but seeks back to rewrite each local header |
| **Headers** `src/ziplocalentry.cpp`, `src/zipcentraldirectoryentry.cpp`, `src/zipendofcentraldirectory.cpp` | the fields of a record | `read`, `write` | `zipRead`/`zipWrite` of `src/zipios_common.cpp`, which turn numbers into bytes |
| **Opening an archive** `src/zipfile.cpp`, `src/backbuffer.cpp`, `src/virtualseeker.cpp` | buffer and read pointer, virtual ends, entries read so far | `openEmbeddedZipFile`, `init` | the file, backwards in chunks, then forwards |
| **Reading an entry** `src/zipinputstream.cpp`, `src/zipinputstreambuf.cpp`, `src/inflateinputstreambuf.cpp` | two buffers, zlib stream, bytes that remain | constructor, `underflow` | the file, opened a second time |
| **GZIP output** `src/gzipoutputstream.cpp`, `src/gzipoutputstreambuf.cpp` | as the archive stream, plus name and comment | `overflow`, `finish`, `close`, destructors | an output stream |
| **Collections** `src/filecollection.cpp`, `src/directorycollection.cpp`, `src/collectioncollection.cpp` | entries, validity, whether the listing was made, children | `entries`, `getEntry`, `getInputStream`, `addEntry`, `addCollection`, `setMethod`, `setLevel`, `close`, copying | the disk, on first use; its children, on every call |
| **Entries** `src/fileentry.cpp`, `src/directoryentry.cpp`, `src/streamentry.cpp` | name, sizes, method, level, time, comment | accessors, `clone` | shared between a collection and whoever listed it |
| **Paths** `src/filepath.cpp` | the path, the answer of `stat()` once asked | assignment, `+`, queries | the disk |
| **DOS dates** `src/dosdatetime.cpp` | 32 bits | setters, `isValid`, conversions from and to Unix time | the time zone (`mktime`, `localtime_r`) |
| **Tools** `tools/zipdir.cpp`, `tools/zipios.cpp`, `tools/zipios_example.cpp`, `tools/appendzip.cpp` | arguments, options, the files they leave | one run each | all of the library |

`PROJECT.json` also lists the parts without a module of their own (tests, build
files, exceptions, two tools that only convert their arguments), with the reason.

What makes each part correct, and what is hard about it:

* *Saving* — a save that returns left an archive that the library opens and that
  holds what was listed; one that could not write everything does not return;
  what was finished is never damaged. Hard: any write may fail, a failure may
  pass, and after each exception three destructors run on what is left.
* *Headers* — what is accepted can be written and read back, and only what cannot
  is refused; what opens is what was saved. Hard: limits one off, counters that
  wrap, fields in the same order in functions that are written apart.
* *Opening* — exactly the archives that are well formed open, wherever they stand
  in the file; the search misses nothing and ends. Hard: chunk boundaries, the
  front of the file, two origins of positions.
* *Reading* — bytes in order, none lost, and the end only at the end. Hard: two
  buffers of different size, input that ends early, a file replaced since.
* *GZIP* — one header, every byte, one trailer. Hard: what has been written by the
  time `finish()` is called depends on the size of the put area.
* *Collections* — copies are independent, the stream is that of the entry found, a
  listing is whole or absent, a change of all entries that was refused half way can
  be repeated. Hard: listing on first use while the disk changes, invalidity that
  spreads.
* *Paths and dates* — an answer belongs to the path it is asked for; a time survives
  being written and read any number of times.
* *Tools* — a directory that cannot be listed never costs an archive, and of the mistakes
  on the command line one does; what is compressed is what the options say; what was
  appended is found again, if nothing failed that is not checked. Hard: the output is truncated when it is opened, two passes over the
  entries with different terms, files that hold several archives.

## 2. The modules

    ZipFormat ── ZipOutput ── GzipOutput ── MCGzipOutput
        │            │
    ZipReader ── SaveArchive ── MCSaveArchive          Archive (abstract save)
        │
        ├─ Archives (archives the library writes)
        ├─ OpenArchive ── MCOpenArchive
        └─ EntryInput ── MCEntryInput                  ByteStream (abstract stream)

    FileEntries ─┬─ Collections ── CollectionCalls ── MCCollections
                 └─ Tools ── MCTools
    Records, DosDateTime ── EntryTime ── MCEntryTime
    FilePath ── MCFilePath

    SaveArchive_proofs, OpenArchive_proofs, EntryInput_proofs, GzipOutput_proofs,
    CollectionCalls_proofs, Tools_proofs, FilePath_proofs, EntryTime_proofs

They were written from the most important behaviour on: saving, then opening and
reading back what was saved, then what stands around them, the tools and the bytes
of the records last.

**ZipFormat** is the archive as a sequence of *cells*. The fixed part of a header
is one cell that carries its fields, and every stored byte, deflated byte, end of
deflate data and unit of name, extra field or comment is a cell. A cell knows what it
is: bytes of a file or of a comment that look like the signature of a header are left
out. Widths are scaled:
`FieldMod` stands for 2^16, `IntLimit` for 2^31 and `WordMod = 2 * IntLimit` for
2^32; every field is reduced by them when written and the guards of the three
`write()` functions compare as the code does. A CRC-32 is the sequence it was
computed over, so two of them are equal only if the data is. The time of an entry is
reduced to whether a header can hold it. What stands inside the fixed part of a
record, byte by byte, is the subject of `Records`.

**ZipOutput** has one operator per member function of the output streambuf. Each
takes the streambuf as a record — the file below it, its put position, the put
area (`outvec`, `invec`), the state of zlib, the entries, what was thrown — and
returns the record the call leaves. The output below accepts `fuse` more writes,
then takes `short` cells of one and refuses the rest. `Write` stops after the
first refusal, and each operator stops where an exception leaves the function, so
that a half finished call is a state like any other. zlib is external: it keeps
what it is given and emits it when the code asks it to finish; its two observable
rules (`deflateEnd()` returns `Z_DATA_ERROR` with data pending; a stream never used
has none, as from zlib 1.2.12 on) are the ones the code's branches test.

**SaveArchive** is `saveCollectionToArchive()`: `PutBare`, `PutFile`, `CopyByte`
(a character of `output_stream << is->rdbuf()`, where the `std::ostream` turns an
exception into `failbit`), `LeaveLoop`, `Finish` and `Central` (the steps of writing
the directory), then `Unwind`, `UnwindCentral` and `Destroy`, the destructors, on the
way out with and without an exception. `Recover` lets an output that refused a
write work again. `Saves` gives the listing, what each file holds by the time it is
opened, and the fault of the output. A listing may also hold the entries of an
archive that is open: they are the objects the `ZipFile` itself looks its offsets up
in, so that `putNextEntry()` changes what later `getInputStream()` calls read
(`Moved`). A file may have 2^32 bytes or more (`Oversized`); it may be empty by the time
it is copied (`Emptied`), or empty and said to be deflated (`Unended`); an entry may
have a comment, or a name or an extra field of 2^16 bytes (`Misdescribed`). In each of
these five cases a save may succeed although its archive is not what was listed, and in
a sixth, a comment of the archive of more than about 1002 bytes (`Unfindable`), although
its archive cannot be opened: section 3 says why. `SavedArchiveReadsBack` excepts them
by name, and `EverySavedArchiveReadsBack` does not. Nothing is promised in them, nor of a save that failed, nor after a failure of
the output that passed (`Abandoned`).
`Archive` is what a save promises, with no headers, buffers or positions:
entries are added in order, then the archive is sealed, or it is abandoned at any
moment. The mapping (`Promise`) reads each *closed* entry back from the file
through its local header, so that implementing `Archive` also says that a closed
entry stays readable while the later ones are written.

**ZipReader** defines what the reader makes of a file without saying how it gets
there: `Opens` and `Content`. What can be found of an end of central directory depends
on the chunks of the `BackBuffer`, each of which replaces the one before: the record has
to be whole in one of them, with its comment (`InOneChunk`). It is what `SaveArchive` is judged by, and what
`OpenArchive` and `EntryInput` are checked to implement.

**OpenArchive** is `openEmbeddedZipFile()` and `init()`: `ReadStart`,
`OpenBackBuffer`, `ReadChunk` and `Scan` (one turn of the search), `ReadCentral`,
`CheckLayout`, `CheckEntry`, `Opened`. All positions go through the start and end
offsets of the `VirtualSeeker`; but only the search stops at the virtual end, so that
the directory and the headers are read from the archive *and what follows it* (`Rest`).
What an `intact` opening is, is an assumption that TLC evaluates (`IntactAssumption`):
the cells between the ends, taken alone, are an archive that opens and reads back.
Nothing is assumed of what stands around them.

**EntryInput** is the stream of one entry: `Open` (the constructor, with the local
header at the offset noted earlier), `Take` (the reader gets a character),
`UnderflowStored`, and `UnderflowInflate`, `InflateSome`, `EndUnderflow` (the loop of
the inflating `underflow()`). `Clear` is a reader that goes on after the end.
`foreign` says what other programs put in a local header and this library never
does: sizes that follow the data, or a method it does not know. `ByteStream` is the
stream it promises of an `intact` entry, one that has its header and its data where the
offset says, whatever stands around them.

**GzipOutput** uses the deflating operators of `ZipOutput` for a client that sets the
name and the comment, writes, finishes any number of times and destroys.

**FileEntries** is the part of `FileEntry` that saving depends on, the method and the
level, and the loops that set them for a whole collection and stop at the first entry
that refuses. `Collections` and `Tools` both use it.

**Collections** has a collection as a value, since whoever holds one holds a clone of
his own: the sequence of the objects it is made of, itself first and each child
followed by its own children, with `depth` saying in how many collections each is. That
is the order in which the loops over `m_collections` reach them, so that a call that
goes down the tree and stops at the first object that throws, or has a match, works on
the first objects of the sequence (`Asked`). Entries are references into a heap, since
`entries()` and `getEntry()` hand out pointers to them: each call that makes entries
appends what it made, and a reference says which call made the entry, for which
object of the collection, and where among those. `CopyEntries` gives an object
new entries with the values of the old; `Changed` is the loop of `setMethod()` or
`setLevel()` that writes to entries. Each member function returns the collection, the
heap, what it threw and what it returned. `Below`, the names that `load()` reaches when
it descends n levels, is a recursive function of n; `LoadFails` says whether it meets a
directory that it cannot open and `Load` what it has found by then. **CollectionCalls** makes the calls on
the variables of a program, in any order, while files vanish and directories become
unreadable. An entry may come from a listing, from an archive, or be added by
the program for a file or for an `std::istream`.

**Tools** runs the command line tools one after the other on the same files.
`ZipdirLevel`, `ZipdirLimit`, `ZipdirName`, `ZipdirEnd` are the turns of the loop over
the arguments; `Collect`, `SetZipMethods`, `SetZipLevels`, `OpenOutput` and `Save` what
follows, each of which may fail, with the directory changing (`Change`) until it is
listed; then `ZipiosArguments`, `CountFile`, `Example` and `AppendZip`. A file is the
sequence of what was written to it, texts and archives. What `zipdir` is given may be a
file, which is then the only entry of its collection (`Found`), and that file may be its
own output. A tool that lets an exception escape is `terminated`. `AppendZip` has the
three ways to `usage()` and what is left when a read or a write goes wrong: nothing of
this is checked, and the tool exits with 0, which only the variable `failed` tells.

**Records** is `zipRead()` and `zipWrite()` on bytes, the order in which each `write()`
and `read()` calls them, and `Headers`, what `init()` finds in the bytes of an archive
of one entry. A 32 bit number is the pair of its 16 bit halves, which keeps it within
the integers TLC has.

**DosDateTime** is the arithmetic of dates, with the C library's `mktime` and
`localtime_r` external: for an hour that occurs twice `mktime` gives either answer,
each time anew, since glibc's goes by the conversion before. **EntryTime** composes
the two: a program sets the time of an entry, by the fields of a date or from a file;
it is written to an archive (`Write`), a byte of which may change (`Damage`), and
opened again (`Read`), any number of times.

**FilePath** has objects that are assigned, copied, added and asked while files
change.

## 3. Runs

Runs that pass:

| run | what it shows |
|---|---|
| `save_any` | Every listing of up to 3 of 4 entries (a directory, a stored file, two levels of deflation), files that hold what was listed, more or less, are missing or cannot be opened, and an output that fails at the n-th write for every n below 20, or never, and that may work again at any moment after: a save that returns implements `Archive` and its archive opens and reads back, a refused write is reported unless the output recovered, the internal error of `init()` is not reached, nothing escapes a destructor, closed entries are not written again. Listings of ten entries with extra fields, comments, times and counts at, below and above what a field holds, and of empty files: what is accepted reads back, but for the exceptions, and what fits in less than 2^31 bytes is never refused (`AcceptsWhatFits`). Names one below, at and one above 2^16, of files, and of a directory whose separator makes the difference. Entries of archives that are open, embedded or not, saved again as they are, with a file before or behind them or with another method; files of 2^32 bytes and one more or less. |
| `open_any` | Archives the library wrote — alone, between other bytes or archives with the offsets given, appended with the offset at the end — and each with any cell missing or the end cut off, with offsets that fit or not, archives whose directory is behind the virtual end (`Detached`), and archives with comments and bytes behind them that put the end record anywhere in a chunk, across two, or apart from its comment (`Displaced`): the chunked search visits every place once and ends, misses no header that is whole in a chunk, and the outcome is the one `Opens` gives for the archive alone; what follows it can only make up for a directory or a header it lacks. An intact archive opens and reads back wherever it stands. |
| `read_entry` | Entries of archives as they are, cut anywhere, with a cell overwritten, replaced since, or written by other programs with sizes behind the data or an unknown method: nothing is lost between the buffers, the end of a deflated entry is the end, what is not supported is refused before a byte is delivered, the reader is always told, and an intact entry implements `ByteStream`, with its liveness. |
| `gzip_output` | Every life of a GZIP stream over outputs that fail: bytes in order, one header before them. |
| `collections` | Any four calls on two variables, with and without recursion, on files and directories that vanish or become unreadable: copies stay independent, no half listing is used, the first match is returned, `size()` counts what `entries()` returns, the stream is that of the entry found, and a `setLevel()` refused half way can be repeated to the same effect. |
| `entry_time` | Each day of nine years, the edges of the day and of summer time, and dates set field by field, in archives written and read byte by byte: valid means in the calendar, dates do not drift. An archive read back holds the entry that was saved; with one byte changed, at any place, it is refused or still does. |
| `tools` | Sessions of the tools: an archive is written only by a `zipdir` that has accepted its arguments and listed the directory, or the file, maybe the archive itself, that was named in its place; what is deflated, and how, is what `--limit` and `--level` say; what `appendzip` appended to anything is found, if no write failed and the start fits its 32 bits. |
| `file_paths` | Two objects: no answer for another path, sums are paths with the right name. |

Runs that show the code doing something else than what its documents or comments
say (the text is quoted in `PROJECT.json`, "findings"):

| run | what happens |
|---|---|
| `resave` | saving the entries of an opened `ZipFile` moves its offsets into the new archive, so that it opens the wrong data, and may copy that into the archive being saved |
| `emptied_file` | a file emptied after it was listed sets `failbit` of the output stream, and every later file is stored empty, without error |
| `two_gib` | an archive past 2^31 bytes is refused although everything in it fits in 32 bits |
| `gzip_finish` | `finish()` does nothing before the first overflow; after it, the size was never counted, so that deflation is never finished and a stream that is destroyed ends the program |

### Seen while modelling

These are consequences of the definitions too, and have no run of their own. Those
about a save are the exceptions of `SavedArchiveReadsBack`, so that removing one from
`Excepted` makes `save_any` fail.

* An empty entry with method DEFLATED has no deflate data, and reading it fails
  (`zempty` in the menu, the exception `Unended`; `src/deflateoutputstreambuf.cpp:392`).
* A name or an extra field of exactly 65536 bytes is accepted, its length written as 0
  (`name16`, `extra16`, `Misdescribed`; `src/zipcentraldirectoryentry.cpp:332`). So is
  the name of a directory of 65535, to which a separator is added, and one of 65536,
  whose length becomes 1.
* The size of an entry is counted modulo 2^32, so that the guard cannot see a larger
  one; one of exactly 2^32 bytes counts as empty, and if it is deflated its data is
  never finished (`src/zipoutputstreambuf.cpp:281`). `Oversized` excepts such entries.
* An entry with a comment is saved without error into an archive that cannot be
  opened: `init()` compares a comment the local header never has (`noted` in the menu,
  `Misdescribed`; `MCNoted` in `MCEntryTime`; `src/fileentry.cpp:433`).
* `init()` compares the times of the two headers after `mktime()` converted each. For
  an hour that occurs twice, glibc answers by what it converted before, which for
  the first local header is the last entry of the directory: an archive whose first
  entry has such a time and whose last entry is of the other season is saved without
  error and cannot be opened (`src/zipfile.cpp:476`, `src/dosdatetime.cpp:635`). It is
  the exception `ShownTwice` of `ArchivesReadBack`; `SaveArchive`, which knows of a time
  only whether it can be written, does not see it.
* A byte changed in the length of the extra field of a local header goes unnoticed
  when the archive is opened, and the data is then read from the wrong place.
* When the output refuses one write of a copy and then works again, the save succeeds
  with a truncated entry: the reason for `recovered` in `SavedArchiveReadsBack` and
  `PersistentFaultReported` (`src/zipfile.cpp:609`).
* A directory and local headers that stand behind the virtual end of an archive are
  accepted: the search alone stops at that end, and the reads that follow go on through
  the file (`Rest` in `OpenArchive`; `src/virtualseeker.cpp:218`, `src/zipfile.cpp:437`).
* A comment of the archive that does not fit in a chunk of 1024 bytes with the 22 bytes
  before it is saved without error, up to 65535 bytes, and `init()` then never finds the
  one with the other: the exception `Unfindable` (`src/backbuffer.cpp:152`,
  `src/zipendofcentraldirectory.cpp:310`). For archives of other programs the same is
  true of a shorter comment, if bytes follow the archive (`Displaced`).
* A stream from a collection of collections cannot be had by base name
  (`src/collectioncollection.cpp:398`), `setMethod()` and `setLevel()` of one change no
  entry (`src/filecollection.cpp:541`), and what is added to one is in no listing
  (`src/filecollection.cpp:367`).
* An entry added to a `ZipFile` is opened at offset 0 of the archive: the reason why
  `StreamOfFullName` excepts added entries (`src/zipfile.cpp:560`).
* A collection of collections throws for good once one of its directories could not be
  listed, since that directory is then invalid (`src/collectioncollection.cpp:442`).
* A `StreamEntry` in a `DirectoryCollection` is opened as the file of that name on disk:
  why `CanOpen` is a condition of `StreamOfFullName` (`src/directorycollection.cpp:206`).
* A `ZipFile` made without a file is valid, and empty, although its documentation says
  the opposite (`src/zipfile.cpp:324`).
* An entry that is neither a file nor a directory, such as a socket or a dangling
  link, has the time 0, so that a directory that holds one cannot be saved
  (`src/directoryentry.cpp:68`).
* `computeCRC32()` of a `StreamEntry` is that of nothing the second time, although it is
  said to be recomputed (`src/streamentry.cpp:145`): the stream is at its end, and
  nothing clears that.
* A named pipe is opened although its entry is invalid
  (`src/directorycollection.cpp:206`), and a `DirectoryCollection` of a regular file
  is valid (`src/directorycollection.cpp:99`).
* A date that is not valid is read as 1970, which writing refuses
  (`src/dosdatetime.cpp:665`).
* `/` is pruned to the empty path, which does not exist (`src/filepath.cpp:62`).
* A `ZipFile` made from an `std::istream` opens a file named `-` for its entries
  (`src/zipfile.cpp:560`).
* The tools: `zipios` exits with 0 after an exception (`tools/zipios.cpp:244`);
  `appendzip` of an empty file writes no start and exits with 0, and so it does when the
  disk is full, whatever it could write (`tools/appendzip.cpp:95`); it writes the start
  modulo 2^32 (`tools/appendzip.cpp:91`); it creates the first
  file also when the second is missing, and of a file to itself never ends, which
  `SessionsAssumption` excludes; `zipdir` of a directory that
  holds its own output lists it, as it was before.
* `zipdir a.zip`, with the directory forgotten, takes the archive for the input too
  (`tools/zipdir.cpp:170`). A collection of a regular file is valid and lists that file
  (`src/directorycollection.cpp:99`), so that the archive is cut off when the output is
  opened: the case that `OutputKept` names.

### Bounds

* `FieldMod` is 3 where lengths at the limit matter: 2, 3 and 4 are then below, at
  and above it, for comments, extra fields and, with `MaxEntries = 3`, the count of
  entries. It is 8 where it should not be met.
* `IntLimit` is 200 where sizes do not matter, more cells than any archive of those
  runs has; 30 in `save_any`, which no archive passes unless one of `HugeMenu` holds a
  file of 59, 60 or 61 bytes, that is around 2^32; and 4 in `two_gib`, so that archives of two entries pass 2^31 and 2^32
  at every place. That a wrapped position never makes a save overwrite a closed
  entry, and that what was saved reads back, is proved for every value.
* `MaxEntries = 3`: the first entry is written with nothing behind it, the next
  with a closed one to protect, the third with the state left by one that failed.
  Listings take different entries of the menu, since names are.
* `OldMenu` makes archives of up to two entries, so that each may take the place the
  other had; `HugeMenu` has a stored and a deflated file, before and behind each other.
* `MaxFuse = 20` is more writes than a save of three entries makes, so that the output
  fails at each of them; of the refused write nothing, or a part, was taken.
* `BufSize` 1 or 2 and contents up to 5 bytes, `Capacity` 2 and `InCapacity` 3:
  contents shorter than, equal to and longer than every buffer, and buffers of
  which neither divides the other.
* Names have the length 1 but for those of `NameMenu`, of `FieldMod` and one less or more;
  listings of two of these, or of one and another entry.
* In `save_any`, `EocdSize = 1` and `ChunkSize = 2`: comments of the archive of 0 and 1 can
  be found again, 2 can be written but not found, 3 not written.
* In `open_any`, `ChunkSize = 4`, `EocdSize = 2`: headers in one chunk and across two, and archives of
  less than one, one and several chunks. A comment of 2 just fits with the header, and up
to 4, with up to 5 bytes behind, are tried.
* `MaxSteps = 4`, `MaxKids = 2`, `MaxDepth = 2`, `MaxNesting = 2` and two variables that
  hold a collection from the start: a collection of collections of collections, of two
  each, and a directory in the directory that is listed;
  adding one collection to another, changing the disk, calling again and comparing
  with a copy. The properties of searches, streams and `setLevel()` are about the next
  call, so that they see a fifth. One limit, one pair of methods, and three of
  levels: values all entries take, that directories refuse, and that files refuse.
  Variables are interchangeable (`SYMMETRY`), names are not.
* `MaxPut = 5`, `MaxFinish = 2`: put areas empty, full and refilled twice; a
  second `finish()`.
* `MaxClears = 1`: a reader that goes on after the end.
* `MaxLength = 5` for paths of three characters.
* `tools`: every `zipdir` line of up to three words out of nine, longer ones with every
  level and limit, and sessions of up to five commands; the directory is listed empty
  or with a file of 5 and one of 257 bytes, below and above the default limit of 256, and
  a file in its place has one of these sizes. `SizeMod = 1000` is more than any number the
  arguments have. `StartMod = 4`: the third archive that is appended to one file is
  past what the start can count. One file, `program`, is there from the beginning.
* `DamagedTimes`: an ordinary moment and the two of an hour that occurs twice, for a
  file, a directory and an entry with a comment; each byte of the archive is
  increased by one. Dates: 1980 and 2107 end the range,
  2000 is a leap year, 2100 is none, 2001, 2099 and 2101 are between.

`CHECK_DEADLOCK FALSE` is stated for the collections (a program stops after
`MaxSteps` calls) and the times (an exception ends the life of an entry); everywhere
else the last state has a `Done` step, and stopping anywhere before is an error.

### Fairness

`OpenArchive` assumes `WF_vars(Step)`: a constructor runs until it returns or throws.
`EntryInput` assumes weak fairness of `Open \/ Read`: whoever opens the stream reads
until he is told to stop, as `os << is->rdbuf()` does; nothing is assumed of `Clear`.
No other module assumes fairness. A save always ends too, but that it does follows
from its loops being counted; it is not checked.

## 4. Proofs

`tlapm` checks every theorem below for all values of the constants.

| theorem | of every |
|---|---|
| **`SaveArchive_proofs`** | listing, disk, moment of change, fault, width and put area size: |
| `TypeCorrect` | types, and a put position inside the file |
| `ClosedEntriesAreFrozen` | no step writes what was closed: `CommittedBytesFrozen` |
| `FaultsAreReported` | a save to an output that did not recover: `PersistentFaultReported` |
| `InitNeverRefuses`, `DestructorDoesNotThrow` | `NoInternalError`, `NeverTerminates` |
| `WhatFitsIsAccepted` | `AcceptsWhatFits`, whatever failed before |
| `SavedReadsBack` | a save that returns left what was listed: `SavedArchiveReadsBack` |
| `SaveImplementsArchive` | `ImplementsArchive`: every step of a save is a step of `Archive` or stutters |
| **`OpenArchive_proofs`** | file, chunk size, and pair of offsets: |
| `TypeCorrect`, `BufferStaysWindow` | types; `BufferIsWindow` |
| `SearchIsThorough`, `LastDirectoryIsFound` | `SearchSkipsNothing`, `NothingMissed` |
| `OpensExactly` | `OpensWhatIsWellFormed`: what is opened, and what is refused |
| `ReadsBackAnywhere` | intact archive, wherever a file holds it: `ContentsReadBack` |
| **`EntryInput_proofs`** | file, offset, size of the two buffers and number of `clear()`: |
| `TypeCorrect`, `NoByteIsLost`, `CutShortIsNoEnd` | types; `NothingLost`, `EofMeansEnd` |
| `StreamRefines` | intact entry: every step is one of `ByteStream` or stutters |
| **`GzipOutput_proofs`** | buffer size, output, client and number of `finish()`: |
| `TypeCorrect`, `NoByteTwice`, `OneHeader` | types; `InOrder`, `HeaderFirst` |
| **`CollectionCalls_proofs`** | directory tree, archive, number of variables, width and depth of the collections: |
| `CollectionsAreSeparate` | the inductive invariant: each object has entries of its own |
| `TypeCorrect`, `ListingsAreWhole` | types; `NoHalfListing` |
| `CopiesStayIndependent` | no call on one variable shows in another: `CopiesAreIndependent` |
| `RetriesRepair` | `RetryRepairs`, for all limits and levels |
| `FirstMatchComesFirst`, `StreamIsOfTheEntry` | `FirstMatchWins`, `StreamOfFullName` |
| **`FilePath_proofs`** | alphabet, strings without double separators, objects and files: |
| `TypeCorrect`, `AnswersCorrect`, `SumsAreNamesAlways` | types; `AnswersForItsPath`, `SumsAreNames` |
| **`Tools_proofs`** | command line, session, directory, files there before and widths of `size_t` and of a start: |
| `ToolsTypeOK`, `ZipdirKeepsOutput`, `ZipdirSavesAsAsked`, `AppendedIsFound` | types; `OutputKept`, `SavedAsAsked`, `EmbeddedReadsBack` |
| **`EntryTime_proofs`** | zone, entry, data and damage: |
| `NumbersReadBack`, `FieldsReadBack` | number of any width, and place in a file: `zipRead()` undoes `zipWrite()` |
| `LocalLength` | local header: `getHeaderSize()` is the number of bytes `write()` writes |
| `DatesReadBack`, `RoundingIsStable` | date, and moment: its word gives it back; rounding it twice is rounding it once |
| `TypeCorrect`, `ValidAlwaysInCalendar`, `DatesStay` | types; `ValidMeansInCalendar`, `DatesDoNotDrift` |

What is assumed is what the modules name, and nothing else: widths and buffers are
positive; what is given to the program has the types of its parameters; and

* `IntactAssumption`, in `OpenArchive` and `EntryInput`, says what is meant by an intact
  archive or entry. It is a definition of the input, not of how the reader gets on.
* `FilesAssumption` of `EntryTime` bounds the data of an entry by `MaxData`, since
  `updateEntryHeaderInfo()` keeps the position behind it in an `int`.
* `ZoneAssumption` asks for a zone a whole number of even seconds from UTC, at most a
  day: dates have even seconds, so that in a zone with odd ones each would drift.
* `SessionsAssumption` of `Tools`: no file is appended to itself. `ListingsAssumption`: a
  negative limit is, as a `size_t`, larger than every file.
* `TreeAssumption` of `Collections`: the directories are a tree of a depth that
  `MaxNesting` bounds. `readdir()` lists a name once, and hard links to directories
  are not made; links that are symbolic are left out (section 5).

*Saving.* None of the safety properties is inductive. `CommittedBytesFrozen` needs to
know where the put position may be, and after an exception in the middle of
`updateEntryHeaderInfo()` it may be before the end of the file. The first
part of the module states, for every operator of `ZipOutput`, what one call does to it:
`Forward(s, t)` — it only writes at the put position or behind — for those that
never seek, and `Safe(s, t)` for all: types are kept, `Committed` does not move
back, cells before it are kept, and a refused write stays known. The lemma that
carries the weight is `UpdateEntryHeaderInfoSafe`: the header rewritten has the
length the one before had, and the position it seeks to, also when it wrapped, is
that of the entry that is open. `Good(zb)` is what the calls need of each other:
in particular, that the zlib stream is clean whenever no entry is open, which is
why `init()` never refuses, and that the streambuf a failed call leaves has nothing
to flush, which is why the destructor does not throw. `Latched(zb)` says that an
output that refused has no fuse left, so that each later write throws; the save can
end with "saved" only through `WriteEocd`, which writes. The invariant is

    IInv == TypeOK /\ Good(zb) /\ (~recovered => Latched(zb)) /\ Control

where `Control` ties the program counter to the state of the streambuf.

`SavedReadsBack` adds to it, in two layers. `Structure` is about positions: while the
save runs, the entries are those of the listing so far, in its order, and none begins
behind the end of the file; this alone gives `WhatFitsIsAccepted`, since what a
`write()` looks at is then what `Fits` looks at. `Contents` is about the cells. For each
closed entry, the file holds its local header and its data, and both end before
`Committed` (`Held`), so that `Safe` keeps them. For the entry that is open,
the CRC and the put area are the bytes copied so far, and what is left of the file is
still to come (`Progress`). While the directory is written, the file ends
with what was written of it (`Catalogued`). When the save is reported, the readers of
`ZipReader` find this directory, and through it each entry (`SealedReads`).

`SaveImplementsArchive` reads the archive off the same invariant. Closing an entry, in
the call that puts the next one or begins the directory, is `Add`; the last write is
`Seal`; an exception, a recovery or one of the five cases is `Abandon`; all else
stutters. What had to be shown is that a closed entry reads back the same after each
step, which is `Held` again, and that no step closes two.

*Opening.* `readP` moves and the buffer is replaced at once, so the invariant has to
say which window of the file `buf` is while the chunk size shrinks at the front
of the file, and that this window ends a whole number of chunks before the end (`Chunks`).
That the search reads a header if and only if it is whole in one chunk is then a matter of
division (`DivisionIs`, `InWindow`, `SeenAtPlace`). For
`OpensExactly`, `Full` adds that what was found is the last end of central directory
there is (`Located`), that the loop over the directory stands where the recursive
function `CentralOffsets` puts its i-th header (`Walk`), that all were read and the first
`num - 1` agree with their local headers (`Walked`); every exit then gives the
verdict of `Consistent`. `ReadsBackAnywhere` needs, moreover, that the cells of
`Rest` at a place are those of the file at that place plus `start`, and that `Content`
looks no further than the entry.

*Reading.* `NothingLost` counts bytes, and is inductive only once it is said which cells
of the file each buffer holds: the input buffer is a window of the file
(`InputIsWindow`), what was used of it are deflated bytes, with the end marker last
(`OnlyDeflatedUsed`), and the bytes delivered with those buffered are those of
the cells used, in order (`InOrder`). `StreamRefines` is the safety part of
`IsByteStream`: the initial state, and every step, maps.

*GZIP.* Of a stream that lives and that no output refused, `Stage` says that it is in one
of three stages: nothing was written, or the file holds the header and the bytes
that are counted in the CRC, or it is closed; bytes put are those in the file followed
by those in the put area. Both properties are about outputs that refused nothing;
after a refusal only the types are stated.

*Collections.* `CopiesAreIndependent` compares two collections after a step, and says
nothing of pointers; but a `setLevel()` writes through them, so that it is inductive only
with the statement that no two objects have one in common. `Sound(c, heap)` says
it of the objects of one collection, with the listing of each (`ListedOnce`); `Program`
says it of all variables. A call keeps a
beginning of the entries of an object, or none, and what follows them is new
(`NodeEffect`); what it does to a collection and the heap is `Effect`: the
objects stay the same in number, class and depth, soundness is kept, only entries the
collection holds are written, and what it holds that it did not hold is new. Every
call of the interface has an `Effect`, and two of them in a row have one
(`EffectOnEffect`). The calls that make collections have the weaker `CallEffect`, and
`CallKeeps` shows once for all that such a call keeps `Program` and shows in
one variable at most.

That a listing has each path once rests on the tree: what is n levels below a
directory is deeper than it, and two directories of one depth have nothing below
in common (`DeeperStep`, `DisjointStep`), by induction on n, for the recursive
function `Below`. `FirstMatchWins` compares a search that stops early with a listing
that goes on. `entries()` succeeds only if no object fails, so that
the search asks objects up to the first that has a match, and those have then the values they
have after `entries()`; the first match among what was asked is the first of the join of
all (`FirstOfAll`), by an induction on the number of parts. `StreamOfFullName` needs the tree:
the child that is asked (`Holder`) is the one around the object with the
entry, and the entry belongs to one object only (`NodeOfIs`). Its second search lists nothing
anew, since all it comes to was listed by the first. `RetryRepairs` rests on the fact that
what an entry refuses, and what it becomes, does not depend on the level it had
(`LevelAgain`), and that the second call finds every object listed, in the place the
first made its entries (`IdleIs`).

*Paths.* `AnswersForItsPath` is made inductive by adding that the present content of
each file is among those seen. The lemmas on strings say that pruning and joining
make no double separator, and that the name of a path is what follows its last one.

*Tools.* `SavedAsAsked` speaks of the entries when `zipdir` saves; the invariant has to
carry what each of the two passes left (`EntriesSet`), the range the options were
accepted in and that the limit is one `atoi()` gave (`LimitGiven`), since a negative
one becomes a `size_t` larger than any file. `OutputKept` needs `Untouched`: no file
differs from what it was when the command began until the listing is complete; and of a
file that is there in place of the directory, that it is the one entry listed.
`EmbeddedReadsBack` rests on `Commands`: no command that is left appends a file to
itself. Its two conditions, that no write failed and that the file was shorter than
2^32 bytes, are what `appendzip` does not look at.

*Records and dates.* That a byte sequence gives back its number is arithmetic on the
remainders by 256; that a word gives back a date, on those by 32 and 2048. The type
of an archive needs that each `read()` gives every field its type, whatever the
bytes are: the fields are read in an order in which each length comes before what it is
the length of (`Ordered`). The calendar is defined by `CHOOSE`, so that it has to be
shown that there is one year and one month to choose: 400 years have 146097 days and
`YearStart` is within two days of that rate, so that the year is one off the guess at
most, and years do not overlap. `DatesStay` uses the one fact about an entry that it needs,
that its time is one `mktime()` gave for its date (`TimeOfDate`): such a time is even,
rounding leaves it alone, and the clock shows the date again.

Induction over data is done without the theorems of the library that take an operator: a
statement about all numbers is one about the *set* of numbers it holds for, whose
complement has no least member (`SetInduction` in `EntryTime_proofs`, `Counting` in
`CollectionCalls_proofs`, from the theorem `WFMin`). That a recursive function, or a
fold such as `FlattenSeq`, is what its equations say is shown the same way: by the set
of the lengths for which there is a function that satisfies them (`Recursion`). The
readers and the walks over directories are recursive functions and folds, not `RECURSIVE`
operators.

Model-checked only:

* liveness (`Terminates`, `ReadingEnds`, and that part of `IsByteStream`), since neither
  fairness nor `ENABLED` is in the prover's reach;
* `ArchivesReadBack`. It is about the data of that run: a byte changed in an
  offset may lead to data that is itself a header, so that it does not hold of all data.

`EverySavedArchiveReadsBack`, `RejectsOnlyTooLarge` and `FinishCompletes` are what the
documents say and are false.

## 5. What is not modelled

* Text encodings, wording, printing, `toString()`, `computeCRC32()`, the setters of
  entries nothing in the library calls.
* Symbolic links, other than as entries that are neither files nor directories. A
  link to a directory above ends the listing when the system reports `ELOOP`.
* The position of the `std::istream` of a `StreamEntry` after it was read.
* A `ZipFile` made from an `std::istream`.
* Whether a `StreamEntry` is a directory is fixed when it is added to a collection, while
  the code asks `stat()` of its path when it is first asked, and keeps that answer. A
  path that becomes a directory in between is the one difference.
* The tools `dosdatetime` and `zcrc32`, which print what one call returns.
* Memory exhaustion, and exceptions of the C++ library other than those of streams.

## 6. What comes next

Nothing more that keeps state is left out, and every safety property that the runs check
and that holds for all constants is proved. What could be added is the descent of `load()`
into symbolic links, which `TreeAssumption` excludes, and the position that
the `std::istream` of a `StreamEntry` is left at.
