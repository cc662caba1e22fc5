-------------------------------- MODULE Tools --------------------------------
(***************************************************************************)
(* The command line tools, run one after the other on the same files:      *)
(* zipdir (src/tools/zipdir.cpp) makes an archive of a directory, zipios   *)
(* (src/tools/zipios.cpp) counts the entries of archives, zipios_example   *)
(* (src/tools/zipios_example.cpp) prints one, and appendzip                *)
(* (src/tools/appendzip.cpp) puts an archive behind another file.          *)
(*                                                                         *)
(* A file is the sequence of what was written to it.  What the library     *)
(* does when it lists, saves and opens is in the modules about it; here it *)
(* is one step, which may fail.  A directory may change until it is listed.*)
(* What zipdir is given may also be a file, its own output included.       *)
(***************************************************************************)
EXTENDS FileEntries, FiniteSets

CONSTANTS
    Arg,            \* command line arguments; the empty string is one
    Dashed,         \* those that begin with a dash
    Atoi,           \* atoi(), of any argument
    ZipName,        \* an argument with .zip behind it, unless it ends in .zip
    BaseName,       \* the last segment of an argument that is a path
    SizeMod,        \* 2^64: modulus of a size_t
    StartMod,       \* 2^32: modulus of the start appendzip writes
    Listings,       \* the entries a directory may have when it is listed
    Sizes,          \* what a file that is given instead of one may have in bytes
    FirstFiles,     \* what is in each file before the first command
    Sessions        \* the commands that are run: the tool and its arguments

ASSUME ArgAssumption ==
    /\ "" \in Arg /\ Dashed \subseteq Arg \ {""}
    /\ Atoi \in [Arg -> Int]
    /\ ZipName \in [Arg -> Arg] /\ BaseName \in [Arg -> Arg]

Tool == {"zipdir", "zipios", "zipios_example", "appendzip"}

\* A FileEntry as FileEntries has it.
FileEntry ==
    [name : Arg, from : {"listing"}, valid : BOOLEAN, directory : BOOLEAN,
     size : Nat, method : StorageMethod, level : CompressionLevel]

ASSUME ListingsAssumption ==
    /\ SizeMod \in Nat /\ 256 < SizeMod
    /\ StartMod \in Nat /\ 1 < StartMod
    /\ \A a \in Arg : Atoi[a] < SizeMod /\ -Atoi[a] < SizeMod
    /\ Listings \subseteq Seq(FileEntry)
    /\ \A l \in Listings : l # << >> /\ \A i \in DOMAIN l :
            /\ l[i].directory => l[i].size = 0
            /\ \A a \in Arg : Atoi[a] < 0 => l[i].size <= SizeMod + Atoi[a]
    /\ Sizes \subseteq Nat
    /\ \A s \in Sizes : \A a \in Arg : Atoi[a] < 0 => s <= SizeMod + Atoi[a]

\* appendzip would copy a file to its own end for ever.
ASSUME SessionsAssumption ==
    /\ Sessions \subseteq Seq([tool : Tool, args : Seq(Arg)])
    /\ \A s \in Sessions : \A i \in DOMAIN s :
            s[i].tool = "appendzip" /\ Len(s[i].args) = 2 => s[i].args[1] # s[i].args[2]

VARIABLES
    session,    \* the commands still to be run
    tool,       \* the one that runs, or ran last,
    argv,       \*   its arguments,
    next,       \*   the index of the one looked at next
    opt,        \*   and its local variables
    entries,    \* the entries of the collection zipdir has
    tree,       \* what is in the directory that zipdir is given
    file,       \* what is in each file
    before,     \*   and was when the command was started
    printed,    \* the counts of zipios, or the entry zipios_example printed
    failed,     \* a read or a write that appendzip does not check went wrong
    status,     \* how the command ended
    pc

vars == << session, tool, argv, next, opt, entries, tree, file, before, printed,
           failed, status, pc >>

\* Nothing, a directory that cannot be read, or one with this listing.
Tree == [state : {"missing", "unreadable"}, listing : {<< >>}]
            \cup [state : {"listable"}, listing : Listings]

\* What an archive holds of an entry.
Member == [name : Arg, directory : BOOLEAN, deflated : BOOLEAN]

\* A run of bytes of a file: text, an archive, or the four bytes appendzip writes
\* behind one, which say where it starts.
Part == [kind : {"text"}] \cup [kind : {"archive"}, members : Seq(Member)]
            \cup [kind : {"start"}, at : Nat]

Absent == << [kind |-> "absent"] >>
Content == Seq(Part) \cup {Absent}

ASSUME FilesAssumption == FirstFiles \subseteq [Arg -> Content]

Status == {"running", "success", "error", "terminated"}

Function == {"UNDEFINED", "COUNT", "COUNT_DIRECTORIES", "COUNT_FILES"}

\* limit, level, in and out of zipdir, function and files of zipios
Options ==
    [limit : Int, level : CompressionLevel, in : Arg, out : Arg,
     function : Function, files : Seq(Arg)]

Defaults ==
    [limit |-> 256, level |-> COMPRESSION_LEVEL_DEFAULT, in |-> "", out |-> "",
     function |-> "UNDEFINED", files |-> << >>]

Init ==
    /\ session \in Sessions
    /\ tool = "zipdir" /\ argv = << >> /\ next = 1 /\ opt = Defaults
    /\ entries = << >>
    /\ tree \in Tree
    /\ file \in FirstFiles
    /\ before = file
    /\ printed = << >>
    /\ failed = FALSE
    /\ status = "success"
    /\ pc = "shell"

\* The next command is started.
Run ==
    /\ pc = "shell"
    /\ session # << >>
    /\ session' = Tail(session)
    /\ tool' = Head(session).tool
    /\ argv' = Head(session).args
    /\ next' = 1
    /\ opt' = Defaults
    /\ entries' = << >>
    /\ before' = file
    /\ printed' = << >>
    /\ failed' = FALSE
    /\ status' = "running"
    /\ pc' = "arguments"
    /\ UNCHANGED << tree, file >>

\* Other programs change the directory.
Change ==
    /\ \E t \in Tree : t # tree /\ tree' = t
    /\ UNCHANGED << session, tool, argv, next, opt, entries, file, before, printed,
                    failed, status, pc >>

\* main() returns or calls exit(), or an exception leaves it.
Exit(how) == status' = how /\ pc' = "shell"
Goto(p) == status' = status /\ pc' = p

\* A step that only looks at arguments.
Parsing(t) ==
    /\ pc = "arguments" /\ tool = t
    /\ UNCHANGED << session, tool, argv, entries, tree, file, before, printed, failed >>

\* argv[i], when there is one, and the one behind it
More == next <= Len(argv)
Argument == argv[next]
Value == argv[next + 1]

\* An argument of its own: it is one of as, and opt becomes o.
Option(as, o) ==
    /\ More /\ Argument \in as
    /\ opt' = o
    /\ next' = next + 1
    /\ Goto("arguments")

\* --help and --version
Information(help, version) ==
    /\ More /\ Argument \in help \cup version
    /\ Exit(IF Argument \in help THEN "error" ELSE "success")
    /\ UNCHANGED << next, opt >>

-----------------------------------------------------------------------------
(* zipdir: the arguments. *)

Help == {"-h", "--help"}
Version == {"-V", "--version"}

LevelNamed ==
    [default |-> COMPRESSION_LEVEL_DEFAULT, smallest |-> COMPRESSION_LEVEL_SMALLEST,
     fastest |-> COMPRESSION_LEVEL_FASTEST, none |-> COMPRESSION_LEVEL_NONE]

LevelGiven(a) == IF a \in DOMAIN LevelNamed THEN LevelNamed[a] ELSE Atoi[a]

\* Bug: only the lower end of the range is checked.
LevelAcceptedUnbounded(a) ==
    a \in DOMAIN LevelNamed \/ Atoi[a] >= COMPRESSION_LEVEL_MINIMUM

LevelAccepted(a) ==
    \/ a \in DOMAIN LevelNamed
    \/ Atoi[a] \in COMPRESSION_LEVEL_MINIMUM..COMPRESSION_LEVEL_MAXIMUM

\* --level or --limit, and what is behind it
Setting(name, accepted, o) ==
    /\ More /\ Argument = name
    /\ IF next < Len(argv) /\ accepted
       THEN opt' = o /\ next' = next + 2 /\ Goto("arguments")
       ELSE Exit("error") /\ UNCHANGED << next, opt >>

ZipdirLevel ==
    Setting("--level", next < Len(argv) => LevelAccepted(Value),
            [opt EXCEPT !.level = LevelGiven(Value)])

ZipdirLimit ==
    Setting("--limit", TRUE,
            [opt EXCEPT !.limit = IF Value = "default" THEN 256 ELSE Atoi[Value]])

ZipdirName ==
    /\ More
    /\ Argument \notin Help \cup Version \cup {"--level", "--limit"}
    /\ IF opt.out # "" /\ opt.in # ""
       THEN Exit("error") /\ UNCHANGED << next, opt >>
       ELSE /\ opt' = IF opt.out = "" THEN [opt EXCEPT !.out = Argument]
                                      ELSE [opt EXCEPT !.in = Argument]
            /\ next' = next + 1
            /\ Goto("arguments")

\* The checks behind the loop.
ZipdirEnd ==
    /\ ~More
    /\ IF opt.out = "" THEN Exit("error") /\ UNCHANGED opt
       ELSE /\ opt' = [opt EXCEPT !.in = IF @ = "" THEN opt.out ELSE @]
            /\ Goto("collect")
    /\ UNCHANGED next

ZipdirArguments ==
    /\ Parsing("zipdir")
    /\ Information(Help, Version) \/ ZipdirLevel \/ ZipdirLimit \/ ZipdirName \/ ZipdirEnd

-----------------------------------------------------------------------------
(* zipdir: the collection and the archive. *)

Zipping(p) ==
    /\ pc = p
    /\ UNCHANGED << session, tool, argv, next, opt, tree, before, printed, failed >>

\* The argument is no directory but a file.
InputIsFile == file[opt.in] # Absent

InputMissing == ~InputIsFile /\ tree.state = "missing"

\* Bug: the output is opened first.
CollectOpening ==
    /\ Zipping("collect")
    /\ Goto(IF InputMissing THEN "invalid" ELSE "methods")
    /\ file' = [file EXCEPT ![ZipName[opt.out]] = << >>]
    /\ UNCHANGED entries

\* DirectoryCollection collection(in): one that is not valid is used as well,
\* and the first call throws.
Collect ==
    /\ Zipping("collect")
    /\ Goto(IF InputMissing THEN "invalid" ELSE "methods")
    /\ UNCHANGED << entries, file >>

Invalid == Zipping("invalid") /\ Exit("terminated") /\ UNCHANGED << entries, file >>

\* limit is an int, and a size_t where it is used.
Limit == IF opt.limit < 0 THEN opt.limit + SizeMod ELSE opt.limit

\* What loadEntries() may find: a file is the only entry of its collection, and a
\* directory is read, as it is by now.
Found ==
    IF InputIsFile
    THEN {<< NewEntry(opt.in, "listing", TRUE, FALSE, size) >> : size \in Sizes}
    ELSE {listing \in {tree.listing} : tree.state = "listable"}

\* setMethod() makes the listing.
SetZipMethods ==
    /\ Zipping("methods")
    /\ \/ /\ Found = {}
          /\ entries' = << >>
          /\ Exit("terminated")
       \/ \E listing \in Found :
            LET large == IF opt.level = COMPRESSION_LEVEL_NONE THEN "STORED" ELSE "DEFLATED"
                set == SetMethods(listing, Limit, "STORED", large)
            IN  /\ entries' = set.entries
                /\ IF set.thrown = "none" THEN Goto("levels") ELSE Exit("terminated")
    /\ UNCHANGED file

SetZipLevels ==
    /\ Zipping("levels")
    /\ LET set == SetLevels(entries, Limit, COMPRESSION_LEVEL_NONE, opt.level)
       IN  /\ entries' = set.entries
           /\ IF set.thrown = "none" THEN Goto("open") ELSE Exit("terminated")
    /\ UNCHANGED file

\* std::ofstream output(zipname), which may fail, as it does when that is the
\* directory itself, and then nothing can be written.
OpenOutput ==
    /\ Zipping("open")
    /\ \/ /\ ZipName[opt.out] = opt.in => InputIsFile \/ InputMissing
          /\ file' = [file EXCEPT ![ZipName[opt.out]] = << >>]
          /\ Goto("save")
       \/ file' = file /\ Goto("closed")
    /\ UNCHANGED entries

Deflated(e) == e.method = "DEFLATED" /\ e.level # COMPRESSION_LEVEL_NONE

Archive(es) ==
    [kind |-> "archive",
     members |-> [k \in DOMAIN es |->
        [name |-> es[k].name, directory |-> es[k].directory, deflated |-> Deflated(es[k])]]]

\* saveCollectionToArchive(), which throws after some entries when the output
\* fails; the destructors may then still complete an archive of those, or not.
Save ==
    /\ Zipping("save")
    /\ \/ /\ file' = [file EXCEPT ![ZipName[opt.out]] = << Archive(entries) >>]
          /\ Exit("success")
       \/ /\ \E n \in 0..Len(entries) :
                \E left \in {[kind |-> "text"], Archive(SubSeq(entries, 1, n))} :
                    file' = [file EXCEPT ![ZipName[opt.out]] = << left >>]
          /\ Exit("terminated")
    /\ UNCHANGED entries

SaveToClosed == Zipping("closed") /\ Exit("terminated") /\ UNCHANGED << entries, file >>

Zipdir ==
    \/ ZipdirArguments \/ Collect \/ Invalid \/ SetZipMethods \/ SetZipLevels
    \/ OpenOutput \/ Save \/ SaveToClosed

-----------------------------------------------------------------------------
(* The tools that read archives. *)

\* ZipFile(name): the central directory found from the end of the file gives
\* offsets that fit an archive which stands at the front, and is the last one.
OpensAs(c) == {k \in DOMAIN c : c[k].kind = "archive"} = {1}

Opens(name) == OpensAs(file[name])

\* openEmbeddedZipFile(name): what is between where the last four bytes say and
\* them, when they are a start; other bytes give any number.
Embedded(name) ==
    LET c == file[name] IN SubSeq(c, c[Len(c)].at + 1, Len(c) - 1)

Reading(p) ==
    /\ pc = p
    /\ UNCHANGED << session, tool, argv, next, entries, tree, before, file, failed >>

FunctionNamed ==
    [a \in {"--count", "--count-directories", "--count-files"} |->
        CASE a = "--count" -> "COUNT"
          [] a = "--count-directories" -> "COUNT_DIRECTORIES"
          [] a = "--count-files" -> "COUNT_FILES"]

\* zipios: an argument with a dash that is not known is passed over.
ZipiosArguments ==
    /\ Parsing("zipios")
    /\ \/ Information({"--help"}, {"--version", "--libzipios-version"})
       \/ Option(DOMAIN FunctionNamed,
                 [opt EXCEPT !.function = IF Argument \in DOMAIN FunctionNamed
                                          THEN FunctionNamed[Argument] ELSE @])
       \/ Option(Dashed \ ({"--help", "--version", "--libzipios-version"}
                                \cup DOMAIN FunctionNamed), opt)
       \/ Option(Arg \ Dashed, [opt EXCEPT !.files = Append(@, Argument)])
       \/ /\ ~More
          /\ IF opt.function = "UNDEFINED" THEN Exit("error") ELSE Goto("count")
          /\ UNCHANGED << next, opt >>

Counted(members) ==
    {k \in DOMAIN members :
        \/ opt.function = "COUNT"
        \/ opt.function = "COUNT_DIRECTORIES" /\ members[k].directory
        \/ opt.function = "COUNT_FILES" /\ ~members[k].directory}

\* The loop over the files: the first that cannot be opened ends it, with a
\* message and the exit code of a success.
CountFile ==
    /\ Reading("count")
    /\ IF opt.files = << >> \/ ~Opens(Head(opt.files))
       THEN Exit("success") /\ UNCHANGED << opt, printed >>
       ELSE LET members == file[Head(opt.files)][1].members
            IN  /\ printed' = Append(printed, Cardinality(Counted(members)))
                /\ opt' = [opt EXCEPT !.files = Tail(@)]
                /\ Goto("count")

\* zipios_example: the first entry whose base name is the argument is printed,
\* and is the first one of that full name.
Example ==
    /\ Reading("arguments") /\ tool = "zipios_example"
    /\ IF Len(argv) # 2 \/ ~Opens(argv[1])
       THEN Exit("error") /\ UNCHANGED printed
       ELSE /\ LET members == file[argv[1]][1].members
                   named == {k \in DOMAIN members : BaseName[members[k].name] = argv[2]}
               IN  printed' = IF named = {} THEN << >>
                              ELSE << CHOOSE k \in named : \A j \in named : k <= j >>
            /\ Exit("success")
    /\ UNCHANGED opt

-----------------------------------------------------------------------------
(* appendzip *)

\* Bug: the position is taken after the archive was copied.
StartOfEnd(exe, zip) == (Len(exe) + Len(zip)) % StartMod

\* exef.tellp(), before anything is written, as an std::uint32_t
StartOf(exe, zip) == Len(exe) % StartMod

Held(c) == IF c = Absent THEN << >> ELSE c

Start(exe, zip) == << [kind |-> "start", at |-> StartOf(exe, zip)] >>

\* Copying nothing sets failbit of exef, and the start is not written.
Copied(exe, zip) == IF zip = << >> THEN exe ELSE exe \o zip \o Start(exe, zip)

Torn == << [kind |-> "text"] >>

\* usage() and exit(1) when the arguments are not two, when the file that gets the
\* archive cannot be opened, and, after that one was created, when the archive
\* cannot.  Reads and writes that fail are not checked, and a copy that ends early
\* sets no failbit: then n parts of the archive are left, a torn one or not, and
\* the start or not.
AppendZip ==
    /\ pc = "arguments" /\ tool = "appendzip"
    /\ \/ Exit("error") /\ UNCHANGED << file, failed >>
       \/ /\ Len(argv) = 2
          /\ LET exe == Held(file[argv[1]])
                 zip == file[argv[2]]
             IN  \/ /\ file' = [file EXCEPT ![argv[1]] = exe]
                    /\ Exit("error") /\ UNCHANGED failed
                 \/ /\ zip # Absent
                    /\ \/ /\ file' = [file EXCEPT ![argv[1]] = Copied(exe, zip)]
                          /\ failed' = FALSE
                       \/ /\ \E n \in 0..Len(zip), torn \in {<< >>, Torn},
                               last \in {<< >>, Start(exe, zip)} :
                                file' = [file EXCEPT ![argv[1]] =
                                            exe \o SubSeq(zip, 1, n) \o torn \o last]
                          /\ failed' = TRUE
                    /\ Exit("success")
    /\ UNCHANGED << session, tool, argv, next, opt, entries, tree, before, printed >>

-----------------------------------------------------------------------------

\* All commands were run.
Done == pc = "shell" /\ session = << >> /\ UNCHANGED vars

Next ==
    \/ Run \/ Change
    \/ Zipdir \/ ZipiosArguments \/ CountFile \/ Example \/ AppendZip
    \/ Done

Spec == Init /\ [][Next]_vars

-----------------------------------------------------------------------------
(* Properties. *)

TypeOK ==
    /\ session \in Seq([tool : Tool, args : Seq(Arg)])
    /\ tool \in Tool
    /\ argv \in Seq(Arg)
    /\ next \in 1..Len(argv) + 1
    /\ opt \in Options
    /\ entries \in Seq(FileEntry)
    /\ tree \in Tree
    /\ file \in [Arg -> Content] /\ before \in [Arg -> Content]
    /\ printed \in Seq(Nat)
    /\ failed \in BOOLEAN
    /\ status \in Status
    /\ pc \in {"shell", "arguments", "collect", "invalid", "methods", "levels",
               "open", "closed", "save", "count"}

\* zipdir touches no file but its output, and that one only when all arguments
\* are accepted and everything was listed: a directory that is missing, unreadable
\* or goes away in between never costs the archive that was there before, and of
\* the mistakes on the command line one does.  A file named in place of the
\* directory counts as a listing of that one file, also when it is the archive
\* itself, as in "zipdir a.zip" with the directory forgotten.
OutputKept ==
    tool = "zipdir" =>
        \A a \in Arg : file[a] # before[a] =>
            /\ a = ZipName[opt.out]
            /\ ~More
            /\ pc \in {"save", "shell"} /\ status # "error"
            /\ entries # << >>
            /\ before[opt.in] # Absent => Len(entries) = 1 /\ entries[1].name = opt.in

\* When the output is opened, the entries are set the way the command line says,
\* whatever was listed: what is compressed are the files above the limit, each
\* with the level given, and a negative limit or --level none leaves none.
SavedAsAsked ==
    pc \in {"open", "closed", "save"} =>
        \A k \in DOMAIN entries :
            LET e == entries[k]
            IN  /\ Deflated(e) <=> /\ ~e.directory
                                   /\ opt.level # COMPRESSION_LEVEL_NONE
                                   /\ opt.limit >= 0 /\ e.size > opt.limit
                /\ Deflated(e) => e.level = opt.level

\* openEmbeddedZipFile() finds the archive that was appended, whatever the file
\* held before, other archives and what appendzip wrote behind them included, and
\* whatever stood behind the archive in the file it was copied from.  There are two
\* exceptions, in which appendzip says nothing either: a copy or a start that could
\* not be written, and a file that was too long for a start of 32 bits.
EmbeddedReadsBack ==
    /\ tool = "appendzip" /\ status = "success" /\ Opens(argv[2])
    /\ ~failed /\ Len(Held(before[argv[1]])) < StartMod
    =>
    /\ OpensAs(Embedded(argv[1]))
    /\ Embedded(argv[1])[1] = file[argv[2]][1]
=============================================================================
