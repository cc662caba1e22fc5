----------------------------- MODULE Tools_proofs ------------------------------
(***************************************************************************)
(* What holds of the tools for every command line, every session, every    *)
(* directory and every width of a size_t.                                  *)
(***************************************************************************)
EXTENDS Tools, SequenceTheorems, FiniteSetTheorems, WellFoundedInduction, TLAPS

-----------------------------------------------------------------------------
(* The inductive invariant. *)

Commands ==
  /\ \A i \in DOMAIN session :
        session[i].tool = "appendzip" /\ Len(session[i].args) = 2
            => session[i].args[1] # session[i].args[2]
  /\ tool = "appendzip" /\ Len(argv) = 2 => argv[1] # argv[2]

Control ==
  /\ pc \in {"collect", "invalid", "methods", "levels", "open", "closed", "save"} =>
        tool = "zipdir" /\ ~More
  /\ pc = "count" => tool = "zipios"
  /\ status = "running" <=> pc # "shell"

LimitGiven == opt.limit = 256 \/ \E a \in Arg : opt.limit = Atoi[a]

\* What is known of the entries of a directory.
Listed(es) ==
  \A k \in DOMAIN es :
     /\ es[k].directory => es[k].size = 0
     /\ \A a \in Arg : Atoi[a] < 0 => es[k].size <= SizeMod + Atoi[a]

Large(e) == ~e.directory /\ e.size > Limit

EntriesSet ==
  /\ Listed(entries)
  /\ pc \in {"levels", "open", "closed", "save"} =>
        /\ entries # << >>
        /\ before[opt.in] # Absent => Len(entries) = 1 /\ entries[1].name = opt.in
        /\ \A k \in DOMAIN entries :
              entries[k].method =
                 IF Large(entries[k]) /\ opt.level # COMPRESSION_LEVEL_NONE
                 THEN "DEFLATED" ELSE "STORED"
  /\ pc \in {"open", "closed", "save"} =>
        \A k \in DOMAIN entries :
           entries[k].level =
              IF Large(entries[k]) THEN opt.level ELSE COMPRESSION_LEVEL_NONE

Untouched == pc \notin {"save", "shell"} => file = before

IInv ==
  /\ TypeOK
  /\ Commands
  /\ Control
  /\ LimitGiven
  /\ EntriesSet
  /\ Untouched
  /\ OutputKept
  /\ EmbeddedReadsBack

-----------------------------------------------------------------------------
(* Lemmas about single parts of a step. *)

\* A negative limit is larger than every file.
LEMMA LimitOfSizeT ==
  ASSUME TypeOK, LimitGiven, NEW es \in Seq(FileEntry), Listed(es)
  PROVE  /\ Limit \in Nat
         /\ \A k \in DOMAIN es :
               es[k].size > Limit <=> opt.limit >= 0 /\ es[k].size > opt.limit
<1>1. opt.limit \in Int /\ opt.limit < SizeMod /\ -opt.limit < SizeMod /\ SizeMod \in Nat
  <2>1. \A a \in Arg : Atoi[a] \in Int
    BY ArgAssumption
  <2>2. /\ SizeMod \in Nat /\ 256 < SizeMod
        /\ \A a \in Arg : Atoi[a] < SizeMod /\ -Atoi[a] < SizeMod
    BY ListingsAssumption
  <2>3. CASE opt.limit = 256
    BY <2>2, <2>3
  <2>4. CASE \E a \in Arg : opt.limit = Atoi[a]
    BY <2>1, <2>2, <2>4
  <2> QED
    BY <2>3, <2>4 DEF LimitGiven
<1>2. CASE opt.limit >= 0
  <2>1. Limit = opt.limit
    BY <1>1, <1>2 DEF Limit
  <2> QED
    BY <1>1, <1>2, <2>1 DEF FileEntry
<1>3. CASE opt.limit < 0
  <2>1. Limit = opt.limit + SizeMod
    BY <1>3 DEF Limit
  <2>2. \A k \in DOMAIN es : es[k].size \in Nat /\ es[k].size <= SizeMod + opt.limit
    <3>1. PICK a \in Arg : opt.limit = Atoi[a]
      BY <1>3 DEF LimitGiven
    <3>2. \A k \in DOMAIN es : es[k] \in FileEntry
      OBVIOUS
    <3> QED
      BY <1>3, <3>1, <3>2 DEF Listed, FileEntry
  <2> QED
    BY <1>1, <1>3, <2>1, <2>2
<1> QED
  BY <1>1, <1>2, <1>3

\* No method that zipdir uses is refused.
LEMMA MethodsAreSet ==
  ASSUME NEW es \in Seq(FileEntry), NEW limit \in Nat,
         NEW small \in SupportedMethod, NEW large \in SupportedMethod
  PROVE  LET set == SetMethods(es, limit, small, large)
         IN  /\ set.thrown = "none"
             /\ set.entries = [i \in 1..Len(es) |->
                    WithMethod(es[i], Chosen(es[i], limit, small, large))]
<1> DEFINE refusing == {i \in DOMAIN es :
                         ~MethodAllowed(Chosen(es[i], limit, small, large))}
           done == Before(Len(es), refusing)
           New(e) == WithMethod(e, Chosen(e, limit, small, large))
<1>1. refusing = {}
  BY DEF MethodAllowed, Chosen
<1>2. done = Len(es) /\ Outcome(refusing) = "none"
  BY <1>1 DEF Before, Outcome
<1>3. SetMethods(es, limit, small, large) =
        [entries |-> [i \in DOMAIN es |-> IF i > done THEN es[i] ELSE New(es[i])],
         thrown |-> Outcome(refusing)]
  BY DEF SetMethods
<1> HIDE DEF refusing, done, New
<1>4. [i \in DOMAIN es |-> IF i > done THEN es[i] ELSE New(es[i])]
        = [i \in 1..Len(es) |-> New(es[i])]
  BY <1>2
<1> QED
  BY <1>2, <1>3, <1>4 DEF New

\* Nor is a level, since a directory is never large.
LEMMA LevelsAreSet ==
  ASSUME NEW es \in Seq(FileEntry), Listed(es), NEW limit \in Nat,
         NEW large \in CompressionLevel
  PROVE  LET set == SetLevels(es, limit, COMPRESSION_LEVEL_NONE, large)
         IN  /\ set.thrown = "none"
             /\ set.entries = [i \in 1..Len(es) |->
                    WithLevel(es[i], Chosen(es[i], limit, COMPRESSION_LEVEL_NONE, large))]
<1> DEFINE small == COMPRESSION_LEVEL_NONE
           refusing == {i \in DOMAIN es :
                         ~LevelAllowed(es[i], Chosen(es[i], limit, small, large))}
           done == Before(Len(es), refusing)
           New(e) == WithLevel(e, Chosen(e, limit, small, large))
<1>1. refusing = {}
  BY DEF LevelAllowed, Chosen, Listed, FileEntry, CompressionLevel,
         COMPRESSION_LEVEL_NONE, COMPRESSION_LEVEL_MINIMUM, COMPRESSION_LEVEL_DEFAULT,
         COMPRESSION_LEVEL_MAXIMUM
<1>2. done = Len(es) /\ Outcome(refusing) = "none"
  BY <1>1 DEF Before, Outcome
<1>3. SetLevels(es, limit, small, large) =
        [entries |-> [i \in DOMAIN es |-> IF i > done THEN es[i] ELSE New(es[i])],
         thrown |-> Outcome(refusing)]
  BY DEF SetLevels
<1> HIDE DEF refusing, done, New
<1>4. [i \in DOMAIN es |-> IF i > done THEN es[i] ELSE New(es[i])]
        = [i \in 1..Len(es) |-> New(es[i])]
  BY <1>2
<1> QED
  BY <1>2, <1>3, <1>4 DEF New

\* What is saved is the part of a file.
LEMMA ArchiveType ==
  ASSUME NEW es \in Seq(FileEntry)
  PROVE  Archive(es) \in Part
<1> DEFINE member(k) == [name |-> es[k].name, directory |-> es[k].directory,
                         deflated |-> Deflated(es[k])]
<1>1. ASSUME NEW k \in DOMAIN es
      PROVE  member(k) \in Member
  <2>1. Deflated(es[k]) \in BOOLEAN
    BY DEF Deflated
  <2>2. es[k] \in FileEntry
    BY <1>1
  <2>3. es[k].name \in Arg /\ es[k].directory \in BOOLEAN
    BY <2>2 DEF FileEntry
  <2> QED
    BY <2>1, <2>3, Zenon DEF Member
<1> HIDE DEF member
<1>2. [k \in DOMAIN es |-> member(k)] \in Seq(Member)
  BY <1>1
<1>3. [kind |-> "archive", members |-> [k \in DOMAIN es |-> member(k)]] \in Part
  BY <1>2 DEF Part
<1> QED
  BY <1>3 DEF Archive, member

\* Cutting off what was there before an archive and the start behind it.
LEMMA CutOut ==
  ASSUME NEW S, NEW exe \in Seq(S), NEW zip \in Seq(S), NEW last \in S
  PROVE  LET c == exe \o zip \o << last >>
         IN  /\ c[Len(c)] = last
             /\ SubSeq(c, Len(exe) + 1, Len(c) - 1) = zip
<1> DEFINE c == exe \o zip \o << last >>
<1>1. /\ c \in Seq(S) /\ Len(c) = Len(exe) + Len(zip) + 1
      /\ \A i \in 1..Len(c) : c[i] = IF i <= Len(exe) THEN exe[i]
                              ELSE IF i <= Len(exe) + Len(zip) THEN zip[i - Len(exe)]
                              ELSE last
  OBVIOUS
<1>2. c[Len(c)] = last
  BY <1>1
<1> HIDE DEF c
<1> DEFINE d == SubSeq(c, Len(exe) + 1, Len(c) - 1)
<1>3. d \in Seq(S) /\ Len(d) = Len(zip)
  BY <1>1
<1>4. ASSUME NEW i \in 1..Len(zip)
      PROVE  d[i] = zip[i]
  <2>1. d[i] = c[Len(exe) + i]
    BY <1>1, <1>3, SubSeqProperties
  <2>2. /\ Len(exe) + i \in 1..Len(c)
        /\ ~(Len(exe) + i <= Len(exe)) /\ Len(exe) + i <= Len(exe) + Len(zip)
        /\ Len(exe) + i - Len(exe) = i
    BY <1>1
  <2> QED
    BY <1>1, <2>1, <2>2
<1>5. d = zip
  <2> HIDE DEF d
  <2> QED
    BY <1>3, <1>4, SeqEqual
<1> QED
  BY <1>2, <1>5 DEF c

-----------------------------------------------------------------------------
(* One lemma per action. *)

LEMMA DefaultsType == Defaults \in Options
<1>1. "" \in Arg
  BY ArgAssumption, Zenon
<1>2. << >> \in Seq(Arg)
  OBVIOUS
<1> DEFINE empty == ""
<1>3. Defaults = [limit |-> 256, level |-> COMPRESSION_LEVEL_DEFAULT, in |-> empty,
                  out |-> empty, function |-> "UNDEFINED", files |-> << >>]
  BY Zenon DEF Defaults
<1> HIDE DEF empty
<1>4. empty \in Arg
  BY <1>1 DEF empty
<1> QED
  BY <1>2, <1>3, <1>4 DEF Options, Function, CompressionLevel,
              COMPRESSION_LEVEL_DEFAULT, COMPRESSION_LEVEL_MAXIMUM

LEMMA InitKeeps ==
  ASSUME Init
  PROVE  IInv
<1> USE DEF Init
<1>1. TypeOK
  <2>1. session \in Seq([tool : Tool, args : Seq(Arg)])
    BY SessionsAssumption
  <2>2. file \in [Arg -> Content]
    BY FilesAssumption
  <2>3. tool \in Tool /\ argv \in Seq(Arg) /\ Len(argv) = 0 /\ next = 1
    BY DEF Tool
  <2>4. failed \in BOOLEAN /\ << >> \in Seq(Nat) /\ << >> \in Seq(FileEntry)
    <3>1. failed \in BOOLEAN
      OBVIOUS
    <3> QED
      BY <3>1
  <2>5. status \in Status
    BY DEF Status
  <2> QED
    BY <2>1, <2>2, <2>3, <2>4, <2>5, DefaultsType DEF TypeOK
<1>2. Commands
  BY SessionsAssumption DEF Commands
<1>3. Control /\ LimitGiven /\ Untouched
  BY DEF Control, LimitGiven, Untouched, Defaults
<1>5. EntriesSet
  BY DEF EntriesSet, Listed
<1>4. OutputKept /\ EmbeddedReadsBack
  BY DEF OutputKept, EmbeddedReadsBack
<1> QED
  BY <1>1, <1>2, <1>3, <1>4, <1>5 DEF IInv

LEMMA RunKeeps ==
  ASSUME IInv, Run
  PROVE  IInv'
<1> USE DEF IInv, Run
<1>1. /\ Head(session) \in [tool : Tool, args : Seq(Arg)]
      /\ Tail(session) \in Seq([tool : Tool, args : Seq(Arg)])
  BY HeadTailProperties, Zenon DEF TypeOK
<1>2. TypeOK'
  <2>1. tool' \in Tool /\ argv' \in Seq(Arg) /\ next' \in 1..Len(argv') + 1
    BY <1>1
  <2>2. failed' \in BOOLEAN /\ << >> \in Seq(Nat) /\ << >> \in Seq(FileEntry)
    <3>1. failed' \in BOOLEAN
      OBVIOUS
    <3> QED
      BY <3>1
  <2>3. status' \in Status
    BY DEF Status
  <2> QED
    BY <1>1, <2>1, <2>2, <2>3, DefaultsType DEF TypeOK
<1>3. Commands'
  <2>1. /\ session[1] = Head(session)
        /\ \A i \in DOMAIN Tail(session) :
             i + 1 \in DOMAIN session /\ Tail(session)[i] = session[i + 1]
    BY DEF TypeOK
  <2>2. 1 \in DOMAIN session
    BY DEF TypeOK
  <2> QED
    BY <2>1, <2>2 DEF Commands
<1>4. Control' /\ LimitGiven' /\ Untouched'
  BY DEF Control, LimitGiven, Untouched, Defaults
<1>6. EntriesSet'
  BY DEF EntriesSet, Listed
<1>5. OutputKept' /\ EmbeddedReadsBack'
  BY DEF OutputKept, EmbeddedReadsBack
<1> QED
  BY <1>2, <1>3, <1>4, <1>5, <1>6

LEMMA ChangeKeeps ==
  ASSUME IInv, Change
  PROVE  IInv'
<1> USE DEF IInv, Change
<1>1. TypeOK'
  BY DEF TypeOK
<1>2. Commands' /\ Control' /\ LimitGiven' /\ Untouched'
  BY DEF Commands, Control, More, LimitGiven, Untouched
<1>3. EntriesSet'
  BY DEF EntriesSet, Listed, Large, Limit
<1>4. OutputKept' /\ EmbeddedReadsBack'
  BY DEF OutputKept, More, EmbeddedReadsBack, Opens, Embedded
<1> QED
  BY <1>1, <1>2, <1>3, <1>4

LEMMA ParsingKeeps ==
  ASSUME IInv, NEW t \in {"zipdir", "zipios"}, Parsing(t),
         opt' \in Options, LimitGiven', next' \in 1..Len(argv) + 1,
         \/ pc' = "arguments" /\ status' = status
         \/ pc' = "shell" /\ status' \in {"success", "error"}
         \/ pc' = "collect" /\ status' = status /\ t = "zipdir" /\ ~More'
         \/ pc' = "count" /\ status' = status /\ t = "zipios"
  PROVE  IInv'
<1> USE DEF IInv, Parsing
<1>1. TypeOK'
  BY DEF TypeOK, Status
<1>2. Commands' /\ Control' /\ Untouched'
  BY DEF Commands, Control, Untouched
<1>3. EntriesSet'
  BY DEF EntriesSet, Listed
<1>4. OutputKept'
  BY DEF OutputKept, Untouched
<1>5. EmbeddedReadsBack'
  BY DEF EmbeddedReadsBack
<1> QED
  BY <1>1, <1>2, <1>3, <1>4, <1>5

\* The limit stays one that was given.
LEMMA ZipdirArgumentsKeep ==
  ASSUME IInv, ZipdirArguments
  PROVE  IInv'
<1> USE DEF IInv
<1>1. /\ opt \in Options /\ argv \in Seq(Arg) /\ next \in 1..Len(argv) + 1
      /\ Parsing("zipdir") /\ argv' = argv
  BY DEF TypeOK, ZipdirArguments, Parsing
<1>2. More => next \in 1..Len(argv) /\ Argument \in Arg
  BY <1>1 DEF More, Argument
<1>3. next < Len(argv) => next + 2 \in 1..Len(argv) + 1 /\ Value \in Arg
  BY <1>1 DEF Value
<1>4. CASE Information(Help, Version)
  BY <1>1, <1>4, ParsingKeeps DEF Information, Exit, LimitGiven
<1>5. CASE ZipdirLevel
  <2>1. next < Len(argv) /\ LevelAccepted(Value) => LevelGiven(Value) \in CompressionLevel
    <3> DEFINE v == Value
    <3> USE DEF COMPRESSION_LEVEL_DEFAULT, COMPRESSION_LEVEL_SMALLEST,
                COMPRESSION_LEVEL_FASTEST, COMPRESSION_LEVEL_NONE,
                COMPRESSION_LEVEL_MINIMUM, COMPRESSION_LEVEL_MAXIMUM, CompressionLevel
    <3>1. \A a \in DOMAIN LevelNamed : LevelNamed[a] \in CompressionLevel
      BY DEF LevelNamed
    <3>2. v \in DOMAIN LevelNamed => LevelGiven(v) \in CompressionLevel
      BY <3>1 DEF LevelGiven
    <3>3. v \notin DOMAIN LevelNamed /\ LevelAccepted(v) => LevelGiven(v) \in CompressionLevel
      <4> HIDE DEF v
      <4> QED
        BY DEF LevelGiven, LevelAccepted
    <3> QED
      BY <3>2, <3>3
  <2>2. CASE next < Len(argv) /\ LevelAccepted(Value)
    <3>1. /\ opt' = [opt EXCEPT !.level = LevelGiven(Value)] /\ next' = next + 2
          /\ pc' = "arguments" /\ status' = status
      BY <1>5, <2>2 DEF ZipdirLevel, Setting, Goto
    <3>2. opt' \in Options /\ opt'.limit = opt.limit
      BY <1>1, <2>1, <2>2, <3>1 DEF Options
    <3> QED
      BY <1>1, <1>3, <2>2, <3>1, <3>2, ParsingKeeps DEF LimitGiven
  <2>3. CASE ~(next < Len(argv) /\ LevelAccepted(Value))
    <3>1. opt' = opt /\ next' = next /\ pc' = "shell" /\ status' = "error"
      BY <1>5, <2>3 DEF ZipdirLevel, Setting, Exit
    <3> QED
      BY <1>1, <3>1, ParsingKeeps DEF LimitGiven
  <2> QED
    BY <2>2, <2>3
<1>6. CASE ZipdirLimit
  <2>1. CASE next < Len(argv)
    <3> DEFINE l == IF Value = "default" THEN 256 ELSE Atoi[Value]
    <3>1. /\ opt' = [opt EXCEPT !.limit = l] /\ next' = next + 2
          /\ pc' = "arguments" /\ status' = status
      BY <1>6, <2>1 DEF ZipdirLimit, Setting, Goto
    <3>2. l \in Int /\ (l = 256 \/ \E a \in Arg : l = Atoi[a])
      <4>1. \A a \in Arg : Atoi[a] \in Int
        BY ArgAssumption
      <4> QED
        BY <1>3, <2>1, <4>1
    <3> HIDE DEF l
    <3>3. opt' \in Options /\ opt'.limit = l
      BY <1>1, <3>1, <3>2 DEF Options
    <3> QED
      BY <1>1, <1>3, <2>1, <3>1, <3>2, <3>3, ParsingKeeps DEF LimitGiven
  <2>2. CASE ~(next < Len(argv))
    <3>1. opt' = opt /\ next' = next /\ pc' = "shell" /\ status' = "error"
      BY <1>6, <2>2 DEF ZipdirLimit, Setting, Exit
    <3> QED
      BY <1>1, <3>1, ParsingKeeps DEF LimitGiven
  <2> QED
    BY <2>1, <2>2
<1>7. CASE ZipdirName
  <2>1. CASE opt.out # "" /\ opt.in # ""
    BY <1>1, <1>7, <2>1, ParsingKeeps DEF ZipdirName, Exit, LimitGiven
  <2>2. CASE ~(opt.out # "" /\ opt.in # "")
    <3>1. /\ opt' = IF opt.out = "" THEN [opt EXCEPT !.out = Argument]
                                    ELSE [opt EXCEPT !.in = Argument]
          /\ More /\ next' = next + 1 /\ pc' = "arguments" /\ status' = status
      BY <1>7, <2>2, Zenon DEF ZipdirName, Goto
    <3>2. opt' \in Options /\ opt'.limit = opt.limit
      <4>1. CASE opt.out = ""
        <5>1. opt' = [opt EXCEPT !.out = Argument]
          BY <3>1, <4>1
        <5> QED
          BY <1>1, <1>2, <3>1, <5>1 DEF Options
      <4>2. CASE opt.out # ""
        <5>1. opt' = [opt EXCEPT !.in = Argument]
          BY <3>1, <4>2
        <5> QED
          BY <1>1, <1>2, <3>1, <5>1 DEF Options
      <4> QED
        BY <4>1, <4>2
    <3>3. next' \in 1..Len(argv) + 1 /\ pc' = "arguments" /\ status' = status
      <4>1. More /\ next' = next + 1 /\ pc' = "arguments" /\ status' = status
        BY <3>1, Zenon
      <4> QED
        BY <1>1, <1>2, <4>1
    <3>4. LimitGiven'
      BY <3>2 DEF LimitGiven
    <3> QED
      BY <1>1, <3>2, <3>3, <3>4, ParsingKeeps
  <2> QED
    BY <2>1, <2>2
<1>8. CASE ZipdirEnd
  <2>1. CASE opt.out = ""
    BY <1>1, <1>8, <2>1, ParsingKeeps DEF ZipdirEnd, Exit, LimitGiven
  <2>2. CASE opt.out # ""
    <3>1. /\ opt' = [opt EXCEPT !.in = IF @ = "" THEN opt.out ELSE @]
          /\ ~More /\ next' = next /\ pc' = "collect" /\ status' = status
      BY <1>8, <2>2 DEF ZipdirEnd, Goto
    <3>2. opt' \in Options /\ opt'.limit = opt.limit
      BY <1>1, <3>1 DEF Options
    <3>3. ~More'
      BY <1>1, <3>1 DEF More
    <3> QED
      BY <1>1, <3>1, <3>2, <3>3, ParsingKeeps DEF LimitGiven
  <2> QED
    BY <2>1, <2>2
<1> QED
  BY <1>4, <1>5, <1>6, <1>7, <1>8 DEF ZipdirArguments

LEMMA ZipiosArgumentsKeep ==
  ASSUME IInv, ZipiosArguments
  PROVE  IInv'
<1> USE DEF IInv
<1>1. /\ opt \in Options /\ argv \in Seq(Arg) /\ next \in 1..Len(argv) + 1
      /\ Parsing("zipios") /\ argv' = argv
  BY DEF TypeOK, ZipiosArguments, Parsing
<1>2. More => next + 1 \in 1..Len(argv) + 1 /\ Argument \in Arg
  BY <1>1 DEF More, Argument
<1>3. ASSUME NEW as, NEW o \in Options, Option(as, o), o.limit = opt.limit
      PROVE  IInv'
  BY <1>1, <1>2, <1>3, ParsingKeeps DEF Option, Goto, LimitGiven
<1>4. CASE Information({"--help"}, {"--version", "--libzipios-version"})
  BY <1>1, <1>4, ParsingKeeps DEF Information, Exit, LimitGiven
<1>5. CASE Option(DOMAIN FunctionNamed,
                  [opt EXCEPT !.function = IF Argument \in DOMAIN FunctionNamed
                                           THEN FunctionNamed[Argument] ELSE @])
  <2> DEFINE f == IF Argument \in DOMAIN FunctionNamed
                  THEN FunctionNamed[Argument] ELSE opt.function
  <2>1. f \in Function
    BY <1>1 DEF FunctionNamed, Function, Options
  <2>2. Option(DOMAIN FunctionNamed, [opt EXCEPT !.function = f])
    BY <1>5
  <2> HIDE DEF f
  <2>3. /\ [opt EXCEPT !.function = f] \in Options
        /\ [opt EXCEPT !.function = f].limit = opt.limit
    BY <1>1, <2>1 DEF Options
  <2> QED
    BY <1>3, <2>2, <2>3
<1>6. CASE Option(Dashed \ ({"--help", "--version", "--libzipios-version"}
                                \cup DOMAIN FunctionNamed), opt)
  BY <1>1, <1>3, <1>6
<1>7. CASE Option(Arg \ Dashed, [opt EXCEPT !.files = Append(@, Argument)])
  <2>1. More
    BY <1>7 DEF Option
  <2> DEFINE fs == Append(opt.files, Argument)
  <2>3. fs \in Seq(Arg)
    BY <1>1, <1>2, <2>1 DEF Options
  <2>4. Option(Arg \ Dashed, [opt EXCEPT !.files = fs])
    BY <1>7
  <2> HIDE DEF fs
  <2>2. /\ [opt EXCEPT !.files = fs] \in Options
        /\ [opt EXCEPT !.files = fs].limit = opt.limit
    BY <1>1, <2>3 DEF Options
  <2> QED
    BY <1>3, <2>2, <2>4
<1>8. CASE /\ ~More
           /\ IF opt.function = "UNDEFINED" THEN Exit("error") ELSE Goto("count")
           /\ UNCHANGED << next, opt >>
  BY <1>1, <1>8, ParsingKeeps DEF Exit, Goto, LimitGiven
<1> QED
  BY <1>4, <1>5, <1>6, <1>7, <1>8 DEF ZipiosArguments

LEMMA CollectKeeps ==
  ASSUME IInv, Collect \/ Invalid
  PROVE  IInv'
<1> USE DEF IInv
<1>1. /\ UNCHANGED << session, tool, argv, next, opt, tree, before, printed, failed, entries, file >>
      /\ pc \in {"collect", "invalid"}
      /\ \/ pc' \in {"invalid", "methods"} /\ status' = status
         \/ pc' = "shell" /\ status' = "terminated"
  BY DEF Collect, Invalid, Zipping, Goto, Exit
<1>2. TypeOK'
  BY <1>1 DEF TypeOK, Status
<1>3. Commands' /\ Control' /\ LimitGiven' /\ Untouched'
  BY <1>1 DEF Commands, Control, More, LimitGiven, Untouched
<1>4. EntriesSet'
  BY <1>1 DEF EntriesSet, Listed
<1>5. OutputKept' /\ EmbeddedReadsBack'
  BY <1>1 DEF OutputKept, EmbeddedReadsBack, Control, Untouched
<1> QED
  BY <1>2, <1>3, <1>4, <1>5

\* What setMethod() is given.
LEMMA FoundType ==
  ASSUME TypeOK, NEW es \in Found
  PROVE  /\ es \in Seq(FileEntry) /\ es # << >> /\ Listed(es)
         /\ file[opt.in] # Absent => Len(es) = 1 /\ es[1].name = opt.in
<1>1. CASE InputIsFile
  <2>1. PICK size \in Sizes : es = << NewEntry(opt.in, "listing", TRUE, FALSE, size) >>
    BY <1>1 DEF Found
  <2> DEFINE e == NewEntry(opt.in, "listing", TRUE, FALSE, size)
  <2>2. size \in Nat /\ \A a \in Arg : Atoi[a] < 0 => size <= SizeMod + Atoi[a]
    BY ListingsAssumption
  <2>3. opt.in \in Arg
    BY DEF TypeOK, Options
  <2>4. /\ e \in FileEntry /\ e.directory = FALSE /\ e.size = size /\ e.name = opt.in
    BY <2>2, <2>3 DEF NewEntry, FileEntry, StorageMethod, CompressionLevel,
                      COMPRESSION_LEVEL_DEFAULT, COMPRESSION_LEVEL_MAXIMUM
  <2> HIDE DEF e
  <2>5. es = << e >>
    BY <2>1 DEF e
  <2>6. /\ es \in Seq(FileEntry) /\ Len(es) = 1 /\ es # << >> /\ es[1] = e
        /\ DOMAIN es = {1}
    BY <2>4, <2>5
  <2> QED
    BY <2>2, <2>4, <2>6 DEF Listed
<1>2. CASE ~InputIsFile
  <2>1. es = tree.listing /\ tree.state = "listable"
    BY <1>2 DEF Found
  <2>2. es \in Listings
    BY <2>1 DEF TypeOK, Tree
  <2> QED
    BY <1>2, <2>2, ListingsAssumption DEF Listed, InputIsFile
<1> QED
  BY <1>1, <1>2

LEMMA SetZipMethodsKeeps ==
  ASSUME IInv, SetZipMethods
  PROVE  IInv'
<1> USE DEF IInv
<1>1. /\ UNCHANGED << session, tool, argv, next, opt, tree, before, printed, failed, file >>
      /\ pc = "methods" /\ tool = "zipdir" /\ file = before
  BY DEF SetZipMethods, Zipping, Control, Untouched
<1>2. CASE entries' = << >> /\ pc' = "shell" /\ status' = "terminated"
  <2>1. TypeOK'
    BY <1>1, <1>2 DEF TypeOK, Status
  <2>2. Commands' /\ Control' /\ LimitGiven' /\ Untouched'
    BY <1>1, <1>2 DEF Commands, Control, More, LimitGiven, Untouched
  <2>3. EntriesSet'
    BY <1>2 DEF EntriesSet, Listed
  <2>4. OutputKept' /\ EmbeddedReadsBack'
    BY <1>1 DEF OutputKept, EmbeddedReadsBack
  <2> QED
    BY <2>1, <2>2, <2>3, <2>4
<1> DEFINE large == IF opt.level = COMPRESSION_LEVEL_NONE THEN "STORED" ELSE "DEFLATED"
           Set(es) == SetMethods(es, Limit, "STORED", large)
<1>3. ASSUME NEW es \in Found,
             /\ entries' = Set(es).entries
             /\ IF Set(es).thrown = "none" THEN Goto("levels") ELSE Exit("terminated")
      PROVE  IInv'
  <2> DEFINE set == Set(es)
             E(e) == WithMethod(e, Chosen(e, Limit, "STORED", large))
  <2>2. /\ es \in Seq(FileEntry) /\ es # << >> /\ Listed(es)
        /\ file[opt.in] # Absent => Len(es) = 1 /\ es[1].name = opt.in
    BY FoundType
  <2>3. Limit \in Nat
    BY <2>2, LimitOfSizeT
  <2>4. set.thrown = "none" /\ set.entries = [i \in 1..Len(es) |-> E(es[i])]
    <3>1. "STORED" \in SupportedMethod /\ large \in SupportedMethod
      BY DEF SupportedMethod
    <3> HIDE DEF large
    <3> QED
      BY <2>2, <2>3, <3>1, MethodsAreSet
  <2>5. ASSUME NEW e \in FileEntry
        PROVE  /\ E(e) \in FileEntry
               /\ E(e).size = e.size /\ E(e).directory = e.directory /\ E(e).name = e.name
               /\ E(e).method = IF Large(E(e)) /\ opt.level # COMPRESSION_LEVEL_NONE
                               THEN "DEFLATED" ELSE "STORED"
    BY <2>3 DEF FileEntry, WithMethod, Chosen, Large, StorageMethod
  <2>6. /\ Len(es) \in Nat /\ Len(es) > 0
        /\ DOMAIN es = 1..Len(es) /\ \A i \in 1..Len(es) : es[i] \in FileEntry
    BY <2>2
  <2>7. entries' = set.entries /\ pc' = "levels" /\ status' = status
    BY <1>3, <2>4 DEF Goto
  <2> HIDE DEF Set, set, E
  <2>8. DOMAIN entries' = 1..Len(es) /\ \A i \in 1..Len(es) : entries'[i] = E(es[i])
    BY <2>4, <2>7
  <2>9. entries' \in Seq(FileEntry) /\ Len(entries') = Len(es)
    BY <2>4, <2>5, <2>6, <2>7
  <2>10. entries' # << >>
    BY <2>6, <2>9
  <2>11. Listed(entries')
    BY <2>2, <2>5, <2>6, <2>8 DEF Listed
  <2>12. \A k \in DOMAIN entries' :
           entries'[k].method =
              IF Large(entries'[k]) /\ opt.level # COMPRESSION_LEVEL_NONE
              THEN "DEFLATED" ELSE "STORED"
    BY <2>5, <2>6, <2>8
  <2>13. before[opt.in] # Absent => Len(entries') = 1 /\ entries'[1].name = opt.in
    BY <1>1, <2>2, <2>5, <2>6, <2>8, <2>9
  <2>14. TypeOK'
    BY <1>1, <2>7, <2>9 DEF TypeOK
  <2>15. Commands' /\ Control' /\ LimitGiven' /\ Untouched'
    BY <1>1, <2>7 DEF Commands, Control, More, LimitGiven, Untouched
  <2>16. EntriesSet'
    <3>1. \A e : Large(e)' = Large(e)
      BY <1>1 DEF Large, Limit
    <3>2. Listed(entries)'
      BY <2>11 DEF Listed
    <3> QED
      BY <1>1, <2>7, <2>10, <2>12, <2>13, <3>1, <3>2 DEF EntriesSet
  <2>17. OutputKept' /\ EmbeddedReadsBack'
    BY <1>1 DEF OutputKept, EmbeddedReadsBack
  <2> QED
    BY <2>14, <2>15, <2>16, <2>17
<1> QED
  BY <1>2, <1>3 DEF SetZipMethods, Exit

LEMMA SetZipLevelsKeeps ==
  ASSUME IInv, SetZipLevels
  PROVE  IInv'
<1> USE DEF IInv
<1>1. /\ UNCHANGED << session, tool, argv, next, opt, tree, before, printed, failed, file >>
      /\ pc = "levels" /\ tool = "zipdir" /\ file = before /\ opt.level \in CompressionLevel
  BY DEF SetZipLevels, Zipping, Control, Untouched, TypeOK, Options
<1> DEFINE set == SetLevels(entries, Limit, COMPRESSION_LEVEL_NONE, opt.level)
           E(e) == WithLevel(e, Chosen(e, Limit, COMPRESSION_LEVEL_NONE, opt.level))
<1>2. entries \in Seq(FileEntry) /\ Listed(entries)
  BY DEF TypeOK, EntriesSet
<1>3. Limit \in Nat
  BY <1>2, LimitOfSizeT
<1>4. set.thrown = "none" /\ set.entries = [i \in 1..Len(entries) |-> E(entries[i])]
  BY <1>1, <1>2, <1>3, LevelsAreSet
<1>5. entries' = set.entries /\ pc' = "open" /\ status' = status
  BY <1>4 DEF SetZipLevels, Goto
<1>6. ASSUME NEW e \in FileEntry, e.directory => e.size = 0
      PROVE  /\ E(e) \in FileEntry
             /\ E(e).size = e.size /\ E(e).directory = e.directory /\ E(e).name = e.name
             /\ E(e).method = e.method
             /\ Large(E(e)) = Large(e)
             /\ E(e).level = IF Large(e) THEN opt.level ELSE COMPRESSION_LEVEL_NONE
  BY <1>1, <1>3, <1>6
     DEF FileEntry, WithLevel, Chosen, Large, CompressionLevel,
         COMPRESSION_LEVEL_NONE, COMPRESSION_LEVEL_DEFAULT, COMPRESSION_LEVEL_MAXIMUM
<1>7. DOMAIN entries' = 1..Len(entries) /\ \A i \in 1..Len(entries) : entries'[i] = E(entries[i])
  BY <1>4, <1>5
<1>8. /\ Len(entries) \in Nat /\ DOMAIN entries = 1..Len(entries)
      /\ \A i \in 1..Len(entries) :
            entries[i] \in FileEntry /\ (entries[i].directory => entries[i].size = 0)
  BY <1>2 DEF Listed
<1>9. entries' = [i \in 1..Len(entries) |-> E(entries[i])]
  BY <1>4, <1>5
<1> HIDE DEF set, E
<1>10. entries' \in Seq(FileEntry) /\ Len(entries') = Len(entries)
  BY <1>6, <1>8, <1>9
<1>11. TypeOK'
  BY <1>1, <1>5, <1>10 DEF TypeOK
<1>12. Commands' /\ Control' /\ LimitGiven' /\ Untouched'
  BY <1>1, <1>5 DEF Commands, Control, More, LimitGiven, Untouched
<1>13. EntriesSet'
  <2>1. \A e : Large(e)' = Large(e)
    BY <1>1 DEF Large, Limit
  <2>2. Listed(entries)'
    BY <1>2, <1>6, <1>7, <1>8 DEF Listed
  <2>3. entries' # << >>
    BY <1>1, <1>8, <1>10 DEF EntriesSet
  <2>4. \A k \in DOMAIN entries' :
          /\ entries'[k].method =
                 IF Large(entries'[k]) /\ opt.level # COMPRESSION_LEVEL_NONE
                 THEN "DEFLATED" ELSE "STORED"
          /\ entries'[k].level =
                 IF Large(entries'[k]) THEN opt.level ELSE COMPRESSION_LEVEL_NONE
    BY <1>1, <1>6, <1>7, <1>8 DEF EntriesSet
  <2>5. before[opt.in] # Absent => Len(entries') = 1 /\ entries'[1].name = opt.in
    BY <1>1, <1>6, <1>7, <1>8, <1>10 DEF EntriesSet
  <2> QED
    BY <1>1, <1>5, <2>1, <2>2, <2>3, <2>4, <2>5 DEF EntriesSet
<1>14. OutputKept' /\ EmbeddedReadsBack'
  BY <1>1, <1>5 DEF OutputKept, EmbeddedReadsBack
<1> QED
  BY <1>11, <1>12, <1>13, <1>14

\* Only the output file is written.
LEMMA WritingKeeps ==
  ASSUME IInv, tool = "zipdir", ~More, pc \in {"open", "closed", "save"},
         UNCHANGED << session, tool, argv, next, opt, tree, before, printed, failed, entries >>,
         file' \in [Arg -> Content], \A a \in Arg \ {ZipName[opt.out]} : file'[a] = file[a],
         \/ pc = "open" /\ pc' = "save" /\ status' = status
         \/ pc = "open" /\ pc' = "closed" /\ status' = status /\ file' = file
         \/ pc = "closed" /\ pc' = "shell" /\ status' = "terminated" /\ file' = file
         \/ pc = "save" /\ pc' = "shell" /\ status' \in {"success", "terminated"}
  PROVE  IInv'
<1> USE DEF IInv
<1>1. TypeOK'
  BY DEF TypeOK, Status
<1>2. Commands' /\ Control' /\ LimitGiven' /\ Untouched'
  BY DEF Commands, Control, More, LimitGiven, Untouched
<1>3. EntriesSet'
  BY DEF EntriesSet, Listed, Large, Limit
<1>4. OutputKept'
  <2>1. status = "running" /\ entries # << >>
    BY DEF Control, EntriesSet, OutputKept
  <2>2. ASSUME NEW a \in Arg, file'[a] # before[a]
        PROVE  a = ZipName[opt.out]
    <3>1. pc \in {"open", "closed"} => file = before
      BY DEF Untouched
    <3> QED
      BY <2>2, <3>1 DEF OutputKept
  <2>3. pc = "closed" => file = before
    BY DEF Untouched
  <2>4. ~More'
    BY DEF More
  <2>5. before[opt.in] # Absent => Len(entries) = 1 /\ entries[1].name = opt.in
    BY DEF EntriesSet
  <2> QED
    BY <2>1, <2>2, <2>3, <2>4, <2>5 DEF OutputKept, Untouched
<1>5. EmbeddedReadsBack'
  BY DEF EmbeddedReadsBack
<1> QED
  BY <1>1, <1>2, <1>3, <1>4, <1>5

LEMMA OutputKeeps ==
  ASSUME IInv, OpenOutput \/ Save \/ SaveToClosed
  PROVE  IInv'
<1> USE DEF IInv
<1> DEFINE out == ZipName[opt.out]
<1>1. /\ file \in [Arg -> Content] /\ entries \in Seq(FileEntry)
  BY DEF TypeOK
<1>2. << >> \in Content /\ \A p \in Part : << p >> \in Content
  BY DEF Content
<1>3. ASSUME NEW c \in Content, file' = [file EXCEPT ![out] = c]
      PROVE  /\ file' \in [Arg -> Content]
             /\ \A a \in Arg \ {out} : file'[a] = file[a]
  BY <1>1, <1>3
<1>4. CASE OpenOutput
  <2>1. /\ tool = "zipdir" /\ ~More /\ pc = "open"
        /\ UNCHANGED << session, tool, argv, next, opt, tree, before, printed, failed, entries >>
        /\ \/ file' = [file EXCEPT ![out] = << >>] /\ pc' = "save" /\ status' = status
           \/ file' = file /\ pc' = "closed" /\ status' = status
    BY <1>4 DEF OpenOutput, Zipping, Goto, Control
  <2> QED
    BY <1>1, <1>2, <1>3, <2>1, WritingKeeps
<1>5. CASE Save
  <2>1. /\ tool = "zipdir" /\ ~More /\ pc = "save"
        /\ UNCHANGED << session, tool, argv, next, opt, tree, before, printed, failed, entries >>
    BY <1>5 DEF Save, Zipping, Control
  <2>2. PICK left \in Part : /\ file' = [file EXCEPT ![out] = << left >>]
                             /\ pc' = "shell" /\ status' \in {"success", "terminated"}
    <3>1. CASE /\ file' = [file EXCEPT ![out] = << Archive(entries) >>]
               /\ Exit("success")
      BY <1>1, <3>1, ArchiveType DEF Exit
    <3>2. CASE /\ \E n \in 0..Len(entries) :
                    \E left \in {[kind |-> "text"], Archive(SubSeq(entries, 1, n))} :
                        file' = [file EXCEPT ![out] = << left >>]
               /\ Exit("terminated")
      <4>1. PICK n \in 0..Len(entries) :
              \E left \in {[kind |-> "text"], Archive(SubSeq(entries, 1, n))} :
                  file' = [file EXCEPT ![out] = << left >>]
        BY <3>2
      <4>2. SubSeq(entries, 1, n) \in Seq(FileEntry)
        BY <1>1
      <4>3. Archive(SubSeq(entries, 1, n)) \in Part /\ [kind |-> "text"] \in Part
        BY <4>2, ArchiveType DEF Part
      <4> QED
        BY <3>2, <4>1, <4>3 DEF Exit
    <3> QED
      BY <1>5, <3>1, <3>2 DEF Save
  <2>3. << left >> \in Content
    BY <1>2
  <2> QED
    BY <1>3, <2>1, <2>2, <2>3, WritingKeeps
<1>6. CASE SaveToClosed
  <2>1. /\ tool = "zipdir" /\ ~More /\ pc = "closed" /\ pc' = "shell" /\ status' = "terminated"
        /\ UNCHANGED << session, tool, argv, next, opt, tree, before, printed, failed, entries, file >>
    BY <1>6 DEF SaveToClosed, Zipping, Exit, Control
  <2> QED
    BY <1>1, <2>1, WritingKeeps
<1> QED
  BY <1>4, <1>5, <1>6

\* What ZipFile opens starts with an archive.
LEMMA OpenedMembers ==
  ASSUME TypeOK, NEW a \in Arg, Opens(a)
  PROVE  file[a][1].members \in Seq(Member)
<1>1. file[a] \in Content
  BY DEF TypeOK
<1>2. 1 \in DOMAIN file[a] /\ file[a][1].kind = "archive"
  BY DEF Opens, OpensAs
<1>3. file[a][1] \in Part
  BY <1>1, <1>2 DEF Content, Absent
<1> QED
  BY <1>2, <1>3 DEF Part

LEMMA SmallestOfNat ==
  ASSUME NEW S, S \subseteq Nat, S # {}
  PROVE  \E k \in S : \A j \in S : k <= j
<1>1. IsWellFoundedOn(OpToRel(<, Nat), Nat)
  BY NatLessThanWellFounded
<1>2. \E k \in S : \A j \in S : ~(<< j, k >> \in OpToRel(<, Nat))
  BY <1>1, WFMin
<1>3. \A j, k \in Nat : j < k => << j, k >> \in OpToRel(<, Nat)
  BY DEF OpToRel
<1>4. \A j, k \in Nat : ~(j < k) => k <= j
  OBVIOUS
<1> QED
  BY <1>2, <1>3, <1>4

\* The tools that only read.
LEMMA ReadingKeeps ==
  ASSUME IInv, CountFile \/ Example
  PROVE  IInv'
<1> USE DEF IInv
<1>1. /\ UNCHANGED << session, tool, argv, next, entries, tree, before, file, failed >>
      /\ tool \in {"zipios", "zipios_example"}
      /\ \/ pc' = "shell" /\ status' \in {"success", "error"}
         \/ pc' = "count" /\ status' = status /\ tool = "zipios" /\ status = "running"
  <2>1. CASE CountFile
    BY <2>1 DEF CountFile, Reading, Exit, Goto, Control
  <2>2. CASE Example
    BY <2>2 DEF Example, Reading, Exit
  <2> QED
    BY <2>1, <2>2
<1>2. printed' \in Seq(Nat) /\ opt' \in Options /\ opt'.limit = opt.limit
  <2>1. CASE CountFile
    <3>1. CASE opt' = opt /\ printed' = printed
      BY <3>1 DEF TypeOK
    <3>2. CASE ~(opt' = opt /\ printed' = printed)
      <4> DEFINE members == file[Head(opt.files)][1].members
      <4>1. /\ opt.files # << >> /\ Opens(Head(opt.files))
            /\ printed' = Append(printed, Cardinality(Counted(members)))
            /\ opt' = [opt EXCEPT !.files = Tail(@)]
        BY <2>1, <3>2 DEF CountFile
      <4>2. Head(opt.files) \in Arg /\ Tail(opt.files) \in Seq(Arg)
        BY <4>1 DEF TypeOK, Options
      <4>3. members \in Seq(Member)
        BY <4>1, <4>2, OpenedMembers
      <4>4. Cardinality(Counted(members)) \in Nat
        <5> HIDE DEF members
        <5>1. IsFiniteSet(DOMAIN members)
          BY <4>3, FS_Interval
        <5>2. Counted(members) \subseteq DOMAIN members
          BY DEF Counted
        <5> QED
          BY <5>1, <5>2, FS_Subset, FS_CardinalityType
      <4> HIDE DEF members
      <4>5. printed' \in Seq(Nat)
        BY <4>1, <4>4 DEF TypeOK
      <4> QED
        BY <4>1, <4>2, <4>5 DEF TypeOK, Options
    <3> QED
      BY <3>1, <3>2
  <2>2. CASE Example
    <3>1. opt' = opt
      BY <2>2 DEF Example
    <3>2. CASE printed' = printed \/ printed' = << >>
      <4>1. opt \in Options /\ printed \in Seq(Nat) /\ << >> \in Seq(Nat)
        BY DEF TypeOK
      <4> QED
        BY <3>1, <3>2, <4>1
    <3>3. CASE ~(printed' = printed \/ printed' = << >>)
      <4> DEFINE members == file[argv[1]][1].members
                 named == {k \in DOMAIN members : BaseName[members[k].name] = argv[2]}
      <4>1. /\ Len(argv) = 2 /\ Opens(argv[1]) /\ named # {}
            /\ printed' = << CHOOSE k \in named : \A j \in named : k <= j >>
        BY <2>2, <3>3 DEF Example
      <4>2. argv[1] \in Arg
        <5>1. argv \in Seq(Arg)
          BY DEF TypeOK
        <5> QED
          BY <4>1, <5>1
      <4>3. members \in Seq(Member)
        BY <4>1, <4>2, OpenedMembers
      <4> HIDE DEF members
      <4>4. named \subseteq Nat
        BY <4>3
      <4> HIDE DEF named
      <4>5. \E k \in named : \A j \in named : k <= j
        BY <4>1, <4>4, SmallestOfNat
      <4>6. (CHOOSE k \in named : \A j \in named : k <= j) \in Nat
        BY <4>4, <4>5
      <4> QED
        BY <3>1, <4>1, <4>6 DEF TypeOK
    <3> QED
      BY <3>2, <3>3
  <2> QED
    BY <2>1, <2>2
<1>3. TypeOK'
  BY <1>1, <1>2 DEF TypeOK, Status
<1>4. Commands' /\ Control' /\ LimitGiven' /\ Untouched'
  BY <1>1, <1>2 DEF Commands, Control, LimitGiven, Untouched
<1>5. EntriesSet'
  BY <1>1 DEF EntriesSet, Listed
<1>6. OutputKept' /\ EmbeddedReadsBack'
  BY <1>1 DEF OutputKept, EmbeddedReadsBack
<1> QED
  BY <1>3, <1>4, <1>5, <1>6

LEMMA AppendingKeeps ==
  ASSUME IInv, tool = "appendzip", pc' = "shell", status' \in {"success", "error"},
         UNCHANGED << session, tool, argv, next, opt, entries, tree, before, printed >>,
         file' \in [Arg -> Content], failed' \in BOOLEAN, EmbeddedReadsBack'
  PROVE  IInv'
<1> USE DEF IInv
<1>1. TypeOK'
  BY DEF TypeOK, Status
<1>2. Commands' /\ Control' /\ LimitGiven' /\ Untouched' /\ OutputKept'
  BY DEF Commands, Control, LimitGiven, Untouched, OutputKept
<1>3. EntriesSet'
  BY DEF EntriesSet, Listed, Control
<1> QED
  BY <1>1, <1>2, <1>3

LEMMA HeldType ==
  ASSUME NEW c \in Content
  PROVE  Held(c) \in Seq(Part)
BY DEF Held, Content

\* Whatever appendzip manages to write is a file.
LEMMA CopiedType ==
  ASSUME NEW exe \in Seq(Part), NEW zip \in Seq(Part)
  PROVE  /\ Copied(exe, zip) \in Seq(Part)
         /\ \A n \in 0..Len(zip), torn \in {<< >>, Torn}, last \in {<< >>, Start(exe, zip)} :
               exe \o SubSeq(zip, 1, n) \o torn \o last \in Seq(Part)
<1>1. Start(exe, zip) \in Seq(Part)
  <2> DEFINE part == [kind |-> "start", at |-> StartOf(exe, zip)]
  <2>1. part \in Part
    BY ListingsAssumption DEF Part, StartOf
  <2>2. Start(exe, zip) = << part >>
    BY DEF Start
  <2> HIDE DEF part
  <2> QED
    BY <2>1, <2>2
<1>2. Torn \in Seq(Part)
  <2>1. [kind |-> "text"] \in Part
    BY DEF Part
  <2> QED
    BY <2>1 DEF Torn
<1>3. Copied(exe, zip) \in Seq(Part)
  BY <1>1 DEF Copied
<1>4. ASSUME NEW n \in 0..Len(zip), NEW torn \in {<< >>, Torn},
             NEW last \in {<< >>, Start(exe, zip)}
      PROVE  exe \o SubSeq(zip, 1, n) \o torn \o last \in Seq(Part)
  <2>1. << >> \in Seq(Part) /\ SubSeq(zip, 1, n) \in Seq(Part)
    OBVIOUS
  <2>2. torn \in Seq(Part) /\ last \in Seq(Part)
    BY <1>1, <1>2, <2>1
  <2> QED
    BY <2>1, <2>2
<1> QED
  BY <1>3, <1>4, Zenon

LEMMA AppendZipKeeps ==
  ASSUME IInv, AppendZip
  PROVE  IInv'
<1> USE DEF IInv
<1>1. /\ UNCHANGED << session, tool, argv, next, opt, entries, tree, before, printed >>
      /\ tool = "appendzip" /\ pc' = "shell" /\ status' \in {"success", "error"}
      /\ file \in [Arg -> Content] /\ argv \in Seq(Arg) /\ failed \in BOOLEAN
      /\ file = before
  BY DEF AppendZip, Exit, TypeOK, Untouched
<1> DEFINE exe == Held(file[argv[1]])
           zip == file[argv[2]]
<1>2. CASE Exit("error") /\ UNCHANGED << file, failed >>
  BY <1>1, <1>2, AppendingKeeps DEF EmbeddedReadsBack, Exit
<1>3. ASSUME Len(argv) = 2
      PROVE  /\ argv[1] \in Arg /\ argv[2] \in Arg /\ argv[1] # argv[2]
             /\ exe \in Seq(Part) /\ zip \in Content
  <2>1. argv[1] \in Arg /\ argv[2] \in Arg
    <3>1. argv \in Seq(Arg) /\ 1 \in 1..2 /\ 2 \in 1..2
      BY DEF TypeOK
    <3> HIDE DEF IInv
    <3> QED
      BY <1>3, <3>1, ElementOfSeq
  <2>2. argv[1] # argv[2]
    BY <1>1, <1>3 DEF Commands
  <2> QED
    BY <1>1, <2>1, <2>2, HeldType
<1>4. CASE /\ Len(argv) = 2 /\ file' = [file EXCEPT ![argv[1]] = exe]
           /\ Exit("error") /\ UNCHANGED failed
  <2>1. file' \in [Arg -> Content]
    BY <1>1, <1>3, <1>4 DEF Content
  <2>2. EmbeddedReadsBack'
    BY <1>4 DEF EmbeddedReadsBack, Exit
  <2> QED
    BY <1>1, <1>4, <2>1, <2>2, AppendingKeeps
<1>5. ASSUME Len(argv) = 2, zip # Absent, NEW c,
             file' = [file EXCEPT ![argv[1]] = c],
             \/ c = Copied(exe, zip) /\ failed' = FALSE
             \/ c \in Seq(Part) /\ failed' = TRUE,
             Exit("success")
      PROVE  IInv'
  <2>1. exe \in Seq(Part) /\ zip \in Seq(Part)
    BY <1>3, <1>5 DEF Content
  <2>2. file' \in [Arg -> Content] /\ failed' \in BOOLEAN
    <3>1. c \in Content
      BY <1>5, <2>1, CopiedType DEF Content
    <3> HIDE DEF exe, zip
    <3>2. failed' \in BOOLEAN
      BY <1>5
    <3> QED
      BY <1>1, <1>5, <3>1, <3>2
  <2>3. EmbeddedReadsBack'
    <3> SUFFICES ASSUME Opens(argv[2])', ~failed', Len(Held(before[argv[1]])) < StartMod
                 PROVE  /\ OpensAs(Embedded(argv[1])')
                        /\ Embedded(argv[1])'[1] = file'[argv[2]][1]
      BY <1>1 DEF EmbeddedReadsBack, OpensAs
    <3>1. file'[argv[2]] = zip
      BY <1>1, <1>3, <1>5
    <3>2. OpensAs(zip)
      BY <1>1, <3>1 DEF Opens
    <3>3. zip # << >>
      BY <3>2 DEF OpensAs
    <3>4. StartOf(exe, zip) = Len(exe)
      <4>1. Len(exe) \in Nat /\ Len(exe) < StartMod /\ StartMod \in Nat
        BY <1>1, <2>1, ListingsAssumption
      <4> HIDE DEF exe, zip
      <4> QED
        BY <4>1 DEF StartOf
    <3> DEFINE part == [kind |-> "start", at |-> Len(exe)]
    <3>5. c = exe \o zip \o << part >>
      <4>1. c = Copied(exe, zip)
        BY <1>5
      <4> HIDE DEF exe, zip
      <4> QED
        BY <3>3, <3>4, <4>1 DEF Copied, Start
    <3>6. part \in Part
      <4> HIDE DEF exe
      <4> QED
        BY <2>1 DEF Part
    <3>7. c[Len(c)] = part /\ SubSeq(c, Len(exe) + 1, Len(c) - 1) = zip
      <4> HIDE DEF exe, zip, part
      <4> QED
        BY <2>1, <3>5, <3>6, CutOut
    <3>8. Embedded(argv[1])' = zip
      <4>1. file'[argv[1]] = c
        BY <1>1, <1>3, <1>5
      <4>2. Embedded(argv[1])' = SubSeq(c, c[Len(c)].at + 1, Len(c) - 1)
        BY <1>1, <4>1 DEF Embedded
      <4> QED
        BY <3>7, <4>2
    <3> QED
      BY <3>1, <3>2, <3>8
  <2> QED
    BY <1>1, <1>5, <2>2, <2>3, AppendingKeeps
<1>6. CASE /\ Len(argv) = 2 /\ zip # Absent
           /\ \/ /\ file' = [file EXCEPT ![argv[1]] = Copied(exe, zip)]
                 /\ failed' = FALSE
              \/ /\ \E n \in 0..Len(zip), torn \in {<< >>, Torn},
                      last \in {<< >>, Start(exe, zip)} :
                       file' = [file EXCEPT ![argv[1]] =
                                   exe \o SubSeq(zip, 1, n) \o torn \o last]
                 /\ failed' = TRUE
           /\ Exit("success")
  <2>1. exe \in Seq(Part) /\ zip \in Seq(Part)
    BY <1>3, <1>6 DEF Content
  <2> HIDE DEF exe, zip
  <2>2. CASE file' = [file EXCEPT ![argv[1]] = Copied(exe, zip)] /\ failed' = FALSE
    BY <1>5, <1>6, <2>2
  <2>3. CASE ~(file' = [file EXCEPT ![argv[1]] = Copied(exe, zip)] /\ failed' = FALSE)
    <3>1. PICK n \in 0..Len(zip), torn \in {<< >>, Torn}, last \in {<< >>, Start(exe, zip)} :
            file' = [file EXCEPT ![argv[1]] = exe \o SubSeq(zip, 1, n) \o torn \o last]
      BY <1>6, <2>3
    <3>2. exe \o SubSeq(zip, 1, n) \o torn \o last \in Seq(Part)
      BY <2>1, CopiedType
    <3>3. failed' = TRUE
      BY <1>6, <2>3
    <3> QED
      BY <1>5, <1>6, <3>1, <3>2, <3>3
  <2> QED
    BY <2>2, <2>3
<1> QED
  BY <1>2, <1>4, <1>6 DEF AppendZip

-----------------------------------------------------------------------------
(* Theorems. *)

LEMMA NextKeeps ==
  ASSUME IInv, [Next]_vars
  PROVE  IInv'
<1>1. CASE Run
  BY <1>1, RunKeeps
<1>2. CASE Change
  BY <1>2, ChangeKeeps
<1>3. CASE Zipdir
  BY <1>3, ZipdirArgumentsKeep, CollectKeeps, SetZipMethodsKeeps, SetZipLevelsKeeps,
     OutputKeeps DEF Zipdir
<1>4. CASE ZipiosArguments
  BY <1>4, ZipiosArgumentsKeep
<1>5. CASE CountFile \/ Example
  BY <1>5, ReadingKeeps
<1>6. CASE AppendZip
  BY <1>6, AppendZipKeeps
<1>7. CASE UNCHANGED vars
  <2> USE DEF vars, IInv
  <2>1. TypeOK'
    BY <1>7 DEF TypeOK
  <2>2. Commands' /\ Control' /\ LimitGiven' /\ Untouched'
    BY <1>7 DEF Commands, Control, More, LimitGiven, Untouched
  <2>3. EntriesSet'
    BY <1>7 DEF EntriesSet, Listed, Large, Limit
  <2>4. OutputKept'
    BY <1>7 DEF OutputKept, More
  <2>5. EmbeddedReadsBack'
    BY <1>7 DEF EmbeddedReadsBack, Opens, Embedded
  <2> QED
    BY <2>1, <2>2, <2>3, <2>4, <2>5
<1> QED
  BY <1>1, <1>2, <1>3, <1>4, <1>5, <1>6, <1>7 DEF Next, Done

LEMMA Invariance == Spec => []IInv
<1>1. Init => IInv
  BY InitKeeps
<1>2. IInv /\ [Next]_vars => IInv'
  BY NextKeeps
<1> QED
  BY <1>1, <1>2, PTL DEF Spec

\* The variables keep their types; in particular the level that zipdir's command
\* line gives is one setLevel() accepts.
THEOREM ToolsTypeOK == Spec => []TypeOK
<1>1. IInv => TypeOK
  BY DEF IInv
<1> QED
  BY <1>1, Invariance, PTL

\* zipdir writes its output only, and only after the arguments were accepted and
\* everything was listed: the whole directory, or the one file that was named in
\* its place, which may be the output itself.
THEOREM ZipdirKeepsOutput == Spec => []OutputKept
<1>1. IInv => OutputKept
  BY DEF IInv
<1> QED
  BY <1>1, Invariance, PTL

\* The entries are compressed exactly as the command line of zipdir says.
THEOREM ZipdirSavesAsAsked == Spec => []SavedAsAsked
<1>1. IInv => SavedAsAsked
  <2> SUFFICES ASSUME IInv, pc \in {"open", "closed", "save"}, NEW k \in DOMAIN entries
               PROVE  LET e == entries[k]
                      IN  /\ Deflated(e) <=> /\ ~e.directory
                                             /\ opt.level # COMPRESSION_LEVEL_NONE
                                             /\ opt.limit >= 0 /\ e.size > opt.limit
                          /\ Deflated(e) => e.level = opt.level
    BY DEF SavedAsAsked
  <2>1. entries[k].size > Limit <=> opt.limit >= 0 /\ entries[k].size > opt.limit
    BY LimitOfSizeT DEF IInv, EntriesSet, TypeOK
  <2>2. /\ entries[k].method =
              IF Large(entries[k]) /\ opt.level # COMPRESSION_LEVEL_NONE
              THEN "DEFLATED" ELSE "STORED"
        /\ entries[k].level =
              IF Large(entries[k]) THEN opt.level ELSE COMPRESSION_LEVEL_NONE
    BY DEF IInv, EntriesSet
  <2> QED
    BY <2>1, <2>2 DEF Deflated, Large
<1> QED
  BY <1>1, Invariance, PTL

\* What appendzip appended is where openEmbeddedZipFile() looks for it, provided
\* that no write went wrong and the file before it was shorter than 2^32 bytes:
\* appendzip checks neither.
THEOREM AppendedIsFound == Spec => []EmbeddedReadsBack
<1>1. IInv => EmbeddedReadsBack
  BY DEF IInv
<1> QED
  BY <1>1, Invariance, PTL
===============================================================================
