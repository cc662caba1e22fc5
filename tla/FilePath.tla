------------------------------ MODULE FilePath -------------------------------
(***************************************************************************)
(* Paths of files (src/src/filepath.cpp).  A FilePath asks the system      *)
(* about its file when that is first needed and remembers the answer,      *)
(* whatever happens to the file.                                           *)
(***************************************************************************)
EXTENDS Integers, Sequences

CONSTANTS
    Char,           \* the characters of paths
    Separator,      \* g_separator
    Object,         \* the FilePath objects of the program
    Strings,        \* what a program sets them to
    File,           \* the paths at which there may be a file
    Kinds,          \* what there may be, among them "nothing"
    MaxLength       \* of a path

\* "We expect path to not include double separators one after another."
Neat(path) ==
    \A i \in 2..Len(path) : ~(path[i - 1] = Separator /\ path[i] = Separator)

ASSUME FilePathAssumption ==
    /\ Separator \in Char
    /\ \A string \in Strings : string \in Seq(Char) /\ Neat(string)
    /\ File \subseteq Seq(Char)
    /\ << >> \notin File
    /\ "nothing" \in Kinds
    /\ MaxLength \in Nat

VARIABLES
    fp,     \* the objects
    disk,   \* what there is at each path now
    seen    \* and at any time until now

vars == << fp, disk, seen >>

-----------------------------------------------------------------------------
(* Strings. *)

\* Bug: nothing is pruned.
PruneNothing(path) == path

PruneTrailingSeparator(path) ==
    IF path # << >> /\ path[Len(path)] = Separator
    THEN SubSeq(path, 1, Len(path) - 1)
    ELSE path

\* FilePath(path)
New(path) == [path |-> PruneTrailingSeparator(path), checked |-> FALSE, kind |-> "nothing"]

\* Bug: the separator of the right hand side is not looked at.
SumSeparated(lhs, rhs) ==
    IF lhs.path = << >> THEN rhs
    ELSE IF rhs.path = << >> THEN lhs
    ELSE New(lhs.path \o << Separator >> \o rhs.path)

\* operator +: one of the operands as it is, with its answer, or a new object
Sum(lhs, rhs) ==
    IF lhs.path = << >> THEN rhs
    ELSE IF rhs.path = << >> THEN lhs
    ELSE IF rhs.path[1] = Separator THEN New(lhs.path \o rhs.path)
    ELSE New(lhs.path \o << Separator >> \o rhs.path)

\* filename()
Filename(path) ==
    LET last == {i \in 1..Len(path) :
                    path[i] = Separator /\ \A j \in i + 1 .. Len(path) : path[j] # Separator}
    IN  IF last = {} THEN path
        ELSE SubSeq(path, (CHOOSE i \in last : TRUE) + 1, Len(path))

-----------------------------------------------------------------------------
(* Objects. *)

\* stat()
Stat(path) == IF path \in File THEN disk[path] ELSE "nothing"

Init ==
    /\ fp = [o \in Object |-> New(<< >>)]
    /\ disk \in [File -> Kinds]
    /\ seen = [path \in File |-> {disk[path]}]

\* Bug: the answer is kept.
AssignedKept(f, string) == [f EXCEPT !.path = PruneTrailingSeparator(string)]

\* operator = (std::string const &), and clear() with the empty string
Assigned(f, string) ==
    [f EXCEPT !.path = PruneTrailingSeparator(string), !.checked = FALSE]

Assign(o, string) ==
    /\ fp' = [fp EXCEPT ![o] = Assigned(fp[o], string)]
    /\ UNCHANGED << disk, seen >>

Copy(o, p) ==
    /\ fp' = [fp EXCEPT ![o] = fp[p]]
    /\ UNCHANGED << disk, seen >>

AssignSum(o, p, q) ==
    /\ Len(Sum(fp[p], fp[q]).path) <= MaxLength
    /\ fp' = [fp EXCEPT ![o] = Sum(fp[p], fp[q])]
    /\ UNCHANGED << disk, seen >>

\* check()
Checked(f) ==
    IF f.checked THEN f ELSE [f EXCEPT !.checked = TRUE, !.kind = Stat(f.path)]

\* exists(), isRegular(), fileSize(), ...
Query(o) ==
    /\ fp' = [fp EXCEPT ![o] = Checked(fp[o])]
    /\ UNCHANGED << disk, seen >>

\* Another program creates, removes or replaces a file.
Change(path, kind) ==
    /\ disk' = [disk EXCEPT ![path] = kind]
    /\ seen' = [seen EXCEPT ![path] = @ \cup {kind}]
    /\ UNCHANGED fp

Next ==
    \/ \E o \in Object :
        \/ \E string \in Strings \cup {<< >>} : Assign(o, string)
        \/ \E p \in Object : Copy(o, p)
        \/ \E p, q \in Object : AssignSum(o, p, q)
        \/ Query(o)
    \/ \E path \in File, kind \in Kinds : Change(path, kind)

Spec == Init /\ [][Next]_vars

-----------------------------------------------------------------------------
(* Properties. *)

\* What a FilePath holds: it "does NOT end with a separator".
Path == {p \in Seq(Char) : Neat(p) /\ (p = << >> \/ p[Len(p)] # Separator)}

TypeOK ==
    /\ fp \in [Object -> [path : Path, checked : BOOLEAN, kind : Kinds]]
    /\ disk \in [File -> Kinds]
    /\ seen \in [File -> SUBSET Kinds]

\* "The information about a file is cached so at the time it gets used the file
\* on disk may have changed": but it is of that file.  Through any sequence of
\* assignments, copies and sums an object that answers gives an answer that was
\* true of its own path at some time.
AnswersForItsPath ==
    \A o \in Object : fp[o].checked =>
        fp[o].kind \in IF fp[o].path \in File THEN seen[fp[o].path] ELSE {"nothing"}

\* The sum of two paths is a path like them, in which no separator follows
\* another one, and has the name of its last part.
SumsAreNames ==
    \A o, p \in Object :
        LET path == Sum(fp[o], fp[p]).path
        IN  /\ path \in Path
            /\ fp[p].path # << >> => Filename(path) = Filename(fp[p].path)
=============================================================================
