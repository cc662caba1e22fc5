------------------------------- MODULE Archive -------------------------------
(***************************************************************************)
(* What a save promises, without buffers, headers or positions: the        *)
(* entries of a collection go to an archive one by one and in order; the   *)
(* archive is sealed once it holds them all; it may be abandoned at any    *)
(* moment before, and then nothing is promised about it.                   *)
(***************************************************************************)
EXTENDS Sequences

CONSTANTS Name, Byte

Item == [name : Name, bytes : Seq(Byte)]

VARIABLES
    todo,       \* what is still to be archived
    archive,    \* what the archive holds
    status      \* open, sealed or abandoned

archiveVars == << todo, archive, status >>

Init ==
    /\ todo \in Seq(Item)
    /\ archive = << >>
    /\ status = "open"

Add ==
    /\ status = "open"
    /\ todo # << >>
    /\ archive' = Append(archive, Head(todo))
    /\ todo' = Tail(todo)
    /\ UNCHANGED status

Seal ==
    /\ status = "open"
    /\ todo = << >>
    /\ status' = "sealed"
    /\ UNCHANGED << todo, archive >>

Abandon ==
    /\ status = "open"
    /\ status' = "abandoned"
    /\ todo' = << >>
    /\ archive' = << >>

Next == Add \/ Seal \/ Abandon

Spec == Init /\ [][Next]_archiveVars
=============================================================================
