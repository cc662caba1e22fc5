----------------------------- MODULE ByteStream ------------------------------
(***************************************************************************)
(* What the stream that getInputStream() returns promises for an entry     *)
(* that is intact: the bytes that were stored, one after the other, then   *)
(* the end of the file, as often as the reader asks, and never an error.   *)
(***************************************************************************)
EXTENDS Sequences, Naturals

CONSTANT Byte

VARIABLES
    bytes,          \* the bytes of the entry
    got,            \* the bytes read so far
    status          \* the state of the std::istream

vars == << bytes, got, status >>

Init ==
    /\ bytes \in Seq(Byte)
    /\ got = << >>
    /\ status = "good"

Deliver ==
    /\ status = "good"
    /\ Len(got) < Len(bytes)
    /\ got' = Append(got, bytes[Len(got) + 1])
    /\ UNCHANGED << bytes, status >>

End ==
    /\ status = "good"
    /\ got = bytes
    /\ status' = "eof"
    /\ UNCHANGED << bytes, got >>

\* The reader calls clear().
Clear ==
    /\ status = "eof"
    /\ status' = "good"
    /\ UNCHANGED << bytes, got >>

Next == Deliver \/ End \/ Clear

\* A reader that goes on reading gets to the end.
Spec == Init /\ [][Next]_vars /\ WF_vars(Deliver \/ End)
=============================================================================
