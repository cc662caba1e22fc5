---------------------------- MODULE MCGzipOutput -----------------------------
(* Small instances of GzipOutput: two bytes and a put area of two. *)
EXTENDS GzipOutput

MCName == {"unused"}
MCNameLength == [n \in MCName |-> 1]
MCByte == {"a", "b"}

\* Outputs that accept everything, and ones that fail at the n-th write.
MCReliable == {-1}
MCFuses == {-1, 0, 1, 2, 3}
=============================================================================
