----------------------------- MODULE MCFilePath ------------------------------
(* A file, a directory with and without a separator at its end, and a name   *)
(* that is added to it.                                                      *)
EXTENDS FilePath, TLC

MCStrings == {<< "a" >>, << "/", "a" >>, << "a", "/" >>, << "a", "/", "b" >>}
MCFile == {<< "a" >>, << "a", "/", "a" >>}
MCSymmetry == Permutations(Object)
=============================================================================
