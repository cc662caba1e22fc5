--------------------------- MODULE MCCollections -----------------------------
(* A directory with a file and a directory below it, and an archive that has *)
(* one of the full names and one of the base names as well.                  *)
EXTENDS CollectionCalls

MCName == {"d", "d/x", "d/s", "d/s/x"}
MCKind == [n \in MCName |-> IF n \in {"d", "d/s"} THEN "directory" ELSE "regular"]
MCBaseName ==
    [n \in MCName |-> CASE n = "d" -> "d" [] n = "d/s" -> "s" [] OTHER -> "x"]
MCChildren ==
    [n \in MCName |-> CASE n = "d" -> << "d/s", "d/x" >>
                        [] n = "d/s" -> << "d/s/x" >>
                        [] OTHER -> << >>]
MCSymmetry == Permutations(Var)
MCDirectory == {"d"}
MCAdded == {"d/s/x"}
MCArchiveNames == << "d/x" >>
MCLimits == {0}
MCMethodChoices == {<< "DEFLATED", "BZIP2" >>}
MCLevelChoices ==
    {COMPRESSION_LEVEL_NONE} \X {COMPRESSION_LEVEL_DEFAULT, COMPRESSION_LEVEL_MAXIMUM + 1}
        \cup {<< COMPRESSION_LEVEL_MINIMUM, COMPRESSION_LEVEL_MINIMUM >>}
=============================================================================
