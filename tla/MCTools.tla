------------------------------ MODULE MCTools --------------------------------
(* Every zipdir command line of up to three words, longer ones with all the  *)
(* options, and sessions in which the other tools work on what it made.      *)
EXTENDS Tools

Word == {"--level", "--limit", "none", "5", "-1", "101", "default", "d", "-h"}

MCDashed ==
    {"--level", "--limit", "-1", "-h", "-V", "--help", "--version", "--count",
     "--count-directories", "--count-files", "--other"}

Given == Word \cup MCDashed \cup {"", "smallest", "fastest", "a.zip", "program", "d/x", "d/y", "x"}

MCZipName == [a \in Given |-> IF a = "a.zip" THEN a ELSE a \o ".zip"]
MCArg == Given \cup {MCZipName[a] : a \in Given}
MCZipNameOf == [a \in MCArg |-> IF a \in Given THEN MCZipName[a] ELSE a]

MCAtoi ==
    [a \in MCArg |-> CASE a \in {"5", "5.zip"} -> 5 [] a \in {"-1", "-1.zip"} -> -1
                       [] a \in {"101", "101.zip"} -> 101 [] OTHER -> 0]
MCBaseName == [a \in MCArg |-> IF a = "d/x" THEN "x" ELSE a]

Root == NewEntry("d", "listing", TRUE, TRUE, 0)
File(name, size) == NewEntry(name, "listing", TRUE, FALSE, size)
MCListings == {<< Root >>, << Root, File("d/x", 5), File("d/y", 257) >>}

MCSizes == {5, 257}

\* The program is there from the beginning.
MCFirstFiles ==
    {[a \in MCArg |-> IF a = "program" THEN << [kind |-> "text"] >> ELSE Absent]}

Command(t, as) == [tool |-> t, args |-> as]
Zipped == Command("zipdir", << "a.zip", "d" >>)

Appended(to) == Command("appendzip", << to, "a.zip" >>)

Short == UNION {[1..n -> Word] : n \in 0..3}
Long ==
    {<< "--level", l, "--limit", n, "a.zip", "d" >> :
        l \in {"none", "default", "smallest", "fastest", "5", "101"},
        n \in {"-1", "5", "default"}}
      \cup {<< "", "a.zip", "d" >>, << "a.zip", "d", "x" >>, << "-V" >>}

Counting ==
    {<< f, "a.zip", "program" >> : f \in {"--count", "--count-directories", "--count-files"}}
      \cup {<< "--other", "a.zip" >>, << "--help" >>, << "--version" >>, << >>}

MCSessions ==
    {<< Command("zipdir", a) >> : a \in Short \cup Long}
      \cup {<< Zipped, Command("zipdir", << "a.zip", l >>) >> : l \in {"d", "--level"}}
      \cup {<< Zipped, Command("zipdir", << "a.zip" >>) >>}
      \cup {<< Zipped, Command("zipdir", << "--limit", l, "a.zip", "program" >>) >> :
                l \in {"5", "-1"}}
      \cup {<< Zipped, Command("zipios", a) >> : a \in Counting}
      \cup {<< Zipped, Command("zipios_example", << "a.zip", n >>) >> : n \in {"x", "a.zip"}}
      \cup {<< Command("zipios_example", << "a.zip" >>), Command("appendzip", << "x" >>) >>,
            << Appended("program"), Zipped, Appended("program"),
               Command("appendzip", << "x", "program" >>), Appended("program") >>,
            << Zipped, Appended("x"), Appended("x"), Appended("x") >>,
            << Zipped, Appended("program"), Command("appendzip", << "a.zip", "program" >>),
               Command("zipios", << "--count", "program", "a.zip" >>) >>}
=============================================================================
