------------------------------ MODULE MCFat32 ------------------------------
(***************************************************************************)
(* Instances of Fat32 for TLC.                                             *)
(***************************************************************************)
EXTENDS Fat32

CONSTANTS x, y  \* pieces of text

\* The only names updateDirEntry finds have their first letters for an extension.
Log == [base |-> "log", ext |-> "log"]
Tmp == [base |-> "tmp", ext |-> "tmp"]
Bin == [base |-> "bin", ext |-> ""]
Etc == [base |-> "etc", ext |-> ""]

Typed(kind, path, data) == [kind |-> kind, path |-> path, data |-> data, slash |-> FALSE]

\* Eleven characters, "tmp     tmp", and zeros: read as an entry, an empty file.
Posing == Unit("file", Tmp, NONE, 0)

MCCommand ==
  {Typed("rm", p, << >>) : p \in {<<Log>>, <<Bin, Tmp>>}}
  \cup {[Typed("rm", <<Log>>, << >>) EXCEPT !.slash = TRUE]}
  \cup {Typed("touch", <<Bin, Tmp>>, << >>), Typed("cat", <<Log>>, << >>)}
  \cup {Typed("write", <<Log>>, d) : d \in {<<Text(x)>>, <<Posing, Posing, Text(y)>>}}
  \cup {Typed("write", <<Bin, Tmp>>, <<Text(x)>>)}
  \cup {Typed("mkdir", <<d>>, << >>) : d \in {Bin, Etc}}

\* An extension that is not the start of the name.
MCUpdateCommand ==
  {Typed("write", <<[base |-> "log", ext |-> "txt"]>>, <<Text(x)>>)}

=============================================================================
