----------------------------- MODULE MCFileTool -----------------------------
(***************************************************************************)
(* Model checking instance of FileTool: a listed file or link "a" and a    *)
(* listed directory "d" with one child "x".                                *)
(***************************************************************************)
EXTENDS FileTool

MCNames == <<"a", "d">>
MCKids == [f \in {"a", "d"} |-> IF f = "d" THEN <<"x">> ELSE <<>>]

Tree(a, d, x) == [p \in {"a", "d", "x"} |-> CASE p = "a" -> a [] p = "d" -> d [] p = "x" -> x]

\* The file or link, and a plain file, a socket or nothing in the directory.
MCSourceTrees ==
    {Tree(a, "dir", "file") : a \in {"file", "link", "danglingLink", "dotLink", "dirLink"}}
        \cup {Tree("file", "dir", "special"), Tree("link", "dir", "none")}

\* Nothing there, a file in the way of either, a directory that is merged.
MCTargetTrees ==
    {Tree(a, d[1], d[2]) : a \in {"none", "old"},
        d \in {<<"none", "none">>, <<"old", "none">>, <<"dir", "none">>, <<"dir", "old">>}}

\* In a directory that a link points to there may be links and files in the way.
MCElsewhere == {"SymlinkEncountered", "FileExists"}

=============================================================================
