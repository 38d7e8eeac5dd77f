--------------------------- MODULE MCCommandLine ---------------------------
(***************************************************************************)
(* Settings for CommandLine: every limit that differs in how it is read,   *)
(* by flag and by environment, and every way in and out.                   *)
(***************************************************************************)
EXTENDS CommandLine

Limits == {"3", "3abc", "0", "abc", ""}
LimitParsed ==
    [raw \in Limits |-> CASE raw \in {"3", "3abc"} -> 3 [] raw = "0" -> 0 [] raw \in {"abc", ""} -> NaN]

NoLimit == [flag |-> Unset, env |-> Unset, input |-> "file", toFile |-> FALSE]
Various ==
    {[NoLimit EXCEPT !.input = i, !.toFile = f] : i \in Inputs, f \in BOOLEAN}
        \cup {[NoLimit EXCEPT !.flag = l] : l \in Limits}
        \cup {[NoLimit EXCEPT !.env = l] : l \in Limits}
        \cup {[NoLimit EXCEPT !.flag = "3", !.env = "abc", !.input = "stdin"],
              [NoLimit EXCEPT !.env = "0", !.input = "stdin", !.toFile = TRUE]}

=============================================================================
