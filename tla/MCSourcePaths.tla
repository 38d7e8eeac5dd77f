--------------------------- MODULE MCSourcePaths ---------------------------
(***************************************************************************)
(* Names for SourcePaths: two plain ones and one with two dots; links to   *)
(* another file, out of the source, and to the one with two dots.          *)
(***************************************************************************)
EXTENDS SourcePaths

SomeContext == <<"a">>
SomeLinks ==
    [p \in {<<"b">>, <<"a", "a">>, <<"b", "b">>} |->
        CASE p = <<"b">> -> <<"a", "b">> [] p = <<"a", "a">> -> Outside
          [] OTHER       -> <<"..c", "a">>]

=============================================================================
