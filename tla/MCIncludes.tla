----------------------------- MODULE MCIncludes -----------------------------
(***************************************************************************)
(* Instances of IncludeLoader over small include graphs.                   *)
(*                                                                         *)
(* Local: the root, two files it may or may not find, one of them also     *)
(* reachable under the name that spells its extension out.                 *)
(*                                                                         *)
(* Remote: files of a git branch and of an OCI tag, both of which may move *)
(* between the moment they are resolved and the moment they are read.      *)
(***************************************************************************)
EXTENDS IncludeLoader

LocalFiles == {"f", "f.dockerfile", "g"}
GitFiles   == {"a", "b"}
OciFiles   == {"o", "p"}
RemoteFiles == GitFiles \cup OciFiles
Locations  == {"root", "up"} \cup LocalFiles \cup RemoteFiles

NameWithDockerfile == [l \in Locations |-> IF l = "f" THEN "f.dockerfile" ELSE l]
NameWithEnv        == [l \in Locations |-> l]
MovingReference ==
    [l \in Locations |-> CASE l \in GitFiles -> "repo#main"
                           [] l \in OciFiles -> "registry/repo:tag"
                           [] OTHER          -> NoRepo]

\* NoLower: no name in these worlds has an upper-case letter.
NoLower == [a \in {} |-> a]

\* "Abs" spells the reference out, "Rel" is relative to the file it is in.
Abs(op, l) == [op |-> op, to |-> l, rel |-> FALSE, target |-> NoStage, as |-> NoName, raw |-> "c"]
Rel(op, l) == [Abs(op, l) EXCEPT !.rel = TRUE]
AtStage(instr, stage) == [instr EXCEPT !.target = stage]
Stage == FromLine(<<"img">>, <<"s">>)
Leaf  == <<Stage>>

\* What a world holds, where it holds anything.
World(texts) == [l \in Locations |-> IF l \in DOMAIN texts THEN texts[l] ELSE Absent]

-----------------------------------------------------------------------------
Include(l)  == Rel("INCLUDE", l)
Import(l)   == Rel("IMPORT", l)
CopyFile(l) == Rel("COPYFILE", l)
Envs(l)     == Rel("INCLUDE_ENVS", l)

Root1 == {<<Include(l), Import(m)>> : l, m \in LocalFiles}
            \cup {<<CopyFile(l), Include(l)>> : l \in {"f", "g"}}
            \cup {<<Envs("g"), Include("f")>>, <<Import("root")>>, <<>>}
File1 == {Leaf, <<>>, <<Include("g")>>, <<Import("f")>>, <<CopyFile("f.dockerfile")>>,
          <<Stage, CopyFile("g"), Include("root")>>}
File2 == {Leaf, <<Include("f")>>, <<Import("g")>>, <<Envs("f.dockerfile"), Import("f")>>}

LocalWorld(r, f, g) ==
    World([l \in {"root", "f.dockerfile", "g"} |->
            CASE l = "root" -> r [] l = "f.dockerfile" -> f [] l = "g" -> g])

StagedWorlds ==
    {LocalWorld(r, f, g) :
        r \in Root1, f \in File1 \cup {Absent}, g \in File2 \cup {Absent, Unreadable}}

\* Worlds without stages, in which each file includes two others: what can fail
\* to end is the walk.
LoopBody   == {<<Include(l), Include(m)>> : l, m \in {"root", "f", "g"}} \cup {<<>>}
LoopWorlds == {LocalWorld(r, f, g) : r, f \in LoopBody, g \in LoopBody \cup {Absent}}

-----------------------------------------------------------------------------
Mounted == <<Stage, [op |-> "MOUNT", from |-> <<"s">>, raw |-> <<>>]>>

RootTexts == {<<Abs("INCLUDE", "a")>>,
              <<Abs("IMPORT", "a"), Abs("COPYFILE", "o")>>,
              <<Abs("INCLUDE_ENVS", "a"), Abs("INCLUDE", "a")>>,
              <<Abs("INCLUDE_ARGS", "b"), Abs("IMPORT", "o")>>}
DeadEnds  == {<<AtStage(Abs("IMPORT", "o"), "missing")>>, <<Abs("INCLUDE", "up")>>}
GitTexts == {Mounted, <<Rel("INCLUDE", "b")>>, <<Rel("INCLUDE", "a")>>, <<Abs("INCLUDE", "a")>>,
             <<Abs("INCLUDE", "b"), Rel("INCLUDE", "a")>>, <<Rel("INCLUDE_ENVS", "b"), Abs("INCLUDE", "o")>>}
OciTexts == {Mounted, <<Rel("INCLUDE", "p")>>, <<Rel("INCLUDE", "o")>>, <<Abs("IMPORT", "o")>>,
             <<Rel("INCLUDE_LABELS", "p"), Abs("INCLUDE", "a")>>}

RemoteWorld(r, a, b, o, p) ==
    World([l \in {"root"} \cup RemoteFiles |->
            CASE l = "root" -> r [] l = "a" -> a [] l = "b" -> b [] l = "o" -> o [] l = "p" -> p])

RemoteWorlds ==
    {RemoteWorld(r, a, b, o, p) :
        r \in RootTexts, a \in GitTexts, b \in {Mounted, <<Rel("INCLUDE", "a")>>, <<Abs("INCLUDE", "a")>>},
        o \in OciTexts, p \in {Mounted, <<Rel("INCLUDE", "o")>>, Absent}}
    \cup {RemoteWorld(r, Leaf, Leaf, o, Leaf) : r \in DeadEnds, o \in OciTexts}

-----------------------------------------------------------------------------
AnyText   == Root1 \cup File1 \cup File2 \cup LoopBody \cup RootTexts \cup DeadEnds \cup GitTexts \cup OciTexts
AnyWorld  == StagedWorlds \cup LoopWorlds \cup RemoteWorlds
=============================================================================
