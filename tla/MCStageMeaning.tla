--------------------------- MODULE MCStageMeaning ---------------------------
(***************************************************************************)
(* Instances of StageMeaning: a root that imports a library file "f" and a *)
(* second file "g", and includes a snippet "h", in the ways the            *)
(* documentation shows.                                                    *)
(***************************************************************************)
EXTENDS StageMeaning

Stage(img, name)   == FromLine(<<img>>, <<name>>)
Run(id)            == [op |-> "RUN", raw |-> <<id>>]
Arg(id)            == [op |-> "ARG", raw |-> <<id>>]
Copy(name)         == CopyLine(<<name>>, <<"copy">>)
Mount(name)        == [op |-> "MOUNT", from |-> <<name>>, raw |-> <<"mount">>]
ImportAs(l, t, as) == [op |-> "IMPORT", to |-> l, rel |-> TRUE, target |-> t, as |-> <<as>>]
CopyFile(l, t)     == [op |-> "COPYFILE", to |-> l, rel |-> TRUE, target |-> t, raw |-> <<"copy">>]
Include(l)         == [op |-> "INCLUDE", to |-> l, rel |-> TRUE, target |-> NoStage]
Envs(l)            == [op |-> "INCLUDE_ENVS", to |-> l, rel |-> TRUE]

FileLoc == {"root", "f", "g", "h"}
Same    == [l \in FileLoc |-> l]
NoRepos == [l \in FileLoc |-> NoRepo]

\* A stage named "One" is visible to the user as "one".
LowerOne == [a \in {"One"} |-> "one"]

World(r, f, g, h) ==
    [l \in FileLoc |-> CASE l = "root" -> r [] l = "f" -> f [] l = "g" -> g [] l = "h" -> h]

BodiesOf(worlds) == {w[l] : w \in worlds, l \in FileLoc}

-----------------------------------------------------------------------------
(***************************************************************************)
(* The worlds in which the meaning is preserved.                           *)
(***************************************************************************)
\* f: a library with two stages, the second built on an image or on the
\* first, and copying from nothing, from the first, or from a third file.
FBodies ==
    {<<Arg("F"), Stage("img", "dev"), Run("d"), second, Run("p")>> \o tail :
        second \in {Stage("img", "prod"), Stage("dev", "prod")},
        tail   \in {<<>>, <<Copy("dev")>>, <<Mount("dev")>>, <<CopyFile("g", NoStage)>>}}

\* g: one stage, named or not, or one that includes the snippet.
GBodies ==
    {<<FromLine(<<"base">>, NoName), Run("g")>>,
     <<Arg("G"), Stage("base", "s"), Include("h")>>}

Snippet == <<Run("h"), Run("hh")>>

First == {<<Arg("V"), Stage("os", "One"), Run("r1")>>,
          <<Stage("os", "One"), CopyFile("g", NoStage), Include("h")>>,
          <<Arg("V"), ImportAs("f", "dev", "One"), Run("r1")>>,
          <<ImportAs("g", NoStage, "One"), Envs("h")>>}
Second == {<<>>,
           <<Stage("One", "two"), Run("r2")>>,
           <<Stage("os", "two"), Copy("One"), CopyFile("g", NoStage)>>,
           <<ImportAs("f", "prod", "two"), Mount("One")>>,
           <<ImportAs("g", NoStage, "two"), Copy("One")>>,
           <<Stage("os", "two"), CopyFile("f", "prod"), Run("r2")>>}
Third == {<<Stage("One", "three"), Run("r3"), Copy("One")>>,
          <<ImportAs("f", "dev", "three"), Run("r3")>>,
          <<ImportAs("f", NoStage, "three"), Copy("One")>>,
          <<Stage("os", "three"), CopyFile("f", "dev")>>}

Roots == {h \o m \o t : h \in First, m \in Second, t \in Third}

\* What the text of the root has to avoid for its meaning to survive.  The first
\* three are dropped below, and the final image is lost; without the fourth,
\* CopySourcesAbove fails for a stage the final image does not need.
Uses(text, op, l) == {i \in DOMAIN text : text[i].op = op /\ text[i].to = l}
TargetsOf(text, l) == {text[i].target : i \in Uses(text, "IMPORT", l) \cup Uses(text, "COPYFILE", l)}

CopiedThenImported(text, l) ==
    \E i \in Uses(text, "COPYFILE", l), j \in Uses(text, "IMPORT", l) : i < j
CopiedAtManyTargets(text, l) ==
    Uses(text, "COPYFILE", l) # {} /\ Cardinality(TargetsOf(text, l)) > 1
ImportedAgain(text, l) ==
    \E i, j, k \in Uses(text, "IMPORT", l) :
        i < j /\ j < k /\ text[i].target = text[k].target /\ text[i].target # text[j].target
CopiesFromItself(text) ==
    \E i \in DOMAIN text : text[i].op \in {"COPY", "MOUNT"}

Avoids(w) ==
    \A l \in {"f", "g"} :
        /\ ~CopiedThenImported(w["root"], l)
        /\ ~CopiedAtManyTargets(w["root"], l)
        /\ ~ImportedAgain(w["root"], l)
        /\ CopiesFromItself(w[l]) => Cardinality(TargetsOf(w["root"], l)) <= 1

ImportWorlds ==
    {w \in {World(r, f, g, Snippet) : r \in Roots, f \in FBodies, g \in GBodies} : Avoids(w)}
ImportBodies == Roots \cup FBodies \cup GBodies \cup {Snippet}

-----------------------------------------------------------------------------
(***************************************************************************)
(* The worlds in which it is not, one family for each way to lose it.      *)
(***************************************************************************)
Lib  == <<Stage("img", "dev"), Run("d"), Stage("dev", "prod"), Run("p")>>
Leaf == <<Stage("base", "s"), Run("g")>>

\* The same file through COPY --from and then through FROM.
CopyThenFromWorlds ==
    {World(<<Stage("os", "One"), CopyFile("g", NoStage), ImportAs("g", NoStage, "two")>> \o t,
           Lib, Leaf, Snippet) :
        t \in {<<>>, <<Run("r")>>, <<Copy("One")>>, <<Copy("One"), Run("r")>>,
               <<Stage("two", "three")>>, <<Stage("two", "three"), Run("r")>>}}

\* The same file through COPY --from at two of its stages.
TwoCopiesWorlds ==
    {World(<<Stage("os", "One"), CopyFile("f", "dev"), CopyFile("f", "prod")>> \o t,
           Lib, Leaf, Snippet) :
        t \in {<<>>, <<Run("r")>>, <<Copy("f")>>, <<Stage("One", "two"), Run("r")>>}}

\* The same file imported at a stage, at another, and at the first again.
ReimportWorlds ==
    {World(<<ImportAs("f", "dev", "One"), ImportAs("f", "prod", "two"),
             ImportAs("f", "dev", "three")>> \o t, Lib, Leaf, Snippet) :
        t \in {<<>>, <<Run("r")>>, <<Copy("One")>>, <<Copy("two"), Run("r")>>}}

\* A snippet, included in the middle of a stage, that copies from a file.
SnippetWorlds ==
    {World(<<Stage("os", "One"), Run("r"), Include("h")>> \o t, Lib, Leaf, h) :
        t \in {<<>>, <<Run("rr")>>, <<Envs("g")>>},
        h \in {<<CopyFile("g", NoStage)>>, <<Run("h"), CopyFile("f", "prod")>>}}

\* An imported file that includes the stages it builds on.
NestedIncludeWorlds ==
    {World(<<ImportAs("f", NoStage, "One")>> \o t,
           <<Include("h"), Stage("dev", "prod"), Run("p")>>, Leaf, h) :
        t \in {<<>>, <<Run("r")>>, <<Stage("One", "two"), Run("r")>>},
        h \in {<<Stage("img", "dev")>>, <<Stage("img", "dev"), Run("d")>>}}

\* An imported file with a stage named after the image it builds on.
PrefixWorlds ==
    {World(<<ImportAs("f", NoStage, "One")>> \o t,
           <<FromLine(<<"node", ":18">>, <<"node">>)>> \o u, Leaf, Snippet) :
        t \in {<<>>, <<Run("r")>>, <<Stage("One", "two"), Run("r")>>},
        u \in {<<>>, <<Run("p")>>}}

\* An imported file with a stage that has the name of the file: the slug of the
\* file, which by then begins the name of the stage below, begins with it.
OwnNameWorlds ==
    {World(<<ImportAs("f", NoStage, "One")>> \o t,
           <<Stage("img", "dev"), Run("d"), Stage("dev", "f")>> \o u, Leaf, Snippet) :
        t \in {<<>>, <<Run("r")>>, <<Stage("One", "two"), Run("r")>>},
        u \in {<<>>, <<Run("p")>>}}

\* The first four concern where imported stages are put, the others their names.
LossWorlds ==
    UNION {CopyThenFromWorlds, TwoCopiesWorlds, ReimportWorlds, SnippetWorlds,
           NestedIncludeWorlds, PrefixWorlds, OwnNameWorlds}

LossBodies == BodiesOf(LossWorlds)
=============================================================================
