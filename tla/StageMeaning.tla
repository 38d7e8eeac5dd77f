---------------------------- MODULE StageMeaning ----------------------------
(***************************************************************************)
(* What a Dockerfile builds.  The image a stage builds is the sequence of  *)
(* its layers, those of its base first; a layer remembers the image it     *)
(* copies from.  The module gives this meaning twice: to the flat text     *)
(* that dockerfile-x hands to BuildKit, by BuildKit's rules for stage      *)
(* names, and to the files the user wrote, by what the documentation says  *)
(* of FROM, COPY --from and INCLUDE; the two have to agree.                *)
(***************************************************************************)
EXTENDS IncludeLoader

Layer(op, raw, from) == [op |-> op, raw |-> raw, from |-> from]
External(name)       == <<Layer("IMAGE", name, <<>>)>>

\* An ARG, a comment or a marker leaves nothing in the image.
MakesLayer(line) == line.op \in {"RUN", "COPY", "MOUNT", "COPYFILE"}

\* BuildKit refuses to copy from a stage that is defined further down.
Unbuildable == <<Layer("UNBUILDABLE", <<>>, <<>>)>>

-----------------------------------------------------------------------------
(***************************************************************************)
(* The flat text.  dockerfile2llb resolves the base of a stage among the   *)
(* stages above it, and COPY --from and RUN --mount=from among all of them *)
(* once they are known: of several stages with a name, the last one.  Both *)
(* compare names in lower case.                                            *)
(***************************************************************************)
Froms(text, name) ==
    {i \in DOMAIN text :
        IsFrom(text[i]) /\ SanitizeStageName(text[i].as) = SanitizeStageName(name)}

\* The lines of the stage that starts at line i.
StageLines(text, i) ==
    LET body == {j \in (i + 1)..Len(text) : \A k \in (i + 1)..j : ~IsFrom(text[k])}
    IN  SubSeq(text, i + 1, i + Cardinality(body))

RECURSIVE FlatImage(_, _)
FlatImage(text, i) ==
    LET base    == text[i].base
        above   == {j \in Froms(text, base) : j < i}
        From(name) ==
            LET stages == Froms(text, name) IN
            IF name = NoName THEN <<>>
            ELSE IF stages = {} THEN External(name)
            ELSE IF Max(stages) < i THEN FlatImage(text, Max(stages)) ELSE Unbuildable
        LayerOf(line) ==
            IF line.op \in {"COPY", "MOUNT"}
            THEN Layer(line.op, line.raw, From(line.from))
            ELSE Layer(line.op, line.raw, <<>>)
        body    == SelectSeq(StageLines(text, i), MakesLayer)
    IN  (IF above = {} THEN External(base) ELSE FlatImage(text, Max(above)))
            \o [j \in DOMAIN body |-> LayerOf(body[j])]

-----------------------------------------------------------------------------
(***************************************************************************)
(* The files.  INCLUDE stands for the text of the file, in place; FROM ./f *)
(* and COPY --from=./f for the stage they ask of f, whose names are its    *)
(* own.                                                                    *)
(***************************************************************************)
RECURSIVE Inlined(_)
Inlined(loc) ==
    LET Expand(instr) ==
            CASE instr.op = "INCLUDE"  -> Inlined(instr.to)
              [] instr.op \in EnvOps   -> <<EnvLine(instr, Found(instr.to, WithEnv))>>
              [] OTHER                 -> <<instr>>
    IN  FlattenSeq([i \in DOMAIN TextOf(loc) |-> Expand(TextOf(loc)[i])])

StartsStage(instr) == instr.op \in {"FROM", "IMPORT"}

StageName(instr) == IF instr.as = NoName THEN FinalStage ELSE instr.as

Stages(text) == {i \in DOMAIN text : StartsStage(text[i])}

RECURSIVE FileImage(_, _), SourceImage(_, _)

\* The image of the stage that starts at instruction i of the inlined text.
SourceImage(text, i) ==
    LET instr     == text[i]
        above(name) == {j \in Stages(text) : j < i /\ StageName(text[j]) = name}
        Stage(name) ==
            IF name = NoName THEN <<>>
            ELSE IF above(name) = {} THEN External(name)
            ELSE SourceImage(text, Max(above(name)))
        LayerOf(l) ==
            CASE l.op = "COPYFILE"          -> Layer("COPY", l.raw, FileImage(l.to, l.target))
              [] l.op \in {"COPY", "MOUNT"} -> Layer(l.op, l.raw, Stage(l.from))
              [] OTHER                      -> Layer(l.op, l.raw, <<>>)
        later     == {j \in Stages(text) : j > i}
        body      == SelectSeq(SubSeq(text, i + 1, IF later = {} THEN Len(text) ELSE Min(later) - 1),
                               MakesLayer)
    IN  (IF instr.op = "IMPORT" THEN FileImage(instr.to, instr.target) ELSE Stage(instr.base))
            \o [j \in DOMAIN body |-> LayerOf(body[j])]

\* The stage an importer asks for: by name, or the last one.
FileImage(loc, target) ==
    LET text   == Inlined(loc)
        stages == {i \in Stages(text) : target # NoStage => StageName(text[i]) = <<target>>}
    IN  SourceImage(text, Max(stages))

-----------------------------------------------------------------------------
(***************************************************************************)
(* Properties of a run that succeeded.                                     *)
(***************************************************************************)
FlatStages == {i \in DOMAIN output : IsFrom(output[i])}

\* The image docker build produces from the text is the one the files mean:
\* expanding, scoping, aliasing and deduplicating stages keep every layer,
\* its place, and what it copies from.
FinalImagePreserved ==
    verdict.code = "ok" =>
        FlatImage(output, Max(FlatStages)) = FileImage(Root, NoStage)

\* The same for every named stage of the root, which a build may ask for with
\* --target, and which is still called by its name.
RootTargetsPreserved ==
    verdict.code = "ok" =>
        LET text == Inlined(Root) IN
        \A i \in Stages(text) :
            LET name == SanitizeStageName(StageName(text[i])) IN
            text[i].as # NoName /\ (\A j \in Stages(text) : j > i => StageName(text[j]) # StageName(text[i])) =>
                /\ Froms(output, name) # {}
                /\ FlatImage(output, Max(Froms(output, name))) = SourceImage(text, i)

\* No COPY of the result names a stage that is defined further down: BuildKit
\* would refuse to build it.
CopySourcesAbove ==
    verdict.code = "ok" =>
        \A i \in DOMAIN output :
            output[i].op \in {"COPY", "MOUNT"} =>
                \A f \in Froms(output, output[i].from) : f < i

=============================================================================
