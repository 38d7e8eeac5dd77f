--------------------------- MODULE StagePipeline ---------------------------
(***************************************************************************)
(* The text transformations dockerfile-x applies to a Dockerfile it has    *)
(* expanded: scoping the stage names of an imported file, aliasing the     *)
(* stage the importer asked for, dropping repeated stages, sanitizing the  *)
(* names that stay visible, and redeclaring ARGs at the top of the result. *)
(*                                                                         *)
(* A Dockerfile is a sequence of lines, a line a record whose "op" is the  *)
(* instruction.  A stage or image name is a sequence of atoms that stands  *)
(* for their concatenation: <<"D", "s">> is the text "D--s", and           *)
(* <<"node", ":18">> the image "node:18".  Atoms are opaque, and no atom's *)
(* text is a prefix of another's, so "the text starts with" is IsPrefix.   *)
(***************************************************************************)
EXTENDS Naturals, Sequences, SequencesExt

CONSTANTS
    NoStage,  \* The include asks for no particular stage (no "#stage").
    Lower     \* The atoms with upper-case letters, each mapped to its
              \* lower-case form; every other atom is already lower case.

NoName     == <<>>
FinalStage == <<"final-stage">>

FromLine(base, as) == [op |-> "FROM", base |-> base, as |-> as]
CopyLine(from, raw) == [op |-> "COPY", from |-> from, raw |-> raw]

IsFrom(line) == line.op = "FROM"

-----------------------------------------------------------------------------
(***************************************************************************)
(* scopeStages: a stage with no name gets "final-stage"; then, one stage   *)
(* name after the other, the mentions of it are rewritten in every line.   *)
(***************************************************************************)
Named(lines) ==
    [i \in DOMAIN lines |->
        IF IsFrom(lines[i]) /\ lines[i].as = NoName
        THEN FromLine(lines[i].base, FinalStage)
        ELSE lines[i]]

StageNames(lines) ==
    LET froms == SelectSeq(lines, IsFrom)
    IN  [i \in DOMAIN froms |-> froms[i].as]

\* The base is compared with startsWith, every other mention exactly.
ScopeBase(base, names, prefix) ==
    FoldLeft(LAMBDA b, name : IF IsPrefix(name, b) THEN prefix \o name ELSE b, base, names)

ScopeMention(mention, names, prefix) ==
    FoldLeft(LAMBDA m, name : IF m = name THEN prefix \o name ELSE m, mention, names)

ScopeLine(line, names, prefix) ==
    CASE IsFrom(line) ->
            FromLine(ScopeBase(line.base, names, prefix), ScopeMention(line.as, names, prefix))
      [] line.op \in {"COPY", "MOUNT"} ->
            [op |-> line.op, from |-> ScopeMention(line.from, names, prefix), raw |-> line.raw]
      [] OTHER -> line

ScopeStages(lines, prefix) ==
    LET named == Named(lines)
    IN  [i \in DOMAIN named |-> ScopeLine(named[i], StageNames(named), prefix)]

-----------------------------------------------------------------------------
(***************************************************************************)
(* deduplicateStages: the text is cut before every FROM, and a block equal *)
(* to an earlier one is dropped.                                           *)
(***************************************************************************)
LinesAt(lines, kept) ==
    FlattenSeq([i \in DOMAIN lines |-> IF i \in kept THEN <<lines[i]>> ELSE <<>>])

Cuts(lines) == {i \in DOMAIN lines : i = 1 \/ IsFrom(lines[i])}

CutOf(lines, i) == Max({c \in Cuts(lines) : c <= i})

Block(lines, cut) ==
    LET ends == {i \in cut..Len(lines) : CutOf(lines, i) = cut}
    IN  SubSeq(lines, cut, Max(ends))

\* Variant, against NothingSkipped: of equal blocks not even the first is kept.
RepeatedAnywhere(lines, cut) ==
    \E c \in Cuts(lines) : c # cut /\ Block(lines, c) = Block(lines, cut)

Repeated(lines, cut) ==
    \E c \in Cuts(lines) : c < cut /\ Block(lines, c) = Block(lines, cut)

DeduplicateStages(lines) ==
    LinesAt(lines, {i \in DOMAIN lines : ~Repeated(lines, CutOf(lines, i))})

-----------------------------------------------------------------------------
(***************************************************************************)
(* sanitizeStageNames: names declared with AS are lower-cased, and so are  *)
(* the later FROM and COPY --from that mention them; a --mount is not.     *)
(***************************************************************************)
SanitizeStageName(name) ==
    [i \in DOMAIN name |-> IF name[i] \in DOMAIN Lower THEN Lower[name[i]] ELSE name[i]]

SanitizeLine(line, declared) ==
    CASE IsFrom(line) ->
            FromLine(IF line.base \in declared THEN SanitizeStageName(line.base) ELSE line.base,
                     SanitizeStageName(line.as))
      [] line.op = "COPY" /\ line.from \in declared ->
            CopyLine(SanitizeStageName(line.from), line.raw)
      [] OTHER -> line

SanitizeStageNames(lines) ==
    [i \in DOMAIN lines |->
        SanitizeLine(lines[i], {lines[j].as : j \in {k \in 1..(i - 1) : IsFrom(lines[k])}})]

-----------------------------------------------------------------------------
(***************************************************************************)
(* postProcessDockerfile, run on every file once its instructions have     *)
(* been expanded.  ctx.prefix is the slug of the file, ctx.alias the name  *)
(* under which the importer will refer to it (NoName for the root).        *)
(***************************************************************************)
TargetName(ctx) == ctx.prefix \o <<ctx.target>>

\* Variant, against RootTargetsPreserved: the root is scoped like its imports.
ScopedRootToo(lines, ctx) ==
    IF ctx.isRootInclude THEN lines ELSE ScopeStages(lines, ctx.prefix)

Scoped(lines, ctx) ==
    IF ctx.isRootFile \/ ctx.isRootInclude THEN lines ELSE ScopeStages(lines, ctx.prefix)

\* Variant, against FinalImagePreserved: the first FROM instead of the last.
TargetsFirst(lines, ctx) ==
    {i \in DOMAIN lines :
        /\ IsFrom(lines[i])
        /\ IF ctx.target # NoStage
           THEN lines[i].as = TargetName(ctx)
           ELSE ~ctx.isRootInclude /\ \A j \in 1..(i - 1) : ~IsFrom(lines[j])}

\* The FROM lines the importer means: the ones named by the target, or else
\* the last one of the text.
Targets(lines, ctx) ==
    {i \in DOMAIN lines :
        /\ IsFrom(lines[i])
        /\ IF ctx.target # NoStage
           THEN lines[i].as = TargetName(ctx)
           ELSE /\ ~ctx.isRootInclude
                /\ \A j \in (i + 1)..Len(lines) : ~IsFrom(lines[j])}

TargetFound(lines, ctx) ==
    ctx.target = NoStage \/ Targets(Scoped(lines, ctx), ctx) # {}

WithAlias(lines, ctx) ==
    FlattenSeq([i \in DOMAIN lines |->
        IF ctx.alias # NoName /\ i \in Targets(lines, ctx)
        THEN <<lines[i], FromLine(lines[i].as, ctx.alias)>>
        ELSE <<lines[i]>>])

PostProcess(lines, ctx) ==
    LET result == DeduplicateStages(WithAlias(Scoped(lines, ctx), ctx))
    IN  IF ctx.isRootFile \/ ctx.isRootInclude THEN SanitizeStageNames(result) ELSE result

-----------------------------------------------------------------------------
(***************************************************************************)
(* redeclareArgTop: an ARG that stands between the start of an import and  *)
(* its first FROM, once some stage has begun, is repeated at the very top. *)
(***************************************************************************)
\* Variant, against ImportedArgsStayGlobal: FROM alone is thought to import.
OpensImportFrom(line) == line.op = "START" /\ line.how = "from"

OpensImport(line) == line.op = "START" /\ line.how \in {"from", "fromParam"}

ImportedArgs(lines) ==
    {i \in DOMAIN lines :
        /\ lines[i].op = "ARG"
        /\ \E f \in 1..(i - 1) : IsFrom(lines[f])
        /\ \E s \in 1..(i - 1) :
                OpensImport(lines[s]) /\ \A j \in s..i : ~IsFrom(lines[j])}

HoistedArgs(lines) ==
    LET args == ImportedArgs(lines)
    IN  LinesAt(lines, {i \in args : ~\E j \in args : j < i /\ lines[j] = lines[i]})

RedeclareArgTop(lines) == HoistedArgs(lines) \o lines

=============================================================================
