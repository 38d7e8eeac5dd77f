--------------------------- MODULE IncludeLoader ---------------------------
(***************************************************************************)
(* The recursive expansion of one Dockerfile: loadDockerfile, the          *)
(* instruction processors that call it back (FROM ./f, COPY --from=./f,    *)
(* INCLUDE f, INCLUDE_ENVS f and its siblings) and rootLoadDockerfile.     *)
(*                                                                         *)
(* The JavaScript recursion is an explicit stack of frames, one per call   *)
(* of loadDockerfile that has not returned.  Every step between two awaits *)
(* is one action of the frame on top; awaits are strictly nested, so the   *)
(* frames below wait.  The files are those of one "world", picked once: a  *)
(* run of the command never writes a file it reads.                        *)
(***************************************************************************)
EXTENDS StagePipeline

CONSTANTS
    Loc,             \* What a reference names: an absolute path, a URL, or a
                     \* path in a git repository or an OCI artifact.
    Root,            \* The Dockerfile given to the command.
    Remote,          \* The locations that are not local paths.
    Repo,            \* The moving references: "repo#ref" and "registry/repo:tag".
    NoRepo,          \* The location belongs to no moving reference.
    GitRepo,         \* The members of Repo that are git branches or tags.
    RepoOf,          \* The moving reference of each location.
    Rejected,        \* The locations resolveSource refuses to make a source of:
                     \* a path with "..", an unknown scheme.
    Ident,           \* What resolve() can return: commit oids and digests.
    NoIdent,         \* The source has not been resolved, or has no identity.
    WithDockerfile,  \* The location with ".dockerfile" appended, if it lacks it.
    WithEnv,         \* The location with ".env" appended, if it lacks it.
    Target,          \* The stages a reference can ask for, and NoStage.
    Absent,          \* No such file.
    Unreadable,      \* A file that cannot be read (a directory, no permission).
    Body,            \* The texts a file can hold, as sequences of instructions.
    Worlds,          \* The file systems considered.
    MaxIncludeDepth  \* --max-include-depth

CallOps  == {"IMPORT", "COPYFILE", "INCLUDE"}
EnvOps   == {"INCLUDE_ARGS", "INCLUDE_ENVS", "INCLUDE_LABELS"}
LocalSrc(l) == [loc |-> l, ident |-> NoIdent]

ASSUME LocationAssumption ==
    /\ Root \in Loc \ Remote
    /\ Remote \subseteq Loc
    /\ GitRepo \subseteq Repo
    /\ NoRepo \notin Repo
    /\ NoIdent \notin Ident
    /\ RepoOf \in [Loc -> Repo \cup {NoRepo}]
    /\ WithDockerfile \in [Loc -> Loc]
    /\ WithEnv \in [Loc -> Loc]
    /\ \A l \in Loc : RepoOf[WithDockerfile[l]] = RepoOf[l]

ASSUME WorldAssumption ==
    /\ Absent \notin Body
    /\ Unreadable \notin Body \cup {Absent}
    /\ Worlds \subseteq [Loc -> Body \cup {Absent, Unreadable}]
    /\ \A b \in Body : \A i \in DOMAIN b :
            /\ b[i].op \in CallOps \cup EnvOps => b[i].to \in Loc
            /\ b[i].op \in CallOps => b[i].target \in Target
            /\ b[i].op \in CallOps \cup EnvOps => b[i].rel \in BOOLEAN
    /\ \A b \in Body : Len(b) \in Nat /\ DOMAIN b = 1..Len(b)

\* joinRelative: a relative reference stays in the repository of its file.
ASSUME SiblingAssumption ==
    \A w \in Worlds : \A l \in Loc :
        w[l] \in Body =>
            \A i \in DOMAIN w[l] :
                w[l][i].op \in CallOps /\ w[l][i].rel => RepoOf[w[l][i].to] = RepoOf[l]

ASSUME DepthAssumption == MaxIncludeDepth \in Nat \ {0}

ASSUME TargetAssumption == NoStage \in Target

VARIABLES
    world,     \* The file system.
    resolved,  \* refResolveCache / digestResolveCache: what resolve() memoized.
    cloned,    \* repoCache: the commit checked out in the clone of a git ref.
    stack,     \* The calls of loadDockerfile that have not returned.
    lines,     \* The "lines" array of each of them.
    verdict,   \* How the command ended, or Running.
    output     \* What it wrote.

vars == <<world, resolved, cloned, stack, lines, verdict, output>>
control == <<world, resolved, cloned, stack, lines>>

Running == [code |-> "running", chain |-> <<>>]
Codes == {"ok", "failed", "missing-file", "remote-file-not-found",
          "remote-fetch-failed", "include-cycle", "include-depth-exceeded",
          "path-traversal"}

Top     == stack[Len(stack)]
\* Variant, against DepthBounded: the depth of the root is not passed on.
NestingOffByOne == Len(stack) - 2

Nesting == Len(stack) - 1
Source  == [loc : Loc, ident : Ident \cup {NoIdent}]
Phases  == {"called", "keyed", "expanding"}

\* key(): location and identity, as far as resolve() made it known.  The code
\* leaves out the branch or tag once the identity is known.  That is the same here:
\* a location is one file of a repository under one branch or tag, and no two of
\* them are the same file under two.
Key(src) == src

\* displayPath(): the path as found for a local file, the reference itself for
\* the others, with the identity for OCI alone.
DisplayPath(src, file) ==
    [loc   |-> IF src.loc \in Remote THEN src.loc ELSE file,
     ident |-> IF RepoOf[src.loc] \in Repo \ GitRepo THEN src.ident ELSE NoIdent]

\* generateFilePathSlug: the start of the name of the file, then a hash; two
\* atoms, the first of which may also be the name of a stage.  stageAliasBase()
\* is the key, as known before resolve().
Slug(path) == <<path.loc, path.ident>>
Alias(src) == Slug(Key(src))

Finish(code, chain) ==
    /\ verdict' = [code |-> code, chain |-> chain]
    /\ UNCHANGED <<control, output>>

SetTop(frame) == stack' = [stack EXCEPT ![Len(stack)] = frame]
AppendLines(more) == lines' = [lines EXCEPT ![Len(lines)] = @ \o more]

\* The content tryWithExtension finds: the path itself, else the path with
\* the default extension.
Found(loc, ext) == IF world[loc] = Absent THEN ext[loc] ELSE loc

\* Variant, against OpenOnce and LapsBounded: a processor does not hand the
\* includeChain down.
FrameWithoutChain(src, how, target, alias, chain, scope) ==
    [src |-> src, key |-> src, how |-> how, target |-> target, alias |-> alias,
     chain |-> <<>>, scope |-> scope, file |-> src.loc, pc |-> 0, phase |-> "called"]

\* Variant, against ContextIsStack: the scope is not handed down.
FrameWithoutScope(src, how, target, alias, chain, scope) ==
    [src |-> src, key |-> src, how |-> how, target |-> target, alias |-> alias,
     chain |-> chain, scope |-> <<>>, file |-> src.loc, pc |-> 0, phase |-> "called"]

Frame(src, how, target, alias, chain, scope) ==
    [src |-> src, key |-> src, how |-> how, target |-> target, alias |-> alias,
     chain |-> chain, scope |-> scope, file |-> src.loc, pc |-> 0, phase |-> "called"]

Init ==
    /\ world \in Worlds
    /\ resolved = [r \in Repo |-> NoIdent]
    /\ cloned = [r \in Repo |-> NoIdent]
    /\ stack = <<Frame(LocalSrc(Root), "ROOT", NoStage, NoName, <<>>, <<>>)>>
    /\ lines = << <<>> >>
    /\ verdict = Running
    /\ output = <<>>

-----------------------------------------------------------------------------
(***************************************************************************)
(* Entering a file: depth guard, identity, cycle guard, content.           *)
(***************************************************************************)
Enters(phase) == verdict = Running /\ Top.phase = phase

DepthExceeded ==
    /\ Enters("called")
    /\ Nesting > MaxIncludeDepth
    /\ Finish("include-depth-exceeded", Top.chain)

NeedsIdent(src) == RepoOf[src.loc] # NoRepo /\ src.ident = NoIdent

Keyed(src) == SetTop([Top EXCEPT !.src = src, !.key = Key(src), !.phase = "keyed"])

Resolve ==
    /\ Enters("called")
    /\ Nesting <= MaxIncludeDepth
    /\ IF NeedsIdent(Top.src)
       THEN LET repo == RepoOf[Top.src.loc] IN
            \E oid \in IF resolved[repo] = NoIdent THEN Ident ELSE {resolved[repo]} :
                /\ resolved' = [resolved EXCEPT ![repo] = oid]
                /\ Keyed([Top.src EXCEPT !.ident = oid])
       ELSE Keyed(Top.src) /\ UNCHANGED resolved
    /\ UNCHANGED <<world, cloned, lines, verdict, output>>

\* git ls-remote or oras fails: an error no one has given a code, except a
\* malformed OCI digest.
ResolveFails ==
    /\ Enters("called")
    /\ Nesting <= MaxIncludeDepth
    /\ NeedsIdent(Top.src)
    /\ resolved[RepoOf[Top.src.loc]] = NoIdent
    /\ \E code \in {"failed", "remote-fetch-failed"} : Finish(code, <<>>)

CycleDetected ==
    /\ Enters("keyed")
    /\ Contains(Top.chain, Top.key)
    /\ Finish("include-cycle", Append(Top.chain, Top.key))

\* The identity read() leaves in the source: that of the clone for git.  What
\* oras pulls has no index.json that would tell another one.
ReadIdents(src) ==
    LET repo == RepoOf[src.loc] IN
    IF repo \notin GitRepo THEN {src.ident}
    ELSE IF cloned[repo] = NoIdent THEN Ident ELSE {cloned[repo]}

\* ensureRepo's entry is kept for the rest of the run.
Remember(src, ident) ==
    cloned' = IF RepoOf[src.loc] \in GitRepo
              THEN [cloned EXCEPT ![RepoOf[src.loc]] = ident] ELSE cloned

Open ==
    LET file == Found(Top.src.loc, WithDockerfile) IN
    /\ Enters("keyed")
    /\ ~Contains(Top.chain, Top.key)
    /\ world[file] \in Body
    /\ \E ident \in ReadIdents(Top.src) :
        /\ Remember(Top.src, ident)
        /\ SetTop([Top EXCEPT !.src.ident = ident,
                              !.file = file,
                              !.scope = Append(@, DisplayPath([Top.src EXCEPT !.ident = ident], file)),
                              !.chain = Append(@, Top.key),
                              !.pc = 1,
                              !.phase = "expanding"])
    /\ UNCHANGED <<world, resolved, lines, verdict, output>>

\* Variant, against TypeOK: the error of the system is taken for a code.
ReadErrorRaw(file) ==
    CASE world[file] = Absent     -> "missing-file"
      [] world[file] = Unreadable -> "EISDIR"

ReadError(file) ==
    CASE world[file] = Absent     -> "missing-file"
      [] world[file] = Unreadable -> "failed"

\* Variant, against Terminates: a failed read is tried again, without end.
ReadFailsRetried ==
    /\ Enters("keyed")
    /\ ~Contains(Top.chain, Top.key)
    /\ world[Found(Top.src.loc, WithDockerfile)] \notin Body
    /\ SetTop([Top EXCEPT !.phase = "called"])
    /\ UNCHANGED <<world, resolved, cloned, lines, verdict, output>>

\* What a remote source throws: the network, a miss, a symlink that leads out.
RemoteErrors == {"failed", "remote-fetch-failed", "remote-file-not-found", "path-traversal"}

ReadFails ==
    LET file == Found(Top.src.loc, WithDockerfile) IN
    /\ Enters("keyed")
    /\ ~Contains(Top.chain, Top.key)
    /\ IF Top.src.loc \in Remote
       THEN \E code \in RemoteErrors : Finish(code, <<>>)
       ELSE world[file] \notin Body /\ Finish(ReadError(file), <<>>)

-----------------------------------------------------------------------------
(***************************************************************************)
(* Expanding a file: one action per instruction processor.                 *)
(***************************************************************************)
Text   == world[Top.file]
Instr  == Text[Top.pc]
AtInstr(ops) ==
    /\ Enters("expanding")
    /\ Top.pc \in DOMAIN Text
    /\ Instr.op \in ops

\* _DEFAULT, and the FROM, COPY and ADD that name no file.
Keep ==
    /\ AtInstr({"FROM", "COPY", "MOUNT", "RUN", "ARG"})
    /\ AppendLines(<<Instr>>)
    /\ SetTop([Top EXCEPT !.pc = @ + 1])
    /\ UNCHANGED <<world, resolved, cloned, verdict, output>>

\* Variant, against IdentityKnown: every reference inherits, relative or not.
ChildAlwaysInherits(instr) == [loc |-> instr.to, ident |-> Top.src.ident]

\* resolveSource: a relative reference inherits the identity of its parent.
Child(instr) ==
    [loc |-> instr.to, ident |-> IF instr.rel THEN Top.src.ident ELSE NoIdent]

\* The source of the reference is made before anything is awaited.
RefRejected ==
    /\ AtInstr(CallOps \cup EnvOps)
    /\ Instr.to \in Rejected
    /\ \E code \in {"path-traversal", "failed"} : Finish(code, <<>>)

Call ==
    /\ AtInstr(CallOps)
    /\ Instr.to \notin Rejected
    /\ LET child == Child(Instr)
       IN  /\ stack' = Append(stack, Frame(child, Instr.op, Instr.target,
                                           Alias(child), Top.chain, Top.scope))
           /\ lines' = Append(lines, <<>>)
    /\ UNCHANGED <<world, resolved, cloned, verdict, output>>

\* generateIncluded
Marked(body, how, file, by) ==
    LET Marker(op) == [op |-> op, file |-> file, by |-> by, how |-> how]
    IN  <<Marker("START")>> \o body \o <<Marker("END")>>

\* INCLUDE_ARGS, INCLUDE_ENVS, INCLUDE_LABELS only read(): no resolve(), no
\* depth guard, no cycle guard, no frame.
EnvLine(instr, file) ==
    [op |-> IF instr.op = "INCLUDE_ARGS" THEN "ARG" ELSE "RUN", raw |-> <<instr.op, file>>]

\* A relative reference in a remote file keeps the extension of its parent:
\* only LocalSource has a withDefaultExtension.
EnvFile(instr) ==
    Found(instr.to, IF instr.rel /\ instr.to \in Remote THEN WithDockerfile ELSE WithEnv)

IncludeEnv ==
    LET child == Child(Instr)
        file  == EnvFile(Instr)
    IN
    /\ AtInstr(EnvOps)
    /\ Instr.to \notin Rejected
    /\ world[file] \in Body
    /\ \E ident \in ReadIdents(child) : Remember(child, ident)
    /\ AppendLines(Marked(<<EnvLine(Instr, file)>>, "include", child.loc, Top.file))
    /\ SetTop([Top EXCEPT !.pc = @ + 1])
    /\ UNCHANGED <<world, resolved, verdict, output>>

IncludeEnvFails ==
    LET file == EnvFile(Instr) IN
    /\ AtInstr(EnvOps)
    /\ Instr.to \notin Rejected
    /\ IF Instr.to \in Remote
       THEN \E code \in RemoteErrors : Finish(code, <<>>)
       ELSE world[file] \notin Body /\ Finish(ReadError(file), <<>>)

-----------------------------------------------------------------------------
(***************************************************************************)
(* Leaving a file: postProcessDockerfile, then the tail of the processor   *)
(* that was waiting for the content.                                       *)
(***************************************************************************)
\* Variant, against OkMeansExpandable: the last instruction is skipped.
AtEndTooEarly == Enters("expanding") /\ Top.pc >= Len(Text)

AtEnd == Enters("expanding") /\ Top.pc \notin DOMAIN Text

Context ==
    [target        |-> Top.target,
     alias         |-> Top.alias,
     prefix        |-> Slug(DisplayPath(Top.src, Top.file)),
     isRootFile    |-> Top.how = "ROOT",
     isRootInclude |-> Top.how = "INCLUDE" /\ Nesting = 1]

\* Variant, against CopySourcesAbove: the stages are put below the COPY.
IntegrateBelow(instr, alias, before, body) ==
    CASE instr.op = "IMPORT" ->
            before \o body
                   \o <<FromLine(alias, IF instr.as = NoName THEN FinalStage ELSE instr.as)>>
      [] instr.op = "COPYFILE" -> before \o <<CopyLine(alias, instr.raw)>> \o body
      [] instr.op = "INCLUDE" -> before \o body

\* What the waiting instruction makes of the text of the file it asked for.
Integrate(instr, alias, before, body) ==
    CASE instr.op = "IMPORT" ->
            before \o body
                   \o <<FromLine(alias, IF instr.as = NoName THEN FinalStage ELSE instr.as)>>
      [] instr.op = "COPYFILE" ->
            body \o before \o <<CopyLine(alias, instr.raw)>>
      [] instr.op = "INCLUDE" ->
            before \o body

IncludeType(op) ==
    CASE op = "IMPORT" -> "from" [] op = "COPYFILE" -> "fromParam" [] op = "INCLUDE" -> "include"

\* Variant, against ErrorsAreReal: the includeChain is one array that all files
\* push to, so that a file that was left is taken for one that is open.
ReturnSharingChain ==
    LET n      == Len(stack)
        parent == stack[n - 1]
        instr  == world[parent.file][parent.pc]
        body   == Marked(PostProcess(lines[n], Context), IncludeType(instr.op),
                         Top.src.loc, parent.file)
    IN
    /\ AtEnd
    /\ n > 1
    /\ TargetFound(lines[n], Context)
    /\ stack' = [SubSeq(stack, 1, n - 1) EXCEPT ![n - 1].pc = @ + 1, ![n - 1].chain = Top.chain]
    /\ lines' = [SubSeq(lines, 1, n - 1)
                    EXCEPT ![n - 1] = Integrate(instr, Top.alias, @, body)]
    /\ UNCHANGED <<world, resolved, cloned, verdict, output>>

Return ==
    LET n      == Len(stack)
        parent == stack[n - 1]
        instr  == world[parent.file][parent.pc]
        body   == Marked(PostProcess(lines[n], Context), IncludeType(instr.op),
                         Top.src.loc, parent.file)
    IN
    /\ AtEnd
    /\ n > 1
    /\ TargetFound(lines[n], Context)
    /\ stack' = [SubSeq(stack, 1, n - 1) EXCEPT ![n - 1].pc = @ + 1]
    /\ lines' = [SubSeq(lines, 1, n - 1)
                    EXCEPT ![n - 1] = Integrate(instr, Top.alias, @, body)]
    /\ UNCHANGED <<world, resolved, cloned, verdict, output>>

\* postProcessDockerfile throws an error that carries no code.
TargetMissing ==
    /\ AtEnd
    /\ ~TargetFound(lines[Len(stack)], Context)
    /\ Finish("failed", <<>>)

Write ==
    /\ AtEnd
    /\ Len(stack) = 1
    /\ output' = RedeclareArgTop(PostProcess(lines[1], Context))
    /\ verdict' = [code |-> "ok", chain |-> <<>>]
    /\ UNCHANGED control

Done == verdict # Running /\ UNCHANGED vars

Step ==
    \/ DepthExceeded \/ Resolve \/ ResolveFails \/ CycleDetected
    \/ Open \/ ReadFails
    \/ Keep \/ RefRejected \/ Call \/ IncludeEnv \/ IncludeEnvFails
    \/ Return \/ TargetMissing \/ Write

Next == Step \/ Done

\* The event loop always resumes the pending await, and every await ends
\* (spawnCmd and axios have timeouts), so the call on top makes progress.  This
\* is weak fairness of Step, spelt out: TLC takes long to evaluate ENABLED Step,
\* and Step is enabled exactly while the expansion is running, or TLC would
\* report a deadlock.
Fairness == []<>(verdict # Running) \/ []<><<Step>>_vars

Spec == Init /\ [][Next]_vars /\ Fairness

-----------------------------------------------------------------------------
(***************************************************************************)
(* Properties                                                              *)
(***************************************************************************)
Expanding == {i \in DOMAIN stack : stack[i].phase = "expanding"}

FrameType ==
    [src    : Source,
     key    : Source,
     how    : CallOps \cup {"ROOT"},
     target : Target,
     alias  : (Loc \X (Ident \cup {NoIdent})) \cup {NoName},
     chain  : Seq(Source),
     scope  : Seq(Source),
     file   : Loc,
     pc     : Nat,
     phase  : Phases]

\* The state is made of what the code can hold, and of the pending calls only
\* the last has yet to open its file.
TypeOK ==
    /\ world \in [Loc -> Body \cup {Absent, Unreadable}]
    /\ resolved \in [Repo -> Ident \cup {NoIdent}]
    /\ cloned \in [Repo -> Ident \cup {NoIdent}]
    /\ stack \in Seq(FrameType) \ {<<>>}
    /\ \A i \in DOMAIN stack : i < Len(stack) => stack[i].phase = "expanding"
    /\ verdict \in [code : Codes \cup {"running"}, chain : Seq(Source)]

\* A file whose instructions are being expanded is never opened again below
\* itself: the keys of the open files are pairwise distinct.
OpenOnce ==
    \A i, j \in Expanding : stack[i].key = stack[j].key => i = j

\* Of a moving reference a run knows one identity from resolve() and, for git,
\* one from the clone; whatever is handed down to relative references, no file
\* carries a third one.
KnownIdents(loc) ==
    IF RepoOf[loc] = NoRepo THEN {NoIdent}
    ELSE {resolved[RepoOf[loc]]} \cup
         IF RepoOf[loc] \in GitRepo THEN {cloned[RepoOf[loc]]} ELSE {}

IdentityKnown ==
    \A i \in Expanding :
        /\ stack[i].key.ident \in KnownIdents(stack[i].key.loc)
        /\ stack[i].src.ident \in KnownIdents(stack[i].key.loc)

\* So a loop through a reference that moves during the run is caught, on the
\* second lap at the latest.
LapsBounded ==
    \A l \in Loc :
        Cardinality({i \in Expanding : stack[i].key.loc = l})
            <= IF RepoOf[l] \in GitRepo THEN 2 ELSE 1

\* However the files refer to each other, at most MaxIncludeDepth + 1 of them
\* are open, so the recursion cannot exhaust the call stack.
DepthBounded ==
    /\ Len(stack) <= MaxIncludeDepth + 2
    /\ \A i \in Expanding : i <= MaxIncludeDepth + 1

\* The chain and the scope a call carries name exactly the calls it is nested
\* in, although the arrays are handed down, copied and pushed to on the way:
\* no sibling that has returned leaves an entry behind.
ContextIsStack ==
    \A i \in DOMAIN stack :
        LET open == IF i \in Expanding THEN i ELSE i - 1 IN
        /\ stack[i].chain = [j \in 1..open |-> stack[j].key]
        /\ stack[i].scope = [j \in 1..open |-> DisplayPath(stack[j].src, stack[j].file)]

\* The file l, as it was opened, contains an instruction that loads m.
Loads(l, m) ==
    LET text == world[Found(l, WithDockerfile)] IN
    /\ text \notin {Absent, Unreadable}
    /\ \E i \in DOMAIN text : text[i].op \in CallOps /\ text[i].to = m

IsWalk(chain) ==
    /\ chain # <<>>
    /\ chain[1].loc = Root
    /\ \A i \in 1..(Len(chain) - 1) : Loads(chain[i].loc, chain[i + 1].loc)

\* The chain of an include-cycle error is a real walk along the instructions
\* of the files, from the root to a file that it had already passed: a file
\* included twice by different branches is not mistaken for a cycle.
CycleIsReal ==
    verdict.code = "include-cycle" =>
        /\ IsWalk(verdict.chain)
        /\ \E i \in 1..(Len(verdict.chain) - 1) :
                verdict.chain[i] = verdict.chain[Len(verdict.chain)]

\* An include-depth-exceeded error reports a real walk, of one file more than
\* the limit allows below the root, and no file twice in it.
DepthIsReal ==
    verdict.code = "include-depth-exceeded" =>
        /\ IsWalk(verdict.chain)
        /\ Len(verdict.chain) = MaxIncludeDepth + 1
        /\ \A i, j \in DOMAIN verdict.chain : verdict.chain[i] = verdict.chain[j] => i = j

\* What the references in the files ask for is there, among the files, and no
\* group of them keeps including its own members.
Expandable(files) ==
    /\ \A l \in files :
        LET text == world[Found(l, WithDockerfile)] IN
        /\ text \in Body
        /\ \A i \in DOMAIN text :
            /\ text[i].op \in CallOps \cup EnvOps => text[i].to \notin Rejected
            /\ text[i].op \in CallOps => text[i].to \in files
            /\ text[i].op \in EnvOps => world[EnvFile(text[i])] \in Body
    /\ \A group \in (SUBSET files) \ {{}} :
            \E l \in group : \A m \in group : ~Loads(l, m)

\* The command succeeds only if every file it can reach can be read and the
\* includes come to an end: it skips nothing on the way, whatever it finds to
\* have opened before.
OkMeansExpandable ==
    verdict.code = "ok" =>
        \E files \in SUBSET Loc : Root \in files /\ Expandable(files)

\* The files the includes lead to from the root: those that are in every set that
\* has the root and that no include leads out of.
TextOf(loc) == world[Found(loc, WithDockerfile)]

Reached ==
    {l \in Loc : \A files \in SUBSET Loc :
        \/ l \in files \/ Root \notin files
        \/ \E k \in files : \E m \in Loc \ files : Loads(k, m)}

\* The instructions of these files, and what they ask for, as found.
Followed ==
    UNION {{TextOf(l)[i] : i \in DOMAIN TextOf(l)} : l \in {k \in Reached : TextOf(k) \in Body}}

FileFor(instr) ==
    IF instr.op \in CallOps THEN Found(instr.to, WithDockerfile) ELSE EnvFile(instr)

Asked ==
    {[loc |-> Root, file |-> Found(Root, WithDockerfile)]} \cup
    {[loc |-> instr.to, file |-> FileFor(instr)] :
        instr \in {i \in Followed : i.op \in CallOps \cup EnvOps}}

FromElsewhere(loc) == loc \in Remote \/ RepoOf[loc] # NoRepo

\* An error has its reason in the files, however the command came across it: a
\* missing file is one that is asked for and not there, the errors of a remote
\* source need a reference to one, and what has no code is a reference that is
\* refused, a file that cannot be read, or a stage that was asked for by name.
FailureIsReal ==
    /\ verdict.code = "missing-file" =>
            \E a \in Asked : a.loc \notin Remote /\ world[a.file] = Absent
    /\ verdict.code \in {"remote-file-not-found", "remote-fetch-failed"} =>
            \E a \in Asked : FromElsewhere(a.loc)
    /\ verdict.code = "path-traversal" =>
            \E a \in Asked : a.loc \in Remote \cup Rejected
    /\ verdict.code = "failed" =>
            \/ \E a \in Asked : \/ FromElsewhere(a.loc) \/ a.loc \in Rejected
                               \/ world[a.file] = Unreadable
            \/ \E i \in Followed : i.op \in CallOps /\ i.target # NoStage

\* So no error is raised in vain: with the two above, every one of them is true of
\* the files.
ErrorsAreReal == CycleIsReal /\ DepthIsReal /\ FailureIsReal

\* The line an instruction has become, apart from the stages it names.
Becomes(instr, line) ==
    CASE instr.op \in {"RUN", "ARG"}    -> line = instr
      [] instr.op \in {"COPY", "MOUNT"} -> line.op = instr.op /\ line.raw = instr.raw
      [] instr.op = "COPYFILE"          -> line.op = "COPY" /\ line.raw = instr.raw
      [] instr.op \in EnvOps            -> line = EnvLine(instr, EnvFile(instr))

Lasting == {"RUN", "ARG", "COPY", "MOUNT", "COPYFILE"} \cup EnvOps

\* Of all the files the includes lead to, no instruction is lost: whatever is
\* scoped, dropped as repeated, moved or renamed on the way, each of them has its
\* line in the text that is written.
NothingSkipped ==
    verdict.code = "ok" =>
        \A l \in Reached : \A i \in DOMAIN TextOf(l) :
            TextOf(l)[i].op \in Lasting =>
                \E k \in DOMAIN output : Becomes(TextOf(l)[i], output[k])

\* The ARGs a file declares before its first stage, to be used in its FROM lines:
\* what a file it includes declares belongs to the stages that one may begin, and
\* the stages of a file it copies from are put above its own ARGs.
GlobalArgs(text) ==
    {text[i] : i \in {j \in DOMAIN text :
        /\ text[j].op = "ARG"
        /\ \A k \in DOMAIN text : text[k].op # "COPYFILE"
        /\ \A k \in 1..j : text[k].op \notin {"FROM", "IMPORT", "INCLUDE"}}}

\* They are above every stage in the text that is written, for the root and for
\* every file that is imported from anywhere: those of an import are repeated at
\* the top, however deep it is nested, and stay marked as belonging to it through
\* all that is done to the text on the way there.
AboveEveryStage(line) ==
    \E k \in DOMAIN output : output[k] = line /\ \A j \in 1..k : ~IsFrom(output[j])

ImportedArgsStayGlobal ==
    verdict.code = "ok" =>
        \A arg \in GlobalArgs(TextOf(Root)) \cup
                   UNION {GlobalArgs(TextOf(m)) : m \in {n \in Loc :
                       \E l \in Reached : \E i \in DOMAIN TextOf(l) :
                           TextOf(l)[i].op \in {"IMPORT", "COPYFILE"} /\ TextOf(l)[i].to = n}} :
            AboveEveryStage(arg)

\* Every run ends, even when files include each other.
Terminates == <>(verdict # Running)

=============================================================================
