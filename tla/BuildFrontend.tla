--------------------------- MODULE BuildFrontend ---------------------------
(***************************************************************************)
(* The BuildKit frontend: proxy.ReadFile hands the text of the main        *)
(* Dockerfile to loadDockerfileX, which runs the command on a temporary    *)
(* copy of it in an empty working directory.  Each time the command misses *)
(* a local file, the frontend reads that file from the build context,      *)
(* writes it to the working directory and runs the command again.          *)
(*                                                                         *)
(* The read goes through the proxied client too, so a file of the context  *)
(* that has the name of the main Dockerfile is transformed in turn: the    *)
(* transforms in progress are a stack.                                     *)
(***************************************************************************)
EXTENDS Naturals, SequencesExt

CONSTANTS
    Path,            \* File names, relative to the build context.
    NoPath,          \* Not one of them.
    Elsewhere,       \* What a remote reference names.
    Main,            \* The "filename" option: the file BuildKit asks for.
    WithDockerfile,  \* The name with ".dockerfile" appended, if it lacks it.
    WithEnv,         \* The name with ".env" appended, if it lacks it.
    Above,           \* The directories a file is in.
    Content,         \* The texts of files: whose they are, what they refer to.
    Empty,           \* The empty text.
    Absent,          \* No such file.
    Builds,          \* The build contexts considered, each with its main Dockerfile.
    MaxIncludeDepth, \* How deep the command lets Dockerfiles nest: 32, unless set.
    MaxNesting       \* Bound on nested transforms.

\* The output of the command refers to no other file.
Expanded(text) == [text EXCEPT !.refs = <<>>]
Texts == Content \cup {Expanded(c) : c \in Content} \cup {Empty}

ASSUME NameAssumption ==
    /\ IsFiniteSet(Path)
    /\ Main \in Path
    /\ {NoPath, Elsewhere} \cap Path = {}
    /\ WithDockerfile \in [Path -> Path]
    /\ \A p, q \in Path : WithDockerfile[p] = WithDockerfile[q] =>
            p = q \/ p = WithDockerfile[p] \/ q = WithDockerfile[q]
    /\ \A p \in Path : WithDockerfile[WithDockerfile[p]] = WithDockerfile[p]
    /\ WithEnv \in [Path -> Path]
    /\ Above \in [Path -> SUBSET Path]

ASSUME TextAssumption ==
    /\ \A c \in Content :
            c \in [of : {c.of}, refs : Seq([to : Path \cup {Elsewhere}, env : BOOLEAN])]
    /\ Empty.refs = <<>>
    /\ Absent \notin Texts
    /\ Builds \subseteq [files : [Path -> Content \cup {Absent}], main : Content]

\* A build context is a tree: what a file is in is no file.
ASSUME TreeAssumption ==
    \A b \in Builds : \A p \in Path :
        b.files[p] # Absent => \A q \in Above[p] : b.files[q] = Absent

ASSUME BoundAssumption ==
    MaxNesting \in Nat /\ MaxIncludeDepth \in Nat \ {0}

VARIABLES
    build,    \* The files of the build context, and the main Dockerfile.
    disk,     \* The working directory of the frontend.
    temp,     \* Its files dockerfile_<seconds>.
    stack,    \* The transforms that have not returned.
    outcome,  \* What became of the first of them.
    \* What went wrong on the way, for the properties only:
    started,  \* The command has started each time it was run.
    killed,   \* It once exited with a status that its files do not account for.
    unread,   \* The files of the context that a read of failed.
    shared    \* A nested transform began in the same second as the one it is nested in.

history == <<started, killed, unread, shared>>
vars == <<build, disk, temp, stack, outcome, history>>

Running == [code |-> "running", text |-> Empty]
Reasons == {"unparsable", "reported", "same-missing-file", "not-read", "unknown-error"}

Top == stack[Len(stack)]
SetTop(frame) == stack' = [stack EXCEPT ![Len(stack)] = frame]

\* writeTempLocalFile names the copy after the second it is made in.
Transform(second) == [temp |-> second, last |-> NoPath, reading |-> NoPath, failed |-> "no"]

Init ==
    /\ build \in Builds
    /\ disk = [p \in Path |-> Absent]
    /\ temp = [s \in 0..MaxNesting |-> IF s = 0 THEN build.main ELSE Absent]
    /\ stack = <<Transform(0)>>
    /\ outcome = Running
    /\ started = TRUE
    /\ killed = FALSE
    /\ unread = {}
    /\ shared = FALSE

-----------------------------------------------------------------------------
(***************************************************************************)
(* One run of the command, as far as the frontend can tell: the first      *)
(* problem met when the local files are expanded depth first.              *)
(*                                                                         *)
(* Errors that report a chain of files are of one kind: a file that is     *)
(* below itself, and a file below more files than may be.  To follow a     *)
(* cycle until it is too deep meets no other problem first, because the    *)
(* second lap is the first over again.                                     *)
(***************************************************************************)
Problem(kind, path) == [kind |-> kind, path |-> path]
Fine == Problem("none", NoPath)
ChainError == Problem("chain", NoPath)

IsDirectory(files, p) == \E q \in Path : files[q] # Absent /\ p \in Above[q]
BehindFile(files, p)  == \E q \in Above[p] : files[q] # Absent

\* LocalSource.read: EISDIR and ENOTDIR are not ENOENT, and have no code of
\* the command's own.
Lookup(files, p, ext) ==
    LET candidate == IF files[p] = Absent /\ ~IsDirectory(files, p) THEN ext[p] ELSE p
    IN  CASE IsDirectory(files, candidate) \/ BehindFile(files, p) -> Problem("uncoded", NoPath)
          [] OTHER -> IF files[candidate] = Absent THEN Problem("missing-file", p)
                      ELSE Problem("none", candidate)

\* Dockerfiles may nest "left" levels deeper.  Whether they may is asked before
\* anything is read; an environment file is not a level.
RefProblem(files, ref, left, below) ==
    LET at == Lookup(files, ref.to, IF ref.env THEN WithEnv ELSE WithDockerfile) IN
    CASE left = 0 /\ ~ref.env -> ChainError
      [] left # 0 \/ ref.env  -> IF ref.to = Elsewhere THEN Fine
                                 ELSE IF at.kind # "none" THEN at
                                 ELSE IF ref.env THEN Fine ELSE below[at.path]

FirstProblem(files, refs, left, below) ==
    LET met == {m \in {[at |-> i, problem |-> RefProblem(files, refs[i], left, below)] : i \in DOMAIN refs} :
                    m.problem # Fine}
    IN  IF met = {} THEN Fine ELSE (CHOOSE m \in met : \A o \in met : m.at <= o.at).problem

\* In each file, when the problems of the files one level deeper are "below".
OneUp(files, left, below) ==
    [p \in Path |-> IF files[p] = Absent THEN Fine
                    ELSE FirstProblem(files, files[p].refs, left, below)]

\* Nothing is looked up below the last level.
ProblemIn(files, left) ==
    LET In[n \in 0..left] ==
            OneUp(files, n, IF n = 0 THEN [p \in Path |-> Fine] ELSE In[n - 1])
    IN  In[left]

Command(files, text, limit) ==
    FirstProblem(files, text.refs, limit, ProblemIn(files, limit - 1))

RefersElsewhere(text) == \E i \in DOMAIN text.refs : text.refs[i].to = Elsewhere

-----------------------------------------------------------------------------
(***************************************************************************)
(* The loop of tryDockerfileXProcessFile.                                  *)
(***************************************************************************)
Text   == temp[Top.temp]
Result == Command(disk, Text, MaxIncludeDepth)

AboutToRun ==
    /\ outcome = Running
    /\ Top.failed = "no"
    /\ Top.reading = NoPath

Fail(reason) ==
    /\ SetTop([Top EXCEPT !.failed = reason])
    /\ UNCHANGED <<build, disk, temp, outcome>>

\* The transform on top returns a text: to BuildKit, or to the read of the
\* transform below it, which writes the file and goes on.
Return(text) ==
    IF Len(stack) = 1
    THEN /\ outcome' = [code |-> "ok", text |-> text]
         /\ UNCHANGED <<build, disk, temp, stack>>
    ELSE /\ disk' = [disk EXCEPT ![Main] = text]
         /\ stack' = [Front(stack) EXCEPT ![Len(stack) - 1].reading = NoPath]
         /\ UNCHANGED <<build, temp, outcome>>

\* Variant, against OkMeansExpandable: a file that stays missing is left out.
RunSucceedsAnyway ==
    /\ AboutToRun
    /\ Result = Fine \/ Result.path = Top.last
    /\ Return(Expanded(Text))
    /\ UNCHANGED history

RunSucceeds ==
    /\ AboutToRun
    /\ Result = Fine
    /\ Return(Expanded(Text))
    /\ UNCHANGED history

\* cmd.Run returns an error that is not an ExitError: exitCode stays 0 and
\* stdout is empty.
RunNeverStarts ==
    /\ AboutToRun
    /\ Return(Empty)
    /\ started' = FALSE
    /\ UNCHANGED <<killed, unread, shared>>

\* Any other exit code than 0 and 2: an error without a code of the command's
\* own, or, whatever the files are, a command that is killed (its status is -1)
\* or stopped by its environment.
RunFails ==
    /\ AboutToRun
    /\ Fail("unknown-error")
    /\ killed' = (killed \/ Result.kind # "uncoded")
    /\ UNCHANGED <<started, unread, shared>>

\* The payload has a "chain", which is no string: json.Unmarshal fails.
RunReportsChain ==
    /\ AboutToRun
    /\ Result.kind = "chain"
    /\ Fail("unparsable")
    /\ UNCHANGED history

\* The codes of remote sources come with strings only.
RunReports ==
    /\ AboutToRun
    /\ \E text \in {Text} \cup ({disk[p] : p \in Path} \ {Absent}) : RefersElsewhere(text)
    /\ Fail("reported")
    /\ UNCHANGED history

\* Variant, against Terminates: nothing remembers which file was missing last.
RunMissesAgain ==
    /\ AboutToRun
    /\ Result.kind = "missing-file"
    /\ SetTop([Top EXCEPT !.last = Result.path, !.reading = Result.path])
    /\ UNCHANGED <<build, disk, temp, outcome, history>>

RunMisses ==
    /\ AboutToRun
    /\ Result.kind = "missing-file"
    /\ IF Result.path = Top.last
       THEN Fail("same-missing-file")
       ELSE /\ SetTop([Top EXCEPT !.last = Result.path, !.reading = Result.path])
            /\ UNCHANGED <<build, disk, temp, outcome>>
    /\ UNCHANGED history

Reads(p) ==
    /\ outcome = Running
    /\ Top.failed = "no"
    /\ Top.reading = p

\* Variant, against TypeOK: the file is written under the name that was
\* reported missing, not under the one it was found with.
FetchAsReported(p) ==
    /\ Reads(p)
    /\ p # Main
    /\ build.files[p] # Absent
    /\ disk' = [disk EXCEPT ![Top.last] = build.files[p]]
    /\ SetTop([Top EXCEPT !.reading = NoPath])
    /\ UNCHANGED <<build, temp, outcome, history>>

\* loadFileFromContext, MkdirAll and WriteFile.  What is on disk comes from one
\* tree, the context, so the directory can be made.
Fetch(p) ==
    /\ Reads(p)
    /\ p # Main
    /\ build.files[p] # Absent
    /\ disk' = [disk EXCEPT ![p] = build.files[p]]
    /\ SetTop([Top EXCEPT !.reading = NoPath])
    /\ UNCHANGED <<build, temp, outcome, history>>

\* proxy.ReadFile: a file of that name is transformed, whoever reads it.  Its
\* copy replaces that of the transform below if the second is the same.
FetchTransformed ==
    /\ Reads(Main)
    /\ build.files[Main] # Absent
    /\ Len(stack) <= MaxNesting
    /\ \E second \in {Top.temp, Top.temp + 1} :
        /\ temp' = [temp EXCEPT ![second] = build.files[Main]]
        /\ stack' = Append(stack, Transform(second))
        /\ shared' = (shared \/ second = Top.temp)
    /\ UNCHANGED <<build, disk, outcome, started, killed, unread>>

\* Variant, against NeverFailsInVain: the name with the extension is not tried.
NextNameNone(frame, reason) == [frame EXCEPT !.failed = reason]

\* The second and last try is the name with the default extension.
NextName(frame, reason) ==
    IF WithDockerfile[frame.reading] = frame.reading
    THEN [frame EXCEPT !.failed = reason]
    ELSE [frame EXCEPT !.reading = WithDockerfile[@]]

\* Whatever keeps the file from being read, that it is not there or any other
\* error on the way to the context, the next name is tried.
FetchFails(p) ==
    /\ Reads(p)
    /\ SetTop(NextName(Top, "not-read"))
    /\ unread' = unread \cup {q \in {p} : build.files[q] # Absent}
    /\ UNCHANGED <<build, disk, temp, outcome, started, killed, shared>>

\* The error of a nested transform is an error of the read that started it.
ReturnError ==
    /\ outcome = Running
    /\ Top.failed # "no"
    /\ IF Len(stack) = 1
       THEN outcome' = [code |-> Top.failed, text |-> Empty] /\ UNCHANGED stack
       ELSE LET n == Len(stack) - 1
            IN  /\ stack' = [Front(stack) EXCEPT ![n] = NextName(stack[n], Top.failed)]
                /\ UNCHANGED outcome
    /\ UNCHANGED <<build, disk, temp, history>>

Done == outcome # Running /\ UNCHANGED vars

Step ==
    \/ RunSucceeds \/ RunNeverStarts \/ RunFails \/ RunReportsChain \/ RunReports \/ RunMisses
    \/ \E p \in Path : Fetch(p) \/ FetchFails(p)
    \/ FetchTransformed \/ ReturnError

Next == Step \/ Done

\* A sequential program: it goes on as long as it can.
Spec == Init /\ [][Next]_vars /\ WF_vars(Step)

-----------------------------------------------------------------------------
(***************************************************************************)
(* Properties                                                              *)
(***************************************************************************)
\* The working directory is never left with a name that is both a file and a
\* directory, and has nothing the context has not.
DiskIsTree ==
    \A p \in Path :
        disk[p] # Absent =>
            /\ build.files[p] # Absent
            /\ ~BehindFile(disk, p)
            /\ ~IsDirectory(disk, p)

FrameType ==
    [temp : 0..MaxNesting, last : Path \cup {NoPath}, reading : Path \cup {NoPath},
     failed : Reasons \cup {"no"}]

\* The state is made of what the frontend can hold, and the working directory is
\* part of the context.
TypeOK ==
    /\ build.main \in Texts
    /\ disk \in [Path -> Texts \cup {Absent}]
    /\ temp \in [0..MaxNesting -> Texts \cup {Absent}]
    /\ stack \in Seq(FrameType)
    /\ outcome \in [code : Reasons \cup {"ok", "running"}, text : Texts]
    /\ started \in BOOLEAN /\ killed \in BOOLEAN /\ shared \in BOOLEAN
    /\ unread \subseteq {p \in Path : build.files[p] # Absent}
    /\ DiskIsTree

\* What the command would say in the build context itself.
Direct == Command(build.files, build.main, MaxIncludeDepth)

\* The context without the files that the frontend failed to read.
Readable == [p \in Path |-> IF p \in unread THEN Absent ELSE build.files[p]]

\* What could not be read once is not read later.  (It can be, under its own name,
\* as an environment file, after the file with the extension has been taken for
\* it: then there is no single context that the command has seen.)
StaysUnread == \A p \in unread : disk[p] = Absent

\* A Dockerfile that was transformed in turn is a file without references to the
\* command, and the levels below it were counted from it.
DepthAllowed == IF disk[Main] = Absent THEN MaxIncludeDepth ELSE 2 * MaxIncludeDepth

ContextTexts == {build.main} \cup ({build.files[p] : p \in Path} \ {Absent})

\* A file is asked for by a name with the extension only where no file has the
\* name without it.  Else the command, which finds the first in the working
\* directory before the second has been missed, takes it for the second.
Unambiguous ==
    /\ \A text \in ContextTexts : \A i \in DOMAIN text.refs : \A p \in Path :
            text.refs[i].to = WithDockerfile[p] /\ p # WithDockerfile[p] =>
                build.files[p] = Absent
    /\ WithDockerfile[Main] # Main => build.files[WithDockerfile[Main]] = Absent

\* Fetching the missing files one by one does not make a build out of files that
\* do not make one, whichever reads fail on the way.  Where the frontend succeeds,
\* BuildKit gets the expansion of the Dockerfile it asked for, and a run of the
\* command on the files the frontend could read misses none of them, finds no
\* cycle, and finds them no deeper than allowed.  If a nested transform began in
\* the same second as the one it is nested in, and replaced its copy, it is the
\* Dockerfile of that nested transform of which all this is true.
OkMeansExpandable ==
    Unambiguous /\ StaysUnread /\ started /\ outcome.code = "ok" =>
        \E text \in {build.main} \cup {t \in {build.files[Main]} : shared /\ t # Absent} :
            /\ outcome.text = Expanded(text)
            /\ Command(Readable, text, DepthAllowed).kind \in {"none", "uncoded"}

\* No directory has the name of a file with the extension: the command, which
\* tries that name while the file is missing, would stop at it.
NoDirectoryTwin ==
    \A p \in Path : build.files[p] # Absent =>
        \A q \in {WithDockerfile[p], WithEnv[p]} : ~IsDirectory(build.files, q)

\* The frontend looks for no ".env" file, and expands the main Dockerfile whatever
\* it is asked for as: an environment file is called by its full name, and is
\* another file.
EnvInFull ==
    \A text \in ContextTexts : \A i \in DOMAIN text.refs :
        text.refs[i].env /\ text.refs[i].to # Elsewhere =>
            build.files[text.refs[i].to] # Absent /\ text.refs[i].to # Main

\* What a remote reference can make of a build: its error, or, where it was met
\* in a nested transform, that of the read of the second name, which replaces it.
RemoteErrors ==
    IF \A text \in ContextTexts : ~RefersElsewhere(text) THEN {}
    ELSE IF build.files[Main] \in {Absent, build.main} THEN {"reported"}
         ELSE {"reported", "not-read"}

\* Nothing the frontend wrote or forgot to fetch gets in the way of a build
\* that the context allows, when the context can be read and nobody kills the
\* command.
NeverFailsInVain ==
    Unambiguous /\ NoDirectoryTwin /\ EnvInFull /\ Direct = Fine /\ unread = {} /\ ~killed =>
        outcome.code \in {"running", "ok"} \cup RemoteErrors

\* The frontend stops asking: each build gets a Dockerfile or an error.
Terminates == <>(outcome # Running)

\* README, "Cycle detection": a Dockerfile that refers to itself transitively
\* is reported.  So the main Dockerfile is not expanded inside its expansion.
NoReentry ==
    \A i, j \in DOMAIN stack :
        stack[i].temp # stack[j].temp => temp[stack[i].temp] # temp[stack[j].temp]

\* README, "Error codes": the frontend distinguishes the codes of the command.
CodesDistinguished == outcome.code # "unparsable"

=============================================================================
