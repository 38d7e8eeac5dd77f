---------------------------- MODULE SourcePaths ----------------------------
(***************************************************************************)
(* Where a chain of relative references leads: each source computes the    *)
(* path of the next from its own, and refuses some.  A path is a sequence  *)
(* of steps, and what it means is what one finds by walking: "place" walks *)
(* along, and never looks at the paths.  Extensions are in IncludeLoader;  *)
(* references that end in "." or ".." name directories, which no source    *)
(* reads, and are left out.                                                *)
(***************************************************************************)
EXTENDS Naturals, SequencesExt

CONSTANTS
    Name,     \* Names of files and directories.
    Dotted,   \* Those that begin with two dots.
    Context,  \* The docker context, a place on the disk.
    Link,     \* The places in a repository or an artifact that are links, and
              \* where each leads.
    Outside,  \* Any place that is not in the repository or the artifact.
    MaxSteps, \* Bound on the steps of a reference.
    MaxPath   \* Bound on the steps of a path.

ASSUME NameAssumption ==
    /\ Name \cap {".", ".."} = {} /\ Dotted \subseteq Name
    /\ Outside \notin Seq(Name)
    /\ Context \in Seq(Name)
    /\ DOMAIN Link \subseteq Seq(Name)
    /\ \A p \in DOMAIN Link : Link[p] = Outside \/ (Link[p] \in Seq(Name) \ DOMAIN Link)
    /\ MaxSteps \in Nat /\ MaxPath \in Nat

VARIABLES
    source,  \* The source at the end of the chain.
    place,   \* Where walking along the chain leads.
    status   \* What has become of the source.

vars == <<source, place, status>>

Kinds == {"local", "http", "repo"}   \* "repo": in a git repository or an OCI artifact.
Step == Name \cup {".", ".."}
References ==
    {[rooted |-> r, steps |-> s] :
        r \in BOOLEAN, s \in {s \in SeqOf(Step, MaxSteps) : s # <<>> /\ Last(s) \in Name}}

Above(p) == IF p = <<>> THEN p ELSE Front(p)

-----------------------------------------------------------------------------
(***************************************************************************)
(* Walking: the meaning of a reference.                                    *)
(***************************************************************************)
Enter(kind, at, s) ==
    IF at = Outside \/ (s = ".." /\ at = <<>> /\ kind = "repo") THEN Outside
    ELSE IF s = "." THEN at
    ELSE IF s = ".." THEN Above(at)
    ELSE Append(at, s)

Walk(kind, from, steps) ==
    LET At[n \in 0..Len(steps)] == IF n = 0 THEN from ELSE Enter(kind, At[n - 1], steps[n])
    IN  At[Len(steps)]

-----------------------------------------------------------------------------
(***************************************************************************)
(* What the code computes.                                                 *)
(***************************************************************************)
\* path.posix.join: of a relative path, what leads out of it stays at its front.
AddRelative(path, s) ==
    IF s = "." THEN path
    ELSE IF s = ".." /\ path # <<>> /\ Last(path) # ".." THEN Front(path)
    ELSE Append(path, s)

Join(steps) ==
    LET Added[n \in 0..Len(steps)] == IF n = 0 THEN <<>> ELSE AddRelative(Added[n - 1], steps[n])
    IN  Added[Len(steps)]

\* path.join of an absolute path, path.resolve and new URL: the root is its own parent.
AddAbsolute(path, s) ==
    IF s = "." THEN path ELSE IF s = ".." THEN Above(path) ELSE Append(path, s)

Resolve(steps) ==
    LET Added[n \in 0..Len(steps)] == IF n = 0 THEN <<>> ELSE AddAbsolute(Added[n - 1], steps[n])
    IN  Added[Len(steps)]

\* Variant, against TypeOK: only the first step is looked at.
SanitizedFirst(path) == path # <<>> => path[1] # ".."

Sanitized(path) == \A i \in DOMAIN path : path[i] # ".."

Base(s) == IF s.kind = "local" THEN s.base ELSE Above(s.path)

\* Variant, against PathIsWalk: every local file refers relative to the context.
JoinRelativeToContext(s, ref) ==
    CASE s.kind = "repo" -> Join(Base(s) \o ref.steps)
      [] s.kind = "http" -> Resolve((IF ref.rooted THEN <<>> ELSE Base(s)) \o ref.steps)
      [] OTHER           -> Resolve(Context \o ref.steps)

\* A leading slash counts in URLs only.
JoinRelative(s, ref) ==
    CASE s.kind = "repo" -> Join(Base(s) \o ref.steps)
      [] s.kind = "http" -> Resolve((IF ref.rooted THEN <<>> ELSE Base(s)) \o ref.steps)
      [] OTHER           -> Resolve(Base(s) \o ref.steps)

-----------------------------------------------------------------------------
\* The root refers relative to the context, wherever it is.
Root == {[kind |-> "local", path |-> <<n>>, base |-> Context, joined |-> TRUE] : n \in Name}

Init ==
    /\ source \in Root
    /\ place = source.path
    /\ status = "read"

Opened(s) ==
    /\ source' = s
    /\ status' = IF s.kind = "repo" /\ ~Sanitized(s.path) THEN "path-traversal" ELSE "open"

\* A URL, which is normalized, or a reference to a repository, which is not.
Absolute ==
    /\ status = "read"
    /\ \E kind \in {"http", "repo"}, ref \in References :
        LET path == IF kind = "http" THEN Resolve(ref.steps) ELSE ref.steps IN
        /\ Opened([kind |-> kind, path |-> path, base |-> <<>>, joined |-> kind = "http"])
        /\ place' = Walk(kind, <<>>, ref.steps)

Relative ==
    /\ status = "read"
    /\ \E ref \in References :
        LET path == JoinRelative(source, ref)
            from == IF source.kind = "http" /\ ref.rooted THEN <<>>
                    ELSE IF source \in Root THEN Context ELSE Above(place)
        IN  /\ Len(path) <= MaxPath
            /\ Opened([kind |-> source.kind, path |-> path, base |-> Above(path), joined |-> TRUE])
            /\ place' = Walk(source.kind, from, ref.steps)

\* Where realpath finds a file.
Real(p) == IF p \in DOMAIN Link THEN Link[p] ELSE p

\* Variant, against OutsideIsRefused: links are followed unseen.
ContainedLexically(p) == p \notin {<<>>, Outside} => p[1] \notin Dotted

Contained(p) == p # Outside /\ (p # <<>> => p[1] \notin Dotted)

\* assertContained, then assertContainedReal: both take a name that begins with
\* two dots for a way out.
Admitted(p) == Contained(p) /\ Contained(Real(p))

Read ==
    /\ status = "open"
    /\ status' = IF source.kind = "repo" /\ ~Admitted(Resolve(source.path))
                 THEN "path-traversal" ELSE "read"
    /\ UNCHANGED <<source, place>>

\* Looked for after the first of the two checks.
Missing ==
    /\ status = "open"
    /\ source.kind = "repo" => Contained(Resolve(source.path))
    /\ status' = "missing"
    /\ UNCHANGED <<source, place>>

Next == Absolute \/ Relative \/ Missing \/ Read

Spec == Init /\ [][Next]_vars

-----------------------------------------------------------------------------
(***************************************************************************)
(* Properties                                                              *)
(***************************************************************************)
\* The state is made of what the sources can hold; the path of a source that can
\* still be read has no step upwards.
TypeOK ==
    /\ source.kind \in Kinds /\ source.joined \in BOOLEAN
    /\ source.path \in Seq(Step) /\ source.base \in Seq(Step)
    /\ place = Outside \/ place \in Seq(Name)
    /\ status \in {"open", "read", "missing", "path-traversal"}
    /\ status # "path-traversal" => \A i \in DOMAIN source.path : source.path[i] # ".."

\* README, "Recursive resolution": however long the chain and however it winds,
\* the path of a source is the file the references lead to, one after the other.
\* After a relative reference it is so step for step, so that a file reached in
\* two ways has one key.
PathIsWalk ==
    status # "path-traversal" =>
        /\ Resolve(source.path) = place
        /\ source.joined => source.path = place

RefusedNeedlessly ==
    \/ \E p \in {place, Real(place)} : p[1] \in Dotted
    \/ ~source.joined /\ ~Sanitized(source.path)

\* README, "Error codes": path-traversal is for what leads out of the source, by
\* its steps or by a link, and a reference is not refused for winding through its
\* parents.  Beside, names that begin with two dots are refused at the top, and
\* an absolute reference for any step upwards.  Nothing outside is read.
OutsideIsRefused ==
    source.kind = "repo" =>
        /\ status = "read" => Outside \notin {place, Real(place)}
        /\ status = "path-traversal" => Outside \in {place, Real(place)} \/ RefusedNeedlessly

=============================================================================
