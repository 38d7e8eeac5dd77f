------------------------------ MODULE OciCache ------------------------------
(***************************************************************************)
(* The artifacts that OciSource keeps of one repository of a registry, in  *)
(* which one tag moves.  The cache root has a directory per reference, by  *)
(* digest or by tag, and is shared by all runs of the command on a         *)
(* machine.  Within a run the includes are read one after the other.       *)
(* Every await that others can notice is a step of its own.                *)
(*                                                                         *)
(* The second attempt over plain HTTP is left out: it is made only for     *)
(* registries that are spoken to over plain HTTP from the beginning.  A    *)
(* file stands for the two names tryWithExtension tries; which one a run   *)
(* asks for makes no difference before it looks for it, in Access.         *)
(***************************************************************************)
EXTENDS Naturals

CONSTANTS
    Process,    \* The runs of the command.
    Digest,     \* The artifacts the tag can be at.
    NoDigest,   \* No artifact.
    Tag,        \* The reference by tag; the others are the digests.
    NoRef,      \* No reference.
    Partial,    \* A directory that oras has not filled yet.
    File,       \* The files asked for.
    NoFile,     \* None of them.
    FilesIn,    \* The files of an artifact.
    MaxReads,   \* Bound on the files a run reads.
    MaxRuns     \* Bound on the runs of a process.

Ref == Digest \cup {Tag}

ASSUME ArtifactAssumption ==
    /\ {NoDigest, Partial, Tag, NoRef} \cap Digest = {}
    /\ Tag # NoRef /\ Partial # NoDigest
    /\ FilesIn \in [Digest -> SUBSET File] /\ NoFile \notin File
    /\ MaxReads \in Nat /\ MaxRuns \in Nat

VARIABLES
    tag,      \* The artifact the tag is at.
    indexed,  \* Does oras pull leave an index.json in its output directory?
    dir,      \* The directories of the cache, by reference.
    run       \* The runs.

vars == <<tag, indexed, dir, run>>

Idle == "idle"
Phases == {Idle, "ready", "resolve", "lookup", "pull", "rename", "access", "read"}
Results == {"none", "ok", "failed", "unauthorized", "remote-file-not-found"}

\* Who asked for a file: an include by tag, one pinned to a digest, or
\* INCLUDE_ENVS and its siblings, which read() without resolve().
Ways == {"tag", "pin", "env"}

\* What a run remembers: digestResolveCache, artifactCache, the temporary
\* directory of the pull, dockerConfigDirPromise, and what it has read.  "since"
\* are the artifacts the tag has been at since the run began.
Fresh(runs) ==
    [phase |-> Idle, digest |-> NoDigest, held |-> {}, tmp |-> NoDigest, config |-> FALSE,
     ref |-> NoRef, way |-> "tag", wanted |-> NoFile, seen |-> {}, since |-> {}, reads |-> 0,
     result |-> "none", runs |-> runs]

Init ==
    /\ tag \in Digest
    /\ indexed \in BOOLEAN
    /\ dir = [r \in Ref |-> NoDigest]
    /\ run = [p \in Process |-> Fresh(0)]

In(p, phase) == run[p].phase = phase
Set(p, state) == run' = [run EXCEPT ![p] = state]
End(p, result) == Set(p, [run[p] EXCEPT !.phase = Idle, !.result = result])

\* Someone pushes to the tag.
Retag ==
    /\ \E d \in Digest \ {tag} :
        /\ tag' = d
        /\ run' = [p \in Process |->
                      IF In(p, Idle) THEN run[p] ELSE [run[p] EXCEPT !.since = @ \cup {d}]]
    /\ UNCHANGED <<indexed, dir>>

StartRun(p) ==
    /\ In(p, Idle)
    /\ run[p].runs < MaxRuns
    /\ Set(p, [Fresh(run[p].runs + 1) EXCEPT !.phase = "ready", !.since = {tag}])
    /\ UNCHANGED <<tag, indexed, dir>>

EndRun(p) ==
    /\ In(p, "ready")
    /\ End(p, "ok")
    /\ UNCHANGED <<tag, indexed, dir>>

Asks(p, way, phase, ref) ==
    /\ In(p, "ready")
    /\ run[p].reads < MaxReads
    /\ Set(p, [run[p] EXCEPT !.phase = phase, !.ref = ref, !.way = way, !.reads = @ + 1])
    /\ UNCHANGED <<tag, indexed, dir>>

\* An include by tag, or one that inherits the digest of its parent.
Include(p) ==
    IF run[p].digest = NoDigest
    THEN Asks(p, "tag", "resolve", NoRef)
    ELSE Asks(p, "tag", "lookup", run[p].digest)

IncludePinned(p) == \E d \in Digest : Asks(p, "pin", "lookup", d)

IncludeEnvs(p) == Asks(p, "env", "lookup", Tag)

-----------------------------------------------------------------------------
(***************************************************************************)
(* resolve, with the credentials it needs                                  *)
(***************************************************************************)
\* Variant, against OneCurrentByTag: the digest is not remembered.
ResolveEachTime(p) ==
    /\ In(p, "resolve")
    /\ Set(p, [run[p] EXCEPT !.phase = "lookup", !.ref = tag, !.config = TRUE])
    /\ UNCHANGED <<tag, indexed, dir>>

Resolve(p) ==
    /\ In(p, "resolve")
    /\ Set(p, [run[p] EXCEPT !.phase = "lookup", !.digest = tag, !.ref = tag, !.config = TRUE])
    /\ UNCHANGED <<tag, indexed, dir>>

ResolveFails(p) ==
    /\ In(p, "resolve")
    /\ End(p, "failed")
    /\ UNCHANGED <<tag, indexed, dir>>

-----------------------------------------------------------------------------
(***************************************************************************)
(* ensureArtifact                                                          *)
(***************************************************************************)
\* artifactCache, or a directory that counts as populated.
Populated(p) ==
    \/ run[p].ref \in run[p].held
    \/ indexed /\ dir[run[p].ref] # NoDigest

Lookup(p) ==
    /\ In(p, "lookup")
    /\ IF Populated(p)
       THEN Set(p, [run[p] EXCEPT !.phase = "access", !.held = @ \cup {run[p].ref}])
       ELSE Set(p, [run[p] EXCEPT !.phase = "pull", !.tmp = Partial, !.config = TRUE])
    /\ UNCHANGED <<tag, indexed, dir>>

\* The credentials are not known yet, and the secret cannot be copied: nobody
\* removes the temporary directory.
Unauthorized(p) ==
    /\ In(p, "lookup")
    /\ ~Populated(p)
    /\ ~run[p].config
    /\ Set(p, [run[p] EXCEPT !.phase = Idle, !.tmp = Partial, !.result = "unauthorized"])
    /\ UNCHANGED <<tag, indexed, dir>>

\* Variant, against DigestHonest: oras is given the tag.
PullTag(p) ==
    /\ In(p, "pull")
    /\ Set(p, [run[p] EXCEPT !.phase = "rename", !.tmp = tag])
    /\ UNCHANGED <<tag, indexed, dir>>

\* Variant, against MissingIsMissing: oras writes to the directory itself, where
\* others see it before it is complete.
PullInPlace(p) ==
    /\ In(p, "pull")
    /\ dir' = [dir EXCEPT ![run[p].ref] = Partial]
    /\ Set(p, [run[p] EXCEPT !.phase = "access", !.held = @ \cup {run[p].ref}, !.tmp = NoDigest])
    /\ UNCHANGED <<tag, indexed>>

Pull(p) ==
    /\ In(p, "pull")
    /\ Set(p, [run[p] EXCEPT !.phase = "rename",
                             !.tmp = IF run[p].ref = Tag THEN tag ELSE run[p].ref])
    /\ UNCHANGED <<tag, indexed, dir>>

\* The registry, the network, the timeout of spawnCmd, a malformed index.json.
PullFails(p) ==
    /\ In(p, "pull")
    /\ Set(p, [run[p] EXCEPT !.phase = Idle, !.result = "failed", !.tmp = NoDigest])
    /\ UNCHANGED <<tag, indexed, dir>>

Renamed(p) == [run[p] EXCEPT !.phase = "access", !.tmp = NoDigest, !.held = @ \cup {run[p].ref}]

\* Variant, against ReadsPinned: the directory that is there is replaced.
RenameOver(p) ==
    /\ In(p, "rename")
    /\ dir' = [dir EXCEPT ![run[p].ref] = run[p].tmp]
    /\ Set(p, Renamed(p))
    /\ UNCHANGED <<tag, indexed>>

\* rename() fails when the directory is there; the pulled copy is removed.
Rename(p) ==
    /\ In(p, "rename")
    /\ dir' = IF dir[run[p].ref] = NoDigest THEN [dir EXCEPT ![run[p].ref] = run[p].tmp] ELSE dir
    /\ Set(p, Renamed(p))
    /\ UNCHANGED <<tag, indexed>>

\* Any other error than ENOTEMPTY and EEXIST.
RenameFails(p) ==
    /\ In(p, "rename")
    /\ Set(p, [run[p] EXCEPT !.phase = Idle, !.result = "failed", !.tmp = NoDigest])
    /\ UNCHANGED <<tag, indexed, dir>>

-----------------------------------------------------------------------------
(***************************************************************************)
(* _resolveFile and read                                                   *)
(***************************************************************************)
Content(p) == dir[run[p].ref]
Present(p, f) == Content(p) \in Digest /\ f \in FilesIn[Content(p)]

Access(p, f) ==
    /\ In(p, "access")
    /\ IF Present(p, f)
       THEN Set(p, [run[p] EXCEPT !.phase = "read"])
       ELSE Set(p, [run[p] EXCEPT !.phase = Idle, !.wanted = f,
                                  !.result = "remote-file-not-found"])
    /\ UNCHANGED <<tag, indexed, dir>>

\* A link that leads out of the artifact.
AccessRefused(p) ==
    /\ In(p, "access")
    /\ End(p, "failed")
    /\ UNCHANGED <<tag, indexed, dir>>

Read(p) ==
    /\ In(p, "read")
    /\ Set(p, [run[p] EXCEPT !.phase = "ready",
                             !.seen = @ \cup {[ref |-> run[p].ref, digest |-> Content(p),
                                               way |-> run[p].way]}])
    /\ UNCHANGED <<tag, indexed, dir>>

\* The run is interrupted; its temporary directory stays and is never looked at.
Crash(p) ==
    /\ ~In(p, Idle)
    /\ Set(p, Fresh(run[p].runs))
    /\ UNCHANGED <<tag, indexed, dir>>

Run(p) ==
    \/ StartRun(p) \/ EndRun(p)
    \/ Include(p) \/ IncludePinned(p) \/ IncludeEnvs(p)
    \/ Resolve(p) \/ ResolveFails(p)
    \/ Lookup(p) \/ Unauthorized(p)
    \/ Pull(p) \/ PullFails(p) \/ Rename(p) \/ RenameFails(p)
    \/ (\E f \in File : Access(p, f)) \/ AccessRefused(p) \/ Read(p) \/ Crash(p)

Next == Retag \/ \E p \in Process : Run(p)

Spec == Init /\ [][Next]_vars

-----------------------------------------------------------------------------
(***************************************************************************)
(* Properties                                                              *)
(***************************************************************************)
Seen == [ref : Ref, digest : Digest, way : Ways]
RunType ==
    [phase : Phases, digest : Digest \cup {NoDigest}, held : SUBSET Ref,
     tmp : Digest \cup {NoDigest, Partial}, config : BOOLEAN, ref : Ref \cup {NoRef},
     way : Ways, wanted : File \cup {NoFile}, seen : SUBSET Seen, since : SUBSET Digest,
     reads : 0..MaxReads, result : Results, runs : 0..MaxRuns]

\* The state is made of what the runs can hold; a run that is past ensureArtifact
\* has a complete directory to look into, and one about to rename a complete copy.
TypeOK ==
    /\ tag \in Digest
    /\ indexed \in BOOLEAN
    /\ dir \in [Ref -> Digest \cup {NoDigest}]
    /\ run \in [Process -> RunType]
    /\ \A p \in Process :
        /\ \A r \in run[p].held : dir[r] # NoDigest
        /\ run[p].phase \in {"lookup", "pull", "rename", "access", "read"} =>
                run[p].ref \in Ref
        /\ run[p].phase \in {"access", "read"} => run[p].ref \in run[p].held
        /\ In(p, "rename") => run[p].tmp \in Digest

\* README, "Supply-chain pinning": what is read under a digest is the artifact
\* with that digest, although the tag moves between resolve() and the pull, runs
\* race for the directory, and pulls are interrupted.
DigestHonest ==
    \A p \in Process : \A s \in run[p].seen : s.ref \in Digest => s.digest = s.ref

\* README, "Supply-chain pinning": a later build gets what the tag then points
\* to.  All that a run includes by the tag comes from one artifact, and from one
\* the tag was at during the run, however often it moves meanwhile.
OneCurrentByTag ==
    \A p \in Process : \A s, t \in run[p].seen :
        s.way = "tag" /\ t.way = "tag" => s.digest = t.digest /\ s.digest \in run[p].since

\* The same of INCLUDE_ENVS and its siblings, which is not so: they are read by
\* the tag, and its directory is never replaced.
FreshEnvs ==
    \A p \in Process : \A s \in run[p].seen : s.way = "env" => s.digest \in run[p].since

\* README, "Error codes": remote-file-not-found is for a path missing in the
\* artifact; no other run, no interrupted one, makes it appear so.
MissingIsMissing ==
    \A p \in Process : run[p].result = "remote-file-not-found" =>
        run[p].wanted \notin FilesIn[IF run[p].ref = Tag THEN dir[Tag] ELSE run[p].ref]

\* Races, crashes and failures included, the directories are what PinnedContent
\* says: complete when they appear, never replaced, and read as they are.
Pinned == INSTANCE PinnedContent WITH
        Reader    <- Process,
        Version   <- Digest,
        NoVersion <- NoDigest,
        pinned    <- dir,
        seen      <- [p \in Process |-> {<<s.ref, s.digest>> : s \in run[p].seen}]

ReadsPinned == Pinned!Spec

=============================================================================
