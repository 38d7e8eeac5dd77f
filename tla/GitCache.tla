------------------------------ MODULE GitCache ------------------------------
(***************************************************************************)
(* The clone that GitSource keeps of one branch of one repository.  It is  *)
(* shared by all runs of the command on a machine, so several may be in    *)
(* ensureRepo and ensurePath at once; within a run, the includes are read  *)
(* one after the other.  Every await is a step of its own.                 *)
(*                                                                         *)
(* A file stands for the two names tryWithExtension tries, which are in    *)
(* the same directory.                                                     *)
(***************************************************************************)
EXTENDS Naturals, FiniteSets

CONSTANTS
    Process,   \* The runs of the command.
    Oid,       \* The commits the branch can be at.
    NoOid,     \* No commit.
    File,      \* The files asked for.
    NoFile,    \* None of them.
    DirOf,     \* The directory of a file.
    Cone,      \* The directories whose files are there when one has been asked for:
               \* that one, what is below it, and those it is in.
    FilesIn,   \* The files of a commit.
    NoClone,   \* The cache directory does not exist.
    MaxReads,  \* Bound on the files a run reads.
    MaxRuns    \* Bound on the runs of a process.

Dir == {DirOf[f] : f \in File}
Clone == [oid : Oid, dirs : SUBSET Dir, cone : SUBSET Dir, locked : BOOLEAN]

ASSUME CloneAssumption ==
    /\ NoOid \notin Oid
    /\ NoFile \notin File
    /\ NoClone \notin Clone
    /\ DOMAIN DirOf = File
    /\ Cone \in [Dir -> SUBSET Dir] /\ \A d \in Dir : d \in Cone[d]
    /\ FilesIn \in [Oid -> SUBSET File]
    /\ MaxReads \in Nat /\ MaxRuns \in Nat

VARIABLES
    upstream,  \* The commit the branch is at.
    clone,     \* The directory <git-cache>/<repo>-<ref>, or NoClone.
    proc       \* The runs.

vars == <<upstream, clone, proc>>

Idle == "idle"
InCommand == {"sparse-checkout", "checkout"}
Phases == InCommand \cup
          {Idle, "ready", "rev-parse", "clone", "rename", "access", "read"}
Results == {"none", "ok", "failed", "remote-file-not-found", "path-traversal"}

\* What a run remembers: repoCache and sparseSet, and what it has read.
Fresh(runs) ==
    [phase |-> Idle, oid |-> NoOid, sparseSet |-> {}, tmp |-> NoOid, wanted |-> NoFile,
     read |-> {}, reads |-> 0, result |-> "none", runs |-> runs]

\* A clone made with --no-checkout: no file is there until the first checkout.
NewClone(oid) == [oid |-> oid, dirs |-> {}, cone |-> {}, locked |-> FALSE]

Init ==
    /\ upstream \in Oid
    /\ clone = NoClone
    /\ proc = [p \in Process |-> Fresh(0)]

Set(p, run) == proc' = [proc EXCEPT ![p] = run]
In(p, phase) == proc[p].phase = phase
End(p, result) == Set(p, [proc[p] EXCEPT !.phase = Idle, !.result = result])

\* Someone force-pushes, or pushes.
Push ==
    /\ upstream' \in Oid \ {upstream}
    /\ UNCHANGED <<clone, proc>>

StartRun(p) ==
    /\ In(p, Idle)
    /\ proc[p].runs < MaxRuns
    /\ Set(p, [Fresh(proc[p].runs + 1) EXCEPT !.phase = "ready"])
    /\ UNCHANGED <<upstream, clone>>

EndRun(p) ==
    /\ In(p, "ready")
    /\ End(p, "ok")
    /\ UNCHANGED <<upstream, clone>>

-----------------------------------------------------------------------------
(***************************************************************************)
(* ensureRepo                                                              *)
(***************************************************************************)
\* ensurePath returns at once for a directory it has seen.
PathPhase(run) ==
    IF DirOf[run.wanted] \in run.sparseSet THEN "access" ELSE "sparse-checkout"

\* repoCache has an entry, or rev-parse is asked for one.
Ask(p, f) ==
    LET run == [proc[p] EXCEPT !.wanted = f, !.reads = @ + 1] IN
    /\ In(p, "ready")
    /\ proc[p].reads < MaxReads
    /\ Set(p, [run EXCEPT !.phase = IF run.oid = NoOid THEN "rev-parse" ELSE PathPhase(run)])
    /\ UNCHANGED <<upstream, clone>>

\* Variant, against ReadsPinned: a clone of another commit is deleted.
ReuseCloneIfCurrent(p) ==
    /\ In(p, "rev-parse")
    /\ clone # NoClone
    /\ IF clone.oid = upstream
       THEN clone' = clone /\ LET run == [proc[p] EXCEPT !.oid = clone.oid]
                              IN  Set(p, [run EXCEPT !.phase = PathPhase(run)])
       ELSE clone' = NoClone /\ Set(p, [proc[p] EXCEPT !.phase = "clone"])
    /\ UNCHANGED upstream

ReuseClone(p) ==
    /\ In(p, "rev-parse")
    /\ clone # NoClone
    /\ LET run == [proc[p] EXCEPT !.oid = clone.oid]
       IN  Set(p, [run EXCEPT !.phase = PathPhase(run)])
    /\ UNCHANGED <<upstream, clone>>

\* Variant, against TypeOK: the clone is taken for granted.
NoCloneFoundGoOn(p) ==
    /\ In(p, "rev-parse")
    /\ Set(p, [proc[p] EXCEPT !.phase = PathPhase(proc[p])])
    /\ UNCHANGED <<upstream, clone>>

\* Whatever makes rev-parse fail is taken for the absence of a clone.
NoCloneFound(p) ==
    /\ In(p, "rev-parse")
    /\ Set(p, [proc[p] EXCEPT !.phase = "clone"])
    /\ UNCHANGED <<upstream, clone>>

\* A ref that is a commit is fetched into an empty repository instead, which
\* comes to the same: a branch that never moves.
CloneBranch(p) ==
    /\ In(p, "clone")
    /\ Set(p, [proc[p] EXCEPT !.phase = "rename", !.tmp = upstream])
    /\ UNCHANGED <<upstream, clone>>

\* The network, the timeout of spawnCmd, or a rename() that fails for another
\* reason than a clone that is already there.
CloneFails(p) ==
    /\ proc[p].phase \in {"clone", "rename"}
    /\ End(p, "failed")
    /\ UNCHANGED <<upstream, clone>>

\* rename() fails when another run was faster; its clone stays.
Rename(p) ==
    /\ In(p, "rename")
    /\ clone' = IF clone = NoClone THEN NewClone(proc[p].tmp) ELSE clone
    /\ LET run == [proc[p] EXCEPT !.oid = proc[p].tmp, !.tmp = NoOid, !.sparseSet = {}]
       IN  Set(p, [run EXCEPT !.phase = PathPhase(run)])
    /\ UNCHANGED upstream

-----------------------------------------------------------------------------
(***************************************************************************)
(* ensurePath, and the rest of read                                        *)
(***************************************************************************)
WantedDir(p) == DirOf[proc[p].wanted]

\* Git takes index.lock for both commands.
Blocked(p) ==
    clone.locked \/ \E q \in Process \ {p} : proc[q].phase \in InCommand

\* Variant, against MissingIsMissing: the set of directories is remembered
\* before it is checked out.
SetConeOnly(p) ==
    /\ In(p, "sparse-checkout")
    /\ ~clone.locked
    /\ clone' = [clone EXCEPT !.cone = Cone[WantedDir(p)]]
    /\ Set(p, [proc[p] EXCEPT !.phase = "access", !.sparseSet = @ \cup {WantedDir(p)}])
    /\ UNCHANGED upstream

\* "sparse-checkout set" replaces the cone, and removes the files outside it
\* from a work tree that has been checked out.
WithCone(cone) == [clone EXCEPT !.cone = cone, !.dirs = IF @ = {} THEN @ ELSE cone]

SetCone(p) ==
    /\ In(p, "sparse-checkout")
    /\ ~clone.locked
    /\ clone' = WithCone(Cone[WantedDir(p)])
    /\ Set(p, [proc[p] EXCEPT !.phase = "checkout"])
    /\ UNCHANGED upstream

CheckedOut == [clone EXCEPT !.dirs = clone.cone]

Checkout(p) ==
    /\ In(p, "checkout")
    /\ ~clone.locked
    /\ clone' = CheckedOut
    /\ Set(p, [proc[p] EXCEPT !.phase = "access", !.sparseSet = @ \cup {WantedDir(p)}])
    /\ UNCHANGED upstream

CommandFails(p) ==
    /\ proc[p].phase \in InCommand
    /\ Blocked(p)
    /\ End(p, "failed")
    /\ UNCHANGED <<upstream, clone>>

\* spawnCmd kills a command that takes too long with SIGKILL, or the machine
\* goes down: index.lock stays, and some of what the command was to do is done.
CommandKilled(p) ==
    LET whole == IF In(p, "checkout") THEN CheckedOut ELSE WithCone(Cone[WantedDir(p)]) IN
    /\ proc[p].phase \in InCommand
    /\ ~clone.locked
    /\ \E cone \in {clone.cone, whole.cone}, dirs \in SUBSET (clone.dirs \cup whole.dirs) :
        /\ clone.dirs \cap whole.dirs \subseteq dirs
        /\ clone' = [clone EXCEPT !.cone = cone, !.dirs = dirs, !.locked = TRUE]
    /\ End(p, "failed")
    /\ UNCHANGED upstream

Present(f) == f \in FilesIn[clone.oid] /\ DirOf[f] \in clone.dirs

Access(p) ==
    /\ In(p, "access")
    /\ IF Present(proc[p].wanted)
       THEN Set(p, [proc[p] EXCEPT !.phase = "read"])
       ELSE End(p, "remote-file-not-found")
    /\ UNCHANGED <<upstream, clone>>

\* assertContained, before ensurePath, and assertContainedReal, on a file that is
\* there: its path, or a link, leads out of the clone.  SourcePaths says which do.
RefusePath(p) ==
    /\ proc[p].phase \in {"sparse-checkout", "access"}
    /\ End(p, "path-traversal")
    /\ UNCHANGED <<upstream, clone>>

Read(p) ==
    /\ In(p, "read")
    /\ IF Present(proc[p].wanted)
       THEN Set(p, [proc[p] EXCEPT !.phase = "ready",
                                   !.read = @ \cup {<<proc[p].wanted, clone.oid>>}])
       ELSE End(p, "failed")
    /\ UNCHANGED <<upstream, clone>>

\* A run is interrupted; what it has in memory is lost, its temporary directory
\* stays and is never looked at again.
Crash(p) ==
    /\ ~In(p, Idle)
    /\ Set(p, Fresh(proc[p].runs))
    /\ UNCHANGED <<upstream, clone>>

Run(p) ==
    \/ StartRun(p) \/ EndRun(p)
    \/ \E f \in File : Ask(p, f)
    \/ ReuseClone(p) \/ NoCloneFound(p) \/ CloneBranch(p) \/ CloneFails(p) \/ Rename(p)
    \/ SetCone(p) \/ Checkout(p) \/ CommandFails(p) \/ CommandKilled(p)
    \/ Access(p) \/ RefusePath(p) \/ Read(p) \/ Crash(p)

Next == Push \/ \E p \in Process : Run(p)

Spec == Init /\ [][Next]_vars

-----------------------------------------------------------------------------
(***************************************************************************)
(* Properties                                                              *)
(***************************************************************************)
RunType ==
    [phase : Phases, oid : Oid \cup {NoOid}, sparseSet : SUBSET Dir,
     tmp : Oid \cup {NoOid}, wanted : File \cup {NoFile}, read : SUBSET (File \X Oid),
     reads : 0..MaxReads, result : Results, runs : 0..MaxRuns]

\* The state is made of what the runs can hold; a run that waits for a command
\* on the clone, or looks into it, has one.
TypeOK ==
    /\ upstream \in Oid
    /\ clone \in Clone \cup {NoClone}
    /\ proc \in [Process -> RunType]
    /\ \A p \in Process :
            proc[p].phase \in InCommand \cup {"access", "read"} => clone # NoClone

\* However often the branch moves and whoever else is at work, all the files a
\* run reads from it are of one commit.  ReadsPinned says so and more.
OneCommitPerRun ==
    \A p \in Process : \A r, s \in proc[p].read : r[2] = s[2]

\* README, "Error codes": remote-file-not-found is for a path that is missing
\* in the repository.  Interrupted runs and other runs do not cause it.
MissingIsMissing ==
    \A p \in Process :
        proc[p].result = "remote-file-not-found" => proc[p].wanted \notin FilesIn[clone.oid]

\* Races, crashes and pushes included, the clone is what PinnedContent says: it
\* holds one commit from when it appears, and whatever a run reads is of it.
Pinned == INSTANCE PinnedContent WITH
        Reader    <- Process,
        Ref       <- {"branch"},
        Version   <- Oid,
        NoVersion <- NoOid,
        pinned    <- [r \in {"branch"} |-> IF clone = NoClone THEN NoOid ELSE clone.oid],
        seen      <- [p \in Process |-> {<<"branch", r[2]>> : r \in proc[p].read}]

ReadsPinned == Pinned!Spec

=============================================================================
