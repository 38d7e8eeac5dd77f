--------------------------- MODULE OciCacheProofs ---------------------------
(***************************************************************************)
(* Proofs about OciCache, for any number of runs, artifacts and files.     *)
(*                                                                         *)
(* Sound says of one run what its next steps rely on: that a directory it  *)
(* holds is there and stays what it is, that what it is about to rename is *)
(* what its reference names, and that it asks by the digest it once        *)
(* resolved.  A step of a run can only disturb its own, except for Rename, *)
(* which adds a directory, and Retag, which moves the tag.                 *)
(***************************************************************************)
EXTENDS OciCache, TLAPS

Working == {"lookup", "pull", "rename", "access", "read"}

\* Of a run with memory x, while the tag is at t and the directories are d.
Sound(x, t, d) ==
    /\ x \in RunType
    /\ \A r \in x.held : d[r] # NoDigest
    /\ x.phase \in Working => x.ref \in Ref
    /\ x.phase \in {"access", "read"} => x.ref \in x.held
    /\ x.phase = "rename" => x.tmp \in Digest /\ (x.ref # Tag => x.tmp = x.ref)
    /\ x.phase = "resolve" => x.digest = NoDigest /\ x.way = "tag"
    /\ x.phase \in Working /\ x.way = "tag" => x.digest \in Digest /\ x.ref = x.digest
    /\ x.phase # Idle => t \in x.since
    /\ x.digest # NoDigest => x.digest \in x.since
    /\ \A s \in x.seen : s.ref \in Digest => s.digest = s.ref
    /\ \A s \in x.seen : s.way = "tag" => x.digest \in Digest /\ s.ref = x.digest

\* A directory named by a digest has the artifact with that digest, or is not there.
Honest(d) == \A r \in Digest : d[r] \in {NoDigest, r}

CacheInv ==
    /\ tag \in Digest
    /\ indexed \in BOOLEAN
    /\ dir \in [Ref -> Digest \cup {NoDigest}]
    /\ Honest(dir)
    /\ run \in [Process -> RunType]
    /\ \A p \in Process : Sound(run[p], tag, dir)

-----------------------------------------------------------------------------
(***************************************************************************)
(* What the properties follow from.                                        *)
(***************************************************************************)
LEMMA InvTypes == CacheInv => TypeOK
<1> SUFFICES ASSUME CacheInv PROVE TypeOK
    OBVIOUS
<1>1. ASSUME NEW p \in Process
      PROVE  /\ \A r \in run[p].held : dir[r] # NoDigest
             /\ run[p].phase \in Working => run[p].ref \in Ref
             /\ run[p].phase \in {"access", "read"} => run[p].ref \in run[p].held
             /\ run[p].phase = "rename" => run[p].tmp \in Digest
    BY <1>1 DEF CacheInv, Sound
<1> QED
    BY <1>1 DEF CacheInv, TypeOK, Working, In

LEMMA InvHonest == CacheInv => DigestHonest
BY DEF CacheInv, Sound, DigestHonest

LEMMA InvOneCurrent == CacheInv => OneCurrentByTag
<1> SUFFICES ASSUME CacheInv, NEW p \in Process, NEW s \in run[p].seen, NEW t \in run[p].seen,
                    s.way = "tag", t.way = "tag"
             PROVE  s.digest = t.digest /\ s.digest \in run[p].since
    BY DEF OneCurrentByTag
<1>1. Sound(run[p], tag, dir)
    BY DEF CacheInv
<1>2. run[p].digest \in Digest /\ s.ref = run[p].digest /\ t.ref = run[p].digest
    BY <1>1 DEF Sound
<1>3. s.digest = run[p].digest /\ t.digest = run[p].digest
    BY <1>1, <1>2 DEF Sound
<1>4. run[p].digest \in run[p].since
    BY <1>1, <1>2, ArtifactAssumption DEF Sound
<1> QED
    BY <1>3, <1>4

-----------------------------------------------------------------------------
LEMMA FreshSound ==
    ASSUME NEW n \in 0..MaxRuns, NEW t \in Digest, NEW d
    PROVE  /\ Sound(Fresh(n), t, d)
           /\ Sound([Fresh(n) EXCEPT !.phase = "ready", !.since = {t}], t, d)
<1>1. Fresh(n) \in RunType
    BY ArtifactAssumption
       DEF Fresh, RunType, Phases, Idle, Ways, Results, Ref, Seen
<1>2. [Fresh(n) EXCEPT !.phase = "ready", !.since = {t}] \in RunType
    BY <1>1 DEF Fresh, RunType, Phases, Idle
<1> QED
    BY <1>1, <1>2 DEF Sound, Fresh, Working, Idle

LEMMA InitInv == Init => CacheInv
<1> SUFFICES ASSUME Init PROVE CacheInv
    OBVIOUS
<1>1. 0 \in 0..MaxRuns
    BY ArtifactAssumption
<1>2. \A p \in Process : Sound(run[p], tag, dir)
    BY <1>1, FreshSound DEF Init
<1>3. run \in [Process -> RunType]
    BY <1>2 DEF Sound, Init
<1> QED
    BY <1>2, <1>3, ArtifactAssumption DEF Init, CacheInv, Honest, Ref

\* The steps that are a run's own.
LEMMA OwnStep ==
    ASSUME CacheInv, NEW p \in Process, NEW x, Sound(x, tag, dir),
           Set(p, x), UNCHANGED <<tag, indexed, dir>>
    PROVE  CacheInv'
<1>1. x \in RunType
    BY DEF Sound
<1>2. run' = [run EXCEPT ![p] = x]
    BY DEF Set
<1>3. run' \in [Process -> RunType]
    BY <1>1, <1>2 DEF CacheInv
<1>4. \A q \in Process : Sound(run'[q], tag, dir)
    BY <1>2 DEF CacheInv
<1> QED
    BY <1>3, <1>4 DEF CacheInv

-----------------------------------------------------------------------------
LEMMA RetagInv == CacheInv /\ Retag => CacheInv'
<1> SUFFICES ASSUME CacheInv, Retag PROVE CacheInv'
    OBVIOUS
<1>1. PICK d \in Digest \ {tag} :
        /\ tag' = d
        /\ run' = [p \in Process |->
                      IF In(p, Idle) THEN run[p] ELSE [run[p] EXCEPT !.since = @ \cup {d}]]
    BY DEF Retag
<1>2. indexed' = indexed /\ dir' = dir
    BY DEF Retag
<1>3. ASSUME NEW p \in Process PROVE Sound(run'[p], d, dir)
    <2>1. Sound(run[p], tag, dir)
        BY <1>3 DEF CacheInv
    <2>2. CASE In(p, Idle)
        <3>1. run'[p] = run[p]
            BY <1>1, <1>3, <2>2
        <3> QED
            BY <2>1, <2>2, <3>1 DEF Sound, In
    <2>3. CASE ~In(p, Idle)
        <3>1. run'[p] = [run[p] EXCEPT !.since = @ \cup {d}]
            BY <1>1, <1>3, <2>3
        <3>2. run'[p] \in RunType
            BY <2>1, <3>1, <1>1 DEF Sound, RunType
        <3> QED
            BY <2>1, <2>3, <3>1, <3>2 DEF Sound, RunType, In
    <2> QED
        BY <2>2, <2>3
<1>4. run' \in [Process -> RunType]
    <2>1. DOMAIN run' = Process /\ run' = [p \in Process |-> run'[p]]
        BY <1>1
    <2> QED
        BY <1>3, <2>1 DEF Sound
<1> QED
    BY <1>1, <1>2, <1>3, <1>4 DEF CacheInv

\* The steps between the includes, by whatever way a file is asked for.
LEMMA AskInv ==
    ASSUME CacheInv, NEW p \in Process, NEW way \in Ways, NEW phase \in {"resolve", "lookup"},
           NEW ref \in Ref \cup {NoRef}, Asks(p, way, phase, ref),
           phase = "lookup" => ref \in Ref,
           phase = "resolve" => way = "tag" /\ run[p].digest = NoDigest,
           phase = "lookup" /\ way = "tag" => run[p].digest \in Digest /\ ref = run[p].digest
    PROVE  CacheInv'
<1> DEFINE x == [run[p] EXCEPT !.phase = phase, !.ref = ref, !.way = way, !.reads = @ + 1]
<1>1. Sound(run[p], tag, dir) /\ run[p] \in RunType
    BY DEF CacheInv
<1>2. run[p].reads < MaxReads /\ run[p].phase = "ready"
    BY DEF Asks, In
<1>3. x \in RunType
    <2>1. run[p].reads + 1 \in 0..MaxReads
        BY <1>1, <1>2, ArtifactAssumption DEF RunType
    <2>2. phase \in Phases
        BY DEF Phases
    <2> QED
        BY <1>1, <2>1, <2>2 DEF RunType
<1>4. Sound(x, tag, dir)
    BY <1>1, <1>2, <1>3 DEF Sound, RunType, Working, Idle
<1> QED
    BY <1>4, OwnStep DEF Asks

LEMMA IncludeInv ==
    ASSUME CacheInv, NEW p \in Process, Include(p) \/ IncludePinned(p) \/ IncludeEnvs(p)
    PROVE  CacheInv'
<1>1. run[p].digest \in Digest \cup {NoDigest}
    BY DEF CacheInv, RunType
<1>2. CASE Include(p)
    BY <1>1, <1>2, AskInv DEF Include, Ways, Ref
<1>3. CASE IncludePinned(p)
    BY <1>3, AskInv DEF IncludePinned, Ways, Ref
<1>4. CASE IncludeEnvs(p)
    BY <1>4, AskInv DEF IncludeEnvs, Ways, Ref
<1> QED
    BY <1>2, <1>3, <1>4

-----------------------------------------------------------------------------
LEMMA ResolveInv ==
    ASSUME CacheInv, NEW p \in Process, Resolve(p)
    PROVE  CacheInv'
<1> DEFINE x == [run[p] EXCEPT !.phase = "lookup", !.digest = tag, !.ref = tag, !.config = TRUE]
<1>1. Sound(run[p], tag, dir) /\ run[p] \in RunType /\ tag \in Digest
    BY DEF CacheInv
<1>2. run[p].phase = "resolve"
    BY DEF Resolve, In
<1>3. x \in RunType
    BY <1>1 DEF RunType, Phases, Ref
<1>4. run[p].digest = NoDigest /\ NoDigest \notin Digest
    BY <1>1, <1>2, ArtifactAssumption DEF Sound
<1>5. \A s \in run[p].seen : s.way # "tag"
    BY <1>1, <1>4 DEF Sound
<1>6. Sound(x, tag, dir)
    BY <1>1, <1>2, <1>3, <1>5 DEF Sound, RunType, Working, Idle, Ref
<1> QED
    BY <1>6, OwnStep DEF Resolve

\* Whatever ends a run leaves what it remembers.
LEMMA EndInv ==
    ASSUME CacheInv, NEW p \in Process, NEW x \in RunType, x.phase = Idle,
           x.held = run[p].held, x.digest = run[p].digest, x.since = run[p].since,
           x.seen = run[p].seen, Set(p, x), UNCHANGED <<tag, indexed, dir>>
    PROVE  CacheInv'
<1>1. Sound(run[p], tag, dir)
    BY DEF CacheInv
<1>2. Sound(x, tag, dir)
    BY <1>1 DEF Sound, RunType, Working, Idle
<1> QED
    BY <1>2, OwnStep

LEMMA OverInv ==
    ASSUME CacheInv, NEW p \in Process,
           \/ EndRun(p) \/ ResolveFails(p) \/ Unauthorized(p) \/ PullFails(p) \/ RenameFails(p)
           \/ AccessRefused(p)
    PROVE  CacheInv'
<1> DEFINE x == [run[p] EXCEPT !.phase = Idle, !.tmp = Partial, !.result = "unauthorized"]
           y == [run[p] EXCEPT !.phase = Idle, !.result = "failed", !.tmp = NoDigest]
<1>1. run[p] \in RunType
    BY DEF CacheInv
<1>2. ASSUME NEW result \in Results, End(p, result), UNCHANGED <<tag, indexed, dir>>
      PROVE  CacheInv'
    <2> DEFINE z == [run[p] EXCEPT !.phase = Idle, !.result = result]
    <2>1. /\ z \in RunType /\ z.phase = Idle /\ z.held = run[p].held /\ z.digest = run[p].digest
          /\ z.since = run[p].since /\ z.seen = run[p].seen
        BY <1>1 DEF RunType, Phases
    <2> QED
        BY <1>2, <2>1, EndInv DEF End
<1>3. CASE EndRun(p) \/ ResolveFails(p) \/ AccessRefused(p)
    BY <1>2, <1>3 DEF EndRun, ResolveFails, AccessRefused, Results
<1>4. CASE Unauthorized(p)
    <2>1. /\ x \in RunType /\ x.phase = Idle /\ x.held = run[p].held /\ x.digest = run[p].digest
          /\ x.since = run[p].since /\ x.seen = run[p].seen
        BY <1>1 DEF RunType, Phases, Results
    <2>2. Set(p, x) /\ UNCHANGED <<tag, indexed, dir>>
        BY <1>4 DEF Unauthorized
    <2> QED
        BY <2>1, <2>2, EndInv
<1>5. CASE PullFails(p) \/ RenameFails(p)
    <2>1. /\ y \in RunType /\ y.phase = Idle /\ y.held = run[p].held /\ y.digest = run[p].digest
          /\ y.since = run[p].since /\ y.seen = run[p].seen
        BY <1>1 DEF RunType, Phases, Results
    <2>2. Set(p, y) /\ UNCHANGED <<tag, indexed, dir>>
        BY <1>5 DEF PullFails, RenameFails
    <2> QED
        BY <2>1, <2>2, EndInv
<1> QED
    BY <1>3, <1>4, <1>5

LEMMA StartCrashInv ==
    ASSUME CacheInv, NEW p \in Process, StartRun(p) \/ Crash(p)
    PROVE  CacheInv'
<1>1. run[p] \in RunType /\ tag \in Digest
    BY DEF CacheInv
<1>2. CASE StartRun(p)
    <2>1. run[p].runs + 1 \in 0..MaxRuns
        BY <1>1, <1>2, ArtifactAssumption DEF StartRun, RunType
    <2> QED
        BY <1>1, <1>2, <2>1, FreshSound, OwnStep DEF StartRun
<1>3. CASE Crash(p)
    <2>1. run[p].runs \in 0..MaxRuns
        BY <1>1 DEF RunType
    <2> QED
        BY <1>1, <1>3, <2>1, FreshSound, OwnStep DEF Crash
<1> QED
    BY <1>2, <1>3

LEMMA LookupInv ==
    ASSUME CacheInv, NEW p \in Process, Lookup(p)
    PROVE  CacheInv'
<1> DEFINE x == [run[p] EXCEPT !.phase = "access", !.held = @ \cup {run[p].ref}]
           y == [run[p] EXCEPT !.phase = "pull", !.tmp = Partial, !.config = TRUE]
<1>1. Sound(run[p], tag, dir) /\ run[p] \in RunType
    BY DEF CacheInv
<1>2. run[p].phase = "lookup" /\ run[p].ref \in Ref
    BY <1>1 DEF Lookup, In, Sound, Working
<1>3. CASE Populated(p)
    <2>1. x \in RunType
        BY <1>1, <1>2 DEF RunType, Phases
    <2>2. dir[run[p].ref] # NoDigest
        BY <1>1, <1>3 DEF Populated, Sound
    <2>3. Sound(x, tag, dir)
        BY <1>1, <1>2, <2>1, <2>2 DEF Sound, RunType, Working, Idle
    <2> QED
        BY <1>3, <2>3, OwnStep DEF Lookup
<1>4. CASE ~Populated(p)
    <2>1. y \in RunType
        BY <1>1 DEF RunType, Phases
    <2>2. Sound(y, tag, dir)
        BY <1>1, <1>2, <2>1 DEF Sound, RunType, Working, Idle
    <2> QED
        BY <1>4, <2>2, OwnStep DEF Lookup
<1> QED
    BY <1>3, <1>4

LEMMA PullInv ==
    ASSUME CacheInv, NEW p \in Process, Pull(p)
    PROVE  CacheInv'
<1> DEFINE pulled == IF run[p].ref = Tag THEN tag ELSE run[p].ref
           x == [run[p] EXCEPT !.phase = "rename", !.tmp = pulled]
<1>1. Sound(run[p], tag, dir) /\ run[p] \in RunType /\ tag \in Digest
    BY DEF CacheInv
<1>2. run[p].phase = "pull" /\ run[p].ref \in Ref
    BY <1>1 DEF Pull, In, Sound, Working
<1>3. pulled \in Digest /\ (run[p].ref # Tag => pulled = run[p].ref)
    BY <1>1, <1>2 DEF Ref
<1> HIDE DEF pulled
<1>4. x \in RunType
    BY <1>1, <1>3 DEF RunType, Phases
<1>5. Sound(x, tag, dir)
    BY <1>1, <1>2, <1>3, <1>4 DEF Sound, RunType, Working, Idle
<1> QED
    BY <1>5, OwnStep DEF Pull, pulled

\* A directory that appears disturbs nobody: it was not there.
LEMMA RenameInv ==
    ASSUME CacheInv, NEW p \in Process, Rename(p)
    PROVE  CacheInv'
<1> DEFINE ref == run[p].ref
<1>1. Sound(run[p], tag, dir) /\ run[p] \in RunType
    BY DEF CacheInv
<1>2. /\ run[p].phase = "rename" /\ ref \in Ref /\ run[p].tmp \in Digest
      /\ ref # Tag => run[p].tmp = ref
    BY <1>1 DEF Rename, In, Sound, Working
<1>3. /\ dir' = IF dir[ref] = NoDigest THEN [dir EXCEPT ![ref] = run[p].tmp] ELSE dir
      /\ run' = [run EXCEPT ![p] = Renamed(p)]
      /\ tag' = tag /\ indexed' = indexed
    BY DEF Rename, Set
<1>4. NoDigest \notin Digest /\ Tag \notin Digest
    BY ArtifactAssumption
<1>5. dir' \in [Ref -> Digest \cup {NoDigest}]
    BY <1>2, <1>3 DEF CacheInv
<1>6. \A r \in Ref : dir[r] # NoDigest => dir'[r] = dir[r]
    BY <1>2, <1>3 DEF CacheInv
<1>7. dir'[ref] # NoDigest
    BY <1>2, <1>3, <1>4 DEF CacheInv
<1>8. Honest(dir')
    <2>1. dir \in [Ref -> Digest \cup {NoDigest}] /\ Honest(dir)
        BY DEF CacheInv
    <2> QED
        BY <1>2, <1>3, <1>4, <2>1 DEF Honest, Ref
<1>9. Renamed(p) \in RunType
    BY <1>1, <1>2 DEF Renamed, RunType, Phases
<1>10. ASSUME NEW q \in Process PROVE Sound(run[q], tag, dir')
    <2>1. Sound(run[q], tag, dir)
        BY DEF CacheInv
    <2>2. \A r \in run[q].held : r \in Ref
        BY <2>1 DEF Sound, RunType
    <2>3. \A r \in run[q].held : dir'[r] # NoDigest
        BY <1>6, <2>1, <2>2 DEF Sound
    <2> QED
        BY <2>1, <2>3 DEF Sound
<1>11. Sound(Renamed(p), tag, dir')
    <2>1. Sound(run[p], tag, dir')
        BY <1>10
    <2>2. /\ Renamed(p).phase = "access" /\ Renamed(p).held = run[p].held \cup {ref}
          /\ Renamed(p).ref = ref /\ Renamed(p).way = run[p].way
          /\ Renamed(p).digest = run[p].digest /\ Renamed(p).since = run[p].since
          /\ Renamed(p).seen = run[p].seen
        BY <1>1 DEF Renamed, RunType
    <2> QED
        BY <1>2, <1>7, <1>9, <2>1, <2>2 DEF Sound, Working, Idle
<1>12. \A q \in Process : Sound(run'[q], tag, dir') /\ run'[q] \in RunType
    BY <1>3, <1>9, <1>10, <1>11 DEF CacheInv
<1>13. run' \in [Process -> RunType]
    BY <1>3, <1>9 DEF CacheInv
<1> QED
    BY <1>3, <1>5, <1>8, <1>12, <1>13 DEF CacheInv

LEMMA AccessInv ==
    ASSUME CacheInv, NEW p \in Process, NEW f \in File, Access(p, f)
    PROVE  CacheInv'
<1> DEFINE x == [run[p] EXCEPT !.phase = "read"]
           y == [run[p] EXCEPT !.phase = Idle, !.wanted = f, !.result = "remote-file-not-found"]
<1>1. Sound(run[p], tag, dir) /\ run[p] \in RunType
    BY DEF CacheInv
<1>2. run[p].phase = "access"
    BY DEF Access, In
<1>3. CASE Present(p, f)
    <2>1. x \in RunType
        BY <1>1 DEF RunType, Phases
    <2>2. Sound(x, tag, dir)
        BY <1>1, <1>2, <2>1 DEF Sound, RunType, Working, Idle
    <2> QED
        BY <1>3, <2>2, OwnStep DEF Access
<1>4. CASE ~Present(p, f)
    <2>1. /\ y \in RunType /\ y.phase = Idle /\ y.held = run[p].held /\ y.digest = run[p].digest
          /\ y.since = run[p].since /\ y.seen = run[p].seen
        BY <1>1 DEF RunType, Phases, Results
    <2> QED
        BY <1>4, <2>1, EndInv DEF Access
<1> QED
    BY <1>3, <1>4

\* What is read: the directory is there, and is what its name says.
LEMMA ReadGives ==
    ASSUME CacheInv, NEW p \in Process, Read(p)
    PROVE  /\ run[p].phase = "read" /\ run[p].ref \in Ref
           /\ Content(p) \in Digest
           /\ run[p].ref \in Digest => Content(p) = run[p].ref
<1>1. Sound(run[p], tag, dir) /\ run[p] \in RunType
    BY DEF CacheInv
<1>2. run[p].phase = "read" /\ run[p].ref \in Ref /\ run[p].ref \in run[p].held
    BY <1>1 DEF Read, In, Sound, Working
<1>3. dir[run[p].ref] # NoDigest
    BY <1>1, <1>2 DEF Sound
<1> QED
    BY <1>2, <1>3 DEF CacheInv, Content, Honest

LEMMA ReadInv ==
    ASSUME CacheInv, NEW p \in Process, Read(p)
    PROVE  CacheInv'
<1> DEFINE s0 == [ref |-> run[p].ref, digest |-> Content(p), way |-> run[p].way]
           x == [run[p] EXCEPT !.phase = "ready", !.seen = @ \cup {s0}]
<1>1. Sound(run[p], tag, dir) /\ run[p] \in RunType
    BY DEF CacheInv
<1>2. run[p].way \in Ways
    BY <1>1 DEF RunType
<1>3. s0 \in Seen /\ s0.ref = run[p].ref /\ s0.digest = Content(p) /\ s0.way = run[p].way
    BY <1>2, ReadGives DEF Seen
<1> HIDE DEF s0
<1>4. x \in RunType
    BY <1>1, <1>3 DEF RunType, Phases
<1>5. /\ x.phase = "ready" /\ x.held = run[p].held /\ x.digest = run[p].digest
      /\ x.since = run[p].since /\ x.seen = run[p].seen \cup {s0}
    BY <1>1 DEF RunType
<1>6. \A s \in x.seen : s.ref \in Digest => s.digest = s.ref
    BY <1>1, <1>3, <1>5, ReadGives DEF Sound
<1>7. \A s \in x.seen : s.way = "tag" => x.digest \in Digest /\ s.ref = x.digest
    BY <1>1, <1>3, <1>5, ReadGives DEF Sound, Working
<1>8. Sound(x, tag, dir)
    BY <1>1, <1>4, <1>5, <1>6, <1>7, ReadGives DEF Sound, Working, Idle
<1> QED
    BY <1>8, OwnStep DEF Read, s0

-----------------------------------------------------------------------------
LEMMA NextInv == CacheInv /\ [Next]_vars => CacheInv'
<1> SUFFICES ASSUME CacheInv, [Next]_vars PROVE CacheInv'
    OBVIOUS
<1>1. CASE Retag
    BY <1>1, RetagInv
<1>2. CASE \E p \in Process : Run(p)
    <2> SUFFICES ASSUME NEW p \in Process, Run(p) PROVE CacheInv'
        BY <1>2
    <2>1. CASE StartRun(p) \/ Crash(p)
        BY <2>1, StartCrashInv
    <2>2. CASE Include(p) \/ IncludePinned(p) \/ IncludeEnvs(p)
        BY <2>2, IncludeInv
    <2>3. CASE Resolve(p)
        BY <2>3, ResolveInv
    <2>4. CASE Lookup(p)
        BY <2>4, LookupInv
    <2>5. CASE Pull(p)
        BY <2>5, PullInv
    <2>6. CASE Rename(p)
        BY <2>6, RenameInv
    <2>7. CASE \E f \in File : Access(p, f)
        BY <2>7, AccessInv
    <2>8. CASE Read(p)
        BY <2>8, ReadInv
    <2>9. CASE \/ EndRun(p) \/ ResolveFails(p) \/ Unauthorized(p) \/ PullFails(p)
               \/ RenameFails(p) \/ AccessRefused(p)
        BY <2>9, OverInv
    <2> QED
        BY <2>1, <2>2, <2>3, <2>4, <2>5, <2>6, <2>7, <2>8, <2>9 DEF Run
<1>3. CASE UNCHANGED vars
    BY <1>3 DEF vars, CacheInv, Sound, Honest
<1> QED
    BY <1>1, <1>2, <1>3 DEF Next

\* Between two steps, the runs and the directories agree on what is there.
THEOREM CacheInvariant == Spec => []CacheInv
<1>1. Init => CacheInv
    BY InitInv
<1>2. CacheInv /\ [Next]_vars => CacheInv'
    BY NextInv
<1> QED
    BY <1>1, <1>2, PTL DEF Spec

\* The state is made of what the runs can hold, whatever fails and whoever races.
THEOREM TypesCorrect == Spec => []TypeOK
BY CacheInvariant, InvTypes, PTL

\* What is read under a digest is the artifact with that digest.
THEOREM DigestsHonest == Spec => []DigestHonest
BY CacheInvariant, InvHonest, PTL

\* All that a run includes by the tag is of one artifact, a current one.
THEOREM OneCurrent == Spec => []OneCurrentByTag
BY CacheInvariant, InvOneCurrent, PTL

-----------------------------------------------------------------------------
(***************************************************************************)
(* OciCache implements PinnedContent: Rename pins, Read reads, a run that  *)
(* starts anew or is interrupted forgets, and nothing else shows.          *)
(***************************************************************************)
SeenBy(p) == {<<s.ref, s.digest>> : s \in run[p].seen}

Silent(p) ==
    \/ EndRun(p) \/ Include(p) \/ IncludePinned(p) \/ IncludeEnvs(p)
    \/ Resolve(p) \/ ResolveFails(p) \/ Lookup(p) \/ Unauthorized(p)
    \/ Pull(p) \/ PullFails(p) \/ Rename(p) \/ RenameFails(p)
    \/ (\E f \in File : Access(p, f)) \/ AccessRefused(p)

LEMMA SilentSeen ==
    ASSUME CacheInv, NEW p \in Process, Silent(p)
    PROVE  \A q \in Process : run'[q].seen = run[q].seen
<1>1. run \in [Process -> RunType] /\ run[p] \in RunType
    BY DEF CacheInv
<1>2. ASSUME NEW x, Set(p, x), x.seen = run[p].seen
      PROVE  \A q \in Process : run'[q].seen = run[q].seen
    BY <1>1, <1>2 DEF Set
<1>3. CASE EndRun(p) \/ ResolveFails(p) \/ AccessRefused(p)
    <2>1. PICK result : End(p, result)
        BY <1>3 DEF EndRun, ResolveFails, AccessRefused
    <2> QED
        BY <1>1, <1>2, <2>1 DEF End, RunType
<1>4. CASE Include(p) \/ IncludePinned(p) \/ IncludeEnvs(p)
    <2>1. PICK way, phase, ref : Asks(p, way, phase, ref)
        BY <1>4 DEF Include, IncludePinned, IncludeEnvs
    <2> QED
        BY <1>1, <1>2, <2>1 DEF Asks, RunType
<1>5. CASE Resolve(p)
    BY <1>1, <1>2, <1>5 DEF Resolve, RunType
<1>6. CASE Lookup(p)
    BY <1>1, <1>2, <1>6 DEF Lookup, RunType
<1>7. CASE Unauthorized(p)
    BY <1>1, <1>2, <1>7 DEF Unauthorized, RunType
<1>8. CASE Pull(p)
    BY <1>1, <1>2, <1>8 DEF Pull, RunType
<1>9. CASE PullFails(p) \/ RenameFails(p)
    BY <1>1, <1>2, <1>9 DEF PullFails, RenameFails, RunType
<1>10. CASE Rename(p)
    BY <1>1, <1>2, <1>10 DEF Rename, Renamed, RunType
<1>11. CASE \E f \in File : Access(p, f)
    BY <1>1, <1>2, <1>11 DEF Access, RunType
<1> QED
    BY <1>3, <1>4, <1>5, <1>6, <1>7, <1>8, <1>9, <1>10, <1>11 DEF Silent

LEMMA PinnedInit == Init => Pinned!Init
<1> SUFFICES ASSUME Init PROVE Pinned!Init
    OBVIOUS
<1>1. \A p \in Process : run[p].seen = {}
    BY DEF Init, Fresh
<1> QED
    BY <1>1 DEF Init, Pinned!Init

\* Nothing that shows has changed.
LEMMA PinnedStutters ==
    ASSUME \A q \in Process : run'[q].seen = run[q].seen, dir' = dir
    PROVE  UNCHANGED Pinned!vars
BY DEF Pinned!vars

LEMMA PinnedStep == CacheInv /\ [Next]_vars => [Pinned!Next]_(Pinned!vars)
<1> SUFFICES ASSUME CacheInv, [Next]_vars PROVE [Pinned!Next]_(Pinned!vars)
    OBVIOUS
<1>1. run \in [Process -> RunType] /\ dir \in [Ref -> Digest \cup {NoDigest}]
    BY DEF CacheInv
<1>2. CASE UNCHANGED vars
    BY <1>2, PinnedStutters DEF vars
<1>3. CASE Retag
    <2>1. \A q \in Process : run'[q].seen = run[q].seen
        BY <1>1, <1>3 DEF Retag, RunType
    <2> QED
        BY <1>3, <2>1, PinnedStutters DEF Retag
<1>4. ASSUME NEW p \in Process, Silent(p), dir' = dir
      PROVE  [Pinned!Next]_(Pinned!vars)
    BY <1>4, SilentSeen, PinnedStutters
<1>5. ASSUME NEW p \in Process, Rename(p)
      PROVE  [Pinned!Next]_(Pinned!vars)
    <2>1. \A q \in Process : run'[q].seen = run[q].seen
        BY <1>5, SilentSeen DEF Silent
    <2>2. CASE dir[run[p].ref] = NoDigest
        <3>1. run[p].ref \in Ref /\ run[p].tmp \in Digest
            BY <1>5 DEF CacheInv, Sound, Working, Rename, In
        <3>2. dir' = [dir EXCEPT ![run[p].ref] = run[p].tmp]
            BY <1>5, <2>2 DEF Rename
        <3>3. Pinned!Pin(run[p].ref)
            BY <2>1, <2>2, <3>1, <3>2 DEF Pinned!Pin
        <3> QED
            BY <3>1, <3>3 DEF Pinned!Next
    <2>3. CASE dir[run[p].ref] # NoDigest
        BY <1>5, <2>1, <2>3, PinnedStutters DEF Rename
    <2> QED
        BY <2>2, <2>3
<1>6. ASSUME NEW p \in Process, NEW x, Set(p, x), x.seen = {}, dir' = dir
      PROVE  [Pinned!Next]_(Pinned!vars)
    <2>1. run' = [run EXCEPT ![p] = x]
        BY <1>6 DEF Set
    <2>2. Pinned!Forget(p)
        BY <1>1, <1>6, <2>1 DEF Pinned!Forget
    <2> QED
        BY <2>2 DEF Pinned!Next
<1>7. ASSUME NEW p \in Process, StartRun(p) \/ Crash(p)
      PROVE  [Pinned!Next]_(Pinned!vars)
    BY <1>6, <1>7 DEF StartRun, Crash, Fresh
<1>8. ASSUME NEW p \in Process, Read(p)
      PROVE  [Pinned!Next]_(Pinned!vars)
    <2> DEFINE s0 == [ref |-> run[p].ref, digest |-> Content(p), way |-> run[p].way]
    <2>1. PICK r \in Ref : r = run[p].ref
        BY <1>8, ReadGives
    <2>2. s0.ref = r /\ s0.digest = dir[r] /\ dir[r] # NoDigest /\ dir' = dir
        BY <1>8, <2>1, ReadGives, ArtifactAssumption DEF Content, Read
    <2>3. run'[p].seen = run[p].seen \cup {s0}
        BY <1>1, <1>8 DEF Read, Set, RunType
    <2>4. \A q \in Process \ {p} : run'[q] = run[q]
        BY <1>1, <1>8 DEF Read, Set
    <2> HIDE DEF s0
    <2>5. SeenBy(p)' = SeenBy(p) \cup {<<r, dir[r]>>}
        <3>1. ASSUME NEW e \in SeenBy(p)' PROVE e \in SeenBy(p) \cup {<<r, dir[r]>>}
            <4>1. PICK s \in run'[p].seen : e = <<s.ref, s.digest>>
                BY <3>1 DEF SeenBy
            <4> QED
                BY <2>2, <2>3, <4>1 DEF SeenBy
        <3>2. ASSUME NEW e \in SeenBy(p) \cup {<<r, dir[r]>>} PROVE e \in SeenBy(p)'
            <4>1. CASE e \in SeenBy(p)
                BY <2>3, <4>1 DEF SeenBy
            <4>2. CASE e = <<r, dir[r]>>
                <5>1. s0 \in run'[p].seen /\ e = <<s0.ref, s0.digest>>
                    BY <2>2, <2>3, <4>2
                <5> QED
                    BY <5>1 DEF SeenBy
            <4> QED
                BY <3>2, <4>1, <4>2
        <3> QED
            BY <3>1, <3>2
    <2>6. \A q \in Process \ {p} : SeenBy(q)' = SeenBy(q)
        BY <2>4 DEF SeenBy
    <2>7. [q \in Process |-> SeenBy(q)]'
            = [[q \in Process |-> SeenBy(q)] EXCEPT ![p] = @ \cup {<<r, dir[r]>>}]
        BY <2>5, <2>6
    <2>8. Pinned!Read(p, r)
        BY <2>2, <2>7 DEF Pinned!Read, SeenBy
    <2> QED
        BY <2>8 DEF Pinned!Next
<1>9. ASSUME NEW p \in Process, Run(p) PROVE [Pinned!Next]_(Pinned!vars)
    <2>1. CASE StartRun(p) \/ Crash(p)
        BY <1>7, <2>1
    <2>2. CASE Read(p)
        BY <1>8, <2>2
    <2>3. CASE Rename(p)
        BY <1>5, <2>3
    <2>4. CASE Silent(p) /\ ~Rename(p)
        <3>1. dir' = dir
            BY <2>4 DEF Silent, EndRun, Include, IncludePinned, IncludeEnvs, Asks, Resolve,
                        ResolveFails, Lookup, Unauthorized, Pull, PullFails, RenameFails,
                        Access, AccessRefused
        <3> QED
            BY <1>4, <2>4, <3>1
    <2> QED
        BY <1>9, <2>1, <2>2, <2>3, <2>4 DEF Run, Silent
<1> QED
    BY <1>2, <1>3, <1>9 DEF Next

\* Races, crashes and failures included, the directories are what PinnedContent
\* says: complete when they appear, never replaced, and read as they are.
THEOREM ImplementsPinned == Spec => ReadsPinned
<1>1. Init => Pinned!Init
    BY PinnedInit
<1>2. CacheInv /\ [Next]_vars => [Pinned!Next]_(Pinned!vars)
    BY PinnedStep
<1>3. Spec => []CacheInv
    BY CacheInvariant
<1> QED
    BY <1>1, <1>2, <1>3, PTL DEF Spec, ReadsPinned, Pinned!Spec

-----------------------------------------------------------------------------
(***************************************************************************)
(* A file that is not found was looked for in a whole directory, which     *)
(* stays what it is.                                                       *)
(***************************************************************************)
\* Of a run with memory x, while the directories are d.
Missed(x, d) ==
    x.result = "remote-file-not-found" =>
        /\ x.phase = Idle
        /\ x.ref \in Ref /\ d[x.ref] # NoDigest
        /\ x.wanted \notin FilesIn[d[x.ref]]

MissInv == \A p \in Process : Missed(run[p], dir)

LEMMA InvMissing == CacheInv /\ MissInv => MissingIsMissing
<1> SUFFICES ASSUME CacheInv, MissInv, NEW p \in Process,
                    run[p].result = "remote-file-not-found"
             PROVE  run[p].wanted
                        \notin FilesIn[IF run[p].ref = Tag THEN dir[Tag] ELSE run[p].ref]
    BY DEF MissingIsMissing
<1>1. /\ run[p].ref \in Ref /\ dir[run[p].ref] # NoDigest
      /\ run[p].wanted \notin FilesIn[dir[run[p].ref]]
    BY DEF MissInv, Missed
<1>2. run[p].ref # Tag => dir[run[p].ref] = run[p].ref
    BY <1>1 DEF CacheInv, Honest, Ref
<1> QED
    BY <1>1, <1>2

\* A step of a run, as far as it matters here.
LEMMA MissedStep ==
    ASSUME CacheInv, MissInv, NEW p \in Process, NEW x, Set(p, x),
           \A r \in Ref : dir[r] # NoDigest => dir'[r] = dir[r],
           Missed(x, dir')
    PROVE  MissInv'
<1> SUFFICES ASSUME NEW q \in Process PROVE Missed(run'[q], dir')
    BY DEF MissInv
<1>1. run' = [run EXCEPT ![p] = x] /\ run \in [Process -> RunType]
    BY DEF Set, CacheInv
<1>2. Missed(run[q], dir)
    BY DEF MissInv
<1>3. Missed(run[q], dir')
    BY <1>2 DEF Missed
<1> QED
    BY <1>1, <1>3

\* A run that goes on has missed nothing yet.
LEMMA MissedBusy ==
    ASSUME CacheInv, MissInv, NEW p \in Process, run[p].phase # Idle
    PROVE  run[p].result # "remote-file-not-found"
BY DEF MissInv, Missed

LEMMA MissedOwn ==
    ASSUME CacheInv, MissInv, NEW p \in Process, NEW x, Set(p, x), dir' = dir,
           x.result # "remote-file-not-found"
    PROVE  MissInv'
BY MissedStep DEF Missed

LEMMA MissedGoesOn ==
    ASSUME CacheInv, MissInv, NEW p \in Process,
           \/ Include(p) \/ IncludePinned(p) \/ IncludeEnvs(p)
           \/ Resolve(p) \/ Lookup(p) \/ Pull(p) \/ Rename(p) \/ Read(p)
    PROVE  MissInv'
<1>1. run[p] \in RunType /\ dir \in [Ref -> Digest \cup {NoDigest}]
    BY DEF CacheInv
<1>2. run[p].phase # Idle
    BY DEF Include, IncludePinned, IncludeEnvs, Asks, Resolve, Lookup, Pull, Rename, Read, In, Idle
<1>3. run[p].result # "remote-file-not-found"
    BY <1>2, MissedBusy
<1>4. CASE Include(p) \/ IncludePinned(p) \/ IncludeEnvs(p)
    <2>1. PICK way, phase, ref : Asks(p, way, phase, ref)
        BY <1>4 DEF Include, IncludePinned, IncludeEnvs
    <2> DEFINE x == [run[p] EXCEPT !.phase = phase, !.ref = ref, !.way = way, !.reads = @ + 1]
    <2>2. x.result = run[p].result
        BY <1>1 DEF RunType
    <2> QED
        BY <1>3, <2>1, <2>2, MissedOwn DEF Asks
<1>5. CASE Resolve(p) \/ Lookup(p)
    BY <1>1, <1>3, <1>5, MissedOwn DEF Resolve, Lookup, RunType
<1>6. CASE Pull(p)
    BY <1>1, <1>3, <1>6, MissedOwn DEF Pull, RunType
<1>7. CASE Rename(p)
    <2>1. Renamed(p).result = run[p].result
        BY <1>1 DEF Renamed, RunType
    <2>2. Missed(Renamed(p), dir')
        BY <1>3, <2>1 DEF Missed
    <2>3. \A r \in Ref : dir[r] # NoDigest => dir'[r] = dir[r]
        BY <1>1, <1>7 DEF Rename
    <2> QED
        BY <1>7, <2>2, <2>3, MissedStep DEF Rename
<1>8. CASE Read(p)
    BY <1>1, <1>3, <1>8, MissedOwn DEF Read, RunType
<1> QED
    BY <1>4, <1>5, <1>6, <1>7, <1>8

LEMMA MissedOver ==
    ASSUME CacheInv, MissInv, NEW p \in Process,
           \/ StartRun(p) \/ Crash(p) \/ EndRun(p) \/ ResolveFails(p) \/ Unauthorized(p)
           \/ PullFails(p) \/ RenameFails(p) \/ AccessRefused(p)
    PROVE  MissInv'
<1>1. run[p] \in RunType
    BY DEF CacheInv
<1>2. CASE StartRun(p) \/ Crash(p)
    BY <1>2, MissedOwn DEF StartRun, Crash, Fresh
<1>3. CASE EndRun(p) \/ ResolveFails(p) \/ AccessRefused(p)
    BY <1>1, <1>3, MissedOwn DEF EndRun, ResolveFails, AccessRefused, End, RunType
<1>4. CASE Unauthorized(p) \/ PullFails(p) \/ RenameFails(p)
    BY <1>1, <1>4, MissedOwn DEF Unauthorized, PullFails, RenameFails, RunType
<1> QED
    BY <1>2, <1>3, <1>4

LEMMA MissedAccess ==
    ASSUME CacheInv, MissInv, NEW p \in Process, NEW f \in File, Access(p, f)
    PROVE  MissInv'
<1>1. run[p] \in RunType /\ Sound(run[p], tag, dir)
    BY DEF CacheInv
<1>2. run[p].phase = "access" /\ run[p].ref \in Ref /\ dir[run[p].ref] # NoDigest
    BY <1>1 DEF Access, In, Sound, Working
<1>3. CASE Present(p, f)
    <2>1. run[p].result # "remote-file-not-found"
        BY <1>2, MissedBusy DEF Idle
    <2> QED
        BY <1>1, <1>3, <2>1, MissedOwn DEF Access, RunType
<1>4. CASE ~Present(p, f)
    <2> DEFINE x == [run[p] EXCEPT !.phase = Idle, !.wanted = f,
                                   !.result = "remote-file-not-found"]
    <2>1. dir[run[p].ref] \in Digest
        BY <1>2 DEF CacheInv
    <2>2. f \notin FilesIn[dir[run[p].ref]]
        BY <1>4, <2>1 DEF Present, Content
    <2>3. Missed(x, dir)
        BY <1>1, <1>2, <2>2 DEF Missed, RunType
    <2> QED
        BY <1>4, <2>3, MissedStep DEF Access
<1> QED
    BY <1>3, <1>4

LEMMA MissedNext == CacheInv /\ MissInv /\ [Next]_vars => MissInv'
<1> SUFFICES ASSUME CacheInv, MissInv, [Next]_vars PROVE MissInv'
    OBVIOUS
<1>1. CASE UNCHANGED vars
    BY <1>1 DEF vars, MissInv
<1>2. CASE Retag
    <2>1. \A p \in Process : /\ run'[p].result = run[p].result /\ run'[p].phase = run[p].phase
                             /\ run'[p].ref = run[p].ref /\ run'[p].wanted = run[p].wanted
        BY <1>2 DEF Retag, CacheInv, RunType
    <2> QED
        BY <1>2, <2>1 DEF Retag, MissInv, Missed
<1>3. ASSUME NEW p \in Process, Run(p) PROVE MissInv'
    BY <1>3, MissedGoesOn, MissedOver, MissedAccess DEF Run
<1> QED
    BY <1>1, <1>2, <1>3 DEF Next

LEMMA MissedInit == Init => MissInv
BY DEF Init, MissInv, Missed, Fresh

\* No other run, no interrupted one and no move of the tag makes a file look
\* missing from the artifact it was looked for in.
THEOREM MissingFilesMissing == Spec => []MissingIsMissing
<1>1. CacheInv /\ MissInv /\ [Next]_vars => MissInv'
    BY MissedNext
<1>2. Spec => [](CacheInv /\ MissInv)
    BY <1>1, MissedInit, CacheInvariant, PTL DEF Spec
<1> QED
    BY <1>2, InvMissing, PTL

=============================================================================
