--------------------------- MODULE GitCacheProofs ---------------------------
(***************************************************************************)
(* Proofs about GitCache, for any number of runs, commits and files.       *)
(*                                                                         *)
(* Sound says of one run what its next steps rely on: that a clone it has  *)
(* found is still there, and that all it has read is of the commit of the  *)
(* clone.  Whatever a run does to the clone, it leaves it there and at its *)
(* commit (Lasts), so that no other run's Sound is disturbed.              *)
(***************************************************************************)
EXTENDS GitCache, TLAPS

InClone == InCommand \cup {"access", "read"}

\* Of a run with memory x, while the clone is c.
Sound(x, c) ==
    /\ x \in RunType
    /\ x.phase \notin {Idle, "ready"} => x.wanted \in File
    /\ x.phase \in InClone \/ x.oid # NoOid => c # NoClone
    /\ x.phase = "rename" => x.tmp \in Oid
    /\ \A r \in x.read : c # NoClone /\ r[2] = c.oid

CloneInv ==
    /\ upstream \in Oid
    /\ clone \in Clone \cup {NoClone}
    /\ proc \in [Process -> RunType]
    /\ \A p \in Process : Sound(proc[p], clone)

\* A clone is never replaced, nor removed.
Lasts == clone # NoClone => clone' # NoClone /\ clone'.oid = clone.oid

-----------------------------------------------------------------------------
(***************************************************************************)
(* What the properties follow from.                                        *)
(***************************************************************************)
LEMMA InvTypes == CloneInv => TypeOK
BY DEF CloneInv, Sound, TypeOK, InClone

LEMMA InvOneCommit == CloneInv => OneCommitPerRun
<1> SUFFICES ASSUME CloneInv, NEW p \in Process, NEW r \in proc[p].read, NEW s \in proc[p].read
             PROVE  r[2] = s[2]
    BY DEF OneCommitPerRun
<1>1. Sound(proc[p], clone)
    BY DEF CloneInv
<1> QED
    BY <1>1 DEF Sound

-----------------------------------------------------------------------------
LEMMA NewCloneType == ASSUME NEW oid \in Oid PROVE NewClone(oid) \in Clone
BY DEF NewClone, Clone

LEMMA FreshSound ==
    ASSUME NEW n \in 0..MaxRuns, NEW c
    PROVE  Sound(Fresh(n), c) /\ Sound([Fresh(n) EXCEPT !.phase = "ready"], c)
<1>1. 0 \in 0..MaxReads
    BY CloneAssumption
<1>2. Fresh(n) \in RunType
    BY <1>1 DEF Fresh, RunType, Phases, Results
<1>3. [Fresh(n) EXCEPT !.phase = "ready"] \in RunType
    BY <1>2 DEF Fresh, RunType, Phases
<1> QED
    BY <1>2, <1>3 DEF Sound, Fresh, InClone, InCommand, Idle

LEMMA InitInv == Init => CloneInv
<1> SUFFICES ASSUME Init PROVE CloneInv
    OBVIOUS
<1>1. 0 \in 0..MaxRuns
    BY CloneAssumption
<1>2. Sound(Fresh(0), clone) /\ Fresh(0) \in RunType
    BY <1>1, FreshSound DEF Sound
<1> QED
    BY <1>2 DEF Init, CloneInv

\* What a run does to itself and to the clone.
LEMMA RunStep ==
    ASSUME CloneInv, NEW p \in Process, NEW x, Set(p, x), Sound(x, clone'),
           clone' \in Clone \cup {NoClone}, Lasts, upstream' = upstream
    PROVE  CloneInv'
<1>1. proc' = [proc EXCEPT ![p] = x] /\ x \in RunType
    BY DEF Set, Sound
<1>2. proc' \in [Process -> RunType]
    BY <1>1 DEF CloneInv
<1>3. \A q \in Process : Sound(proc'[q], clone')
    <2> SUFFICES ASSUME NEW q \in Process PROVE Sound(proc'[q], clone')
        OBVIOUS
    <2>1. CASE q = p
        BY <1>1, <2>1 DEF CloneInv
    <2>2. CASE q # p
        BY <1>1, <2>2 DEF CloneInv, Sound, Lasts
    <2> QED
        BY <2>1, <2>2
<1> QED
    BY <1>2, <1>3 DEF CloneInv

\* The same, for the steps that leave the clone alone.
LEMMA OwnStep ==
    ASSUME CloneInv, NEW p \in Process, NEW x, Set(p, x), Sound(x, clone),
           UNCHANGED <<upstream, clone>>
    PROVE  CloneInv'
BY RunStep DEF CloneInv, Lasts

-----------------------------------------------------------------------------
LEMMA StartCrashInv ==
    ASSUME CloneInv, NEW p \in Process, StartRun(p) \/ Crash(p)
    PROVE  CloneInv'
<1>1. proc[p] \in RunType
    BY DEF CloneInv
<1>2. CASE StartRun(p)
    <2>1. proc[p].runs + 1 \in 0..MaxRuns
        BY <1>1, <1>2, CloneAssumption DEF StartRun, RunType
    <2> QED
        BY <1>2, <2>1, FreshSound, OwnStep DEF StartRun
<1>3. CASE Crash(p)
    BY <1>1, <1>3, FreshSound, OwnStep DEF Crash, RunType
<1> QED
    BY <1>2, <1>3

\* Whatever ends a run leaves what it remembers.
LEMMA EndSound ==
    ASSUME CloneInv, NEW p \in Process, NEW result \in Results
    PROVE  Sound([proc[p] EXCEPT !.phase = Idle, !.result = result], clone)
<1> DEFINE x == [proc[p] EXCEPT !.phase = Idle, !.result = result]
<1>1. Sound(proc[p], clone) /\ proc[p] \in RunType
    BY DEF CloneInv
<1>2. x \in RunType
    BY <1>1 DEF RunType, Phases
<1> QED
    BY <1>1, <1>2 DEF Sound, RunType, InClone, InCommand, Idle

LEMMA EndInv ==
    ASSUME CloneInv, NEW p \in Process, NEW result \in Results,
           End(p, result), UNCHANGED <<upstream, clone>>
    PROVE  CloneInv'
BY EndSound, OwnStep DEF End

LEMMA OverInv ==
    ASSUME CloneInv, NEW p \in Process,
           EndRun(p) \/ CloneFails(p) \/ CommandFails(p) \/ RefusePath(p)
    PROVE  CloneInv'
BY EndInv DEF EndRun, CloneFails, CommandFails, RefusePath, Results

\* Towards a file, when the clone is there.
LEMMA PathSound ==
    ASSUME NEW x \in RunType, NEW c, Sound(x, c), x.wanted \in File, c # NoClone
    PROVE  Sound([x EXCEPT !.phase = PathPhase(x)], c)
<1> DEFINE y == [x EXCEPT !.phase = PathPhase(x)]
<1>1. PathPhase(x) \in {"access", "sparse-checkout"}
    BY DEF PathPhase
<1>2. y \in RunType
    BY <1>1 DEF RunType, Phases, InCommand
<1> QED
    BY <1>1, <1>2 DEF Sound, RunType, InClone, InCommand, Idle

LEMMA AskInv ==
    ASSUME CloneInv, NEW p \in Process, NEW f \in File, Ask(p, f)
    PROVE  CloneInv'
<1> DEFINE x == [proc[p] EXCEPT !.wanted = f, !.reads = @ + 1]
           y == [x EXCEPT !.phase = "rev-parse"]
<1>1. Sound(proc[p], clone) /\ proc[p] \in RunType /\ proc[p].phase = "ready"
    BY DEF CloneInv, Ask, In
<1>2. proc[p].reads + 1 \in 0..MaxReads
    BY <1>1, CloneAssumption DEF Ask, RunType
<1>3. x \in RunType
    BY <1>1, <1>2 DEF RunType
<1>4. Sound(x, clone) /\ x.wanted = f
    BY <1>1, <1>3 DEF Sound, RunType, InClone, InCommand, Idle
<1>5. CASE x.oid = NoOid
    <2>1. y \in RunType
        BY <1>3 DEF RunType, Phases
    <2>2. Sound(y, clone)
        BY <1>4, <2>1 DEF Sound, RunType, InClone, InCommand, Idle
    <2> QED
        BY <1>5, <2>2, OwnStep DEF Ask
<1>6. CASE x.oid # NoOid
    <2>1. clone # NoClone
        BY <1>4, <1>6 DEF Sound
    <2>2. Sound([x EXCEPT !.phase = PathPhase(x)], clone)
        BY <1>3, <1>4, <2>1, PathSound
    <2>3. Set(p, [x EXCEPT !.phase = PathPhase(x)]) /\ UNCHANGED <<upstream, clone>>
        BY <1>6 DEF Ask
    <2> QED
        BY <2>2, <2>3, OwnStep
<1> QED
    BY <1>5, <1>6

-----------------------------------------------------------------------------
LEMMA ReuseInv ==
    ASSUME CloneInv, NEW p \in Process, ReuseClone(p)
    PROVE  CloneInv'
<1> DEFINE x == [proc[p] EXCEPT !.oid = clone.oid]
<1>1. Sound(proc[p], clone) /\ proc[p] \in RunType /\ proc[p].phase = "rev-parse"
    BY DEF CloneInv, ReuseClone, In
<1>2. clone \in Clone /\ clone # NoClone
    BY DEF CloneInv, ReuseClone
<1>3. x \in RunType
    BY <1>1, <1>2 DEF RunType, Clone
<1>4. Sound(x, clone) /\ x.wanted \in File
    BY <1>1, <1>2, <1>3 DEF Sound, RunType, InClone, InCommand, Idle
<1> QED
    BY <1>2, <1>3, <1>4, PathSound, OwnStep DEF ReuseClone

LEMMA CloneBranchInv ==
    ASSUME CloneInv, NEW p \in Process, NoCloneFound(p) \/ CloneBranch(p)
    PROVE  CloneInv'
<1> DEFINE x == [proc[p] EXCEPT !.phase = "clone"]
           y == [proc[p] EXCEPT !.phase = "rename", !.tmp = upstream]
<1>1. Sound(proc[p], clone) /\ proc[p] \in RunType /\ upstream \in Oid
    BY DEF CloneInv
<1>2. CASE NoCloneFound(p)
    <2>1. x \in RunType
        BY <1>1 DEF RunType, Phases
    <2>2. Sound(x, clone)
        BY <1>1, <1>2, <2>1
           DEF Sound, RunType, InClone, InCommand, Idle, NoCloneFound, In
    <2> QED
        BY <1>2, <2>2, OwnStep DEF NoCloneFound
<1>3. CASE CloneBranch(p)
    <2>1. y \in RunType
        BY <1>1 DEF RunType, Phases
    <2>2. Sound(y, clone)
        BY <1>1, <1>3, <2>1
           DEF Sound, RunType, InClone, InCommand, Idle, CloneBranch, In
    <2> QED
        BY <1>3, <2>2, OwnStep DEF CloneBranch
<1> QED
    BY <1>2, <1>3

\* Whoever is first, there is a clone now.
LEMMA RenameClone ==
    ASSUME CloneInv, NEW p \in Process, Rename(p)
    PROVE  /\ proc[p].tmp \in Oid
           /\ clone' \in Clone /\ clone' # NoClone
           /\ Lasts
<1>1. Sound(proc[p], clone) /\ proc[p].phase = "rename"
    BY DEF CloneInv, Rename, In
<1>2. proc[p].tmp \in Oid
    BY <1>1 DEF Sound
<1>3. NewClone(proc[p].tmp) \in Clone
    BY <1>2, NewCloneType
<1> QED
    BY <1>2, <1>3, CloneAssumption DEF Rename, CloneInv, Lasts

LEMMA RenameInv ==
    ASSUME CloneInv, NEW p \in Process, Rename(p)
    PROVE  CloneInv'
<1> DEFINE x == [proc[p] EXCEPT !.oid = proc[p].tmp, !.tmp = NoOid, !.sparseSet = {}]
<1>1. Sound(proc[p], clone) /\ proc[p] \in RunType /\ proc[p].phase = "rename"
    BY DEF CloneInv, Rename, In
<1>2. x \in RunType
    BY <1>1, RenameClone DEF RunType
<1>3. x.wanted = proc[p].wanted /\ x.read = proc[p].read /\ x.phase = "rename"
    BY <1>1 DEF RunType
<1>4. x.wanted \in File /\ \A r \in x.read : r[2] = clone'.oid
    BY <1>1, <1>3, RenameClone DEF Sound, Idle, Lasts
<1>5. Sound([x EXCEPT !.phase = PathPhase(x)], clone')
    <2> DEFINE y == [x EXCEPT !.phase = PathPhase(x)]
    <2>1. PathPhase(x) \in {"access", "sparse-checkout"}
        BY DEF PathPhase
    <2>2. y \in RunType
        BY <1>2, <2>1 DEF RunType, Phases, InCommand
    <2>3. y.wanted = x.wanted /\ y.read = x.read /\ y.phase = PathPhase(x)
        BY <1>1
    <2> QED
        BY <1>4, <2>1, <2>2, <2>3, RenameClone DEF Sound
<1> QED
    BY <1>5, RenameClone, RunStep DEF Rename

-----------------------------------------------------------------------------
\* The commands change what is checked out of the clone, not its commit.
LEMMA InCloneIsThere ==
    ASSUME CloneInv, NEW p \in Process, proc[p].phase \in InClone
    PROVE  clone \in Clone /\ clone # NoClone
BY DEF CloneInv, Sound

LEMMA SetConeInv ==
    ASSUME CloneInv, NEW p \in Process, SetCone(p)
    PROVE  CloneInv'
<1> DEFINE x == [proc[p] EXCEPT !.phase = "checkout"]
           cone == Cone[WantedDir(p)]
<1>1. Sound(proc[p], clone) /\ proc[p] \in RunType /\ proc[p].phase = "sparse-checkout"
    BY DEF CloneInv, SetCone, In
<1>2. clone \in Clone /\ clone # NoClone
    BY <1>1, InCloneIsThere DEF InClone, InCommand
<1>3. cone \in SUBSET Dir
    <2>1. proc[p].wanted \in File
        BY <1>1 DEF Sound, Idle
    <2>2. WantedDir(p) \in Dir
        BY <2>1 DEF WantedDir, Dir
    <2> QED
        BY <2>2, CloneAssumption
<1> HIDE DEF cone
<1>4. clone' = [clone EXCEPT !.cone = cone, !.dirs = IF @ = {} THEN @ ELSE cone]
    BY DEF SetCone, WithCone, cone
<1>5. clone' \in Clone /\ clone'.oid = clone.oid
    BY <1>2, <1>3, <1>4 DEF Clone
<1>6. x \in RunType
    BY <1>1 DEF RunType, Phases, InCommand
<1>7. Sound(x, clone')
    BY <1>1, <1>5, <1>6, CloneAssumption DEF Sound, RunType, InClone, InCommand, Idle
<1> QED
    BY <1>5, <1>7, CloneAssumption, RunStep DEF SetCone, Lasts

LEMMA CheckoutInv ==
    ASSUME CloneInv, NEW p \in Process, Checkout(p)
    PROVE  CloneInv'
<1> DEFINE x == [proc[p] EXCEPT !.phase = "access", !.sparseSet = @ \cup {WantedDir(p)}]
<1>1. Sound(proc[p], clone) /\ proc[p] \in RunType /\ proc[p].phase = "checkout"
    BY DEF CloneInv, Checkout, In
<1>2. clone \in Clone /\ clone # NoClone
    BY <1>1, InCloneIsThere DEF InClone, InCommand
<1>3. WantedDir(p) \in Dir
    BY <1>1 DEF Sound, Idle, WantedDir, Dir
<1>4. clone' \in Clone /\ clone'.oid = clone.oid
    BY <1>2 DEF Clone, Checkout, CheckedOut
<1>5. x \in RunType
    BY <1>1, <1>3 DEF RunType, Phases
<1>6. Sound(x, clone')
    BY <1>1, <1>4, <1>5, CloneAssumption DEF Sound, RunType, InClone, InCommand, Idle
<1> QED
    BY <1>4, <1>6, CloneAssumption, RunStep DEF Checkout, Lasts

\* A command that is killed has done some of what it was to do.
LEMMA KilledClone ==
    ASSUME CloneInv, NEW p \in Process, CommandKilled(p)
    PROVE  /\ clone' \in Clone /\ clone'.oid = clone.oid
           /\ clone'.cone \in {clone.cone, Cone[WantedDir(p)]}
           /\ clone.dirs \cap (IF In(p, "checkout") THEN clone.cone ELSE Cone[WantedDir(p)])
                \subseteq clone'.dirs
<1> DEFINE wanted == Cone[WantedDir(p)]
           whole == IF In(p, "checkout") THEN CheckedOut ELSE WithCone(wanted)
<1>1. clone \in Clone /\ Sound(proc[p], clone) /\ proc[p].phase \in InCommand
    BY InCloneIsThere DEF CloneInv, InClone, CommandKilled
<1>2. wanted \in SUBSET Dir
    <2>1. WantedDir(p) \in Dir
        BY <1>1 DEF Sound, InCommand, Idle, WantedDir, Dir
    <2> QED
        BY <2>1, CloneAssumption
<1> PICK cone \in {clone.cone, whole.cone}, dirs \in SUBSET (clone.dirs \cup whole.dirs) :
        /\ clone.dirs \cap whole.dirs \subseteq dirs
        /\ clone' = [clone EXCEPT !.cone = cone, !.dirs = dirs, !.locked = TRUE]
    BY DEF CommandKilled
<1> HIDE DEF wanted
<1>3. /\ whole.cone \in {clone.cone, wanted}
      /\ whole.dirs \in {clone.dirs, IF In(p, "checkout") THEN clone.cone ELSE wanted}
    BY <1>1 DEF CheckedOut, WithCone, Clone
<1> HIDE DEF whole
<1>4. cone \in SUBSET Dir /\ dirs \in SUBSET Dir /\ cone \in {clone.cone, wanted}
    BY <1>1, <1>2, <1>3 DEF Clone
<1>5. clone' \in Clone /\ clone'.oid = clone.oid /\ clone'.cone = cone /\ clone'.dirs = dirs
    BY <1>1, <1>4 DEF Clone
<1> QED
    BY <1>3, <1>4, <1>5 DEF wanted

LEMMA CommandKilledInv ==
    ASSUME CloneInv, NEW p \in Process, CommandKilled(p)
    PROVE  CloneInv'
<1> DEFINE x == [proc[p] EXCEPT !.phase = Idle, !.result = "failed"]
<1>1. clone \in Clone /\ clone # NoClone
    BY InCloneIsThere DEF InClone, CommandKilled
<1>2. clone' \in Clone /\ clone'.oid = clone.oid
    BY KilledClone
<1>3. Sound(x, clone)
    BY EndSound DEF Results
<1>4. Sound(x, clone')
    BY <1>2, <1>3, CloneAssumption DEF Sound
<1> QED
    BY <1>2, <1>4, CloneAssumption, RunStep DEF CommandKilled, End, Lasts

LEMMA AccessInv ==
    ASSUME CloneInv, NEW p \in Process, Access(p)
    PROVE  CloneInv'
<1> DEFINE x == [proc[p] EXCEPT !.phase = "read"]
<1>1. Sound(proc[p], clone) /\ proc[p] \in RunType /\ proc[p].phase = "access"
    BY DEF CloneInv, Access, In
<1>2. x \in RunType
    BY <1>1 DEF RunType, Phases
<1>3. Sound(x, clone)
    BY <1>1, <1>2 DEF Sound, RunType, InClone, InCommand, Idle
<1>4. CASE Present(proc[p].wanted)
    BY <1>3, <1>4, OwnStep DEF Access
<1>5. CASE ~Present(proc[p].wanted)
    BY <1>5, EndInv DEF Access, Results
<1> QED
    BY <1>4, <1>5

LEMMA ReadInv ==
    ASSUME CloneInv, NEW p \in Process, Read(p)
    PROVE  CloneInv'
<1> DEFINE r0 == <<proc[p].wanted, clone.oid>>
           x == [proc[p] EXCEPT !.phase = "ready", !.read = @ \cup {r0}]
<1>1. Sound(proc[p], clone) /\ proc[p] \in RunType /\ proc[p].phase = "read"
    BY DEF CloneInv, Read, In
<1>2. clone \in Clone /\ clone # NoClone
    BY <1>1, InCloneIsThere DEF InClone, InCommand
<1>3. r0 \in File \X Oid /\ r0[2] = clone.oid
    BY <1>1, <1>2 DEF Sound, Clone, Idle
<1>4. CASE Present(proc[p].wanted)
    <2> HIDE DEF r0
    <2>1. x \in RunType /\ x.read = proc[p].read \cup {r0}
        BY <1>1, <1>3 DEF RunType, Phases
    <2>2. Sound(x, clone)
        BY <1>1, <1>2, <1>3, <2>1 DEF Sound, RunType, InClone, InCommand, Idle
    <2> QED
        BY <1>4, <2>2, OwnStep DEF Read, r0
<1>5. CASE ~Present(proc[p].wanted)
    BY <1>5, EndInv DEF Read, Results
<1> QED
    BY <1>4, <1>5

-----------------------------------------------------------------------------
LEMMA NextInv == CloneInv /\ [Next]_vars => CloneInv'
<1> SUFFICES ASSUME CloneInv, [Next]_vars PROVE CloneInv'
    OBVIOUS
<1>1. CASE Push
    BY <1>1 DEF Push, CloneInv
<1>2. CASE \E p \in Process : Run(p)
    <2> SUFFICES ASSUME NEW p \in Process, Run(p) PROVE CloneInv'
        BY <1>2
    <2>1. CASE StartRun(p) \/ Crash(p)
        BY <2>1, StartCrashInv
    <2>2. CASE EndRun(p) \/ CloneFails(p) \/ CommandFails(p) \/ RefusePath(p)
        BY <2>2, OverInv
    <2>3. CASE \E f \in File : Ask(p, f)
        BY <2>3, AskInv
    <2>4. CASE ReuseClone(p)
        BY <2>4, ReuseInv
    <2>5. CASE NoCloneFound(p) \/ CloneBranch(p)
        BY <2>5, CloneBranchInv
    <2>6. CASE Rename(p)
        BY <2>6, RenameInv
    <2>7. CASE SetCone(p)
        BY <2>7, SetConeInv
    <2>8. CASE Checkout(p)
        BY <2>8, CheckoutInv
    <2>9. CASE CommandKilled(p)
        BY <2>9, CommandKilledInv
    <2>10. CASE Access(p)
        BY <2>10, AccessInv
    <2>11. CASE Read(p)
        BY <2>11, ReadInv
    <2> QED
        BY <2>1, <2>2, <2>3, <2>4, <2>5, <2>6, <2>7, <2>8, <2>9, <2>10, <2>11 DEF Run
<1>3. CASE UNCHANGED vars
    BY <1>3 DEF vars, CloneInv
<1> QED
    BY <1>1, <1>2, <1>3 DEF Next

\* Between two steps, every run agrees with the clone on what it has read.
THEOREM CloneInvariant == Spec => []CloneInv
<1>1. Init => CloneInv
    BY InitInv
<1>2. CloneInv /\ [Next]_vars => CloneInv'
    BY NextInv
<1> QED
    BY <1>1, <1>2, PTL DEF Spec

\* A run that waits for a command on the clone, or looks into it, has one,
\* whatever fails and whoever races.
THEOREM TypesCorrect == Spec => []TypeOK
BY CloneInvariant, InvTypes, PTL

\* All that a run reads from a branch is of one commit.
THEOREM OneCommit == Spec => []OneCommitPerRun
BY CloneInvariant, InvOneCommit, PTL

-----------------------------------------------------------------------------
(***************************************************************************)
(* GitCache implements PinnedContent: the Rename of the fastest run pins,  *)
(* Read reads, a run that starts anew or is interrupted forgets, and       *)
(* nothing else shows.                                                     *)
(***************************************************************************)
SeenBy(p) == {<<"branch", r[2]>> : r \in proc[p].read}

Silent(p) ==
    \/ EndRun(p) \/ (\E f \in File : Ask(p, f)) \/ ReuseClone(p) \/ NoCloneFound(p)
    \/ CloneBranch(p) \/ CloneFails(p) \/ Rename(p) \/ SetCone(p) \/ Checkout(p)
    \/ CommandFails(p) \/ CommandKilled(p) \/ Access(p) \/ RefusePath(p)
    \/ (Read(p) /\ ~Present(proc[p].wanted))

LEMMA SilentReads ==
    ASSUME CloneInv, NEW p \in Process, Silent(p)
    PROVE  \A q \in Process : proc'[q].read = proc[q].read
<1>1. proc \in [Process -> RunType] /\ proc[p] \in RunType
    BY DEF CloneInv
<1>2. ASSUME NEW x, Set(p, x), x.read = proc[p].read
      PROVE  \A q \in Process : proc'[q].read = proc[q].read
    BY <1>1, <1>2 DEF Set
<1>3. ASSUME NEW result, End(p, result)
      PROVE  \A q \in Process : proc'[q].read = proc[q].read
    BY <1>1, <1>2, <1>3 DEF End, RunType
<1>4. CASE \/ EndRun(p) \/ CloneFails(p) \/ CommandFails(p) \/ RefusePath(p) \/ CommandKilled(p)
           \/ (Read(p) /\ ~Present(proc[p].wanted))
    BY <1>3, <1>4 DEF EndRun, CloneFails, CommandFails, RefusePath, CommandKilled, Read
<1>5. CASE \E f \in File : Ask(p, f)
    BY <1>1, <1>2, <1>5 DEF Ask, RunType
<1>6. CASE ReuseClone(p)
    BY <1>1, <1>2, <1>6 DEF ReuseClone, RunType
<1>7. CASE NoCloneFound(p) \/ CloneBranch(p)
    BY <1>1, <1>2, <1>7 DEF NoCloneFound, CloneBranch, RunType
<1>8. CASE Rename(p)
    BY <1>1, <1>2, <1>8 DEF Rename, RunType
<1>9. CASE SetCone(p) \/ Checkout(p)
    BY <1>1, <1>2, <1>9 DEF SetCone, Checkout, RunType
<1>10. CASE Access(p)
    BY <1>1, <1>2, <1>3, <1>10 DEF Access, RunType
<1> QED
    BY <1>4, <1>5, <1>6, <1>7, <1>8, <1>9, <1>10 DEF Silent

LEMMA PinnedInit == Init => Pinned!Init
<1> SUFFICES ASSUME Init PROVE Pinned!Init
    OBVIOUS
<1>1. \A p \in Process : proc[p].read = {}
    BY DEF Init, Fresh
<1> QED
    BY <1>1 DEF Init, Pinned!Init

\* Nothing that shows has changed.
LEMMA PinnedStutters ==
    ASSUME \A q \in Process : proc'[q].read = proc[q].read,
           Lasts, clone = NoClone => clone' = NoClone
    PROVE  UNCHANGED Pinned!vars
BY DEF Pinned!vars, Lasts

\* The commands change what is checked out, and nothing else of the clone.
LEMMA CommandClone ==
    ASSUME CloneInv, NEW p \in Process, SetCone(p) \/ Checkout(p) \/ CommandKilled(p)
    PROVE  /\ clone \in Clone /\ clone # NoClone
           /\ clone' \in Clone /\ clone' # NoClone
           /\ clone'.oid = clone.oid
<1>1. clone \in Clone /\ clone # NoClone
    BY InCloneIsThere DEF InClone, InCommand, SetCone, Checkout, CommandKilled, In
<1>2. clone' \in Clone /\ clone'.oid = clone.oid
    <2>1. WantedDir(p) \in Dir
        BY DEF CloneInv, Sound, InClone, InCommand, WantedDir, Dir,
               SetCone, Checkout, CommandKilled, In, Idle
    <2>2. Cone[WantedDir(p)] \in SUBSET Dir
        BY <2>1, CloneAssumption
    <2>3. CASE SetCone(p)
        BY <1>1, <2>2, <2>3 DEF SetCone, WithCone, Clone
    <2>4. CASE Checkout(p)
        BY <1>1, <2>4 DEF Checkout, CheckedOut, Clone
    <2>5. CASE CommandKilled(p)
        BY <2>5, KilledClone
    <2> QED
        BY <2>3, <2>4, <2>5
<1> QED
    BY <1>1, <1>2, CloneAssumption

\* Of the steps that do not show, only Rename can make a clone.
LEMMA SilentLasts ==
    ASSUME CloneInv, NEW p \in Process, Silent(p), ~Rename(p)
    PROVE  Lasts /\ (clone = NoClone => clone' = NoClone)
<1>1. CASE SetCone(p) \/ Checkout(p) \/ CommandKilled(p)
    BY <1>1, CommandClone DEF Lasts
<1>2. CASE ~(SetCone(p) \/ Checkout(p) \/ CommandKilled(p))
    <2>1. clone' = clone
        BY <1>2 DEF Silent, EndRun, Ask, ReuseClone, NoCloneFound, CloneBranch, CloneFails,
                    CommandFails, RefusePath, Access, Read
    <2> QED
        BY <2>1 DEF Lasts
<1> QED
    BY <1>1, <1>2

LEMMA RenamePins ==
    ASSUME CloneInv, NEW p \in Process, Rename(p), clone = NoClone
    PROVE  Pinned!Pin("branch")
<1>1. clone' = NewClone(proc[p].tmp) /\ clone' # NoClone /\ proc[p].tmp \in Oid
    BY RenameClone DEF Rename
<1>2. clone'.oid = proc[p].tmp
    BY <1>1 DEF NewClone
<1>3. \A q \in Process : proc'[q].read = proc[q].read
    BY SilentReads DEF Silent
<1> QED
    BY <1>1, <1>2, <1>3 DEF Pinned!Pin

LEMMA ReadReads ==
    ASSUME CloneInv, NEW p \in Process, Read(p), Present(proc[p].wanted)
    PROVE  Pinned!Read(p, "branch")
<1> DEFINE r0 == <<proc[p].wanted, clone.oid>>
<1>1. proc \in [Process -> RunType] /\ proc[p] \in RunType
    BY DEF CloneInv
<1>2. clone \in Clone /\ clone # NoClone /\ clone' = clone
    BY InCloneIsThere DEF InClone, Read, In
<1>3. clone.oid # NoOid
    BY <1>2, CloneAssumption DEF Clone
<1>4. proc'[p].read = proc[p].read \cup {r0} /\ r0[2] = clone.oid
    BY <1>1 DEF Read, Set, RunType
<1>5. \A q \in Process \ {p} : proc'[q] = proc[q]
    BY <1>1 DEF Read, Set
<1> HIDE DEF r0
<1>6. SeenBy(p)' = SeenBy(p) \cup {<<"branch", clone.oid>>}
    <2>1. ASSUME NEW e \in SeenBy(p)' PROVE e \in SeenBy(p) \cup {<<"branch", clone.oid>>}
        <3>1. PICK r \in proc'[p].read : e = <<"branch", r[2]>>
            BY <2>1 DEF SeenBy
        <3> QED
            BY <1>4, <3>1 DEF SeenBy
    <2>2. ASSUME NEW e \in SeenBy(p) PROVE e \in SeenBy(p)'
        BY <1>4, <2>2 DEF SeenBy
    <2>3. <<"branch", clone.oid>> \in SeenBy(p)'
        <3>1. r0 \in proc'[p].read
            BY <1>4
        <3> QED
            BY <1>4, <3>1 DEF SeenBy
    <2> QED
        BY <2>1, <2>2, <2>3
<1>7. \A q \in Process \ {p} : SeenBy(q)' = SeenBy(q)
    BY <1>5 DEF SeenBy
<1>8. [q \in Process |-> SeenBy(q)]'
        = [[q \in Process |-> SeenBy(q)] EXCEPT ![p] = @ \cup {<<"branch", clone.oid>>}]
    BY <1>6, <1>7
<1> QED
    BY <1>2, <1>3, <1>8 DEF Pinned!Read, SeenBy

LEMMA PinnedStep == CloneInv /\ [Next]_vars => [Pinned!Next]_(Pinned!vars)
<1> SUFFICES ASSUME CloneInv, [Next]_vars PROVE [Pinned!Next]_(Pinned!vars)
    OBVIOUS
<1>1. proc \in [Process -> RunType]
    BY DEF CloneInv
<1>2. CASE UNCHANGED vars \/ Push
    BY <1>2, PinnedStutters DEF vars, Push, Lasts
<1>3. ASSUME NEW p \in Process, Silent(p), ~Rename(p)
      PROVE  [Pinned!Next]_(Pinned!vars)
    BY <1>3, SilentReads, SilentLasts, PinnedStutters
<1>4. ASSUME NEW p \in Process, Rename(p)
      PROVE  [Pinned!Next]_(Pinned!vars)
    <2>1. CASE clone = NoClone
        <3>1. Pinned!Pin("branch")
            BY <1>4, <2>1, RenamePins
        <3> QED
            BY <3>1 DEF Pinned!Next
    <2>2. CASE clone # NoClone
        BY <1>4, <2>2, SilentReads, RenameClone, PinnedStutters DEF Silent
    <2> QED
        BY <2>1, <2>2
<1>5. ASSUME NEW p \in Process, NEW x, Set(p, x), x.read = {}, clone' = clone
      PROVE  [Pinned!Next]_(Pinned!vars)
    <2>1. proc' = [proc EXCEPT ![p] = x]
        BY <1>5 DEF Set
    <2>2. Pinned!Forget(p)
        BY <1>1, <1>5, <2>1 DEF Pinned!Forget
    <2> QED
        BY <2>2 DEF Pinned!Next
<1>6. ASSUME NEW p \in Process, StartRun(p) \/ Crash(p)
      PROVE  [Pinned!Next]_(Pinned!vars)
    BY <1>5, <1>6 DEF StartRun, Crash, Fresh
<1>7. ASSUME NEW p \in Process, Read(p), Present(proc[p].wanted)
      PROVE  [Pinned!Next]_(Pinned!vars)
    <2>1. Pinned!Read(p, "branch")
        BY <1>7, ReadReads
    <2> QED
        BY <2>1 DEF Pinned!Next
<1>8. ASSUME NEW p \in Process, Run(p) PROVE [Pinned!Next]_(Pinned!vars)
    BY <1>3, <1>4, <1>6, <1>7, <1>8 DEF Run, Silent
<1> QED
    BY <1>2, <1>8 DEF Next

\* Races, crashes and pushes included, the clone is what PinnedContent says: it
\* holds one commit from when it appears, and whatever a run reads is of it.
THEOREM ImplementsPinned == Spec => ReadsPinned
<1>1. Init => Pinned!Init
    BY PinnedInit
<1>2. CloneInv /\ [Next]_vars => [Pinned!Next]_(Pinned!vars)
    BY PinnedStep
<1>3. Spec => []CloneInv
    BY CloneInvariant
<1> QED
    BY <1>1, <1>2, <1>3, PTL DEF Spec, ReadsPinned, Pinned!Spec

-----------------------------------------------------------------------------
(***************************************************************************)
(* When the directories asked for are all in each other's cones, as those  *)
(* of one path are, a command for one brings the files of every other, and *)
(* a file that is not found is missing.                                    *)
(***************************************************************************)
NestedCones == \A d, e \in Dir : d \in Cone[e]

\* Of a run with memory x, while the clone is c.
Reached(x, c) ==
    /\ x.phase = "checkout" => c.cone = Dir
    /\ x.phase \in {"access", "read"} \/ x.sparseSet # {} => c # NoClone /\ c.dirs = Dir
    /\ x.result = "remote-file-not-found" =>
        x.phase = Idle /\ c # NoClone /\ x.wanted \notin FilesIn[c.oid]

ConeInv == \A p \in Process : Reached(proc[p], clone)

\* A clone keeps what has been brought to it.
Grows ==
    clone # NoClone =>
        /\ clone' # NoClone /\ clone'.oid = clone.oid
        /\ clone.cone = Dir => clone'.cone = Dir
        /\ clone.dirs = Dir => clone'.dirs = Dir

LEMMA ReachedStep ==
    ASSUME CloneInv, ConeInv, NEW p \in Process, NEW x, Set(p, x), Reached(x, clone'), Grows
    PROVE  ConeInv'
<1> SUFFICES ASSUME NEW q \in Process PROVE Reached(proc'[q], clone')
    BY DEF ConeInv
<1>1. proc' = [proc EXCEPT ![p] = x] /\ proc \in [Process -> RunType]
    BY DEF Set, CloneInv
<1>2. CASE q = p
    BY <1>1, <1>2
<1>3. CASE q # p
    <2>1. proc'[q] = proc[q] /\ Reached(proc[q], clone) /\ Sound(proc[q], clone)
        BY <1>1, <1>3 DEF ConeInv, CloneInv
    <2> QED
        BY <2>1 DEF Reached, Grows, Sound, InClone, InCommand
<1> QED
    BY <1>2, <1>3

\* The same, for the steps that leave the clone alone.
LEMMA ReachedOwn ==
    ASSUME CloneInv, ConeInv, NEW p \in Process, NEW x, Set(p, x), Reached(x, clone),
           clone' = clone
    PROVE  ConeInv'
BY ReachedStep DEF Grows

LEMMA ReachedAsk ==
    ASSUME CloneInv, ConeInv, NEW p \in Process, (\E f \in File : Ask(p, f)) \/ ReuseClone(p)
    PROVE  ConeInv'
<1>1. Reached(proc[p], clone) /\ Sound(proc[p], clone) /\ proc[p] \in RunType
    BY DEF ConeInv, CloneInv
<1>2. ASSUME NEW x \in RunType, x.sparseSet = proc[p].sparseSet, x.result = proc[p].result,
             proc[p].phase # Idle
      PROVE  /\ Reached([x EXCEPT !.phase = PathPhase(x)], clone)
             /\ Reached([x EXCEPT !.phase = "rev-parse"], clone)
    BY <1>1, <1>2 DEF Reached, RunType, PathPhase, Idle
<1>3. CASE \E f \in File : Ask(p, f)
    <2> PICK f \in File : Ask(p, f)
        BY <1>3
    <2> DEFINE x == [proc[p] EXCEPT !.wanted = f, !.reads = @ + 1]
    <2>1. proc[p].reads + 1 \in 0..MaxReads
        <3>1. proc[p].reads < MaxReads
            BY DEF Ask
        <3> QED
            BY <1>1, <3>1, CloneAssumption DEF RunType
    <2>2. x \in RunType /\ x.sparseSet = proc[p].sparseSet /\ x.result = proc[p].result
        BY <1>1, <2>1 DEF RunType
    <2>3. proc[p].phase # Idle
        BY DEF Ask, In, Idle
    <2>4. /\ Reached([x EXCEPT !.phase = PathPhase(x)], clone)
          /\ Reached([x EXCEPT !.phase = "rev-parse"], clone)
        BY <1>2, <2>2, <2>3
    <2>5. \/ Set(p, [x EXCEPT !.phase = PathPhase(x)])
          \/ Set(p, [x EXCEPT !.phase = "rev-parse"])
        BY DEF Ask
    <2> HIDE DEF x
    <2> QED
        BY <2>4, <2>5, ReachedOwn DEF Ask
<1>4. CASE ReuseClone(p)
    <2> DEFINE x == [proc[p] EXCEPT !.oid = clone.oid]
    <2>1. clone.oid \in Oid
        BY <1>4 DEF ReuseClone, CloneInv, Clone
    <2>2. x \in RunType /\ x.sparseSet = proc[p].sparseSet /\ x.result = proc[p].result
        BY <1>1, <2>1 DEF RunType
    <2>3. proc[p].phase # Idle
        BY <1>4 DEF ReuseClone, In, Idle
    <2> QED
        BY <1>2, <1>4, <2>2, <2>3, ReachedOwn DEF ReuseClone
<1> QED
    BY <1>3, <1>4

LEMMA ReachedClone ==
    ASSUME CloneInv, ConeInv, NEW p \in Process,
           \/ StartRun(p) \/ Crash(p) \/ NoCloneFound(p) \/ CloneBranch(p)
           \/ EndRun(p) \/ CloneFails(p) \/ CommandFails(p) \/ RefusePath(p)
    PROVE  ConeInv'
<1>1. Reached(proc[p], clone) /\ Sound(proc[p], clone) /\ proc[p] \in RunType
    BY DEF ConeInv, CloneInv
<1>2. CASE StartRun(p) \/ Crash(p)
    <2>1. ASSUME NEW n
          PROVE  /\ Reached(Fresh(n), clone)
                 /\ Reached([Fresh(n) EXCEPT !.phase = "ready"], clone)
        BY DEF Reached, Fresh, Idle
    <2> QED
        BY <1>2, <2>1, ReachedOwn DEF StartRun, Crash
<1>3. CASE NoCloneFound(p) \/ CloneBranch(p)
    <2>1. ASSUME NEW phase \in {"clone", "rename"}, NEW oid, proc[p].phase # Idle
          PROVE  /\ Reached([proc[p] EXCEPT !.phase = phase], clone)
                 /\ Reached([proc[p] EXCEPT !.phase = phase, !.tmp = oid], clone)
        BY <1>1, <2>1 DEF Reached, RunType, Idle
    <2>2. proc[p].phase # Idle
        BY <1>3 DEF NoCloneFound, CloneBranch, In, Idle
    <2> QED
        BY <1>3, <2>1, <2>2, ReachedOwn DEF NoCloneFound, CloneBranch
<1>4. CASE EndRun(p) \/ CloneFails(p) \/ CommandFails(p) \/ RefusePath(p)
    <2>1. ASSUME NEW result \in {"ok", "failed", "path-traversal"}
          PROVE  Reached([proc[p] EXCEPT !.phase = Idle, !.result = result], clone)
        BY <1>1, <2>1 DEF Reached, RunType, Idle
    <2> QED
        BY <1>4, <2>1, ReachedOwn DEF EndRun, CloneFails, CommandFails, RefusePath, End
<1> QED
    BY <1>2, <1>3, <1>4

LEMMA ReachedRename ==
    ASSUME CloneInv, ConeInv, NEW p \in Process, Rename(p)
    PROVE  ConeInv'
<1> DEFINE x == [proc[p] EXCEPT !.oid = proc[p].tmp, !.tmp = NoOid, !.sparseSet = {}]
           y == [x EXCEPT !.phase = PathPhase(x)]
<1>1. Reached(proc[p], clone) /\ proc[p] \in RunType
    BY DEF ConeInv, CloneInv
<1>2. proc[p].phase = "rename"
    BY DEF Rename, In
<1>3. x.sparseSet = {} /\ x.result = proc[p].result
    BY <1>1 DEF RunType
<1>4. PathPhase(x) = "sparse-checkout"
    BY <1>3 DEF PathPhase
<1>5. y.phase = "sparse-checkout" /\ y.sparseSet = {} /\ y.result = proc[p].result
    BY <1>1, <1>4 DEF RunType
<1>6. Reached(y, clone')
    BY <1>1, <1>2, <1>5 DEF Reached, Idle
<1>7. Grows
    BY DEF Rename, Grows
<1> QED
    BY <1>6, <1>7, ReachedStep DEF Rename

LEMMA KilledKeeps ==
    ASSUME NestedCones, CloneInv, ConeInv, NEW p \in Process, CommandKilled(p)
    PROVE  /\ clone.cone = Dir => clone'.cone = Dir
           /\ clone.dirs = Dir => clone'.dirs = Dir
<1>1. clone \in Clone /\ Sound(proc[p], clone) /\ proc[p].phase \in InCommand
    BY InCloneIsThere DEF CloneInv, InClone, CommandKilled
<1>2. WantedDir(p) \in Dir
    BY <1>1 DEF Sound, InCommand, Idle, WantedDir, Dir
<1>3. Cone[WantedDir(p)] = Dir
    BY <1>2, CloneAssumption DEF NestedCones
<1>4. In(p, "checkout") => clone.cone = Dir
    BY DEF ConeInv, Reached, In
<1> QED
    BY <1>3, <1>4, KilledClone DEF Clone

LEMMA ReachedCommand ==
    ASSUME NestedCones, CloneInv, ConeInv, NEW p \in Process,
           SetCone(p) \/ Checkout(p) \/ CommandKilled(p)
    PROVE  ConeInv'
<1>1. Reached(proc[p], clone) /\ Sound(proc[p], clone) /\ proc[p] \in RunType
    BY DEF ConeInv, CloneInv
<1>2. clone \in Clone /\ clone # NoClone
    BY CommandClone
<1>3. clone' \in Clone /\ clone'.oid = clone.oid /\ clone' # NoClone
    BY CommandClone
<1>4. CASE SetCone(p)
    <2> DEFINE x == [proc[p] EXCEPT !.phase = "checkout"]
    <2>1. WantedDir(p) \in Dir
        BY <1>1, <1>4 DEF Sound, SetCone, In, Idle, WantedDir, Dir
    <2>2. Cone[WantedDir(p)] = Dir
        BY <2>1, CloneAssumption DEF NestedCones
    <2>3. clone' = [clone EXCEPT !.cone = Dir, !.dirs = IF @ = {} THEN @ ELSE Dir]
        BY <1>4, <2>2 DEF SetCone, WithCone
    <2>4. clone'.cone = Dir /\ (clone.dirs = Dir => clone'.dirs = Dir)
        BY <1>2, <2>3 DEF Clone
    <2>5. Reached(x, clone')
        BY <1>1, <1>3, <1>4, <2>4 DEF Reached, RunType, SetCone, In, Idle
    <2> QED
        BY <1>3, <1>4, <2>4, <2>5, ReachedStep DEF SetCone, Grows
<1>5. CASE Checkout(p)
    <2> DEFINE x == [proc[p] EXCEPT !.phase = "access", !.sparseSet = @ \cup {WantedDir(p)}]
    <2>1. proc[p].phase = "checkout" /\ clone.cone = Dir
        BY <1>1, <1>5 DEF Checkout, In, Reached
    <2>2. clone'.dirs = Dir /\ clone'.cone = Dir
        BY <1>2, <1>5, <2>1 DEF Checkout, CheckedOut, Clone
    <2>3. Reached(x, clone')
        BY <1>1, <1>3, <2>1, <2>2 DEF Reached, RunType, Idle
    <2> QED
        BY <1>3, <1>5, <2>2, <2>3, ReachedStep DEF Checkout, Grows
<1>6. CASE CommandKilled(p)
    <2> DEFINE x == [proc[p] EXCEPT !.phase = Idle, !.result = "failed"]
    <2>1. (clone.cone = Dir => clone'.cone = Dir) /\ (clone.dirs = Dir => clone'.dirs = Dir)
        BY <1>6, KilledKeeps
    <2>2. Reached(x, clone')
        BY <1>1, <1>3, <2>1 DEF Reached, RunType, Idle
    <2> QED
        BY <1>3, <1>6, <2>1, <2>2, ReachedStep DEF CommandKilled, End, Grows
<1> QED
    BY <1>4, <1>5, <1>6

\* Where the conclusion is drawn: the directory has been checked out.
LEMMA ReachedRead ==
    ASSUME CloneInv, ConeInv, NEW p \in Process, Access(p) \/ Read(p)
    PROVE  ConeInv'
<1>1. Reached(proc[p], clone) /\ Sound(proc[p], clone) /\ proc[p] \in RunType
    BY DEF ConeInv, CloneInv
<1>2. proc[p].phase \in {"access", "read"} /\ clone' = clone
    BY DEF Access, Read, In
<1>3. clone # NoClone /\ clone.dirs = Dir
    BY <1>1, <1>2 DEF Reached
<1>4. proc[p].wanted \in File /\ DirOf[proc[p].wanted] \in Dir
    BY <1>1, <1>2 DEF Sound, Idle, Dir
<1>5. CASE Present(proc[p].wanted)
    <2>1. ASSUME NEW phase \in {"read", "ready"}, NEW read
          PROVE  /\ Reached([proc[p] EXCEPT !.phase = phase], clone)
                 /\ Reached([proc[p] EXCEPT !.phase = phase, !.read = read], clone)
        BY <1>1, <1>2, <1>3 DEF Reached, RunType, Idle
    <2> QED
        BY <1>2, <1>5, <2>1, ReachedOwn DEF Access, Read
<1>6. CASE ~Present(proc[p].wanted)
    <2>1. proc[p].wanted \notin FilesIn[clone.oid]
        BY <1>3, <1>4, <1>6 DEF Present
    <2>2. ASSUME NEW result
          PROVE  Reached([proc[p] EXCEPT !.phase = Idle, !.result = result], clone)
        BY <1>1, <1>3, <2>1 DEF Reached, RunType, Idle
    <2> QED
        BY <1>2, <1>6, <2>2, ReachedOwn DEF Access, Read, End
<1> QED
    BY <1>5, <1>6

LEMMA ReachedNext == NestedCones => (CloneInv /\ ConeInv /\ [Next]_vars => ConeInv')
<1> SUFFICES ASSUME NestedCones, CloneInv, ConeInv, [Next]_vars PROVE ConeInv'
    OBVIOUS
<1>1. CASE UNCHANGED vars \/ Push
    BY <1>1 DEF vars, Push, ConeInv
<1>2. ASSUME NEW p \in Process, Run(p) PROVE ConeInv'
    BY <1>2, ReachedAsk, ReachedClone, ReachedRename, ReachedCommand, ReachedRead DEF Run
<1> QED
    BY <1>1, <1>2 DEF Next

LEMMA ReachedInit == Init => ConeInv
BY DEF Init, ConeInv, Reached, Fresh, Idle

LEMMA InvMissing == ConeInv => MissingIsMissing
BY DEF ConeInv, Reached, MissingIsMissing

\* Among directories that are in each other's cones, no race, no crash and no
\* killed command makes a file that is there look missing.
THEOREM MissingFilesMissing == NestedCones => (Spec => []MissingIsMissing)
<1> SUFFICES ASSUME NestedCones PROVE Spec => []MissingIsMissing
    OBVIOUS
<1>1. CloneInv /\ ConeInv /\ [Next]_vars => ConeInv'
    BY ReachedNext
<1>2. Spec => []ConeInv
    BY <1>1, ReachedInit, CloneInvariant, PTL DEF Spec
<1> QED
    BY <1>2, InvMissing, PTL

=============================================================================
