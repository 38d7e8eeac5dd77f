------------------------- MODULE IncludeLoaderProofs -------------------------
(***************************************************************************)
(* Proofs about IncludeLoader, for every set of files, every depth limit   *)
(* and every behaviour of the remote sources.                              *)
(*                                                                         *)
(* The safety properties are not inductive: whether the chain of a call is *)
(* the walk that led to it depends on the calls below, which have to wait  *)
(* at the instruction that made the next one.  StackInv says so, and is    *)
(* proved together with the types.  Progress adds what the instructions    *)
(* before the one a call is at have shown, and TextInv what the text of a  *)
(* call has of them.                                                       *)
(***************************************************************************)
EXTENDS IncludeLoader, StagePipelineProofs, SequenceTheorems, FiniteSetTheorems, TLAPS

\* The instruction that call i waits at.
Waiting(i) == world[stack[i].file][stack[i].pc]

\* Call i + 1 was made by call i, and the first one for the root.
CalledBy ==
    /\ stack[1].key.loc = Root
    /\ \A i \in DOMAIN stack :
        i < Len(stack) =>
            /\ stack[i].pc \in DOMAIN world[stack[i].file]
            /\ Waiting(i).op \in CallOps
            /\ Waiting(i).to = stack[i + 1].key.loc

\* A call expands the file its key names.
OpenedFile ==
    \A i \in Expanding :
        /\ stack[i].file = Found(stack[i].key.loc, WithDockerfile)
        /\ world[stack[i].file] \in Body

\* The key of a call that has one is new to its chain, until it is checked.
ChainIsKeys ==
    \A i \in DOMAIN stack :
        /\ Len(stack[i].chain) = (IF i \in Expanding THEN i ELSE i - 1)
        /\ \A j \in DOMAIN stack[i].chain : stack[i].chain[j] = stack[j].key

PassedDepth ==
    /\ Len(stack) <= MaxIncludeDepth + 2
    /\ \A i \in DOMAIN stack : stack[i].phase # "called" => i <= MaxIncludeDepth + 1

SameLocation == \A i \in DOMAIN stack : stack[i].key.loc = stack[i].src.loc

StackInv ==
    /\ TypeOK
    /\ world \in Worlds
    /\ CalledBy
    /\ OpenedFile
    /\ ChainIsKeys
    /\ OpenOnce
    /\ PassedDepth
    /\ SameLocation

-----------------------------------------------------------------------------
(***************************************************************************)
(* What becomes of a sequence whose last member is replaced or followed.   *)
(***************************************************************************)
LEMMA ReplaceTop ==
    ASSUME NEW S, NEW s \in Seq(S), s # <<>>, NEW f \in S
    PROVE  LET t == [s EXCEPT ![Len(s)] = f] IN
           /\ t \in Seq(S) \ {<<>>}
           /\ Len(t) = Len(s)
           /\ t[Len(t)] = f
           /\ \A i \in 1..(Len(s) - 1) : t[i] = s[i]
BY SMT

LEMMA PushOn ==
    ASSUME NEW S, NEW s \in Seq(S), s # <<>>, NEW f \in S
    PROVE  LET t == Append(s, f) IN
           /\ t \in Seq(S) \ {<<>>}
           /\ Len(t) = Len(s) + 1
           /\ t[Len(t)] = f
           /\ \A i \in 1..Len(s) : t[i] = s[i]
BY SMT

-----------------------------------------------------------------------------
LEMMA TopType ==
    ASSUME TypeOK
    PROVE  /\ Len(stack) \in Nat \ {0}
           /\ Len(stack) \in DOMAIN stack
           /\ DOMAIN stack = 1..Len(stack)
           /\ Top \in FrameType
           /\ \A i \in DOMAIN stack : stack[i] \in FrameType
           /\ \A i \in DOMAIN stack : i # Len(stack) => stack[i].phase = "expanding"
<1>1. stack \in Seq(FrameType) /\ stack # <<>>
    BY DEF TypeOK
<1>2. /\ Len(stack) \in Nat \ {0}
      /\ DOMAIN stack = 1..Len(stack)
      /\ \A i \in DOMAIN stack : stack[i] \in FrameType
    BY <1>1
<1>3. \A i \in DOMAIN stack : i # Len(stack) => i < Len(stack)
    BY <1>2
<1>4. \A i \in DOMAIN stack : i < Len(stack) => stack[i].phase = "expanding"
    BY DEF TypeOK
<1> QED
    BY <1>2, <1>3, <1>4 DEF Top

\* The program starts with one call, for the root.
LEMMA InitStackInv == Init => StackInv
<1> SUFFICES ASSUME Init PROVE StackInv
    OBVIOUS
<1> USE DEF Init
<1>1. LocalSrc(Root) \in Source
    BY LocationAssumption DEF LocalSrc, Source
<1>2. /\ DOMAIN stack = {1}
      /\ Len(stack) = 1
      /\ stack[1] = Frame(LocalSrc(Root), "ROOT", NoStage, NoName, <<>>, <<>>)
      /\ stack[1] \in FrameType
    BY <1>1, LocationAssumption, TargetAssumption DEF Frame, FrameType, Phases, LocalSrc
<1>3. TypeOK
    <2>1. stack \in Seq(FrameType) \ {<<>>}
        BY <1>2
    <2>2. world \in [Loc -> Body \cup {Absent, Unreadable}]
        BY WorldAssumption
    <2>3. verdict \in [code : Codes \cup {"running"}, chain : Seq(Source)]
        BY DEF Running
    <2> QED
        BY <1>2, <2>1, <2>2, <2>3 DEF TypeOK
<1>4. stack[1].phase = "called" /\ stack[1].chain = <<>> /\ stack[1].key = LocalSrc(Root)
      /\ stack[1].src = LocalSrc(Root)
    BY <1>2 DEF Frame
<1>5. Expanding = {}
    BY <1>2, <1>4 DEF Expanding
<1> QED
    BY <1>2, <1>3, <1>4, <1>5, DepthAssumption
    DEF StackInv, CalledBy, OpenedFile, ChainIsKeys, OpenOnce, PassedDepth, SameLocation, LocalSrc

-----------------------------------------------------------------------------
(***************************************************************************)
(* Every step preserves StackInv.                                          *)
(***************************************************************************)
\* A step that ends the command, or none at all, leaves the calls alone.
LEMMA SameStack ==
    ASSUME StackInv, UNCHANGED control,
           verdict' \in [code : Codes \cup {"running"}, chain : Seq(Source)]
    PROVE  StackInv'
<1>1. TypeOK'
    BY DEF StackInv, TypeOK, control
<1>2. /\ CalledBy' /\ OpenedFile' /\ ChainIsKeys' /\ OpenOnce' /\ PassedDepth' /\ SameLocation'
      /\ (world \in Worlds)'
    BY DEF StackInv, control, CalledBy, Waiting, OpenedFile, Found, ChainIsKeys, OpenOnce,
           PassedDepth, SameLocation, Expanding
<1> QED
    BY <1>1, <1>2 DEF StackInv

LEMMA FinishStackInv ==
    ASSUME StackInv, NEW code \in Codes, NEW chain \in Seq(Source), Finish(code, chain)
    PROVE  StackInv'
<1>1. verdict' \in [code : Codes \cup {"running"}, chain : Seq(Source)]
    BY DEF Finish
<1> QED
    BY <1>1, SameStack DEF Finish

\* The call on top is replaced by frame: what the actions below have in common.
LEMMA TopReplaced ==
    ASSUME TypeOK, NEW frame \in FrameType, SetTop(frame)
    PROVE  /\ stack' \in Seq(FrameType) \ {<<>>}
           /\ Len(stack') = Len(stack)
           /\ DOMAIN stack' = DOMAIN stack
           /\ stack'[Len(stack)] = frame
           /\ \A i \in DOMAIN stack : i # Len(stack) => stack'[i] = stack[i]
<1>1. stack \in Seq(FrameType) /\ stack # <<>>
    BY DEF TypeOK
<1> QED
    BY <1>1, ReplaceTop, LenProperties, TopType DEF SetTop

\* What the calls wait for does not depend on how far the last one is.
LEMMA ReplacedCalledBy ==
    ASSUME TypeOK, CalledBy, UNCHANGED world,
           NEW frame \in FrameType, SetTop(frame), frame.key.loc = Top.key.loc
    PROVE  CalledBy'
<1> DEFINE n == Len(stack)
<1>1. n \in Nat \ {0} /\ DOMAIN stack = 1..n /\ Top = stack[n]
    BY TopType DEF Top
<1>2. /\ Len(stack') = n /\ DOMAIN stack' = 1..n
      /\ stack'[n] = frame /\ \A i \in 1..n : i # n => stack'[i] = stack[i]
    BY <1>1, TopReplaced
<1> HIDE DEF n
<1>3. \A i \in 1..n : stack'[i].key.loc = stack[i].key.loc
    BY <1>1, <1>2
<1>4. stack'[1].key.loc = Root
    BY <1>1, <1>3 DEF CalledBy
<1>5. ASSUME NEW i \in 1..n, i < n
      PROVE  /\ stack'[i].pc \in DOMAIN world'[stack'[i].file]
             /\ Waiting(i)'.op \in CallOps
             /\ Waiting(i)'.to = stack'[i + 1].key.loc
    <2>1. /\ stack[i].pc \in DOMAIN world[stack[i].file]
          /\ Waiting(i).op \in CallOps
          /\ Waiting(i).to = stack[i + 1].key.loc
        BY <1>1, <1>5 DEF CalledBy, n
    <2>2. stack'[i] = stack[i] /\ stack'[i + 1].key.loc = stack[i + 1].key.loc
        BY <1>1, <1>2, <1>3, <1>5
    <2> QED
        BY <2>1, <2>2 DEF Waiting
<1> QED
    BY <1>2, <1>4, <1>5 DEF CalledBy

\* The chain of a call only speaks of keys it has in the stack.
LEMMA SameKeysChain ==
    ASSUME TypeOK, ChainIsKeys, Expanding' = Expanding,
           DOMAIN stack' = DOMAIN stack,
           \A i \in DOMAIN stack : /\ stack'[i].chain = stack[i].chain
                                   /\ stack'[i].key = stack[i].key
    PROVE  ChainIsKeys'
<1> SUFFICES ASSUME NEW i \in DOMAIN stack
             PROVE  /\ Len(stack'[i].chain) = (IF i \in Expanding THEN i ELSE i - 1)
                    /\ \A j \in DOMAIN stack'[i].chain : stack'[i].chain[j] = stack'[j].key
    BY DEF ChainIsKeys
<1>1. stack[i].chain \in Seq(Source) /\ i \in 1..Len(stack) /\ Len(stack) \in Nat
      /\ DOMAIN stack = 1..Len(stack)
    BY TopType DEF FrameType
<1>2. Len(stack[i].chain) = (IF i \in Expanding THEN i ELSE i - 1)
      /\ \A j \in DOMAIN stack[i].chain : stack[i].chain[j] = stack[j].key
    BY DEF ChainIsKeys
<1>3. \A j \in DOMAIN stack[i].chain : j \in DOMAIN stack
    BY <1>1, <1>2
<1> QED
    BY <1>2, <1>3

LEMMA ResolveStackInv == StackInv /\ Resolve => StackInv'
<1> SUFFICES ASSUME StackInv, Resolve PROVE StackInv'
    OBVIOUS
<1> DEFINE n == Len(stack)
<1>1. TypeOK /\ n \in Nat \ {0} /\ n \in DOMAIN stack /\ DOMAIN stack = 1..n /\ Top \in FrameType
      /\ Top = stack[n] /\ \A i \in DOMAIN stack : stack[i] \in FrameType
    BY TopType DEF StackInv, Top
<1>2. PICK src \in Source : /\ Keyed(src)
                            /\ src.loc = Top.src.loc
                            /\ resolved' \in [Repo -> Ident \cup {NoIdent}]
    <2>1. CASE NeedsIdent(Top.src)
        <3> DEFINE repo == RepoOf[Top.src.loc]
        <3>1. repo \in Repo /\ Top.src \in Source
            BY <1>1, <2>1, LocationAssumption DEF NeedsIdent, FrameType, Source
        <3>2. PICK oid \in IF resolved[repo] = NoIdent THEN Ident ELSE {resolved[repo]} :
                /\ resolved' = [resolved EXCEPT ![repo] = oid]
                /\ Keyed([Top.src EXCEPT !.ident = oid])
            BY <2>1 DEF Resolve
        <3>3. oid \in Ident
            BY <1>1, <3>1, <3>2 DEF TypeOK
        <3>4. resolved' \in [Repo -> Ident \cup {NoIdent}]
            BY <1>1, <3>2, <3>3 DEF TypeOK
        <3>5. /\ [Top.src EXCEPT !.ident = oid] \in Source
              /\ [Top.src EXCEPT !.ident = oid].loc = Top.src.loc
            BY <3>1, <3>3 DEF Source
        <3> QED
            BY <3>2, <3>4, <3>5
    <2>2. CASE ~NeedsIdent(Top.src)
        BY <1>1, <2>2 DEF Resolve, TypeOK, FrameType
    <2> QED
        BY <2>1, <2>2
<1> DEFINE frame == [Top EXCEPT !.src = src, !.key = src, !.phase = "keyed"]
<1>3. /\ frame \in FrameType
      /\ frame.src = src /\ frame.key = src /\ frame.phase = "keyed"
      /\ frame.chain = Top.chain
    BY <1>1 DEF FrameType, Phases
<1>4. SetTop(frame)
    BY <1>2 DEF Keyed, Key
<1>5. /\ stack' \in Seq(FrameType) \ {<<>>} /\ Len(stack') = n /\ DOMAIN stack' = 1..n
      /\ stack'[n] = frame /\ \A i \in 1..n : i # n => stack'[i] = stack[i]
    BY <1>1, <1>3, <1>4, TopReplaced
<1>6. UNCHANGED <<world, cloned, verdict>> /\ Top.phase = "called" /\ n <= MaxIncludeDepth + 1
    BY <1>1, DepthAssumption DEF Resolve, Enters, Nesting
<1> HIDE DEF frame, n
<1>7. TypeOK'
    BY <1>1, <1>2, <1>5, <1>6 DEF TypeOK
<1>8. Expanding' = Expanding /\ n \notin Expanding
    BY <1>1, <1>3, <1>5, <1>6 DEF Expanding
<1>9. src.loc = stack[n].key.loc
    BY <1>1, <1>2 DEF StackInv, SameLocation
<1>10. CalledBy'
    BY <1>1, <1>3, <1>4, <1>6, <1>9, ReplacedCalledBy DEF StackInv
<1>11. OpenedFile' /\ OpenOnce'
    BY <1>1, <1>5, <1>6, <1>8 DEF StackInv, OpenedFile, OpenOnce, Found, Expanding
<1>12. ChainIsKeys'
    <2> SUFFICES ASSUME NEW i \in 1..n
                 PROVE  /\ Len(stack'[i].chain) = (IF i \in Expanding THEN i ELSE i - 1)
                        /\ \A j \in DOMAIN stack'[i].chain : stack'[i].chain[j] = stack'[j].key
        BY <1>5, <1>8 DEF ChainIsKeys
    <2>1. stack'[i].chain = stack[i].chain
        BY <1>1, <1>3, <1>5
    <2>2. stack[i].chain \in Seq(Source)
        BY <1>1 DEF FrameType
    <2>3. Len(stack[i].chain) = (IF i \in Expanding THEN i ELSE i - 1)
          /\ \A j \in DOMAIN stack[i].chain : stack[i].chain[j] = stack[j].key
        BY <1>1 DEF StackInv, ChainIsKeys
    <2>4. \A j \in DOMAIN stack[i].chain : j \in 1..(n - 1)
        BY <1>1, <1>8, <2>2, <2>3 DEF Expanding
    <2> QED
        BY <1>1, <1>5, <2>1, <2>3, <2>4
<1>13. PassedDepth'
    BY <1>1, <1>3, <1>5, <1>6, DepthAssumption DEF StackInv, PassedDepth
<1>14. SameLocation'
    BY <1>1, <1>3, <1>5 DEF StackInv, SameLocation
<1> QED
    BY <1>6, <1>7, <1>10, <1>11, <1>12, <1>13, <1>14 DEF StackInv

\* The frame of a call that has opened its file.
Opened(f, ident, file, scope, chain) ==
    [f EXCEPT !.src.ident = ident,
              !.file = file,
              !.scope = scope,
              !.chain = chain,
              !.pc = 1,
              !.phase = "expanding"]

\* Opening the file of a call leaves a well-formed frame.
LEMMA FrameOpened ==
    ASSUME NEW f \in FrameType, NEW ident \in Ident \cup {NoIdent}, NEW file \in Loc,
           NEW scope \in Seq(Source), NEW chain \in Seq(Source)
    PROVE  Opened(f, ident, file, scope, chain) \in FrameType
<1>1. [f.src EXCEPT !.ident = ident] \in Source
    BY DEF FrameType, Source
<1> QED
    BY <1>1 DEF FrameType, Phases, Opened

LEMMA OpenStackInv == StackInv /\ Open => StackInv'
<1> SUFFICES ASSUME StackInv, Open PROVE StackInv'
    OBVIOUS
<1> DEFINE n    == Len(stack)
           file == Found(Top.src.loc, WithDockerfile)
<1>1. TypeOK /\ n \in Nat \ {0} /\ n \in DOMAIN stack /\ DOMAIN stack = 1..n /\ Top \in FrameType
      /\ Top = stack[n] /\ \A i \in DOMAIN stack : stack[i] \in FrameType
    BY TopType DEF StackInv, Top
<1>2. /\ Top.phase = "keyed" /\ ~Contains(Top.chain, Top.key) /\ world[file] \in Body
      /\ UNCHANGED <<world, resolved, verdict>>
    BY DEF Open, Enters
<1>3. file \in Loc
    BY <1>1, LocationAssumption DEF Found, FrameType, Source
<1>4. PICK ident \in ReadIdents(Top.src) :
        /\ Remember(Top.src, ident)
        /\ SetTop([Top EXCEPT !.src.ident = ident,
                              !.file = file,
                              !.scope = Append(@, DisplayPath([Top.src EXCEPT !.ident = ident], file)),
                              !.chain = Append(@, Top.key),
                              !.pc = 1,
                              !.phase = "expanding"])
    BY DEF Open
<1>5. ident \in Ident \cup {NoIdent}
    <2>1. Top.src.ident \in Ident \cup {NoIdent}
        BY <1>1 DEF FrameType, Source
    <2>2. \A repo \in GitRepo : cloned[repo] \in Ident \cup {NoIdent}
        BY <1>1, LocationAssumption DEF TypeOK
    <2> QED
        BY <1>4, <2>1, <2>2 DEF ReadIdents
<1>6. cloned' \in [Repo -> Ident \cup {NoIdent}]
    BY <1>1, <1>4, <1>5, LocationAssumption DEF Remember, TypeOK
<1> DEFINE src   == [Top.src EXCEPT !.ident = ident]
           frame == [Top EXCEPT !.src.ident = ident,
                                !.file = file,
                                !.scope = Append(@, DisplayPath(src, file)),
                                !.chain = Append(@, Top.key),
                                !.pc = 1,
                                !.phase = "expanding"]
<1>7. src \in Source /\ src.loc = Top.src.loc /\ Top.key \in Source
    BY <1>1, <1>5 DEF FrameType, Source
<1>8. DisplayPath(src, file) \in Source
    BY <1>3, <1>7 DEF DisplayPath, Source
<1>9. /\ Append(Top.chain, Top.key) \in Seq(Source)
      /\ Append(Top.scope, DisplayPath(src, file)) \in Seq(Source)
    BY <1>1, <1>7, <1>8 DEF FrameType
<1>10. /\ frame \in FrameType
       /\ frame.src = src /\ frame.key = Top.key /\ frame.phase = "expanding"
       /\ frame.chain = Append(Top.chain, Top.key) /\ frame.file = file
    <2>1. /\ frame.key = Top.key /\ frame.how = Top.how /\ frame.target = Top.target
          /\ frame.alias = Top.alias /\ frame.file = file /\ frame.pc = 1
          /\ frame.phase = "expanding" /\ frame.chain = Append(Top.chain, Top.key)
        BY <1>1 DEF FrameType
    <2>2. frame.src = src /\ frame.scope = Append(Top.scope, DisplayPath(src, file))
        BY <1>1 DEF FrameType
    <2>3. frame \in FrameType
        <3> DEFINE scope == Append(Top.scope, DisplayPath(src, file))
                   chain == Append(Top.chain, Top.key)
        <3>1. frame = Opened(Top, ident, file, scope, chain)
            BY Zenon DEF Opened
        <3> HIDE DEF frame, file, scope, chain
        <3>2. file \in Loc /\ scope \in Seq(Source) /\ chain \in Seq(Source)
            BY <1>3, <1>9 DEF scope, chain
        <3>3. Opened(Top, ident, file, scope, chain) \in FrameType
            BY <1>1, <1>5, <3>2, FrameOpened
        <3> QED
            BY <3>1, <3>3
    <2> QED
        BY <2>1, <2>2, <2>3
<1>11. SetTop(frame)
    BY <1>4
<1>lower. \A i \in 1..n : i # n => stack[i].phase = "expanding"
    BY <1>1, TopType
<1> HIDE DEF frame, src, file, n
<1>12. /\ stack' \in Seq(FrameType) \ {<<>>} /\ Len(stack') = n /\ DOMAIN stack' = 1..n
       /\ stack'[n] = frame /\ \A i \in 1..n : i # n => stack'[i] = stack[i]
       /\ \A i \in 1..n : i # n => stack[i].phase = "expanding"
    BY <1>1, <1>10, <1>11, <1>lower, TopReplaced DEF n
<1>13. Expanding' = Expanding \cup {n} /\ n \notin Expanding /\ Expanding \subseteq 1..n
    BY <1>1, <1>2, <1>10, <1>12 DEF Expanding
<1>14. /\ Top.chain \in Seq(Source) /\ Len(Top.chain) = n - 1
       /\ \A j \in 1..(n - 1) : Top.chain[j] = stack[j].key
    <2>1. Top.chain \in Seq(Source)
        BY <1>1 DEF FrameType
    <2>2. /\ Len(Top.chain) = n - 1
          /\ \A j \in DOMAIN Top.chain : Top.chain[j] = stack[j].key
        BY <1>1, <1>13 DEF StackInv, ChainIsKeys
    <2> QED
        BY <2>1, <2>2
<1>15. TypeOK'
    <2>1. \A i \in 1..n : i < n => stack'[i].phase = "expanding"
        BY <1>1, <1>12
    <2> QED
        BY <1>1, <1>2, <1>6, <1>12, <2>1 DEF TypeOK
<1>16. CalledBy'
    BY <1>1, <1>2, <1>10, <1>11, ReplacedCalledBy DEF StackInv
<1>17. OpenedFile'
    <2>1. stack[n].key.loc = stack[n].src.loc
        BY <1>1 DEF StackInv, SameLocation
    <2>2. file = Found(stack[n].key.loc, WithDockerfile)
        BY <1>1, <2>1 DEF file
    <2>3. ASSUME NEW i \in Expanding
          PROVE  /\ stack[i].file = Found(stack[i].key.loc, WithDockerfile)
                 /\ world[stack[i].file] \in Body
        BY <2>3 DEF StackInv, OpenedFile
    <2>4. ASSUME NEW i \in Expanding \cup {n}
          PROVE  /\ stack'[i].file = Found(stack'[i].key.loc, WithDockerfile)
                 /\ world[stack'[i].file] \in Body
        <3>1. CASE i = n
            <4>1. stack'[i].file = file /\ stack'[i].key = stack[n].key
                BY <1>1, <1>10, <1>12, <3>1
            <4> QED
                BY <1>2, <2>2, <4>1
        <3>2. CASE i # n
            <4>1. stack'[i] = stack[i] /\ i \in Expanding
                BY <1>12, <1>13, <3>2
            <4> QED
                BY <2>3, <4>1
        <3> QED
            BY <3>1, <3>2
    <2> QED
        BY <1>2, <1>13, <2>4 DEF OpenedFile, Found
<1>18. ChainIsKeys'
    <2>1. ASSUME NEW i \in 1..n, i # n
          PROVE  /\ Len(stack'[i].chain) = (IF i \in Expanding' THEN i ELSE i - 1)
                 /\ \A j \in DOMAIN stack'[i].chain : stack'[i].chain[j] = stack'[j].key
        <3>1. stack[i].chain \in Seq(Source) /\ stack'[i] = stack[i]
            BY <1>1, <1>12, <2>1 DEF FrameType
        <3>2. Len(stack[i].chain) = (IF i \in Expanding THEN i ELSE i - 1)
              /\ \A j \in DOMAIN stack[i].chain : stack[i].chain[j] = stack[j].key
            BY <1>1 DEF StackInv, ChainIsKeys
        <3>3. \A j \in DOMAIN stack[i].chain : j \in 1..n /\ j # n
            BY <1>1, <2>1, <3>1, <3>2
        <3> QED
            BY <1>12, <1>13, <2>1, <3>1, <3>2, <3>3
    <2>2. Len(frame.chain) = n
        BY <1>1, <1>7, <1>10, <1>14, AppendProperties
    <2>3. \A j \in 1..n : frame.chain[j] = stack'[j].key
        <3>1. \A j \in 1..(n - 1) : frame.chain[j] = stack'[j].key
            BY <1>1, <1>7, <1>10, <1>12, <1>14
        <3>2. frame.chain[n] = stack'[n].key
            BY <1>1, <1>7, <1>10, <1>12, <1>14
        <3> QED
            BY <1>1, <3>1, <3>2
    <2>4. DOMAIN frame.chain = 1..n
        BY <1>7, <1>10, <1>14, <2>2
    <2> QED
        BY <1>1, <1>12, <1>13, <2>1, <2>2, <2>3, <2>4 DEF ChainIsKeys
<1>19. OpenOnce'
    <2>1. \A i \in 1..(n - 1) : stack[i].key # Top.key
        BY <1>1, <1>2, <1>14 DEF Contains
    <2>2. \A i \in 1..n : stack'[i].key = stack[i].key
        BY <1>1, <1>10, <1>12
    <2>3. \A i \in Expanding : i \in 1..(n - 1)
        BY <1>1, <1>13
    <2>4. OpenOnce
        BY DEF StackInv
    <2>5. ASSUME NEW i \in Expanding \cup {n}, NEW j \in Expanding \cup {n},
                 stack[i].key = stack[j].key
          PROVE  i = j
        BY <1>1, <2>1, <2>3, <2>4, <2>5 DEF OpenOnce
    <2>6. ASSUME NEW i \in Expanding', NEW j \in Expanding', stack'[i].key = stack'[j].key
          PROVE  i = j
        <3>1. i \in Expanding \cup {n} /\ j \in Expanding \cup {n}
            BY <1>13
        <3>2. stack'[i].key = stack[i].key /\ stack'[j].key = stack[j].key
            BY <1>13, <1>1, <2>2, <3>1
        <3> QED
            BY <2>5, <2>6, <3>1, <3>2
    <2> QED
        BY <2>6 DEF OpenOnce
<1>20. PassedDepth'
    BY <1>1, <1>2, <1>12, DepthAssumption DEF StackInv, PassedDepth, n
<1>21. SameLocation'
    <2>1. \A i \in 1..n : stack[i].key.loc = stack[i].src.loc
        BY <1>1 DEF StackInv, SameLocation
    <2>2. stack'[n].key = stack[n].key /\ stack'[n].src.loc = stack[n].src.loc
        BY <1>1, <1>7, <1>10, <1>12
    <2>3. ASSUME NEW i \in 1..n PROVE stack'[i].key.loc = stack'[i].src.loc
        <3>1. CASE i = n
            BY <1>1, <2>1, <2>2, <3>1
        <3>2. CASE i # n
            <4>1. stack'[i] = stack[i]
                BY <1>12, <3>2
            <4> QED
                BY <2>1, <4>1
        <3> QED
            BY <3>1, <3>2
    <2> QED
        BY <1>12, <2>3 DEF SameLocation
<1> QED
    BY <1>2, <1>15, <1>16, <1>17, <1>18, <1>19, <1>20, <1>21 DEF StackInv

\* Keep and IncludeEnv move the call on top to its next instruction.
LEMMA AdvanceStackInv ==
    ASSUME StackInv, Top.phase = "expanding", SetTop([Top EXCEPT !.pc = @ + 1]),
           UNCHANGED <<world, resolved, verdict>>,
           cloned' \in [Repo -> Ident \cup {NoIdent}]
    PROVE  StackInv'
<1> DEFINE n     == Len(stack)
           next  == Top.pc + 1
           frame == [Top EXCEPT !.pc = next]
<1>1. TypeOK /\ n \in Nat \ {0} /\ n \in DOMAIN stack /\ DOMAIN stack = 1..n /\ Top \in FrameType
      /\ Top = stack[n] /\ \A i \in DOMAIN stack : stack[i] \in FrameType
    BY TopType DEF StackInv, Top
<1>2. /\ frame \in FrameType
      /\ frame.src = Top.src /\ frame.key = Top.key /\ frame.phase = Top.phase
      /\ frame.chain = Top.chain /\ frame.file = Top.file
    <2>1. next \in Nat
        BY <1>1 DEF FrameType
    <2> HIDE DEF next
    <2> QED
        BY <1>1, <2>1 DEF FrameType
<1>3. SetTop(frame)
    OBVIOUS
<1>lower. \A i \in 1..n : i # n => stack[i].phase = "expanding"
    BY <1>1, TopType
<1> HIDE DEF frame, n
<1>4. /\ stack' \in Seq(FrameType) \ {<<>>} /\ Len(stack') = n /\ DOMAIN stack' = 1..n
      /\ stack'[n] = frame /\ \A i \in 1..n : i # n => stack'[i] = stack[i]
    BY <1>1, <1>2, <1>3, TopReplaced DEF n
<1>5. \A i \in 1..n : /\ stack'[i].src = stack[i].src
                      /\ stack'[i].key = stack[i].key
                      /\ stack'[i].phase = stack[i].phase
                      /\ stack'[i].chain = stack[i].chain
                      /\ stack'[i].file = stack[i].file
    BY <1>1, <1>2, <1>4
<1>6. Expanding' = Expanding /\ Expanding \subseteq 1..n
    BY <1>1, <1>4, <1>5 DEF Expanding
<1>7. TypeOK'
    <2>1. \A i \in 1..n : i < n => stack'[i].phase = "expanding"
        BY <1>1, <1>5, <1>lower
    <2> QED
        BY <1>1, <1>4, <2>1 DEF TypeOK
<1>8. CalledBy'
    BY <1>1, <1>2, <1>3, ReplacedCalledBy DEF StackInv
<1>9. OpenedFile' /\ OpenOnce'
    BY <1>5, <1>6 DEF StackInv, OpenedFile, OpenOnce, Found
<1>10. ChainIsKeys'
    BY <1>1, <1>4, <1>5, <1>6, SameKeysChain DEF StackInv
<1>11. PassedDepth' /\ SameLocation'
    BY <1>1, <1>4, <1>5 DEF StackInv, PassedDepth, SameLocation, n
<1> QED
    BY <1>7, <1>8, <1>9, <1>10, <1>11 DEF StackInv

LEMMA CallStackInv == StackInv /\ Call => StackInv'
<1> SUFFICES ASSUME StackInv, Call PROVE StackInv'
    OBVIOUS
<1> DEFINE n     == Len(stack)
           child == Child(Instr)
           frame == Frame(child, Instr.op, Instr.target, Alias(child), Top.chain, Top.scope)
<1>1. TypeOK /\ n \in Nat \ {0} /\ n \in DOMAIN stack /\ DOMAIN stack = 1..n /\ Top \in FrameType
      /\ Top = stack[n] /\ \A i \in DOMAIN stack : stack[i] \in FrameType
    BY TopType DEF StackInv, Top
<1>2. /\ Top.phase = "expanding" /\ Top.pc \in DOMAIN Text /\ Instr.op \in CallOps
      /\ stack' = Append(stack, frame)
      /\ UNCHANGED <<world, resolved, cloned, verdict>>
    BY DEF Call, AtInstr, Enters
<1>3. n \in Expanding /\ Text \in Body
    BY <1>1, <1>2 DEF StackInv, OpenedFile, Expanding, Text
<1>4. Instr.to \in Loc /\ Instr.target \in Target
    BY <1>2, <1>3, WorldAssumption DEF Instr
<1>5. child \in Source /\ child.loc = Instr.to
    BY <1>1, <1>4 DEF Child, FrameType, Source
<1>6. /\ frame \in FrameType
      /\ frame.src = child /\ frame.key = child /\ frame.phase = "called"
      /\ frame.chain = Top.chain
    <2>1. Alias(child) \in Loc \X (Ident \cup {NoIdent})
        BY <1>5 DEF Alias, Slug, Key, Source
    <2>2. Top.chain \in Seq(Source) /\ Top.scope \in Seq(Source)
        BY <1>1 DEF FrameType
    <2> HIDE DEF child
    <2> QED
        BY <1>2, <1>4, <1>5, <2>1, <2>2 DEF Frame, FrameType, Phases, Source
<1>expanding. \A i \in 1..n : stack[i].phase = "expanding"
    BY <1>1, <1>2, TopType
<1> HIDE DEF frame, child, n
<1>7. /\ stack' \in Seq(FrameType) \ {<<>>} /\ Len(stack') = n + 1 /\ DOMAIN stack' = 1..(n + 1)
      /\ stack'[n + 1] = frame /\ \A i \in 1..n : stack'[i] = stack[i]
    <2>1. stack \in Seq(FrameType) /\ stack # <<>>
        BY <1>1 DEF TypeOK
    <2> QED
        BY <1>2, <1>6, <2>1, PushOn, LenProperties DEF n
<1>8. Expanding' = Expanding /\ Expanding = 1..n
    BY <1>1, <1>6, <1>7, <1>expanding DEF Expanding
<1>9. TypeOK'
    <2>1. \A i \in 1..(n + 1) : i < n + 1 => stack'[i].phase = "expanding"
        BY <1>1, <1>7, <1>expanding
    <2> QED
        BY <1>1, <1>2, <1>7, <2>1 DEF TypeOK
<1>10. CalledBy'
    <2>1. CalledBy
        BY DEF StackInv
    <2>2. stack'[1].key.loc = Root
        BY <1>1, <1>7, <2>1 DEF CalledBy
    <2>3. ASSUME NEW i \in 1..(n + 1), i < n + 1
          PROVE  /\ stack'[i].pc \in DOMAIN world'[stack'[i].file]
                 /\ Waiting(i)'.op \in CallOps
                 /\ Waiting(i)'.to = stack'[i + 1].key.loc
        <3>1. CASE i < n
            <4>1. /\ stack[i].pc \in DOMAIN world[stack[i].file]
                  /\ Waiting(i).op \in CallOps
                  /\ Waiting(i).to = stack[i + 1].key.loc
                BY <1>1, <2>1, <3>1 DEF CalledBy, n
            <4>2. stack'[i] = stack[i] /\ stack'[i + 1] = stack[i + 1]
                BY <1>1, <1>7, <3>1
            <4> QED
                BY <1>2, <4>1, <4>2 DEF Waiting
        <3>2. CASE i = n
            <4>1. stack'[i] = Top /\ stack'[i + 1] = frame
                BY <1>1, <1>7, <3>2
            <4> QED
                BY <1>2, <1>5, <1>6, <4>1 DEF Waiting, Instr, Text
        <3> QED
            BY <1>1, <2>3, <3>1, <3>2
    <2> QED
        BY <1>7, <2>2, <2>3 DEF CalledBy
<1>11. OpenedFile' /\ OpenOnce'
    <2>1. OpenedFile /\ OpenOnce
        BY DEF StackInv
    <2>2. OpenedFile'
        <3>1. ASSUME NEW i \in 1..n
              PROVE  /\ stack'[i].file = Found(stack'[i].key.loc, WithDockerfile)
                     /\ world[stack'[i].file] \in Body
            <4>1. stack'[i] = stack[i] /\ i \in Expanding
                BY <1>7, <1>8
            <4> QED
                BY <2>1, <4>1 DEF OpenedFile
        <3> QED
            BY <1>2, <1>8, <3>1 DEF OpenedFile, Found
    <2>3. OpenOnce'
        BY <1>7, <1>8, <2>1 DEF OpenOnce
    <2> QED
        BY <2>2, <2>3
<1>12. ChainIsKeys'
    <2>1. ASSUME NEW i \in 1..(n + 1)
          PROVE  /\ Len(stack'[i].chain) = (IF i \in 1..n THEN i ELSE i - 1)
                 /\ \A j \in DOMAIN stack'[i].chain : stack'[i].chain[j] = stack'[j].key
        <3> DEFINE m == IF i = n + 1 THEN n ELSE i
        <3>1. m \in 1..n /\ stack'[i].chain = stack[m].chain
            BY <1>1, <1>6, <1>7
        <3>2. /\ stack[m].chain \in Seq(Source) /\ Len(stack[m].chain) = m
              /\ \A j \in DOMAIN stack[m].chain : stack[m].chain[j] = stack[j].key
            BY <1>1, <1>8, <3>1 DEF StackInv, ChainIsKeys, FrameType
        <3>3. \A j \in DOMAIN stack[m].chain : j \in 1..n
            BY <1>1, <3>1, <3>2
        <3>4. m = IF i \in 1..n THEN i ELSE i - 1
            BY <1>1
        <3> QED
            BY <1>7, <3>1, <3>2, <3>3, <3>4
    <2> QED
        BY <1>7, <1>8, <2>1 DEF ChainIsKeys
<1>13. PassedDepth'
    <2>1. n <= MaxIncludeDepth + 1
        BY <1>1, <1>2 DEF StackInv, PassedDepth
    <2> QED
        BY <1>1, <1>6, <1>7, <2>1, DepthAssumption DEF StackInv, PassedDepth
<1>14. SameLocation'
    BY <1>1, <1>6, <1>7 DEF StackInv, SameLocation
<1> QED
    BY <1>2, <1>9, <1>10, <1>11, <1>12, <1>13, <1>14 DEF StackInv

LEMMA ReturnStackInv == StackInv /\ Return => StackInv'
<1> SUFFICES ASSUME StackInv, Return PROVE StackInv'
    OBVIOUS
<1> DEFINE n     == Len(stack) - 1
           frame == [stack[n] EXCEPT !.pc = stack[n].pc + 1]
<1>1. TypeOK /\ Len(stack) \in Nat /\ Len(stack) > 1 /\ DOMAIN stack = 1..Len(stack)
      /\ \A i \in DOMAIN stack : stack[i] \in FrameType
    BY TopType DEF StackInv, Return
<1>2. n \in Nat \ {0} /\ Len(stack) = n + 1 /\ DOMAIN stack = 1..(n + 1) /\ stack[n] \in FrameType
    BY <1>1
<1>3. stack' = [SubSeq(stack, 1, n) EXCEPT ![n] = [SubSeq(stack, 1, n)[n] EXCEPT !.pc = @ + 1]]
      /\ UNCHANGED <<world, resolved, cloned, verdict>>
    BY DEF Return
<1>expanding. \A i \in 1..n : stack[i].phase = "expanding"
    BY <1>1, <1>2, TopType
<1> HIDE DEF n
<1>4. SubSeq(stack, 1, n)[n] = stack[n]
    BY <1>1, <1>2, SubSeqProperties
<1>5. /\ frame \in FrameType
      /\ frame.src = stack[n].src /\ frame.key = stack[n].key /\ frame.phase = stack[n].phase
      /\ frame.chain = stack[n].chain /\ frame.file = stack[n].file
    <2> DEFINE next == stack[n].pc + 1
    <2>1. next \in Nat
        BY <1>2 DEF FrameType
    <2> HIDE DEF next
    <2>2. LET f == [stack[n] EXCEPT !.pc = next] IN
          /\ f \in FrameType
          /\ f.src = stack[n].src /\ f.key = stack[n].key /\ f.phase = stack[n].phase
          /\ f.chain = stack[n].chain /\ f.file = stack[n].file
        BY <1>2, <2>1 DEF FrameType
    <2> QED
        BY <2>2 DEF next
<1>6. stack' = [SubSeq(stack, 1, n) EXCEPT ![n] = frame]
    BY <1>3, <1>4
<1> HIDE DEF frame
<1>7. /\ stack' \in Seq(FrameType) \ {<<>>} /\ Len(stack') = n /\ DOMAIN stack' = 1..n
      /\ stack'[n] = frame /\ \A i \in 1..(n - 1) : stack'[i] = stack[i]
    <2>1. stack \in Seq(FrameType)
        BY <1>1 DEF TypeOK
    <2>2. n \in Nat \ {0} /\ Len(stack) = n + 1
        BY <1>2
    <2>3. frame \in FrameType
        BY <1>5
    <2> DEFINE below == SubSeq(stack, 1, n)
    <2>4. \A i \in 1..n : stack[i] \in FrameType
        BY <1>1, <1>2
    <2>5. below \in Seq(FrameType) /\ Len(below) = n /\ \A i \in 1..n : below[i] = stack[i]
        BY <2>1, <2>2, <2>4, SubSeqProperties
    <2>6. stack' = [below EXCEPT ![n] = frame]
        BY <1>6
    <2> HIDE DEF below
    <2>7. /\ stack' \in Seq(FrameType) /\ Len(stack') = n
          /\ stack'[n] = frame /\ \A i \in 1..(n - 1) : stack'[i] = below[i]
        BY <2>2, <2>3, <2>5, <2>6, ExceptSeq
    <2>8. stack' # <<>> /\ DOMAIN stack' = 1..n
        BY <2>2, <2>7, EmptySeq, LenProperties
    <2> QED
        BY <2>2, <2>5, <2>7, <2>8
<1>8. \A i \in 1..n : /\ stack'[i].src = stack[i].src
                      /\ stack'[i].key = stack[i].key
                      /\ stack'[i].phase = "expanding"
                      /\ stack'[i].chain = stack[i].chain
                      /\ stack'[i].file = stack[i].file
    BY <1>2, <1>5, <1>7, <1>expanding
<1>9. Expanding' = 1..n /\ 1..n \subseteq Expanding
    BY <1>2, <1>7, <1>8, <1>expanding DEF Expanding
<1>10. TypeOK'
    BY <1>1, <1>3, <1>7, <1>8 DEF TypeOK
<1>11. CalledBy'
    <2>1. CalledBy
        BY DEF StackInv
    <2>2. stack'[1].key.loc = Root
        BY <1>2, <1>8, <2>1 DEF CalledBy
    <2>3. ASSUME NEW i \in 1..n, i < n
          PROVE  /\ stack'[i].pc \in DOMAIN world'[stack'[i].file]
                 /\ Waiting(i)'.op \in CallOps
                 /\ Waiting(i)'.to = stack'[i + 1].key.loc
        <3>1. /\ stack[i].pc \in DOMAIN world[stack[i].file]
              /\ Waiting(i).op \in CallOps
              /\ Waiting(i).to = stack[i + 1].key.loc
            BY <1>2, <2>1, <2>3 DEF CalledBy
        <3>2. stack'[i] = stack[i] /\ stack'[i + 1].key = stack[i + 1].key
            BY <1>2, <1>7, <1>8, <2>3
        <3> QED
            BY <1>3, <3>1, <3>2 DEF Waiting
    <2> QED
        BY <1>7, <2>2, <2>3 DEF CalledBy
<1>12. OpenedFile' /\ OpenOnce'
    BY <1>3, <1>8, <1>9 DEF StackInv, OpenedFile, OpenOnce, Found
<1>13. ChainIsKeys'
    <2>1. ASSUME NEW i \in 1..n
          PROVE  /\ Len(stack'[i].chain) = i
                 /\ \A j \in DOMAIN stack'[i].chain : stack'[i].chain[j] = stack'[j].key
        <3>1. /\ stack[i].chain \in Seq(Source) /\ Len(stack[i].chain) = i
              /\ \A j \in DOMAIN stack[i].chain : stack[i].chain[j] = stack[j].key
            <4>1. i \in Expanding /\ i \in DOMAIN stack
                BY <1>2, <1>9
            <4>2. stack[i].chain \in Seq(Source)
                BY <1>1, <4>1 DEF FrameType
            <4> QED
                BY <4>1, <4>2 DEF StackInv, ChainIsKeys
        <3>2. \A j \in DOMAIN stack[i].chain : j \in 1..n
            BY <1>2, <3>1
        <3> QED
            BY <1>8, <3>1, <3>2
    <2> QED
        BY <1>7, <1>9, <2>1 DEF ChainIsKeys
<1>14. PassedDepth' /\ SameLocation'
    <2>1. PassedDepth /\ SameLocation
        BY DEF StackInv
    <2>2. PassedDepth'
        BY <1>2, <1>7, <1>8, <1>expanding, <2>1, DepthAssumption DEF PassedDepth
    <2>3. SameLocation'
        BY <1>2, <1>7, <1>8, <2>1 DEF SameLocation
    <2> QED
        BY <2>2, <2>3
<1> QED
    BY <1>3, <1>10, <1>11, <1>12, <1>13, <1>14 DEF StackInv

\* A file that cannot be read ends the command with one of these codes.
ReadCodes == RemoteErrors \cup {"missing-file"}

LEMMA ReadErrorCode ==
    ASSUME StackInv, NEW file \in Loc, world[file] \notin Body
    PROVE  ReadError(file) \in ReadCodes
<1>1. world[file] \in {Absent, Unreadable}
    BY DEF StackInv, TypeOK
<1> QED
    BY <1>1 DEF ReadError, ReadCodes, RemoteErrors

LEMMA ReadFailsCode ==
    ASSUME StackInv, ReadFails \/ IncludeEnvFails
    PROVE  \E code \in ReadCodes : Finish(code, <<>>)
<1>1. CASE ReadFails
    <2> DEFINE file == Found(Top.src.loc, WithDockerfile)
    <2>1. CASE Top.src.loc \in Remote
        BY <1>1, <2>1 DEF ReadFails, ReadCodes, RemoteErrors
    <2>2. CASE Top.src.loc \notin Remote
        <3>1. Finish(ReadError(file), <<>>) /\ world[file] \notin Body
            BY <1>1, <2>2 DEF ReadFails
        <3>2. file \in Loc
            BY TopType, LocationAssumption DEF StackInv, Found, FrameType, Source
        <3> QED
            BY <3>1, <3>2, ReadErrorCode
    <2> QED
        BY <2>1, <2>2
<1>2. CASE IncludeEnvFails
    <2> DEFINE file == EnvFile(Instr)
    <2>1. CASE Instr.to \in Remote
        BY <1>2, <2>1 DEF IncludeEnvFails, ReadCodes, RemoteErrors
    <2>2. CASE Instr.to \notin Remote
        <3>1. Finish(ReadError(file), <<>>) /\ world[file] \notin Body
            BY <1>2, <2>2 DEF IncludeEnvFails
        <3>2. Top.phase = "expanding" /\ Top.pc \in DOMAIN Text /\ Instr.op \in EnvOps
            BY <1>2 DEF IncludeEnvFails, AtInstr, Enters
        <3>3. Text \in Body
            BY <3>2, TopType DEF StackInv, OpenedFile, Expanding, Text, Top
        <3>4. Instr.to \in Loc
            BY <3>2, <3>3, WorldAssumption DEF Instr
        <3>5. file \in Loc
            BY <3>4, LocationAssumption DEF Found, EnvFile
        <3> QED
            BY <3>1, <3>5, ReadErrorCode
    <2> QED
        BY <2>1, <2>2
<1> QED
    BY <1>1, <1>2

\* What a failing call reports is made of the chain it was given.
LEMMA FailuresStackInv ==
    ASSUME StackInv,
           \/ DepthExceeded \/ ResolveFails \/ CycleDetected \/ ReadFails
           \/ RefRejected \/ IncludeEnvFails \/ TargetMissing
    PROVE  StackInv'
<1>1. Top.chain \in Seq(Source) /\ Top.key \in Source
    BY TopType DEF StackInv, FrameType
<1>2. Append(Top.chain, Top.key) \in Seq(Source) /\ <<>> \in Seq(Source)
    BY <1>1
<1>3. \E code \in Codes, chain \in Seq(Source) : Finish(code, chain)
    <2>1. CASE DepthExceeded
        BY <1>1, <2>1 DEF DepthExceeded, Codes
    <2>2. CASE ResolveFails
        BY <1>2, <2>2 DEF ResolveFails, Codes
    <2>3. CASE CycleDetected
        BY <1>2, <2>3 DEF CycleDetected, Codes
    <2>4. CASE ReadFails \/ IncludeEnvFails
        BY <1>2, <2>4, ReadFailsCode DEF ReadCodes, RemoteErrors, Codes
    <2>5. CASE RefRejected
        BY <1>2, <2>5 DEF RefRejected, Codes
    <2>6. CASE TargetMissing
        BY <1>2, <2>6 DEF TargetMissing, Codes
    <2> QED
        BY <2>1, <2>2, <2>3, <2>4, <2>5, <2>6
<1> QED
    BY <1>3, FinishStackInv

LEMMA StepStackInv == StackInv /\ [Next]_vars => StackInv'
<1> SUFFICES ASSUME StackInv, [Next]_vars PROVE StackInv'
    OBVIOUS
<1>1. CASE \/ DepthExceeded \/ ResolveFails \/ CycleDetected \/ ReadFails
           \/ RefRejected \/ IncludeEnvFails \/ TargetMissing
    BY <1>1, FailuresStackInv
<1>2. CASE Resolve
    BY <1>2, ResolveStackInv
<1>3. CASE Open
    BY <1>3, OpenStackInv
<1>4. CASE Keep
    <2>1. cloned' \in [Repo -> Ident \cup {NoIdent}]
        BY <1>4 DEF Keep, StackInv, TypeOK
    <2> QED
        BY <1>4, <2>1, AdvanceStackInv DEF Keep, AtInstr, Enters
<1>5. CASE IncludeEnv
    <2> DEFINE child == Child(Instr)
    <2>1. PICK ident \in ReadIdents(child) : Remember(child, ident)
        BY <1>5 DEF IncludeEnv
    <2>2. RepoOf[child.loc] \in GitRepo => ident \in Ident \cup {NoIdent}
        BY <2>1, LocationAssumption DEF ReadIdents, StackInv, TypeOK
    <2>3. cloned' \in [Repo -> Ident \cup {NoIdent}]
        BY <2>1, <2>2, LocationAssumption DEF Remember, StackInv, TypeOK
    <2> QED
        BY <1>5, <2>3, AdvanceStackInv DEF IncludeEnv, AtInstr, Enters
<1>6. CASE Call
    BY <1>6, CallStackInv
<1>7. CASE Return
    BY <1>7, ReturnStackInv
<1>8. CASE Write
    <2>1. verdict' = [code |-> "ok", chain |-> <<>>] /\ UNCHANGED control
        BY <1>8 DEF Write
    <2>2. verdict' \in [code : Codes \cup {"running"}, chain : Seq(Source)]
        BY <2>1 DEF Codes
    <2> QED
        BY <2>1, <2>2, SameStack
<1>9. CASE UNCHANGED vars
    <2>1. UNCHANGED control /\ verdict' \in [code : Codes \cup {"running"}, chain : Seq(Source)]
        BY <1>9 DEF vars, control, StackInv, TypeOK
    <2> QED
        BY <2>1, SameStack
<1> QED
    BY <1>1, <1>2, <1>3, <1>4, <1>5, <1>6, <1>7, <1>8, <1>9 DEF Next, Step, Done

\* StackInv holds in every reachable state.
THEOREM StackInvariant == Spec => []StackInv
<1>1. Init => StackInv
    BY InitStackInv
<1>2. StackInv /\ [Next]_vars => StackInv'
    BY StepStackInv
<1> QED
    BY <1>1, <1>2, PTL DEF Spec

\* Types: every reachable state is made of what the code can hold, and only the
\* last pending call of loadDockerfile has yet to open its file.
THEOREM TypesCorrect == Spec => []TypeOK
<1>1. StackInv => TypeOK
    BY DEF StackInv
<1> QED
    BY <1>1, StackInvariant, PTL

\* The cycle guard of loadDockerfile does its work: a file is never opened
\* again, under the same identity, below itself.
THEOREM NeverOpenedTwice == Spec => []OpenOnce
<1>1. StackInv => OpenOnce
    BY DEF StackInv
<1> QED
    BY <1>1, StackInvariant, PTL

\* The depth guard of loadDockerfile does its work: whatever the files say, the
\* recursion is never deeper than --max-include-depth.
THEOREM NestingBounded == Spec => []DepthBounded
<1>1. StackInv => DepthBounded
    <2> SUFFICES ASSUME StackInv PROVE DepthBounded
        OBVIOUS
    <2>1. \A i \in Expanding : i \in DOMAIN stack /\ stack[i].phase # "called"
        BY DEF Expanding
    <2> QED
        BY <2>1 DEF StackInv, PassedDepth, DepthBounded
<1> QED
    BY <1>1, StackInvariant, PTL

\* A text is neither of what is found in place of one.
LEMMA TextIsThere == \A text \in Body : text \notin {Absent, Unreadable}
BY WorldAssumption

-----------------------------------------------------------------------------
(***************************************************************************)
(* The chain an error reports.                                             *)
(***************************************************************************)
\* The keys of the calls, from the first to any other one, are a walk along the
\* instructions of the files.
LEMMA KeysAreAWalk ==
    ASSUME StackInv, NEW c \in Seq(Source), c # <<>>, Len(c) <= Len(stack),
           \A j \in 1..Len(c) : c[j] = stack[j].key
    PROVE  IsWalk(c)
<1> DEFINE n == Len(stack)
           m == Len(c)
<1>1. TypeOK /\ n \in Nat /\ DOMAIN stack = 1..n
    BY TopType DEF StackInv
<1>2. m \in Nat /\ m >= 1 /\ m <= n /\ \A j \in 1..m : c[j] = stack[j].key
    BY EmptySeq, LenProperties
<1>3. \A i \in DOMAIN stack : i # n => stack[i].phase = "expanding"
    BY <1>1, TopType
<1> HIDE DEF n
<1>4. c[1].loc = Root
    BY <1>2 DEF StackInv, CalledBy
<1>5. ASSUME NEW i \in 1..(m - 1)
      PROVE  Loads(c[i].loc, c[i + 1].loc)
    <2>1. /\ i \in Nat /\ i >= 1 /\ i < n /\ i \in DOMAIN stack
          /\ c[i] = stack[i].key /\ c[i + 1] = stack[i + 1].key
        BY <1>1, <1>2, <1>5
    <2>2. i \in Expanding
        BY <1>3, <2>1 DEF Expanding
    <2>3. /\ stack[i].file = Found(stack[i].key.loc, WithDockerfile)
          /\ world[stack[i].file] \in Body
        BY <2>2 DEF StackInv, OpenedFile
    <2>4. /\ stack[i].pc \in DOMAIN world[stack[i].file]
          /\ Waiting(i).op \in CallOps
          /\ Waiting(i).to = stack[i + 1].key.loc
        BY <2>1 DEF StackInv, CalledBy, n
    <2> QED
        BY <2>1, <2>3, <2>4, TextIsThere DEF Loads, Waiting
<1> QED
    BY <1>4, <1>5 DEF IsWalk

\* What the call on top knows of the calls below it.
LEMMA TopChain ==
    ASSUME StackInv, Top.phase # "expanding"
    PROVE  /\ Top.chain \in Seq(Source) /\ Top.key \in Source
           /\ Len(Top.chain) = Len(stack) - 1
           /\ \A j \in 1..(Len(stack) - 1) : Top.chain[j] = stack[j].key
           /\ \A j \in 1..(Len(stack) - 1) : j \in Expanding
<1> DEFINE n == Len(stack)
<1>1. /\ n \in Nat \ {0} /\ DOMAIN stack = 1..n /\ n \in DOMAIN stack /\ Top = stack[n]
      /\ Top \in FrameType
      /\ \A i \in DOMAIN stack : i # n => stack[i].phase = "expanding"
    BY TopType DEF StackInv, Top
<1> HIDE DEF n
<1>2. Top.chain \in Seq(Source) /\ Top.key \in Source
    BY <1>1 DEF FrameType
<1>3. n \notin Expanding
    BY <1>1 DEF Expanding
<1>4. /\ Len(Top.chain) = n - 1
      /\ \A j \in DOMAIN Top.chain : Top.chain[j] = stack[j].key
    BY <1>1, <1>3 DEF StackInv, ChainIsKeys
<1>5. DOMAIN Top.chain = 1..(n - 1)
    BY <1>2, <1>4
<1>6. \A j \in 1..(n - 1) : j \in Expanding
    BY <1>1 DEF Expanding
<1> QED
    BY <1>2, <1>4, <1>5, <1>6 DEF n

\* The files do not change.
LEMMA SameWalk ==
    ASSUME NEW CONSTANT c, IsWalk(c), UNCHANGED world
    PROVE  IsWalk(c)'
BY DEF IsWalk, Loads, Found

LEMMA CycleDetectedIsReal == StackInv /\ CycleDetected => CycleIsReal'
<1> SUFFICES ASSUME StackInv, CycleDetected PROVE CycleIsReal'
    OBVIOUS
<1> DEFINE n == Len(stack)
<1>1. PICK c : c = Append(Top.chain, Top.key)
    OBVIOUS
<1>2. /\ verdict' = [code |-> "include-cycle", chain |-> c] /\ UNCHANGED world
      /\ Contains(Top.chain, Top.key) /\ Top.phase = "keyed"
    BY <1>1 DEF CycleDetected, Finish, Enters, control
<1>3. /\ Top.chain \in Seq(Source) /\ Top.key \in Source
      /\ Len(Top.chain) = n - 1 /\ n \in Nat \ {0} /\ Top = stack[n]
      /\ \A j \in 1..(n - 1) : Top.chain[j] = stack[j].key
    BY <1>2, TopChain, TopType DEF StackInv, Top
<1> HIDE DEF n
<1>4. /\ c \in Seq(Source) /\ Len(c) = n /\ c[n] = Top.key
      /\ \A j \in 1..(n - 1) : c[j] = Top.chain[j]
    BY <1>1, <1>3, AppendProperties
<1>5. IsWalk(c)
    <2>1. \A j \in 1..n : c[j] = stack[j].key
        BY <1>3, <1>4
    <2>2. c # <<>>
        BY <1>3, <1>4
    <2> QED
        BY <1>3, <1>4, <2>1, <2>2, KeysAreAWalk DEF n
<1>6. \E i \in 1..(Len(c) - 1) : c[i] = c[Len(c)]
    BY <1>2, <1>3, <1>4 DEF Contains
<1>7. IsWalk(c)'
    BY <1>2, <1>5, SameWalk
<1> QED
    BY <1>2, <1>6, <1>7 DEF CycleIsReal

LEMMA DepthExceededIsReal == StackInv /\ DepthExceeded => DepthIsReal'
<1> SUFFICES ASSUME StackInv, DepthExceeded PROVE DepthIsReal'
    OBVIOUS
<1> DEFINE n == Len(stack)
<1>1. PICK c : c = Top.chain
    OBVIOUS
<1>2. /\ verdict' = [code |-> "include-depth-exceeded", chain |-> c] /\ UNCHANGED world
      /\ Top.phase = "called" /\ n - 1 > MaxIncludeDepth
    BY <1>1 DEF DepthExceeded, Finish, Enters, control, Nesting
<1>3. /\ c \in Seq(Source) /\ Len(c) = n - 1 /\ n \in Nat \ {0}
      /\ \A j \in 1..(n - 1) : c[j] = stack[j].key
      /\ \A j \in 1..(n - 1) : j \in Expanding
    BY <1>1, <1>2, TopChain, TopType DEF StackInv
<1>4. n <= MaxIncludeDepth + 2
    BY DEF StackInv, PassedDepth
<1> HIDE DEF n
<1>5. Len(c) = MaxIncludeDepth + 1 /\ c # <<>>
    BY <1>2, <1>3, <1>4, DepthAssumption
<1>6. IsWalk(c)
    <2>1. Len(c) <= n /\ \A j \in 1..Len(c) : c[j] = stack[j].key
        BY <1>3
    <2> QED
        BY <1>3, <1>5, <2>1, KeysAreAWalk DEF n
<1>7. \A i, j \in DOMAIN c : c[i] = c[j] => i = j
    <2>1. DOMAIN c = 1..(n - 1)
        BY <1>3
    <2> QED
        BY <1>3, <2>1 DEF StackInv, OpenOnce
<1>8. IsWalk(c)'
    BY <1>2, <1>6, SameWalk
<1> QED
    BY <1>2, <1>5, <1>7, <1>8 DEF DepthIsReal

\* An error of one of the two codes has no other origin, and nothing happens
\* after it.
LEMMA OtherSteps ==
    ASSUME StackInv, [Next]_vars
    PROVE  \/ CycleDetected \/ DepthExceeded
           \/ UNCHANGED <<world, verdict>>
           \/ verdict'.code \notin {"include-cycle", "include-depth-exceeded"}
<1>1. CASE ResolveFails
    BY <1>1 DEF ResolveFails, Finish
<1>2. CASE ReadFails \/ IncludeEnvFails
    BY <1>2, ReadFailsCode DEF ReadCodes, RemoteErrors, Finish
<1>3. CASE RefRejected
    BY <1>3 DEF RefRejected, Finish
<1>4. CASE TargetMissing
    BY <1>4 DEF TargetMissing, Finish
<1>5. CASE Write
    BY <1>5 DEF Write
<1>6. CASE Resolve \/ Open \/ Keep \/ Call \/ IncludeEnv \/ Return \/ UNCHANGED vars
    BY <1>6 DEF Resolve, Open, Keep, Call, IncludeEnv, Return, vars
<1> QED
    BY <1>1, <1>2, <1>3, <1>4, <1>5, <1>6 DEF Next, Step, Done

LEMMA ErrorsReal ==
    StackInv /\ CycleIsReal /\ DepthIsReal /\ [Next]_vars => (CycleIsReal /\ DepthIsReal)'
<1> SUFFICES ASSUME StackInv, CycleIsReal, DepthIsReal, [Next]_vars
             PROVE  (CycleIsReal /\ DepthIsReal)'
    OBVIOUS
<1>1. CASE CycleDetected
    <2>1. verdict'.code = "include-cycle"
        BY <1>1 DEF CycleDetected, Finish
    <2> QED
        BY <1>1, <2>1, CycleDetectedIsReal DEF DepthIsReal
<1>2. CASE DepthExceeded
    <2>1. verdict'.code = "include-depth-exceeded"
        BY <1>2 DEF DepthExceeded, Finish
    <2> QED
        BY <1>2, <2>1, DepthExceededIsReal DEF CycleIsReal
<1>3. CASE UNCHANGED <<world, verdict>>
    BY <1>3 DEF CycleIsReal, DepthIsReal, IsWalk, Loads, Found
<1>4. CASE verdict'.code \notin {"include-cycle", "include-depth-exceeded"}
    BY <1>4 DEF CycleIsReal, DepthIsReal
<1> QED
    BY <1>1, <1>2, <1>3, <1>4, OtherSteps

\* The two errors tell the truth: the chain that errors/IncludeCycleError.js and
\* errors/IncludeDepthExceededError.js print is a walk along the instructions of the
\* files from the root, to a file it passed before or beyond the limit.
THEOREM ErrorChainsReal == Spec => [](CycleIsReal /\ DepthIsReal)
<1>1. Init => CycleIsReal /\ DepthIsReal
    BY DEF Init, Running, CycleIsReal, DepthIsReal
<1>2. StackInv /\ (CycleIsReal /\ DepthIsReal) /\ [Next]_vars => (CycleIsReal /\ DepthIsReal)'
    BY ErrorsReal
<1> QED
    BY <1>1, <1>2, StackInvariant, PTL DEF Spec

\* The depth guard never cries wolf: the chain of an include-depth-exceeded error
\* is a walk of one file more than the limit allows, none of them twice.
THEOREM DepthErrorsReal == Spec => []DepthIsReal
BY ErrorChainsReal, PTL

-----------------------------------------------------------------------------
(***************************************************************************)
(* What a successful run has been through.                                 *)
(***************************************************************************)
\* The files of all expandable sets.
Settled == UNION {files \in SUBSET Loc : Expandable(files)}

\* What an instruction that has been processed has shown.
Processed(instr) ==
    /\ instr.op \in CallOps \cup EnvOps => instr.to \notin Rejected
    /\ instr.op \in CallOps => instr.to \in Settled
    /\ instr.op \in EnvOps => world[EnvFile(instr)] \in Body

LEMMA SettledExpandable == Expandable(Settled) /\ Settled \in SUBSET Loc
<1>1. ASSUME NEW l \in Settled
      PROVE  LET text == world[Found(l, WithDockerfile)] IN
             /\ text \in Body
             /\ \A i \in DOMAIN text :
                 /\ text[i].op \in CallOps \cup EnvOps => text[i].to \notin Rejected
                 /\ text[i].op \in CallOps => text[i].to \in Settled
                 /\ text[i].op \in EnvOps => world[EnvFile(text[i])] \in Body
    <2>1. PICK files \in SUBSET Loc : Expandable(files) /\ l \in files
        BY DEF Settled
    <2>2. files \subseteq Settled
        BY <2>1 DEF Settled
    <2> QED
        BY <2>1, <2>2 DEF Expandable
<1>2. ASSUME NEW group \in (SUBSET Settled) \ {{}}
      PROVE  \E l \in group : \A m \in group : ~Loads(l, m)
    <2> group # {}
        BY <1>2
    <2>1. PICK first : first \in group
        OBVIOUS
    <2>2. PICK files \in SUBSET Loc : Expandable(files) /\ first \in files
        BY <2>1 DEF Settled
    <2>3. group \cap files # {} /\ group \cap files \subseteq files
        BY <2>1, <2>2
    <2>4. PICK l \in group \cap files : \A m \in group \cap files : ~Loads(l, m)
        BY <2>2, <2>3 DEF Expandable
    <2>5. \A m \in group : Loads(l, m) => m \in files
        BY <2>2, <2>4 DEF Expandable, Loads
    <2> QED
        BY <2>4, <2>5
<1> QED
    BY <1>1, <1>2 DEF Expandable, Settled

\* A file all of whose instructions have been processed is settled too.
LEMMA FileSettled ==
    ASSUME NEW l \in Loc, world[Found(l, WithDockerfile)] \in Body,
           \A i \in DOMAIN world[Found(l, WithDockerfile)] :
                Processed(world[Found(l, WithDockerfile)][i])
    PROVE  l \in Settled
<1> DEFINE files == Settled \cup {l}
<1>1. Expandable(Settled) /\ Settled \in SUBSET Loc
    BY SettledExpandable
<1>2. \A m : Loads(l, m) => m \in Settled
    BY DEF Loads, Processed
<1>3. \A k \in Settled : \A m : Loads(k, m) => m \in Settled
    BY <1>1 DEF Expandable, Loads
<1>4. ASSUME NEW group \in (SUBSET files) \ {{}}
      PROVE  \E k \in group : \A m \in group : ~Loads(k, m)
    <2>1. CASE group \cap Settled = {}
        <3> group # {} /\ group \subseteq files
            BY <1>4
        <3>1. group \subseteq {l}
            BY <2>1
        <3>2. group = {l} /\ l \notin Settled
            BY <2>1, <3>1
        <3> QED
            BY <1>2, <3>2
    <2>2. CASE group \cap Settled # {}
        <3>1. PICK k \in group \cap Settled : \A m \in group \cap Settled : ~Loads(k, m)
            BY <1>1, <2>2 DEF Expandable
        <3> QED
            BY <1>3, <3>1
    <2> QED
        BY <2>1, <2>2
<1>5. ASSUME NEW k \in files
      PROVE  LET text == world[Found(k, WithDockerfile)] IN
             /\ text \in Body
             /\ \A i \in DOMAIN text :
                 /\ text[i].op \in CallOps \cup EnvOps => text[i].to \notin Rejected
                 /\ text[i].op \in CallOps => text[i].to \in files
                 /\ text[i].op \in EnvOps => world[EnvFile(text[i])] \in Body
    <2>1. CASE k = l
        BY <2>1 DEF Processed
    <2>2. CASE k \in Settled
        BY <1>1, <2>2 DEF Expandable
    <2> QED
        BY <2>1, <2>2
<1>6. Expandable(files)
    BY <1>4, <1>5 DEF Expandable
<1> QED
    BY <1>1, <1>6 DEF Settled

\* The files do not change.
LEMMA StaysProcessed ==
    ASSUME UNCHANGED world
    PROVE  /\ Settled' = Settled
           /\ \A instr : Processed(instr) => Processed(instr)'
           /\ \A files : Expandable(files)' = Expandable(files)
<1>1. ASSUME NEW instr PROVE EnvFile(instr)' = EnvFile(instr)
    BY DEF EnvFile, Found
<1>2. \A l, m : Loads(l, m)' = Loads(l, m)
    BY DEF Loads, Found
<1>3. ASSUME NEW files PROVE Expandable(files)' = Expandable(files)
    BY <1>1, <1>2, SMTT(30) DEF Expandable, Found
<1>4. Settled' = Settled
    BY <1>3 DEF Settled
<1>5. ASSUME NEW instr PROVE Processed(instr) => Processed(instr)'
    <2>1. world'[EnvFile(instr)'] = world[EnvFile(instr)]
        BY <1>1
    <2> QED
        BY <1>4, <2>1 DEF Processed
<1> QED
    BY <1>3, <1>4, <1>5

\* A call has processed the instructions before the one it is at, and the others
\* of its file are still there.
PassedInstr(f) ==
    f.phase = "expanding" =>
        /\ f.pc \in 1..(Len(world[f.file]) + 1)
        /\ \A j \in 1..(f.pc - 1) : Processed(world[f.file][j])

Progress ==
    /\ \A i \in DOMAIN stack : PassedInstr(stack[i])
    /\ \A i \in DOMAIN stack : i > 1 => stack[i].key.loc \notin Rejected
    /\ OkMeansExpandable

LEMMA StaysPassed ==
    ASSUME UNCHANGED world
    PROVE  \A f : PassedInstr(f) => PassedInstr(f)'
<1> SUFFICES ASSUME NEW f, PassedInstr(f) PROVE PassedInstr(f)'
    OBVIOUS
<1> QED
    BY StaysProcessed DEF PassedInstr

LEMMA FramesPassed ==
    ASSUME UNCHANGED world, \A i \in DOMAIN stack' : PassedInstr(stack'[i])
    PROVE  (\A i \in DOMAIN stack : PassedInstr(stack[i]))'
<1> SUFFICES ASSUME NEW i \in DOMAIN stack' PROVE PassedInstr(stack[i])'
    OBVIOUS
<1>1. PICK f : f = stack'[i]
    OBVIOUS
<1>2. PassedInstr(f)
    BY <1>1
<1>3. PassedInstr(f)'
    BY <1>2, StaysPassed
<1> QED
    BY <1>1, <1>3 DEF PassedInstr

LEMMA OkStays ==
    ASSUME OkMeansExpandable, UNCHANGED world, verdict' = verdict \/ verdict'.code # "ok"
    PROVE  OkMeansExpandable'
<1> SUFFICES ASSUME verdict'.code = "ok"
             PROVE  \E files \in SUBSET Loc : Root \in files /\ Expandable(files)'
    BY DEF OkMeansExpandable
<1>1. PICK files \in SUBSET Loc : Root \in files /\ Expandable(files)
    BY DEF OkMeansExpandable
<1>2. Expandable(files)'
    BY <1>1, StaysProcessed
<1> QED
    BY <1>1, <1>2

\* The steps that replace the call on top.
LEMMA TopProgress ==
    ASSUME StackInv, Progress, UNCHANGED <<world, verdict>>,
           NEW frame, SetTop(frame), PassedInstr(frame),
           frame.key.loc = Top.key.loc
    PROVE  Progress'
<1> DEFINE n == Len(stack)
<1>1. n \in Nat \ {0} /\ DOMAIN stack = 1..n /\ Top = stack[n]
    BY TopType DEF StackInv, Top
<1>2. /\ DOMAIN stack' = DOMAIN stack /\ stack'[n] = frame
      /\ \A i \in DOMAIN stack : i # n => stack'[i] = stack[i]
    BY <1>1 DEF SetTop, StackInv, TypeOK
<1> HIDE DEF n
<1>3. \A i \in DOMAIN stack' : PassedInstr(stack'[i])
    BY <1>1, <1>2 DEF Progress
<1>5. \A i \in DOMAIN stack' : i > 1 => stack'[i].key.loc \notin Rejected
    BY <1>1, <1>2 DEF Progress
<1>6. OkMeansExpandable'
    BY OkStays DEF Progress
<1> QED
    BY <1>3, <1>5, <1>6, FramesPassed DEF Progress

LEMMA AdvanceProgress ==
    ASSUME StackInv, Progress, UNCHANGED <<world, verdict>>, Top.phase = "expanding",
           Top.pc \in DOMAIN Text, Processed(Instr), SetTop([Top EXCEPT !.pc = @ + 1])
    PROVE  Progress'
<1> DEFINE n     == Len(stack)
           next  == Top.pc + 1
           frame == [Top EXCEPT !.pc = next]
           text  == world[Top.file]
<1>1. TypeOK /\ n \in DOMAIN stack /\ Top \in FrameType /\ Top = stack[n]
    BY TopType DEF StackInv, Top
<1>2. text \in Body
    BY <1>1 DEF StackInv, OpenedFile, Expanding
<1>3. Len(text) \in Nat /\ DOMAIN text = 1..Len(text)
    BY <1>2, WorldAssumption
<1>4. Top.pc \in 1..Len(text) /\ \A j \in 1..(Top.pc - 1) : Processed(text[j])
    <2>1. PassedInstr(Top)
        BY <1>1 DEF Progress
    <2> QED
        BY <1>3, <2>1 DEF PassedInstr, Text
<1>5. Processed(text[Top.pc])
    BY DEF Instr, Text
<1>6. next \in Nat /\ next - 1 = Top.pc /\ next \in 1..(Len(text) + 1)
    BY <1>3, <1>4
<1>7. SetTop(frame)
    OBVIOUS
<1>8. \A j \in 1..(next - 1) : Processed(text[j])
    BY <1>4, <1>5, <1>6
<1> HIDE DEF next, text
<1>9. /\ frame \in FrameType /\ frame.phase = "expanding" /\ frame.pc = next
      /\ frame.file = Top.file /\ frame.key = Top.key
    BY <1>1, <1>6 DEF FrameType
<1> HIDE DEF frame
<1>10. PassedInstr(frame)
    BY <1>6, <1>8, <1>9 DEF PassedInstr, text
<1> QED
    BY <1>7, <1>9, <1>10, TopProgress

LEMMA ResolveProgress == StackInv /\ Progress /\ Resolve => Progress'
<1> SUFFICES ASSUME StackInv, Progress, Resolve PROVE Progress'
    OBVIOUS
<1>1. Top \in FrameType /\ Top.src \in Source /\ Top.key.loc = Top.src.loc
    BY TopType DEF StackInv, FrameType, SameLocation, Top
<1>2. PICK src \in Source : Keyed(src) /\ src.loc = Top.src.loc
    <2>1. CASE NeedsIdent(Top.src)
        <3> DEFINE repo == RepoOf[Top.src.loc]
        <3>1. repo \in Repo
            BY <1>1, <2>1, LocationAssumption DEF NeedsIdent, Source
        <3>2. PICK oid \in IF resolved[repo] = NoIdent THEN Ident ELSE {resolved[repo]} :
                Keyed([Top.src EXCEPT !.ident = oid])
            BY <2>1 DEF Resolve
        <3>3. oid \in Ident \cup {NoIdent}
            BY <3>1, <3>2 DEF StackInv, TypeOK
        <3>4. [Top.src EXCEPT !.ident = oid] \in Source
              /\ [Top.src EXCEPT !.ident = oid].loc = Top.src.loc
            BY <1>1, <3>3 DEF Source
        <3> QED
            BY <3>2, <3>4
    <2>2. CASE ~NeedsIdent(Top.src)
        BY <1>1, <2>2 DEF Resolve
    <2> QED
        BY <2>1, <2>2
<1> DEFINE frame == [Top EXCEPT !.src = src, !.key = src, !.phase = "keyed"]
<1>3. /\ frame \in FrameType /\ frame.phase = "keyed" /\ frame.key.loc = Top.key.loc
    BY <1>1, <1>2 DEF FrameType, Phases
<1>4. SetTop(frame) /\ UNCHANGED <<world, verdict>>
    BY <1>2 DEF Keyed, Key, Resolve
<1> HIDE DEF frame
<1>5. PassedInstr(frame)
    BY <1>3 DEF PassedInstr
<1> QED
    BY <1>3, <1>4, <1>5, TopProgress

LEMMA OpenProgress == StackInv /\ Progress /\ Open => Progress'
<1> SUFFICES ASSUME StackInv, Progress, Open PROVE Progress'
    OBVIOUS
<1> DEFINE file == Found(Top.src.loc, WithDockerfile)
<1>1. Top \in FrameType /\ world[file] \in Body /\ UNCHANGED <<world, verdict>>
    BY TopType DEF StackInv, Open
<1>2. Len(world[file]) \in Nat
    BY <1>1, WorldAssumption
<1>3. PICK ident \in ReadIdents(Top.src) :
        SetTop([Top EXCEPT !.src.ident = ident,
                           !.file = file,
                           !.scope = Append(@, DisplayPath([Top.src EXCEPT !.ident = ident], file)),
                           !.chain = Append(@, Top.key),
                           !.pc = 1,
                           !.phase = "expanding"])
    BY DEF Open
<1> DEFINE frame == [Top EXCEPT !.src.ident = ident,
                                !.file = file,
                                !.scope = Append(@, DisplayPath([Top.src EXCEPT !.ident = ident], file)),
                                !.chain = Append(@, Top.key),
                                !.pc = 1,
                                !.phase = "expanding"]
<1>4. frame.key = Top.key /\ frame.file = file /\ frame.pc = 1 /\ frame.phase = "expanding"
    BY <1>1 DEF FrameType
<1>5. SetTop(frame)
    BY <1>3
<1> HIDE DEF frame
<1>6. PassedInstr(frame)
    BY <1>2, <1>4 DEF PassedInstr
<1> QED
    BY <1>1, <1>4, <1>5, <1>6, TopProgress

LEMMA CallProgress == StackInv /\ Progress /\ Call => Progress'
<1> SUFFICES ASSUME StackInv, Progress, Call PROVE Progress'
    OBVIOUS
<1> DEFINE n     == Len(stack)
           child == Child(Instr)
           frame == Frame(child, Instr.op, Instr.target, Alias(child), Top.chain, Top.scope)
<1>1. n \in Nat \ {0} /\ DOMAIN stack = 1..n /\ stack \in Seq(FrameType)
    BY TopType DEF StackInv, TypeOK
<1>2. /\ stack' = Append(stack, frame) /\ Instr.to \notin Rejected
      /\ UNCHANGED <<world, verdict>>
    BY DEF Call
<1>3. frame.phase = "called" /\ frame.key.loc = Instr.to
    BY DEF Frame, Child
<1> HIDE DEF frame, n
<1>4. /\ DOMAIN stack' = 1..(n + 1) /\ stack'[n + 1] = frame
      /\ \A i \in 1..n : stack'[i] = stack[i]
    BY <1>1, <1>2 DEF n
<1>5. \A i \in 1..(n + 1) : PassedInstr(stack'[i]) /\ (i > 1 => stack'[i].key.loc \notin Rejected)
    <2>1. PassedInstr(frame)
        BY <1>3 DEF PassedInstr
    <2> QED
        BY <1>1, <1>2, <1>3, <1>4, <2>1 DEF Progress
<1> QED
    BY <1>2, <1>4, <1>5, FramesPassed, OkStays DEF Progress

\* The call on top has come to the end of its file.
LEMMA TopSettled ==
    ASSUME StackInv, Progress, AtEnd
    PROVE  Top.key.loc \in Settled
<1> DEFINE n    == Len(stack)
           l    == Top.key.loc
           text == world[Top.file]
<1>1. n \in DOMAIN stack /\ Top = stack[n] /\ Top \in FrameType
    BY TopType DEF StackInv, Top
<1>2. Top.phase = "expanding" /\ Top.pc \notin DOMAIN text
    BY DEF AtEnd, Enters, Text
<1>3. l \in Loc /\ Top.file = Found(l, WithDockerfile) /\ text \in Body
    BY <1>1, <1>2 DEF StackInv, OpenedFile, Expanding, FrameType, Source
<1>4. Len(text) \in Nat /\ DOMAIN text = 1..Len(text)
    BY <1>3, WorldAssumption
<1>5. Top.pc \in 1..(Len(text) + 1) /\ \A j \in 1..(Top.pc - 1) : Processed(text[j])
    <2>1. PassedInstr(Top)
        BY <1>1 DEF Progress
    <2> QED
        BY <1>2, <2>1 DEF PassedInstr
<1>6. Top.pc - 1 = Len(text)
    <2> HIDE DEF text
    <2> QED
        BY <1>2, <1>4, <1>5
<1>7. \A j \in DOMAIN text : Processed(text[j])
    BY <1>4, <1>5, <1>6
<1> QED
    BY <1>3, <1>7, FileSettled

LEMMA ReturnProgress == StackInv /\ Progress /\ Return => Progress'
<1> SUFFICES ASSUME StackInv, Progress, Return PROVE Progress'
    OBVIOUS
<1> DEFINE n     == Len(stack) - 1
           next  == stack[n].pc + 1
           frame == [stack[n] EXCEPT !.pc = next]
           below == SubSeq(stack, 1, n)
           text  == world[stack[n].file]
<1>1. /\ TypeOK /\ Len(stack) \in Nat /\ Len(stack) > 1 /\ DOMAIN stack = 1..Len(stack)
      /\ \A i \in DOMAIN stack : stack[i] \in FrameType
      /\ \A i \in DOMAIN stack : i # Len(stack) => stack[i].phase = "expanding"
      /\ AtEnd /\ Top = stack[Len(stack)]
    BY TopType DEF StackInv, Return, Top
<1>2. n \in Nat \ {0} /\ Len(stack) = n + 1 /\ stack \in Seq(FrameType)
    BY <1>1 DEF TypeOK
<1>3. /\ stack' = [below EXCEPT ![n] = [below[n] EXCEPT !.pc = @ + 1]]
      /\ UNCHANGED <<world, verdict>>
    BY DEF Return
<1> HIDE DEF n
<1>4. n \in DOMAIN stack /\ stack[n] \in FrameType /\ stack[n].phase = "expanding"
    BY <1>1, <1>2
<1>5. Processed(text[stack[n].pc]) /\ stack[n].pc \in DOMAIN text
    <2>1. /\ stack[n].pc \in DOMAIN text
          /\ text[stack[n].pc].op \in CallOps
          /\ text[stack[n].pc].to = stack[n + 1].key.loc
        BY <1>1, <1>2, <1>4 DEF StackInv, CalledBy, Waiting
    <2>2. stack[n + 1].key.loc \in Settled
        BY <1>1, <1>2, TopSettled
    <2>3. stack[n + 1].key.loc \notin Rejected
        BY <1>1, <1>2 DEF Progress
    <2> QED
        BY <2>1, <2>2, <2>3 DEF Processed, CallOps, EnvOps
<1>6. Len(text) \in Nat /\ DOMAIN text = 1..Len(text)
    BY <1>4, WorldAssumption DEF StackInv, OpenedFile, Expanding
<1>7. \A j \in 1..(stack[n].pc - 1) : Processed(text[j])
    BY <1>4 DEF Progress, PassedInstr
<1>8. /\ next \in Nat /\ next \in 1..(Len(text) + 1)
      /\ \A j \in 1..(next - 1) : Processed(text[j])
    <2> HIDE DEF text
    <2> QED
        BY <1>5, <1>6, <1>7
<1>9. /\ below \in Seq(FrameType) /\ Len(below) = n /\ DOMAIN below = 1..n
      /\ \A i \in 1..n : below[i] = stack[i]
    BY <1>1, <1>2, SubSeqProperties
<1> HIDE DEF below
<1>10. stack' = [below EXCEPT ![n] = frame]
    BY <1>2, <1>3, <1>9
<1> HIDE DEF next, text
<1>11. /\ frame.phase = "expanding" /\ frame.pc = next /\ frame.file = stack[n].file
       /\ frame.key = stack[n].key
    BY <1>4 DEF FrameType
<1> HIDE DEF frame
<1>12. DOMAIN stack' = 1..n /\ stack'[n] = frame /\ \A i \in 1..n : i # n => stack'[i] = stack[i]
    BY <1>2, <1>9, <1>10
<1>13. PassedInstr(frame)
    BY <1>8, <1>11 DEF PassedInstr, text
<1>14. \A i \in 1..n : i \in DOMAIN stack
    BY <1>1, <1>2
<1>15. \A i \in 1..n : PassedInstr(stack'[i]) /\ (i > 1 => stack'[i].key.loc \notin Rejected)
    BY <1>2, <1>11, <1>12, <1>13, <1>14 DEF Progress
<1> QED
    BY <1>3, <1>12, <1>15, FramesPassed, OkStays DEF Progress

\* Nothing but Write ends a run with "ok".
LEMMA FinishProgress ==
    ASSUME Progress, UNCHANGED <<world, stack>>, verdict' = verdict \/ verdict'.code # "ok"
    PROVE  Progress'
<1>1. \A i \in DOMAIN stack' : PassedInstr(stack'[i])
    BY DEF Progress
<1>2. \A i \in DOMAIN stack' : i > 1 => stack'[i].key.loc \notin Rejected
    BY DEF Progress
<1> QED
    BY <1>1, <1>2, FramesPassed, OkStays DEF Progress

LEMMA WriteProgress == StackInv /\ Progress /\ Write => Progress'
<1> SUFFICES ASSUME StackInv, Progress, Write PROVE Progress'
    OBVIOUS
<1>1. AtEnd /\ Top.key.loc = Root /\ UNCHANGED <<world, stack>>
    BY TopType DEF StackInv, CalledBy, Write, control, Top
<1>2. Root \in Settled
    BY <1>1, TopSettled
<1>4. OkMeansExpandable'
    BY <1>1, <1>2, SettledExpandable, StaysProcessed DEF OkMeansExpandable
<1>5. \A i \in DOMAIN stack' : PassedInstr(stack'[i])
    BY <1>1 DEF Progress
<1>6. \A i \in DOMAIN stack' : i > 1 => stack'[i].key.loc \notin Rejected
    BY <1>1 DEF Progress
<1> QED
    BY <1>1, <1>4, <1>5, <1>6, FramesPassed DEF Progress

LEMMA StepProgress == StackInv /\ Progress /\ [Next]_vars => Progress'
<1> SUFFICES ASSUME StackInv, Progress, [Next]_vars PROVE Progress'
    OBVIOUS
<1>1. CASE \/ DepthExceeded \/ ResolveFails \/ CycleDetected \/ RefRejected \/ TargetMissing
    BY <1>1, FinishProgress
       DEF DepthExceeded, ResolveFails, CycleDetected, RefRejected, TargetMissing, Finish, control
<1>2. CASE ReadFails \/ IncludeEnvFails
    <2>1. PICK code \in ReadCodes : Finish(code, <<>>)
        BY <1>2, ReadFailsCode
    <2> QED
        BY <2>1, FinishProgress DEF Finish, control, ReadCodes, RemoteErrors
<1>3. CASE Resolve
    BY <1>3, ResolveProgress
<1>4. CASE Open
    BY <1>4, OpenProgress
<1>5. CASE Keep
    BY <1>5, AdvanceProgress DEF Keep, AtInstr, Enters, Processed, CallOps, EnvOps
<1>6. CASE IncludeEnv
    BY <1>6, AdvanceProgress DEF IncludeEnv, AtInstr, Enters, Processed, CallOps, EnvOps
<1>7. CASE Call
    BY <1>7, CallProgress
<1>8. CASE Return
    BY <1>8, ReturnProgress
<1>9. CASE Write
    BY <1>9, WriteProgress
<1>10. CASE UNCHANGED vars
    BY <1>10, FinishProgress DEF vars
<1> QED
    BY <1>1, <1>2, <1>3, <1>4, <1>5, <1>6, <1>7, <1>8, <1>9, <1>10 DEF Next, Step, Done

LEMMA InitProgress == Init => Progress
<1> SUFFICES ASSUME Init PROVE Progress
    OBVIOUS
<1>1. DOMAIN stack = {1} /\ stack[1].phase = "called" /\ verdict.code # "ok"
    BY DEF Init, Frame, Running
<1> QED
    BY <1>1 DEF Progress, PassedInstr, OkMeansExpandable

LEMMA ProgressInvariant == Spec => []Progress
BY InitProgress, StepProgress, StackInvariant, PTL DEF Spec

\* A run of the command that succeeds has skipped nothing: the files its includes
\* lead to are there, no reference in them is refused, and they do not go round.
THEOREM SuccessMeansExpandable == Spec => []OkMeansExpandable
<1>1. Progress => OkMeansExpandable
    BY DEF Progress
<1> QED
    BY <1>1, ProgressInvariant, PTL

-----------------------------------------------------------------------------
(***************************************************************************)
(* The scope and the identities.  A step opens the file of the call on     *)
(* top, gives it a key, makes a call, or leaves what it keeps of the calls *)
(* as it was.                                                              *)
(***************************************************************************)
SameCall(f, g) ==
    /\ f.src = g.src /\ f.key = g.key /\ f.file = g.file /\ f.phase = g.phase
    /\ f.chain = g.chain /\ f.scope = g.scope /\ f.target = g.target

KeptCalls == \A i \in DOMAIN stack' : i \in DOMAIN stack /\ SameCall(stack'[i], stack[i])

LEMMA AdvanceKeeps ==
    ASSUME StackInv, SetTop([Top EXCEPT !.pc = @ + 1])
    PROVE  KeptCalls
<1> DEFINE n     == Len(stack)
           next  == Top.pc + 1
           frame == [Top EXCEPT !.pc = next]
<1>1. TypeOK /\ n \in DOMAIN stack /\ Top \in FrameType /\ Top = stack[n]
    BY TopType DEF StackInv, Top
<1>2. next \in Nat
    BY <1>1 DEF FrameType
<1>3. SetTop(frame)
    OBVIOUS
<1> HIDE DEF next
<1>4. frame \in FrameType /\ SameCall(frame, Top)
    BY <1>1, <1>2 DEF FrameType, SameCall
<1> HIDE DEF frame, n
<1>5. /\ DOMAIN stack' = DOMAIN stack /\ stack'[n] = frame
      /\ \A i \in DOMAIN stack : i # n => stack'[i] = stack[i]
    BY <1>1, <1>3, <1>4, TopReplaced DEF n
<1> QED
    BY <1>1, <1>4, <1>5 DEF KeptCalls, SameCall

LEMMA ReturnKeeps ==
    ASSUME StackInv, Return
    PROVE  KeptCalls
<1> DEFINE n     == Len(stack) - 1
           next  == stack[n].pc + 1
           frame == [stack[n] EXCEPT !.pc = next]
           below == SubSeq(stack, 1, n)
<1>1. /\ TypeOK /\ Len(stack) \in Nat /\ Len(stack) > 1 /\ DOMAIN stack = 1..Len(stack)
      /\ \A i \in DOMAIN stack : stack[i] \in FrameType
    BY TopType DEF StackInv, Return
<1>2. n \in Nat \ {0} /\ Len(stack) = n + 1 /\ stack[n] \in FrameType /\ stack \in Seq(FrameType)
    BY <1>1 DEF TypeOK
<1>3. stack' = [below EXCEPT ![n] = [below[n] EXCEPT !.pc = @ + 1]]
    BY DEF Return
<1> HIDE DEF n
<1>4. next \in Nat
    <2>1. stack[n] \in FrameType
        BY <1>2
    <2>2. stack[n].pc \in Nat
        BY <2>1 DEF FrameType
    <2> QED
        BY <2>2
<1>5. below \in Seq(FrameType) /\ Len(below) = n /\ \A i \in 1..n : below[i] = stack[i]
    <2>1. /\ 1 \in Int /\ n \in Int /\ 1 <= n /\ n - 1 + 1 = n
          /\ \A i \in 1..n : stack[i] \in FrameType
        BY <1>1, <1>2
    <2>2. /\ below \in Seq(FrameType) /\ Len(below) = n - 1 + 1
          /\ \A i \in 1..(n - 1 + 1) : below[i] = stack[1 + i - 1]
        BY <2>1, SubSeqProperties
    <2>3. \A i \in 1..n : 1 + i - 1 = i
        BY <1>2
    <2> HIDE DEF below
    <2> QED
        BY <2>1, <2>2, <2>3
<1> HIDE DEF below
<1>same. below[n] = stack[n]
    BY <1>2, <1>5
<1>6. stack' = [below EXCEPT ![n] = frame]
    BY <1>3, <1>same
<1> HIDE DEF next
<1>7. frame \in FrameType /\ SameCall(frame, stack[n])
    BY <1>2, <1>4 DEF FrameType, SameCall
<1> HIDE DEF frame
<1>8. /\ stack' \in Seq(FrameType) /\ Len(stack') = n
      /\ stack'[n] = frame /\ \A i \in 1..(n - 1) : stack'[i] = below[i]
    BY <1>2, <1>5, <1>6, <1>7, ExceptSeq
<1>9. DOMAIN stack' = 1..n
    BY <1>8, LenProperties
<1>10. ASSUME NEW i \in 1..n PROVE i \in DOMAIN stack /\ SameCall(stack'[i], stack[i])
    <2>1. CASE i = n
        BY <1>1, <1>2, <1>7, <1>8, <2>1
    <2>2. CASE i # n
        <3>1. i \in 1..(n - 1) /\ i \in DOMAIN stack
            BY <1>1, <1>2, <2>2
        <3> QED
            BY <1>5, <1>8, <3>1 DEF SameCall
    <2> QED
        BY <2>1, <2>2
<1> QED
    BY <1>9, <1>10 DEF KeptCalls

\* What has been learnt of a moving reference is not learnt again.
Learnt(known, r) == known[r] # NoIdent => known'[r] = known[r]

LEMMA RememberLearnt ==
    ASSUME StackInv, NEW src, NEW ident \in ReadIdents(src), Remember(src, ident)
    PROVE  \A r \in Repo : cloned[r] # NoIdent => cloned'[r] = cloned[r]
BY DEF ReadIdents, Remember, StackInv, TypeOK

LEMMA StepCases ==
    ASSUME StackInv, [Next]_vars
    PROVE  Resolve \/ Open \/ Call \/ (KeptCalls /\ UNCHANGED resolved)
<1>1. CASE UNCHANGED <<stack, resolved>>
    BY <1>1 DEF KeptCalls, SameCall
<1>2. CASE Keep
    BY <1>2, AdvanceKeeps DEF Keep
<1>3. CASE IncludeEnv
    BY <1>3, AdvanceKeeps DEF IncludeEnv
<1>4. CASE Return
    BY <1>4, ReturnKeeps DEF Return
<1>5. CASE \/ DepthExceeded \/ ResolveFails \/ CycleDetected \/ RefRejected \/ TargetMissing
           \/ ReadFails \/ IncludeEnvFails
    BY <1>1, <1>5 DEF DepthExceeded, ResolveFails, CycleDetected, RefRejected, TargetMissing,
                      ReadFails, IncludeEnvFails, Finish, control
<1>6. CASE Write \/ UNCHANGED vars
    BY <1>1, <1>6 DEF Write, control, vars
<1> QED
    BY <1>2, <1>3, <1>4, <1>5, <1>6 DEF Next, Step, Done

LEMMA IdentitiesStay ==
    ASSUME StackInv, [Next]_vars
    PROVE  \A r \in Repo : /\ resolved[r] # NoIdent => resolved'[r] = resolved[r]
                           /\ cloned[r] # NoIdent => cloned'[r] = cloned[r]
<1>1. CASE Resolve
    BY <1>1 DEF Resolve, StackInv, TypeOK
<1>2. CASE Open
    BY <1>2, RememberLearnt DEF Open
<1>3. CASE IncludeEnv
    BY <1>3, RememberLearnt DEF IncludeEnv
<1>4. CASE \/ DepthExceeded \/ ResolveFails \/ CycleDetected \/ RefRejected \/ TargetMissing
           \/ ReadFails \/ IncludeEnvFails
    BY <1>4 DEF DepthExceeded, ResolveFails, CycleDetected, RefRejected, TargetMissing,
                ReadFails, IncludeEnvFails, Finish, control
<1>5. CASE Keep \/ Call \/ Return \/ Write \/ UNCHANGED vars
    BY <1>5 DEF Keep, Call, Return, Write, control, vars
<1> QED
    BY <1>1, <1>2, <1>3, <1>4, <1>5 DEF Next, Step, Done

\* Resolve gives the call on top its key.
LEMMA ResolveTop ==
    ASSUME StackInv, Resolve
    PROVE  LET n == Len(stack)  f == stack'[n] IN
           /\ DOMAIN stack' = DOMAIN stack
           /\ \A i \in DOMAIN stack : i # n => stack'[i] = stack[i]
           /\ Top.phase = "called" /\ f.phase = "keyed"
           /\ f.key = f.src /\ f.src.loc = Top.src.loc
           /\ f.scope = Top.scope /\ f.target = Top.target
           /\ IF NeedsIdent(Top.src)
              THEN f.src.ident \in Ident /\ f.src.ident = resolved'[RepoOf[Top.src.loc]]
              ELSE f.src.ident = Top.src.ident
<1> DEFINE n == Len(stack)
<1>1. TypeOK /\ n \in DOMAIN stack /\ Top \in FrameType /\ Top.src \in Source
    BY TopType DEF StackInv, FrameType
<1>2. Top.phase = "called"
    BY DEF Resolve, Enters
<1>3. PICK src \in Source :
            /\ Keyed(src) /\ src.loc = Top.src.loc
            /\ IF NeedsIdent(Top.src)
               THEN src.ident \in Ident /\ src.ident = resolved'[RepoOf[Top.src.loc]]
               ELSE src.ident = Top.src.ident
    <2>1. CASE NeedsIdent(Top.src)
        <3> DEFINE repo == RepoOf[Top.src.loc]
        <3>1. repo \in Repo
            BY <1>1, <2>1, LocationAssumption DEF NeedsIdent, Source
        <3>2. PICK oid \in IF resolved[repo] = NoIdent THEN Ident ELSE {resolved[repo]} :
                /\ resolved' = [resolved EXCEPT ![repo] = oid]
                /\ Keyed([Top.src EXCEPT !.ident = oid])
            BY <2>1 DEF Resolve
        <3>3. oid \in Ident /\ oid = resolved'[repo]
            BY <1>1, <3>1, <3>2 DEF TypeOK
        <3>4. /\ [Top.src EXCEPT !.ident = oid] \in Source
              /\ [Top.src EXCEPT !.ident = oid].loc = Top.src.loc
              /\ [Top.src EXCEPT !.ident = oid].ident = oid
            BY <1>1, <3>3 DEF Source
        <3> QED
            BY <2>1, <3>2, <3>3, <3>4
    <2>2. CASE ~NeedsIdent(Top.src)
        BY <1>1, <2>2 DEF Resolve
    <2> QED
        BY <2>1, <2>2
<1> DEFINE frame == [Top EXCEPT !.src = src, !.key = src, !.phase = "keyed"]
<1>4. /\ frame \in FrameType /\ frame.phase = "keyed"
      /\ frame.key = src /\ frame.src = src
      /\ frame.scope = Top.scope /\ frame.target = Top.target
    BY <1>1 DEF FrameType, Phases
<1>5. SetTop(frame)
    BY <1>3 DEF Keyed, Key
<1> HIDE DEF frame
<1>6. /\ DOMAIN stack' = DOMAIN stack /\ stack'[n] = frame
      /\ \A i \in DOMAIN stack : i # n => stack'[i] = stack[i]
    BY <1>1, <1>4, <1>5, TopReplaced
<1> HIDE DEF n
<1>7. /\ stack'[n].src = src /\ stack'[n].key = src /\ stack'[n].phase = "keyed"
      /\ stack'[n].scope = Top.scope /\ stack'[n].target = Top.target
    BY <1>4, <1>6
<1> QED
    BY <1>2, <1>3, <1>6, <1>7 DEF n

\* Open reads the file of the call on top.
LEMMA OpenTop ==
    ASSUME StackInv, Open
    PROVE  LET n == Len(stack)  f == stack'[n] IN
           /\ DOMAIN stack' = DOMAIN stack
           /\ \A i \in DOMAIN stack : i # n => stack'[i] = stack[i]
           /\ Top.phase = "keyed" /\ f.phase = "expanding"
           /\ f.key = Top.key /\ f.src.loc = Top.src.loc /\ f.target = Top.target
           /\ f.src.ident \in ReadIdents(Top.src) /\ Remember(Top.src, f.src.ident)
           /\ f.scope = Append(Top.scope, DisplayPath(f.src, f.file))
<1> DEFINE n    == Len(stack)
           file == Found(Top.src.loc, WithDockerfile)
<1>1. TypeOK /\ n \in DOMAIN stack /\ Top \in FrameType /\ Top.src \in Source
    BY TopType DEF StackInv, FrameType
<1>2. Top.phase = "keyed"
    BY DEF Open, Enters
<1>3. file \in Loc
    BY <1>1, LocationAssumption DEF Found, Source
<1>4. PICK ident \in ReadIdents(Top.src) :
        /\ Remember(Top.src, ident)
        /\ SetTop([Top EXCEPT !.src.ident = ident,
                              !.file = file,
                              !.scope = Append(@, DisplayPath([Top.src EXCEPT !.ident = ident], file)),
                              !.chain = Append(@, Top.key),
                              !.pc = 1,
                              !.phase = "expanding"])
    BY DEF Open
<1>5. ident \in Ident \cup {NoIdent}
    <2>1. \A repo \in GitRepo : cloned[repo] \in Ident \cup {NoIdent}
        BY <1>1, LocationAssumption DEF TypeOK
    <2> QED
        BY <1>1, <1>4, <2>1 DEF ReadIdents, Source
<1> DEFINE src   == [Top.src EXCEPT !.ident = ident]
           scope == Append(Top.scope, DisplayPath(src, file))
           chain == Append(Top.chain, Top.key)
           frame == [Top EXCEPT !.src.ident = ident,
                                !.file = file,
                                !.scope = Append(@, DisplayPath(src, file)),
                                !.chain = Append(@, Top.key),
                                !.pc = 1,
                                !.phase = "expanding"]
<1>6. SetTop(frame)
    BY <1>4
<1>7. src \in Source /\ src.loc = Top.src.loc /\ src.ident = ident
    BY <1>1, <1>5 DEF Source
<1>8. DisplayPath(src, file) \in Source
    BY <1>3, <1>7 DEF DisplayPath, Source
<1>9. chain \in Seq(Source) /\ scope \in Seq(Source)
    BY <1>1, <1>8 DEF FrameType
<1>10. /\ frame.key = Top.key /\ frame.file = file /\ frame.phase = "expanding"
       /\ frame.src = src /\ frame.scope = scope /\ frame.target = Top.target
    BY <1>1 DEF FrameType
<1>11. frame = Opened(Top, ident, file, scope, chain)
    BY Zenon DEF Opened
<1> HIDE DEF frame, file, scope, chain, src
<1>12. frame \in FrameType
    BY <1>1, <1>3, <1>5, <1>9, <1>11, FrameOpened
<1>13. /\ DOMAIN stack' = DOMAIN stack /\ stack'[n] = frame
       /\ \A i \in DOMAIN stack : i # n => stack'[i] = stack[i]
    BY <1>1, <1>6, <1>12, TopReplaced
<1> HIDE DEF n
<1>14. /\ stack'[n].key = Top.key /\ stack'[n].file = file /\ stack'[n].phase = "expanding"
       /\ stack'[n].src = src /\ stack'[n].scope = scope /\ stack'[n].target = Top.target
    BY <1>10, <1>13
<1>15. Remember(Top.src, stack'[n].src.ident)
    BY <1>4, <1>7, <1>14 DEF Remember
<1> QED
    BY <1>2, <1>4, <1>7, <1>13, <1>14, <1>15 DEF n, scope

\* Call puts the call of a processor on top.
LEMMA CallTop ==
    ASSUME StackInv, Call
    PROVE  LET n == Len(stack)  f == stack'[n + 1] IN
           /\ DOMAIN stack' = 1..(n + 1)
           /\ \A i \in 1..n : stack'[i] = stack[i] /\ stack[i].phase = "expanding"
           /\ f.phase = "called" /\ f.scope = Top.scope /\ f.target = Instr.target
           /\ f.src = Child(Instr) /\ f.key = f.src
           /\ Text \in Body /\ Instr.op \in CallOps /\ Top.pc \in DOMAIN Text
           /\ Instr.to \in Loc /\ UNCHANGED <<resolved, cloned>>
<1> DEFINE n     == Len(stack)
           child == Child(Instr)
           frame == Frame(child, Instr.op, Instr.target, Alias(child), Top.chain, Top.scope)
<1>1. TypeOK /\ n \in Nat \ {0} /\ n \in DOMAIN stack /\ DOMAIN stack = 1..n /\ Top = stack[n]
    BY TopType DEF StackInv, Top
<1>2. /\ Top.phase = "expanding" /\ Top.pc \in DOMAIN Text /\ Instr.op \in CallOps
      /\ stack' = Append(stack, frame) /\ UNCHANGED <<resolved, cloned>>
    BY DEF Call, AtInstr, Enters
<1>3. Text \in Body
    BY <1>1, <1>2 DEF StackInv, OpenedFile, Expanding, Text
<1>4. Instr.to \in Loc
    BY <1>2, <1>3, WorldAssumption DEF Instr
<1>5. /\ frame.src = child /\ frame.key = child /\ frame.phase = "called"
      /\ frame.scope = Top.scope /\ frame.target = Instr.target
    BY DEF Frame
<1>6. \A i \in 1..n : stack[i].phase = "expanding"
    BY <1>1, <1>2, TopType
<1> HIDE DEF frame, child
<1>7. /\ Len(stack') = n + 1 /\ DOMAIN stack' = 1..(n + 1)
      /\ stack'[n + 1] = frame /\ \A i \in 1..n : stack'[i] = stack[i]
    <2>1. stack \in Seq(FrameType)
        BY <1>1 DEF TypeOK
    <2> QED
        BY <1>1, <1>2, <2>1, AppendProperties, LenProperties
<1> HIDE DEF n
<1> QED
    BY <1>2, <1>3, <1>4, <1>5, <1>6, <1>7 DEF n, child

-----------------------------------------------------------------------------
(***************************************************************************)
(* The chain and the scope of a call.                                      *)
(***************************************************************************)
\* The path call i has put into the scope, and those above it still have there.
PathOf(i) == DisplayPath(stack[i].src, stack[i].file)

ScopeIsFiles ==
    \A i \in DOMAIN stack :
        /\ Len(stack[i].scope) = (IF i \in Expanding THEN i ELSE i - 1)
        /\ \A j \in DOMAIN stack[i].scope : stack[i].scope[j] = PathOf(j)

\* A scope speaks of the calls that are expanding, which are no longer changed.
LEMMA ScopeBelow ==
    ASSUME StackInv, ScopeIsFiles, NEW i \in DOMAIN stack
    PROVE  /\ i \in Nat /\ i <= Len(stack) /\ stack[i].scope \in Seq(Source)
           /\ \A j \in DOMAIN stack[i].scope :
                j \in 1..i /\ j \in DOMAIN stack /\ stack[j].phase = "expanding"
<1>1. /\ Len(stack) \in Nat /\ DOMAIN stack = 1..Len(stack) /\ stack[i] \in FrameType
      /\ \A j \in DOMAIN stack : j # Len(stack) => stack[j].phase = "expanding"
    BY TopType DEF StackInv
<1>2. stack[i].scope \in Seq(Source) /\ i \in Nat
    BY <1>1 DEF FrameType
<1>3. Len(stack[i].scope) = (IF i \in Expanding THEN i ELSE i - 1)
    BY DEF ScopeIsFiles
<1>4. ASSUME NEW j \in DOMAIN stack[i].scope
      PROVE  j \in 1..i /\ j \in DOMAIN stack /\ stack[j].phase = "expanding"
    <2>1. j \in 1..i /\ (j = i => i \in Expanding)
        BY <1>2, <1>3
    <2> QED
        BY <1>1, <2>1 DEF Expanding
<1> QED
    BY <1>1, <1>2, <1>4

LEMMA KeptScope ==
    ASSUME StackInv, ScopeIsFiles, KeptCalls, DOMAIN stack' = 1..Len(stack')
    PROVE  ScopeIsFiles'
<1> SUFFICES ASSUME NEW i \in DOMAIN stack'
             PROVE  /\ Len(stack'[i].scope) = (IF i \in Expanding' THEN i ELSE i - 1)
                    /\ \A j \in DOMAIN stack'[i].scope : stack'[i].scope[j] = PathOf(j)'
    BY DEF ScopeIsFiles
<1>1. i \in DOMAIN stack /\ SameCall(stack'[i], stack[i])
    BY DEF KeptCalls
<1>2. i \in Expanding' <=> i \in Expanding
    BY <1>1 DEF Expanding, SameCall
<1>3. /\ Len(stack'[i].scope) = (IF i \in Expanding THEN i ELSE i - 1)
      /\ \A j \in DOMAIN stack'[i].scope : stack'[i].scope[j] = PathOf(j)
    BY <1>1 DEF ScopeIsFiles, SameCall
<1>4. ASSUME NEW j \in DOMAIN stack'[i].scope PROVE PathOf(j)' = PathOf(j)
    <2>1. j \in 1..i
        BY <1>1, ScopeBelow DEF SameCall
    <2>2. i \in 1..Len(stack') /\ Len(stack') \in Int
        <3>1. i \in Nat
            BY <1>1, ScopeBelow
        <3> QED
            BY <3>1
    <2>3. j \in DOMAIN stack'
        BY <2>1, <2>2
    <2> QED
        BY <2>3 DEF KeptCalls, SameCall, PathOf, DisplayPath
<1> QED
    BY <1>2, <1>3, <1>4

LEMMA ScopeStep == StackInv /\ ScopeIsFiles /\ [Next]_vars => ScopeIsFiles'
<1> SUFFICES ASSUME StackInv, ScopeIsFiles, [Next]_vars PROVE ScopeIsFiles'
    OBVIOUS
<1> PICK n : n = Len(stack)
    OBVIOUS
<1>1. StackInv' /\ TypeOK'
    BY StepStackInv DEF StackInv
<1>2. DOMAIN stack' = 1..Len(stack')
    BY <1>1 DEF TypeOK
<1>3. n \in Nat \ {0} /\ DOMAIN stack = 1..n /\ n \in DOMAIN stack /\ Top = stack[n]
    BY TopType DEF StackInv, Top
<1>4. CASE Resolve
    <2>1. /\ DOMAIN stack' = 1..n
          /\ \A i \in 1..n : i # n => stack'[i] = stack[i]
          /\ stack[n].phase = "called" /\ stack'[n].phase = "keyed"
          /\ stack'[n].scope = stack[n].scope
        BY <1>3, <1>4, ResolveTop
    <2>2. Expanding' = Expanding
        BY <1>3, <2>1 DEF Expanding
    <2>3. \A i \in 1..n : stack'[i].scope = stack[i].scope
        BY <2>1
    <2>4. ASSUME NEW i \in 1..n, NEW j \in DOMAIN stack[i].scope
          PROVE  PathOf(j)' = PathOf(j)
        <3>1. j \in 1..n /\ j # n
            BY <1>3, <2>1, ScopeBelow
        <3> QED
            BY <2>1, <3>1 DEF PathOf, DisplayPath
    <2>5. ASSUME NEW i \in 1..n
          PROVE  /\ Len(stack'[i].scope) = (IF i \in Expanding' THEN i ELSE i - 1)
                 /\ \A j \in DOMAIN stack'[i].scope : stack'[i].scope[j] = PathOf(j)'
        BY <1>3, <2>2, <2>3, <2>4 DEF ScopeIsFiles
    <2> QED
        BY <2>1, <2>5 DEF ScopeIsFiles
<1>5. CASE Open
    <2>1. /\ DOMAIN stack' = 1..n
          /\ \A i \in 1..n : i # n => stack'[i] = stack[i]
          /\ stack[n].phase = "keyed" /\ stack'[n].phase = "expanding"
          /\ stack'[n].scope = Append(stack[n].scope, DisplayPath(stack'[n].src, stack'[n].file))
        BY <1>3, <1>5, OpenTop
    <2>2. stack'[n].src \in Source /\ stack'[n].file \in Loc
        <3>1. stack' \in Seq(FrameType) /\ n \in DOMAIN stack'
            BY <1>1, <1>3, <2>1 DEF TypeOK
        <3>2. stack'[n] \in FrameType
            BY <3>1
        <3> QED
            BY <3>2 DEF FrameType
    <2>3. \A i \in 1..n : i # n => (i \in Expanding' <=> i \in Expanding)
        BY <1>3, <2>1 DEF Expanding
    <2>4. n \in Expanding' /\ n \notin Expanding
        BY <1>3, <2>1 DEF Expanding
    <2>5. ASSUME NEW i \in 1..n, NEW j \in DOMAIN stack[i].scope
          PROVE  j \in 1..n /\ j # n /\ PathOf(j)' = PathOf(j)
        <3>1. j \in 1..n /\ j # n
            BY <1>3, <2>1, ScopeBelow
        <3> QED
            BY <2>1, <3>1 DEF PathOf, DisplayPath
    <2>6. ASSUME NEW i \in 1..n, i # n
          PROVE  /\ Len(stack'[i].scope) = (IF i \in Expanding' THEN i ELSE i - 1)
                 /\ \A j \in DOMAIN stack'[i].scope : stack'[i].scope[j] = PathOf(j)'
        BY <1>3, <2>1, <2>3, <2>5, <2>6 DEF ScopeIsFiles
    <2>7. /\ Len(stack[n].scope) = n - 1 /\ stack[n].scope \in Seq(Source)
          /\ \A j \in DOMAIN stack[n].scope : stack[n].scope[j] = PathOf(j)'
        BY <1>3, <2>4, <2>5, ScopeBelow DEF ScopeIsFiles
    <2>8. /\ Len(stack'[n].scope) = n
          /\ \A j \in DOMAIN stack'[n].scope : stack'[n].scope[j] = PathOf(j)'
        <3> DEFINE path == DisplayPath(stack'[n].src, stack'[n].file)
        <3>1. path \in Source /\ path = PathOf(n)'
            BY <2>2 DEF DisplayPath, Source, PathOf
        <3> HIDE DEF path
        <3>2. stack'[n].scope = Append(stack[n].scope, path)
            BY <2>1 DEF path
        <3>3. /\ Len(stack'[n].scope) = n /\ stack'[n].scope[n] = path
              /\ DOMAIN stack'[n].scope = 1..n
              /\ \A j \in 1..(n - 1) : stack'[n].scope[j] = stack[n].scope[j]
            BY <1>3, <2>7, <3>1, <3>2, AppendProperties
        <3>4. DOMAIN stack[n].scope = 1..(n - 1)
            BY <2>7
        <3>5. \A j \in 1..n : j = n \/ j \in 1..(n - 1)
            BY <1>3
        <3> QED
            BY <2>7, <3>1, <3>3, <3>4, <3>5
    <2> QED
        BY <2>1, <2>4, <2>6, <2>8 DEF ScopeIsFiles
<1>6. CASE Call
    <2>1. /\ DOMAIN stack' = 1..(n + 1)
          /\ \A i \in 1..n : stack'[i] = stack[i] /\ stack[i].phase = "expanding"
          /\ stack'[n + 1].phase = "called" /\ stack'[n + 1].scope = stack[n].scope
        BY <1>3, <1>6, CallTop
    <2>2. Expanding' = 1..n /\ Expanding = 1..n
        BY <1>3, <2>1 DEF Expanding
    <2>3. ASSUME NEW i \in 1..n, NEW j \in DOMAIN stack[i].scope
          PROVE  PathOf(j)' = PathOf(j)
        <3>1. j \in 1..n
            BY <1>3, ScopeBelow
        <3> QED
            BY <2>1, <3>1 DEF PathOf, DisplayPath
    <2>4. \A i \in 1..n : /\ Len(stack[i].scope) = i
                          /\ \A j \in DOMAIN stack[i].scope : stack[i].scope[j] = PathOf(j)'
        BY <1>3, <2>2, <2>3 DEF ScopeIsFiles
    <2>5. ASSUME NEW i \in 1..(n + 1)
          PROVE  /\ Len(stack'[i].scope) = (IF i \in Expanding' THEN i ELSE i - 1)
                 /\ \A j \in DOMAIN stack'[i].scope : stack'[i].scope[j] = PathOf(j)'
        <3>1. CASE i = n + 1
            BY <1>3, <2>1, <2>2, <2>4, <3>1
        <3>2. CASE i # n + 1
            <4>1. i \in 1..n
                BY <1>3, <3>2
            <4> QED
                BY <2>1, <2>2, <2>4, <4>1
        <3> QED
            BY <3>1, <3>2
    <2> QED
        BY <2>1, <2>5 DEF ScopeIsFiles
<1>7. CASE KeptCalls
    BY <1>2, <1>7, KeptScope
<1> QED
    BY <1>4, <1>5, <1>6, <1>7, StepCases

LEMMA ContextKnown == StackInv /\ ScopeIsFiles => ContextIsStack
<1> SUFFICES ASSUME StackInv, ScopeIsFiles, NEW i \in DOMAIN stack
             PROVE  LET open == IF i \in Expanding THEN i ELSE i - 1 IN
                    /\ stack[i].chain = [j \in 1..open |-> stack[j].key]
                    /\ stack[i].scope = [j \in 1..open |-> DisplayPath(stack[j].src, stack[j].file)]
    BY DEF ContextIsStack
<1> DEFINE open == IF i \in Expanding THEN i ELSE i - 1
<1>1. stack[i].chain \in Seq(Source) /\ stack[i].scope \in Seq(Source)
    BY TopType DEF StackInv, FrameType
<1>2. /\ Len(stack[i].chain) = open /\ Len(stack[i].scope) = open
      /\ \A j \in DOMAIN stack[i].chain : stack[i].chain[j] = stack[j].key
      /\ \A j \in DOMAIN stack[i].scope :
            stack[i].scope[j] = DisplayPath(stack[j].src, stack[j].file)
    BY DEF StackInv, ChainIsKeys, ScopeIsFiles, PathOf
<1> HIDE DEF open
<1>3. /\ stack[i].chain = [j \in 1..open |-> stack[i].chain[j]]
      /\ stack[i].scope = [j \in 1..open |-> stack[i].scope[j]]
      /\ DOMAIN stack[i].chain = 1..open /\ DOMAIN stack[i].scope = 1..open
    BY <1>1, <1>2, LenProperties
<1> QED
    BY <1>2, <1>3 DEF open

\* The includeChain and the scope of a call of loadDockerfile are those of the
\* calls it is nested in, and of no other.
THEOREM ContextMatchesStack == Spec => []ContextIsStack
<1>1. Init => ScopeIsFiles
    <2> SUFFICES ASSUME Init PROVE ScopeIsFiles
        OBVIOUS
    <2>1. DOMAIN stack = {1} /\ stack[1].scope = <<>> /\ stack[1].phase = "called"
        BY DEF Init, Frame
    <2>2. Len(stack[1].scope) = 0 /\ DOMAIN stack[1].scope = {} /\ 1 \notin Expanding
        BY <2>1 DEF Expanding
    <2> QED
        BY <2>1, <2>2 DEF ScopeIsFiles
<1>2. StackInv /\ ScopeIsFiles /\ [Next]_vars => ScopeIsFiles'
    BY ScopeStep
<1> QED
    BY <1>1, <1>2, StackInvariant, ContextKnown, PTL DEF Spec

-----------------------------------------------------------------------------
(***************************************************************************)
(* The identities of moving references.                                    *)
(***************************************************************************)
\* What is known of a moving reference stays known: IdentityKnown alone would not
\* be inductive, for NoIdent is "known" until the reference is resolved.
Learned(repo) ==
    IF repo = NoRepo THEN {NoIdent}
    ELSE ({resolved[repo]} \cup IF repo \in GitRepo THEN {cloned[repo]} ELSE {}) \ {NoIdent}

\* Of a call f, when the identities in known are those of its location.
Identified(f, known) ==
    /\ f.phase = "called" => f.src.ident \in {NoIdent} \cup known
    /\ f.phase # "called" => f.key.ident \in known
    /\ f.phase = "keyed" => f.src.ident = f.key.ident
    /\ f.phase = "expanding" => f.src.ident \in known

CallIdentified(i) == Identified(stack[i], Learned(RepoOf[stack[i].key.loc]))

CallsIdentified == \A i \in DOMAIN stack : CallIdentified(i)

LEMMA ThenIdentified ==
    ASSUME NEW CONSTANT i, NEW CONSTANT repo,
           RepoOf[stack'[i].key.loc] = repo, Identified(stack'[i], Learned(repo)')
    PROVE  CallIdentified(i)'
BY DEF CallIdentified, Learned

LEMMA LearnedStays ==
    ASSUME StackInv, [Next]_vars, NEW repo \in Repo \cup {NoRepo}
    PROVE  Learned(repo) \subseteq Learned(repo)'
<1>1. CASE repo = NoRepo
    BY <1>1 DEF Learned
<1>2. CASE repo # NoRepo
    <2>1. /\ resolved[repo] # NoIdent => resolved'[repo] = resolved[repo]
          /\ cloned[repo] # NoIdent => cloned'[repo] = cloned[repo]
        BY <1>2, IdentitiesStay
    <2> QED
        BY <1>2, <2>1 DEF Learned
<1> QED
    BY <1>1, <1>2

LEMMA RepoOfCall ==
    ASSUME StackInv, NEW i \in DOMAIN stack
    PROVE  /\ stack[i].key.loc \in Loc /\ stack[i].src.loc = stack[i].key.loc
           /\ RepoOf[stack[i].key.loc] \in Repo \cup {NoRepo}
<1>1. stack[i].key \in Source
    BY TopType DEF StackInv, FrameType
<1> QED
    BY <1>1, LocationAssumption DEF Source, StackInv, SameLocation

\* A call that a step leaves alone.
LEMMA StillIdentified ==
    ASSUME StackInv, CallsIdentified, [Next]_vars,
           NEW i \in DOMAIN stack, SameCall(stack'[i], stack[i])
    PROVE  CallIdentified(i)'
<1> DEFINE repo == RepoOf[stack[i].key.loc]
<1>1. repo \in Repo \cup {NoRepo}
    BY RepoOfCall
<1>2. PICK r \in Repo \cup {NoRepo} : r = repo
    BY <1>1
<1>3. Learned(r) \subseteq Learned(r)'
    BY LearnedStays
<1>4. Identified(stack[i], Learned(r))
    BY <1>2 DEF CallsIdentified, CallIdentified
<1>5. Identified(stack'[i], Learned(r)')
    BY <1>3, <1>4 DEF Identified, SameCall
<1>6. RepoOf[stack'[i].key.loc] = r
    BY <1>2 DEF SameCall
<1> QED
    BY <1>5, <1>6, ThenIdentified

\* resolveSource: what a relative reference inherits is known of its own
\* repository, which is that of the file it is in.
LEMMA ChildIdentified ==
    ASSUME StackInv, CallsIdentified, Call
    PROVE  Child(Instr).ident \in {NoIdent} \cup Learned(RepoOf[Child(Instr).loc])
<1>1. /\ Text \in Body /\ Instr.op \in CallOps /\ Top.pc \in DOMAIN Text
      /\ Top.phase = "expanding"
    BY CallTop DEF Call, AtInstr, Enters
<1>2. CASE ~Instr.rel
    BY <1>2 DEF Child
<1>3. CASE Instr.rel
    <2> PICK n : n = Len(stack)
        OBVIOUS
    <2>1. n \in DOMAIN stack /\ Top = stack[n] /\ n \in Expanding
        BY <1>1, TopType DEF StackInv, Top, Expanding
    <2>2. Top.src.ident \in Learned(RepoOf[Top.key.loc])
        BY <1>1, <2>1 DEF CallsIdentified, CallIdentified, Identified
    <2>3. Top.file = Found(Top.key.loc, WithDockerfile) /\ Top.key.loc \in Loc
        BY <2>1, RepoOfCall DEF StackInv, OpenedFile
    <2>4. Top.file \in Loc /\ RepoOf[Top.file] = RepoOf[Top.key.loc]
        BY <2>3, LocationAssumption DEF Found
    <2>5. RepoOf[Instr.to] = RepoOf[Top.file]
        BY <1>1, <1>3, <2>4, SiblingAssumption DEF StackInv, Text, Instr
    <2>6. Child(Instr).ident = Top.src.ident /\ Child(Instr).loc = Instr.to
        BY <1>3 DEF Child
    <2> QED
        BY <2>2, <2>4, <2>5, <2>6
<1> QED
    BY <1>2, <1>3

LEMMA IdentifiedStep == StackInv /\ CallsIdentified /\ [Next]_vars => CallsIdentified'
<1> SUFFICES ASSUME StackInv, CallsIdentified, [Next]_vars PROVE CallsIdentified'
    OBVIOUS
<1> PICK n : n = Len(stack)
    OBVIOUS
<1>1. n \in Nat \ {0} /\ DOMAIN stack = 1..n /\ n \in DOMAIN stack /\ Top = stack[n]
    BY TopType DEF StackInv, Top
<1>2. stack[n].key.loc \in Loc /\ stack[n].src.loc = stack[n].key.loc
    BY <1>1, RepoOfCall
<1>3. PICK repo \in Repo \cup {NoRepo} : repo = RepoOf[stack[n].key.loc]
    BY <1>1, RepoOfCall
<1>4. Identified(stack[n], Learned(repo)) /\ Learned(repo) \subseteq Learned(repo)'
    BY <1>1, <1>3, LearnedStays DEF CallsIdentified, CallIdentified
<1>5. NoRepo \notin GitRepo /\ NoRepo \notin Repo
    BY LocationAssumption
<1>6. CASE Resolve
    <2> DEFINE f == stack'[n]
    <2>1. /\ DOMAIN stack' = 1..n
          /\ \A i \in 1..n : i # n => stack'[i] = stack[i]
          /\ stack[n].phase = "called" /\ f.phase = "keyed"
          /\ f.key = f.src /\ f.src.loc = stack[n].src.loc
          /\ IF NeedsIdent(stack[n].src)
             THEN f.src.ident \in Ident /\ f.src.ident = resolved'[RepoOf[stack[n].src.loc]]
             ELSE f.src.ident = stack[n].src.ident
        BY <1>1, <1>6, ResolveTop
    <2> HIDE DEF f
    <2>2. RepoOf[f.key.loc] = repo /\ RepoOf[stack[n].src.loc] = repo
        BY <1>2, <1>3, <2>1
    <2>3. f.src.ident \in Learned(repo)'
        <3>1. CASE NeedsIdent(stack[n].src)
            BY <2>1, <2>2, <3>1, LocationAssumption DEF NeedsIdent, Learned
        <3>2. CASE ~NeedsIdent(stack[n].src)
            BY <1>4, <2>1, <2>2, <3>2 DEF NeedsIdent, Identified, Learned
        <3> QED
            BY <3>1, <3>2
    <2>4. Identified(f, Learned(repo)')
        BY <2>1, <2>3 DEF Identified
    <2>5. CallIdentified(n)'
        BY <2>2, <2>4, ThenIdentified DEF f
    <2>6. \A i \in 1..n : i # n => CallIdentified(i)'
        BY <1>1, <2>1, StillIdentified DEF SameCall
    <2> QED
        BY <2>1, <2>5, <2>6 DEF CallsIdentified
<1>7. CASE Open
    <2> DEFINE f == stack'[n]
    <2>1. /\ DOMAIN stack' = 1..n
          /\ \A i \in 1..n : i # n => stack'[i] = stack[i]
          /\ stack[n].phase = "keyed" /\ f.phase = "expanding"
          /\ f.key = stack[n].key
          /\ f.src.ident \in ReadIdents(stack[n].src) /\ Remember(stack[n].src, f.src.ident)
        BY <1>1, <1>7, OpenTop
    <2> HIDE DEF f
    <2>2. RepoOf[f.key.loc] = repo /\ RepoOf[stack[n].src.loc] = repo
        BY <1>2, <1>3, <2>1
    <2>3. f.src.ident \in Learned(repo)'
        <3>1. CASE repo \in GitRepo
            <4>1. cloned' = [cloned EXCEPT ![repo] = f.src.ident] /\ repo \in DOMAIN cloned
                BY <2>1, <2>2, <3>1, LocationAssumption DEF Remember, StackInv, TypeOK
            <4>2. f.src.ident # NoIdent
                BY <2>1, <2>2, <3>1, LocationAssumption DEF ReadIdents
            <4> QED
                BY <1>5, <3>1, <4>1, <4>2 DEF Learned
        <3>2. CASE repo \notin GitRepo
            <4>1. f.src.ident = stack[n].key.ident
                BY <1>4, <2>1, <2>2, <3>2 DEF ReadIdents, Identified
            <4> QED
                BY <1>4, <2>1, <4>1 DEF Identified
        <3> QED
            BY <3>1, <3>2
    <2>4. Identified(f, Learned(repo)')
        BY <1>4, <2>1, <2>3 DEF Identified
    <2>5. CallIdentified(n)'
        BY <2>2, <2>4, ThenIdentified DEF f
    <2>6. \A i \in 1..n : i # n => CallIdentified(i)'
        BY <1>1, <2>1, StillIdentified DEF SameCall
    <2> QED
        BY <2>1, <2>5, <2>6 DEF CallsIdentified
<1>8. CASE Call
    <2> PICK child : child = Child(Instr)
        OBVIOUS
    <2>1. /\ DOMAIN stack' = 1..(n + 1)
          /\ \A i \in 1..n : stack'[i] = stack[i]
          /\ stack'[n + 1].phase = "called"
          /\ stack'[n + 1].src = child /\ stack'[n + 1].key = child
          /\ UNCHANGED <<resolved, cloned>>
        BY <1>1, <1>8, CallTop
    <2>2. child.ident \in {NoIdent} \cup Learned(RepoOf[child.loc])
        BY <1>8, ChildIdentified
    <2>3. Learned(RepoOf[child.loc])' = Learned(RepoOf[child.loc])
        BY <2>1 DEF Learned
    <2>4. CallIdentified(n + 1)'
        <3> PICK its : its = RepoOf[child.loc]
            OBVIOUS
        <3>1. Identified(stack'[n + 1], Learned(its)')
            BY <2>1, <2>2, <2>3 DEF Identified
        <3>2. RepoOf[stack'[n + 1].key.loc] = its
            BY <2>1
        <3> QED
            BY <3>1, <3>2, ThenIdentified
    <2>5. \A i \in 1..n : CallIdentified(i)'
        BY <1>1, <2>1, StillIdentified DEF SameCall
    <2>6. \A i \in 1..(n + 1) : i = n + 1 \/ i \in 1..n
        BY <1>1
    <2> QED
        BY <2>1, <2>4, <2>5, <2>6 DEF CallsIdentified
<1>9. CASE KeptCalls
    <2>1. \A i \in DOMAIN stack' : CallIdentified(i)'
        BY <1>9, StillIdentified DEF KeptCalls
    <2> QED
        BY <2>1 DEF CallsIdentified
<1> QED
    BY <1>6, <1>7, <1>8, <1>9, StepCases

LEMMA IdentifiedKnown == StackInv /\ CallsIdentified => IdentityKnown
<1> SUFFICES ASSUME StackInv, CallsIdentified, NEW i \in Expanding
             PROVE  /\ stack[i].key.ident \in KnownIdents(stack[i].key.loc)
                    /\ stack[i].src.ident \in KnownIdents(stack[i].key.loc)
    BY DEF IdentityKnown
<1>1. i \in DOMAIN stack /\ stack[i].phase = "expanding"
    BY DEF Expanding
<1>2. Identified(stack[i], Learned(RepoOf[stack[i].key.loc]))
    BY <1>1 DEF CallsIdentified, CallIdentified
<1> QED
    BY <1>1, <1>2 DEF Identified, Learned, KnownIdents

\* The inductive invariant: each call, at each stage of its life, has an identity
\* that resolve() or read() has told and the process remembers.
THEOREM IdentifiedInvariant == Spec => []CallsIdentified
<1>1. Init => CallsIdentified
    <2> SUFFICES ASSUME Init PROVE CallsIdentified
        OBVIOUS
    <2>1. DOMAIN stack = {1} /\ stack[1].phase = "called" /\ stack[1].src.ident = NoIdent
        BY DEF Init, Frame, LocalSrc
    <2> QED
        BY <2>1 DEF CallsIdentified, CallIdentified, Identified
<1>2. StackInv /\ CallsIdentified /\ [Next]_vars => CallsIdentified'
    BY IdentifiedStep
<1> QED
    BY <1>1, <1>2, StackInvariant, PTL DEF Spec

\* refResolveCache and repoCache: of a moving reference a run uses no identity
\* but the one it resolved and, for git, the one of its clone.
THEOREM IdentitiesKnown == Spec => []IdentityKnown
<1> QED
    BY IdentifiedInvariant, StackInvariant, IdentifiedKnown, PTL

-----------------------------------------------------------------------------
(***************************************************************************)
(* The laps: the open files of one location differ in their identities, of *)
(* which there are one or two.                                             *)
(***************************************************************************)
LEMMA FewIdents ==
    ASSUME NEW l \in Loc
    PROVE  /\ IsFiniteSet(KnownIdents(l))
           /\ Cardinality(KnownIdents(l)) \in Nat
           /\ Cardinality(KnownIdents(l)) <= IF RepoOf[l] \in GitRepo THEN 2 ELSE 1
<1>1. ASSUME NEW x PROVE IsFiniteSet({x}) /\ Cardinality({x}) = 1
    BY FS_Singleton
<1>2. ASSUME NEW x, NEW y
      PROVE  IsFiniteSet({x} \cup {y}) /\ Cardinality({x} \cup {y}) \in {1, 2}
    <2>1. IsFiniteSet({x} \cup {y})
        BY <1>1, FS_AddElement
    <2>2. Cardinality({x} \cup {y}) = IF y \in {x} THEN Cardinality({x}) ELSE Cardinality({x}) + 1
        BY <1>1, FS_AddElement
    <2>3. Cardinality({x}) = 1
        BY <1>1
    <2> QED
        BY <2>1, <2>2, <2>3
<1>3. CASE RepoOf[l] \in GitRepo
    <2>1. PICK x, y : KnownIdents(l) = {x} \cup {y}
        BY <1>3, LocationAssumption DEF KnownIdents
    <2>2. IsFiniteSet(KnownIdents(l)) /\ Cardinality(KnownIdents(l)) \in {1, 2}
        BY <1>2, <2>1
    <2> HIDE DEF KnownIdents
    <2> QED
        BY <1>3, <2>2
<1>4. CASE RepoOf[l] \notin GitRepo
    <2>1. PICK x : KnownIdents(l) = {x}
        BY <1>4 DEF KnownIdents
    <2>2. IsFiniteSet(KnownIdents(l)) /\ Cardinality(KnownIdents(l)) = 1
        BY <1>1, <2>1
    <2> QED
        BY <1>4, <2>2
<1> QED
    BY <1>3, <1>4

LEMMA LapsFew == StackInv /\ IdentityKnown => LapsBounded
<1> SUFFICES ASSUME StackInv, IdentityKnown, NEW l \in Loc
             PROVE  Cardinality({i \in Expanding : stack[i].key.loc = l})
                        <= IF RepoOf[l] \in GitRepo THEN 2 ELSE 1
    BY DEF LapsBounded
<1> DEFINE laps == {i \in Expanding : stack[i].key.loc = l}
           identOf == [i \in laps |-> stack[i].key.ident]
<1>1. \A i \in laps : /\ stack[i].key \in Source /\ stack[i].key.loc = l
                      /\ stack[i].key.ident \in KnownIdents(l)
    BY TopType DEF StackInv, Expanding, FrameType, IdentityKnown
<1>2. ASSUME NEW i \in laps, NEW j \in laps, identOf[i] = identOf[j]
      PROVE  i = j
    <2>1. stack[i].key = stack[j].key
        BY <1>1, <1>2 DEF Source
    <2> QED
        BY <2>1 DEF StackInv, OpenOnce
<1>3. identOf \in [laps -> KnownIdents(l)]
    BY <1>1
<1> HIDE DEF laps, identOf
<1>4. identOf \in Injection(laps, KnownIdents(l))
    BY <1>2, <1>3 DEF Injection, IsInjective
<1>5. IsFiniteSet(laps) /\ Cardinality(laps) <= Cardinality(KnownIdents(l))
    BY <1>4, FewIdents, FS_Injection
<1>6. Cardinality(laps) \in Nat
    BY <1>5, FS_CardinalityType
<1> QED
    BY <1>5, <1>6, FewIdents DEF laps

\* So a loop through references that move is caught: of one location at most two
\* files are open in each other, and at most one if no git ref is involved.
THEOREM LapsStayBounded == Spec => []LapsBounded
<1> QED
    BY IdentitiesKnown, StackInvariant, LapsFew, PTL

-----------------------------------------------------------------------------
(***************************************************************************)
(* What is in the text a call has put together.  An instruction that has   *)
(* been processed has its line in it; one that imports a file has the ARGs *)
(* that file declares before its first stage, below the mark of the import *)
(* and with no stage in between.  Files all of whose instructions are in a *)
(* text, and that lead to no others, are gathered in it.                   *)
(***************************************************************************)
Imported(arg, t) == \E s, k : Together(t, s, k) /\ OpensImport(t[s]) /\ t[k] = arg

Leads(arg, t) == \E k : OnTop(t, k) /\ t[k] = arg

Written(instr, t) ==
    /\ instr.op \in Lasting => \E k : Together(t, k, k) /\ Becomes(instr, t[k])
    /\ instr.op \in {"IMPORT", "COPYFILE"} =>
            \A arg \in GlobalArgs(TextOf(instr.to)) : Imported(arg, t)

Covered(instr, files, t) ==
    Written(instr, t) /\ (instr.op \in CallOps => instr.to \in files)

Gathered(files, t) ==
    \A l \in files : /\ TextOf(l) \in Body
                     /\ \A i \in DOMAIN TextOf(l) : Covered(TextOf(l)[i], files, t)

\* The ARGs a file declares before its first stage lead its text, so long as no
\* stage has been put above them.
IsGlobal(text, j) ==
    /\ text[j].op = "ARG"
    /\ \A k \in DOMAIN text : text[k].op # "COPYFILE"
    /\ \A k \in 1..j : text[k].op \notin {"FROM", "IMPORT", "INCLUDE"}

StageOps == {"FROM", "IMPORT", "INCLUDE", "COPYFILE"}

NoStageIn(t) == \A j \in DOMAIN t : ~IsFrom(t[j])

Leading(text, pc, t) ==
    /\ \A j \in 1..(pc - 1) : IsGlobal(text, j) => Leads(text[j], t)
    /\ (\A k \in 1..(pc - 1) : text[k].op \notin StageOps) => NoStageIn(t)

\* The instructions of text before pc have been expanded to t.
Expanded(text, pc, t) ==
    /\ \E files \in SUBSET Loc :
            /\ Gathered(files, t)
            /\ \A j \in 1..(pc - 1) : Covered(text[j], files, t)
    /\ Leading(text, pc, t)

TextOfCall(f, t) ==
    /\ IsText(t)
    /\ IF f.phase = "expanding" THEN Expanded(world[f.file], f.pc, t) ELSE t = <<>>

\* Each call has its text, and the command writes what the first one has gathered.
TextInv ==
    /\ IsText(lines) /\ Len(lines) = Len(stack)
    /\ \A i \in DOMAIN stack : TextOfCall(stack[i], lines[i])
    /\ NothingSkipped /\ ImportedArgsStayGlobal

-----------------------------------------------------------------------------
\* The line an instruction becomes, case by case.
LEMMA BecomesLine ==
    ASSUME NEW instr, NEW line
    PROVE  /\ instr.op \in {"RUN", "ARG"} => (Becomes(instr, line) <=> line = instr)
           /\ instr.op \in {"COPY", "MOUNT"} =>
                (Becomes(instr, line) <=> (line.op = instr.op /\ line.raw = instr.raw))
           /\ instr.op = "COPYFILE" =>
                (Becomes(instr, line) <=> (line.op = "COPY" /\ line.raw = instr.raw))
           /\ instr.op \in EnvOps =>
                (Becomes(instr, line) <=> line = EnvLine(instr, EnvFile(instr)))
<1>1. CASE instr.op \in {"RUN", "ARG"}
    BY <1>1, Zenon DEF Becomes, EnvOps
<1>2. CASE instr.op \in {"COPY", "MOUNT"}
    BY <1>2 DEF Becomes, EnvOps
<1>3. CASE instr.op = "COPYFILE"
    BY <1>3 DEF Becomes, EnvOps
<1>4. CASE instr.op \in EnvOps
    BY <1>4 DEF Becomes, EnvOps
<1> QED
    BY <1>1, <1>2, <1>3, <1>4

\* A text keeps what it had of an instruction when its lines stay together.
LEMMA BecomesStays ==
    ASSUME NEW instr, instr.op \in Lasting, NEW a, NEW b, Becomes(instr, a), SameLine(a, b)
    PROVE  Becomes(instr, b)
<1>1. CASE instr.op \in {"RUN", "ARG"}
    <2>1. a = instr
        BY <1>1, BecomesLine
    <2>2. b = instr
        BY <1>1, <2>1 DEF SameLine
    <2> QED
        BY <1>1, <2>2, BecomesLine
<1>2. CASE instr.op \in {"COPY", "MOUNT"}
    <2>1. a.op = instr.op /\ a.raw = instr.raw
        BY <1>2, BecomesLine
    <2>2. b.op = instr.op /\ b.raw = instr.raw
        BY <1>2, <2>1 DEF SameLine
    <2> QED
        BY <1>2, <2>2, BecomesLine
<1>3. CASE instr.op = "COPYFILE"
    <2>1. a.op = "COPY" /\ a.raw = instr.raw
        BY <1>3, BecomesLine
    <2>2. b.op = "COPY" /\ b.raw = instr.raw
        BY <2>1 DEF SameLine
    <2> QED
        BY <1>3, <2>2, BecomesLine
<1>4. CASE instr.op \in EnvOps
    <2>1. a = EnvLine(instr, EnvFile(instr))
        BY <1>4, BecomesLine
    <2>2. a.op \in {"ARG", "RUN"}
        BY <2>1 DEF EnvLine
    <2>3. b = EnvLine(instr, EnvFile(instr))
        BY <2>1, <2>2 DEF SameLine
    <2> QED
        BY <1>4, <2>3, BecomesLine
<1> QED
    BY <1>1, <1>2, <1>3, <1>4 DEF Lasting

LEMMA ImportedStays ==
    ASSUME NEW arg, arg.op = "ARG", NEW t, NEW u, Imported(arg, t), StaysTogether(t, u)
    PROVE  Imported(arg, u)
<1>1. PICK s, k : Together(t, s, k) /\ OpensImport(t[s]) /\ t[k] = arg
    BY DEF Imported
<1>2. PICK s1, k1 : Together(u, s1, k1) /\ SameLine(t[s], u[s1]) /\ SameLine(t[k], u[k1])
    BY <1>1 DEF StaysTogether
<1>3. u[s1] = t[s] /\ u[k1] = arg
    BY <1>1, <1>2 DEF SameLine, OpensImport
<1> QED
    BY <1>1, <1>2, <1>3 DEF Imported

LEMMA LeadsStays ==
    ASSUME NEW arg, arg.op = "ARG", NEW t, NEW u, Leads(arg, t), StaysOnTop(t, u)
    PROVE  Leads(arg, u)
<1>1. PICK k : OnTop(t, k) /\ t[k] = arg
    BY DEF Leads
<1>2. PICK k1 : OnTop(u, k1) /\ SameLine(t[k], u[k1])
    BY <1>1 DEF StaysOnTop
<1>3. u[k1] = arg
    BY <1>1, <1>2 DEF SameLine
<1> QED
    BY <1>2, <1>3 DEF Leads

LEMMA ArgsAreArgs ==
    ASSUME NEW text, NEW arg \in GlobalArgs(text)
    PROVE  arg.op = "ARG" /\ \E j \in DOMAIN text : arg = text[j] /\ IsGlobal(text, j)
BY DEF GlobalArgs, IsGlobal

LEMMA WrittenStays ==
    ASSUME NEW instr, NEW t, NEW u, IsText(u), Written(instr, t), StaysTogether(t, u)
    PROVE  Written(instr, u)
<1>1. ASSUME instr.op \in Lasting
      PROVE  \E k : Together(u, k, k) /\ Becomes(instr, u[k])
    <2>1. PICK k : Together(t, k, k) /\ Becomes(instr, t[k])
        BY <1>1 DEF Written
    <2>2. PICK s1, k1 : Together(u, s1, k1) /\ SameLine(t[k], u[k1])
        BY <2>1 DEF StaysTogether
    <2>3. Together(u, k1, k1)
        BY <2>2, TogetherEnd
    <2>4. Becomes(instr, u[k1])
        BY <1>1, <2>1, <2>2, BecomesStays
    <2> QED
        BY <2>3, <2>4
<1>2. ASSUME instr.op \in {"IMPORT", "COPYFILE"}, NEW arg \in GlobalArgs(TextOf(instr.to))
      PROVE  Imported(arg, u)
    <2>1. arg.op = "ARG" /\ Imported(arg, t)
        BY <1>2, ArgsAreArgs DEF Written
    <2> QED
        BY <2>1, ImportedStays
<1> QED
    BY <1>1, <1>2 DEF Written

LEMMA CoveredStays ==
    ASSUME NEW instr, NEW files, NEW more, NEW t, NEW u, IsText(u),
           Covered(instr, files, t), StaysTogether(t, u), files \subseteq more
    PROVE  Covered(instr, more, u)
BY WrittenStays DEF Covered

LEMMA GatheredStays ==
    ASSUME NEW files, NEW t, NEW u, IsText(u), Gathered(files, t), StaysTogether(t, u)
    PROVE  Gathered(files, u)
<1> SUFFICES ASSUME NEW l \in files
             PROVE  /\ TextOf(l) \in Body
                    /\ \A i \in DOMAIN TextOf(l) : Covered(TextOf(l)[i], files, u)
    BY DEF Gathered
<1>1. TextOf(l) \in Body /\ \A i \in DOMAIN TextOf(l) : Covered(TextOf(l)[i], files, t)
    BY DEF Gathered
<1> QED
    BY <1>1, CoveredStays

LEMMA GatheredBoth ==
    ASSUME NEW files, NEW more, NEW t, Gathered(files, t), Gathered(more, t)
    PROVE  Gathered(files \cup more, t)
<1> SUFFICES ASSUME NEW l \in files \cup more
             PROVE  /\ TextOf(l) \in Body
                    /\ \A i \in DOMAIN TextOf(l) : Covered(TextOf(l)[i], files \cup more, t)
    BY DEF Gathered
<1>1. \/ TextOf(l) \in Body /\ \A i \in DOMAIN TextOf(l) : Covered(TextOf(l)[i], files, t)
      \/ TextOf(l) \in Body /\ \A i \in DOMAIN TextOf(l) : Covered(TextOf(l)[i], more, t)
    BY DEF Gathered
<1> QED
    BY <1>1 DEF Covered

-----------------------------------------------------------------------------
(***************************************************************************)
(* One more instruction has been expanded.                                 *)
(***************************************************************************)
LEMMA LineText ==
    ASSUME NEW line
    PROVE  IsText(<<line>>) /\ Len(<<line>>) = 1 /\ DOMAIN <<line>> = {1} /\ <<line>>[1] = line
<1>1. <<line>> \in Seq({line})
    OBVIOUS
<1>2. IsText(<<line>>)
    BY <1>1 DEF IsText
<1>3. Len(<<line>>) = 1 /\ DOMAIN <<line>> = 1..1 /\ <<line>>[1] = line
    OBVIOUS
<1>4. 1..1 = {1}
    OBVIOUS
<1> QED
    BY <1>2, <1>3, <1>4

\* A line of the text that is no FROM.
HasLine(t, line) == \E k : Together(t, k, k) /\ t[k] = line

\* The lines that are appended are in the text.
LEMMA AppendedLine ==
    ASSUME NEW t, IsText(t), NEW more, IsText(more), NEW i \in DOMAIN more, ~IsFrom(more[i])
    PROVE  HasLine(t \o more, more[i])
<1>1. /\ Len(t) \in Nat /\ i \in 1..Len(more) /\ Len(more) \in Nat
    BY TextType
<1>2. Len(t) + i \in DOMAIN (t \o more) /\ (t \o more)[Len(t) + i] = more[i]
    BY <1>1, JoinedText
<1> PICK k : k = Len(t) + i
    OBVIOUS
<1>3. k \in Int /\ \A j \in k..k : j = k
    BY <1>1
<1>4. Together(t \o more, k, k)
    BY <1>2, <1>3 DEF Together
<1> QED
    BY <1>2, <1>4 DEF HasLine

LEMMA NoStageAppended ==
    ASSUME NEW t, IsText(t), NEW more, IsText(more), NoStageIn(t), NoStageIn(more)
    PROVE  NoStageIn(t \o more)
<1> PICK u : u = t \o more
    OBVIOUS
<1>1. /\ Len(t) \in Nat /\ DOMAIN t = 1..Len(t) /\ Len(more) \in Nat /\ DOMAIN more = 1..Len(more)
      /\ IsText(u) /\ Len(u) = Len(t) + Len(more) /\ DOMAIN u = 1..Len(u)
    BY JoinedText, TextType
<1>2. /\ \A j \in 1..Len(t) : u[j] = t[j]
      /\ \A j \in 1..Len(more) : u[Len(t) + j] = more[j]
    BY JoinedText
<1>3. ASSUME NEW j \in 1..Len(u) PROVE ~IsFrom(u[j])
    <2>1. CASE j <= Len(t)
        <3>1. j \in 1..Len(t)
            BY <2>1
        <3> QED
            BY <1>1, <1>2, <3>1 DEF NoStageIn
    <2>2. CASE ~(j <= Len(t))
        <3>1. j - Len(t) \in 1..Len(more) /\ Len(t) + (j - Len(t)) = j
            BY <1>1, <2>2
        <3>2. u[j] = more[j - Len(t)]
            BY <1>2, <3>1
        <3> QED
            BY <1>1, <3>1, <3>2 DEF NoStageIn
    <2> QED
        BY <2>1, <2>2
<1> QED
    BY <1>1, <1>3 DEF NoStageIn

LEMMA AppendedLeads ==
    ASSUME NEW t, IsText(t), NoStageIn(t), NEW arg, arg.op = "ARG"
    PROVE  Leads(arg, t \o <<arg>>)
<1> PICK u : u = t \o <<arg>>
    OBVIOUS
<1>1. ~IsFrom(arg) /\ IsText(<<arg>>) /\ NoStageIn(<<arg>>)
    BY LineText DEF IsFrom, NoStageIn
<1>2. NoStageIn(u)
    BY <1>1, NoStageAppended
<1> PICK more : more = <<arg>>
    OBVIOUS
<1>3. IsText(more) /\ 1 \in DOMAIN more /\ more[1] = arg /\ u = t \o more
    BY LineText
<1>4. ~IsFrom(more[1])
    BY <1>1, <1>3
<1>5. HasLine(t \o more, more[1])
    BY <1>3, <1>4, AppendedLine
<1>6. PICK k : Together(u, k, k) /\ u[k] = arg
    BY <1>3, <1>5 DEF HasLine
<1>7. IsText(u)
    BY <1>1, JoinedText
<1>8. k \in DOMAIN u /\ DOMAIN u = 1..Len(u) /\ Len(u) \in Nat
    BY <1>6, <1>7, TextType DEF Together
<1>9. \A j \in 1..k : j \in DOMAIN u
    BY <1>8
<1> QED
    BY <1>2, <1>6, <1>8, <1>9 DEF Leads, OnTop, NoStageIn

LEMMA LeadingGrows ==
    ASSUME NEW text, NEW pc \in Nat \ {0}, NEW t, NEW u, Leading(text, pc, t),
           (\E k \in DOMAIN text : text[k].op = "COPYFILE") \/ StaysOnTop(t, u),
           IsGlobal(text, pc) => Leads(text[pc], u),
           text[pc].op \notin StageOps => (NoStageIn(t) => NoStageIn(u))
    PROVE  Leading(text, pc + 1, u)
<1>1. \A j \in 1..((pc + 1) - 1) : j = pc \/ j \in 1..(pc - 1)
    OBVIOUS
<1>2. \A j \in 1..(pc - 1) : j \in 1..((pc + 1) - 1)
    OBVIOUS
<1>3. pc \in 1..((pc + 1) - 1)
    OBVIOUS
<1>4. ASSUME NEW j \in 1..((pc + 1) - 1), IsGlobal(text, j) PROVE Leads(text[j], u)
    <2>1. CASE j = pc
        BY <1>4, <2>1
    <2>2. CASE j # pc
        <3>1. Leads(text[j], t) /\ text[j].op = "ARG" /\ StaysOnTop(t, u)
            BY <1>1, <1>4, <2>2 DEF Leading, IsGlobal
        <3> QED
            BY <3>1, LeadsStays
    <2> QED
        BY <2>1, <2>2
<1>5. ASSUME \A k \in 1..((pc + 1) - 1) : text[k].op \notin StageOps
      PROVE  NoStageIn(u)
    <2>1. NoStageIn(t) /\ text[pc].op \notin StageOps
        BY <1>2, <1>3, <1>5 DEF Leading
    <2> QED
        BY <2>1
<1> QED
    BY <1>4, <1>5 DEF Leading

LEMMA ExpandedOn ==
    ASSUME NEW text, NEW pc \in Nat \ {0}, NEW t, NEW u, IsText(u),
           Expanded(text, pc, t), StaysTogether(t, u),
           NEW more \in SUBSET Loc, Gathered(more, u), Covered(text[pc], more, u),
           Leading(text, pc + 1, u)
    PROVE  Expanded(text, pc + 1, u)
<1>1. PICK files \in SUBSET Loc :
        /\ Gathered(files, t)
        /\ \A j \in 1..(pc - 1) : Covered(text[j], files, t)
    BY DEF Expanded
<1> PICK all : all = files \cup more
    OBVIOUS
<1>2. files \subseteq all /\ more \subseteq all /\ all \in SUBSET Loc
    OBVIOUS
<1>3. Gathered(all, u)
    BY <1>1, GatheredStays, GatheredBoth
<1>4. ASSUME NEW j \in 1..((pc + 1) - 1) PROVE Covered(text[j], all, u)
    <2>1. CASE j = pc
        BY <1>2, <2>1 DEF Covered
    <2>2. CASE j # pc
        <3>1. j \in 1..(pc - 1)
            BY <2>2
        <3>2. Covered(text[j], files, t)
            BY <1>1, <3>1
        <3> QED
            BY <1>2, <3>2, CoveredStays
    <2> QED
        BY <2>1, <2>2
<1> QED
    BY <1>2, <1>3, <1>4 DEF Expanded

\* Lines without a stage are appended, for an instruction that makes no call.
LEMMA ExpandedBy ==
    ASSUME NEW text, NEW pc \in Nat \ {0}, NEW t, IsText(t), NEW more, IsText(more),
           \A k \in 1..pc : k \in DOMAIN text, Expanded(text, pc, t), text[pc].op \notin CallOps,
           Written(text[pc], t \o more),
           text[pc].op = "ARG" => more = <<text[pc]>>,
           text[pc].op # "FROM" => NoStageIn(more)
    PROVE  IsText(t \o more) /\ Expanded(text, pc + 1, t \o more)
<1> PICK u : u = t \o more
    OBVIOUS
<1>1. Keeps(t, u)
    BY KeptBefore
<1>2. IsText(u) /\ StaysTogether(t, u) /\ StaysOnTop(t, u)
    BY <1>1 DEF Keeps
<1>3. text[pc].op \notin StageOps => (NoStageIn(t) => NoStageIn(u))
    BY NoStageAppended DEF StageOps
<1>4. ASSUME IsGlobal(text, pc) PROVE Leads(text[pc], u)
    <2>1. text[pc].op = "ARG" /\ more = <<text[pc]>>
        BY <1>4 DEF IsGlobal
    <2>2. \A k \in 1..(pc - 1) : k \in 1..pc
        OBVIOUS
    <2>3. \A k \in 1..(pc - 1) : text[k].op \notin StageOps
        BY <1>4, <2>2 DEF IsGlobal, StageOps
    <2>4. NoStageIn(t)
        BY <2>3 DEF Expanded, Leading
    <2> QED
        BY <2>1, <2>4, AppendedLeads
<1>5. Leading(text, pc + 1, u)
    BY <1>2, <1>3, <1>4, LeadingGrows DEF Expanded
<1>6. Gathered({}, u) /\ Covered(text[pc], {}, u) /\ {} \in SUBSET Loc
    BY DEF Gathered, Covered
<1>7. Expanded(text, pc + 1, u)
    BY <1>2, <1>5, <1>6, ExpandedOn
<1> QED
    BY <1>2, <1>7

\* Keep: the instruction is its own line.
LEMMA KeptExpanded ==
    ASSUME NEW text, NEW pc \in Nat \ {0}, NEW t, IsText(t),
           \A k \in 1..pc : k \in DOMAIN text, Expanded(text, pc, t),
           text[pc].op \in {"FROM", "COPY", "MOUNT", "RUN", "ARG"}
    PROVE  IsText(t \o <<text[pc]>>) /\ Expanded(text, pc + 1, t \o <<text[pc]>>)
<1> PICK instr : instr = text[pc]
    OBVIOUS
<1> PICK more : more = <<instr>>
    OBVIOUS
<1>1. IsText(more) /\ DOMAIN more = {1} /\ more[1] = instr
    BY LineText
<1>2. instr.op # "FROM" => NoStageIn(more)
    BY <1>1 DEF NoStageIn, IsFrom
<1>3. instr.op \notin CallOps /\ instr.op \notin {"IMPORT", "COPYFILE"}
    BY DEF CallOps
<1>4. ASSUME instr.op \in Lasting
      PROVE  \E k : Together(t \o more, k, k) /\ Becomes(instr, (t \o more)[k])
    <2>1. instr.op # "FROM"
        BY <1>4 DEF Lasting, EnvOps
    <2>2. 1 \in DOMAIN more /\ ~IsFrom(more[1])
        BY <1>1, <2>1 DEF IsFrom
    <2>3. HasLine(t \o more, more[1])
        BY <1>1, <2>2, AppendedLine
    <2>4. Becomes(instr, instr)
        BY <2>1, BecomesLine
    <2> QED
        BY <1>1, <2>3, <2>4 DEF HasLine
<1>5. Written(instr, t \o more)
    BY <1>3, <1>4 DEF Written
<1> QED
    BY <1>1, <1>2, <1>3, <1>5, ExpandedBy

\* What generateIncluded makes of a text keeps the ARGs on its top together with
\* the mark of the import.
LEMMA MarkedKeeps ==
    ASSUME NEW body, IsText(body), NEW how, NEW file, NEW by
    PROVE  LET m == Marked(body, how, file, by) IN
           /\ IsText(m) /\ StaysTogether(body, m)
           /\ NoStageIn(body) => NoStageIn(m)
           /\ how \in {"from", "fromParam"} => \A arg : arg.op = "ARG" /\ Leads(arg, body) => Imported(arg, m)
<1> DEFINE Marker(op) == [op |-> op, file |-> file, by |-> by, how |-> how]
<1> PICK start : start = Marker("START")
    OBVIOUS
<1> PICK end : end = Marker("END")
    OBVIOUS
<1> PICK sb : sb = <<start>> \o body
    OBVIOUS
<1> PICK m : m = sb \o <<end>>
    OBVIOUS
<1>1. Marked(body, how, file, by) = m
    BY DEF Marked
<1>2. /\ ~IsFrom(start) /\ ~IsFrom(end)
      /\ how \in {"from", "fromParam"} => OpensImport(start)
    BY DEF IsFrom, OpensImport
<1>3. /\ IsText(<<start>>) /\ DOMAIN <<start>> = {1} /\ <<start>>[1] = start /\ Len(<<start>>) = 1
      /\ IsText(<<end>>) /\ DOMAIN <<end>> = {1} /\ <<end>>[1] = end
    BY LineText
<1>4. IsText(sb) /\ StaysTogether(body, sb)
    BY <1>3, KeptAfter
<1>5. Keeps(sb, m)
    BY <1>3, <1>4, KeptBefore
<1>6. IsText(m) /\ StaysTogether(body, m)
    BY <1>4, <1>5, TogetherTwice DEF Keeps
<1>7. ASSUME NoStageIn(body) PROVE NoStageIn(m)
    <2>1. NoStageIn(<<start>>) /\ NoStageIn(<<end>>)
        BY <1>2, <1>3 DEF NoStageIn
    <2>2. NoStageIn(sb)
        BY <1>3, <1>7, <2>1, NoStageAppended
    <2> QED
        BY <1>3, <1>4, <2>1, <2>2, NoStageAppended
<1>8. ASSUME how \in {"from", "fromParam"}, NEW arg, arg.op = "ARG", Leads(arg, body)
      PROVE  Imported(arg, m)
    <2>1. PICK k : OnTop(body, k) /\ body[k] = arg
        BY <1>8 DEF Leads
    <2>2. Len(body) \in Nat /\ DOMAIN body = 1..Len(body)
        BY TextType
    <2>3. k \in 1..Len(body) /\ \A j \in 1..k : ~IsFrom(body[j])
        BY <2>1, <2>2 DEF OnTop
    <2>4. Len(sb) = 1 + Len(body) /\ sb[1] = start /\ \A i \in 1..Len(body) : sb[1 + i] = body[i]
        <3>1. Len(sb) = Len(<<start>>) + Len(body)
            BY <1>3, JoinedText
        <3>2. \A i \in 1..Len(<<start>>) : sb[i] = <<start>>[i]
            BY <1>3, JoinedText
        <3>3. \A i \in 1..Len(body) : sb[Len(<<start>>) + i] = body[i]
            BY <1>3, JoinedText
        <3>4. 1 \in 1..Len(<<start>>)
            BY <1>3
        <3> QED
            BY <1>3, <3>1, <3>2, <3>3, <3>4
    <2>5. DOMAIN sb = 1..Len(sb)
        BY <1>4, TextType
    <2>6. ASSUME NEW j \in 1..(1 + k) PROVE ~IsFrom(sb[j])
        <3>1. CASE j = 1
            BY <1>2, <2>4, <3>1
        <3>2. CASE j # 1
            <4>1. j - 1 \in 1..k /\ j - 1 \in 1..Len(body) /\ 1 + (j - 1) = j
                BY <2>2, <2>3, <3>2
            <4> QED
                BY <2>3, <2>4, <4>1
        <3> QED
            BY <3>1, <3>2
    <2>7. 1 \in 1..Len(sb) /\ 1 + k \in 1..Len(sb) /\ 1 <= 1 + k
        BY <2>2, <2>3, <2>4
    <2>8. Together(sb, 1, 1 + k)
        BY <2>5, <2>6, <2>7 DEF Together
    <2>9. PICK s1, k1 : /\ Together(m, s1, k1)
                        /\ SameLine(sb[1], m[s1]) /\ SameLine(sb[1 + k], m[k1])
        BY <1>5, <2>8 DEF Keeps, StaysTogether
    <2>10. sb[1].op = "START" /\ sb[1 + k] = arg
        BY <2>1, <2>3, <2>4
    <2>11. m[s1] = start
        BY <2>4, <2>9, <2>10 DEF SameLine
    <2>12. m[k1] = arg
        BY <1>8, <2>9, <2>10 DEF SameLine
    <2> QED
        BY <1>2, <1>8, <2>9, <2>11, <2>12 DEF Imported
<1> QED
    BY <1>1, <1>6, <1>7, <1>8

\* IncludeEnv: the line stands between the marks of the file.
LEMMA EnvExpanded ==
    ASSUME NEW text, NEW pc \in Nat \ {0}, NEW t, IsText(t),
           \A k \in 1..pc : k \in DOMAIN text, Expanded(text, pc, t),
           text[pc].op \in EnvOps, NEW file, NEW by
    PROVE  LET more == Marked(<<EnvLine(text[pc], EnvFile(text[pc]))>>, "include", file, by) IN
           IsText(t \o more) /\ Expanded(text, pc + 1, t \o more)
<1> PICK instr : instr = text[pc]
    OBVIOUS
<1> PICK line : line = EnvLine(instr, EnvFile(instr))
    OBVIOUS
<1> PICK body : body = <<line>>
    OBVIOUS
<1> PICK more : more = Marked(body, "include", file, by)
    OBVIOUS
<1>1. ~IsFrom(line) /\ (line.op \notin {"COPY", "MOUNT"})
    BY DEF IsFrom, EnvLine
<1>2. IsText(body) /\ DOMAIN body = {1} /\ body[1] = line
    BY LineText
<1>3. NoStageIn(body)
    BY <1>1, <1>2 DEF NoStageIn
<1>4. IsText(more) /\ StaysTogether(body, more) /\ NoStageIn(more)
    BY <1>2, <1>3, MarkedKeeps
<1>5. StaysTogether(body, t \o more) /\ IsText(t \o more)
    BY <1>4, KeptAfter, TogetherTwice
<1>6. Together(body, 1, 1)
    BY <1>1, <1>2 DEF Together
<1>7. PICK s1, k1 : Together(t \o more, s1, k1) /\ SameLine(body[1], (t \o more)[k1])
    BY <1>5, <1>6 DEF StaysTogether
<1>8. Together(t \o more, k1, k1) /\ (t \o more)[k1] = line
    BY <1>1, <1>2, <1>5, <1>7, TogetherEnd DEF SameLine
<1>9. Becomes(instr, line)
    BY BecomesLine
<1>10. /\ instr.op \notin CallOps /\ instr.op \notin {"IMPORT", "COPYFILE"}
       /\ instr.op # "ARG" /\ instr.op # "FROM"
    BY DEF CallOps, EnvOps
<1>11. Written(instr, t \o more)
    BY <1>8, <1>9, <1>10 DEF Written
<1>12. IsText(t \o more) /\ Expanded(text, pc + 1, t \o more)
    BY <1>4, <1>10, <1>11, ExpandedBy
<1> QED
    BY <1>12

\* A file that has been expanded to its end is gathered with those it leads to.
LEMMA FileGathered ==
    ASSUME NEW l \in Loc, TextOf(l) \in Body, NEW pc, pc = Len(TextOf(l)) + 1, NEW t,
           Expanded(TextOf(l), pc, t)
    PROVE  \E files \in SUBSET Loc :
               /\ l \in files /\ Gathered(files, t)
               /\ \A arg \in GlobalArgs(TextOf(l)) : Leads(arg, t)
<1> PICK text : text = TextOf(l)
    OBVIOUS
<1>1. Len(text) \in Nat /\ DOMAIN text = 1..Len(text)
    BY WorldAssumption
<1>2. pc - 1 = Len(text)
    BY <1>1
<1>3. PICK files \in SUBSET Loc :
        /\ Gathered(files, t)
        /\ \A j \in 1..(pc - 1) : Covered(text[j], files, t)
    BY DEF Expanded
<1> PICK all : all = files \cup {l}
    OBVIOUS
<1>4. all \in SUBSET Loc /\ l \in all
    OBVIOUS
<1>5. Gathered(all, t)
    <2> SUFFICES ASSUME NEW m \in all
                 PROVE  /\ TextOf(m) \in Body
                        /\ \A i \in DOMAIN TextOf(m) : Covered(TextOf(m)[i], all, t)
        BY DEF Gathered
    <2>1. CASE m = l
        BY <1>1, <1>2, <1>3, <2>1 DEF Covered
    <2>2. CASE m \in files
        BY <1>3, <2>2 DEF Gathered, Covered
    <2> QED
        BY <2>1, <2>2
<1>6. ASSUME NEW arg \in GlobalArgs(text) PROVE Leads(arg, t)
    <2>1. PICK j \in DOMAIN text : arg = text[j] /\ IsGlobal(text, j)
        BY ArgsAreArgs
    <2>2. j \in 1..(pc - 1)
        BY <1>1, <1>2
    <2> QED
        BY <2>1, <2>2 DEF Expanded, Leading
<1> QED
    BY <1>4, <1>5, <1>6

\* What the instruction that made the call makes of the text it gets.
LEMMA IntegrateKeeps ==
    ASSUME NEW instr, instr.op \in CallOps, NEW alias, NEW t, IsText(t), NEW body, IsText(body)
    PROVE  LET u == Integrate(instr, alias, t, body) IN
           /\ IsText(u) /\ StaysTogether(t, u) /\ StaysTogether(body, u)
           /\ instr.op # "COPYFILE" => StaysOnTop(t, u)
           /\ instr.op = "COPYFILE" => HasLine(u, CopyLine(alias, instr.raw))
<1> PICK both : both = t \o body
    OBVIOUS
<1> PICK from : from = <<FromLine(alias, IF instr.as = NoName THEN FinalStage ELSE instr.as)>>
    OBVIOUS
<1> PICK copy : copy = <<CopyLine(alias, instr.raw)>>
    OBVIOUS
<1>1. /\ IsText(from) /\ IsText(copy)
      /\ 1 \in DOMAIN copy /\ copy[1] = CopyLine(alias, instr.raw)
    BY LineText
<1>2. Keeps(t, both) /\ StaysTogether(body, both)
    BY KeptBefore, KeptAfter
<1>3. IsText(both)
    BY <1>2 DEF Keeps
<1>4. CASE instr.op = "INCLUDE"
    <2>1. Integrate(instr, alias, t, body) = both
        BY <1>4 DEF Integrate
    <2> QED
        BY <1>2, <1>4, <2>1 DEF Keeps
<1>5. CASE instr.op = "IMPORT"
    <2> PICK u : u = both \o from
        OBVIOUS
    <2>1. Integrate(instr, alias, t, body) = u
        BY <1>5 DEF Integrate
    <2>2. Keeps(both, u)
        BY <1>1, <1>3, KeptBefore
    <2>3. Keeps(t, u)
        BY <1>2, <2>2, KeepsTwice
    <2>4. StaysTogether(body, u)
        BY <1>2, <2>2, TogetherTwice DEF Keeps
    <2> QED
        BY <1>5, <2>1, <2>3, <2>4 DEF Keeps
<1>6. CASE instr.op = "COPYFILE"
    <2> PICK v : v = body \o t
        OBVIOUS
    <2> PICK u : u = v \o copy
        OBVIOUS
    <2>1. Integrate(instr, alias, t, body) = u
        BY <1>6 DEF Integrate
    <2>2. Keeps(body, v) /\ StaysTogether(t, v)
        BY KeptBefore, KeptAfter
    <2>3. IsText(v)
        BY <2>2 DEF Keeps
    <2>4. Keeps(v, u)
        BY <1>1, <2>3, KeptBefore
    <2>5. IsText(u) /\ StaysTogether(t, u) /\ StaysTogether(body, u)
        BY <2>2, <2>4, TogetherTwice DEF Keeps
    <2>6. ~IsFrom(copy[1])
        BY <1>1 DEF IsFrom, CopyLine
    <2>7. HasLine(u, copy[1])
        BY <1>1, <2>3, <2>6, AppendedLine
    <2> QED
        BY <1>1, <1>6, <2>1, <2>5, <2>7
<1> QED
    BY <1>4, <1>5, <1>6 DEF CallOps

Integrated(instr, alias, t, s, ctx, file, by) ==
    Integrate(instr, alias, t, Marked(PostProcess(s, ctx), IncludeType(instr.op), file, by))

\* The call that has got to pc with t waits for the one that has made s of the
\* file at l.
Awaits(text, pc, t, l, s) ==
    /\ IsText(t) /\ Expanded(text, pc, t) /\ \A k \in 1..pc : k \in DOMAIN text
    /\ text[pc].op \in CallOps /\ text[pc].to = l
    /\ TextOf(l) \in Body /\ IsText(s) /\ Expanded(TextOf(l), Len(TextOf(l)) + 1, s)

GoneOn(text, pc, u) == IsText(u) /\ Expanded(text, pc + 1, u)

\* Return: the text of the file below is integrated in that of its importer.
LEMMA ReturnExpanded ==
    ASSUME NEW text, NEW pc \in Nat \ {0}, NEW t, NEW l \in Loc, NEW s,
           Awaits(text, pc, t, l, s), NEW ctx, NEW alias, NEW file, NEW by
    PROVE  GoneOn(text, pc, Integrated(text[pc], alias, t, s, ctx, file, by))
<1>0. /\ IsText(t) /\ Expanded(text, pc, t) /\ \A k \in 1..pc : k \in DOMAIN text
      /\ text[pc].op \in CallOps /\ text[pc].to = l
      /\ TextOf(l) \in Body /\ IsText(s) /\ Expanded(TextOf(l), Len(TextOf(l)) + 1, s)
    BY DEF Awaits
<1> PICK instr : instr = text[pc]
    OBVIOUS
<1> PICK done : done = PostProcess(s, ctx)
    OBVIOUS
<1> PICK how : how = IncludeType(instr.op)
    OBVIOUS
<1> PICK body : body = Marked(done, how, file, by)
    OBVIOUS
<1> PICK u : u = Integrate(instr, alias, t, body)
    OBVIOUS
<1>1. Keeps(s, done)
    BY <1>0, PostProcessKeeps
<1>2. IsText(done)
    BY <1>1 DEF Keeps
<1>3. /\ IsText(body) /\ StaysTogether(done, body)
      /\ how \in {"from", "fromParam"} =>
            \A arg : arg.op = "ARG" /\ Leads(arg, done) => Imported(arg, body)
    BY <1>2, MarkedKeeps
<1>4. /\ IsText(u) /\ StaysTogether(t, u) /\ StaysTogether(body, u)
      /\ instr.op # "COPYFILE" => StaysOnTop(t, u)
      /\ instr.op = "COPYFILE" => HasLine(u, CopyLine(alias, instr.raw))
    BY <1>0, <1>3, IntegrateKeeps
<1>5. PICK files \in SUBSET Loc :
        /\ l \in files /\ Gathered(files, s)
        /\ \A arg \in GlobalArgs(TextOf(l)) : Leads(arg, s)
    BY <1>0, FileGathered
<1>6. Gathered(files, u)
    <2>1. StaysTogether(s, u)
        BY <1>1, <1>3, <1>4, TogetherTwice DEF Keeps
    <2> QED
        BY <1>4, <1>5, <2>1, GatheredStays
<1>7. ASSUME instr.op \in {"IMPORT", "COPYFILE"}, NEW arg \in GlobalArgs(TextOf(instr.to))
      PROVE  Imported(arg, u)
    <2>1. arg.op = "ARG" /\ Leads(arg, s)
        BY <1>0, <1>5, <1>7, ArgsAreArgs
    <2>2. Leads(arg, done)
        BY <1>1, <2>1, LeadsStays DEF Keeps
    <2>3. how \in {"from", "fromParam"}
        BY <1>7 DEF IncludeType
    <2>4. Imported(arg, body)
        BY <1>3, <2>1, <2>2, <2>3
    <2> QED
        BY <1>4, <2>1, <2>4, ImportedStays
<1>8. ASSUME instr.op \in Lasting
      PROVE  \E k : Together(u, k, k) /\ Becomes(instr, u[k])
    <2>1. instr.op = "COPYFILE"
        BY <1>0, <1>8 DEF Lasting, CallOps, EnvOps
    <2>2. PICK k : Together(u, k, k) /\ u[k] = CopyLine(alias, instr.raw)
        BY <1>4, <2>1 DEF HasLine
    <2>3. Becomes(instr, u[k])
        BY <2>1, <2>2, BecomesLine DEF CopyLine
    <2> QED
        BY <2>2, <2>3
<1>9. Covered(instr, files, u)
    BY <1>0, <1>5, <1>7, <1>8 DEF Covered, Written
<1>10. Leading(text, pc + 1, u)
    <2>1. (\E k \in DOMAIN text : text[k].op = "COPYFILE") \/ StaysOnTop(t, u)
        <3>1. pc \in DOMAIN text
            BY <1>0
        <3> QED
            BY <1>4, <3>1
    <2>2. ~IsGlobal(text, pc) /\ text[pc].op \in StageOps
        BY <1>0 DEF IsGlobal, StageOps, CallOps
    <2> QED
        BY <1>0, <2>1, <2>2, LeadingGrows DEF Expanded
<1>11. Expanded(text, pc + 1, u)
    BY <1>0, <1>4, <1>6, <1>9, <1>10, ExpandedOn
<1>12. u = Integrated(text[pc], alias, t, s, ctx, file, by)
    BY DEF Integrated
<1> QED
    BY <1>4, <1>11, <1>12 DEF GoneOn

\* The ARGs that are to be above every stage of the text that is written.
Globals ==
    GlobalArgs(TextOf(Root)) \cup
    UNION {GlobalArgs(TextOf(m)) : m \in {n \in Loc :
        \E l \in Reached : \E i \in DOMAIN TextOf(l) :
            TextOf(l)[i].op \in {"IMPORT", "COPYFILE"} /\ TextOf(l)[i].to = n}}

-----------------------------------------------------------------------------
(***************************************************************************)
(* The files do not change, nor does what is said of a text.               *)
(***************************************************************************)
LEMMA SameFiles ==
    ASSUME UNCHANGED world
    PROVE  /\ \A l : TextOf(l)' = TextOf(l)
           /\ \A instr : EnvFile(instr)' = EnvFile(instr)
           /\ \A instr, line : Becomes(instr, line)' = Becomes(instr, line)
           /\ Reached' = Reached /\ Globals' = Globals
<1>1. \A l : TextOf(l)' = TextOf(l)
    BY DEF TextOf, Found
<1>2. \A instr : EnvFile(instr)' = EnvFile(instr)
    BY DEF EnvFile, Found
<1>3. ASSUME NEW instr, NEW line PROVE Becomes(instr, line)' = Becomes(instr, line)
    <2>1. EnvFile(instr)' = EnvFile(instr)
        BY <1>2
    <2> QED
        BY <2>1 DEF Becomes
<1>4. \A l, m : Loads(l, m)' = Loads(l, m)
    BY DEF Loads, Found
<1>5. Reached' = Reached
    BY <1>4 DEF Reached
<1>6. Globals' = Globals
    BY <1>1, <1>5 DEF Globals, GlobalArgs
<1> QED
    BY <1>1, <1>2, <1>3, <1>5, <1>6

LEMMA TextStays ==
    ASSUME UNCHANGED world, NEW f, NEW t, TextOfCall(f, t)
    PROVE  TextOfCall(f, t)'
<1>1. \A instr, u : Written(instr, u)' = Written(instr, u)
    BY SameFiles DEF Written, Imported, GlobalArgs
<1>2. \A instr, files, u : Covered(instr, files, u)' = Covered(instr, files, u)
    BY <1>1 DEF Covered
<1>3. \A files, u : Gathered(files, u)' = Gathered(files, u)
    BY <1>2, SameFiles DEF Gathered
<1>4. \A text, pc, u : Expanded(text, pc, u)' = Expanded(text, pc, u)
    BY <1>2, <1>3 DEF Expanded, Leading
<1> QED
    BY <1>4 DEF TextOfCall

\* What the files that are gathered lead to is gathered too.
LEMMA ReachedGathered ==
    ASSUME NEW files \in SUBSET Loc, NEW t, Root \in files, Gathered(files, t)
    PROVE  Reached \subseteq files
<1>1. ASSUME NEW k \in files, NEW m \in Loc, Loads(k, m) PROVE m \in files
    <2>1. PICK i \in DOMAIN TextOf(k) : TextOf(k)[i].op \in CallOps /\ TextOf(k)[i].to = m
        BY <1>1 DEF Loads, TextOf
    <2> QED
        BY <2>1 DEF Gathered, Covered
<1> QED
    BY <1>1 DEF Reached

\* The text that is written has what the first call has gathered.
LEMMA WrittenText ==
    ASSUME TextOf(Root) \in Body, NEW pc, pc = Len(TextOf(Root)) + 1,
           NEW t, IsText(t), Expanded(TextOf(Root), pc, t), NEW ctx
    PROVE  LET out == RedeclareArgTop(PostProcess(t, ctx)) IN
           /\ \A l \in Reached : \A i \in DOMAIN TextOf(l) :
                TextOf(l)[i].op \in Lasting =>
                    \E k \in DOMAIN out : Becomes(TextOf(l)[i], out[k])
           /\ \A arg \in Globals :
                \E k \in DOMAIN out : out[k] = arg /\ \A j \in 1..k : ~IsFrom(out[j])
<1> PICK done : done = PostProcess(t, ctx)
    OBVIOUS
<1> PICK out : out = RedeclareArgTop(done)
    OBVIOUS
<1>1. PICK files \in SUBSET Loc :
        /\ Root \in files /\ Gathered(files, t)
        /\ \A arg \in GlobalArgs(TextOf(Root)) : Leads(arg, t)
    BY LocationAssumption, FileGathered
<1>2. Reached \subseteq files
    BY <1>1, ReachedGathered
<1>3. Keeps(t, done)
    BY PostProcessKeeps
<1>4. IsText(done)
    BY <1>3 DEF Keeps
<1>5. Keeps(done, out)
    BY <1>4, RedeclareKeeps
<1>6. Keeps(t, out)
    BY <1>3, <1>5, KeepsTwice
<1>7. Gathered(files, done) /\ Gathered(files, out)
    BY <1>1, <1>3, <1>6, GatheredStays DEF Keeps
<1>8. ASSUME NEW l \in Reached, NEW i \in DOMAIN TextOf(l), TextOf(l)[i].op \in Lasting
      PROVE  \E k \in DOMAIN out : Becomes(TextOf(l)[i], out[k])
    <2>1. Covered(TextOf(l)[i], files, out)
        BY <1>2, <1>7 DEF Gathered
    <2>2. PICK k : Together(out, k, k) /\ Becomes(TextOf(l)[i], out[k])
        BY <1>8, <2>1 DEF Covered, Written
    <2> QED
        BY <2>2 DEF Together
<1>9. ASSUME NEW arg, Leads(arg, out)
      PROVE  \E k \in DOMAIN out : out[k] = arg /\ \A j \in 1..k : ~IsFrom(out[j])
    BY <1>9 DEF Leads, OnTop
<1>10. ASSUME NEW arg \in GlobalArgs(TextOf(Root)) PROVE Leads(arg, out)
    <2>1. Leads(arg, t) /\ arg.op = "ARG"
        BY <1>1, ArgsAreArgs
    <2> QED
        BY <1>6, <2>1, LeadsStays DEF Keeps
<1>11. ASSUME NEW l \in Reached, NEW i \in DOMAIN TextOf(l),
              TextOf(l)[i].op \in {"IMPORT", "COPYFILE"},
              NEW arg \in GlobalArgs(TextOf(TextOf(l)[i].to))
       PROVE  Leads(arg, out)
    <2>1. Covered(TextOf(l)[i], files, done)
        BY <1>2, <1>7 DEF Gathered
    <2>2. Imported(arg, done)
        BY <1>11, <2>1 DEF Covered, Written
    <2>3. PICK s, k : Together(done, s, k) /\ OpensImport(done[s]) /\ done[k] = arg
        BY <2>2 DEF Imported
    <2>4. arg.op = "ARG"
        BY ArgsAreArgs
    <2>5. \E k1 : OnTop(out, k1) /\ out[k1] = done[k]
        BY <1>4, <2>3, <2>4, ImportedArgOnTop
    <2> QED
        BY <2>3, <2>5 DEF Leads
<1>12. ASSUME NEW arg \in UNION {GlobalArgs(TextOf(m)) : m \in {n \in Loc :
                             \E l \in Reached : \E i \in DOMAIN TextOf(l) :
                                 /\ TextOf(l)[i].op \in {"IMPORT", "COPYFILE"}
                                 /\ TextOf(l)[i].to = n}}
       PROVE  Leads(arg, out)
    <2>1. PICK n \in Loc :
            /\ arg \in GlobalArgs(TextOf(n))
            /\ \E l \in Reached : \E i \in DOMAIN TextOf(l) :
                   TextOf(l)[i].op \in {"IMPORT", "COPYFILE"} /\ TextOf(l)[i].to = n
        OBVIOUS
    <2> QED
        BY <1>11, <2>1
<1> QED
    BY <1>8, <1>9, <1>10, <1>12 DEF Globals

-----------------------------------------------------------------------------
(***************************************************************************)
(* Every step preserves TextInv.                                           *)
(***************************************************************************)
Replaced(s, n, t, u) == u = [s EXCEPT ![n] = t]

DiffersAt(s, n, t, u) ==
    /\ IsText(u) /\ Len(u) = n /\ u[n] = t
    /\ \A i \in 1..n : i # n => u[i] = s[i]

LEMMA TextReplaced ==
    ASSUME NEW s, IsText(s), NEW n, n = Len(s), n # 0, NEW t,
           NEW u, Replaced(s, n, t, u)
    PROVE  DiffersAt(s, n, t, u)
<1>1. n \in Nat /\ DOMAIN s = 1..n /\ n \in 1..n
    BY TextType
<1>2. PICK S : s \in Seq(S)
    BY DEF IsText
<1>3. s \in [1..n -> S]
    BY <1>1, <1>2
<1>4. u = [i \in 1..n |-> u[i]] /\ DOMAIN u = 1..n
    BY <1>3 DEF Replaced
<1>5. u[n] = t /\ \A i \in 1..n : i # n => u[i] = s[i]
    BY <1>1, <1>3 DEF Replaced
<1>6. IsText(u) /\ Len(u) = n
    BY <1>1, <1>4, TextOfLines
<1> QED
    BY <1>4, <1>5, <1>6 DEF DiffersAt

PushedOn(s, n, t, u) ==
    /\ IsText(u) /\ Len(u) = n + 1 /\ u[n + 1] = t
    /\ \A i \in 1..n : u[i] = s[i]

LEMMA TextPushed ==
    ASSUME NEW s, IsText(s), NEW n, n = Len(s), NEW t, NEW u, u = Append(s, t)
    PROVE  PushedOn(s, n, t, u)
<1>1. PICK S : s \in Seq(S)
    BY DEF IsText
<1>2. s \in Seq(S \cup {t}) /\ t \in S \cup {t}
    BY <1>1, SeqMonotonic
<1>3. /\ u \in Seq(S \cup {t}) /\ Len(u) = n + 1 /\ u[n + 1] = t
      /\ \A i \in 1..n : u[i] = s[i]
    BY <1>2, AppendProperties
<1>4. IsText(u)
    BY <1>3 DEF IsText
<1> QED
    BY <1>3, <1>4 DEF PushedOn

PoppedTo(s, n, u) == IsText(u) /\ Len(u) = n /\ \A i \in 1..n : u[i] = s[i]

LEMMA TextPopped ==
    ASSUME NEW s, IsText(s), NEW n \in Nat, n + 1 = Len(s),
           NEW u, u = SubSeq(s, 1, n)
    PROVE  PoppedTo(s, n, u)
<1>1. PICK S : s \in Seq(S)
    BY DEF IsText
<1>2. \A i \in 1..n : s[i] \in S
    <2>1. \A i \in 1..n : i \in 1..Len(s)
        OBVIOUS
    <2> QED
        BY <1>1, <2>1
<1>3. /\ u \in Seq(S) /\ Len(u) = IF 1 <= n THEN n - 1 + 1 ELSE 0
      /\ \A i \in 1..(n - 1 + 1) : u[i] = s[1 + i - 1]
    BY <1>2, SubSeqProperties
<1>4. Len(u) = n
    BY <1>3
<1>5. \A i \in 1..n : i \in 1..(n - 1 + 1) /\ 1 + i - 1 = i
    OBVIOUS
<1>6. \A i \in 1..n : u[i] = s[i]
    BY <1>3, <1>5
<1>7. IsText(u)
    BY <1>3 DEF IsText
<1> QED
    BY <1>4, <1>6, <1>7 DEF PoppedTo

LEMMA CallsText ==
    ASSUME UNCHANGED world, \A i \in DOMAIN stack' : TextOfCall(stack'[i], lines'[i])
    PROVE  (\A i \in DOMAIN stack : TextOfCall(stack[i], lines[i]))'
<1> SUFFICES ASSUME NEW i \in DOMAIN stack' PROVE TextOfCall(stack[i], lines[i])'
    OBVIOUS
<1>1. PICK f : f = stack'[i]
    OBVIOUS
<1>2. PICK t : t = lines'[i]
    OBVIOUS
<1>3. TextOfCall(f, t)'
    BY <1>1, <1>2, TextStays
<1> QED
    BY <1>1, <1>2, <1>3 DEF TextOfCall

\* What has been written stays, and nothing but Write ends a run with "ok".
LEMMA OutputStays ==
    ASSUME NothingSkipped, ImportedArgsStayGlobal, UNCHANGED world,
           UNCHANGED <<verdict, output>> \/ verdict'.code # "ok"
    PROVE  NothingSkipped' /\ ImportedArgsStayGlobal'
<1>1. CASE verdict'.code # "ok"
    BY <1>1 DEF NothingSkipped, ImportedArgsStayGlobal
<1>2. CASE UNCHANGED <<verdict, output>>
    <2>1. NothingSkipped'
        BY <1>2, SameFiles DEF NothingSkipped
    <2>2. ImportedArgsStayGlobal'
        BY <1>2, SameFiles DEF ImportedArgsStayGlobal, AboveEveryStage
    <2> QED
        BY <2>1, <2>2
<1> QED
    BY <1>1, <1>2

LEMMA FinishText ==
    ASSUME TextInv, UNCHANGED <<world, stack, lines>>,
           UNCHANGED <<verdict, output>> \/ verdict'.code # "ok"
    PROVE  TextInv'
<1>1. \A i \in DOMAIN stack' : TextOfCall(stack'[i], lines'[i])
    BY DEF TextInv
<1>2. NothingSkipped' /\ ImportedArgsStayGlobal'
    BY OutputStays DEF TextInv
<1> QED
    BY <1>1, <1>2, CallsText DEF TextInv

\* The steps that replace the call on top and what it has put together.
LEMMA TopText ==
    ASSUME StackInv, TextInv, UNCHANGED <<world, verdict, output>>,
           NEW frame, SetTop(frame), NEW t, lines' = [lines EXCEPT ![Len(lines)] = t],
           TextOfCall(frame, t)
    PROVE  TextInv'
<1> PICK n : n = Len(stack)
    OBVIOUS
<1>1. n \in Nat \ {0} /\ DOMAIN stack = 1..n
    BY TopType DEF StackInv
<1>2. /\ DOMAIN stack' = 1..n /\ Len(stack') = n /\ stack'[n] = frame
      /\ \A i \in 1..n : i # n => stack'[i] = stack[i]
    BY <1>1 DEF SetTop, StackInv, TypeOK
<1>3. IsText(lines) /\ Len(lines) = n /\ n # 0
    BY <1>1 DEF TextInv
<1>4. /\ IsText(lines') /\ Len(lines') = n /\ lines'[n] = t
      /\ \A i \in 1..n : i # n => lines'[i] = lines[i]
    <2>1. PICK s : s = lines
        OBVIOUS
    <2> PICK u : u = lines'
        OBVIOUS
    <2>2. IsText(s) /\ n = Len(s) /\ n # 0 /\ Replaced(s, n, t, u)
        BY <1>3, <2>1 DEF Replaced
    <2>3. DiffersAt(s, n, t, u)
        BY <2>2, TextReplaced, Zenon
    <2> QED
        BY <2>1, <2>3 DEF DiffersAt
<1>5. \A i \in DOMAIN stack' : TextOfCall(stack'[i], lines'[i])
    BY <1>1, <1>2, <1>4 DEF TextInv
<1>6. NothingSkipped' /\ ImportedArgsStayGlobal'
    BY OutputStays DEF TextInv
<1> QED
    BY <1>2, <1>4, <1>5, <1>6, CallsText DEF TextInv

\* The call on top and its text.
LEMMA TopHasText ==
    ASSUME StackInv, TextInv
    PROVE  /\ IsText(lines) /\ Len(lines) = Len(stack) /\ Len(stack) \in Nat \ {0}
           /\ Len(stack) \in DOMAIN stack /\ Top = stack[Len(stack)] /\ Top \in FrameType
           /\ TextOfCall(Top, lines[Len(stack)])
BY TopType DEF StackInv, TextInv, Top

LEMMA EmptyText == IsText(<<>>) /\ NoStageIn(<<>>)
<1>1. <<>> \in Seq({}) /\ DOMAIN <<>> = {}
    OBVIOUS
<1> QED
    BY <1>1 DEF IsText, NoStageIn

LEMMA SameTop ==
    ASSUME NEW s, IsText(s), NEW n, n = Len(s), n # 0
    PROVE  Replaced(s, n, s[n], s)
<1>1. n \in Nat /\ DOMAIN s = 1..n /\ n \in 1..n
    BY TextType
<1>2. PICK S : s \in Seq(S)
    BY DEF IsText
<1>3. s \in [1..n -> S]
    BY <1>1, <1>2
<1> QED
    BY <1>1, <1>3 DEF Replaced

\* A call that has no text yet is given a key, or opens its file.
LEMMA EmptyTop ==
    ASSUME StackInv, TextInv, UNCHANGED <<world, verdict, output, lines>>,
           Top.phase # "expanding", NEW frame, SetTop(frame), TextOfCall(frame, <<>>)
    PROVE  TextInv'
<1> PICK n : n = Len(stack)
    OBVIOUS
<1>1. /\ IsText(lines) /\ Len(lines) = n /\ n # 0
      /\ TextOfCall(Top, lines[n])
    BY TopHasText
<1>2. lines[n] = <<>>
    BY <1>1 DEF TextOfCall
<1>3. Replaced(lines, n, lines[n], lines)
    <2> PICK s : s = lines
        OBVIOUS
    <2>1. IsText(s) /\ n = Len(s) /\ n # 0
        BY <1>1
    <2>2. Replaced(s, n, s[n], s)
        BY <2>1, SameTop
    <2> QED
        BY <2>2
<1>4. lines' = [lines EXCEPT ![Len(lines)] = <<>>]
    BY <1>1, <1>2, <1>3 DEF Replaced
<1> QED
    BY <1>4, TopText

LEMMA ResolveText == StackInv /\ TextInv /\ Resolve => TextInv'
<1> SUFFICES ASSUME StackInv, TextInv, Resolve PROVE TextInv'
    OBVIOUS
<1>1. PICK src : Keyed(src)
    BY DEF Resolve
<1> DEFINE frame == [Top EXCEPT !.src = src, !.key = Key(src), !.phase = "keyed"]
<1>2. SetTop(frame) /\ UNCHANGED <<world, verdict, output, lines>> /\ Top.phase # "expanding"
    BY <1>1 DEF Keyed, Resolve, Enters
<1>3. frame.phase = "keyed"
    BY TopHasText DEF FrameType
<1> HIDE DEF frame
<1>4. TextOfCall(frame, <<>>)
    BY <1>3, EmptyText DEF TextOfCall
<1> QED
    BY <1>2, <1>4, EmptyTop

LEMMA OpenText == StackInv /\ TextInv /\ Open => TextInv'
<1> SUFFICES ASSUME StackInv, TextInv, Open PROVE TextInv'
    OBVIOUS
<1> DEFINE file == Found(Top.src.loc, WithDockerfile)
<1>1. Top \in FrameType /\ UNCHANGED <<world, verdict, output, lines>> /\ Top.phase # "expanding"
    BY TopHasText DEF Open, Enters
<1>2. PICK ident \in ReadIdents(Top.src) :
        SetTop([Top EXCEPT !.src.ident = ident,
                           !.file = file,
                           !.scope = Append(@, DisplayPath([Top.src EXCEPT !.ident = ident], file)),
                           !.chain = Append(@, Top.key),
                           !.pc = 1,
                           !.phase = "expanding"])
    BY DEF Open
<1> DEFINE frame == [Top EXCEPT !.src.ident = ident,
                                !.file = file,
                                !.scope = Append(@, DisplayPath([Top.src EXCEPT !.ident = ident], file)),
                                !.chain = Append(@, Top.key),
                                !.pc = 1,
                                !.phase = "expanding"]
<1>3. frame.pc = 1 /\ frame.phase = "expanding"
    BY <1>1 DEF FrameType
<1>4. SetTop(frame)
    BY <1>2
<1> HIDE DEF frame
<1>5. ASSUME NEW text PROVE Expanded(text, 1, <<>>)
    <2>1. 1..(1 - 1) = {}
        OBVIOUS
    <2>2. Gathered({}, <<>>) /\ {} \in SUBSET Loc
        BY DEF Gathered
    <2> QED
        BY <2>1, <2>2, EmptyText DEF Expanded, Leading
<1>6. TextOfCall(frame, <<>>)
    BY <1>3, <1>5, EmptyText DEF TextOfCall
<1> QED
    BY <1>1, <1>4, <1>6, EmptyTop

\* The instruction a call is at, in its text.
LEMMA AtText ==
    ASSUME StackInv, Progress, NEW i \in DOMAIN stack, stack[i].phase = "expanding"
    PROVE  LET text == world[stack[i].file] IN
           /\ text = TextOf(stack[i].key.loc) /\ stack[i].key.loc \in Loc
           /\ text \in Body /\ Len(text) \in Nat /\ DOMAIN text = 1..Len(text)
           /\ stack[i].pc \in 1..(Len(text) + 1) /\ stack[i].pc \in Nat \ {0}
           /\ \A k \in 1..stack[i].pc : stack[i].pc \in DOMAIN text => k \in DOMAIN text
<1> PICK text : text = world[stack[i].file]
    OBVIOUS
<1>1. stack[i] \in FrameType
    BY TopType DEF StackInv
<1>2. /\ stack[i].key.loc \in Loc
      /\ text = TextOf(stack[i].key.loc) /\ text \in Body
    BY <1>1 DEF StackInv, OpenedFile, Expanding, TextOf, FrameType, Source
<1>3. Len(text) \in Nat /\ DOMAIN text = 1..Len(text)
    BY <1>2, WorldAssumption
<1>4. stack[i].pc \in 1..(Len(text) + 1) /\ stack[i].pc \in Nat \ {0}
    <2>1. stack[i].pc \in 1..(Len(text) + 1)
        BY DEF Progress, PassedInstr
    <2> QED
        BY <1>3, <2>1
<1>5. \A k \in 1..stack[i].pc : stack[i].pc \in DOMAIN text => k \in DOMAIN text
    BY <1>3, <1>4
<1> QED
    BY <1>2, <1>3, <1>4, <1>5

\* An instruction that makes no call appends its lines.
LEMMA AppendText ==
    ASSUME StackInv, TextInv, UNCHANGED <<world, verdict, output>>, Top.phase = "expanding",
           NEW more, AppendLines(more), SetTop([Top EXCEPT !.pc = @ + 1]),
           NEW t, t = lines[Len(stack)] \o more, IsText(t),
           Expanded(world[Top.file], Top.pc + 1, t)
    PROVE  TextInv'
<1> DEFINE next  == Top.pc + 1
           frame == [Top EXCEPT !.pc = next]
<1>1. Top \in FrameType /\ Len(lines) = Len(stack)
    BY TopHasText
<1>2. frame.phase = "expanding" /\ frame.pc = next /\ frame.file = Top.file
    BY <1>1 DEF FrameType
<1>3. SetTop(frame)
    OBVIOUS
<1>4. Expanded(world[Top.file], next, t)
    OBVIOUS
<1> HIDE DEF frame, next
<1>5. TextOfCall(frame, t)
    BY <1>2, <1>4 DEF TextOfCall
<1>6. lines' = [lines EXCEPT ![Len(lines)] = t]
    BY <1>1 DEF AppendLines
<1> QED
    BY <1>3, <1>5, <1>6, TopText

\* The call on top is at an instruction.
LEMMA TopAtInstr ==
    ASSUME StackInv, Progress, TextInv, Top.phase = "expanding", Top.pc \in DOMAIN Text
    PROVE  /\ Top.pc \in Nat \ {0} /\ \A k \in 1..Top.pc : k \in DOMAIN Text
           /\ IsText(lines[Len(stack)]) /\ Expanded(Text, Top.pc, lines[Len(stack)])
<1> PICK n : n = Len(stack)
    OBVIOUS
<1>1. n \in DOMAIN stack /\ Top = stack[n] /\ TextOfCall(Top, lines[n])
    BY TopHasText
<1>2. /\ Top.pc \in 1..(Len(Text) + 1) /\ Len(Text) \in Nat
      /\ \A k \in 1..Top.pc : k \in DOMAIN Text
    BY <1>1, AtText DEF Text
<1>3. Top.pc \in Nat \ {0}
    BY <1>2
<1> QED
    BY <1>1, <1>2, <1>3 DEF TextOfCall, Text

LEMMA KeepText == StackInv /\ Progress /\ TextInv /\ Keep => TextInv'
<1> SUFFICES ASSUME StackInv, Progress, TextInv, Keep PROVE TextInv'
    OBVIOUS
<1>1. /\ Top.phase = "expanding" /\ Top.pc \in DOMAIN Text /\ Instr = Text[Top.pc]
      /\ Instr.op \in {"FROM", "COPY", "MOUNT", "RUN", "ARG"}
      /\ AppendLines(<<Instr>>) /\ SetTop([Top EXCEPT !.pc = @ + 1])
      /\ UNCHANGED <<world, verdict, output>>
    BY DEF Keep, AtInstr, Enters, Instr
<1>2. /\ Top.pc \in Nat \ {0} /\ \A k \in 1..Top.pc : k \in DOMAIN Text
      /\ IsText(lines[Len(stack)]) /\ Expanded(Text, Top.pc, lines[Len(stack)])
    BY <1>1, TopAtInstr
<1> PICK text : text = Text
    OBVIOUS
<1> PICK pc \in Nat \ {0} : pc = Top.pc
    BY <1>2
<1> PICK t : t = lines[Len(stack)]
    OBVIOUS
<1>3. IsText(t \o <<text[pc]>>) /\ Expanded(text, pc + 1, t \o <<text[pc]>>)
    BY <1>1, <1>2, KeptExpanded
<1> QED
    BY <1>1, <1>3, AppendText DEF Text

LEMMA IncludeEnvText == StackInv /\ Progress /\ TextInv /\ IncludeEnv => TextInv'
<1> SUFFICES ASSUME StackInv, Progress, TextInv, IncludeEnv PROVE TextInv'
    OBVIOUS
<1> PICK by : by = Top.file
    OBVIOUS
<1> PICK file : file = Child(Instr).loc
    OBVIOUS
<1> PICK more : more = Marked(<<EnvLine(Instr, EnvFile(Instr))>>, "include", file, by)
    OBVIOUS
<1>1. /\ Top.phase = "expanding" /\ Top.pc \in DOMAIN Text /\ Instr = Text[Top.pc]
      /\ Instr.op \in EnvOps
      /\ AppendLines(more) /\ SetTop([Top EXCEPT !.pc = @ + 1])
      /\ UNCHANGED <<world, verdict, output>>
    BY DEF IncludeEnv, AtInstr, Enters, Instr
<1>2. /\ Top.pc \in Nat \ {0} /\ \A k \in 1..Top.pc : k \in DOMAIN Text
      /\ IsText(lines[Len(stack)]) /\ Expanded(Text, Top.pc, lines[Len(stack)])
    BY <1>1, TopAtInstr
<1> PICK text : text = Text
    OBVIOUS
<1> PICK pc \in Nat \ {0} : pc = Top.pc
    BY <1>2
<1> PICK t : t = lines[Len(stack)]
    OBVIOUS
<1>3. more = Marked(<<EnvLine(text[pc], EnvFile(text[pc]))>>, "include", file, by)
    BY <1>1
<1>4. IsText(t \o more) /\ Expanded(text, pc + 1, t \o more)
    BY <1>1, <1>2, <1>3, EnvExpanded
<1> QED
    BY <1>1, <1>4, AppendText DEF Text

\* The text of a new call is empty.
LEMMA CallText == StackInv /\ TextInv /\ Call => TextInv'
<1> SUFFICES ASSUME StackInv, TextInv, Call PROVE TextInv'
    OBVIOUS
<1> PICK n : n = Len(stack)
    OBVIOUS
<1> DEFINE frame == Frame(Child(Instr), Instr.op, Instr.target, Alias(Child(Instr)), Top.chain, Top.scope)
<1>1. n \in Nat \ {0} /\ DOMAIN stack = 1..n /\ stack \in Seq(FrameType)
    BY TopType DEF StackInv, TypeOK
<1>2. stack' = Append(stack, frame) /\ UNCHANGED <<world, verdict, output>>
    BY DEF Call
<1>3. frame.phase = "called"
    BY DEF Frame
<1> HIDE DEF frame
<1>4. /\ DOMAIN stack' = 1..(n + 1) /\ Len(stack') = n + 1 /\ stack'[n + 1] = frame
      /\ \A i \in 1..n : stack'[i] = stack[i]
    BY <1>1, <1>2
<1>5. IsText(lines') /\ Len(lines') = n + 1 /\ lines'[n + 1] = <<>> /\ \A i \in 1..n : lines'[i] = lines[i]
    <2> PICK s : s = lines
        OBVIOUS
    <2> PICK u : u = lines'
        OBVIOUS
    <2>1. IsText(s) /\ n = Len(s) /\ u = Append(s, <<>>)
        BY DEF TextInv, Call
    <2>2. PushedOn(s, n, <<>>, u)
        BY <2>1, TextPushed
    <2> QED
        BY <2>2 DEF PushedOn
<1>6. TextOfCall(frame, <<>>)
    BY <1>3, EmptyText DEF TextOfCall
<1>7. ASSUME NEW i \in 1..(n + 1) PROVE TextOfCall(stack'[i], lines'[i])
    <2>1. CASE i = n + 1
        BY <1>4, <1>5, <1>6, <2>1
    <2>2. CASE i # n + 1
        <3>1. i \in 1..n
            BY <1>1, <2>2
        <3>2. TextOfCall(stack[i], lines[i])
            BY <1>1, <3>1 DEF TextInv
        <3> QED
            BY <1>4, <1>5, <3>1, <3>2
    <2> QED
        BY <2>1, <2>2
<1>8. NothingSkipped' /\ ImportedArgsStayGlobal'
    BY <1>2, OutputStays DEF TextInv
<1> QED
    BY <1>2, <1>4, <1>5, <1>7, <1>8, CallsText DEF TextInv

\* A call that has come to the end of its file.
LEMMA TopAtEnd ==
    ASSUME StackInv, Progress, TextInv, AtEnd
    PROVE  LET l == Top.key.loc IN
           /\ l \in Loc /\ TextOf(l) \in Body /\ IsText(lines[Len(stack)])
           /\ Expanded(TextOf(l), Len(TextOf(l)) + 1, lines[Len(stack)])
<1> PICK n : n = Len(stack)
    OBVIOUS
<1> PICK text : text = Text
    OBVIOUS
<1>1. n \in DOMAIN stack /\ Top = stack[n] /\ TextOfCall(Top, lines[n])
    BY TopHasText
<1>2. Top.phase = "expanding" /\ Top.pc \notin DOMAIN text
    BY DEF AtEnd, Enters
<1>3. /\ text = TextOf(Top.key.loc) /\ Top.key.loc \in Loc /\ text \in Body
      /\ Len(text) \in Nat /\ DOMAIN text = 1..Len(text)
      /\ Top.pc \in 1..(Len(text) + 1)
    BY <1>1, <1>2, AtText DEF Text
<1>4. Top.pc = Len(text) + 1
    BY <1>2, <1>3
<1>5. IsText(lines[n]) /\ Expanded(text, Top.pc, lines[n])
    BY <1>1, <1>2 DEF TextOfCall, Text
<1> QED
    BY <1>3, <1>4, <1>5

LEMMA WriteText == StackInv /\ Progress /\ TextInv /\ Write => TextInv'
<1> SUFFICES ASSUME StackInv, Progress, TextInv, Write PROVE TextInv'
    OBVIOUS
<1>1. /\ AtEnd /\ Len(stack) = 1 /\ Top.key.loc = Root /\ UNCHANGED <<world, stack, lines>>
      /\ output' = RedeclareArgTop(PostProcess(lines[1], Context))
    BY TopType DEF StackInv, CalledBy, Write, control, Top
<1> PICK t : t = lines[1]
    OBVIOUS
<1> PICK ctx : ctx = Context
    OBVIOUS
<1> PICK pc : pc = Len(TextOf(Root)) + 1
    OBVIOUS
<1> PICK out : out = RedeclareArgTop(PostProcess(t, ctx))
    OBVIOUS
<1>2. TextOf(Root) \in Body /\ IsText(t) /\ Expanded(TextOf(Root), pc, t)
    BY <1>1, TopAtEnd
<1>3. output' = out
    BY <1>1
<1>4. \A l \in Reached : \A i \in DOMAIN TextOf(l) :
        TextOf(l)[i].op \in Lasting => \E k \in DOMAIN out : Becomes(TextOf(l)[i], out[k])
    BY <1>2, WrittenText
<1>5. \A arg \in Globals :
        \E k \in DOMAIN out : out[k] = arg /\ \A j \in 1..k : ~IsFrom(out[j])
    BY <1>2, WrittenText
<1>6. NothingSkipped'
    BY <1>1, <1>3, <1>4, SameFiles DEF NothingSkipped
<1>7. ImportedArgsStayGlobal'
    <2>1. Globals' = Globals
        BY <1>1, SameFiles
    <2>2. (\A arg \in Globals : AboveEveryStage(arg))'
        BY <1>3, <1>5, <2>1 DEF AboveEveryStage
    <2> QED
        BY <2>2 DEF ImportedArgsStayGlobal, Globals
<1>8. \A i \in DOMAIN stack' : TextOfCall(stack'[i], lines'[i])
    BY <1>1 DEF TextInv
<1> QED
    BY <1>1, <1>6, <1>7, <1>8, CallsText DEF TextInv

\* What the call below makes of the text of the file that has been left.
LEMMA ReturnedText ==
    ASSUME StackInv, Progress, TextInv, Return, NEW n \in Nat, n # 0, Len(stack) = n + 1
    PROVE  LET parent == stack[n]
               text   == world[parent.file]
           IN  /\ parent.phase = "expanding"
               /\ \E t : /\ lines' = [SubSeq(lines, 1, n) EXCEPT ![n] = t]
                         /\ IsText(t) /\ Expanded(text, parent.pc + 1, t)
<1>0. n \in 1..n /\ Len(stack) - 1 = n
    OBVIOUS
<1> PICK parent : parent = stack[n]
    OBVIOUS
<1> PICK text : text = world[parent.file]
    OBVIOUS
<1> PICK instr : instr = text[parent.pc]
    OBVIOUS
<1> PICK s : s = lines[n + 1]
    OBVIOUS
<1> PICK r : r = lines[n]
    OBVIOUS
<1> PICK ctx : ctx = Context
    OBVIOUS
<1> PICK file : file = Top.src.loc
    OBVIOUS
<1> PICK alias : alias = Top.alias
    OBVIOUS
<1> PICK by : by = parent.file
    OBVIOUS
<1> PICK body : body = Marked(PostProcess(s, ctx), IncludeType(instr.op), file, by)
    OBVIOUS
<1> PICK t : t = Integrate(instr, alias, r, body)
    OBVIOUS
<1>1. /\ DOMAIN stack = 1..(n + 1) /\ n \in DOMAIN stack /\ n < Len(stack) /\ n + 1 \in DOMAIN stack
      /\ parent.phase = "expanding" /\ AtEnd /\ Top = stack[n + 1]
    <2>1. /\ DOMAIN stack = 1..(n + 1) /\ n \in DOMAIN stack /\ n # Len(stack)
          /\ n < Len(stack) /\ n + 1 \in DOMAIN stack
        BY TopType DEF StackInv
    <2> QED
        BY <2>1, TopType DEF StackInv, Return, Top
<1>2. /\ parent.pc \in DOMAIN text /\ instr.op \in CallOps /\ instr.to = Top.key.loc
    BY <1>1 DEF StackInv, CalledBy, Waiting
<1>3. /\ parent.pc \in Nat \ {0}
      /\ \A k \in 1..parent.pc : k \in DOMAIN text
    BY <1>1, <1>2, AtText
<1> PICK pc \in Nat \ {0} : pc = parent.pc
    BY <1>3
<1>4. IsText(r) /\ Expanded(text, pc, r)
    BY <1>1 DEF TextInv, TextOfCall
<1> PICK l : l = Top.key.loc
    OBVIOUS
<1>5. l \in Loc /\ TextOf(l) \in Body /\ IsText(s) /\ Expanded(TextOf(l), Len(TextOf(l)) + 1, s)
    BY <1>1, TopAtEnd
<1>6. IsText(t) /\ Expanded(text, pc + 1, t)
    <2>1. Awaits(text, pc, r, l, s)
        BY <1>2, <1>3, <1>4, <1>5 DEF Awaits
    <2>2. GoneOn(text, pc, Integrated(text[pc], alias, r, s, ctx, file, by))
        BY <1>5, <2>1, ReturnExpanded
    <2> QED
        BY <2>2 DEF GoneOn, Integrated
<1>7. lines' = [SubSeq(lines, 1, n) EXCEPT ![n] = t]
    <2>1. lines' = [SubSeq(lines, 1, n) EXCEPT ![n] = Integrate(instr, alias, @, body)]
        BY <1>0 DEF Return
    <2>2. SubSeq(lines, 1, n)[n] = r
        <3> PICK all : all = lines
            OBVIOUS
        <3> PICK u : u = SubSeq(all, 1, n)
            OBVIOUS
        <3>1. IsText(all) /\ n \in Nat /\ n + 1 = Len(all)
            BY DEF TextInv
        <3>2. PoppedTo(all, n, u)
            BY <3>1, TextPopped
        <3> QED
            BY <1>0, <3>2 DEF PoppedTo
    <2> QED
        BY <2>1, <2>2
<1> QED
    BY <1>1, <1>6, <1>7

LEMMA ReturnText == StackInv /\ Progress /\ TextInv /\ Return => TextInv'
<1> SUFFICES ASSUME StackInv, Progress, TextInv, Return PROVE TextInv'
    OBVIOUS
<1>1. /\ TypeOK /\ Len(stack) \in Nat /\ Len(stack) > 1 /\ DOMAIN stack = 1..Len(stack)
      /\ stack \in Seq(FrameType)
    BY TopType DEF StackInv, Return, TypeOK
<1> PICK n \in Nat : n # 0 /\ n = Len(stack) - 1
    <2>1. Len(stack) - 1 \in Nat /\ Len(stack) - 1 # 0
        BY <1>1
    <2> QED
        BY <2>1
<1>2. Len(stack) = n + 1
    BY <1>1
<1> DEFINE next  == stack[n].pc + 1
           frame == [stack[n] EXCEPT !.pc = next]
           below == SubSeq(stack, 1, n)
<1>3. /\ stack' = [below EXCEPT ![n] = [below[n] EXCEPT !.pc = @ + 1]]
      /\ UNCHANGED <<world, verdict, output>>
    BY DEF Return
<1>4. PICK t : /\ lines' = [SubSeq(lines, 1, n) EXCEPT ![n] = t]
               /\ IsText(t) /\ Expanded(world[stack[n].file], next, t)
               /\ stack[n].phase = "expanding"
    BY <1>2, ReturnedText
<1>5. n \in DOMAIN stack /\ stack[n] \in FrameType
    BY <1>1, <1>2
<1>6. /\ below \in Seq(FrameType) /\ Len(below) = n /\ DOMAIN below = 1..n
      /\ \A i \in 1..n : below[i] = stack[i]
    BY <1>1, <1>2, SubSeqProperties
<1> HIDE DEF below
<1>7. stack' = [below EXCEPT ![n] = frame]
    BY <1>3, <1>6
<1> HIDE DEF next
<1>8. frame.phase = "expanding" /\ frame.pc = next /\ frame.file = stack[n].file
    BY <1>4, <1>5 DEF FrameType
<1> HIDE DEF frame
<1>9. DOMAIN stack' = 1..n /\ Len(stack') = n /\ stack'[n] = frame
      /\ \A i \in 1..n : i # n => stack'[i] = stack[i]
    BY <1>6, <1>7
<1>10. /\ IsText(lines') /\ Len(lines') = n /\ lines'[n] = t
       /\ \A i \in 1..n : i # n => lines'[i] = lines[i]
    <2> PICK s : s = lines
        OBVIOUS
    <2> PICK u : u = SubSeq(s, 1, n)
        OBVIOUS
    <2> PICK v : v = lines'
        OBVIOUS
    <2>1. IsText(s) /\ n \in Nat /\ n + 1 = Len(s)
        BY <1>2 DEF TextInv
    <2>2. PoppedTo(s, n, u)
        BY <2>1, TextPopped
    <2>3. IsText(u) /\ n = Len(u) /\ n # 0 /\ Replaced(u, n, t, v)
        BY <1>4, <2>2 DEF PoppedTo, Replaced
    <2>4. DiffersAt(u, n, t, v)
        BY <2>3, TextReplaced, Zenon
    <2> QED
        BY <2>2, <2>4 DEF PoppedTo, DiffersAt
<1>11. TextOfCall(frame, t)
    BY <1>4, <1>8 DEF TextOfCall
<1>12. ASSUME NEW i \in 1..n PROVE TextOfCall(stack'[i], lines'[i])
    <2>1. i \in DOMAIN stack
        BY <1>1, <1>2
    <2> QED
        BY <1>9, <1>10, <1>11, <2>1 DEF TextInv
<1>13. NothingSkipped' /\ ImportedArgsStayGlobal'
    BY <1>3, OutputStays DEF TextInv
<1> QED
    BY <1>3, <1>9, <1>10, <1>12, <1>13, CallsText DEF TextInv

LEMMA StepText == StackInv /\ Progress /\ TextInv /\ [Next]_vars => TextInv'
<1> SUFFICES ASSUME StackInv, Progress, TextInv, [Next]_vars PROVE TextInv'
    OBVIOUS
<1>1. CASE \/ DepthExceeded \/ ResolveFails \/ CycleDetected \/ RefRejected \/ TargetMissing
    BY <1>1, FinishText
       DEF DepthExceeded, ResolveFails, CycleDetected, RefRejected, TargetMissing, Finish, control
<1>2. CASE ReadFails \/ IncludeEnvFails
    <2>1. PICK code \in ReadCodes : Finish(code, <<>>)
        BY <1>2, ReadFailsCode
    <2> QED
        BY <2>1, FinishText DEF Finish, control, ReadCodes, RemoteErrors
<1>3. CASE Resolve
    BY <1>3, ResolveText
<1>4. CASE Open
    BY <1>4, OpenText
<1>5. CASE Keep
    BY <1>5, KeepText
<1>6. CASE IncludeEnv
    BY <1>6, IncludeEnvText
<1>7. CASE Call
    BY <1>7, CallText
<1>8. CASE Return
    BY <1>8, ReturnText
<1>9. CASE Write
    BY <1>9, WriteText
<1>10. CASE UNCHANGED vars
    BY <1>10, FinishText DEF vars
<1> QED
    BY <1>1, <1>2, <1>3, <1>4, <1>5, <1>6, <1>7, <1>8, <1>9, <1>10 DEF Next, Step, Done

LEMMA InitText == Init => TextInv
<1> SUFFICES ASSUME Init PROVE TextInv
    OBVIOUS
<1>1. DOMAIN stack = {1} /\ Len(stack) = 1 /\ stack[1].phase = "called" /\ verdict.code # "ok"
    BY DEF Init, Frame, Running
<1>2. IsText(lines) /\ Len(lines) = 1 /\ lines[1] = <<>>
    <2> PICK t : t = <<>>
        OBVIOUS
    <2>1. lines = <<t>>
        BY DEF Init
    <2> QED
        BY <2>1, LineText
<1>3. TextOfCall(stack[1], lines[1])
    BY <1>1, <1>2, EmptyText DEF TextOfCall
<1>4. NothingSkipped /\ ImportedArgsStayGlobal
    BY <1>1 DEF NothingSkipped, ImportedArgsStayGlobal
<1> QED
    BY <1>1, <1>2, <1>3, <1>4 DEF TextInv

LEMMA TextInvariant == Spec => []TextInv
BY InitText, StepText, StackInvariant, ProgressInvariant, PTL DEF Spec

\* Of all the files the includes lead to, no instruction is lost: whatever is
\* scoped, dropped as repeated, moved or renamed on the way, each of them has its
\* line in the text that is written.
THEOREM NothingIsSkipped == Spec => []NothingSkipped
<1>1. TextInv => NothingSkipped
    BY DEF TextInv
<1> QED
    BY <1>1, TextInvariant, PTL

\* The ARGs a file declares before its first stage are above every stage of the
\* text that is written, however deep its import is nested.
THEOREM ImportedArgsGlobal == Spec => []ImportedArgsStayGlobal
<1>1. TextInv => ImportedArgsStayGlobal
    BY DEF TextInv
<1> QED
    BY <1>1, TextInvariant, PTL

-----------------------------------------------------------------------------
(***************************************************************************)
(* Why a run fails.  Every call is for a file the includes lead to from    *)
(* the root, and one that is for a stage was asked for it.                 *)
(***************************************************************************)
LEMMA ReachedGoesOn ==
    ASSUME NEW l \in Reached, NEW m \in Loc, Loads(l, m)
    PROVE  m \in Reached
BY DEF Reached

LEMMA StackReached ==
    ASSUME StackInv
    PROVE  \A i \in DOMAIN stack : stack[i].key.loc \in Reached
<1> PICK n \in Nat : n = Len(stack)
    BY TopType DEF StackInv
<1> DEFINE known == {k \in 0..n : k = 0 \/ stack[k].key.loc \in Reached}
<1>1. DOMAIN stack = 1..n /\ \A i \in 1..n : stack[i] \in FrameType
    BY TopType DEF StackInv
<1>2. ASSUME NEW k \in 1..n, k - 1 \in known PROVE k \in known
    <2>1. stack[k].key.loc \in Loc
        BY <1>1 DEF FrameType, Source
    <2>2. CASE k = 1
        <3>1. stack[k].key.loc = Root
            BY <2>2 DEF StackInv, CalledBy
        <3>2. Root \in Reached
            BY LocationAssumption DEF Reached
        <3> QED
            BY <3>1, <3>2
    <2>3. CASE k # 1
        <3> PICK j \in 1..n : j = k - 1
            BY <2>3
        <3>1. j + 1 = k /\ j < n /\ j # n /\ j # 0 /\ j \in known
            BY <1>2
        <3>2. stack[j].key.loc \in Reached
            BY <3>1
        <3>3. stack[j].phase = "expanding"
            BY <1>1, <3>1, TopType DEF StackInv
        <3>4. /\ stack[j].pc \in DOMAIN world[stack[j].file]
              /\ Waiting(j).op \in CallOps /\ Waiting(j).to = stack[k].key.loc
            BY <1>1, <3>1 DEF StackInv, CalledBy
        <3>5. /\ stack[j].file = Found(stack[j].key.loc, WithDockerfile)
              /\ world[stack[j].file] \in Body
            BY <1>1, <3>3 DEF StackInv, OpenedFile, Expanding
        <3>6. Loads(stack[j].key.loc, stack[k].key.loc)
            BY <3>4, <3>5, TextIsThere DEF Loads, Waiting
        <3> QED
            BY <2>1, <3>2, <3>6, ReachedGoesOn
    <2> QED
        BY <2>2, <2>3
<1>3. 0 \in known
    OBVIOUS
<1> HIDE DEF known
<1>4. 0..n \subseteq known
    BY <1>2, <1>3, InductionUpTo
<1>5. \A i \in 1..n : i \in 0..n /\ i # 0
    OBVIOUS
<1> QED
    BY <1>1, <1>4, <1>5 DEF known

\* What a call waits for, or has come to, is asked for in the files.
LEMMA InstrFollowed ==
    ASSUME StackInv, NEW i \in DOMAIN stack, stack[i].phase = "expanding",
           stack[i].pc \in DOMAIN world[stack[i].file]
    PROVE  Waiting(i) \in Followed
<1> PICK l : l = stack[i].key.loc
    OBVIOUS
<1>1. l \in Reached
    BY StackReached
<1>2. TextOf(l) = world[stack[i].file] /\ TextOf(l) \in Body
    BY DEF StackInv, OpenedFile, Expanding, TextOf
<1> QED
    BY <1>1, <1>2 DEF Followed, Waiting

LEMMA EnvIsNoCall == CallOps \cap EnvOps = {}
BY DEF CallOps, EnvOps

LEMMA AskedByInstr ==
    ASSUME NEW instr \in Followed, instr.op \in CallOps \cup EnvOps
    PROVE  [loc |-> instr.to, file |-> FileFor(instr)] \in Asked
BY DEF Asked

LEMMA TopAsked ==
    ASSUME StackInv
    PROVE  [loc |-> Top.key.loc, file |-> Found(Top.key.loc, WithDockerfile)] \in Asked
<1> PICK n \in Nat : n = Len(stack)
    BY TopType DEF StackInv
<1>1. DOMAIN stack = 1..n /\ n \in 1..n /\ Top = stack[n]
    BY TopType DEF StackInv, Top
<1>2. CASE n = 1
    <2>1. Top.key.loc = Root
        BY <1>1, <1>2 DEF StackInv, CalledBy
    <2> QED
        BY <2>1 DEF Asked
<1>3. CASE n # 1
    <2> PICK j \in 1..n : j = n - 1
        BY <1>1, <1>3
    <2>1. j + 1 = n /\ j < n /\ j # n
        OBVIOUS
    <2>2. stack[j].phase = "expanding"
        BY <1>1, <2>1, TopType DEF StackInv
    <2>3. /\ stack[j].pc \in DOMAIN world[stack[j].file]
          /\ Waiting(j).op \in CallOps /\ Waiting(j).to = Top.key.loc
        BY <1>1, <2>1 DEF StackInv, CalledBy
    <2>4. Waiting(j) \in Followed
        BY <1>1, <2>2, <2>3, InstrFollowed
    <2>5. FileFor(Waiting(j)) = Found(Top.key.loc, WithDockerfile)
        BY <2>3 DEF FileFor
    <2> QED
        BY <2>3, <2>4, <2>5, AskedByInstr
<1> QED
    BY <1>2, <1>3

\* The instruction that the call on top is at.
LEMMA TopFollowed ==
    ASSUME StackInv, Top.phase = "expanding", Top.pc \in DOMAIN Text
    PROVE  Instr \in Followed /\ Text \in Body
<1>1. Len(stack) \in DOMAIN stack /\ Top = stack[Len(stack)]
    BY TopType DEF StackInv, Top
<1>2. Waiting(Len(stack)) \in Followed
    BY <1>1, InstrFollowed DEF Text
<1>3. Text \in Body
    BY <1>1 DEF StackInv, OpenedFile, Expanding, Text
<1> QED
    BY <1>1, <1>2, <1>3 DEF Waiting, Instr, Text

StageAsked == \E i \in Followed : i.op \in CallOps /\ i.target # NoStage

TargetsAsked == \A i \in DOMAIN stack : stack[i].target # NoStage => StageAsked

\* The files do not change, nor what they ask for.
LEMMA ReasonsStay ==
    ASSUME UNCHANGED world
    PROVE  /\ Asked' = Asked /\ (StageAsked' <=> StageAsked)
           /\ \A i : FromElsewhere(i)' <=> FromElsewhere(i)
<1>1. Followed' = Followed
    BY SameFiles DEF Followed
<1>2. \A l, ext : Found(l, ext)' = Found(l, ext)
    BY DEF Found
<1>3. \A instr : FileFor(instr)' = FileFor(instr)
    BY <1>2, SameFiles DEF FileFor
<1>4. Asked' = Asked
    BY <1>1, <1>2, <1>3 DEF Asked
<1> QED
    BY <1>1, <1>4 DEF StageAsked, FromElsewhere

\* What a code needs to be the right one.
Reason(code) ==
    /\ code = "missing-file" => \E a \in Asked : a.loc \notin Remote /\ world[a.file] = Absent
    /\ code \in {"remote-file-not-found", "remote-fetch-failed"} =>
            \E a \in Asked : FromElsewhere(a.loc)
    /\ code = "path-traversal" => \E a \in Asked : a.loc \in Remote \cup Rejected
    /\ code = "failed" =>
            \/ \E a \in Asked : \/ FromElsewhere(a.loc) \/ a.loc \in Rejected
                               \/ world[a.file] = Unreadable
            \/ StageAsked

LEMMA ReasonStays ==
    ASSUME UNCHANGED world, NEW code, Reason(code)
    PROVE  Reason(code)'
<1>1. \A a \in Asked : world'[a.file] = world[a.file]
    OBVIOUS
<1> QED
    BY <1>1, ReasonsStay DEF Reason

\* The command ends with code.
LEMMA FinishReason ==
    ASSUME NEW code, NEW chain, Finish(code, chain), Reason(code)
    PROVE  FailureIsReal'
<1>1. verdict'.code = code /\ UNCHANGED world
    BY DEF Finish, control
<1>2. Reason(code)'
    BY <1>1, ReasonStays
<1> QED
    BY <1>1, <1>2 DEF FailureIsReal, Reason, StageAsked

LEMMA OtherCode ==
    ASSUME NEW code, code \notin {"missing-file", "remote-file-not-found", "remote-fetch-failed",
                                  "path-traversal", "failed"}
    PROVE  Reason(code)
BY DEF Reason

\* What goes wrong at a file that is asked for.
LEMMA ReadReason ==
    ASSUME NEW a \in Asked, a.file \in Loc, NEW code, StackInv,
           IF a.loc \in Remote THEN code \in RemoteErrors
           ELSE world[a.file] \notin Body /\ code = ReadError(a.file)
    PROVE  Reason(code)
<1>1. CASE a.loc \in Remote
    BY <1>1 DEF Reason, RemoteErrors, FromElsewhere
<1>2. CASE a.loc \notin Remote
    <2>1. world[a.file] \in {Absent, Unreadable}
        BY <1>2 DEF StackInv, TypeOK
    <2>2. CASE world[a.file] = Absent
        <3>1. code = "missing-file"
            BY <1>2, <2>2, WorldAssumption DEF ReadError
        <3> QED
            BY <1>2, <2>2, <3>1 DEF Reason
    <2>3. CASE world[a.file] = Unreadable /\ world[a.file] # Absent
        <3>1. code = "failed"
            BY <1>2, <2>3 DEF ReadError
        <3> QED
            BY <1>2, <2>3, <3>1 DEF Reason
    <2> QED
        BY <2>1, <2>2, <2>3
<1> QED
    BY <1>1, <1>2

LEMMA ReadFailsReason == StackInv /\ ReadFails => FailureIsReal'
<1> SUFFICES ASSUME StackInv, ReadFails PROVE FailureIsReal'
    OBVIOUS
<1> PICK l : l = Top.src.loc
    OBVIOUS
<1> PICK file : file = Found(l, WithDockerfile)
    OBVIOUS
<1> PICK a : a = [loc |-> l, file |-> file]
    OBVIOUS
<1>1. l = Top.key.loc /\ l \in Loc
    BY TopType DEF StackInv, SameLocation, Top, FrameType, Source
<1>2. a \in Asked /\ a.loc = l /\ a.file = file /\ file \in Loc
    BY <1>1, TopAsked, LocationAssumption DEF Found
<1>3. PICK code : /\ Finish(code, <<>>)
                  /\ IF l \in Remote THEN code \in RemoteErrors
                     ELSE world[file] \notin Body /\ code = ReadError(file)
    BY DEF ReadFails
<1>4. Reason(code)
    BY <1>2, <1>3, ReadReason
<1> QED
    BY <1>3, <1>4, FinishReason

LEMMA IncludeEnvFailsReason == StackInv /\ IncludeEnvFails => FailureIsReal'
<1> SUFFICES ASSUME StackInv, IncludeEnvFails PROVE FailureIsReal'
    OBVIOUS
<1> PICK instr : instr = Instr
    OBVIOUS
<1> PICK l : l = instr.to
    OBVIOUS
<1> PICK file : file = EnvFile(instr)
    OBVIOUS
<1> PICK a : a = [loc |-> l, file |-> file]
    OBVIOUS
<1>1. /\ Top.phase = "expanding" /\ Top.pc \in DOMAIN Text /\ instr = Text[Top.pc]
      /\ instr.op \in EnvOps
    BY DEF IncludeEnvFails, AtInstr, Enters, Instr
<1>2. instr \in Followed /\ Text \in Body
    BY <1>1, TopFollowed
<1>3. l \in Loc
    BY <1>1, <1>2, WorldAssumption
<1>4. FileFor(instr) = file /\ file \in Loc
    BY <1>1, <1>3, EnvIsNoCall, LocationAssumption DEF FileFor, EnvFile, Found
<1>5. a \in Asked /\ a.loc = l /\ a.file = file
    BY <1>1, <1>2, <1>4, AskedByInstr
<1>6. PICK code : /\ Finish(code, <<>>)
                  /\ IF l \in Remote THEN code \in RemoteErrors
                     ELSE world[file] \notin Body /\ code = ReadError(file)
    BY DEF IncludeEnvFails
<1>7. Reason(code)
    BY <1>4, <1>5, <1>6, ReadReason
<1> QED
    BY <1>6, <1>7, FinishReason

LEMMA ResolveFailsReason == StackInv /\ ResolveFails => FailureIsReal'
<1> SUFFICES ASSUME StackInv, ResolveFails PROVE FailureIsReal'
    OBVIOUS
<1> PICK a : a = [loc |-> Top.key.loc, file |-> Found(Top.key.loc, WithDockerfile)]
    OBVIOUS
<1>1. a \in Asked /\ a.loc = Top.src.loc
    BY TopAsked, TopType DEF StackInv, SameLocation, Top
<1>2. FromElsewhere(a.loc)
    BY <1>1 DEF ResolveFails, NeedsIdent, FromElsewhere
<1>3. PICK code \in {"failed", "remote-fetch-failed"} : Finish(code, <<>>)
    BY DEF ResolveFails
<1>4. Reason(code)
    BY <1>1, <1>2 DEF Reason
<1> QED
    BY <1>3, <1>4, FinishReason

LEMMA RefRejectedReason == StackInv /\ RefRejected => FailureIsReal'
<1> SUFFICES ASSUME StackInv, RefRejected PROVE FailureIsReal'
    OBVIOUS
<1> PICK a : a = [loc |-> Instr.to, file |-> FileFor(Instr)]
    OBVIOUS
<1>1. /\ Top.phase = "expanding" /\ Top.pc \in DOMAIN Text
      /\ Instr.op \in CallOps \cup EnvOps /\ Instr.to \in Rejected
    BY DEF RefRejected, AtInstr, Enters
<1>2. a \in Asked /\ a.loc \in Rejected
    BY <1>1, TopFollowed, AskedByInstr
<1>3. PICK code \in {"path-traversal", "failed"} : Finish(code, <<>>)
    BY DEF RefRejected
<1>4. Reason(code)
    BY <1>2 DEF Reason
<1> QED
    BY <1>3, <1>4, FinishReason

LEMMA TargetMissingReason == StackInv /\ TargetsAsked /\ TargetMissing => FailureIsReal'
<1> SUFFICES ASSUME StackInv, TargetsAsked, TargetMissing PROVE FailureIsReal'
    OBVIOUS
<1>1. Context.target # NoStage /\ Finish("failed", <<>>)
    BY DEF TargetMissing, TargetFound
<1>2. StageAsked
    BY <1>1, TopType DEF TargetsAsked, StackInv, Context, Top
<1>3. Reason("failed")
    BY <1>2 DEF Reason
<1> QED
    BY <1>1, <1>3, FinishReason

LEMMA StepReason ==
    StackInv /\ TargetsAsked /\ FailureIsReal /\ [Next]_vars => FailureIsReal'
<1> SUFFICES ASSUME StackInv, TargetsAsked, FailureIsReal, [Next]_vars PROVE FailureIsReal'
    OBVIOUS
<1>1. CASE UNCHANGED <<world, verdict>>
    <2>1. Reason(verdict.code)
        BY DEF FailureIsReal, Reason, StageAsked
    <2> PICK code : code = verdict.code
        OBVIOUS
    <2>2. Reason(code)'
        BY <1>1, <2>1, ReasonStays
    <2> QED
        BY <1>1, <2>2 DEF FailureIsReal, Reason, StageAsked
<1>2. CASE DepthExceeded
    <2>1. Finish("include-depth-exceeded", Top.chain)
        BY <1>2 DEF DepthExceeded
    <2> QED
        BY <2>1, OtherCode, FinishReason
<1>3. CASE CycleDetected
    <2>1. Finish("include-cycle", Append(Top.chain, Top.key))
        BY <1>3 DEF CycleDetected
    <2> QED
        BY <2>1, OtherCode, FinishReason
<1>4. CASE Write
    BY <1>4 DEF Write, FailureIsReal
<1>5. CASE ReadFails \/ IncludeEnvFails \/ ResolveFails \/ RefRejected \/ TargetMissing
    BY <1>5, ReadFailsReason, IncludeEnvFailsReason, ResolveFailsReason, RefRejectedReason,
       TargetMissingReason
<1>6. CASE Resolve \/ Open \/ Keep \/ Call \/ IncludeEnv \/ Return \/ Done \/ UNCHANGED vars
    BY <1>1, <1>6 DEF Resolve, Open, Keep, Call, IncludeEnv, Return, Done, vars
<1> QED
    BY <1>2, <1>3, <1>4, <1>5, <1>6 DEF Next, Step

\* A call is for a stage only when the instruction that made it named one.
LEMMA StepTargets == StackInv /\ TargetsAsked /\ [Next]_vars => TargetsAsked'
<1> SUFFICES ASSUME StackInv, TargetsAsked, [Next]_vars PROVE TargetsAsked'
    OBVIOUS
<1>1. StageAsked' <=> StageAsked
    <2>1. UNCHANGED world
        BY DEF Next, Step, DepthExceeded, Resolve, ResolveFails, CycleDetected, Open, ReadFails, Keep,
               RefRejected, Call, IncludeEnv, IncludeEnvFails, Return, TargetMissing, Write, Done,
               Finish, control, vars
    <2> QED
        BY <2>1, ReasonsStay
<1>2. Len(stack) \in DOMAIN stack /\ DOMAIN stack = 1..Len(stack) /\ Top = stack[Len(stack)]
      /\ Len(stack) \in Nat
    BY TopType DEF StackInv, Top
<1>3. CASE Resolve
    BY <1>1, <1>2, <1>3, ResolveTop DEF TargetsAsked
<1>4. CASE Open
    BY <1>1, <1>2, <1>4, OpenTop DEF TargetsAsked
<1>5. CASE Call
    <2> PICK n \in Nat : n = Len(stack)
        BY <1>2
    <2>1. /\ DOMAIN stack' = 1..(n + 1) /\ \A i \in 1..n : stack'[i] = stack[i]
          /\ stack'[n + 1].target = Instr.target
          /\ Instr.op \in CallOps /\ Top.pc \in DOMAIN Text
        BY <1>5, CallTop
    <2>2. Top.phase = "expanding"
        BY <1>5 DEF Call, AtInstr, Enters
    <2>3. Instr.target # NoStage => StageAsked
        BY <2>1, <2>2, TopFollowed DEF StageAsked
    <2>4. ASSUME NEW i \in 1..(n + 1) PROVE stack'[i].target # NoStage => StageAsked
        <3>1. i = n + 1 \/ i \in 1..n
            OBVIOUS
        <3> QED
            BY <1>2, <2>1, <2>3, <3>1 DEF TargetsAsked
    <2> QED
        BY <1>1, <2>1, <2>4 DEF TargetsAsked
<1>6. CASE KeptCalls
    BY <1>1, <1>6 DEF KeptCalls, SameCall, TargetsAsked
<1> QED
    BY <1>3, <1>4, <1>5, <1>6, StepCases

\* An error has its reason in the files: a missing file is asked for and not there,
\* a remote error needs a remote reference, and a run that fails otherwise has met a
\* reference it refuses, a file it cannot read or a stage asked for by name.
THEOREM FailuresReal == Spec => []FailureIsReal
<1>1. Init => TargetsAsked /\ FailureIsReal
    BY DEF Init, Frame, Running, TargetsAsked, FailureIsReal
<1>2. StackInv /\ (TargetsAsked /\ FailureIsReal) /\ [Next]_vars
        => (TargetsAsked /\ FailureIsReal)'
    BY StepTargets, StepReason
<1> QED
    BY <1>1, <1>2, StackInvariant, PTL DEF Spec

\* Every error the command raises is true of the files: the cycles, the depth and
\* the reasons of the others.
THEOREM AllErrorsReal == Spec => []ErrorsAreReal
<1>1. CycleIsReal /\ DepthIsReal /\ FailureIsReal => ErrorsAreReal
    BY DEF ErrorsAreReal
<1> QED
    BY <1>1, ErrorChainsReal, FailuresReal, PTL

=============================================================================
