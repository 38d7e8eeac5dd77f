------------------------ MODULE BuildFrontendProofs ------------------------
(***************************************************************************)
(* Proofs about BuildFrontend, for every build context, every reference    *)
(* between its files and every way the command can fail to start.          *)
(***************************************************************************)
EXTENDS BuildFrontend, FiniteSetTheorems, WellFoundedInduction, TLAPS

-----------------------------------------------------------------------------
(***************************************************************************)
(* Induction on the levels of ProblemIn, in the form of sets of numbers.   *)
(***************************************************************************)
LEMMA LeastMember ==
    ASSUME NEW S \in SUBSET Nat, S # {}
    PROVE  \E n \in S : \A m \in S : n <= m
<1>1. PICK n \in S : \A m \in S : ~(<<m, n>> \in OpToRel(<, Nat))
    BY NatLessThanWellFounded, WFMin
<1>2. \A m \in S : <<m, n>> \in OpToRel(<, Nat) <=> m < n
    BY DEF OpToRel
<1>3. \A m \in S : ~(m < n)
    BY <1>1, <1>2
<1>4. \A m \in S : m \in Nat /\ n \in Nat
    OBVIOUS
<1> QED
    BY <1>3, <1>4

LEMMA SetInduction ==
    ASSUME NEW S \in SUBSET Nat, 0 \in S, \A n \in S : n + 1 \in S
    PROVE  S = Nat
<1> SUFFICES ASSUME S # Nat PROVE FALSE
    OBVIOUS
<1>1. Nat \ S \in SUBSET Nat /\ Nat \ S # {}
    OBVIOUS
<1>2. PICK n \in Nat \ S : \A m \in Nat \ S : n <= m
    BY <1>1, LeastMember
<1>3. n # 0 /\ n - 1 \in Nat
    BY <1>2
<1>4. n - 1 \in S
    BY <1>2, <1>3
<1>5. (n - 1) + 1 \in S
    BY <1>4
<1> QED
    BY <1>2, <1>5

-----------------------------------------------------------------------------
(***************************************************************************)
(* The command.                                                            *)
(***************************************************************************)
\* Directories of files: those of the context, and what the frontend has made of
\* it so far.
Trees == [Path -> Texts \cup {Absent}]

References == [to : Path \cup {Elsewhere}, env : BOOLEAN]

LEMMA TextType ==
    ASSUME NEW text \in Texts
    PROVE  text.refs \in Seq(References) /\ text # Absent
<1>1. CASE text \in Content
    BY <1>1, TextAssumption DEF References, Texts
<1>2. CASE \E c \in Content : text = Expanded(c)
    <2>1. PICK c \in Content : text = Expanded(c)
        BY <1>2
    <2>2. text.refs = <<>>
        BY <2>1, TextAssumption DEF Expanded
    <2> QED
        BY <2>2, TextAssumption DEF Texts
<1>3. CASE text = Empty
    BY <1>3, TextAssumption DEF Texts
<1> QED
    BY <1>1, <1>2, <1>3 DEF Texts

\* FirstProblem is the problem of the first reference that has one.
LEMMA FirstProblemIs ==
    ASSUME NEW files, NEW refs \in Seq(References), NEW left, NEW below
    PROVE  \/ /\ \A i \in DOMAIN refs : RefProblem(files, refs[i], left, below) = Fine
              /\ FirstProblem(files, refs, left, below) = Fine
           \/ \E i \in DOMAIN refs :
                /\ RefProblem(files, refs[i], left, below) # Fine
                /\ \A j \in DOMAIN refs : j < i => RefProblem(files, refs[j], left, below) = Fine
                /\ FirstProblem(files, refs, left, below) = RefProblem(files, refs[i], left, below)
<1> DEFINE P(i) == RefProblem(files, refs[i], left, below)
           met == {m \in {[at |-> i, problem |-> P(i)] : i \in DOMAIN refs} : m.problem # Fine}
<1>0. DOMAIN refs \subseteq Nat
    OBVIOUS
<1>1. FirstProblem(files, refs, left, below) =
        IF met = {} THEN Fine ELSE (CHOOSE m \in met : \A o \in met : m.at <= o.at).problem
    BY DEF FirstProblem
<1> HIDE DEF P
<1>2. CASE met = {}
    <2>1. ASSUME NEW i \in DOMAIN refs PROVE P(i) = Fine
        <3>1. [at |-> i, problem |-> P(i)] \notin met
            BY <1>2
        <3> QED
            BY <3>1
    <2> QED
        BY <1>1, <1>2, <2>1 DEF P
<1>3. CASE met # {}
    <2> DEFINE S == {i \in DOMAIN refs : P(i) # Fine}
    <2>1. S \in SUBSET Nat /\ S # {}
        BY <1>0, <1>3
    <2>2. PICK i \in S : \A j \in S : i <= j
        BY <2>1, LeastMember
    <2> DEFINE first == [at |-> i, problem |-> P(i)]
    <2>3. first \in met /\ \A o \in met : first.at <= o.at
        BY <2>2
    <2>4. \A m \in met : m.at \in S /\ m.problem = P(m.at)
        OBVIOUS
    <2> DEFINE choice == CHOOSE m \in met : \A o \in met : m.at <= o.at
    <2>5. choice \in met /\ \A o \in met : choice.at <= o.at
        BY <2>3
    <2>6. choice.at \in S /\ choice.problem = P(choice.at)
        BY <2>4, <2>5
    <2>7. choice.at = i
        <3>1. choice.at <= i /\ i <= choice.at
            BY <2>2, <2>3, <2>5, <2>6
        <3> QED
            BY <1>0, <2>2, <2>6, <3>1
    <2>8. \A j \in DOMAIN refs : j < i => P(j) = Fine
        BY <1>0, <2>2
    <2> HIDE DEF met, choice
    <2>9. FirstProblem(files, refs, left, below) = P(i)
        BY <1>1, <1>3, <2>6, <2>7 DEF choice
    <2> QED
        BY <2>2, <2>8, <2>9 DEF P
<1> QED
    BY <1>2, <1>3

\* ProblemIn, level by level.
Bottom == [p \in Path |-> Fine]
Unfolded(files, m, In) ==
    In = [n \in 0..m |-> OneUp(files, n, IF n = 0 THEN Bottom ELSE In[n - 1])]

LEMMA UnfoldedExists ==
    ASSUME NEW files, NEW m \in Nat
    PROVE  \E In : Unfolded(files, m, In)
<1> DEFINE S == {k \in Nat : \E In : Unfolded(files, k, In)}
<1>1. 0 \in S
    <2> DEFINE In == [n \in {0} |-> OneUp(files, 0, Bottom)]
    <2>1. 0..0 = {0}
        OBVIOUS
    <2>2. Unfolded(files, 0, In)
        BY <2>1 DEF Unfolded
    <2> HIDE DEF In
    <2> QED
        BY <2>2
<1>2. ASSUME NEW k \in S PROVE k + 1 \in S
    <2>1. PICK In : Unfolded(files, k, In)
        OBVIOUS
    <2> DEFINE J == [n \in 0..(k + 1) |-> IF n = k + 1 THEN OneUp(files, n, In[k]) ELSE In[n]]
    <2>2. ASSUME NEW n \in 0..(k + 1)
          PROVE  J[n] = OneUp(files, n, IF n = 0 THEN Bottom ELSE J[n - 1])
        <3>1. CASE n = 0
            <4>1. J[n] = In[n] /\ n \in 0..k
                BY <3>1
            <4> QED
                BY <2>1, <3>1, <4>1 DEF Unfolded
        <3>2. CASE n = k + 1
            <4>1. J[n] = OneUp(files, n, In[k]) /\ J[n - 1] = In[k] /\ n # 0
                BY <3>2
            <4> QED
                BY <4>1
        <3>3. CASE n \in 1..k
            <4>1. J[n] = In[n] /\ J[n - 1] = In[n - 1] /\ n # 0 /\ n \in 0..k
                BY <3>3
            <4>2. In[n] = OneUp(files, n, In[n - 1])
                BY <2>1, <4>1 DEF Unfolded
            <4> QED
                BY <4>1, <4>2
        <3> QED
            BY <3>1, <3>2, <3>3
    <2>3. Unfolded(files, k + 1, J)
        BY <2>2 DEF Unfolded
    <2> HIDE DEF J
    <2>4. \E K : Unfolded(files, k + 1, K)
        BY <2>3
    <2> QED
        BY <2>4
<1>3. S = Nat
    <2> HIDE DEF S
    <2>1. S \in SUBSET Nat
        BY DEF S
    <2> QED
        BY <1>1, <1>2, <2>1, SetInduction
<1> QED
    BY <1>3

LEMMA UnfoldedOnce ==
    ASSUME NEW files, NEW m \in Nat, NEW k \in Nat,
           NEW In, Unfolded(files, m, In), NEW J, Unfolded(files, k, J)
    PROVE  \A n \in Nat : n <= m /\ n <= k => In[n] = J[n]
<1> DEFINE S == {n \in Nat : n <= m /\ n <= k => In[n] = J[n]}
<1>0. /\ \A n \in 0..m : In[n] = OneUp(files, n, IF n = 0 THEN Bottom ELSE In[n - 1])
      /\ \A n \in 0..k : J[n] = OneUp(files, n, IF n = 0 THEN Bottom ELSE J[n - 1])
    BY DEF Unfolded
<1>1. 0 \in S
    <2>1. 0 \in 0..m /\ 0 \in 0..k
        OBVIOUS
    <2>2. In[0] = OneUp(files, 0, Bottom) /\ J[0] = OneUp(files, 0, Bottom)
        BY <1>0, <2>1
    <2> QED
        BY <2>2
<1>2. ASSUME NEW n \in S PROVE n + 1 \in S
    <2> SUFFICES ASSUME n + 1 <= m, n + 1 <= k PROVE In[n + 1] = J[n + 1]
        OBVIOUS
    <2>1. In[n] = J[n]
        OBVIOUS
    <2>2. n + 1 \in 0..m /\ n + 1 \in 0..k /\ n + 1 # 0 /\ (n + 1) - 1 = n
        OBVIOUS
    <2>3. In[n + 1] = OneUp(files, n + 1, In[n]) /\ J[n + 1] = OneUp(files, n + 1, J[n])
        BY <1>0, <2>2
    <2> QED
        BY <2>1, <2>3
<1>3. S = Nat
    <2> HIDE DEF S
    <2>1. S \in SUBSET Nat
        BY DEF S
    <2> QED
        BY <1>1, <1>2, <2>1, SetInduction
<1> QED
    BY <1>3

LEMMA ProblemInUnfolds ==
    ASSUME NEW files, NEW m \in Nat
    PROVE  \E In : Unfolded(files, m, In) /\ ProblemIn(files, m) = In[m]
<1>1. \E In : Unfolded(files, m, In)
    BY UnfoldedExists
<1> DEFINE In[n \in 0..m] ==
        OneUp(files, n, IF n = 0 THEN [p \in Path |-> Fine] ELSE In[n - 1])
<1>2. Unfolded(files, m, In)
    BY <1>1 DEF Unfolded, Bottom
<1>3. ProblemIn(files, m) = In[m]
    BY DEF ProblemIn
<1> HIDE DEF In
<1> QED
    BY <1>2, <1>3

\* The levels of ProblemIn, without the function they are computed with.
LEMMA Levels ==
    ASSUME NEW files
    PROVE  /\ ProblemIn(files, 0) = OneUp(files, 0, Bottom)
           /\ \A n \in Nat : ProblemIn(files, n + 1) = OneUp(files, n + 1, ProblemIn(files, n))
<1>1. ProblemIn(files, 0) = OneUp(files, 0, Bottom)
    <2>1. PICK In : Unfolded(files, 0, In) /\ ProblemIn(files, 0) = In[0]
        BY ProblemInUnfolds
    <2>2. 0 \in 0..0
        OBVIOUS
    <2> QED
        BY <2>1, <2>2 DEF Unfolded
<1>2. ASSUME NEW n \in Nat
      PROVE  ProblemIn(files, n + 1) = OneUp(files, n + 1, ProblemIn(files, n))
    <2>1. PICK In : Unfolded(files, n, In) /\ ProblemIn(files, n) = In[n]
        BY ProblemInUnfolds
    <2>2. PICK m \in Nat : m = n + 1
        OBVIOUS
    <2>3. PICK J : Unfolded(files, m, J) /\ ProblemIn(files, m) = J[m]
        BY ProblemInUnfolds
    <2>4. J[n] = In[n]
        BY <2>1, <2>2, <2>3, UnfoldedOnce
    <2>5. m \in 0..m /\ m # 0 /\ m - 1 = n
        BY <2>2
    <2>6. J[m] = OneUp(files, m, J[n])
        BY <2>3, <2>5 DEF Unfolded
    <2> QED
        BY <2>1, <2>2, <2>3, <2>4, <2>6
<1> QED
    BY <1>1, <1>2

\* In a file, the problem of its references.
LEMMA InFile ==
    ASSUME NEW files, NEW n \in Nat, NEW p \in Path, files[p] # Absent
    PROVE  ProblemIn(files, n)[p] =
                FirstProblem(files, files[p].refs, n, IF n = 0 THEN Bottom ELSE ProblemIn(files, n - 1))
<1>1. CASE n = 0
    BY <1>1, Levels DEF OneUp
<1>2. CASE n # 0
    <2>1. PICK m \in Nat : n = m + 1 /\ n - 1 = m
        BY <1>2
    <2>2. ProblemIn(files, n) = OneUp(files, n, ProblemIn(files, m))
        BY <2>1, Levels
    <2> QED
        BY <1>2, <2>1, <2>2 DEF OneUp
<1> QED
    BY <1>1, <1>2

-----------------------------------------------------------------------------
(***************************************************************************)
(* What is reported missing has been asked for.                            *)
(***************************************************************************)
Named(text) == {text.refs[i].to : i \in DOMAIN text.refs} \ {Elsewhere}

\* The file a problem is about is named by a text of the tree.
NamedIn(files, problem) ==
    problem.kind = "missing-file" =>
        \E p \in Path : files[p] # Absent /\ problem.path \in Named(files[p])

LEMMA NamedType ==
    ASSUME NEW text \in Texts
    PROVE  Named(text) \subseteq Path
<1>1. text.refs \in Seq(References)
    BY TextType
<1>2. PICK refs \in Seq(References) : refs = text.refs
    BY <1>1
<1>3. \A i \in DOMAIN refs : refs[i] \in References
    OBVIOUS
<1>4. \A i \in DOMAIN refs : refs[i].to \in Path \cup {Elsewhere}
    BY <1>3 DEF References
<1> QED
    BY <1>2, <1>4 DEF Named

LEMMA LookupIs ==
    ASSUME NEW files, NEW p \in Path, NEW ext \in [Path -> Path],
           NEW at, at = Lookup(files, p, ext)
    PROVE  /\ at.kind \in {"uncoded", "missing-file", "none"}
           /\ at.kind = "missing-file" => at.path = p
           /\ at.kind = "none" => at.path \in {p, ext[p]}
BY DEF Lookup, Problem

LEMMA MissedIs ==
    ASSUME NEW files, NEW p \in Path, NEW ext \in [Path -> Path],
           Lookup(files, p, ext).kind = "missing-file"
    PROVE  /\ files[p] = Absent /\ files[ext[p]] = Absent
           /\ ~IsDirectory(files, ext[p]) /\ ~BehindFile(files, p)
           /\ ~IsDirectory(files, p)
BY DEF Lookup, Problem

LEMMA RefProblemIs ==
    ASSUME NEW files, NEW ref \in References, NEW left, NEW below,
           NEW ext, ext = IF ref.env THEN WithEnv ELSE WithDockerfile,
           NEW at, at = Lookup(files, ref.to, ext),
           NEW problem, problem = RefProblem(files, ref, left, below)
    PROVE  /\ ref.env \in BOOLEAN /\ ChainError # Fine
           /\ IF left = 0 /\ ~ref.env THEN problem = ChainError
              ELSE IF ref.to = Elsewhere THEN problem = Fine
              ELSE /\ ref.to \in Path /\ ext \in [Path -> Path]
                   /\ problem = IF at.kind # "none" THEN at
                                ELSE IF ref.env THEN Fine ELSE below[at.path]
<1>1. ref.to \in Path \cup {Elsewhere} /\ ref.env \in BOOLEAN /\ ext \in [Path -> Path]
    BY NameAssumption DEF References
<1>2. ChainError # Fine
    BY DEF ChainError, Fine, Problem
<1>3. CASE left = 0 /\ ~ref.env
    <2>1. problem = ChainError
        BY <1>3 DEF RefProblem
    <2> QED
        BY <1>1, <1>2, <1>3, <2>1
<1>4. CASE ~(left = 0 /\ ~ref.env)
    <2>1. left # 0 \/ ref.env
        BY <1>1, <1>4
    <2>2. problem = IF ref.to = Elsewhere THEN Fine
                    ELSE IF at.kind # "none" THEN at
                    ELSE IF ref.env THEN Fine ELSE below[at.path]
        BY <1>4, <2>1 DEF RefProblem
    <2> QED
        BY <1>1, <1>2, <1>4, <2>2
<1> QED
    BY <1>3, <1>4

\* The problem of a text comes from its own references or from those of the files
\* below it.
LEMMA FirstNamedIn ==
    ASSUME NEW files, NEW text, text.refs \in Seq(References), NEW left, NEW below,
           \A p \in Path : NamedIn(files, below[p])
    PROVE  LET problem == FirstProblem(files, text.refs, left, below) IN
           NamedIn(files, problem) \/ problem.path \in Named(text)
<1> DEFINE refs == text.refs
           problem == FirstProblem(files, refs, left, below)
<1>1. CASE problem = Fine
    BY <1>1 DEF NamedIn, Fine, Problem
<1>2. CASE problem # Fine /\ problem # ChainError
    <2>1. PICK i \in DOMAIN refs : problem = RefProblem(files, refs[i], left, below)
        BY <1>2, FirstProblemIs
    <2>2. PICK ref \in References : ref = refs[i]
        BY <2>1
    <2>3. PICK ext : ext = IF ref.env THEN WithEnv ELSE WithDockerfile
        OBVIOUS
    <2>4. PICK at : at = Lookup(files, ref.to, ext)
        OBVIOUS
    <2>5. /\ ref.to # Elsewhere /\ ref.to \in Path /\ ext \in [Path -> Path]
          /\ problem = IF at.kind # "none" THEN at
                       ELSE IF ref.env THEN Fine ELSE below[at.path]
        <3>1. problem = RefProblem(files, ref, left, below)
            BY <2>1, <2>2
        <3> HIDE DEF problem
        <3>2. /\ ref.env \in BOOLEAN /\ ChainError # Fine
              /\ IF left = 0 /\ ~ref.env THEN problem = ChainError
                 ELSE IF ref.to = Elsewhere THEN problem = Fine
                 ELSE /\ ref.to \in Path /\ ext \in [Path -> Path]
                      /\ problem = IF at.kind # "none" THEN at
                                   ELSE IF ref.env THEN Fine ELSE below[at.path]
            BY <2>3, <2>4, <3>1, RefProblemIs
        <3> QED
            BY <1>2, <3>1, <3>2
    <2>6. ref.to \in Named(text)
        BY <2>1, <2>2, <2>5 DEF Named
    <2>7. \/ at.kind = "uncoded"
          \/ at.kind = "missing-file" /\ at.path = ref.to
          \/ at.kind = "none" /\ at.path \in Path
        <3>1. \/ at.kind = "uncoded"
              \/ at.kind = "missing-file" /\ at.path = ref.to
              \/ at.kind = "none" /\ at.path \in {ref.to, ext[ref.to]}
            <4>1. ref.to \in Path /\ ext \in [Path -> Path]
                BY <2>5
            <4>2. PICK p : p = ref.to
                OBVIOUS
            <4> QED
                BY <2>4, <4>1, <4>2, LookupIs
        <3>2. ext[ref.to] \in Path
            BY <2>5
        <3> QED
            BY <2>5, <3>1, <3>2
    <2> HIDE DEF problem
    <2>8. NamedIn(files, problem) \/ problem.path \in Named(text)
        BY <1>2, <2>5, <2>6, <2>7 DEF NamedIn
    <2> QED
        BY <2>8 DEF problem
<1>3. CASE problem = ChainError
    BY <1>3 DEF NamedIn, ChainError, Problem
<1> QED
    BY <1>1, <1>2, <1>3

LEMMA ProblemsNamed ==
    ASSUME NEW files \in Trees
    PROVE  \A n \in Nat : \A p \in Path : NamedIn(files, ProblemIn(files, n)[p])
<1> DEFINE Below(n) == IF n = 0 THEN Bottom ELSE ProblemIn(files, n - 1)
           S == {n \in Nat : \A p \in Path : NamedIn(files, Below(n)[p])}
<1>1. 0 \in S
    BY DEF Bottom, NamedIn, Fine, Problem
<1>2. ASSUME NEW n \in S PROVE n + 1 \in S
    <2>1. Below(n + 1) = ProblemIn(files, n)
        OBVIOUS
    <2>2. \A p \in Path : NamedIn(files, Below(n)[p])
        OBVIOUS
    <2>3. PICK below : below = Below(n)
        OBVIOUS
    <2>4. ASSUME NEW p \in Path PROVE NamedIn(files, ProblemIn(files, n)[p])
        <3>1. CASE files[p] = Absent
            <4>1. ProblemIn(files, n) = OneUp(files, n, below)
                <5>1. CASE n = 0
                    BY <2>3, <5>1, Levels
                <5>2. CASE n # 0
                    <6>1. PICK m \in Nat : n = m + 1 /\ n - 1 = m
                        BY <5>2
                    <6> QED
                        BY <2>3, <5>2, <6>1, Levels
                <5> QED
                    BY <5>1, <5>2
            <4>2. ProblemIn(files, n)[p] = Fine
                BY <3>1, <4>1 DEF OneUp
            <4> QED
                BY <4>2 DEF NamedIn, Fine, Problem
        <3>2. CASE files[p] # Absent
            <4>1. ProblemIn(files, n)[p] = FirstProblem(files, files[p].refs, n, below)
                BY <2>3, <3>2, InFile
            <4>2. files[p].refs \in Seq(References)
                BY <3>2, TextType DEF Trees
            <4>3. NamedIn(files, ProblemIn(files, n)[p]) \/ ProblemIn(files, n)[p].path \in Named(files[p])
                BY <2>2, <2>3, <4>1, <4>2, FirstNamedIn
            <4> QED
                BY <3>2, <4>3 DEF NamedIn
        <3> QED
            BY <3>1, <3>2
    <2> QED
        BY <2>1, <2>4
<1>3. S = Nat
    <2> HIDE DEF S
    <2>1. S \in SUBSET Nat
        BY DEF S
    <2> QED
        BY <1>1, <1>2, <2>1, SetInduction
<1>4. ASSUME NEW n \in Nat PROVE \A p \in Path : NamedIn(files, ProblemIn(files, n)[p])
    <2>1. PICK m \in Nat : m = n + 1 /\ m # 0 /\ m - 1 = n
        OBVIOUS
    <2>2. m \in S
        BY <1>3
    <2> QED
        BY <2>1, <2>2
<1> QED
    BY <1>4

\* A file is missed by the name that some text it has read asks for it by.
LEMMA MissedIsNamed ==
    ASSUME NEW files \in Trees, NEW text \in Texts, NEW limit \in Nat \ {0},
           Command(files, text, limit).kind = "missing-file"
    PROVE  LET path == Command(files, text, limit).path IN
           /\ path \in Path
           /\ path \in Named(text) \/ \E p \in Path : files[p] # Absent /\ path \in Named(files[p])
<1>1. PICK n \in Nat : n = limit - 1
    OBVIOUS
<1>2. \A p \in Path : NamedIn(files, ProblemIn(files, n)[p])
    BY ProblemsNamed
<1>3. NamedIn(files, Command(files, text, limit)) \/ Command(files, text, limit).path \in Named(text)
    BY <1>1, <1>2, TextType, FirstNamedIn DEF Command
<1>4. Named(text) \subseteq Path /\ \A p \in Path : files[p] # Absent => Named(files[p]) \subseteq Path
    BY NamedType DEF Trees
<1> QED
    BY <1>3, <1>4 DEF NamedIn

(* The stack of transforms: each step changes its last frame, adds one or  *)
(* takes one away.                                                         *)
(***************************************************************************)
\* What the steps have in common: below its last frame a stack is that before.
Grown(s, t) ==
    /\ t \in Seq(FrameType)
    /\ Len(t) \in 1..(Len(s) + 1)
    /\ \A i \in 1..(Len(t) - 1) : i \in DOMAIN s /\ t[i] = s[i]

LEMMA FrameAdded ==
    ASSUME NEW s \in Seq(FrameType), NEW frame \in FrameType,
           NEW t, t = Append(s, frame)
    PROVE  Grown(s, t) /\ Len(t) = Len(s) + 1 /\ t[Len(t)] = frame
BY DEF Grown

LEMMA NextNameIs ==
    ASSUME NEW frame \in FrameType, frame.reading \in Path, NEW reason \in Reasons
    PROVE  /\ NextName(frame, reason) \in FrameType
           /\ NextName(frame, reason).temp = frame.temp
           /\ NextName(frame, reason).last = frame.last
           /\ IF WithDockerfile[frame.reading] = frame.reading
              THEN /\ NextName(frame, reason).failed = reason
                   /\ NextName(frame, reason).reading = frame.reading
              ELSE /\ NextName(frame, reason).failed = frame.failed
                   /\ NextName(frame, reason).reading = WithDockerfile[frame.reading]
BY NameAssumption DEF NextName, FrameType

-----------------------------------------------------------------------------
(***************************************************************************)
(* What the frontend holds                                                 *)
(***************************************************************************)
FromContext ==
    /\ build \in Builds
    /\ disk \in Trees
    /\ \A p \in Path : disk[p] # Absent => build.files[p] # Absent

FramesRight ==
    /\ stack \in Seq(FrameType)
    /\ Len(stack) \in 1..(MaxNesting + 1)
    /\ \A i \in DOMAIN stack : stack[i].temp < i /\ temp[stack[i].temp] \in Content
    /\ \A i \in 1..(Len(stack) - 1) : stack[i].reading = Main /\ stack[i].failed = "no"
    /\ Len(stack) > 1 => build.files[Main] # Absent

HistoryRight ==
    /\ started \in BOOLEAN /\ killed \in BOOLEAN /\ shared \in BOOLEAN
    /\ unread \subseteq {p \in Path : build.files[p] # Absent}

Held ==
    /\ FromContext
    /\ temp \in [0..MaxNesting -> Texts \cup {Absent}]
    /\ FramesRight
    /\ outcome \in [code : Reasons \cup {"ok", "running"}, text : Texts]
    /\ HistoryRight

LEMMA BuildType ==
    ASSUME NEW b \in Builds
    PROVE  /\ b.main \in Content
           /\ b.files \in [Path -> Content \cup {Absent}]
           /\ b.files \in Trees
<1>1. b.main \in Content /\ b.files \in [Path -> Content \cup {Absent}]
    BY TextAssumption
<1>2. PICK files \in [Path -> Content \cup {Absent}] : files = b.files
    BY <1>1
<1>3. Content \subseteq Texts
    BY DEF Texts
<1>4. files \in Trees
    BY <1>3 DEF Trees
<1> QED
    BY <1>1, <1>2, <1>4

LEMMA ExpandedType ==
    ASSUME NEW text \in Content
    PROVE  Expanded(text) \in Texts
BY DEF Texts

LEMMA TransformType ==
    ASSUME NEW second \in 0..MaxNesting
    PROVE  Transform(second) \in FrameType
BY DEF Transform, FrameType

LEMMA InitHolds == Init => Held
<1> SUFFICES ASSUME Init PROVE Held
    OBVIOUS
<1>0. MaxNesting \in Nat
    BY BoundAssumption
<1>1. build \in Builds /\ build.main \in Content /\ build.main \in Texts
    BY BuildType DEF Init, Texts
<1>2. FromContext
    BY <1>1 DEF Init, FromContext, Trees
<1>3. temp \in [0..MaxNesting -> Texts \cup {Absent}] /\ temp[0] = build.main
    BY <1>0, <1>1 DEF Init
<1>4. FramesRight
    <2>1. Transform(0) \in FrameType /\ Transform(0).temp = 0
        BY <1>0, TransformType DEF Transform
    <2>2. PICK frame \in FrameType : frame = Transform(0)
        BY <2>1
    <2>3. stack = <<frame>>
        BY <2>2 DEF Init
    <2>4. stack \in Seq(FrameType) /\ Len(stack) = 1 /\ DOMAIN stack = {1} /\ stack[1] = frame
        BY <2>3
    <2> QED
        BY <1>0, <1>1, <1>3, <2>1, <2>2, <2>4 DEF FramesRight
<1>5. outcome \in [code : Reasons \cup {"ok", "running"}, text : Texts] /\ HistoryRight
    BY DEF Init, Running, Texts, HistoryRight
<1> QED
    BY <1>2, <1>3, <1>4, <1>5 DEF Held

LEMMA FramesStayRight ==
    ASSUME Held, build' = build,
           Grown(stack, stack'), Len(stack') <= MaxNesting + 1,
           \A second \in 0..MaxNesting : temp[second] \in Content => temp'[second] \in Content,
           NEW frame, frame = stack'[Len(stack')],
           frame.temp < Len(stack'), temp'[frame.temp] \in Content,
           Len(stack') > Len(stack) =>
                Top.reading = Main /\ Top.failed = "no" /\ build.files[Main] # Absent
    PROVE  FramesRight'
<1>0. MaxNesting \in Nat
    BY BoundAssumption
<1>1. /\ stack \in Seq(FrameType) /\ Len(stack) \in 1..(MaxNesting + 1)
      /\ \A i \in DOMAIN stack : stack[i].temp < i /\ temp[stack[i].temp] \in Content
      /\ \A i \in 1..(Len(stack) - 1) : stack[i].reading = Main /\ stack[i].failed = "no"
      /\ Len(stack) > 1 => build.files[Main] # Absent
    BY DEF Held, FramesRight
<1>2. PICK t \in Seq(FrameType) : t = stack'
    BY DEF Grown
<1>3. /\ Len(t) \in 1..(Len(stack) + 1) /\ Len(t) <= MaxNesting + 1
      /\ \A i \in 1..(Len(t) - 1) : i \in DOMAIN stack /\ t[i] = stack[i]
    BY <1>2 DEF Grown
<1>4. DOMAIN stack = 1..Len(stack) /\ DOMAIN t = 1..Len(t) /\ Len(stack) \in Nat /\ Len(t) \in Nat
    BY <1>1
<1>5. ASSUME NEW i \in DOMAIN t PROVE t[i].temp < i /\ temp'[t[i].temp] \in Content
    <2>1. CASE i = Len(t)
        BY <1>2, <2>1
    <2>2. CASE i # Len(t)
        <3>1. i \in 1..(Len(t) - 1)
            BY <1>4, <2>2
        <3>2. i \in DOMAIN stack /\ t[i] = stack[i]
            BY <1>3, <3>1
        <3>3. stack[i].temp \in 0..MaxNesting
            <4>1. stack[i] \in FrameType
                BY <1>1, <3>2
            <4> QED
                BY <4>1 DEF FrameType
        <3> QED
            BY <1>1, <3>2, <3>3
    <2> QED
        BY <2>1, <2>2
<1>6. ASSUME NEW i \in 1..(Len(t) - 1) PROVE t[i].reading = Main /\ t[i].failed = "no"
    <2>1. i \in DOMAIN stack /\ t[i] = stack[i]
        BY <1>3
    <2>2. CASE i = Len(stack)
        <3>1. Len(t) > Len(stack)
            BY <1>4, <2>2
        <3> QED
            BY <1>2, <2>1, <2>2, <3>1 DEF Top
    <2>3. CASE i # Len(stack)
        <3>1. i \in 1..(Len(stack) - 1)
            BY <1>4, <2>1, <2>3
        <3> QED
            BY <1>1, <2>1, <3>1
    <2> QED
        BY <2>2, <2>3
<1>7. Len(t) > 1 => build.files[Main] # Absent
    BY <1>1, <1>2, <1>3, <1>4
<1>8. Len(t) \in 1..(MaxNesting + 1)
    BY <1>0, <1>3, <1>4
<1> QED
    BY <1>2, <1>5, <1>6, <1>7, <1>8 DEF FramesRight

\* The last frame, while one is there.
LEMMA TopType ==
    ASSUME Held
    PROVE  /\ Top \in FrameType /\ Top = stack[Len(stack)]
           /\ Top.temp < Len(stack) /\ Text \in Content /\ Text \in Texts
           /\ stack \in Seq(FrameType) /\ Len(stack) \in 1..(MaxNesting + 1) /\ stack # <<>>
<1>1. stack \in Seq(FrameType) /\ Len(stack) \in 1..(MaxNesting + 1)
    BY DEF Held, FramesRight
<1>2. Len(stack) \in DOMAIN stack /\ stack # <<>>
    BY <1>1
<1> QED
    BY <1>1, <1>2 DEF Held, FramesRight, Top, Text, Texts

LEMMA LengthType ==
    ASSUME Held
    PROVE  /\ stack \in Seq(FrameType) /\ Len(stack) \in Nat
           /\ Len(stack) # 1 => Len(stack) > 1
<1>1. stack \in Seq(FrameType) /\ Len(stack) \in 1..(MaxNesting + 1)
    BY TopType
<1>2. PICK l : l = Len(stack)
    OBVIOUS
<1>3. l \in Nat /\ (l # 1 => l > 1)
    BY <1>1, <1>2, BoundAssumption
<1> QED
    BY <1>1, <1>2, <1>3

\* A frame that keeps its copy, and may turn to reading "path".
Turned(old, frame, path) ==
    frame.temp = old.temp /\ frame.reading \in {NoPath, old.reading, path}

\* A step that starts no transform turns a single frame.
Shift(path) ==
    /\ build' = build /\ temp' = temp
    /\ \E n \in 1..Len(stack), frame \in FrameType :
            /\ stack' \in Seq(FrameType) /\ Len(stack') = n /\ stack'[n] = frame
            /\ Turned(stack[n], frame, path)
            /\ \A i \in 1..(n - 1) : stack'[i] = stack[i]

LEMMA ShiftAnywhere ==
    ASSUME Shift(NoPath), NEW path
    PROVE  Shift(path)
<1>1. PICK n \in 1..Len(stack), frame \in FrameType :
            /\ stack' \in Seq(FrameType) /\ Len(stack') = n /\ stack'[n] = frame
            /\ Turned(stack[n], frame, NoPath)
            /\ \A i \in 1..(n - 1) : stack'[i] = stack[i]
    BY DEF Shift
<1>2. Turned(stack[n], frame, path)
    BY <1>1 DEF Turned
<1> QED
    BY <1>1, <1>2 DEF Shift

LEMMA TopStays ==
    ASSUME Held, NEW frame \in FrameType, NEW path, Turned(Top, frame, path),
           stack' = [stack EXCEPT ![Len(stack)] = frame], build' = build, temp' = temp
    PROVE  FramesRight' /\ Shift(path)
<1>0. MaxNesting \in Nat
    BY BoundAssumption
<1>1. /\ Top.temp < Len(stack) /\ temp[Top.temp] \in Content
      /\ stack \in Seq(FrameType) /\ Len(stack) \in 1..(MaxNesting + 1) /\ stack # <<>>
      /\ frame.temp = Top.temp
    BY TopType DEF Text, Turned
<1>2. PICK t : t = [stack EXCEPT ![Len(stack)] = frame]
    OBVIOUS
<1>3. Grown(stack, t) /\ Len(t) = Len(stack) /\ t[Len(t)] = frame
    BY <1>1, <1>2 DEF Grown
<1>4. Grown(stack, stack') /\ Len(stack') = Len(stack) /\ stack'[Len(stack')] = frame
    BY <1>2, <1>3
<1>5. FramesRight'
    BY <1>0, <1>1, <1>4, FramesStayRight
<1>6. Shift(path)
    <2>1. Top = stack[Len(stack)] /\ Len(stack) \in 1..Len(stack)
        BY <1>1 DEF Top
    <2>2. stack' \in Seq(FrameType) /\ \A i \in 1..(Len(stack) - 1) : stack'[i] = stack[i]
        BY <1>4 DEF Grown
    <2> QED
        BY <1>4, <2>1, <2>2 DEF Shift
<1> QED
    BY <1>5, <1>6

\* A transform that has returned: the one below is the last.
LEMMA TopGone ==
    ASSUME Held, Len(stack) > 1,
           NEW frame \in FrameType, NEW path, Turned(stack[Len(stack) - 1], frame, path),
           stack' = [Front(stack) EXCEPT ![Len(stack) - 1] = frame], build' = build, temp' = temp
    PROVE  FramesRight' /\ Shift(path)
<1>0. MaxNesting \in Nat
    BY BoundAssumption
<1>1. stack \in Seq(FrameType) /\ Len(stack) \in 1..(MaxNesting + 1)
    BY TopType
<1>2. PICK f : f = Front(stack)
    OBVIOUS
<1>3. /\ f \in Seq(FrameType) /\ Len(f) = Len(stack) - 1
      /\ \A i \in 1..(Len(stack) - 1) : f[i] = stack[i]
    BY <1>1, <1>2 DEF Front
<1>4. Grown(stack, stack') /\ Len(stack') = Len(stack) - 1 /\ stack'[Len(stack')] = frame
    <2>1. PICK t : t = [f EXCEPT ![Len(stack) - 1] = frame]
        OBVIOUS
    <2>2. Len(stack) \in Nat /\ DOMAIN stack = 1..Len(stack)
        BY <1>1
    <2>3. t \in Seq(FrameType) /\ Len(t) = Len(f) /\ t[Len(f)] = frame
        BY <1>3, <2>1, <2>2
    <2>4. \A i \in 1..(Len(f) - 1) : t[i] = f[i]
        BY <1>3, <2>1, <2>2
    <2>5. stack' = t
        BY <1>2, <2>1
    <2>6. Grown(stack, t)
        <3>1. Len(t) = Len(stack) - 1 /\ Len(t) \in 1..(Len(stack) + 1)
            BY <1>3, <2>2, <2>3
        <3>2. ASSUME NEW i \in 1..(Len(t) - 1) PROVE i \in DOMAIN stack /\ t[i] = stack[i]
            <4>1. i \in 1..(Len(f) - 1) /\ i \in 1..(Len(stack) - 1)
                BY <1>3, <2>2, <3>1
            <4> QED
                BY <1>3, <2>2, <2>4, <4>1
        <3> QED
            BY <2>3, <3>1, <3>2 DEF Grown
    <2> QED
        BY <1>3, <2>3, <2>5, <2>6
<1>5. Len(stack) - 1 \in DOMAIN stack
    BY <1>1
<1>6. frame.temp < Len(stack) - 1 /\ temp[frame.temp] \in Content
    BY <1>5 DEF Held, FramesRight, Turned
<1>7. FramesRight'
    BY <1>0, <1>1, <1>4, <1>6, FramesStayRight
<1>8. Shift(path)
    <2>1. Len(stack) - 1 \in 1..Len(stack)
        BY <1>1
    <2>2. stack' \in Seq(FrameType) /\ \A i \in 1..(Len(stack') - 1) : stack'[i] = stack[i]
        BY <1>4 DEF Grown
    <2>3. PICK n \in 1..Len(stack) : n = Len(stack) - 1
        BY <2>1
    <2>4. Len(stack') = n /\ stack'[n] = frame
        BY <1>4, <2>3
    <2> QED
        BY <2>2, <2>3, <2>4 DEF Shift
<1> QED
    BY <1>7, <1>8

\* A step that leaves the stack as it is.
LEMMA StackStays ==
    ASSUME Held, stack' = stack, build' = build, temp' = temp
    PROVE  FramesRight' /\ Shift(NoPath)
<1>1. FramesRight'
    BY DEF Held, FramesRight
<1>2. /\ Top \in FrameType /\ Top = stack[Len(stack)]
      /\ stack \in Seq(FrameType) /\ Len(stack) \in 1..(MaxNesting + 1)
    BY TopType
<1>3. Len(stack) \in 1..Len(stack)
    BY <1>2
<1> QED
    BY <1>1, <1>2, <1>3 DEF Shift, Turned

LEMMA BelowTop ==
    ASSUME Held, Len(stack) > 1
    PROVE  /\ stack[Len(stack) - 1] \in FrameType
           /\ stack[Len(stack) - 1].reading = Main /\ stack[Len(stack) - 1].failed = "no"
           /\ build.files[Main] # Absent
<1>1. stack \in Seq(FrameType) /\ Len(stack) \in Nat
    BY TopType
<1>2. Len(stack) - 1 \in 1..(Len(stack) - 1) /\ Len(stack) - 1 \in DOMAIN stack
    BY <1>1
<1> QED
    BY <1>1, <1>2 DEF Held, FramesRight

LEMMA ContextStays ==
    ASSUME FromContext, build' = build, disk' = disk
    PROVE  FromContext'
BY DEF FromContext

LEMMA FileWritten ==
    ASSUME FromContext, build' = build, NEW p \in Path, build.files[p] # Absent,
           NEW text \in Texts, disk' = [disk EXCEPT ![p] = text]
    PROVE  FromContext'
BY DEF FromContext, Trees

LEMMA ReturnKeeps ==
    ASSUME Held, NEW text \in Texts, Return(text), HistoryRight'
    PROVE  Held' /\ Shift(NoPath)
<1>1. build' = build /\ temp' = temp
    BY DEF Return
<1>2. CASE Len(stack) = 1
    <2>1. disk' = disk /\ stack' = stack /\ outcome' = [code |-> "ok", text |-> text]
        BY <1>2 DEF Return
    <2>2. FromContext'
        BY <1>1, <2>1, ContextStays DEF Held
    <2>3. FramesRight' /\ Shift(NoPath)
        BY <1>1, <2>1, StackStays
    <2> QED
        BY <1>1, <2>1, <2>2, <2>3 DEF Held
<1>3. CASE Len(stack) # 1
    <2>1. /\ disk' = [disk EXCEPT ![Main] = text] /\ outcome' = outcome
          /\ stack' = [Front(stack) EXCEPT ![Len(stack) - 1].reading = NoPath]
        BY <1>3 DEF Return
    <2>2. stack \in Seq(FrameType) /\ Len(stack) \in Nat /\ Len(stack) > 1
        BY <1>3, LengthType
    <2>3. PICK n : n = Len(stack) - 1
        OBVIOUS
    <2>4. Front(stack)[n] = stack[n]
        BY <2>2, <2>3 DEF Front
    <2>5. stack[n] \in FrameType /\ build.files[Main] # Absent
        BY <2>2, <2>3, BelowTop
    <2>6. PICK frame : frame = [stack[n] EXCEPT !.reading = NoPath]
        OBVIOUS
    <2>7. frame \in FrameType /\ Turned(stack[n], frame, NoPath)
        BY <2>5, <2>6 DEF FrameType, Turned
    <2>8. stack' = [Front(stack) EXCEPT ![n] = frame]
        BY <2>1, <2>3, <2>4, <2>6
    <2>9. FramesRight' /\ Shift(NoPath)
        BY <1>1, <2>2, <2>3, <2>7, <2>8, TopGone
    <2>10. FromContext'
        BY <1>1, <2>1, <2>5, FileWritten, NameAssumption DEF Held
    <2> QED
        BY <1>1, <2>1, <2>9, <2>10 DEF Held
<1> QED
    BY <1>2, <1>3

LEMMA FailKeeps ==
    ASSUME Held, NEW reason \in Reasons, Fail(reason), HistoryRight'
    PROVE  Held' /\ Shift(NoPath)
<1>1. Top \in FrameType
    BY TopType
<1>2. PICK frame : frame = [Top EXCEPT !.failed = reason]
    OBVIOUS
<1>3. frame \in FrameType /\ Turned(Top, frame, NoPath)
    BY <1>1, <1>2 DEF FrameType, Turned
<1>4. /\ stack' = [stack EXCEPT ![Len(stack)] = frame]
      /\ build' = build /\ disk' = disk /\ temp' = temp /\ outcome' = outcome
    BY <1>2 DEF Fail, SetTop
<1>5. FramesRight' /\ Shift(NoPath)
    BY <1>3, <1>4, TopStays
<1>6. FromContext'
    BY <1>4, ContextStays DEF Held
<1> QED
    BY <1>4, <1>5, <1>6 DEF Held

\* A file that is reported missing has a name, and some text has asked for it.
LEMMA MissedHere ==
    ASSUME Held, Result.kind = "missing-file"
    PROVE  /\ Result.path \in Path
           /\ Result.path \in Named(Text) \/
                \E p \in Path : disk[p] # Absent /\ Result.path \in Named(disk[p])
<1>1. disk \in Trees /\ Text \in Texts
    BY TopType DEF Held, FromContext
<1> QED
    BY <1>1, MissedIsNamed, BoundAssumption DEF Result

LEMMA MissKeeps ==
    ASSUME Held, RunMisses, HistoryRight'
    PROVE  Held' /\ Shift(Result.path)
<1>1. CASE Result.path = Top.last
    <2>1. Held' /\ Shift(NoPath)
        BY <1>1, FailKeeps DEF RunMisses, Reasons
    <2>2. PICK path : path = Result.path
        OBVIOUS
    <2>3. Shift(path)
        BY <2>1, ShiftAnywhere
    <2> QED
        BY <2>1, <2>2, <2>3
<1>2. CASE Result.path # Top.last
    <2>1. Top \in FrameType
        BY TopType
    <2>2. Result.path \in Path
        BY MissedHere DEF RunMisses
    <2>3. PICK frame : frame = [Top EXCEPT !.last = Result.path, !.reading = Result.path]
        OBVIOUS
    <2>4. frame \in FrameType /\ Turned(Top, frame, Result.path)
        BY <2>1, <2>2, <2>3 DEF FrameType, Turned
    <2>5. /\ stack' = [stack EXCEPT ![Len(stack)] = frame]
          /\ build' = build /\ disk' = disk /\ temp' = temp /\ outcome' = outcome
        BY <1>2, <2>3 DEF RunMisses, SetTop
    <2>6. FramesRight' /\ Shift(Result.path)
        <3>1. PICK path : path = Result.path
            OBVIOUS
        <3>2. Turned(Top, frame, path)
            BY <2>4, <3>1
        <3>3. FramesRight' /\ Shift(path)
            BY <2>4, <2>5, <3>2, TopStays
        <3> QED
            BY <3>1, <3>3
    <2>7. FromContext'
        BY <2>5, ContextStays DEF Held
    <2> QED
        BY <2>5, <2>6, <2>7 DEF Held
<1> QED
    BY <1>1, <1>2

LEMMA FetchKeeps ==
    ASSUME Held, NEW p \in Path, Fetch(p), HistoryRight'
    PROVE  Held' /\ Shift(NoPath)
<1>1. Top \in FrameType
    BY TopType
<1>2. PICK frame : frame = [Top EXCEPT !.reading = NoPath]
    OBVIOUS
<1>3. frame \in FrameType /\ Turned(Top, frame, NoPath)
    BY <1>1, <1>2 DEF FrameType, Turned
<1>4. /\ stack' = [stack EXCEPT ![Len(stack)] = frame] /\ build.files[p] # Absent
      /\ build' = build /\ disk' = [disk EXCEPT ![p] = build.files[p]] /\ temp' = temp /\ outcome' = outcome
    BY <1>2 DEF Fetch, SetTop
<1>5. FramesRight' /\ Shift(NoPath)
    BY <1>3, <1>4, TopStays
<1>6. build.files[p] \in Texts
    <2>1. build.files \in Trees
        BY BuildType DEF Held, FromContext
    <2>2. PICK files : files = build.files
        OBVIOUS
    <2> QED
        BY <1>4, <2>1, <2>2 DEF Trees
<1>7. FromContext'
    BY <1>4, <1>6, FileWritten DEF Held
<1> QED
    BY <1>4, <1>5, <1>7 DEF Held

LEMMA FetchTransformedKeeps ==
    ASSUME Held, FetchTransformed, HistoryRight'
    PROVE  Held'
<1>0. MaxNesting \in Nat
    BY BoundAssumption
<1>1. /\ Top.temp < Len(stack) /\ Top.temp \in 0..MaxNesting
      /\ stack \in Seq(FrameType) /\ Len(stack) \in Nat /\ Len(stack) <= MaxNesting
      /\ Top.reading = Main /\ Top.failed = "no" /\ build.files[Main] # Absent
    BY TopType DEF FetchTransformed, Reads, FrameType
<1>2. PICK second : /\ second \in {Top.temp, Top.temp + 1}
                    /\ temp' = [temp EXCEPT ![second] = build.files[Main]]
                    /\ stack' = Append(stack, Transform(second))
    BY DEF FetchTransformed
<1>3. build' = build /\ disk' = disk /\ outcome' = outcome
    BY DEF FetchTransformed
<1>4. second \in 0..MaxNesting /\ second < Len(stack) + 1
    BY <1>0, <1>1, <1>2
<1>5. PICK frame \in FrameType : frame = Transform(second) /\ frame.temp = second
    BY <1>4, TransformType DEF Transform
<1>6. Grown(stack, stack') /\ Len(stack') = Len(stack) + 1 /\ stack'[Len(stack')] = frame
    BY <1>1, <1>2, <1>5, FrameAdded
<1>7. build.files[Main] \in Content
    <2>1. build.files \in [Path -> Content \cup {Absent}]
        BY BuildType DEF Held, FromContext
    <2>2. PICK files : files = build.files
        OBVIOUS
    <2> QED
        BY <1>1, <2>1, <2>2, NameAssumption
<1>8. /\ temp \in [0..MaxNesting -> Texts \cup {Absent}]
      /\ temp' = [temp EXCEPT ![second] = build.files[Main]]
    BY <1>2 DEF Held
<1>9. PICK text \in Content : text = build.files[Main] /\ text \in Texts
    BY <1>7 DEF Texts
<1>10. temp' \in [0..MaxNesting -> Texts \cup {Absent}]
    BY <1>8, <1>9
<1>11. /\ temp'[second] \in Content
       /\ \A s \in 0..MaxNesting : temp[s] \in Content => temp'[s] \in Content
    BY <1>4, <1>8, <1>9
<1>12. FramesRight'
    BY <1>0, <1>1, <1>3, <1>4, <1>5, <1>6, <1>11, FramesStayRight
<1>13. FromContext'
    BY <1>3, ContextStays DEF Held
<1> QED
    BY <1>3, <1>10, <1>12, <1>13 DEF Held

LEMMA FetchFailsKeeps ==
    ASSUME Held, NEW p \in Path, FetchFails(p), HistoryRight'
    PROVE  Held' /\ Shift(WithDockerfile[p])
<1>1. Top \in FrameType /\ Top.reading = p
    BY TopType DEF FetchFails, Reads
<1>2. PICK frame : frame = NextName(Top, "not-read")
    OBVIOUS
<1>3. frame \in FrameType /\ Turned(Top, frame, WithDockerfile[p])
    BY <1>1, <1>2, NextNameIs DEF Reasons, Turned
<1>4. /\ stack' = [stack EXCEPT ![Len(stack)] = frame]
      /\ build' = build /\ disk' = disk /\ temp' = temp /\ outcome' = outcome
    BY <1>2 DEF FetchFails, SetTop
<1>5. FramesRight' /\ Shift(WithDockerfile[p])
    <2>1. PICK path : path = WithDockerfile[p]
        OBVIOUS
    <2>2. Turned(Top, frame, path)
        BY <1>3, <2>1
    <2>3. FramesRight' /\ Shift(path)
        BY <1>3, <1>4, <2>2, TopStays
    <2> QED
        BY <2>1, <2>3
<1>6. FromContext'
    BY <1>4, ContextStays DEF Held
<1> QED
    BY <1>4, <1>5, <1>6 DEF Held

LEMMA ReturnErrorKeeps ==
    ASSUME Held, ReturnError, HistoryRight'
    PROVE  Held' /\ Shift(WithDockerfile[Main])
<1>1. Top \in FrameType /\ Top.failed \in Reasons
    BY TopType DEF ReturnError, FrameType
<1>2. build' = build /\ disk' = disk /\ temp' = temp
    BY DEF ReturnError
<1>3. FromContext'
    BY <1>2, ContextStays DEF Held
<1>4. CASE Len(stack) = 1
    <2>1. stack' = stack /\ outcome' = [code |-> Top.failed, text |-> Empty]
        BY <1>4 DEF ReturnError
    <2>2. FramesRight' /\ Shift(WithDockerfile[Main])
        <3>1. FramesRight' /\ Shift(NoPath)
            BY <1>2, <2>1, StackStays
        <3>2. PICK path : path = WithDockerfile[Main]
            OBVIOUS
        <3>3. Shift(path)
            BY <3>1, ShiftAnywhere
        <3> QED
            BY <3>1, <3>2, <3>3
    <2>3. outcome' \in [code : Reasons \cup {"ok", "running"}, text : Texts]
        BY <1>1, <2>1 DEF Texts
    <2> QED
        BY <1>2, <1>3, <2>2, <2>3 DEF Held
<1>5. CASE Len(stack) # 1
    <2>1. stack \in Seq(FrameType) /\ Len(stack) \in Nat /\ Len(stack) > 1
        BY <1>5, LengthType
    <2>2. PICK n : n = Len(stack) - 1
        OBVIOUS
    <2>3. stack[n] \in FrameType /\ stack[n].reading \in Path /\ stack[n].reading = Main
        BY <2>1, <2>2, BelowTop, NameAssumption
    <2>4. PICK frame : frame = NextName(stack[n], Top.failed)
        OBVIOUS
    <2>5. frame \in FrameType /\ Turned(stack[n], frame, WithDockerfile[Main])
        BY <1>1, <2>3, <2>4, NextNameIs DEF Turned
    <2>6. stack' = [Front(stack) EXCEPT ![n] = frame] /\ outcome' = outcome
        BY <1>5, <2>2, <2>4 DEF ReturnError
    <2>7. FramesRight' /\ Shift(WithDockerfile[Main])
        <3>1. PICK path : path = WithDockerfile[Main]
            OBVIOUS
        <3>2. Turned(stack[Len(stack) - 1], frame, path)
            BY <2>2, <2>5, <3>1
        <3>3. FramesRight' /\ Shift(path)
            BY <1>2, <2>1, <2>2, <2>5, <2>6, <3>2, TopGone
        <3> QED
            BY <3>1, <3>3
    <2> QED
        BY <1>2, <1>3, <2>6, <2>7 DEF Held
<1> QED
    BY <1>4, <1>5

LEMMA HistoryStays == Held /\ [Next]_vars => HistoryRight' /\ build' = build
<1> SUFFICES ASSUME Held, [Next]_vars PROVE HistoryRight' /\ build' = build
    OBVIOUS
<1>1. build' = build
    BY DEF Next, Step, Done, vars, RunNeverStarts, RunSucceeds, RunFails, RunReportsChain,
           RunReports, RunMisses, Fetch, FetchFails, FetchTransformed, ReturnError, Return, Fail
<1>2. HistoryRight
    BY DEF Held
<1>3. CASE history' = history
    BY <1>1, <1>2, <1>3 DEF HistoryRight, history
<1>4. CASE RunNeverStarts
    BY <1>1, <1>2, <1>4 DEF HistoryRight, RunNeverStarts
<1>5. CASE RunFails
    BY <1>1, <1>2, <1>5 DEF HistoryRight, RunFails
<1>6. CASE FetchTransformed
    <2>1. shared' \in BOOLEAN
        BY <1>2, <1>6 DEF HistoryRight, FetchTransformed
    <2> QED
        BY <1>1, <1>2, <1>6, <2>1 DEF HistoryRight, FetchTransformed
<1>7. CASE \E p \in Path : FetchFails(p)
    BY <1>1, <1>2, <1>7 DEF HistoryRight, FetchFails
<1>8. history' = history \/ RunNeverStarts \/ RunFails \/ FetchTransformed \/ \E p \in Path : FetchFails(p)
    BY DEF Next, Step, Done, vars, RunSucceeds, RunReportsChain, RunReports, RunMisses, Fetch, ReturnError
<1> QED
    BY <1>1, <1>3, <1>4, <1>5, <1>6, <1>7, <1>8

LEMMA StepKeeps == Held /\ [Next]_vars => Held'
<1> SUFFICES ASSUME Held, [Next]_vars PROVE Held'
    OBVIOUS
<1>0. Text \in Content /\ Expanded(Text) \in Texts /\ Empty \in Texts
    BY TopType, ExpandedType DEF Texts
<1>9. HistoryRight'
    BY HistoryStays
<1>1. CASE RunNeverStarts
    BY <1>0, <1>1, <1>9, ReturnKeeps DEF RunNeverStarts
<1>2. CASE RunSucceeds
    BY <1>0, <1>2, <1>9, ReturnKeeps DEF RunSucceeds
<1>3. CASE RunFails \/ RunReportsChain \/ RunReports
    BY <1>3, <1>9, FailKeeps DEF RunFails, RunReportsChain, RunReports, Reasons
<1>4. CASE RunMisses
    BY <1>4, <1>9, MissKeeps
<1>5. CASE \E p \in Path : Fetch(p) \/ FetchFails(p)
    BY <1>5, <1>9, FetchKeeps, FetchFailsKeeps
<1>6. CASE FetchTransformed
    BY <1>6, <1>9, FetchTransformedKeeps
<1>7. CASE ReturnError
    BY <1>7, <1>9, ReturnErrorKeeps
<1>8. CASE UNCHANGED vars
    BY <1>8, <1>9 DEF vars, Held, FromContext, FramesRight
<1> QED
    BY <1>1, <1>2, <1>3, <1>4, <1>5, <1>6, <1>7, <1>8 DEF Next, Step, Done

\* What the frontend holds in every reachable state.
THEOREM FrontendInvariant == Spec => []Held
<1>1. Init => Held
    BY InitHolds
<1>2. Held /\ [Next]_vars => Held'
    BY StepKeeps
<1> QED
    BY <1>1, <1>2, PTL DEF Spec

\* TypeOK: the state is made of what the frontend can hold, and the working
\* directory is part of the context, which is a tree.
THEOREM TypesCorrect == Spec => []TypeOK
<1>1. Held => TypeOK
    <2> SUFFICES ASSUME Held PROVE TypeOK
        OBVIOUS
    <2>1. DiskIsTree
        <3> SUFFICES ASSUME NEW p \in Path, disk[p] # Absent
                     PROVE  /\ build.files[p] # Absent
                            /\ ~BehindFile(disk, p)
                            /\ ~IsDirectory(disk, p)
            BY DEF DiskIsTree
        <3>1. build \in Builds /\ \A q \in Path : disk[q] # Absent => build.files[q] # Absent
            BY DEF Held, FromContext
        <3>2. \A q \in Path : build.files[q] # Absent => \A r \in Above[q] : build.files[r] = Absent
            BY <3>1, TreeAssumption
        <3>3. Above[p] \subseteq Path
            BY NameAssumption
        <3>4. ~BehindFile(disk, p)
            BY <3>1, <3>2, <3>3 DEF BehindFile
        <3>5. ~IsDirectory(disk, p)
            BY <3>1, <3>2 DEF IsDirectory
        <3> QED
            BY <3>1, <3>4, <3>5
    <2>2. build.main \in Texts /\ stack \in Seq(FrameType)
        BY BuildType DEF Held, FromContext, FramesRight, Texts
    <2> QED
        BY <2>1, <2>2 DEF Held, FromContext, Trees, HistoryRight, TypeOK
<1> QED
    BY <1>1, FrontendInvariant, PTL

-----------------------------------------------------------------------------
(***************************************************************************)
(* Whose copy each transform has.  The first has that of the main          *)
(* Dockerfile it was given, unless a nested one began in the same second;  *)
(* the nested ones have that of the file of the context.                   *)
(***************************************************************************)
Asked == {build.main} \cup {t \in {build.files[Main]} : shared /\ t # Absent}

CopiesRight ==
    /\ stack[1].temp = 0
    /\ temp[0] \in Asked
    /\ \A i \in 2..Len(stack) : temp[stack[i].temp] = build.files[Main]

LEMMA CopiesShift ==
    ASSUME Held, CopiesRight, NEW path, Shift(path), shared' = shared
    PROVE  CopiesRight'
<1>1. PICK n \in 1..Len(stack), frame \in FrameType :
            /\ stack' \in Seq(FrameType) /\ Len(stack') = n /\ stack'[n] = frame
            /\ Turned(stack[n], frame, path)
            /\ \A i \in 1..(n - 1) : stack'[i] = stack[i]
    BY DEF Shift
<1>2. stack \in Seq(FrameType) /\ Len(stack) \in Nat
    BY LengthType
<1>3. n \in Nat /\ 1 <= n /\ n <= Len(stack)
    BY <1>2
<1>4. \A i \in 1..n : stack'[i].temp = stack[i].temp
    <2> SUFFICES ASSUME NEW i \in 1..n PROVE stack'[i].temp = stack[i].temp
        OBVIOUS
    <2>1. CASE i = n
        BY <1>1, <2>1 DEF Turned
    <2>2. CASE i # n
        <3>1. i \in 1..(n - 1)
            BY <1>3, <2>2
        <3> QED
            BY <1>1, <3>1
    <2> QED
        BY <2>1, <2>2
<1>5. build' = build /\ temp' = temp /\ Asked' = Asked
    BY DEF Shift, Asked
<1>6. 1 \in 1..n /\ \A i \in 2..n : i \in 1..n /\ i \in 2..Len(stack)
    BY <1>2, <1>3
<1> QED
    BY <1>1, <1>4, <1>5, <1>6 DEF CopiesRight

LEMMA CopyMade ==
    ASSUME Held, CopiesRight, FetchTransformed
    PROVE  CopiesRight'
<1>0. MaxNesting \in Nat
    BY BoundAssumption
<1>1. /\ stack \in Seq(FrameType) /\ Len(stack) \in Nat /\ Len(stack) > 0
      /\ Top.temp < Len(stack) /\ Top.temp \in 0..MaxNesting /\ Len(stack) <= MaxNesting
    BY TopType, LengthType DEF FrameType, FetchTransformed
<1>2. PICK second \in {Top.temp, Top.temp + 1} :
            /\ temp' = [temp EXCEPT ![second] = build.files[Main]]
            /\ stack' = Append(stack, Transform(second))
            /\ shared' = (shared \/ second = Top.temp)
    BY DEF FetchTransformed
<1>3. build' = build /\ build.files[Main] # Absent
    BY DEF FetchTransformed
<1>4. temp \in [0..MaxNesting -> Texts \cup {Absent}]
    BY DEF Held
<1>5. second \in 0..MaxNesting /\ 0 \in 0..MaxNesting /\ (second = 0 => second = Top.temp)
    BY <1>0, <1>1, <1>2
<1>6. PICK frame \in FrameType : frame = Transform(second) /\ frame.temp = second
    BY <1>5, TransformType DEF Transform
<1>7. /\ Len(stack') = Len(stack) + 1 /\ stack'[Len(stack) + 1] = frame
      /\ \A i \in 1..Len(stack) : stack'[i] = stack[i]
    BY <1>1, <1>2, <1>6
<1>8. \A s \in 0..MaxNesting : temp'[s] = IF s = second THEN build.files[Main] ELSE temp[s]
    BY <1>2, <1>4
<1>9. stack'[1].temp = 0
    <2>1. 1 \in 1..Len(stack)
        BY <1>1
    <2> QED
        BY <1>7, <2>1 DEF CopiesRight
<1>10. temp'[0] \in Asked'
    <2>1. CASE second = 0
        <3>1. shared'
            BY <1>2, <1>5, <2>1
        <3> QED
            BY <1>3, <1>5, <1>8, <2>1, <3>1 DEF Asked
    <2>2. CASE second # 0
        <3>1. temp'[0] = temp[0] /\ (shared => shared')
            BY <1>2, <1>5, <1>8, <2>2
        <3> QED
            BY <1>3, <3>1 DEF CopiesRight, Asked
    <2> QED
        BY <2>1, <2>2
<1>11. ASSUME NEW i \in 2..Len(stack') PROVE temp'[stack'[i].temp] = build.files[Main]
    <2>1. CASE i = Len(stack) + 1
        BY <1>5, <1>6, <1>7, <1>8, <2>1
    <2>2. CASE i # Len(stack) + 1
        <3>1. i \in 1..Len(stack) /\ i \in 2..Len(stack) /\ i \in DOMAIN stack
            BY <1>1, <1>7, <2>2
        <3>2. stack[i].temp \in 0..MaxNesting
            <4>1. stack[i] \in FrameType
                BY <1>1, <3>1
            <4> QED
                BY <4>1 DEF FrameType
        <3>3. temp[stack[i].temp] = build.files[Main] /\ stack'[i] = stack[i]
            BY <1>7, <3>1 DEF CopiesRight
        <3> QED
            BY <1>8, <3>2, <3>3
    <2> QED
        BY <2>1, <2>2
<1> QED
    BY <1>3, <1>9, <1>10, <1>11 DEF CopiesRight

\* What all steps but one do to the stack.
LEMMA Shifts ==
    ASSUME Held, [Next]_vars
    PROVE  FetchTransformed \/ (shared' = shared /\ \E path : Shift(path))
<1>0. Text \in Content /\ Expanded(Text) \in Texts /\ Empty \in Texts /\ HistoryRight'
    BY TopType, ExpandedType, HistoryStays DEF Texts
<1>1. CASE RunNeverStarts
    <2>1. Return(Empty) /\ shared' = shared
        BY <1>1 DEF RunNeverStarts
    <2>2. Shift(NoPath)
        BY <1>0, <2>1, ReturnKeeps
    <2> QED
        BY <2>1, <2>2
<1>2. CASE RunSucceeds
    <2>1. Return(Expanded(Text)) /\ shared' = shared
        BY <1>2 DEF RunSucceeds, history
    <2>2. Shift(NoPath)
        BY <1>0, <2>1, ReturnKeeps
    <2> QED
        BY <2>1, <2>2
<1>3. CASE RunFails \/ RunReportsChain \/ RunReports
    <2>1. shared' = shared
        BY <1>3 DEF RunFails, RunReportsChain, RunReports, history
    <2>2. PICK reason \in Reasons : Fail(reason)
        BY <1>3 DEF RunFails, RunReportsChain, RunReports, Reasons
    <2>3. Shift(NoPath)
        BY <1>0, <2>2, FailKeeps
    <2> QED
        BY <2>1, <2>3
<1>4. CASE RunMisses
    <2>1. shared' = shared
        BY <1>4 DEF RunMisses, history
    <2>2. Shift(Result.path)
        BY <1>0, <1>4, MissKeeps
    <2>3. PICK path : path = Result.path
        OBVIOUS
    <2>4. Shift(path)
        BY <2>2, <2>3
    <2> QED
        BY <2>1, <2>4
<1>5. ASSUME NEW p \in Path, Fetch(p)
      PROVE  shared' = shared /\ \E path : Shift(path)
    <2>1. shared' = shared
        BY <1>5 DEF Fetch, history
    <2>2. Shift(NoPath)
        BY <1>0, <1>5, FetchKeeps
    <2> QED
        BY <2>1, <2>2
<1>6. ASSUME NEW p \in Path, FetchFails(p)
      PROVE  shared' = shared /\ \E path : Shift(path)
    <2>1. shared' = shared
        BY <1>6 DEF FetchFails
    <2>2. Shift(WithDockerfile[p])
        BY <1>0, <1>6, FetchFailsKeeps
    <2>3. PICK path : path = WithDockerfile[p]
        OBVIOUS
    <2>4. Shift(path)
        BY <2>2, <2>3
    <2> QED
        BY <2>1, <2>4
<1>7. CASE ReturnError
    <2>1. shared' = shared
        BY <1>7 DEF ReturnError, history
    <2>2. Shift(WithDockerfile[Main])
        BY <1>0, <1>7, ReturnErrorKeeps
    <2>3. PICK path : path = WithDockerfile[Main]
        OBVIOUS
    <2>4. Shift(path)
        BY <2>2, <2>3
    <2> QED
        BY <2>1, <2>4
<1>8. CASE UNCHANGED vars
    <2>1. shared' = shared /\ stack' = stack /\ build' = build /\ temp' = temp
        BY <1>8 DEF vars, history
    <2>2. Shift(NoPath)
        BY <2>1, StackStays
    <2> QED
        BY <2>1, <2>2
<1> QED
    BY <1>1, <1>2, <1>3, <1>4, <1>5, <1>6, <1>7, <1>8 DEF Next, Step, Done

LEMMA CopiesInvariant == Spec => []CopiesRight
<1>1. Init => CopiesRight
    <2> SUFFICES ASSUME Init PROVE CopiesRight
        OBVIOUS
    <2>0. Transform(0).temp = 0
        BY DEF Transform
    <2>1. PICK frame : frame = Transform(0) /\ frame.temp = 0
        BY <2>0
    <2>2. stack = <<frame>> /\ temp[0] = build.main
        BY <2>1, BoundAssumption DEF Init
    <2>3. stack[1] = frame /\ Len(stack) = 1 /\ 2..1 = {}
        BY <2>2
    <2> QED
        BY <2>1, <2>2, <2>3 DEF CopiesRight, Asked
<1>2. Held /\ CopiesRight /\ [Next]_vars => CopiesRight'
    BY Shifts, CopiesShift, CopyMade
<1> QED
    BY <1>1, <1>2, FrontendInvariant, PTL DEF Spec

LEMMA TextOfContext ==
    ASSUME Held, CopiesRight
    PROVE  /\ Text \in ContextTexts
           /\ Len(stack) = 1 => Text \in Asked
           /\ Len(stack) # 1 => Text = build.files[Main]
<1>1. /\ Len(stack) \in DOMAIN stack /\ Top = stack[Len(stack)] /\ Text \in Content
      /\ Len(stack) \in Nat /\ Len(stack) >= 1
    BY TopType, LengthType
<1>2. CASE Len(stack) = 1
    <2>1. Text \in Asked
        BY <1>1, <1>2 DEF CopiesRight, Text
    <2> QED
        BY <1>2, <2>1, NameAssumption DEF Asked, ContextTexts
<1>3. CASE Len(stack) # 1
    <2>0. PICK n \in Nat : n = Len(stack) /\ n >= 1
        BY <1>1
    <2>1. Len(stack) \in 2..Len(stack)
        BY <2>0, <1>3
    <2>2. Text = build.files[Main]
        BY <1>1, <2>1 DEF CopiesRight, Text
    <2>3. Absent \notin Content
        BY TextAssumption DEF Texts
    <2> QED
        BY <1>1, <1>3, <2>2, <2>3, NameAssumption DEF ContextTexts
<1> QED
    BY <1>2, <1>3


-----------------------------------------------------------------------------
(***************************************************************************)
(* What the command expands in the working directory, it expands in the    *)
(* build context, or it meets a directory there.  A file of the context    *)
(* that the frontend has transformed refers to no other in the working     *)
(* directory, so the levels are counted anew from it: in the context they  *)
(* are deeper.                                                             *)
(***************************************************************************)
Good(problem) == problem.kind \in {"none", "uncoded"}

\* A working directory that has part of the files of a context, and some text
\* for the main Dockerfile.
PartOf(files, context) ==
    /\ files \in Trees /\ context \in Trees
    /\ \A p \in Path : files[p] # Absent => context[p] # Absent
    /\ \A p \in Path :
            context[p] # Absent /\ files[WithDockerfile[p]] # Absent => WithDockerfile[p] = p
    /\ \A p \in Path : files[p] # Absent /\ p # Main => files[p] = context[p]

LEMMA LookupFinds ==
    ASSUME NEW files, NEW context, PartOf(files, context),
           NEW p \in Path, NEW ext \in [Path -> Path],
           Lookup(files, p, ext).kind = "none"
    PROVE  Lookup(context, p, ext).kind \in {"none", "uncoded"}
<1>1. \A q \in Path : files[q] # Absent => context[q] # Absent
    BY DEF PartOf
<1>2. ext[p] \in Path
    OBVIOUS
<1>3. CASE context[p] # Absent
    BY <1>3 DEF Lookup, Problem
<1>4. CASE context[p] = Absent
    <2>1. files[p] = Absent
        BY <1>1, <1>4
    <2>2. files[ext[p]] # Absent
        BY <2>1 DEF Lookup, Problem
    <2>3. context[ext[p]] # Absent
        BY <1>1, <1>2, <2>2
    <2> QED
        BY <1>4, <2>3 DEF Lookup, Problem
<1> QED
    BY <1>3, <1>4

LEMMA LookupFindsSame ==
    ASSUME NEW files, NEW context, PartOf(files, context), NEW p \in Path,
           NEW at, at = Lookup(files, p, WithDockerfile), at.kind = "none",
           NEW here, here = Lookup(context, p, WithDockerfile), here.kind = "none"
    PROVE  here.path = at.path /\ here.path \in Path /\ files[here.path] # Absent
<1>1. WithDockerfile[p] \in Path
    BY NameAssumption
<1>2. \A q \in Path : files[q] # Absent => context[q] # Absent
    BY DEF PartOf
<1>3. CASE context[p] # Absent
    <2>1. here.path = p
        BY <1>3 DEF Lookup, Problem
    <2>2. files[p] # Absent
        <3> SUFFICES ASSUME files[p] = Absent PROVE FALSE
            OBVIOUS
        <3>1. files[WithDockerfile[p]] # Absent
            BY DEF Lookup, Problem
        <3>2. WithDockerfile[p] = p
            BY <1>3, <3>1 DEF PartOf
        <3> QED
            BY <3>1, <3>2
    <2>3. at.path = p
        BY <2>2 DEF Lookup, Problem
    <2> QED
        BY <2>1, <2>2, <2>3
<1>4. CASE context[p] = Absent
    <2>1. files[p] = Absent
        BY <1>2, <1>4
    <2>2. at.path = WithDockerfile[p] /\ files[WithDockerfile[p]] # Absent
        BY <2>1 DEF Lookup, Problem
    <2>3. here.path = WithDockerfile[p]
        BY <1>4 DEF Lookup, Problem
    <2> QED
        BY <1>1, <2>2, <2>3
<1> QED
    BY <1>3, <1>4

LEMMA RefAgrees ==
    ASSUME NEW files, NEW context, PartOf(files, context), NEW ref \in References,
           NEW n \in Nat, NEW m \in Nat, n # 0 => m # 0,
           NEW below, NEW there,
           n # 0 => \A p \in Path : files[p] # Absent /\ below[p] = Fine => Good(there[p]),
           RefProblem(files, ref, n, below) = Fine
    PROVE  Good(RefProblem(context, ref, m, there))
<1>0. Good(Fine) /\ Fine.kind = "none"
    BY DEF Good, Fine, Problem
<1>1. PICK ext : ext = IF ref.env THEN WithEnv ELSE WithDockerfile
    OBVIOUS
<1>2. PICK at : at = Lookup(files, ref.to, ext)
    OBVIOUS
<1>3. PICK here : here = Lookup(context, ref.to, ext)
    OBVIOUS
<1>4. PICK problem : problem = RefProblem(files, ref, n, below)
    OBVIOUS
<1>5. PICK result : result = RefProblem(context, ref, m, there)
    OBVIOUS
<1>6. /\ ref.env \in BOOLEAN /\ ChainError # Fine
      /\ IF n = 0 /\ ~ref.env THEN problem = ChainError
         ELSE IF ref.to = Elsewhere THEN problem = Fine
         ELSE /\ ref.to \in Path /\ ext \in [Path -> Path]
              /\ problem = IF at.kind # "none" THEN at
                           ELSE IF ref.env THEN Fine ELSE below[at.path]
    BY <1>1, <1>2, <1>4, RefProblemIs
<1>7. ~(n = 0 /\ ~ref.env)
    BY <1>4, <1>6
<1>8. IF m = 0 /\ ~ref.env THEN result = ChainError
      ELSE IF ref.to = Elsewhere THEN result = Fine
      ELSE /\ ref.to \in Path /\ ext \in [Path -> Path]
           /\ result = IF here.kind # "none" THEN here
                       ELSE IF ref.env THEN Fine ELSE there[here.path]
    BY <1>1, <1>3, <1>5, RefProblemIs
<1>9. ~(m = 0 /\ ~ref.env)
    BY <1>7
<1>10. CASE ref.to = Elsewhere
    BY <1>0, <1>5, <1>8, <1>9, <1>10
<1>11. CASE ref.to # Elsewhere
    <2>1. ref.to \in Path /\ ext \in [Path -> Path] /\ at.kind = "none"
        BY <1>0, <1>4, <1>6, <1>7, <1>11
    <2>2. result = IF here.kind # "none" THEN here ELSE IF ref.env THEN Fine ELSE there[here.path]
        BY <1>8, <1>9, <1>11
    <2>3. PICK p \in Path : p = ref.to
        BY <2>1
    <2>4. here.kind \in {"none", "uncoded"}
        BY <1>2, <1>3, <2>1, <2>3, LookupFinds
    <2>5. CASE here.kind = "uncoded"
        BY <1>5, <2>2, <2>5 DEF Good
    <2>6. CASE here.kind = "none" /\ ref.env
        BY <1>0, <1>5, <2>2, <2>6
    <2>7. CASE here.kind = "none" /\ ~ref.env
        <3>1. ext = WithDockerfile /\ n # 0
            BY <1>1, <1>7, <2>7
        <3>2. here.path = at.path /\ here.path \in Path /\ files[here.path] # Absent
            BY <1>2, <1>3, <2>1, <2>3, <2>7, <3>1, LookupFindsSame
        <3>3. below[at.path] = Fine
            BY <1>4, <1>6, <1>7, <1>11, <2>1, <2>7
        <3>4. Good(there[here.path])
            BY <3>1, <3>2, <3>3
        <3> QED
            BY <1>5, <2>2, <2>7, <3>4
    <2> QED
        BY <1>6, <2>4, <2>5, <2>6, <2>7
<1> QED
    BY <1>10, <1>11

LEMMA FirstAgrees ==
    ASSUME NEW files, NEW context, PartOf(files, context), NEW refs \in Seq(References),
           NEW n \in Nat, NEW m \in Nat, n # 0 => m # 0,
           NEW below, NEW there,
           n # 0 => \A p \in Path : files[p] # Absent /\ below[p] = Fine => Good(there[p]),
           FirstProblem(files, refs, n, below) = Fine
    PROVE  Good(FirstProblem(context, refs, m, there))
<1>0. Good(Fine) /\ \A i \in DOMAIN refs : refs[i] \in References
    BY DEF Good, Fine, Problem
<1>1. \A i \in DOMAIN refs : RefProblem(files, refs[i], n, below) = Fine
    BY FirstProblemIs
<1>2. \A i \in DOMAIN refs : Good(RefProblem(context, refs[i], m, there))
    BY <1>0, <1>1, RefAgrees
<1>3. \/ FirstProblem(context, refs, m, there) = Fine
      \/ \E i \in DOMAIN refs :
            FirstProblem(context, refs, m, there) = RefProblem(context, refs[i], m, there)
    <2>1. \/ /\ \A i \in DOMAIN refs : RefProblem(context, refs[i], m, there) = Fine
             /\ FirstProblem(context, refs, m, there) = Fine
          \/ \E i \in DOMAIN refs :
                /\ RefProblem(context, refs[i], m, there) # Fine
                /\ \A j \in DOMAIN refs : j < i => RefProblem(context, refs[j], m, there) = Fine
                /\ FirstProblem(context, refs, m, there) = RefProblem(context, refs[i], m, there)
        BY FirstProblemIs
    <2> QED
        BY <2>1, Zenon
<1>4. CASE FirstProblem(context, refs, m, there) = Fine
    BY <1>0, <1>4
<1>5. CASE \E i \in DOMAIN refs :
                FirstProblem(context, refs, m, there) = RefProblem(context, refs[i], m, there)
    <2>1. PICK i \in DOMAIN refs :
                FirstProblem(context, refs, m, there) = RefProblem(context, refs[i], m, there)
        BY <1>5
    <2>2. Good(RefProblem(context, refs[i], m, there))
        BY <1>2
    <2> QED
        BY <2>1, <2>2
<1> QED
    BY <1>3, <1>4, <1>5

\* A file is "more" levels deeper in the context than in the working directory,
\* where the files below the main Dockerfile are not seen.
LEMMA LevelsAgree ==
    ASSUME NEW files, NEW context, PartOf(files, context), NEW more \in Nat,
           \/ files[Main] = Absent
           \/ \A n \in Nat : Good(ProblemIn(context, n + more)[Main])
    PROVE  \A n \in Nat : \A p \in Path :
                files[p] # Absent /\ ProblemIn(files, n)[p] = Fine =>
                    Good(ProblemIn(context, n + more)[p])
<1> DEFINE Agree(n) == \A p \in Path :
                files[p] # Absent /\ ProblemIn(files, n)[p] = Fine =>
                    Good(ProblemIn(context, n + more)[p])
           S == {n \in Nat : Agree(n)}
<1>1. files \in Trees /\ \A p \in Path : files[p] # Absent /\ p # Main => files[p] = context[p]
    BY DEF PartOf
<1>2. ASSUME NEW n \in Nat, NEW p \in Path, files[p] # Absent, ProblemIn(files, n)[p] = Fine,
             NEW m \in Nat, m = n + more,
             NEW below, below = IF n = 0 THEN Bottom ELSE ProblemIn(files, n - 1),
             NEW there, there = IF m = 0 THEN Bottom ELSE ProblemIn(context, m - 1),
             n # 0 => \A q \in Path : files[q] # Absent /\ below[q] = Fine => Good(there[q])
      PROVE  Good(ProblemIn(context, m)[p])
    <2>1. CASE p = Main
        BY <1>2, <2>1
    <2>2. CASE p # Main
        <3>1. files[p] = context[p]
            BY <1>1, <1>2, <2>2
        <3>2. PICK refs \in Seq(References) : refs = files[p].refs
            BY <1>1, <1>2, TextType DEF Trees
        <3>3. FirstProblem(files, refs, n, below) = Fine
            BY <1>2, <3>2, InFile
        <3>4. n # 0 => m # 0
            BY <1>2
        <3>5. Good(FirstProblem(context, refs, m, there))
            BY <1>2, <3>3, <3>4, FirstAgrees
        <3> QED
            BY <1>2, <3>1, <3>2, <3>5, InFile
    <2> QED
        BY <2>1, <2>2
<1>3. 0 \in S
    <2>1. PICK m \in Nat : m = 0 + more
        OBVIOUS
    <2>2. PICK below : below = Bottom
        OBVIOUS
    <2>3. PICK there : there = IF m = 0 THEN Bottom ELSE ProblemIn(context, m - 1)
        OBVIOUS
    <2>4. \A p \in Path : files[p] # Absent /\ ProblemIn(files, 0)[p] = Fine =>
                Good(ProblemIn(context, m)[p])
        BY <1>2, <2>1, <2>2, <2>3
    <2> QED
        BY <2>1, <2>4
<1>4. ASSUME NEW n \in S PROVE n + 1 \in S
    <2>0. Agree(n) /\ n \in Nat
        OBVIOUS
    <2> HIDE DEF S
    <2>1. PICK k \in Nat : k = n + 1 /\ k # 0 /\ k - 1 = n
        BY <2>0
    <2>2. PICK m \in Nat : m = k + more /\ m # 0 /\ m - 1 = n + more
        BY <2>0, <2>1
    <2>3. PICK below : below = ProblemIn(files, k - 1)
        OBVIOUS
    <2>4. PICK there : there = ProblemIn(context, m - 1)
        OBVIOUS
    <2>5. \A q \in Path : files[q] # Absent /\ below[q] = Fine => Good(there[q])
        BY <2>0, <2>1, <2>2, <2>3, <2>4
    <2>6. \A p \in Path : files[p] # Absent /\ ProblemIn(files, k)[p] = Fine =>
                Good(ProblemIn(context, m)[p])
        BY <1>2, <2>1, <2>2, <2>3, <2>4, <2>5
    <2>7. k \in S
        BY <2>2, <2>6 DEF S
    <2> QED
        BY <2>1, <2>7
<1>5. S = Nat
    <2> HIDE DEF S
    <2>1. S \in SUBSET Nat
        BY DEF S
    <2> QED
        BY <1>3, <1>4, <2>1, SetInduction
<1> QED
    BY <1>5

LEMMA CommandAgrees ==
    ASSUME NEW files, NEW context, PartOf(files, context), NEW text \in Texts,
           NEW limit \in Nat \ {0}, NEW more \in Nat,
           \/ files[Main] = Absent
           \/ \A n \in Nat : Good(ProblemIn(context, n + more)[Main]),
           Command(files, text, limit) = Fine
    PROVE  Good(Command(context, text, limit + more))
<1>1. PICK refs \in Seq(References) : refs = text.refs
    BY TextType
<1>2. PICK n \in Nat : n = limit - 1
    OBVIOUS
<1>3. PICK m \in Nat : m = limit + more /\ m # 0 /\ m - 1 = n + more
    BY <1>2
<1>4. \A p \in Path : files[p] # Absent /\ ProblemIn(files, n)[p] = Fine =>
            Good(ProblemIn(context, n + more)[p])
    BY LevelsAgree
<1>5. FirstProblem(files, refs, limit, ProblemIn(files, n)) = Fine
    BY <1>1, <1>2 DEF Command
<1>6. PICK below : below = ProblemIn(files, n)
    OBVIOUS
<1>7. PICK there : there = ProblemIn(context, n + more)
    OBVIOUS
<1>8. Good(FirstProblem(context, refs, m, there))
    BY <1>3, <1>4, <1>5, <1>6, <1>7, FirstAgrees
<1>9. Command(context, text, m) = FirstProblem(context, refs, m, there)
    BY <1>1, <1>3, <1>7 DEF Command
<1> QED
    BY <1>3, <1>8, <1>9

-----------------------------------------------------------------------------
(***************************************************************************)
(* What has been fetched, and why.                                         *)
(***************************************************************************)
\* What the steps do not take back.
LEMMA OnlyMore ==
    ASSUME Held, [Next]_vars
    PROVE  /\ build' = build /\ ContextTexts' = ContextTexts /\ Unambiguous' = Unambiguous
           /\ unread \subseteq unread'
           /\ started' => started
           /\ shared => shared'
           /\ killed => killed'
<1>1. build' = build /\ HistoryRight
    BY HistoryStays DEF Held
<1>2. ContextTexts' = ContextTexts /\ Unambiguous' = Unambiguous
    BY <1>1 DEF ContextTexts, Unambiguous
<1>3. CASE history' = history
    BY <1>1, <1>2, <1>3 DEF history
<1>4. CASE RunNeverStarts
    BY <1>1, <1>2, <1>4 DEF RunNeverStarts
<1>5. CASE RunFails
    BY <1>1, <1>2, <1>5 DEF RunFails
<1>6. CASE FetchTransformed
    BY <1>1, <1>2, <1>6 DEF FetchTransformed
<1>7. CASE \E p \in Path : FetchFails(p)
    BY <1>1, <1>2, <1>7 DEF FetchFails
<1>8. history' = history \/ RunNeverStarts \/ RunFails \/ FetchTransformed \/ \E p \in Path : FetchFails(p)
    BY DEF Next, Step, Done, vars, RunSucceeds, RunReportsChain, RunReports, RunMisses, Fetch, ReturnError
<1> QED
    BY <1>3, <1>4, <1>5, <1>6, <1>7, <1>8

\* A text of the context asks for the file, or it is the second name of one that
\* could not be read.
Sought(p) ==
    \/ \E text \in ContextTexts : p \in Named(text)
    \/ \E q \in Path : p = WithDockerfile[q] /\ p # q /\ (build.files[q] = Absent \/ q \in unread)

Fetched ==
    /\ \A p \in Path : p # Main /\ disk[p] # Absent => disk[p] = build.files[p]
    /\ disk[Main] # Absent => disk[Main].refs = <<>>
    /\ Unambiguous => \A p \in Path : disk[p] # Absent => Sought(p)

\* A file that is read now is not there, or it is sought.
Reading ==
    Unambiguous => \A i \in DOMAIN stack : \A p \in Path :
        stack[i].reading = p => build.files[p] = Absent \/ Sought(p)

LEMMA SoughtStays ==
    ASSUME Held, [Next]_vars, NEW p, Sought(p)
    PROVE  Sought(p)'
BY OnlyMore DEF Sought

LEMMA ReadingShift ==
    ASSUME Held, [Next]_vars, Reading, NEW path, Shift(path),
           Unambiguous /\ path \in Path => build.files[path] = Absent \/ Sought(path)'
    PROVE  Reading'
<1>1. PICK n \in 1..Len(stack), frame \in FrameType :
            /\ stack' \in Seq(FrameType) /\ Len(stack') = n /\ stack'[n] = frame
            /\ Turned(stack[n], frame, path)
            /\ \A i \in 1..(n - 1) : stack'[i] = stack[i]
    BY DEF Shift
<1>2. stack \in Seq(FrameType) /\ Len(stack) \in Nat
    BY LengthType
<1>3. DOMAIN stack = 1..Len(stack) /\ DOMAIN stack' = 1..n /\ n \in Nat
    BY <1>1, <1>2
<1>4. build' = build /\ Unambiguous' = Unambiguous
    BY OnlyMore
<1>5. ASSUME Unambiguous, NEW i \in DOMAIN stack', NEW p \in Path, stack'[i].reading = p
      PROVE  build.files[p] = Absent \/ Sought(p)'
    <2>1. i \in DOMAIN stack
        BY <1>1, <1>2, <1>3
    <2>2. stack[i].reading = p => build.files[p] = Absent \/ Sought(p)'
        BY <1>5, <2>1, SoughtStays DEF Reading
    <2>3. CASE i = n
        <3>1. p = stack[i].reading \/ p = path
            BY <1>1, <1>5, <2>3, NameAssumption DEF Turned
        <3> QED
            BY <1>5, <2>2, <3>1
    <2>4. CASE i # n
        <3>1. i \in 1..(n - 1)
            BY <1>3, <2>4
        <3>2. stack'[i] = stack[i]
            BY <1>1, <3>1
        <3> QED
            BY <1>5, <2>2, <3>2
    <2> QED
        BY <2>3, <2>4
<1> QED
    BY <1>4, <1>5 DEF Reading

LEMMA FetchedStays ==
    ASSUME Held, [Next]_vars, Fetched, disk' = disk
    PROVE  Fetched'
BY OnlyMore, SoughtStays DEF Fetched

LEMMA MissedIsSought ==
    ASSUME Held, CopiesRight, Fetched, Result.kind = "missing-file"
    PROVE  Sought(Result.path)
<1>1. CASE Result.path \in Named(Text)
    BY <1>1, TextOfContext DEF Sought
<1>2. CASE \E p \in Path : disk[p] # Absent /\ Result.path \in Named(disk[p])
    <2>1. PICK p \in Path : disk[p] # Absent /\ Result.path \in Named(disk[p])
        BY <1>2
    <2>2. CASE p = Main
        <3>1. disk[p].refs = <<>>
            BY <2>1, <2>2 DEF Fetched
        <3> QED
            BY <2>1, <3>1 DEF Named
    <2>3. CASE p # Main
        <3>1. disk[p] = build.files[p] /\ build.files[p] # Absent
            BY <2>1, <2>3 DEF Fetched
        <3>2. disk[p] \in ContextTexts
            BY <3>1 DEF ContextTexts
        <3> QED
            BY <2>1, <3>2 DEF Sought
    <2> QED
        BY <2>2, <2>3
<1> QED
    BY <1>1, <1>2, MissedHere

LEMMA ReturnFetched ==
    ASSUME Held, [Next]_vars, Fetched, Reading, NEW text, Return(text), text.refs = <<>>, Shift(NoPath)
    PROVE  Fetched' /\ Reading'
<1>1. Reading'
    BY ReadingShift, NameAssumption
<1>2. build' = build
    BY DEF Return
<1>3. CASE Len(stack) = 1
    BY <1>1, <1>2, <1>3, FetchedStays DEF Return
<1>4. CASE Len(stack) # 1
    <2>1. disk' = [disk EXCEPT ![Main] = text] /\ disk \in Trees
        BY <1>4 DEF Return, Held, FromContext
    <2>2. Unambiguous => Sought(Main)
        <3>1. stack[Len(stack) - 1].reading = Main /\ build.files[Main] # Absent
            BY <1>4, BelowTop, LengthType
        <3>2. Len(stack) - 1 \in DOMAIN stack
            BY <1>4, LengthType
        <3> QED
            BY <3>1, <3>2, NameAssumption DEF Reading
    <2>3. \A p \in Path : disk'[p] = IF p = Main THEN text ELSE disk[p]
        BY <2>1 DEF Trees
    <2>4. Fetched'
        BY <1>2, <2>2, <2>3, OnlyMore, SoughtStays, NameAssumption DEF Fetched
    <2> QED
        BY <1>1, <2>4
<1> QED
    BY <1>3, <1>4

LEMMA FetchedStep ==
    ASSUME Held, CopiesRight, Fetched, Reading, [Next]_vars
    PROVE  Fetched' /\ Reading'
<1>0. /\ Text \in Content /\ Expanded(Text) \in Texts /\ Empty \in Texts
      /\ Expanded(Text).refs = <<>> /\ Empty.refs = <<>>
    <2>1. Text \in Content /\ Expanded(Text) \in Texts /\ Empty \in Texts
        BY TopType, ExpandedType DEF Texts
    <2>2. PICK text \in Content : text = Text
        BY <2>1
    <2>3. text \in [of : {text.of}, refs : Seq([to : Path \cup {Elsewhere}, env : BOOLEAN])]
        BY TextAssumption
    <2>4. Expanded(text).refs = <<>>
        BY <2>3 DEF Expanded
    <2> QED
        BY <2>1, <2>2, <2>4, TextAssumption
<1>10. NoPath \notin Path /\ HistoryRight' /\ build' = build
    BY NameAssumption, HistoryStays
<1>1. CASE RunNeverStarts
    <2>1. Return(Empty)
        BY <1>1 DEF RunNeverStarts
    <2>2. Shift(NoPath)
        BY <1>0, <1>10, <2>1, ReturnKeeps
    <2> QED
        BY <1>0, <2>1, <2>2, ReturnFetched
<1>2. CASE RunSucceeds
    <2>1. Return(Expanded(Text))
        BY <1>2 DEF RunSucceeds
    <2>2. Shift(NoPath)
        BY <1>0, <1>10, <2>1, ReturnKeeps
    <2> QED
        BY <1>0, <2>1, <2>2, ReturnFetched
<1>3. CASE RunFails \/ RunReportsChain \/ RunReports
    <2>1. PICK reason \in Reasons : Fail(reason)
        BY <1>3 DEF RunFails, RunReportsChain, RunReports, Reasons
    <2>2. Shift(NoPath)
        BY <1>10, <2>1, FailKeeps
    <2>3. disk' = disk
        BY <2>1 DEF Fail
    <2> QED
        BY <1>10, <2>2, <2>3, ReadingShift, FetchedStays
<1>4. CASE RunMisses
    <2>1. PICK path : path = Result.path
        OBVIOUS
    <2>2. Shift(path)
        BY <1>4, <1>10, <2>1, MissKeeps
    <2>3. disk' = disk
        BY <1>4 DEF RunMisses, Fail
    <2>4. Sought(path)'
        BY <1>4, <2>1, MissedIsSought, SoughtStays DEF RunMisses
    <2> QED
        BY <2>2, <2>3, <2>4, ReadingShift, FetchedStays
<1>5. ASSUME NEW p \in Path, Fetch(p)
      PROVE  Fetched' /\ Reading'
    <2>1. Shift(NoPath)
        BY <1>5, <1>10, FetchKeeps
    <2>2. /\ disk' = [disk EXCEPT ![p] = build.files[p]] /\ p # Main
          /\ build.files[p] # Absent /\ Top.reading = p
        BY <1>5 DEF Fetch, Reads
    <2>3. Unambiguous => Sought(p)
        <3>1. Len(stack) \in DOMAIN stack /\ stack[Len(stack)].reading = p
            BY <2>2, TopType
        <3> QED
            BY <2>2, <3>1 DEF Reading
    <2>4. \A q \in Path : disk'[q] = IF q = p THEN build.files[p] ELSE disk[q]
        BY <2>2 DEF Held, FromContext, Trees
    <2>5. Fetched'
        BY <1>10, <2>2, <2>3, <2>4, OnlyMore, SoughtStays, NameAssumption DEF Fetched
    <2> QED
        BY <1>10, <2>1, <2>5, ReadingShift
<1>6. ASSUME NEW p \in Path, FetchFails(p)
      PROVE  Fetched' /\ Reading'
    <2>1. PICK path : path = WithDockerfile[p]
        OBVIOUS
    <2>2. Shift(path)
        BY <1>6, <1>10, <2>1, FetchFailsKeeps
    <2>3. /\ disk' = disk /\ Top.reading = p
          /\ unread' = unread \cup {q \in {p} : build.files[q] # Absent}
        BY <1>6 DEF FetchFails, Reads
    <2>4. Unambiguous => build.files[path] = Absent \/ Sought(path)'
        <3>1. CASE path = p
            <4>1. Len(stack) \in DOMAIN stack /\ stack[Len(stack)].reading = p
                BY <2>3, TopType
            <4> QED
                BY <3>1, <4>1, SoughtStays DEF Reading
        <3>2. CASE path # p
            BY <1>10, <2>1, <2>3, <3>2 DEF Sought
        <3> QED
            BY <3>1, <3>2
    <2> QED
        BY <2>2, <2>3, <2>4, ReadingShift, FetchedStays
<1>7. CASE FetchTransformed
    <2>1. /\ disk' = disk
          /\ \E second \in Nat : stack' = Append(stack, Transform(second))
        <3>1. Top.temp \in Nat
            BY TopType DEF FrameType
        <3> QED
            BY <1>7, <3>1 DEF FetchTransformed
    <2>2. PICK second \in Nat : stack' = Append(stack, Transform(second))
        BY <2>1
    <2>3. stack \in Seq(FrameType) /\ Len(stack) \in Nat
        BY LengthType
    <2>4. /\ DOMAIN stack' = 1..(Len(stack) + 1) /\ DOMAIN stack = 1..Len(stack)
          /\ stack'[Len(stack) + 1] = Transform(second)
          /\ \A i \in 1..Len(stack) : stack'[i] = stack[i]
        BY <2>2, <2>3
    <2>5. Transform(second).reading \notin Path
        BY <1>10 DEF Transform
    <2>6. \A i \in DOMAIN stack' : \A p \in Path :
                stack'[i].reading = p => i \in DOMAIN stack /\ stack[i].reading = p
        BY <2>3, <2>4, <2>5
    <2>7. Reading'
        BY <1>10, <2>6, OnlyMore, SoughtStays DEF Reading
    <2> QED
        BY <2>1, <2>7, FetchedStays
<1>8. CASE ReturnError
    <2>1. disk' = disk
        BY <1>8 DEF ReturnError
    <2>2. CASE Len(stack) = 1
        <3>1. stack' = stack
            BY <1>8, <2>2 DEF ReturnError
        <3>2. Reading'
            BY <1>10, <3>1, OnlyMore, SoughtStays DEF Reading
        <3> QED
            BY <2>1, <3>2, FetchedStays
    <2>3. CASE Len(stack) # 1
        <3>1. PICK path : path = WithDockerfile[Main]
            OBVIOUS
        <3>2. Shift(path)
            BY <1>8, <1>10, <3>1, ReturnErrorKeeps
        <3>3. stack[Len(stack) - 1].reading = Main /\ Len(stack) - 1 \in DOMAIN stack
            BY <2>3, BelowTop, LengthType
        <3>4. Unambiguous => build.files[Main] = Absent \/ Sought(Main)
            BY <3>3, NameAssumption DEF Reading
        <3>5. Unambiguous => build.files[path] = Absent \/ Sought(path)
            BY <3>1, <3>4 DEF Unambiguous
        <3>6. Unambiguous => build.files[path] = Absent \/ Sought(path)'
            BY <3>5, SoughtStays
        <3> QED
            BY <2>1, <3>2, <3>6, ReadingShift, FetchedStays
    <2> QED
        BY <2>2, <2>3
<1>9. CASE UNCHANGED vars
    <2>1. disk' = disk /\ stack' = stack
        BY <1>9 DEF vars
    <2>2. Reading'
        BY <1>10, <2>1, OnlyMore, SoughtStays DEF Reading
    <2> QED
        BY <2>1, <2>2, FetchedStays
<1> QED
    BY <1>1, <1>2, <1>3, <1>4, <1>5, <1>6, <1>7, <1>8, <1>9 DEF Next, Step, Done

-----------------------------------------------------------------------------
(***************************************************************************)
(* Where the frontend succeeds, the command does in the context.           *)
(***************************************************************************)
\* A part of the working directory that has no main Dockerfile.
PartOfDisk(files) ==
    files \in Trees /\ \A p \in Path : files[p] # Absent => p # Main /\ files[p] = disk[p]

\* The main Dockerfile is there only if it has been expanded in such a part.
NestedExpandable ==
    started /\ disk[Main] # Absent =>
        \E files \in Trees :
            PartOfDisk(files) /\ Command(files, build.files[Main], MaxIncludeDepth) = Fine

LEMMA ReadableIs ==
    ASSUME Held
    PROVE  /\ Readable \in Trees
           /\ \A p \in Path : Readable[p] = IF p \in unread THEN Absent ELSE build.files[p]
<1>1. build.files \in Trees
    BY BuildType DEF Held, FromContext
<1> QED
    BY <1>1 DEF Readable, Trees

LEMMA DiskIsPart ==
    ASSUME Held, Fetched, Unambiguous, StaysUnread,
           NEW files \in Trees, \A p \in Path : files[p] # Absent => files[p] = disk[p]
    PROVE  PartOf(files, Readable)
<1>1. /\ disk \in Trees /\ build.files \in Trees
      /\ \A p \in Path : disk[p] # Absent => build.files[p] # Absent
    BY BuildType DEF Held, FromContext
<1>2. \A p \in Path : Readable[p] = IF p \in unread THEN Absent ELSE build.files[p]
    BY ReadableIs
<1>3. ASSUME NEW p \in Path, files[p] # Absent
      PROVE  /\ Readable[p] # Absent
             /\ p # Main => files[p] = Readable[p]
    <2>1. disk[p] # Absent /\ files[p] = disk[p]
        BY <1>3
    <2>2. p \notin unread
        BY <2>1 DEF StaysUnread
    <2> QED
        BY <1>1, <1>2, <2>1, <2>2 DEF Fetched
<1>4. ASSUME NEW p \in Path, Readable[p] # Absent, files[WithDockerfile[p]] # Absent
      PROVE  WithDockerfile[p] = p
    <2> SUFFICES ASSUME WithDockerfile[p] # p PROVE FALSE
        OBVIOUS
    <2>1. WithDockerfile[p] \in Path
        BY NameAssumption
    <2>2. Sought(WithDockerfile[p]) /\ build.files[p] # Absent /\ p \notin unread
        BY <1>2, <1>4, <2>1 DEF Fetched
    <2>3. CASE \E text \in ContextTexts : WithDockerfile[p] \in Named(text)
        <3>1. PICK text \in ContextTexts : WithDockerfile[p] \in Named(text)
            BY <2>3
        <3>2. PICK i \in DOMAIN text.refs : text.refs[i].to = WithDockerfile[p]
            BY <3>1 DEF Named
        <3>3. build.files[p] = Absent
            BY <3>2 DEF Unambiguous
        <3> QED
            BY <2>2, <3>3
    <2>4. CASE \E q \in Path : WithDockerfile[p] = WithDockerfile[q] /\ WithDockerfile[p] # q
                                /\ (build.files[q] = Absent \/ q \in unread)
        BY <2>2, <2>4, NameAssumption
    <2> QED
        BY <2>2, <2>3, <2>4 DEF Sought
<1> QED
    BY <1>3, <1>4, ReadableIs DEF PartOf

\* The main Dockerfile, if it has been transformed in turn, can be expanded where
\* it is read from, deeper than the command goes.
LEMMA NestedIsGood ==
    ASSUME Held, Fetched, NestedExpandable, Unambiguous, StaysUnread, started,
           disk[Main] # Absent, NEW n \in Nat
    PROVE  Good(ProblemIn(Readable, n + MaxIncludeDepth)[Main])
<1>1. PICK files \in Trees :
            PartOfDisk(files) /\ Command(files, build.files[Main], MaxIncludeDepth) = Fine
    BY DEF NestedExpandable
<1>2. files[Main] = Absent /\ \A p \in Path : files[p] # Absent => files[p] = disk[p]
    BY <1>1, NameAssumption DEF PartOfDisk
<1>3. PICK context : context = Readable
    OBVIOUS
<1>4. PartOf(files, context)
    BY <1>2, <1>3, DiskIsPart
<1>5. context[Main] = build.files[Main] /\ build.files[Main] # Absent /\ build.files[Main] \in Texts
    <2>1. Main \notin unread /\ Main \in Path
        BY NameAssumption DEF StaysUnread
    <2>2. build.files[Main] # Absent /\ build.files \in Trees
        BY <2>1, BuildType DEF Held, FromContext
    <2> QED
        BY <1>3, <2>1, <2>2, ReadableIs DEF Trees
<1>6. MaxIncludeDepth \in Nat \ {0}
    BY BoundAssumption
<1>7. PICK text \in Texts : text = build.files[Main]
    BY <1>5
<1>8. Good(Command(context, text, MaxIncludeDepth + n))
    BY <1>1, <1>2, <1>4, <1>6, <1>7, CommandAgrees
<1>9. PICK m \in Nat : m = n + MaxIncludeDepth /\ m = MaxIncludeDepth + n /\ m # 0
    BY <1>6
<1>10. ProblemIn(context, m)[Main] = FirstProblem(context, text.refs, m, ProblemIn(context, m - 1))
    BY <1>5, <1>7, <1>9, InFile, NameAssumption
<1>11. Command(context, text, m) = FirstProblem(context, text.refs, m, ProblemIn(context, m - 1))
    BY DEF Command
<1> QED
    BY <1>3, <1>8, <1>9, <1>10, <1>11

LEMMA SuccessAgrees ==
    ASSUME Held, Fetched, NestedExpandable, Unambiguous, StaysUnread, started, Result = Fine
    PROVE  Good(Command(Readable, Text, DepthAllowed))
<1>1. MaxIncludeDepth \in Nat \ {0} /\ Text \in Texts /\ disk \in Trees
    BY BoundAssumption, TopType DEF Held, FromContext
<1>2. PICK context : context = Readable
    OBVIOUS
<1>3. PartOf(disk, context)
    BY <1>1, <1>2, DiskIsPart
<1>4. PICK more \in Nat : more = IF disk[Main] = Absent THEN 0 ELSE MaxIncludeDepth
    BY <1>1
<1>5. disk[Main] = Absent \/ \A n \in Nat : Good(ProblemIn(context, n + more)[Main])
    BY <1>2, <1>4, NestedIsGood
<1>6. PICK text \in Texts : text = Text
    BY <1>1
<1>7. Good(Command(context, text, MaxIncludeDepth + more))
    BY <1>1, <1>3, <1>5, <1>6, CommandAgrees DEF Result
<1>8. MaxIncludeDepth + more = DepthAllowed
    BY <1>1, <1>4 DEF DepthAllowed
<1> QED
    BY <1>2, <1>6, <1>7, <1>8

\* A step that writes nothing over what is there, and no main Dockerfile.
LEMMA NestedStays ==
    ASSUME Held, [Next]_vars, NestedExpandable, disk'[Main] = disk[Main],
           \A p \in Path : disk[p] # Absent => disk'[p] = disk[p]
    PROVE  NestedExpandable'
<1> SUFFICES ASSUME started', disk'[Main] # Absent
             PROVE  \E files \in Trees :
                        PartOfDisk(files)' /\ Command(files, build.files[Main], MaxIncludeDepth)' = Fine
    BY DEF NestedExpandable
<1>1. started /\ disk[Main] # Absent /\ build' = build
    BY OnlyMore
<1>2. PICK files \in Trees :
            PartOfDisk(files) /\ Command(files, build.files[Main], MaxIncludeDepth) = Fine
    BY <1>1 DEF NestedExpandable
<1>3. PartOfDisk(files)'
    BY <1>2 DEF PartOfDisk
<1>4. Command(files, build.files[Main], MaxIncludeDepth)' = Fine
    BY <1>1, <1>2
<1> QED
    BY <1>3, <1>4

LEMMA NestedReturn ==
    ASSUME Held, CopiesRight, [Next]_vars, NestedExpandable, RunSucceeds, Len(stack) # 1
    PROVE  NestedExpandable'
<1>1. /\ disk' = [disk EXCEPT ![Main] = Expanded(Text)] /\ build' = build /\ started' = started
      /\ Result = Fine
    BY DEF RunSucceeds, Return, history
<1>2. Text = build.files[Main] /\ disk \in Trees /\ Main \in Path
    BY TextOfContext, NameAssumption DEF Held, FromContext
<1>3. \A p \in Path : p # Main => disk'[p] = disk[p]
    BY <1>1, <1>2
<1> SUFFICES ASSUME started
             PROVE  \E files \in Trees :
                        PartOfDisk(files)' /\ Command(files, build.files[Main], MaxIncludeDepth)' = Fine
    BY <1>1 DEF NestedExpandable
<1>4. PICK files \in Trees :
            PartOfDisk(files) /\ Command(files, build.files[Main], MaxIncludeDepth) = Fine
    <2>1. CASE disk[Main] = Absent
        <3>1. PartOfDisk(disk)
            BY <1>2, <2>1 DEF PartOfDisk
        <3> QED
            BY <1>1, <1>2, <3>1 DEF Result
    <2>2. CASE disk[Main] # Absent
        BY <2>2 DEF NestedExpandable
    <2> QED
        BY <2>1, <2>2
<1>5. PartOfDisk(files)'
    BY <1>3, <1>4 DEF PartOfDisk
<1>6. Command(files, build.files[Main], MaxIncludeDepth)' = Fine
    BY <1>1, <1>4
<1> QED
    BY <1>5, <1>6

LEMMA NestedStep ==
    ASSUME Held, CopiesRight, Fetched, NestedExpandable, [Next]_vars
    PROVE  NestedExpandable'
<1>1. CASE disk' = disk
    BY <1>1, NestedStays
<1>2. CASE RunNeverStarts
    BY <1>2 DEF RunNeverStarts, NestedExpandable
<1>3. CASE RunSucceeds
    <2>1. CASE Len(stack) = 1
        BY <1>1, <1>3, <2>1 DEF RunSucceeds, Return
    <2> QED
        BY <1>3, <2>1, NestedReturn
<1>4. ASSUME NEW p \in Path, Fetch(p)
      PROVE  NestedExpandable'
    <2>1. p # Main /\ disk' = [disk EXCEPT ![p] = build.files[p]] /\ disk \in Trees
        BY <1>4 DEF Fetch, Held, FromContext
    <2>2. disk'[Main] = disk[Main]
        BY <2>1, NameAssumption DEF Trees
    <2>3. \A q \in Path : disk[q] # Absent => disk'[q] = disk[q]
        BY <2>1 DEF Trees, Fetched
    <2> QED
        BY <2>2, <2>3, NestedStays
<1>5. CASE RunFails \/ RunReportsChain \/ RunReports \/ RunMisses \/ ReturnError \/ FetchTransformed
            \/ UNCHANGED vars \/ \E p \in Path : FetchFails(p)
    <2>1. disk' = disk
        BY <1>5 DEF RunFails, RunReportsChain, RunReports, RunMisses, ReturnError, FetchTransformed,
                    FetchFails, Fail, vars
    <2> QED
        BY <1>1, <2>1
<1> QED
    BY <1>2, <1>3, <1>4, <1>5 DEF Next, Step, Done

\* The step that ends a build with success is the return of the first transform.
LEMMA OkStep ==
    ASSUME Held, [Next]_vars, outcome'.code = "ok"
    PROVE  \/ UNCHANGED vars
           \/ RunNeverStarts
           \/ RunSucceeds /\ Len(stack) = 1
<1>1. outcome'.code # outcome.code \/ outcome.code = "ok"
    BY DEF Held
<1>2. ASSUME outcome = Running PROVE outcome.code # "ok"
    BY <1>2 DEF Running
<1>3. CASE RunFails \/ RunReportsChain \/ RunReports \/ RunMisses \/ FetchTransformed
            \/ \E p \in Path : Fetch(p) \/ FetchFails(p)
    <2>1. outcome = Running /\ outcome' = outcome
        BY <1>3 DEF RunFails, RunReportsChain, RunReports, RunMisses, FetchTransformed,
                    FetchFails, Fetch, Fail, AboutToRun, Reads
    <2> QED
        BY <1>2, <2>1
<1>4. CASE ReturnError
    <2>1. Top.failed \in Reasons /\ outcome = Running
        BY <1>4, TopType DEF ReturnError, FrameType
    <2>2. outcome' = outcome \/ outcome'.code = Top.failed
        BY <1>4 DEF ReturnError
    <2> QED
        BY <1>2, <2>1, <2>2 DEF Reasons
<1>5. CASE RunSucceeds
    <2>1. CASE Len(stack) # 1
        <3>1. outcome = Running /\ outcome' = outcome
            BY <1>5, <2>1 DEF RunSucceeds, Return, AboutToRun
        <3> QED
            BY <1>2, <3>1
    <2> QED
        BY <1>5, <2>1
<1> QED
    BY <1>3, <1>4, <1>5 DEF Next, Step, Done

LEMMA ExpandableStep ==
    ASSUME Held, CopiesRight, Fetched, NestedExpandable, OkMeansExpandable, [Next]_vars
    PROVE  OkMeansExpandable'
<1> SUFFICES ASSUME Unambiguous', StaysUnread', started', outcome'.code = "ok"
             PROVE  (\E text \in Asked :
                        /\ outcome.text = Expanded(text)
                        /\ Command(Readable, text, DepthAllowed).kind \in {"none", "uncoded"})'
    BY DEF OkMeansExpandable, Asked
<1>1. CASE UNCHANGED vars
    <2>1. /\ Unambiguous /\ StaysUnread /\ started /\ outcome.code = "ok"
          /\ Asked' = Asked /\ Readable' = Readable /\ DepthAllowed' = DepthAllowed /\ outcome' = outcome
        BY <1>1, OnlyMore DEF vars, history, StaysUnread, Asked, Readable, DepthAllowed
    <2> QED
        BY <2>1 DEF OkMeansExpandable, Asked
<1>2. CASE RunNeverStarts
    BY <1>2 DEF RunNeverStarts
<1>3. CASE RunSucceeds /\ Len(stack) = 1
    <2>1. /\ outcome' = [code |-> "ok", text |-> Expanded(Text)] /\ disk' = disk /\ build' = build
          /\ history' = history /\ Result = Fine
        BY <1>3 DEF RunSucceeds, Return, history
    <2>2. /\ Unambiguous /\ StaysUnread /\ started
          /\ Asked' = Asked /\ Readable' = Readable /\ DepthAllowed' = DepthAllowed
        <3>1. unread' = unread /\ started' = started /\ shared' = shared
            BY <2>1 DEF history
        <3>2. Asked' = Asked /\ Readable' = Readable /\ DepthAllowed' = DepthAllowed
            BY <2>1, <3>1 DEF Asked, Readable, DepthAllowed
        <3>3. Unambiguous /\ StaysUnread /\ started
            BY <2>1, <3>1, OnlyMore DEF StaysUnread
        <3> QED
            BY <3>2, <3>3
    <2>3. Text \in Asked
        BY <1>3, TextOfContext
    <2>4. Good(Command(Readable, Text, DepthAllowed))
        BY <2>1, <2>2, SuccessAgrees
    <2>5. PICK text \in Asked : text = Text
        BY <2>3
    <2>6. outcome'.text = Expanded(text) /\ Command(Readable, text, DepthAllowed).kind \in {"none", "uncoded"}
        BY <2>1, <2>4, <2>5 DEF Good
    <2>7. Command(Readable', text, DepthAllowed').kind \in {"none", "uncoded"}
        BY <2>2, <2>6
    <2> QED
        BY <2>2, <2>6, <2>7
<1> QED
    BY <1>1, <1>2, <1>3, OkStep

\* OkMeansExpandable: fetching the missing files one by one, each as the command
\* asks for it and whichever reads fail, does not make a build out of files that
\* do not make one.
THEOREM SuccessMeansExpandable == Spec => []OkMeansExpandable
<1>1. Init => Fetched /\ Reading /\ NestedExpandable /\ OkMeansExpandable
    <2> SUFFICES ASSUME Init PROVE Fetched /\ Reading /\ NestedExpandable /\ OkMeansExpandable
        OBVIOUS
    <2>1. \A p \in Path : disk[p] = Absent
        BY DEF Init
    <2>2. stack = <<Transform(0)>> /\ Transform(0).reading = NoPath /\ outcome.code # "ok"
        BY DEF Init, Transform, Running
    <2>3. DOMAIN stack = {1} /\ stack[1].reading = NoPath
        BY <2>2
    <2> QED
        BY <2>1, <2>2, <2>3, NameAssumption DEF Fetched, Reading, NestedExpandable, OkMeansExpandable
<1>2. Held /\ CopiesRight /\ Fetched /\ Reading /\ NestedExpandable /\ OkMeansExpandable /\ [Next]_vars
        => Fetched' /\ Reading' /\ NestedExpandable' /\ OkMeansExpandable'
    BY FetchedStep, NestedStep, ExpandableStep
<1> QED
    BY <1>1, <1>2, CopiesInvariant, FrontendInvariant, PTL DEF Spec

-----------------------------------------------------------------------------
(***************************************************************************)
(* What the command expands in the build context, it expands in the        *)
(* working directory, or it misses a file there that the context has.      *)
(***************************************************************************)
FoundAs(context, p) == IF context[p] # Absent THEN p ELSE WithDockerfile[p]

\* A working directory that has files of the context, or expansions of them, none
\* of which the command takes for another.
CopiedFrom(context, files) ==
    /\ files \in Trees /\ context \in Trees
    /\ \A p \in Path : files[p] # Absent =>
            context[p] # Absent /\ (files[p] = context[p] \/ files[p].refs = <<>>)
    /\ \A p \in Path : context[p] # Absent =>
            /\ files[WithDockerfile[p]] # Absent => WithDockerfile[p] = p
            /\ ~IsDirectory(context, WithDockerfile[p])
            /\ ~IsDirectory(context, WithEnv[p])

\* Environment files are called by their full names.
EnvFull(context, refs) ==
    \A i \in DOMAIN refs : refs[i].env /\ refs[i].to # Elsewhere =>
        context[refs[i].to] # Absent /\ refs[i].to # Main

\* A file to fetch: an environment file, or a Dockerfile that can be expanded, as
\* those in "fine" can.
ToFetch(context, files, fine, p) ==
    /\ p \in Path /\ files[p] = Absent
    /\ \/ context[p] # Absent /\ p # Main
       \/ /\ files[WithDockerfile[p]] = Absent
          /\ context[FoundAs(context, p)] # Absent
          /\ FoundAs(context, p) \in fine

Mild(context, files, fine, problem) ==
    \/ problem.kind = "none"
    \/ problem.kind = "missing-file" /\ ToFetch(context, files, fine, problem.path)

LEMMA FewerDirectories ==
    ASSUME NEW context, NEW files, CopiedFrom(context, files), NEW p \in Path
    PROVE  /\ IsDirectory(files, p) => IsDirectory(context, p)
           /\ BehindFile(files, p) => BehindFile(context, p)
<1>1. \A q \in Path : files[q] # Absent => context[q] # Absent
    BY DEF CopiedFrom
<1>2. Above[p] \subseteq Path
    BY NameAssumption
<1> QED
    BY <1>1, <1>2 DEF IsDirectory, BehindFile

LEMMA LookupAsFound ==
    ASSUME NEW context, NEW files, CopiedFrom(context, files), NEW p \in Path,
           NEW there, there = Lookup(context, p, WithDockerfile), there.kind = "none",
           NEW at, at = Lookup(files, p, WithDockerfile)
    PROVE  /\ there.path = FoundAs(context, p) /\ there.path \in Path /\ context[there.path] # Absent
           /\ \/ at.kind = "none" /\ at.path = there.path /\ files[there.path] # Absent
              \/ /\ at.kind = "missing-file" /\ at.path = p
                 /\ files[p] = Absent /\ files[WithDockerfile[p]] = Absent
<1>1. WithDockerfile[p] \in Path
    BY NameAssumption
<1>2. /\ \A q \in Path : files[q] # Absent => context[q] # Absent
      /\ \A q \in Path : IsDirectory(files, q) => IsDirectory(context, q)
      /\ BehindFile(files, p) => BehindFile(context, p)
    BY FewerDirectories DEF CopiedFrom
<1>3. ~BehindFile(files, p)
    BY <1>2 DEF Lookup, Problem
<1>4. CASE context[p] # Absent
    <2>1. /\ there.path = p /\ ~IsDirectory(context, p)
          /\ ~IsDirectory(context, WithDockerfile[p])
          /\ files[WithDockerfile[p]] # Absent => WithDockerfile[p] = p
        BY <1>4 DEF Lookup, Problem, CopiedFrom
    <2>2. ~IsDirectory(files, p) /\ ~IsDirectory(files, WithDockerfile[p])
        BY <1>1, <1>2, <2>1
    <2>3. there.path = FoundAs(context, p)
        BY <1>4, <2>1 DEF FoundAs
    <2>4. CASE files[p] # Absent
        <3>1. at.kind = "none" /\ at.path = p
            BY <1>3, <2>2, <2>4 DEF Lookup, Problem
        <3> QED
            BY <1>4, <2>1, <2>3, <2>4, <3>1
    <2>5. CASE files[p] = Absent
        <3>1. files[WithDockerfile[p]] = Absent
            BY <2>1, <2>5
        <3>2. at.kind = "missing-file" /\ at.path = p
            BY <1>3, <2>2, <2>5, <3>1 DEF Lookup, Problem
        <3> QED
            BY <1>4, <2>1, <2>3, <2>5, <3>1, <3>2
    <2> QED
        BY <2>4, <2>5
<1>5. CASE context[p] = Absent
    <2>1. /\ there.path = WithDockerfile[p] /\ context[WithDockerfile[p]] # Absent
          /\ ~IsDirectory(context, p) /\ ~IsDirectory(context, WithDockerfile[p])
        BY <1>5 DEF Lookup, Problem
    <2>2. ~IsDirectory(files, p) /\ ~IsDirectory(files, WithDockerfile[p]) /\ files[p] = Absent
        BY <1>1, <1>2, <1>5, <2>1
    <2>3. there.path = FoundAs(context, p)
        BY <1>5, <2>1 DEF FoundAs
    <2>4. CASE files[WithDockerfile[p]] # Absent
        <3>1. at.kind = "none" /\ at.path = WithDockerfile[p]
            BY <1>3, <2>2, <2>4 DEF Lookup, Problem
        <3> QED
            BY <1>1, <2>1, <2>3, <2>4, <3>1
    <2>5. CASE files[WithDockerfile[p]] = Absent
        <3>1. at.kind = "missing-file" /\ at.path = p
            BY <1>3, <2>2, <2>5 DEF Lookup, Problem
        <3> QED
            BY <1>1, <2>1, <2>2, <2>3, <2>5, <3>1
    <2> QED
        BY <2>4, <2>5
<1> QED
    BY <1>4, <1>5

LEMMA LookupEnvFound ==
    ASSUME NEW context, NEW files, CopiedFrom(context, files), NEW p \in Path,
           context[p] # Absent, Lookup(context, p, WithEnv).kind = "none",
           NEW at, at = Lookup(files, p, WithEnv)
    PROVE  \/ at.kind = "none"
           \/ at.kind = "missing-file" /\ at.path = p /\ files[p] = Absent
<1>1. WithEnv[p] \in Path
    BY NameAssumption
<1>2. /\ \A q \in Path : IsDirectory(files, q) => IsDirectory(context, q)
      /\ BehindFile(files, p) => BehindFile(context, p)
    BY FewerDirectories
<1>3. ~IsDirectory(context, p) /\ ~BehindFile(context, p) /\ ~IsDirectory(context, WithEnv[p])
    BY DEF Lookup, Problem, CopiedFrom
<1>4. ~IsDirectory(files, p) /\ ~BehindFile(files, p) /\ ~IsDirectory(files, WithEnv[p])
    BY <1>1, <1>2, <1>3
<1> QED
    BY <1>4 DEF Lookup, Problem

LEMMA RefMild ==
    ASSUME NEW context, NEW files, CopiedFrom(context, files), NEW ref \in References,
           ref.env /\ ref.to # Elsewhere => context[ref.to] # Absent /\ ref.to # Main,
           NEW fine, NEW there, NEW below,
           NEW n \in Nat, NEW m \in Nat, n # 0 => m # 0,
           n # 0 => \A p \in Path : there[p] = Fine => p \in fine,
           n # 0 => \A p \in Path : files[p] # Absent /\ there[p] = Fine =>
                Mild(context, files, fine, below[p]),
           RefProblem(context, ref, n, there) = Fine
    PROVE  Mild(context, files, fine, RefProblem(files, ref, m, below))
<1>0. Fine.kind = "none" /\ Mild(context, files, fine, Fine)
    BY DEF Mild, Fine, Problem
<1>1. PICK ext : ext = IF ref.env THEN WithEnv ELSE WithDockerfile
    OBVIOUS
<1>2. PICK at : at = Lookup(files, ref.to, ext)
    OBVIOUS
<1>3. PICK here : here = Lookup(context, ref.to, ext)
    OBVIOUS
<1>4. PICK problem : problem = RefProblem(context, ref, n, there)
    OBVIOUS
<1>5. PICK result : result = RefProblem(files, ref, m, below)
    OBVIOUS
<1>6. /\ ref.env \in BOOLEAN /\ ChainError # Fine
      /\ IF n = 0 /\ ~ref.env THEN problem = ChainError
         ELSE IF ref.to = Elsewhere THEN problem = Fine
         ELSE /\ ref.to \in Path /\ ext \in [Path -> Path]
              /\ problem = IF here.kind # "none" THEN here
                           ELSE IF ref.env THEN Fine ELSE there[here.path]
    BY <1>1, <1>3, <1>4, RefProblemIs
<1>7. ~(n = 0 /\ ~ref.env)
    BY <1>4, <1>6
<1>8. IF m = 0 /\ ~ref.env THEN result = ChainError
      ELSE IF ref.to = Elsewhere THEN result = Fine
      ELSE /\ ref.to \in Path /\ ext \in [Path -> Path]
           /\ result = IF at.kind # "none" THEN at
                       ELSE IF ref.env THEN Fine ELSE below[at.path]
    BY <1>1, <1>2, <1>5, RefProblemIs
<1>9. ~(m = 0 /\ ~ref.env)
    BY <1>7
<1>10. CASE ref.to = Elsewhere
    BY <1>0, <1>5, <1>8, <1>9, <1>10
<1>11. CASE ref.to # Elsewhere
    <2>1. ref.to \in Path /\ here.kind = "none"
        BY <1>0, <1>4, <1>6, <1>7, <1>11
    <2>2. result = IF at.kind # "none" THEN at ELSE IF ref.env THEN Fine ELSE below[at.path]
        BY <1>8, <1>9, <1>11
    <2>3. PICK p \in Path : p = ref.to
        BY <2>1
    <2>4. CASE ref.env
        <3>1. context[p] # Absent /\ p # Main /\ ext = WithEnv
            BY <1>1, <1>11, <2>3, <2>4
        <3>2. \/ at.kind = "none"
              \/ at.kind = "missing-file" /\ at.path = p /\ files[p] = Absent
            BY <1>2, <1>3, <2>1, <2>3, <3>1, LookupEnvFound
        <3>3. CASE at.kind = "none"
            BY <1>0, <1>5, <2>2, <2>4, <3>3
        <3>4. CASE at.kind = "missing-file" /\ at.path = p /\ files[p] = Absent
            <4>1. ToFetch(context, files, fine, p)
                BY <3>1, <3>4 DEF ToFetch
            <4> QED
                BY <1>5, <2>2, <3>4, <4>1 DEF Mild
        <3> QED
            BY <3>2, <3>3, <3>4
    <2>5. CASE ~ref.env
        <3>1. ext = WithDockerfile /\ n # 0
            BY <1>1, <1>7, <2>5
        <3>2. /\ here.path = FoundAs(context, p) /\ here.path \in Path /\ context[here.path] # Absent
              /\ \/ at.kind = "none" /\ at.path = here.path /\ files[here.path] # Absent
                 \/ /\ at.kind = "missing-file" /\ at.path = p
                    /\ files[p] = Absent /\ files[WithDockerfile[p]] = Absent
            BY <1>2, <1>3, <2>1, <2>3, <3>1, LookupAsFound
        <3>3. there[here.path] = Fine
            BY <1>4, <1>6, <1>7, <1>11, <2>1, <2>5
        <3>4. CASE at.kind = "none" /\ at.path = here.path /\ files[here.path] # Absent
            <4>1. Mild(context, files, fine, below[at.path])
                BY <3>1, <3>2, <3>3, <3>4
            <4> QED
                BY <1>5, <2>2, <2>5, <3>4, <4>1
        <3>5. CASE /\ at.kind = "missing-file" /\ at.path = p
                   /\ files[p] = Absent /\ files[WithDockerfile[p]] = Absent
            <4>1. FoundAs(context, p) \in fine
                BY <3>1, <3>2, <3>3
            <4>2. ToFetch(context, files, fine, p)
                BY <3>2, <3>5, <4>1 DEF ToFetch
            <4> QED
                BY <1>5, <2>2, <3>5, <4>2 DEF Mild
        <3> QED
            BY <3>2, <3>4, <3>5
    <2> QED
        BY <1>6, <2>4, <2>5
<1> QED
    BY <1>10, <1>11

LEMMA FirstMild ==
    ASSUME NEW context, NEW files, CopiedFrom(context, files),
           NEW refs \in Seq(References), EnvFull(context, refs),
           NEW fine, NEW there, NEW below,
           NEW n \in Nat, NEW m \in Nat, n # 0 => m # 0,
           n # 0 => \A p \in Path : there[p] = Fine => p \in fine,
           n # 0 => \A p \in Path : files[p] # Absent /\ there[p] = Fine =>
                Mild(context, files, fine, below[p]),
           FirstProblem(context, refs, n, there) = Fine
    PROVE  Mild(context, files, fine, FirstProblem(files, refs, m, below))
<1>1. \A i \in DOMAIN refs : refs[i] \in References
    OBVIOUS
<1>2. \A i \in DOMAIN refs : RefProblem(context, refs[i], n, there) = Fine
    BY FirstProblemIs
<1>3. ASSUME NEW i \in DOMAIN refs
      PROVE  Mild(context, files, fine, RefProblem(files, refs[i], m, below))
    <2>1. PICK ref \in References : ref = refs[i]
        BY <1>1
    <2>2. ref.env /\ ref.to # Elsewhere => context[ref.to] # Absent /\ ref.to # Main
        BY <2>1 DEF EnvFull
    <2>3. RefProblem(context, ref, n, there) = Fine
        BY <1>2, <2>1
    <2>4. Mild(context, files, fine, RefProblem(files, ref, m, below))
        BY <2>2, <2>3, RefMild
    <2> QED
        BY <2>1, <2>4
<1>4. \/ FirstProblem(files, refs, m, below) = Fine
      \/ \E i \in DOMAIN refs :
            FirstProblem(files, refs, m, below) = RefProblem(files, refs[i], m, below)
    BY FirstProblemIs
<1>5. Mild(context, files, fine, Fine)
    BY DEF Mild, Fine, Problem
<1> QED
    BY <1>3, <1>4, <1>5

\* One level deeper, and the files that can be expanded with fewer levels than n.
Beneath(files, n) == IF n = 0 THEN Bottom ELSE ProblemIn(files, n - 1)
FineBelow(files, n) == {p \in Path : \E k \in 0..(n - 1) : ProblemIn(files, k)[p] = Fine}

LEMMA FineBeneath ==
    ASSUME NEW files, NEW n \in Nat, n # 0
    PROVE  /\ \A p \in Path : Beneath(files, n)[p] = Fine => p \in FineBelow(files, n)
           /\ FineBelow(files, n - 1) \subseteq FineBelow(files, n)
<1>1. PICK k \in Nat : k = n - 1
    OBVIOUS
<1>2. k \in 0..(n - 1) /\ \A l \in 0..(k - 1) : l \in 0..(n - 1)
    BY <1>1
<1> QED
    BY <1>1, <1>2 DEF Beneath, FineBelow

LEMMA MildUp ==
    ASSUME NEW context, NEW files, NEW a, NEW b, a \subseteq b, NEW problem,
           Mild(context, files, a, problem)
    PROVE  Mild(context, files, b, problem)
BY DEF Mild, ToFetch

\* The command may go "more" levels deeper in the working directory.
LEMMA LevelsMild ==
    ASSUME NEW context, NEW files, CopiedFrom(context, files), NEW more \in Nat,
           \A p \in Path : context[p] # Absent => EnvFull(context, context[p].refs)
    PROVE  \A n \in Nat : \A p \in Path :
                files[p] # Absent /\ ProblemIn(context, n)[p] = Fine =>
                    Mild(context, files, FineBelow(context, n), ProblemIn(files, n + more)[p])
<1> DEFINE Ok(n) == \A p \in Path :
                files[p] # Absent /\ ProblemIn(context, n)[p] = Fine =>
                    Mild(context, files, FineBelow(context, n), ProblemIn(files, n + more)[p])
           S == {n \in Nat : Ok(n)}
<1>1. files \in Trees /\ \A p \in Path : files[p] # Absent =>
            context[p] # Absent /\ (files[p] = context[p] \/ files[p].refs = <<>>)
    BY DEF CopiedFrom
<1>2. ASSUME NEW n \in Nat, NEW p \in Path, files[p] # Absent, ProblemIn(context, n)[p] = Fine,
             NEW m \in Nat, m = n + more, NEW fine, fine = FineBelow(context, n),
             NEW there, there = Beneath(context, n), NEW below, below = Beneath(files, m),
             n # 0 => \A q \in Path : files[q] # Absent /\ there[q] = Fine =>
                            Mild(context, files, fine, below[q])
      PROVE  Mild(context, files, fine, ProblemIn(files, m)[p])
    <2>1. PICK refs \in Seq(References) : refs = files[p].refs
        BY <1>1, <1>2, TextType DEF Trees
    <2>2. ProblemIn(files, m)[p] = FirstProblem(files, refs, m, below)
        BY <1>2, <2>1, InFile DEF Beneath
    <2>3. CASE refs = <<>>
        <3>1. DOMAIN refs = {}
            BY <2>3
        <3>2. FirstProblem(files, refs, m, below) = Fine
            BY <3>1, FirstProblemIs
        <3> QED
            BY <2>2, <3>2 DEF Mild, Fine, Problem
    <2>4. CASE files[p] = context[p]
        <3>1. FirstProblem(context, refs, n, there) = Fine
            BY <1>2, <2>1, <2>4, InFile DEF Beneath
        <3>2. EnvFull(context, refs) /\ (n # 0 => m # 0)
            BY <1>2, <2>1, <2>4
        <3>3. n # 0 => \A q \in Path : there[q] = Fine => q \in fine
            BY <1>2, FineBeneath
        <3>4. Mild(context, files, fine, FirstProblem(files, refs, m, below))
            BY <1>2, <3>1, <3>2, <3>3, FirstMild
        <3> QED
            BY <2>2, <3>4
    <2> QED
        BY <1>1, <1>2, <2>1, <2>3, <2>4
<1>3. 0 \in S
    <2>1. PICK m \in Nat : m = 0 + more
        OBVIOUS
    <2>2. \A p \in Path : files[p] # Absent /\ ProblemIn(context, 0)[p] = Fine =>
                Mild(context, files, FineBelow(context, 0), ProblemIn(files, m)[p])
        BY <1>2, <2>1
    <2> QED
        BY <2>1, <2>2
<1>4. ASSUME NEW n \in S PROVE n + 1 \in S
    <2>0. Ok(n) /\ n \in Nat
        OBVIOUS
    <2> HIDE DEF S
    <2>1. PICK k \in Nat : k = n + 1 /\ k # 0 /\ k - 1 = n
        BY <2>0
    <2>2. PICK m \in Nat : m = k + more /\ m # 0 /\ m - 1 = n + more
        BY <2>0, <2>1
    <2>3. PICK fine : fine = FineBelow(context, k)
        OBVIOUS
    <2>4. PICK there : there = Beneath(context, k)
        OBVIOUS
    <2>5. PICK below : below = Beneath(files, m)
        OBVIOUS
    <2>6. there = ProblemIn(context, n) /\ below = ProblemIn(files, n + more)
        BY <2>1, <2>2, <2>4, <2>5 DEF Beneath
    <2>7. FineBelow(context, n) \subseteq fine
        BY <2>1, <2>3, FineBeneath
    <2>8. \A q \in Path : files[q] # Absent /\ there[q] = Fine => Mild(context, files, fine, below[q])
        BY <2>0, <2>6, <2>7, MildUp
    <2>9. \A p \in Path : files[p] # Absent /\ ProblemIn(context, k)[p] = Fine =>
                Mild(context, files, fine, ProblemIn(files, m)[p])
        BY <1>2, <2>2, <2>3, <2>4, <2>5, <2>8
    <2>10. k \in S
        BY <2>2, <2>3, <2>9 DEF S
    <2> QED
        BY <2>1, <2>10
<1>5. S = Nat
    <2> HIDE DEF S
    <2>1. S \in SUBSET Nat
        BY DEF S
    <2> QED
        BY <1>3, <1>4, <2>1, SetInduction
<1> QED
    BY <1>5

LEMMA CommandMild ==
    ASSUME NEW context, NEW files, CopiedFrom(context, files),
           \A p \in Path : context[p] # Absent => EnvFull(context, context[p].refs),
           NEW limit \in Nat \ {0}, NEW n \in 0..limit,
           NEW text \in Texts, EnvFull(context, text.refs),
           FirstProblem(context, text.refs, n, Beneath(context, n)) = Fine
    PROVE  Mild(context, files, FineBelow(context, n), Command(files, text, limit))
<1>1. PICK more \in Nat : more = limit - n /\ n \in Nat
    OBVIOUS
<1>2. PICK refs \in Seq(References) : refs = text.refs
    BY TextType
<1>3. PICK below : below = ProblemIn(files, limit - 1)
    OBVIOUS
<1>4. PICK there : there = Beneath(context, n)
    OBVIOUS
<1>5. PICK fine : fine = FineBelow(context, n)
    OBVIOUS
<1>6. ASSUME n # 0
      PROVE  /\ \A q \in Path : there[q] = Fine => q \in fine
             /\ \A q \in Path : files[q] # Absent /\ there[q] = Fine =>
                    Mild(context, files, fine, below[q])
    <2>1. PICK k \in Nat : k = n - 1 /\ k + more = limit - 1
        BY <1>1, <1>6
    <2>2. there = ProblemIn(context, k) /\ below = ProblemIn(files, k + more)
        BY <1>3, <1>4, <1>6, <2>1 DEF Beneath
    <2>3. /\ \A q \in Path : there[q] = Fine => q \in fine
          /\ FineBelow(context, k) \subseteq fine
        BY <1>1, <1>4, <1>5, <1>6, <2>1, FineBeneath
    <2>4. \A q \in Path : files[q] # Absent /\ there[q] = Fine =>
                Mild(context, files, FineBelow(context, k), below[q])
        BY <2>2, LevelsMild
    <2> QED
        BY <2>3, <2>4, MildUp
<1>7. Mild(context, files, fine, FirstProblem(files, refs, limit, below))
    BY <1>1, <1>2, <1>4, <1>6, FirstMild
<1> QED
    BY <1>2, <1>3, <1>5, <1>7 DEF Command

-----------------------------------------------------------------------------
(***************************************************************************)
(* The build that the context allows.                                      *)
(***************************************************************************)
Buildable == Unambiguous /\ NoDirectoryTwin /\ EnvInFull /\ Direct = Fine

\* The context can be read, and nobody kills the command.
Undisturbed == unread = {} /\ ~killed

\* The Dockerfile that is transformed inside the build is another one, and can be
\* expanded itself.
NestedFine(b) ==
    /\ b.files[Main] # b.main
    /\ \E n \in 0..MaxIncludeDepth : ProblemIn(b.files, n)[Main] = Fine

\* The context has the file, by this name or by the second one.
Available(b, p) ==
    LET found == FoundAs(b.files, p)
    IN  p \in Path /\ b.files[found] # Absent /\ (found = Main => NestedFine(b))

LEMMA NoTwins ==
    ASSUME Held, Fetched, Unambiguous, unread = {}, NEW p \in Path,
           build.files[p] # Absent, disk[WithDockerfile[p]] # Absent
    PROVE  WithDockerfile[p] = p
<1> SUFFICES ASSUME WithDockerfile[p] # p PROVE FALSE
    OBVIOUS
<1>1. WithDockerfile[p] \in Path
    BY NameAssumption
<1>2. Sought(WithDockerfile[p])
    BY <1>1 DEF Fetched
<1>3. CASE \E text \in ContextTexts : WithDockerfile[p] \in Named(text)
    <2>1. PICK text \in ContextTexts : WithDockerfile[p] \in Named(text)
        BY <1>3
    <2>2. PICK i \in DOMAIN text.refs : text.refs[i].to = WithDockerfile[p]
        BY <2>1 DEF Named
    <2>3. build.files[p] = Absent
        BY <2>2 DEF Unambiguous
    <2> QED
        BY <2>3
<1>4. CASE \E q \in Path : WithDockerfile[p] = WithDockerfile[q] /\ WithDockerfile[p] # q
                            /\ (build.files[q] = Absent \/ q \in unread)
    BY <1>4, NameAssumption
<1> QED
    BY <1>2, <1>3, <1>4 DEF Sought

LEMMA DiskIsCopied ==
    ASSUME Held, Fetched, Buildable, unread = {}
    PROVE  /\ CopiedFrom(build.files, disk)
           /\ \A p \in Path : build.files[p] # Absent => EnvFull(build.files, build.files[p].refs)
           /\ \A text \in ContextTexts : EnvFull(build.files, text.refs)
<1>1. /\ disk \in Trees /\ build.files \in Trees
      /\ \A p \in Path : disk[p] # Absent => build.files[p] # Absent
    BY BuildType DEF Held, FromContext
<1>2. \A p \in Path : disk[p] # Absent => disk[p] = build.files[p] \/ disk[p].refs = <<>>
    BY DEF Fetched
<1>3. \A p \in Path : build.files[p] # Absent =>
            ~IsDirectory(build.files, WithDockerfile[p]) /\ ~IsDirectory(build.files, WithEnv[p])
    BY DEF Buildable, NoDirectoryTwin
<1>4. \A p \in Path : build.files[p] # Absent /\ disk[WithDockerfile[p]] # Absent =>
            WithDockerfile[p] = p
    BY NoTwins DEF Buildable
<1>5. CopiedFrom(build.files, disk)
    BY <1>1, <1>2, <1>3, <1>4 DEF CopiedFrom
<1>6. \A text \in ContextTexts : EnvFull(build.files, text.refs)
    BY DEF Buildable, EnvInFull, EnvFull
<1>7. \A p \in Path : build.files[p] # Absent => build.files[p] \in ContextTexts
    BY DEF ContextTexts
<1> QED
    BY <1>5, <1>6, <1>7

\* The main Dockerfile, where it has its name in the context, is no part of its own
\* expansion: it can be expanded with no fewer levels than the least number.
LEMMA MainIsNoPart ==
    ASSUME Held, Buildable, build.files[Main] = build.main
    PROVE  \E n \in 0..MaxIncludeDepth :
                /\ FirstProblem(build.files, build.main.refs, n, Beneath(build.files, n)) = Fine
                /\ Main \notin FineBelow(build.files, n)
<1>0. /\ build.files \in Trees /\ build.main \in Content /\ Absent \notin Content
      /\ MaxIncludeDepth \in Nat \ {0} /\ Main \in Path
    BY BuildType, TextAssumption, BoundAssumption, NameAssumption DEF Held, FromContext, Texts
<1>1. PICK files : files = build.files
    OBVIOUS
<1>2. files[Main] # Absent /\ files[Main] = build.main
    BY <1>0, <1>1
<1>3. \A n \in Nat :
        ProblemIn(files, n)[Main] = FirstProblem(files, build.main.refs, n, Beneath(files, n))
    BY <1>0, <1>2, InFile DEF Beneath
<1> DEFINE S == {n \in Nat : n <= MaxIncludeDepth /\ ProblemIn(files, n)[Main] = Fine}
<1>4. MaxIncludeDepth \in S
    <2>1. Command(files, build.main, MaxIncludeDepth) = Fine
        BY <1>1 DEF Buildable, Direct
    <2>2. ProblemIn(files, MaxIncludeDepth)[Main] = Command(files, build.main, MaxIncludeDepth)
        BY <1>0, <1>3 DEF Command, Beneath
    <2> QED
        BY <1>0, <2>1, <2>2
<1>5. PICK m \in S : \A k \in S : m <= k
    <2>1. S \in SUBSET Nat /\ S # {}
        BY <1>4
    <2> HIDE DEF S
    <2> QED
        BY <2>1, LeastMember
<1>6. m \in 0..MaxIncludeDepth /\ m \in Nat /\ ProblemIn(files, m)[Main] = Fine
    BY <1>0
<1>7. Main \notin FineBelow(files, m)
    <2> SUFFICES ASSUME NEW k \in 0..(m - 1), ProblemIn(files, k)[Main] = Fine PROVE FALSE
        BY DEF FineBelow
    <2>1. k \in Nat /\ k <= MaxIncludeDepth /\ k < m
        BY <1>0, <1>6
    <2>2. k \in S
        BY <2>1
    <2> QED
        BY <1>5, <1>6, <2>1, <2>2
<1> QED
    BY <1>1, <1>3, <1>6, <1>7

\* What the command misses is in the context, and has not been fetched.
LEMMA MissedIsAvailable ==
    ASSUME Held, CopiesRight, Fetched, Buildable, unread = {},
           Len(stack) > 1 \/ shared => NestedFine(build)
    PROVE  \/ Result.kind = "none"
           \/ /\ Result.kind = "missing-file"
              /\ Available(build, Result.path)
              /\ disk[FoundAs(build.files, Result.path)] = Absent
<1>0. /\ build.files \in Trees /\ Text \in ContextTexts /\ Text \in Texts
      /\ MaxIncludeDepth \in Nat \ {0}
    BY BuildType, TextOfContext, TopType, BoundAssumption DEF Held, FromContext
<1>1. \/ Text = build.main /\ (NestedFine(build) \/ ~(Len(stack) > 1 \/ shared))
      \/ Text = build.files[Main] /\ build.files[Main] # Absent /\ NestedFine(build)
    <2>1. CASE Len(stack) = 1
        <3>1. Text \in Asked
            BY <2>1, TextOfContext
        <3> QED
            BY <3>1 DEF Asked
    <2>2. CASE Len(stack) # 1
        BY <2>2, TextOfContext, BelowTop, LengthType
    <2> QED
        BY <2>1, <2>2
<1>2. PICK files : files = build.files
    OBVIOUS
<1>3. PICK n \in 0..MaxIncludeDepth :
            /\ FirstProblem(files, Text.refs, n, Beneath(files, n)) = Fine
            /\ Main \in FineBelow(files, n) => NestedFine(build)
    <2>1. CASE build.files[Main] = build.main
        <3>1. Text = build.main
            BY <1>1, <2>1
        <3> QED
            BY <1>2, <2>1, <3>1, MainIsNoPart
    <2>2. CASE build.files[Main] # build.main /\ Text = build.main
        <3>1. FirstProblem(files, Text.refs, MaxIncludeDepth, Beneath(files, MaxIncludeDepth)) = Fine
            BY <1>0, <1>2, <2>2 DEF Buildable, Direct, Command, Beneath
        <3>2. ASSUME Main \in FineBelow(files, MaxIncludeDepth) PROVE NestedFine(build)
            <4>1. PICK k \in 0..(MaxIncludeDepth - 1) : ProblemIn(files, k)[Main] = Fine
                BY <3>2 DEF FineBelow
            <4>2. k \in 0..MaxIncludeDepth
                BY <1>0, <4>1
            <4> QED
                BY <1>2, <2>2, <4>1, <4>2 DEF NestedFine
        <3>3. MaxIncludeDepth \in 0..MaxIncludeDepth
            BY <1>0
        <3> QED
            BY <3>1, <3>2, <3>3
    <2>3. CASE Text # build.main
        <3>1. Text = files[Main] /\ files[Main] # Absent /\ NestedFine(build)
            BY <1>1, <1>2, <2>3
        <3>2. PICK k \in 0..MaxIncludeDepth : ProblemIn(files, k)[Main] = Fine
            BY <1>2, <3>1 DEF NestedFine
        <3>3. k \in Nat
            BY <1>0
        <3>4. FirstProblem(files, Text.refs, k, Beneath(files, k)) = Fine
            BY <3>1, <3>2, <3>3, InFile, NameAssumption DEF Beneath
        <3> QED
            BY <3>1, <3>4
    <2> QED
        BY <2>1, <2>2, <2>3
<1>4. /\ CopiedFrom(files, disk)
      /\ \A p \in Path : files[p] # Absent => EnvFull(files, files[p].refs)
      /\ EnvFull(files, Text.refs)
    BY <1>0, <1>2, DiskIsCopied
<1>5. PICK fine : fine = FineBelow(files, n)
    OBVIOUS
<1>6. PICK result : result = Result
    OBVIOUS
<1>7. Mild(files, disk, fine, result)
    <2>1. PICK text \in Texts : text = Text
        BY <1>0
    <2>2. Mild(files, disk, FineBelow(files, n), Command(disk, text, MaxIncludeDepth))
        BY <1>0, <1>3, <1>4, <2>1, CommandMild
    <2> QED
        BY <1>5, <1>6, <2>1, <2>2 DEF Result
<1>8. ASSUME NEW p, ToFetch(files, disk, fine, p)
      PROVE  Available(build, p) /\ disk[FoundAs(files, p)] = Absent
    <2>1. p \in Path /\ disk[p] = Absent
        BY <1>8 DEF ToFetch
    <2>2. CASE files[p] # Absent /\ p # Main
        BY <1>2, <2>1, <2>2 DEF Available, FoundAs
    <2>3. CASE /\ disk[WithDockerfile[p]] = Absent
               /\ files[FoundAs(files, p)] # Absent
               /\ FoundAs(files, p) \in fine
        <3>1. FoundAs(files, p) = Main => NestedFine(build)
            BY <1>3, <1>5, <2>3
        <3>2. disk[FoundAs(files, p)] = Absent
            BY <2>1, <2>3 DEF FoundAs
        <3> QED
            BY <1>2, <2>1, <2>3, <3>1, <3>2 DEF Available
    <2> QED
        BY <1>8, <2>2, <2>3 DEF ToFetch
<1>9. \/ result.kind = "none"
      \/ result.kind = "missing-file" /\ ToFetch(files, disk, fine, result.path)
    BY <1>7 DEF Mild
<1> QED
    BY <1>2, <1>6, <1>8, <1>9

\* A read that will find its file; or one of the second name of the main Dockerfile,
\* whose transform has met the error of a remote source.
Pending(frame, b, errors) ==
    \/ Available(b, frame.last) /\ frame.reading \in {frame.last, FoundAs(b.files, frame.last)}
    \/ /\ frame.reading = WithDockerfile[Main] /\ frame.reading # Main
       /\ b.files[frame.reading] = Absent /\ "not-read" \in errors

\* A transform that has failed for one of "errors" only, and that has fetched the
\* file which was missing last, or reads it.
FrameSound(frame, b, files, errors) ==
    /\ frame.failed \in {"no"} \cup errors
    /\ frame.failed = "no" /\ frame.reading = NoPath /\ frame.last # NoPath =>
            Available(b, frame.last) /\ files[FoundAs(b.files, frame.last)] # Absent
    /\ frame.failed = "no" /\ frame.reading # NoPath => Pending(frame, b, errors)

Sound ==
    /\ outcome.code \in {"running", "ok"} \cup RemoteErrors
    /\ \A i \in DOMAIN stack : FrameSound(stack[i], build, disk, RemoteErrors)
    /\ Len(stack) > 1 \/ shared => NestedFine(build)

LEMMA BuildSame ==
    ASSUME build' = build
    PROVE  RemoteErrors' = RemoteErrors /\ Buildable' = Buildable
BY DEF RemoteErrors, ContextTexts, Buildable, Unambiguous, NoDirectoryTwin, EnvInFull, Direct

LEMMA ErrorsAre ==
    /\ RemoteErrors \subseteq {"reported", "not-read"}
    /\ (\E text \in ContextTexts : RefersElsewhere(text)) => "reported" \in RemoteErrors
    /\ RemoteErrors # {} /\ build.files[Main] \notin {Absent, build.main} =>
            "not-read" \in RemoteErrors
BY DEF RemoteErrors

LEMMA FoundType ==
    ASSUME NEW context, NEW p \in Path
    PROVE  FoundAs(context, p) \in Path
BY NameAssumption DEF FoundAs

LEMMA SoundGrows ==
    ASSUME NEW frame, NEW b, NEW files, NEW more, NEW errors,
           FrameSound(frame, b, files, errors),
           \A p \in Path : files[p] # Absent => more[p] # Absent
    PROVE  FrameSound(frame, b, more, errors)
<1>1. CASE frame.failed = "no" /\ frame.reading = NoPath /\ frame.last # NoPath
    <2>1. Available(b, frame.last) /\ files[FoundAs(b.files, frame.last)] # Absent
        BY <1>1 DEF FrameSound
    <2>2. FoundAs(b.files, frame.last) \in Path
        BY <2>1, FoundType DEF Available
    <2> QED
        BY <1>1, <2>1, <2>2 DEF FrameSound
<1>2. CASE ~(frame.failed = "no" /\ frame.reading = NoPath /\ frame.last # NoPath)
    BY <1>2 DEF FrameSound
<1> QED
    BY <1>1, <1>2

LEMMA TopSound ==
    ASSUME Held, Sound, build' = build, outcome' = outcome, shared' = shared,
           \A p \in Path : disk[p] # Absent => disk'[p] # Absent,
           NEW frame \in FrameType, FrameSound(frame, build, disk', RemoteErrors),
           stack' = [stack EXCEPT ![Len(stack)] = frame]
    PROVE  Sound'
<1>1. stack \in Seq(FrameType) /\ Len(stack) \in Nat /\ DOMAIN stack = 1..Len(stack)
    BY LengthType
<1>2. /\ DOMAIN stack' = DOMAIN stack /\ Len(stack') = Len(stack)
      /\ \A i \in DOMAIN stack : stack'[i] = IF i = Len(stack) THEN frame ELSE stack[i]
    BY <1>1
<1>3. RemoteErrors' = RemoteErrors
    BY BuildSame
<1>4. ASSUME NEW i \in DOMAIN stack
      PROVE  FrameSound(stack'[i], build', disk', RemoteErrors')
    <2>1. CASE i = Len(stack)
        BY <1>2, <1>3, <2>1
    <2>2. CASE i # Len(stack)
        <3>1. FrameSound(stack[i], build, disk, RemoteErrors)
            BY DEF Sound
        <3>2. FrameSound(stack[i], build, disk', RemoteErrors)
            BY <3>1, SoundGrows
        <3> QED
            BY <1>2, <1>3, <2>2, <3>2
    <2> QED
        BY <2>1, <2>2
<1> QED
    BY <1>2, <1>3, <1>4 DEF Sound

LEMMA BelowSound ==
    ASSUME Held, Sound, Len(stack) > 1, build' = build, outcome' = outcome, shared' = shared,
           \A p \in Path : disk[p] # Absent => disk'[p] # Absent,
           NEW frame \in FrameType, FrameSound(frame, build, disk', RemoteErrors),
           stack' = [Front(stack) EXCEPT ![Len(stack) - 1] = frame]
    PROVE  Sound'
<1>1. stack \in Seq(FrameType) /\ Len(stack) \in Nat /\ DOMAIN stack = 1..Len(stack)
    BY LengthType
<1>2. PICK f : f = Front(stack)
    OBVIOUS
<1>3. /\ f \in Seq(FrameType) /\ Len(f) = Len(stack) - 1
      /\ \A i \in 1..(Len(stack) - 1) : f[i] = stack[i]
    BY <1>1, <1>2 DEF Front
<1>4. /\ DOMAIN stack' = 1..(Len(stack) - 1)
      /\ \A i \in 1..(Len(stack) - 1) :
            stack'[i] = IF i = Len(stack) - 1 THEN frame ELSE stack[i]
    <2>1. PICK t : t = [f EXCEPT ![Len(stack) - 1] = frame]
        OBVIOUS
    <2>2. DOMAIN t = 1..(Len(stack) - 1)
        BY <1>1, <1>3, <2>1
    <2>3. \A i \in 1..(Len(stack) - 1) : t[i] = IF i = Len(stack) - 1 THEN frame ELSE stack[i]
        <3>1. DOMAIN f = 1..(Len(stack) - 1)
            BY <1>1, <1>3
        <3>2. \A i \in DOMAIN f : t[i] = IF i = Len(stack) - 1 THEN frame ELSE f[i]
            BY <2>1
        <3> QED
            BY <1>3, <3>1, <3>2
    <2>4. stack' = t
        BY <1>2, <2>1
    <2> QED
        BY <2>2, <2>3, <2>4
<1>5. RemoteErrors' = RemoteErrors
    BY BuildSame
<1>6. ASSUME NEW i \in 1..(Len(stack) - 1)
      PROVE  FrameSound(stack'[i], build', disk', RemoteErrors')
    <2>1. CASE i = Len(stack) - 1
        BY <1>4, <1>5, <2>1
    <2>2. CASE i # Len(stack) - 1
        <3>1. i \in DOMAIN stack
            BY <1>1
        <3>2. FrameSound(stack[i], build, disk, RemoteErrors)
            BY <3>1 DEF Sound
        <3>3. FrameSound(stack[i], build, disk', RemoteErrors)
            BY <3>2, SoundGrows
        <3> QED
            BY <1>4, <1>5, <2>2, <3>3
    <2> QED
        BY <2>1, <2>2
<1> QED
    BY <1>4, <1>5, <1>6 DEF Sound

LEMMA ReturnSound ==
    ASSUME Held, Sound, NEW text, Return(text), text # Absent, shared' = shared
    PROVE  Sound'
<1>1. build' = build
    BY DEF Return
<1>2. CASE Len(stack) = 1
    <2>1. disk' = disk /\ stack' = stack /\ outcome' = [code |-> "ok", text |-> text]
        BY <1>2 DEF Return
    <2> QED
        BY <1>1, <2>1, BuildSame DEF Sound
<1>3. CASE Len(stack) # 1
    <2>1. stack \in Seq(FrameType) /\ Len(stack) \in Nat /\ Len(stack) > 1
        BY <1>3, LengthType
    <2>2. PICK n : n = Len(stack) - 1
        OBVIOUS
    <2>3. /\ n \in DOMAIN stack /\ Front(stack)[n] = stack[n]
          /\ stack[n] \in FrameType /\ stack[n].reading = Main /\ stack[n].failed = "no"
          /\ build.files[Main] # Absent
        BY <2>1, <2>2, BelowTop DEF Front
    <2>4. PICK below \in FrameType : below = stack[n]
        BY <2>3
    <2>5. PICK frame : frame = [below EXCEPT !.reading = NoPath]
        OBVIOUS
    <2>6. /\ frame \in FrameType /\ frame.failed = "no" /\ frame.reading = NoPath
          /\ frame.last = below.last
        BY <2>3, <2>4, <2>5 DEF FrameType
    <2>7. /\ disk' = [disk EXCEPT ![Main] = text] /\ outcome' = outcome
          /\ stack' = [Front(stack) EXCEPT ![n] = frame]
        BY <1>3, <2>2, <2>3, <2>4, <2>5 DEF Return
    <2>8. \A p \in Path : disk'[p] = IF p = Main THEN text ELSE disk[p]
        BY <2>7 DEF Held, FromContext, Trees
    <2>9. FrameSound(frame, build, disk', RemoteErrors)
        <3>1. FrameSound(below, build, disk, RemoteErrors)
            BY <2>3, <2>4 DEF Sound
        <3>2. Pending(below, build, RemoteErrors)
            BY <2>3, <2>4, <3>1, NameAssumption DEF FrameSound
        <3>3. Available(build, below.last) /\ Main \in {below.last, FoundAs(build.files, below.last)}
            BY <2>3, <2>4, <3>2 DEF Pending
        <3>4. FoundAs(build.files, below.last) = Main
            BY <2>3, <3>3 DEF FoundAs
        <3>5. disk'[FoundAs(build.files, below.last)] # Absent
            BY <2>8, <3>4, NameAssumption
        <3> QED
            BY <2>6, <3>3, <3>5 DEF FrameSound
    <2>10. \A p \in Path : disk[p] # Absent => disk'[p] # Absent
        BY <2>8
    <2> QED
        BY <1>1, <2>1, <2>2, <2>6, <2>7, <2>9, <2>10, BelowSound
<1> QED
    BY <1>2, <1>3

LEMMA MissSound ==
    ASSUME Held, CopiesRight, Fetched, Buildable, Sound, unread = {}, RunMisses
    PROVE  Sound'
<1>1. Top \in FrameType /\ Top = stack[Len(stack)] /\ Len(stack) \in DOMAIN stack
    BY TopType
<1>2. FrameSound(Top, build, disk, RemoteErrors) /\ Top.failed = "no" /\ Top.reading = NoPath
    BY <1>1 DEF Sound, RunMisses, AboutToRun
<1>3. PICK path \in Path : path = Result.path
    BY MissedHere DEF RunMisses
<1>4. Available(build, path) /\ disk[FoundAs(build.files, path)] = Absent
    <2>1. Result.kind = "missing-file" /\ (Len(stack) > 1 \/ shared => NestedFine(build))
        BY DEF RunMisses, Sound
    <2> QED
        BY <1>3, <2>1, MissedIsAvailable
<1>5. path # Top.last
    <2> SUFFICES ASSUME path = Top.last PROVE FALSE
        OBVIOUS
    <2>1. Top.last # NoPath
        BY NameAssumption
    <2>2. disk[FoundAs(build.files, Top.last)] # Absent
        BY <1>2, <2>1 DEF FrameSound
    <2> QED
        BY <1>4, <2>2
<1>6. PICK frame : frame = [Top EXCEPT !.last = path, !.reading = path]
    OBVIOUS
<1>7. frame \in FrameType /\ frame.failed = "no" /\ frame.last = path /\ frame.reading = path
    BY <1>1, <1>2, <1>6 DEF FrameType
<1>8. /\ stack' = [stack EXCEPT ![Len(stack)] = frame]
      /\ build' = build /\ disk' = disk /\ outcome' = outcome /\ shared' = shared
    BY <1>3, <1>5, <1>6 DEF RunMisses, SetTop, history
<1>9. FrameSound(frame, build, disk', RemoteErrors)
    <2>1. Pending(frame, build, RemoteErrors)
        BY <1>4, <1>7 DEF Pending
    <2> QED
        BY <1>7, <2>1, NameAssumption DEF FrameSound
<1>10. \A p \in Path : disk[p] # Absent => disk'[p] # Absent
    BY <1>8
<1> QED
    BY <1>7, <1>8, <1>9, <1>10, TopSound

LEMMA FailSound ==
    ASSUME Held, Sound, NEW reason \in Reasons, Fail(reason), reason \in RemoteErrors, shared' = shared
    PROVE  Sound'
<1>1. Top \in FrameType
    BY TopType
<1>2. PICK frame : frame = [Top EXCEPT !.failed = reason]
    OBVIOUS
<1>3. frame \in FrameType /\ frame.failed = reason /\ reason # "no"
    BY <1>1, <1>2 DEF FrameType, Reasons
<1>4. /\ stack' = [stack EXCEPT ![Len(stack)] = frame]
      /\ build' = build /\ disk' = disk /\ outcome' = outcome
    BY <1>2 DEF Fail, SetTop
<1>5. FrameSound(frame, build, disk', RemoteErrors)
    BY <1>3 DEF FrameSound
<1>6. \A p \in Path : disk[p] # Absent => disk'[p] # Absent
    BY <1>4
<1> QED
    BY <1>3, <1>4, <1>5, <1>6, TopSound

LEMMA ReportSound ==
    ASSUME Held, CopiesRight, Fetched, Sound, RunReports
    PROVE  Sound'
<1>1. PICK text \in {Text} \cup ({disk[p] : p \in Path} \ {Absent}) : RefersElsewhere(text)
    BY DEF RunReports
<1>2. text \in ContextTexts
    <2>1. CASE text = Text
        BY <2>1, TextOfContext
    <2>2. CASE text # Text
        <3>1. PICK p \in Path : text = disk[p] /\ disk[p] # Absent
            BY <1>1, <2>2
        <3>2. p # Main
            <4> SUFFICES ASSUME p = Main PROVE FALSE
                OBVIOUS
            <4>1. text.refs = <<>>
                BY <3>1 DEF Fetched
            <4> QED
                BY <1>1, <4>1 DEF RefersElsewhere
        <3>3. text = build.files[p]
            BY <3>1, <3>2 DEF Fetched
        <3> QED
            BY <3>1, <3>3 DEF ContextTexts
    <2> QED
        BY <2>1, <2>2
<1>3. "reported" \in RemoteErrors /\ "reported" \in Reasons
    BY <1>1, <1>2, ErrorsAre DEF Reasons
<1> QED
    BY <1>3, FailSound DEF RunReports, history

LEMMA FetchSound ==
    ASSUME Held, Sound, NEW p \in Path, Fetch(p)
    PROVE  Sound'
<1>1. Top \in FrameType /\ Top = stack[Len(stack)] /\ Len(stack) \in DOMAIN stack
    BY TopType
<1>2. /\ FrameSound(Top, build, disk, RemoteErrors) /\ Top.failed = "no" /\ Top.reading = p
      /\ build.files[p] # Absent
    BY <1>1 DEF Sound, Fetch, Reads
<1>3. PICK frame : frame = [Top EXCEPT !.reading = NoPath]
    OBVIOUS
<1>4. /\ frame \in FrameType /\ frame.failed = "no" /\ frame.reading = NoPath /\ frame.last = Top.last
    BY <1>1, <1>2, <1>3 DEF FrameType
<1>5. /\ stack' = [stack EXCEPT ![Len(stack)] = frame]
      /\ build' = build /\ disk' = [disk EXCEPT ![p] = build.files[p]] /\ outcome' = outcome
      /\ shared' = shared
    BY <1>3 DEF Fetch, SetTop, history
<1>6. \A q \in Path : disk'[q] = IF q = p THEN build.files[p] ELSE disk[q]
    BY <1>5 DEF Held, FromContext, Trees
<1>7. Available(build, Top.last) /\ p \in {Top.last, FoundAs(build.files, Top.last)}
    <2>1. Pending(Top, build, RemoteErrors)
        BY <1>2, NameAssumption DEF FrameSound
    <2> QED
        BY <1>2, <2>1 DEF Pending
<1>8. FoundAs(build.files, Top.last) = p
    BY <1>2, <1>7 DEF FoundAs
<1>9. FrameSound(frame, build, disk', RemoteErrors)
    BY <1>2, <1>4, <1>6, <1>7, <1>8 DEF FrameSound
<1>10. \A q \in Path : disk[q] # Absent => disk'[q] # Absent
    BY <1>2, <1>6
<1> QED
    BY <1>4, <1>5, <1>9, <1>10, TopSound

LEMMA FetchFailsSound ==
    ASSUME Held, Sound, NEW p \in Path, FetchFails(p), unread' = {}
    PROVE  Sound'
<1>1. Top \in FrameType /\ Top = stack[Len(stack)] /\ Len(stack) \in DOMAIN stack
    BY TopType
<1>2. /\ FrameSound(Top, build, disk, RemoteErrors) /\ Top.failed = "no" /\ Top.reading = p
      /\ build.files[p] = Absent
    BY <1>1 DEF Sound, FetchFails, Reads
<1>3. PICK frame : frame = NextName(Top, "not-read")
    OBVIOUS
<1>4. /\ frame \in FrameType /\ frame.last = Top.last
      /\ IF WithDockerfile[p] = p
         THEN frame.failed = "not-read" /\ frame.reading = p
         ELSE frame.failed = "no" /\ frame.reading = WithDockerfile[p]
    BY <1>1, <1>2, <1>3, NextNameIs DEF Reasons
<1>5. /\ stack' = [stack EXCEPT ![Len(stack)] = frame]
      /\ build' = build /\ disk' = disk /\ outcome' = outcome /\ shared' = shared
    BY <1>3 DEF FetchFails, SetTop
<1>6. Pending(Top, build, RemoteErrors)
    BY <1>2, NameAssumption DEF FrameSound
<1>7. FrameSound(frame, build, disk', RemoteErrors)
    <2>1. CASE Available(build, Top.last) /\ p \in {Top.last, FoundAs(build.files, Top.last)}
        <3>1. build.files[FoundAs(build.files, Top.last)] # Absent
            BY <2>1 DEF Available
        <3>2. p = Top.last /\ p # FoundAs(build.files, p)
            BY <1>2, <2>1, <3>1
        <3>3. FoundAs(build.files, p) = WithDockerfile[p]
            BY <1>2 DEF FoundAs
        <3>4. frame.failed = "no" /\ frame.reading = FoundAs(build.files, frame.last)
            BY <1>4, <3>2, <3>3
        <3>5. Pending(frame, build, RemoteErrors)
            BY <1>4, <2>1, <3>4 DEF Pending
        <3>6. frame.reading # NoPath
            BY <1>4, <3>2, <3>3, NameAssumption
        <3> QED
            BY <3>4, <3>5, <3>6 DEF FrameSound
    <2>2. CASE p = WithDockerfile[Main] /\ "not-read" \in RemoteErrors
        <3>1. WithDockerfile[p] = p
            BY <2>2, NameAssumption
        <3> QED
            BY <1>4, <2>2, <3>1 DEF FrameSound
    <2> QED
        BY <1>2, <1>6, <2>1, <2>2 DEF Pending
<1>8. \A q \in Path : disk[q] # Absent => disk'[q] # Absent
    BY <1>5
<1> QED
    BY <1>4, <1>5, <1>7, <1>8, TopSound

LEMMA TransformedSound ==
    ASSUME Held, Sound, FetchTransformed
    PROVE  Sound'
<1>1. /\ Top \in FrameType /\ Top = stack[Len(stack)] /\ Len(stack) \in DOMAIN stack
      /\ stack \in Seq(FrameType) /\ Len(stack) \in Nat
    BY TopType, LengthType
<1>2. /\ FrameSound(Top, build, disk, RemoteErrors) /\ Top.failed = "no" /\ Top.reading = Main
      /\ build.files[Main] # Absent /\ build' = build /\ disk' = disk /\ outcome' = outcome
    BY <1>1 DEF Sound, FetchTransformed, Reads
<1>3. PICK frame : /\ stack' = Append(stack, frame)
                   /\ frame.failed = "no" /\ frame.reading = NoPath /\ frame.last = NoPath
    BY DEF FetchTransformed, Transform
<1>4. /\ DOMAIN stack' = 1..(Len(stack) + 1) /\ DOMAIN stack = 1..Len(stack)
      /\ stack'[Len(stack) + 1] = frame
      /\ \A i \in 1..Len(stack) : stack'[i] = stack[i]
    BY <1>1, <1>3
<1>5. NestedFine(build)
    <2>1. Pending(Top, build, RemoteErrors)
        BY <1>2, NameAssumption DEF FrameSound
    <2>2. Available(build, Top.last) /\ Main \in {Top.last, FoundAs(build.files, Top.last)}
        BY <1>2, <2>1 DEF Pending
    <2>3. FoundAs(build.files, Top.last) = Main
        BY <1>2, <2>2 DEF FoundAs
    <2> QED
        BY <2>2, <2>3 DEF Available
<1>6. RemoteErrors' = RemoteErrors
    BY <1>2, BuildSame
<1>7. ASSUME NEW i \in DOMAIN stack'
      PROVE  FrameSound(stack'[i], build', disk', RemoteErrors')
    <2>1. CASE i = Len(stack) + 1
        BY <1>2, <1>3, <1>4, <1>6, <2>1 DEF FrameSound
    <2>2. CASE i # Len(stack) + 1
        <3>1. i \in 1..Len(stack)
            BY <1>1, <1>4, <2>2
        <3> QED
            BY <1>2, <1>4, <1>6, <3>1 DEF Sound
    <2> QED
        BY <2>1, <2>2
<1> QED
    BY <1>2, <1>5, <1>6, <1>7 DEF Sound

LEMMA ErrorSound ==
    ASSUME Held, Sound, Buildable, ReturnError
    PROVE  Sound'
<1>1. /\ Top \in FrameType /\ Top = stack[Len(stack)] /\ Len(stack) \in DOMAIN stack
      /\ stack \in Seq(FrameType) /\ Len(stack) \in Nat
    BY TopType, LengthType
<1>2. /\ Top.failed \in RemoteErrors /\ Top.failed \in Reasons
      /\ build' = build /\ disk' = disk
    BY <1>1 DEF Sound, FrameSound, ReturnError, FrameType
<1>3. CASE Len(stack) = 1
    <2>1. stack' = stack /\ outcome' = [code |-> Top.failed, text |-> Empty] /\ shared' = shared
        BY <1>3 DEF ReturnError, history
    <2> QED
        BY <1>2, <2>1, BuildSame DEF Sound
<1>4. CASE Len(stack) # 1
    <2>1. Len(stack) > 1
        BY <1>4, LengthType
    <2>2. PICK n : n = Len(stack) - 1
        OBVIOUS
    <2>3. /\ n \in DOMAIN stack /\ stack[n] \in FrameType /\ stack[n].reading = Main
          /\ stack[n].failed = "no" /\ build.files[Main] # Absent
        BY <1>1, <2>1, <2>2, BelowTop
    <2>4. PICK frame : frame = NextName(stack[n], Top.failed)
        OBVIOUS
    <2>5. /\ frame \in FrameType
          /\ IF WithDockerfile[Main] = Main
             THEN frame.failed = Top.failed
             ELSE frame.failed = "no" /\ frame.reading = WithDockerfile[Main]
        BY <1>2, <2>3, <2>4, NextNameIs, NameAssumption
    <2>6. stack' = [Front(stack) EXCEPT ![n] = frame] /\ outcome' = outcome /\ shared' = shared
        BY <1>4, <2>2, <2>4 DEF ReturnError, history
    <2>7. FrameSound(frame, build, disk', RemoteErrors)
        <3>1. CASE WithDockerfile[Main] = Main
            <4>1. frame.failed # "no"
                BY <1>2, <2>5, <3>1 DEF Reasons
            <4> QED
                BY <1>2, <2>5, <3>1, <4>1 DEF FrameSound
        <3>2. CASE WithDockerfile[Main] # Main
            <4>1. build.files[WithDockerfile[Main]] = Absent
                BY <3>2 DEF Buildable, Unambiguous
            <4>2. "not-read" \in RemoteErrors
                BY <1>2, <2>1, <2>3, ErrorsAre DEF Sound, NestedFine
            <4>3. Pending(frame, build, RemoteErrors)
                BY <2>5, <3>2, <4>1, <4>2 DEF Pending
            <4>4. frame.reading # NoPath
                BY <2>5, <3>2, NameAssumption
            <4> QED
                BY <2>5, <3>2, <4>3, <4>4 DEF FrameSound
        <3> QED
            BY <3>1, <3>2
    <2>8. \A p \in Path : disk[p] # Absent => disk'[p] # Absent
        BY <1>2
    <2> QED
        BY <1>2, <2>1, <2>2, <2>5, <2>6, <2>7, <2>8, BelowSound
<1> QED
    BY <1>3, <1>4

LEMMA SoundStep ==
    ASSUME Held, CopiesRight, Fetched, Buildable, Sound, [Next]_vars, Undisturbed'
    PROVE  Sound'
<1>0. Expanded(Text) # Absent /\ Empty # Absent
    BY TopType, ExpandedType, TextAssumption DEF Texts
<1>1. unread' = {} /\ unread = {} /\ ~killed'
    BY OnlyMore DEF Undisturbed
<1>2. Result.kind \in {"none", "missing-file"}
    BY <1>1, MissedIsAvailable DEF Sound
<1>3. CASE RunNeverStarts
    BY <1>0, <1>3, ReturnSound DEF RunNeverStarts
<1>4. CASE RunSucceeds
    <2>1. PICK text : text = Expanded(Text)
        OBVIOUS
    <2> QED
        BY <1>0, <1>4, <2>1, ReturnSound DEF RunSucceeds, history
<1>5. CASE RunFails \/ RunReportsChain
    BY <1>1, <1>2, <1>5 DEF RunFails, RunReportsChain
<1>6. CASE RunReports
    BY <1>6, ReportSound
<1>7. CASE RunMisses
    BY <1>1, <1>7, MissSound
<1>8. CASE \E p \in Path : Fetch(p) \/ FetchFails(p)
    BY <1>1, <1>8, FetchSound, FetchFailsSound
<1>9. CASE FetchTransformed
    BY <1>9, TransformedSound
<1>10. CASE ReturnError
    BY <1>10, ErrorSound
<1>11. CASE UNCHANGED vars
    BY <1>11, BuildSame DEF vars, history, Sound
<1> QED
    BY <1>3, <1>4, <1>5, <1>6, <1>7, <1>8, <1>9, <1>10, <1>11 DEF Next, Step, Done

\* NeverFailsInVain: nothing the frontend wrote or forgot to fetch gets in the way
\* of a build that the context allows.
THEOREM BuildsAllowedSucceed == Spec => []NeverFailsInVain
<1> DEFINE Inv == Buildable /\ Undisturbed => Sound
<1>1. Init => Fetched /\ Reading /\ Inv
    <2> SUFFICES ASSUME Init PROVE Fetched /\ Reading /\ Sound
        OBVIOUS
    <2>1. \A p \in Path : disk[p] = Absent
        BY DEF Init
    <2>2. PICK frame : /\ stack = <<frame>> /\ frame.reading = NoPath
                       /\ frame.failed = "no" /\ frame.last = NoPath
        BY DEF Init, Transform
    <2>3. DOMAIN stack = {1} /\ stack[1] = frame /\ Len(stack) = 1
        BY <2>2
    <2>4. Sound
        BY <2>2, <2>3 DEF Sound, FrameSound, Init, Running
    <2> QED
        BY <2>1, <2>2, <2>3, <2>4, NameAssumption DEF Fetched, Reading
<1>2. Held /\ CopiesRight /\ Fetched /\ Reading /\ Inv /\ [Next]_vars
        => Fetched' /\ Reading' /\ Inv'
    <2> SUFFICES ASSUME Held, CopiesRight, Fetched, Reading, Inv, [Next]_vars
                 PROVE  Fetched' /\ Reading' /\ (Buildable' /\ Undisturbed' => Sound')
        OBVIOUS
    <2>1. Fetched' /\ Reading'
        BY FetchedStep
    <2>2. Buildable' = Buildable
        BY OnlyMore, BuildSame
    <2>3. Undisturbed' => Undisturbed
        BY OnlyMore DEF Undisturbed
    <2> QED
        BY <2>1, <2>2, <2>3, SoundStep
<1>3. Inv => NeverFailsInVain
    BY DEF Buildable, Undisturbed, Sound, NeverFailsInVain
<1> QED
    BY <1>1, <1>2, <1>3, CopiesInvariant, FrontendInvariant, PTL DEF Spec

=============================================================================
