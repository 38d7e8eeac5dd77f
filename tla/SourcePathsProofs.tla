------------------------- MODULE SourcePathsProofs -------------------------
(***************************************************************************)
(* Proofs about SourcePaths, for every set of names, every context, every  *)
(* arrangement of links and chains of references of any length.            *)
(***************************************************************************)
EXTENDS SourcePaths, SequenceTheorems, WellFoundedInduction, TLAPS

-----------------------------------------------------------------------------
(***************************************************************************)
(* Paths are built step by step.                                           *)
(***************************************************************************)
LEMMA LeastMember ==
    ASSUME NEW S \in SUBSET Nat, S # {}
    PROVE  \E n \in S : \A m \in S : n <= m
<1>1. PICK n \in S : \A m \in S : ~(<<m, n>> \in OpToRel(<, Nat))
    BY NatLessThanWellFounded, WFMin
<1>2. \A m \in S : <<m, n>> \in OpToRel(<, Nat) <=> m < n
    BY DEF OpToRel
<1>3. \A m \in S : ~(m < n)
    BY <1>1, <1>2
<1>4. \A m \in S : m \in Nat /\ n \in Nat
    OBVIOUS
<1> QED
    BY <1>3, <1>4

\* Induction up to a number, in the form of sets of numbers.
LEMMA InductionUpTo ==
    ASSUME NEW N \in Nat, NEW S, 0 \in S, \A n \in 1..N : n - 1 \in S => n \in S
    PROVE  0..N \subseteq S
<1> SUFFICES ASSUME ~(0..N \subseteq S) PROVE FALSE
    OBVIOUS
<1>1. (0..N) \ S \in SUBSET Nat /\ (0..N) \ S # {}
    OBVIOUS
<1>2. PICK n \in (0..N) \ S : \A m \in (0..N) \ S : n <= m
    BY <1>1, LeastMember
<1>3. n \in 1..N /\ n - 1 \in 0..N
    BY <1>2
<1>4. n - 1 \in S
    BY <1>2, <1>3
<1> QED
    BY <1>2, <1>3, <1>4

\* The values of a recursive function up to N.
Runs(f, N, A, base, next) ==
    /\ f \in [0..N -> A] /\ f[0] = base
    /\ \A n \in 1..N : f[n] = next[n][f[n - 1]]

LEMMA Recursion ==
    ASSUME NEW N \in Nat, NEW A, NEW base \in A, NEW next \in [1..N -> [A -> A]]
    PROVE  \E f : Runs(f, N, A, base, next)
<1> DEFINE UpTo(f, m) ==
        /\ f \in [0..m -> A] /\ f[0] = base
        /\ \A n \in 1..m : f[n] = next[n][f[n - 1]]
           S == {m \in 0..N : \E f : UpTo(f, m)}
<1>1. 0 \in S
    <2> DEFINE f == [n \in 0..0 |-> base]
    <2>1. UpTo(f, 0)
        OBVIOUS
    <2> HIDE DEF UpTo
    <2> QED
        BY <2>1
<1>2. ASSUME NEW m \in 1..N, m - 1 \in S PROVE m \in S
    <2>1. PICK f : UpTo(f, m - 1)
        BY <1>2
    <2> DEFINE g == [n \in 0..m |-> IF n = m THEN next[m][f[m - 1]] ELSE f[n]]
    <2>2. f[m - 1] \in A /\ next[m][f[m - 1]] \in A
        BY <2>1
    <2>3. g \in [0..m -> A] /\ g[0] = base
        BY <2>1, <2>2
    <2>4. ASSUME NEW n \in 1..m PROVE g[n] = next[n][g[n - 1]]
        <3>1. CASE n = m
            <4>1. n - 1 \in 0..m /\ n - 1 # m
                BY <1>2, <3>1
            <4> QED
                BY <3>1, <4>1
        <3>2. CASE n # m
            <4>1. n \in 1..(m - 1) /\ n \in 0..m /\ n - 1 \in 0..m /\ n - 1 # m
                BY <1>2, <3>2
            <4>2. g[n] = f[n] /\ g[n - 1] = f[n - 1]
                BY <3>2, <4>1
            <4> QED
                BY <2>1, <4>1, <4>2
        <3> QED
            BY <3>1, <3>2
    <2>5. UpTo(g, m)
        BY <2>3, <2>4
    <2> HIDE DEF UpTo, g
    <2> QED
        BY <2>5
<1>3. N \in S
    <2> HIDE DEF S
    <2>1. 0..N \subseteq S
        BY <1>1, <1>2, InductionUpTo
    <2> QED
        BY <2>1
<1>4. PICK f : UpTo(f, N)
    BY <1>3
<1> QED
    BY <1>4 DEF Runs

LEMMA StepsType ==
    ASSUME NEW steps \in Seq(Step)
    PROVE  /\ Len(steps) \in Nat
           /\ \A n \in 1..Len(steps) : steps[n] \in Name \/ steps[n] = "." \/ steps[n] = ".."
<1>1. Len(steps) \in Nat /\ \A n \in 1..Len(steps) : steps[n] \in Step
    OBVIOUS
<1> QED
    BY <1>1 DEF Step

LEMMA AboveType ==
    ASSUME NEW N, NEW p \in Seq(N)
    PROVE  Above(p) \in Seq(N) /\ Front(p) \in Seq(N)
BY DEF Above, Front

LEMMA AddType ==
    ASSUME NEW p \in Seq(Name), NEW s \in Step
    PROVE  AddAbsolute(p, s) \in Seq(Name)
BY AboveType DEF AddAbsolute, Step

LEMMA AddRelativeType ==
    ASSUME NEW p \in Seq(Name \cup {".."}), NEW s \in Step
    PROVE  AddRelative(p, s) \in Seq(Name \cup {".."})
BY AboveType DEF AddRelative, Step

\* Where walking leads.
Places == Seq(Name) \cup {Outside}

LEMMA EnterType ==
    ASSUME NEW kind, NEW at \in Places, NEW s \in Step
    PROVE  Enter(kind, at, s) \in Places
<1>1. CASE at = Outside
    BY <1>1 DEF Enter, Places
<1>2. CASE at # Outside
    BY <1>2, AboveType DEF Enter, Step, Places
<1> QED
    BY <1>1, <1>2

\* The runs of the three loops.
Resolving(f, steps, to) ==
    /\ f \in [0..to -> Seq(Name)] /\ f[0] = <<>>
    /\ \A n \in 1..to : f[n] = AddAbsolute(f[n - 1], steps[n])
Joining(f, steps, to) ==
    /\ f \in [0..to -> Seq(Name \cup {".."})] /\ f[0] = <<>>
    /\ \A n \in 1..to : f[n] = AddRelative(f[n - 1], steps[n])
Walking(f, kind, from, steps, to) ==
    /\ f \in [0..to -> Places] /\ f[0] = from
    /\ \A n \in 1..to : f[n] = Enter(kind, f[n - 1], steps[n])

LEMMA ResolveRuns ==
    ASSUME NEW steps \in Seq(Step)
    PROVE  \E f : Resolving(f, steps, Len(steps)) /\ Resolve(steps) = f[Len(steps)]
<1> PICK N : N = Len(steps)
    OBVIOUS
<1>1. N \in Nat /\ \A n \in 1..N : steps[n] \in Step
    OBVIOUS
<1> DEFINE next == [n \in 1..N |-> [p \in Seq(Name) |-> AddAbsolute(p, steps[n])]]
<1>2. next \in [1..N -> [Seq(Name) -> Seq(Name)]]
    BY <1>1, AddType
<1>3. <<>> \in Seq(Name)
    OBVIOUS
<1> HIDE DEF next
<1>4. PICK f : Runs(f, N, Seq(Name), <<>>, next)
    BY <1>1, <1>2, <1>3, Recursion
<1>5. /\ f \in [0..N -> Seq(Name)] /\ f[0] = <<>>
      /\ \A n \in 1..N : f[n] = AddAbsolute(f[n - 1], steps[n])
    <2>1. ASSUME NEW n \in 1..N PROVE f[n - 1] \in Seq(Name)
        <3>1. n - 1 \in 0..N
            BY <1>1
        <3> QED
            BY <1>4, <3>1 DEF Runs
    <2> QED
        BY <1>4, <2>1 DEF Runs, next
<1>6. f = [n \in 0..N |-> IF n = 0 THEN <<>> ELSE AddAbsolute(f[n - 1], steps[n])]
    BY <1>1, <1>5
<1> DEFINE Added[n \in 0..N] == IF n = 0 THEN <<>> ELSE AddAbsolute(Added[n - 1], steps[n])
<1>7. Added = [n \in 0..N |-> IF n = 0 THEN <<>> ELSE AddAbsolute(Added[n - 1], steps[n])]
    BY <1>6
<1>8. Resolve(steps) = Added[N]
    BY DEF Resolve
<1> HIDE DEF Added
<1> DEFINE S == {n \in 0..N : Added[n] = f[n]}
<1>9. 0 \in S
    BY <1>1, <1>6, <1>7
<1>10. ASSUME NEW n \in 1..N, n - 1 \in S PROVE n \in S
    <2>1. n \in 0..N /\ n # 0 /\ Added[n - 1] = f[n - 1]
        BY <1>1, <1>10
    <2>2. Added[n] = AddAbsolute(Added[n - 1], steps[n])
        BY <1>7, <2>1
    <2>3. f[n] = AddAbsolute(f[n - 1], steps[n])
        BY <1>6, <2>1
    <2> QED
        BY <2>1, <2>2, <2>3
<1>11. N \in S
    <2> HIDE DEF S
    <2>1. 0..N \subseteq S
        BY <1>1, <1>9, <1>10, InductionUpTo
    <2> QED
        BY <1>1, <2>1
<1>12. Resolving(f, steps, N) /\ Resolve(steps) = f[N]
    BY <1>5, <1>8, <1>11 DEF Resolving
<1> QED
    BY <1>12

LEMMA JoinRuns ==
    ASSUME NEW steps \in Seq(Step)
    PROVE  \E f : Joining(f, steps, Len(steps)) /\ Join(steps) = f[Len(steps)]
<1> PICK N : N = Len(steps)
    OBVIOUS
<1>1. N \in Nat /\ \A n \in 1..N : steps[n] \in Step
    OBVIOUS
<1> DEFINE next == [n \in 1..N |-> [p \in Seq(Name \cup {".."}) |-> AddRelative(p, steps[n])]]
<1>2. next \in [1..N -> [Seq(Name \cup {".."}) -> Seq(Name \cup {".."})]]
    BY <1>1, AddRelativeType
<1>3. <<>> \in Seq(Name \cup {".."})
    OBVIOUS
<1> HIDE DEF next
<1>4. PICK f : Runs(f, N, Seq(Name \cup {".."}), <<>>, next)
    BY <1>1, <1>2, <1>3, Recursion
<1>5. /\ f \in [0..N -> Seq(Name \cup {".."})] /\ f[0] = <<>>
      /\ \A n \in 1..N : f[n] = AddRelative(f[n - 1], steps[n])
    <2>1. ASSUME NEW n \in 1..N PROVE f[n - 1] \in Seq(Name \cup {".."})
        <3>1. n - 1 \in 0..N
            BY <1>1
        <3> QED
            BY <1>4, <3>1 DEF Runs
    <2> QED
        BY <1>4, <2>1 DEF Runs, next
<1>6. f = [n \in 0..N |-> IF n = 0 THEN <<>> ELSE AddRelative(f[n - 1], steps[n])]
    BY <1>1, <1>5
<1> DEFINE Added[n \in 0..N] == IF n = 0 THEN <<>> ELSE AddRelative(Added[n - 1], steps[n])
<1>7. Added = [n \in 0..N |-> IF n = 0 THEN <<>> ELSE AddRelative(Added[n - 1], steps[n])]
    BY <1>6
<1>8. Join(steps) = Added[N]
    BY DEF Join
<1> HIDE DEF Added
<1> DEFINE S == {n \in 0..N : Added[n] = f[n]}
<1>9. 0 \in S
    BY <1>1, <1>6, <1>7
<1>10. ASSUME NEW n \in 1..N, n - 1 \in S PROVE n \in S
    <2>1. n \in 0..N /\ n # 0 /\ Added[n - 1] = f[n - 1]
        BY <1>1, <1>10
    <2>2. Added[n] = AddRelative(Added[n - 1], steps[n])
        BY <1>7, <2>1
    <2>3. f[n] = AddRelative(f[n - 1], steps[n])
        BY <1>6, <2>1
    <2> QED
        BY <2>1, <2>2, <2>3
<1>11. N \in S
    <2> HIDE DEF S
    <2>1. 0..N \subseteq S
        BY <1>1, <1>9, <1>10, InductionUpTo
    <2> QED
        BY <1>1, <2>1
<1>12. Joining(f, steps, N) /\ Join(steps) = f[N]
    BY <1>5, <1>8, <1>11 DEF Joining
<1> QED
    BY <1>12

LEMMA WalkRuns ==
    ASSUME NEW kind, NEW from \in Places,
           NEW steps \in Seq(Step)
    PROVE  \E f : Walking(f, kind, from, steps, Len(steps)) /\ Walk(kind, from, steps) = f[Len(steps)]
<1> PICK N : N = Len(steps)
    OBVIOUS
<1>1. N \in Nat /\ \A n \in 1..N : steps[n] \in Step
    OBVIOUS
<1> DEFINE next == [n \in 1..N |-> [p \in Places |-> Enter(kind, p, steps[n])]]
<1>2. next \in [1..N -> [Places -> Places]]
    BY <1>1, EnterType
<1>3. from \in Places
    OBVIOUS
<1> HIDE DEF next
<1>4. PICK f : Runs(f, N, Places, from, next)
    BY <1>1, <1>2, <1>3, Recursion
<1>5. /\ f \in [0..N -> Places] /\ f[0] = from
      /\ \A n \in 1..N : f[n] = Enter(kind, f[n - 1], steps[n])
    <2>1. ASSUME NEW n \in 1..N PROVE f[n - 1] \in Places
        <3>1. n - 1 \in 0..N
            BY <1>1
        <3> QED
            BY <1>4, <3>1 DEF Runs
    <2> QED
        BY <1>4, <2>1 DEF Runs, next
<1>6. f = [n \in 0..N |-> IF n = 0 THEN from ELSE Enter(kind, f[n - 1], steps[n])]
    BY <1>1, <1>5
<1> DEFINE At[n \in 0..N] == IF n = 0 THEN from ELSE Enter(kind, At[n - 1], steps[n])
<1>7. At = [n \in 0..N |-> IF n = 0 THEN from ELSE Enter(kind, At[n - 1], steps[n])]
    BY <1>6
<1>8. Walk(kind, from, steps) = At[N]
    BY DEF Walk
<1> HIDE DEF At
<1> DEFINE S == {n \in 0..N : At[n] = f[n]}
<1>9. 0 \in S
    BY <1>1, <1>6, <1>7
<1>10. ASSUME NEW n \in 1..N, n - 1 \in S PROVE n \in S
    <2>1. n \in 0..N /\ n # 0 /\ At[n - 1] = f[n - 1]
        BY <1>1, <1>10
    <2>2. At[n] = Enter(kind, At[n - 1], steps[n])
        BY <1>7, <2>1
    <2>3. f[n] = Enter(kind, f[n - 1], steps[n])
        BY <1>6, <2>1
    <2> QED
        BY <2>1, <2>2, <2>3
<1>11. N \in S
    <2> HIDE DEF S
    <2>1. 0..N \subseteq S
        BY <1>1, <1>9, <1>10, InductionUpTo
    <2> QED
        BY <1>1, <2>1
<1>12. Walking(f, kind, from, steps, N) /\ Walk(kind, from, steps) = f[N]
    BY <1>5, <1>8, <1>11 DEF Walking
<1> QED
    BY <1>12

-----------------------------------------------------------------------------
(***************************************************************************)
(* What the loops make of a path that is there already, of one without a   *)
(* step upwards, and of a reference after it.                              *)
(***************************************************************************)
LEMMA AppendStep ==
    ASSUME NEW p \in Seq(Name), NEW n \in 1..Len(p)
    PROVE  /\ Append(SubSeq(p, 1, n - 1), p[n]) = SubSeq(p, 1, n)
           /\ SubSeq(p, 1, n - 1) \in Seq(Name)
OBVIOUS

LEMMA NamesAreNoDots ==
    ASSUME NEW s \in Name
    PROVE  s # "." /\ s # ".." /\ s \in Step
BY NameAssumption DEF Step

LEMMA ConcatSteps ==
    ASSUME NEW p \in Seq(Step), NEW r \in Seq(Step)
    PROVE  /\ p \o r \in Seq(Step)
           /\ Len(p) \in Nat /\ Len(r) \in Nat /\ Len(p \o r) = Len(p) + Len(r)
           /\ \A n \in 1..Len(p) : (p \o r)[n] = p[n]
           /\ \A n \in 1..Len(r) : (p \o r)[Len(p) + n] = r[n]
<1>1. /\ p \o r \in Seq(Step) /\ Len(p \o r) = Len(p) + Len(r)
      /\ \A i \in 1..(Len(p) + Len(r)) :
            (p \o r)[i] = IF i <= Len(p) THEN p[i] ELSE r[i - Len(p)]
    BY ConcatProperties
<1>2. Len(p) \in Nat /\ Len(r) \in Nat
    OBVIOUS
<1> QED
    BY <1>1, <1>2

BeginsWith(q, p) == \A n \in 1..Len(p) : q[n] = p[n]

\* A path of names is not changed.
LEMMA NamesResolved ==
    ASSUME NEW p \in Seq(Name), NEW q, NEW N \in Nat, Len(p) <= N, NEW f,
           Resolving(f, q, N), BeginsWith(q, p)
    PROVE  f[Len(p)] = p
<1> DEFINE S == {n \in 0..Len(p) : f[n] = SubSeq(p, 1, n)}
<1>1. Len(p) \in Nat /\ \A n \in 1..Len(p) : p[n] \in Name
    OBVIOUS
<1>2. 0 \in S
    BY <1>1 DEF Resolving
<1>3. ASSUME NEW n \in 1..Len(p), n - 1 \in S PROVE n \in S
    <2>1. f[n] = AddAbsolute(f[n - 1], p[n])
        BY <1>1 DEF Resolving, BeginsWith
    <2>2. f[n - 1] = SubSeq(p, 1, n - 1)
        BY <1>3
    <2>3. f[n] = Append(SubSeq(p, 1, n - 1), p[n])
        BY <1>1, <2>1, <2>2, NamesAreNoDots DEF AddAbsolute
    <2>4. f[n] = SubSeq(p, 1, n)
        BY <2>3, AppendStep
    <2> QED
        BY <1>1, <2>4
<1>4. Len(p) \in S
    <2> HIDE DEF S
    <2>1. 0..Len(p) \subseteq S
        BY <1>1, <1>2, <1>3, InductionUpTo
    <2> QED
        BY <1>1, <2>1
<1> QED
    BY <1>1, <1>4

LEMMA ResolveNames ==
    ASSUME NEW p \in Seq(Name)
    PROVE  Resolve(p) = p
<1>1. p \in Seq(Step) /\ Len(p) \in Nat
    BY DEF Step
<1>2. PICK f : Resolving(f, p, Len(p)) /\ Resolve(p) = f[Len(p)]
    BY <1>1, ResolveRuns
<1> QED
    BY <1>1, <1>2, NamesResolved DEF BeginsWith

\* In files and URLs the path of a reference is where it leads: at the root both
\* stay where they are.
LEMMA ResolveIsWalk ==
    ASSUME NEW kind \in {"local", "http"}, NEW b \in Seq(Name), NEW r \in Seq(Step)
    PROVE  /\ Resolve(b \o r) = Walk(kind, b, r)
           /\ Resolve(b \o r) \in Seq(Name)
<1>0. b \in Seq(Step)
    BY DEF Step
<1>1. /\ b \o r \in Seq(Step)
      /\ Len(b) \in Nat /\ Len(r) \in Nat /\ Len(b \o r) = Len(b) + Len(r)
      /\ \A n \in 1..Len(b) : (b \o r)[n] = b[n]
      /\ \A n \in 1..Len(r) : (b \o r)[Len(b) + n] = r[n]
    BY <1>0, ConcatSteps
<1>2. PICK f : Resolving(f, b \o r, Len(b) + Len(r)) /\ Resolve(b \o r) = f[Len(b) + Len(r)]
    BY <1>1, ResolveRuns
<1>3. PICK w : Walking(w, kind, b, r, Len(r)) /\ Walk(kind, b, r) = w[Len(r)]
    BY WalkRuns DEF Places
<1>4. f[Len(b)] = b
    <2> PICK q, N : q = b \o r /\ N = Len(b) + Len(r)
        OBVIOUS
    <2>1. /\ N \in Nat /\ Len(b) <= N /\ Resolving(f, q, N)
          /\ BeginsWith(q, b)
        BY <1>1, <1>2 DEF BeginsWith
    <2> QED
        BY <2>1, NamesResolved
<1> DEFINE S == {n \in 0..Len(r) : f[Len(b) + n] = w[n]}
<1>5. 0 \in S
    BY <1>1, <1>3, <1>4 DEF Walking
<1>6. ASSUME NEW n \in 1..Len(r), n - 1 \in S PROVE n \in S
    <2>1. /\ Len(b) + n \in 1..(Len(b) + Len(r)) /\ (Len(b) + n) - 1 = Len(b) + (n - 1)
          /\ Len(b) + (n - 1) \in 0..(Len(b) + Len(r))
        BY <1>1
    <2>2. f[Len(b) + n] = AddAbsolute(f[Len(b) + (n - 1)], r[n])
        <3>1. f[Len(b) + n] = AddAbsolute(f[(Len(b) + n) - 1], (b \o r)[Len(b) + n])
            BY <1>2, <2>1 DEF Resolving
        <3> QED
            BY <1>1, <2>1, <3>1
    <2>3. f[Len(b) + (n - 1)] = w[n - 1] /\ w[n - 1] \in Seq(Name)
        BY <1>2, <1>6, <2>1 DEF Resolving
    <2>4. w[n] = Enter(kind, w[n - 1], r[n])
        BY <1>3 DEF Walking
    <2>5. w[n] = AddAbsolute(w[n - 1], r[n])
        BY <2>3, <2>4, NameAssumption DEF Enter, AddAbsolute
    <2> QED
        BY <1>1, <2>2, <2>3, <2>5
<1>7. Len(r) \in S
    <2> HIDE DEF S
    <2>1. 0..Len(r) \subseteq S
        BY <1>1, <1>5, <1>6, InductionUpTo
    <2> QED
        BY <1>1, <2>1
<1>8. f[Len(b) + Len(r)] \in Seq(Name)
    <2>1. Len(b) + Len(r) \in 0..(Len(b) + Len(r))
        BY <1>1
    <2> QED
        BY <1>2, <2>1 DEF Resolving
<1> QED
    BY <1>2, <1>3, <1>7, <1>8

-----------------------------------------------------------------------------
(***************************************************************************)
(* In repositories.                                                        *)
(***************************************************************************)
\* Without steps upwards all three loops do the same.
LEMMA PlainSteps ==
    ASSUME NEW p \in Seq(Name), NEW s \in Name \cup {"."}
    PROVE  /\ AddRelative(p, s) = AddAbsolute(p, s)
           /\ Enter("repo", p, s) = AddAbsolute(p, s)
           /\ s \in Step
BY NamesAreNoDots, NameAssumption DEF AddRelative, AddAbsolute, Enter, Step

PlainUpTo(p, q, M) == \A n \in 1..M : p[n] \in Name \cup {"."} /\ q[n] = p[n]

LEMMA PlainJoined ==
    ASSUME NEW M \in Nat, NEW p, NEW q, PlainUpTo(p, q, M),
           NEW N \in Nat, M <= N, NEW f, Resolving(f, p, N), NEW K \in Nat, M <= K,
           NEW j, Joining(j, q, K)
    PROVE  j[M] = f[M] /\ f[M] \in Seq(Name)
<1> DEFINE S == {n \in 0..M : j[n] = f[n] /\ f[n] \in Seq(Name)}
<1>1. 0 \in S
    BY DEF Resolving, Joining
<1>2. ASSUME NEW n \in 1..M, n - 1 \in S PROVE n \in S
    <2>1. f[n] = AddAbsolute(f[n - 1], p[n]) /\ j[n] = AddRelative(j[n - 1], p[n])
        <3>1. n \in 1..N /\ n \in 1..K /\ q[n] = p[n]
            BY DEF PlainUpTo
        <3> QED
            BY <3>1 DEF Resolving, Joining
    <2>2. j[n - 1] = f[n - 1] /\ f[n - 1] \in Seq(Name) /\ p[n] \in Name \cup {"."}
        BY <1>2 DEF PlainUpTo
    <2>3. j[n] = f[n] /\ f[n] \in Seq(Name)
        BY <2>1, <2>2, PlainSteps, AddType
    <2> QED
        BY <2>3
<1> HIDE DEF S
<1>3. 0..M \subseteq S
    BY <1>1, <1>2, InductionUpTo
<1> QED
    BY <1>3 DEF S

LEMMA PlainWalked ==
    ASSUME NEW p \in Seq(Name \cup {"."})
    PROVE  Walk("repo", <<>>, p) = Resolve(p) /\ Resolve(p) \in Seq(Name)
<1>1. p \in Seq(Step) /\ Len(p) \in Nat /\ \A n \in 1..Len(p) : p[n] \in Name \cup {"."}
    BY DEF Step
<1>2. PICK f : Resolving(f, p, Len(p)) /\ Resolve(p) = f[Len(p)]
    BY <1>1, ResolveRuns
<1>3. PICK w : Walking(w, "repo", <<>>, p, Len(p)) /\ Walk("repo", <<>>, p) = w[Len(p)]
    <2>1. <<>> \in Places
        BY DEF Places
    <2> QED
        BY <1>1, <2>1, WalkRuns
<1> DEFINE S == {n \in 0..Len(p) : w[n] = f[n] /\ f[n] \in Seq(Name)}
<1>4. 0 \in S
    BY <1>1, <1>2, <1>3 DEF Resolving, Walking
<1>5. ASSUME NEW n \in 1..Len(p), n - 1 \in S PROVE n \in S
    <2>1. f[n] = AddAbsolute(f[n - 1], p[n]) /\ w[n] = Enter("repo", w[n - 1], p[n])
        BY <1>2, <1>3 DEF Resolving, Walking
    <2>2. w[n - 1] = f[n - 1] /\ f[n - 1] \in Seq(Name) /\ p[n] \in Name \cup {"."}
        BY <1>1, <1>5
    <2>3. w[n] = f[n] /\ f[n] \in Seq(Name)
        BY <2>1, <2>2, PlainSteps, AddType
    <2> QED
        BY <1>1, <2>3
<1> HIDE DEF S
<1>6. 0..Len(p) \subseteq S
    BY <1>1, <1>4, <1>5, InductionUpTo
<1>7. Len(p) \in S
    BY <1>1, <1>6
<1> QED
    BY <1>2, <1>3, <1>7 DEF S

\* Joining keeps step with walking until this leads out; then the joined path
\* begins with a step upwards, and goes on to do so.
Follows(path, at) ==
    \/ at # Outside /\ path = at /\ at \in Seq(Name)
    \/ at = Outside /\ path # <<>> /\ path[1] = ".."

LEMMA FollowsOn ==
    ASSUME NEW path \in Seq(Name \cup {".."}), NEW at \in Places, Follows(path, at),
           NEW s \in Step
    PROVE  Follows(AddRelative(path, s), Enter("repo", at, s))
<1>1. CASE at # Outside
    <2>1. path = at /\ at \in Seq(Name) /\ at # Outside
        BY <1>1 DEF Follows
    <2>2. CASE s = "."
        <3>1. AddRelative(path, s) = path /\ Enter("repo", at, s) = at
            BY <2>1, <2>2 DEF AddRelative, Enter
        <3> QED
            BY <2>1, <3>1 DEF Follows
    <2>3. CASE s = ".." /\ at = <<>>
        <3>1. AddRelative(path, s) = <<"..">> /\ Enter("repo", at, s) = Outside
            BY <2>1, <2>3 DEF AddRelative, Enter
        <3> QED
            BY <3>1 DEF Follows
    <2>4. CASE s = ".." /\ at # <<>>
        <3>1. Last(path) \in Name
            BY <2>1, <2>4 DEF Last
        <3>2. AddRelative(path, s) = Front(path) /\ Enter("repo", at, s) = Front(at)
            BY <2>1, <2>4, <3>1, NamesAreNoDots DEF AddRelative, Enter, Above
        <3>3. Front(at) \in Seq(Name)
            BY <2>1, AboveType
        <3> QED
            BY <2>1, <3>2, <3>3, NameAssumption DEF Follows
    <2>5. CASE s \in Name
        <3>1. AddRelative(path, s) = Append(path, s) /\ Enter("repo", at, s) = Append(at, s)
            BY <2>1, <2>5, NamesAreNoDots DEF AddRelative, Enter
        <3>2. Append(at, s) \in Seq(Name)
            BY <2>1, <2>5
        <3> QED
            BY <2>1, <3>1, <3>2, NameAssumption DEF Follows
    <2> QED
        BY <2>2, <2>3, <2>4, <2>5 DEF Step
<1>2. CASE at = Outside
    <2>1. path # <<>> /\ path[1] = ".." /\ Enter("repo", at, s) = Outside
        BY <1>2 DEF Follows, Enter
    <2>2. Len(path) \in Nat /\ Len(path) >= 1
        BY <2>1
    <2>3. CASE AddRelative(path, s) = Front(path) /\ Last(path) # ".."
        <3>1. Len(path) > 1
            BY <2>1, <2>2, <2>3 DEF Last
        <3>2. Len(Front(path)) = Len(path) - 1 /\ Front(path)[1] = path[1]
            BY <2>2, <3>1 DEF Front
        <3>3. Front(path) # <<>>
            BY <2>2, <3>1, <3>2
        <3> QED
            BY <1>2, <2>1, <2>3, <3>2, <3>3 DEF Follows
    <2>4. CASE AddRelative(path, s) = Append(path, s)
        <3>1. Append(path, s) # <<>> /\ Append(path, s)[1] = path[1]
            BY <2>2
        <3> QED
            BY <1>2, <2>1, <2>4, <3>1 DEF Follows
    <2>5. CASE AddRelative(path, s) = path
        BY <1>2, <2>1, <2>5 DEF Follows
    <2> QED
        BY <2>3, <2>4, <2>5 DEF AddRelative
<1> QED
    BY <1>1, <1>2

LEMMA FrontOf ==
    ASSUME NEW N, NEW p \in Seq(N), p # <<>>
    PROVE  /\ Len(p) \in Nat \ {0} /\ Front(p) \in Seq(N) /\ Len(Front(p)) = Len(p) - 1
           /\ \A n \in 1..(Len(p) - 1) : Front(p)[n] = p[n]
<1>1. Len(p) \in Nat \ {0} /\ \A i \in 1..(Len(p) - 1) : p[i] \in N
    BY EmptySeq
<1>2. /\ Front(p) \in Seq(N)
      /\ Len(Front(p)) = IF 1 <= Len(p) - 1 THEN (Len(p) - 1) - 1 + 1 ELSE 0
      /\ \A n \in 1..((Len(p) - 1) - 1 + 1) : Front(p)[n] = p[1 + n - 1]
    <2>1. 1 \in Int /\ Len(p) - 1 \in Int
        BY <1>1
    <2> QED
        BY <1>1, <2>1, SubSeqProperties DEF Front
<1>3. Len(Front(p)) = Len(p) - 1
    <2> PICK L, k : L = Len(p) /\ k = Len(Front(p))
        OBVIOUS
    <2>1. L \in Nat \ {0} /\ k = IF 1 <= L - 1 THEN (L - 1) - 1 + 1 ELSE 0
        BY <1>1, <1>2
    <2>2. k = L - 1
        BY <2>1
    <2> QED
        BY <2>2
<1>4. ASSUME NEW n \in 1..(Len(p) - 1) PROVE Front(p)[n] = p[n]
    <2>1. n \in 1..((Len(p) - 1) - 1 + 1) /\ 1 + n - 1 = n
        BY <1>1
    <2> QED
        BY <1>2, <2>1
<1> QED
    BY <1>1, <1>2, <1>3, <1>4

LEMMA FrontOfAppend ==
    ASSUME NEW N, NEW p \in Seq(N), NEW e \in N
    PROVE  /\ Front(Append(p, e)) = p /\ Append(p, e) # <<>> /\ Append(p, e) \in Seq(N)
           /\ Last(Append(p, e)) = e
BY DEF Front, Last

\* The loops end with the last step, which is a name.
LEMMA ResolveEnds ==
    ASSUME NEW p \in Seq(Step), p # <<>>, Last(p) \in Name, NEW f, Resolving(f, p, Len(p))
    PROVE  /\ f[Len(p) - 1] \in Seq(Name)
           /\ f[Len(p)] = Append(f[Len(p) - 1], Last(p))
           /\ Front(f[Len(p)]) = f[Len(p) - 1] /\ f[Len(p)] # <<>> /\ Last(f[Len(p)]) = Last(p)
<1>1. Len(p) \in 1..Len(p) /\ Len(p) - 1 \in 0..Len(p) /\ p[Len(p)] = Last(p)
    BY FrontOf DEF Last
<1>2. f[Len(p) - 1] \in Seq(Name) /\ f[Len(p)] = AddAbsolute(f[Len(p) - 1], Last(p))
    BY <1>1 DEF Resolving
<1>3. f[Len(p)] = Append(f[Len(p) - 1], Last(p))
    BY <1>2, NamesAreNoDots DEF AddAbsolute
<1> QED
    BY <1>2, <1>3, FrontOfAppend

LEMMA JoinEnds ==
    ASSUME NEW p \in Seq(Step), NEW r \in Seq(Step), r # <<>>, Last(r) \in Name
    PROVE  /\ Join(p \o r) \in Seq(Name \cup {".."}) /\ Join(p \o r) # <<>>
           /\ Last(Join(p \o r)) = Last(r)
<1> PICK q, N : q = p \o r /\ N = Len(p \o r)
    OBVIOUS
<1>1. /\ q \in Seq(Step) /\ N = Len(q) /\ N \in 1..N /\ N - 1 \in 0..N
      /\ q[N] = Last(r)
    BY ConcatSteps, FrontOf DEF Last
<1>2. PICK j : Joining(j, q, N) /\ Join(q) = j[N]
    BY <1>1, JoinRuns
<1>3. j[N - 1] \in Seq(Name \cup {".."}) /\ j[N] = AddRelative(j[N - 1], Last(r))
    BY <1>1, <1>2 DEF Joining
<1>4. j[N] = Append(j[N - 1], Last(r))
    BY <1>3, NamesAreNoDots DEF AddRelative
<1>5. /\ j[N] \in Seq(Name \cup {".."}) /\ j[N] # <<>> /\ Last(j[N]) = Last(r)
    <2> PICK N1, path, e : N1 = Name \cup {".."} /\ path = j[N - 1] /\ e = Last(r)
        OBVIOUS
    <2>1. path \in Seq(N1) /\ e \in N1 /\ j[N] = Append(path, e)
        BY <1>3, <1>4
    <2>2. Append(path, e) # <<>> /\ Append(path, e) \in Seq(N1) /\ Last(Append(path, e)) = e
        BY <2>1, FrontOfAppend
    <2> QED
        BY <2>1, <2>2
<1> QED
    BY <1>2, <1>5

\* joinRelative of a git or OCI source, against walking along.
LEMMA JoinFollows ==
    ASSUME NEW p \in Seq(Step), p # <<>>, Last(p) \in Name, Sanitized(p), NEW r \in Seq(Step)
    PROVE  Follows(Join(Front(p) \o r), Walk("repo", Front(Resolve(p)), r))
<1> PICK m, q, R : m = Len(p) - 1 /\ q = Front(p) \o r /\ R = Len(r)
    OBVIOUS
<1>1. /\ m \in Nat /\ R \in Nat /\ Len(p) = m + 1 /\ Len(q) = m + R /\ q \in Seq(Step)
      /\ \A n \in 1..m : q[n] = p[n]
      /\ \A n \in 1..R : q[m + n] = r[n]
    <2>1. /\ Len(p) \in Nat \ {0} /\ Front(p) \in Seq(Step) /\ Len(Front(p)) = m
          /\ \A n \in 1..m : Front(p)[n] = p[n]
        BY FrontOf
    <2>2. PICK s \in Seq(Step) : s = Front(p)
        BY <2>1
    <2>3. q = s \o r /\ Len(s) = m
        BY <2>1, <2>2
    <2>4. /\ s \o r \in Seq(Step) /\ Len(s \o r) = Len(s) + Len(r) /\ Len(r) \in Nat
          /\ \A n \in 1..Len(s) : (s \o r)[n] = s[n]
          /\ \A n \in 1..Len(r) : (s \o r)[Len(s) + n] = r[n]
        BY ConcatSteps
    <2>5. Len(p) = m + 1 /\ m \in Nat
        BY <2>1
    <2>6. \A n \in 1..m : q[n] = p[n]
        BY <2>1, <2>2, <2>3, <2>4
    <2> QED
        BY <2>3, <2>4, <2>5, <2>6
<1>2. \A n \in 1..m : p[n] \in Name \cup {"."}
    <2>1. \A n \in 1..m : n \in DOMAIN p /\ p[n] \in Step
        BY <1>1
    <2> QED
        BY <2>1 DEF Sanitized, Step
<1>3. PICK f : Resolving(f, p, Len(p)) /\ Resolve(p) = f[Len(p)]
    BY ResolveRuns
<1>4. f[m] \in Seq(Name) /\ Front(Resolve(p)) = f[m]
    BY <1>3, ResolveEnds
<1>5. PICK j : Joining(j, q, m + R) /\ Join(q) = j[m + R]
    <2>1. PICK j : Joining(j, q, Len(q)) /\ Join(q) = j[Len(q)]
        BY <1>1, JoinRuns
    <2> QED
        BY <1>1, <2>1
<1>6. j[m] = f[m]
    <2>1. PlainUpTo(p, q, m)
        BY <1>1, <1>2 DEF PlainUpTo
    <2>2. /\ m \in Nat /\ m + 1 \in Nat /\ m <= m + 1
          /\ m + R \in Nat /\ m <= m + R
        BY <1>1
    <2>3. Resolving(f, p, m + 1)
        BY <1>1, <1>3
    <2> QED
        BY <1>5, <2>1, <2>2, <2>3, PlainJoined
<1>7. PICK w : Walking(w, "repo", f[m], r, R) /\ Walk("repo", f[m], r) = w[R]
    <2>1. f[m] \in Places
        BY <1>4 DEF Places
    <2> QED
        BY <2>1, WalkRuns
<1> DEFINE S == {n \in 0..R : Follows(j[m + n], w[n])}
<1>8. 0 \in S
    <2>1. j[m + 0] = f[m] /\ w[0] = f[m]
        BY <1>1, <1>6, <1>7 DEF Walking
    <2> QED
        BY <1>1, <1>4, <2>1, NameAssumption DEF Follows
<1>9. ASSUME NEW n \in 1..R, n - 1 \in S PROVE n \in S
    <2>1. /\ m + n \in 1..(m + R) /\ (m + n) - 1 = m + (n - 1)
          /\ m + (n - 1) \in 0..(m + R) /\ n - 1 \in 0..R /\ r[n] \in Step
        BY <1>1
    <2>2. /\ j[m + n] = AddRelative(j[m + (n - 1)], r[n])
          /\ j[m + (n - 1)] \in Seq(Name \cup {".."})
        <3>1. q[m + n] = r[n]
            BY <1>1
        <3>2. j[m + n] = AddRelative(j[(m + n) - 1], q[m + n])
            BY <1>5, <2>1 DEF Joining
        <3>3. j[m + (n - 1)] \in Seq(Name \cup {".."})
            BY <1>5, <2>1 DEF Joining
        <3> QED
            BY <2>1, <3>1, <3>2, <3>3
    <2>3. w[n] = Enter("repo", w[n - 1], r[n]) /\ w[n - 1] \in Places
        BY <1>7, <2>1 DEF Walking
    <2>4. Follows(j[m + (n - 1)], w[n - 1])
        BY <1>9
    <2>5. Follows(j[m + n], w[n])
        BY <2>1, <2>2, <2>3, <2>4, FollowsOn
    <2> QED
        BY <1>1, <2>5
<1> HIDE DEF S
<1>10. 0..R \subseteq S
    BY <1>1, <1>8, <1>9, InductionUpTo
<1>11. Follows(j[m + R], w[R])
    <2>1. R \in S
        BY <1>1, <1>10
    <2> QED
        BY <2>1 DEF S
<1> QED
    BY <1>4, <1>5, <1>7, <1>11

-----------------------------------------------------------------------------
(***************************************************************************)
(* The invariant.                                                          *)
(***************************************************************************)
\* What a source that has not been refused can count on.
Right(s, at) ==
    /\ Sanitized(s.path)
    /\ at \in Seq(Name)
    /\ Resolve(s.path) = at
    /\ s.joined => s.path = at
    /\ s.kind # "repo" => s.joined
    /\ s.kind = "repo" => s.path # <<>> /\ Last(s.path) \in Name
    /\ s.kind = "local" => s \in Root \/ s.base = Above(s.path)

SourceType == [kind : Kinds, path : Seq(Step), base : Seq(Step), joined : BOOLEAN]

PathInv ==
    /\ source \in SourceType
    /\ place \in Places
    /\ status \in {"open", "read", "missing", "path-traversal"}
    /\ status # "path-traversal" => Right(source, place)
    /\ status = "path-traversal" => source.kind = "repo"
    /\ OutsideIsRefused

LEMMA NamesSanitized ==
    ASSUME NEW p \in Seq(Name)
    PROVE  Sanitized(p) /\ p \in Seq(Step)
<1>1. p \in Seq(Step)
    BY DEF Step
<1>2. \A i \in DOMAIN p : p[i] \in Name
    OBVIOUS
<1> QED
    BY <1>1, <1>2, NamesAreNoDots DEF Sanitized

LEMMA InvTypes == PathInv => TypeOK
BY DEF PathInv, TypeOK, SourceType, Places, Right, Sanitized

LEMMA InvWalk == PathInv => PathIsWalk
BY DEF PathInv, PathIsWalk, Right

LEMMA InitInv == Init => PathInv
<1> SUFFICES ASSUME Init PROVE PathInv
    OBVIOUS
<1>1. PICK n \in Name : source = [kind |-> "local", path |-> <<n>>, base |-> Context, joined |-> TRUE]
    BY DEF Init, Root
<1>2. <<n>> \in Seq(Name) /\ Context \in Seq(Name) /\ place = <<n>> /\ status = "read"
    BY <1>1, NameAssumption DEF Init
<1>3. source \in SourceType
    BY <1>1, <1>2, NamesSanitized DEF SourceType, Kinds
<1>4. Right(source, place)
    BY <1>1, <1>2, NamesSanitized, ResolveNames DEF Right, Init
<1> QED
    BY <1>1, <1>2, <1>3, <1>4 DEF PathInv, OutsideIsRefused, Places

LEMMA ReferenceType ==
    ASSUME NEW ref \in References
    PROVE  ref.rooted \in BOOLEAN /\ ref.steps \in Seq(Step) /\ ref.steps # <<>> /\ Last(ref.steps) \in Name
BY DEF References, SeqOf

\* After a source is chosen.
LEMMA OpenedInv ==
    ASSUME NEW s \in SourceType, Opened(s), place' \in Places,
           s.kind # "repo" => Right(s, place'),
           s.kind = "repo" /\ Sanitized(s.path) => Right(s, place'),
           s.kind = "repo" /\ ~Sanitized(s.path) /\ s.joined => place' = Outside
    PROVE  PathInv'
<1>1. source' = s /\ status' \in {"open", "path-traversal"}
    BY DEF Opened
<1>2. status' = "path-traversal" <=> s.kind = "repo" /\ ~Sanitized(s.path)
    BY DEF Opened
<1>3. OutsideIsRefused'
    BY <1>1, <1>2 DEF OutsideIsRefused, RefusedNeedlessly
<1> QED
    BY <1>1, <1>2, <1>3 DEF PathInv

LEMMA AbsoluteInv == PathInv /\ Absolute => PathInv'
<1> SUFFICES ASSUME PathInv, Absolute PROVE PathInv'
    OBVIOUS
<1>1. PICK kind \in {"http", "repo"}, ref \in References :
        /\ Opened([kind |-> kind,
                   path |-> IF kind = "http" THEN Resolve(ref.steps) ELSE ref.steps,
                   base |-> <<>>, joined |-> kind = "http"])
        /\ place' = Walk(kind, <<>>, ref.steps)
    BY DEF Absolute
<1>2. ref.steps \in Seq(Step) /\ ref.steps # <<>> /\ Last(ref.steps) \in Name
    BY ReferenceType
<1>3. place' \in Places
    <2>1. <<>> \in Places
        BY DEF Places
    <2>2. PICK w : Walking(w, kind, <<>>, ref.steps, Len(ref.steps)) /\ place' = w[Len(ref.steps)]
        BY <1>1, <1>2, <2>1, WalkRuns
    <2> QED
        BY <1>2, <2>2 DEF Walking
<1>4. CASE kind = "http"
    <2>1. PICK path : path = Resolve(ref.steps)
        OBVIOUS
    <2>2. path = place' /\ path \in Seq(Name)
        <3>1. <<>> \o ref.steps = ref.steps
            BY <1>2
        <3> QED
            BY <1>1, <1>2, <1>4, <2>1, <3>1, ResolveIsWalk, EmptySeq
    <2> PICK s : s = [kind |-> "http", path |-> path, base |-> <<>>, joined |-> TRUE]
        OBVIOUS
    <2>3. Opened(s) /\ s \in SourceType
        <3>1. Opened(s)
            BY <1>1, <1>4, <2>1
        <3>2. path \in Seq(Step) /\ <<>> \in Seq(Step)
            BY <2>2, NamesSanitized
        <3> QED
            BY <3>1, <3>2 DEF SourceType, Kinds
    <2>4. Right(s, place')
        BY <2>2, NamesSanitized, ResolveNames DEF Right
    <2> QED
        BY <1>3, <2>3, <2>4, OpenedInv
<1>5. CASE kind = "repo"
    <2> PICK s : s = [kind |-> "repo", path |-> ref.steps, base |-> <<>>, joined |-> FALSE]
        OBVIOUS
    <2>1. Opened(s) /\ s \in SourceType
        <3>1. Opened(s)
            BY <1>1, <1>5
        <3>2. <<>> \in Seq(Step)
            OBVIOUS
        <3> QED
            BY <1>2, <3>1, <3>2 DEF SourceType, Kinds
    <2>2. ASSUME Sanitized(s.path) PROVE Right(s, place')
        <3>1. ref.steps \in Seq(Name \cup {"."})
            <4>1. \A i \in 1..Len(ref.steps) : ref.steps[i] \in Name \cup {"."}
                BY <1>2, <2>2 DEF Sanitized, Step
            <4> QED
                BY <1>2, <4>1
        <3>2. place' = Resolve(ref.steps) /\ place' \in Seq(Name)
            BY <1>1, <1>5, <3>1, PlainWalked
        <3> QED
            BY <1>2, <2>2, <3>2 DEF Right
    <2> QED
        BY <1>3, <2>1, <2>2, OpenedInv
<1> QED
    BY <1>4, <1>5

\* Where a reference starts from: what the source takes for its own directory is
\* the directory of the place it is at.
LEMMA BaseIsAbove ==
    ASSUME source \in SourceType, Right(source, place)
    PROVE  /\ source.kind = "local" =>
                Base(source) = (IF source \in Root THEN Context ELSE Above(place))
           /\ source.kind = "http" => Base(source) = Above(place) /\ source \notin Root
           /\ source.kind = "repo" => Base(source) = Front(source.path) /\ source \notin Root
           /\ Above(place) \in Seq(Name) /\ Context \in Seq(Name)
<1>1. place \in Seq(Name) /\ Above(place) \in Seq(Name) /\ Context \in Seq(Name)
    BY AboveType, NameAssumption DEF Right
<1>2. source \in Root => source.kind = "local" /\ source.base = Context
    BY DEF Root
<1>3. source.kind = "local" => source.path = place
    BY DEF Right
<1>4. source.kind = "http" => source.path = place
    BY DEF Right
<1>5. source.kind = "repo" => source.path # <<>>
    BY DEF Right
<1>6. source.kind = "local" /\ source \notin Root => source.base = Above(source.path)
    BY DEF Right
<1> QED
    BY <1>1, <1>2, <1>3, <1>4, <1>5, <1>6 DEF Base, Above

LEMMA WalkType ==
    ASSUME NEW kind, NEW from \in Places, NEW steps \in Seq(Step)
    PROVE  Walk(kind, from, steps) \in Places
<1>1. PICK w : Walking(w, kind, from, steps, Len(steps)) /\ Walk(kind, from, steps) = w[Len(steps)]
    BY WalkRuns
<1>2. Len(steps) \in 0..Len(steps)
    OBVIOUS
<1> QED
    BY <1>1, <1>2 DEF Walking

From(ref) ==
    IF source.kind = "http" /\ ref.rooted THEN <<>>
    ELSE IF source \in Root THEN Context ELSE Above(place)

LEMMA RelativeInv == PathInv /\ Relative => PathInv'
<1> SUFFICES ASSUME PathInv, Relative PROVE PathInv'
    OBVIOUS
<1>1. PICK ref \in References :
        /\ Opened([kind |-> source.kind, path |-> JoinRelative(source, ref),
                   base |-> Above(JoinRelative(source, ref)), joined |-> TRUE])
        /\ place' = Walk(source.kind, From(ref), ref.steps)
    BY DEF Relative, From
<1>2. source \in SourceType /\ Right(source, place) /\ source.kind \in Kinds
    BY DEF PathInv, Relative, SourceType
<1>3. ref.steps \in Seq(Step) /\ ref.steps # <<>> /\ Last(ref.steps) \in Name
    BY ReferenceType
<1>4. From(ref) \in Seq(Name) /\ From(ref) \in Places
    BY <1>2, BaseIsAbove DEF From, Places
<1>5. place' \in Places
    BY <1>1, <1>3, <1>4, WalkType
<1> PICK path : path = JoinRelative(source, ref)
    OBVIOUS
<1> PICK s : s = [kind |-> source.kind, path |-> path, base |-> Above(path), joined |-> TRUE]
    OBVIOUS
<1>6. Opened(s)
    BY <1>1
<1>7. CASE source.kind \in {"local", "http"}
    <2>1. path = Resolve(From(ref) \o ref.steps)
        BY <1>2, <1>7, BaseIsAbove DEF JoinRelative, From
    <2>2. path = place' /\ path \in Seq(Name)
        BY <1>1, <1>3, <1>4, <1>7, <2>1, ResolveIsWalk
    <2>3. s \in SourceType
        BY <1>2, <2>2, NamesSanitized, AboveType DEF SourceType
    <2>4. Right(s, place')
        BY <1>7, <2>2, NamesSanitized, ResolveNames DEF Right
    <2> QED
        BY <1>5, <1>6, <1>7, <2>3, <2>4, OpenedInv
<1>8. CASE source.kind = "repo"
    <2>1. path = Join(Front(source.path) \o ref.steps) /\ From(ref) = Above(place)
        BY <1>2, <1>8, BaseIsAbove DEF JoinRelative, From
    <2>2. /\ source.path \in Seq(Step) /\ source.path # <<>> /\ Last(source.path) \in Name
          /\ Sanitized(source.path) /\ place = Resolve(source.path)
        BY <1>2, <1>8 DEF Right, SourceType
    <2>3. From(ref) = Front(place)
        <3>1. PICK f : Resolving(f, source.path, Len(source.path)) /\ place = f[Len(source.path)]
            BY <2>2, ResolveRuns
        <3>2. place # <<>>
            BY <2>2, <3>1, ResolveEnds
        <3> QED
            BY <2>1, <3>2 DEF Above
    <2>4. Follows(path, place')
        BY <1>1, <1>3, <1>8, <2>1, <2>2, <2>3, JoinFollows
    <2>5. path \in Seq(Name \cup {".."}) /\ path # <<>> /\ Last(path) \in Name
        <3>1. Front(source.path) \in Seq(Step)
            BY <2>2, FrontOf
        <3> QED
            BY <1>3, <2>1, <3>1, JoinEnds
    <2>6. s \in SourceType
        <3>1. path \in Seq(Step)
            BY <2>5 DEF Step
        <3> QED
            BY <1>2, <3>1, AboveType DEF SourceType
    <2>7. ASSUME Sanitized(path) PROVE Right(s, place')
        <3>1. 1 \in DOMAIN path
            BY <2>5
        <3>2. path = place' /\ place' \in Seq(Name)
            BY <2>4, <2>7, <3>1 DEF Follows, Sanitized
        <3> QED
            BY <1>8, <2>5, <2>7, <3>2, ResolveNames DEF Right
    <2>8. ASSUME ~Sanitized(path) PROVE place' = Outside
        <3>1. path \notin Seq(Name)
            BY <2>8, NamesSanitized
        <3> QED
            BY <2>4, <3>1 DEF Follows
    <2> QED
        BY <1>5, <1>6, <1>8, <2>6, <2>7, <2>8, OpenedInv
<1> QED
    BY <1>2, <1>7, <1>8 DEF Kinds

LEMMA ReadInv == PathInv /\ Read => PathInv'
<1> SUFFICES ASSUME PathInv, Read PROVE PathInv'
    OBVIOUS
<1>1. Right(source, place) /\ UNCHANGED <<source, place>>
    BY DEF PathInv, Read
<1>2. Resolve(source.path) = place /\ place \in Seq(Name) /\ place # Outside
    BY <1>1, NameAssumption DEF Right
<1>3. CASE source.kind = "repo" /\ ~Admitted(place)
    <2>1. status' = "path-traversal"
        BY <1>2, <1>3 DEF Read
    <2>2. Outside \in {place, Real(place)} \/ RefusedNeedlessly
        BY <1>3 DEF Admitted, Contained, RefusedNeedlessly
    <2>3. Outside \in {place', Real(place')} \/ RefusedNeedlessly'
        BY <1>1, <2>2 DEF RefusedNeedlessly
    <2> QED
        BY <1>1, <1>3, <2>1, <2>3 DEF PathInv, OutsideIsRefused
<1>4. CASE ~(source.kind = "repo" /\ ~Admitted(place))
    <2>1. status' = "read"
        BY <1>2, <1>4 DEF Read
    <2>2. source.kind = "repo" => Outside \notin {place, Real(place)}
        BY <1>2, <1>4 DEF Admitted, Contained
    <2> QED
        BY <1>1, <2>1, <2>2 DEF PathInv, OutsideIsRefused
<1> QED
    BY <1>3, <1>4

LEMMA NextInv == PathInv /\ [Next]_vars => PathInv'
<1> SUFFICES ASSUME PathInv, [Next]_vars PROVE PathInv'
    OBVIOUS
<1>1. CASE Missing
    BY <1>1 DEF PathInv, Missing, OutsideIsRefused
<1>2. CASE UNCHANGED vars
    BY <1>2 DEF PathInv, OutsideIsRefused, RefusedNeedlessly, vars
<1> QED
    BY <1>1, <1>2, AbsoluteInv, RelativeInv, ReadInv DEF Next

\* A source that is not refused has a path without steps upwards, and this is the
\* place the references lead to; what is refused is refused for a reason.
THEOREM PathInvariant == Spec => []PathInv
<1> QED
    BY InitInv, NextInv, PTL DEF Spec

\* sanitizeRelativePath and joinRelative: the path of a source that can still be
\* read has no step upwards, whatever it was joined from.
THEOREM TypesCorrect == Spec => []TypeOK
<1> QED
    BY PathInvariant, InvTypes, PTL

\* joinRelative: however long a chain of references and however it winds, the path
\* computed at its end is the file the references lead to, one after the other.
THEOREM PathsAreWalks == Spec => []PathIsWalk
<1> QED
    BY PathInvariant, InvWalk, PTL

\* assertContained and sanitizeRelativePath: nothing outside of a repository or an
\* artifact is read, and no reference is refused for winding through its parents.
THEOREM OutsideRefused == Spec => []OutsideIsRefused
<1>1. PathInv => OutsideIsRefused
    BY DEF PathInv
<1> QED
    BY <1>1, PathInvariant, PTL

=============================================================================
