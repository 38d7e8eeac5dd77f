------------------------- MODULE StagePipelineProofs -------------------------
(***************************************************************************)
(* What the text transformations keep, for texts of any length: lines that *)
(* no FROM separates stay together and in their order, and what is above   *)
(* every stage stays above every stage.  Only stages that are there twice  *)
(* lose lines, and only the names of stages are rewritten.                 *)
(***************************************************************************)
EXTENDS StagePipeline, SequenceTheorems, WellFoundedInduction, TLAPS

-----------------------------------------------------------------------------
(***************************************************************************)
(* Induction up to a number, in the form of sets of numbers, and the       *)
(* values of a recursive function up to it.                                *)
(***************************************************************************)
LEMMA LeastMember ==
    ASSUME NEW S \in SUBSET Nat, S # {}
    PROVE  \E n \in S : \A m \in S : n <= m
<1>1. PICK n \in S : \A m \in S : ~(<<m, n>> \in OpToRel(<, Nat))
    BY NatLessThanWellFounded, WFMin
<1>2. \A m \in S : <<m, n>> \in OpToRel(<, Nat) <=> m < n
    BY DEF OpToRel
<1>3. \A m \in S : ~(m < n)
    BY <1>1, <1>2
<1>4. \A m \in S : m \in Nat /\ n \in Nat
    OBVIOUS
<1> QED
    BY <1>3, <1>4

LEMMA InductionUpTo ==
    ASSUME NEW N \in Nat, NEW S, 0 \in S, \A n \in 1..N : n - 1 \in S => n \in S
    PROVE  0..N \subseteq S
<1> SUFFICES ASSUME ~(0..N \subseteq S) PROVE FALSE
    OBVIOUS
<1>1. (0..N) \ S \in SUBSET Nat /\ (0..N) \ S # {}
    OBVIOUS
<1>2. PICK n \in (0..N) \ S : \A m \in (0..N) \ S : n <= m
    BY <1>1, LeastMember
<1>3. n \in 1..N /\ n - 1 \in 0..N
    BY <1>2
<1>4. n - 1 \in S
    BY <1>2, <1>3
<1> QED
    BY <1>2, <1>3, <1>4

\* Finitely many numbers have a largest one.
LEMMA LargestMember ==
    ASSUME NEW N \in Nat, NEW S \in SUBSET (0..N), S # {}
    PROVE  Max(S) \in S /\ \A m \in S : m <= Max(S)
<1> DEFINE T == {N - n : n \in S}
<1>1. T \in SUBSET Nat /\ T # {}
    <2>1. \A n \in S : N - n \in Nat
        OBVIOUS
    <2>2. PICK n \in S : TRUE
        OBVIOUS
    <2>3. N - n \in T
        OBVIOUS
    <2> QED
        BY <2>1, <2>3
<1>2. PICK l \in T : \A m \in T : l <= m
    BY <1>1, LeastMember
<1>3. PICK n \in S : l = N - n
    BY <1>2
<1>4. \A m \in S : m <= n
    <2> SUFFICES ASSUME NEW m \in S PROVE m <= n
        OBVIOUS
    <2>1. l <= N - m
        BY <1>2
    <2>2. m \in Nat /\ n \in Nat
        OBVIOUS
    <2> QED
        BY <1>3, <2>1, <2>2
<1>5. \E x \in S : \A y \in S : x >= y
    BY <1>4
<1> QED
    BY <1>5 DEF Max

-----------------------------------------------------------------------------
(***************************************************************************)
(* Texts.                                                                  *)
(***************************************************************************)
IsText(t) == \E S : t \in Seq(S)

LEMMA TextType ==
    ASSUME NEW t, IsText(t)
    PROVE  Len(t) \in Nat /\ DOMAIN t = 1..Len(t) /\ t \in Seq({t[i] : i \in DOMAIN t})
<1>1. PICK S : t \in Seq(S)
    BY DEF IsText
<1>2. Len(t) \in Nat /\ DOMAIN t = 1..Len(t) /\ t \in [1..Len(t) -> S]
    BY <1>1, LenProperties
<1> DEFINE R == {t[i] : i \in DOMAIN t}
<1>3. t \in [1..Len(t) -> R]
    BY <1>2
<1> QED
    BY <1>2, <1>3

LEMMA TextOfLines ==
    ASSUME NEW n \in Nat, NEW t, t = [i \in 1..n |-> t[i]]
    PROVE  IsText(t) /\ Len(t) = n
<1> DEFINE R == {t[i] : i \in 1..n}
<1>1. t \in [1..n -> R]
    OBVIOUS
<1>2. t \in Seq(R)
    BY <1>1
<1>3. Len(t) = n
    BY <1>1, <1>2
<1> QED
    BY <1>2, <1>3 DEF IsText

LEMMA JoinedText ==
    ASSUME NEW s, NEW t, IsText(s), IsText(t)
    PROVE  /\ IsText(s \o t) /\ Len(s \o t) = Len(s) + Len(t)
           /\ \A i \in 1..Len(s) : i \in DOMAIN (s \o t) /\ (s \o t)[i] = s[i]
           /\ \A i \in 1..Len(t) : Len(s) + i \in DOMAIN (s \o t) /\ (s \o t)[Len(s) + i] = t[i]
<1>1. PICK S, T : s \in Seq(S) /\ t \in Seq(T)
    BY DEF IsText
<1>2. s \in Seq(S \cup T) /\ t \in Seq(S \cup T)
    BY <1>1, SeqMonotonic
<1>3. /\ s \o t \in Seq(S \cup T) /\ Len(s \o t) = Len(s) + Len(t)
      /\ \A i \in 1..(Len(s) + Len(t)) :
            (s \o t)[i] = IF i <= Len(s) THEN s[i] ELSE t[i - Len(s)]
    BY <1>2, ConcatProperties
<1>4. Len(s) \in Nat /\ Len(t) \in Nat /\ DOMAIN (s \o t) = 1..(Len(s) + Len(t))
    BY <1>2, <1>3, LenProperties
<1>5. \A i \in 1..Len(s) : i \in 1..(Len(s) + Len(t)) /\ i <= Len(s)
    BY <1>4
<1>6. \A i \in 1..Len(t) : /\ Len(s) + i \in 1..(Len(s) + Len(t)) /\ ~(Len(s) + i <= Len(s))
                           /\ (Len(s) + i) - Len(s) = i
    BY <1>4
<1>7. IsText(s \o t)
    BY <1>3 DEF IsText
<1> HIDE DEF IsText
<1> QED
    BY <1>3, <1>4, <1>5, <1>6, <1>7

-----------------------------------------------------------------------------
(***************************************************************************)
(* A text made of pieces, one for each line of another one.                *)
(***************************************************************************)
\* What FlattenSeq has put together of the pieces p, piece by piece.
Laid(u, p, N, S) ==
    /\ u \in [0..N -> Seq(S)] /\ u[0] = <<>>
    /\ \A n \in 1..N : u[n] = u[n - 1] \o p[n]

LEMMA LaidOn ==
    ASSUME NEW u, NEW p, NEW N \in Nat, NEW S, Laid(u, p, N, S), NEW piece \in Seq(S),
           NEW q, \A n \in 1..N : q[n] = p[n], q[N + 1] = piece
    PROVE  \E v : Laid(v, q, N + 1, S)
<1> DEFINE v == [n \in 0..(N + 1) |-> IF n = N + 1 THEN u[N] \o piece ELSE u[n]]
<1>1. u \in [0..N -> Seq(S)] /\ u[0] = <<>> /\ \A n \in 1..N : u[n] = u[n - 1] \o p[n]
    BY DEF Laid
<1>2. u[N] \o piece \in Seq(S)
    BY <1>1, ConcatProperties
<1>3. v \in [0..(N + 1) -> Seq(S)]
    <2>1. ASSUME NEW n \in 0..(N + 1), n # N + 1 PROVE u[n] \in Seq(S)
        <3>1. n \in 0..N
            BY <2>1
        <3> QED
            BY <1>1, <3>1
    <2> QED
        BY <1>2, <2>1
<1>4. v[0] = <<>>
    BY <1>1
<1>5. ASSUME NEW n \in 1..(N + 1) PROVE v[n] = v[n - 1] \o q[n]
    <2>1. CASE n = N + 1
        <3>1. n \in 0..(N + 1) /\ N \in 0..(N + 1) /\ N # N + 1 /\ n - 1 = N
            BY <2>1
        <3>2. v[n] = u[N] \o piece /\ v[N] = u[N]
            BY <2>1, <3>1
        <3> QED
            BY <2>1, <3>1, <3>2
    <2>2. CASE n # N + 1
        <3>1. n \in 1..N /\ n \in 0..(N + 1) /\ n - 1 \in 0..(N + 1) /\ n - 1 # N + 1
            BY <2>2
        <3>2. v[n] = u[n] /\ v[n - 1] = u[n - 1]
            BY <2>2, <3>1
        <3> QED
            BY <1>1, <3>1, <3>2
    <2> QED
        BY <2>1, <2>2
<1> HIDE DEF v
<1> QED
    BY <1>3, <1>4, <1>5 DEF Laid

LEMMA PiecesLaid ==
    ASSUME NEW N \in Nat, NEW S, NEW p \in [1..N -> Seq(S)]
    PROVE  \E u : Laid(u, p, N, S)
<1> DEFINE R == {n \in 0..N : \E u : Laid(u, p, n, S)}
<1>1. 0 \in R
    <2> DEFINE u == [n \in 0..0 |-> <<>>]
    <2>1. Laid(u, p, 0, S)
        BY DEF Laid
    <2> HIDE DEF u
    <2> QED
        BY <2>1
<1>2. ASSUME NEW n \in 1..N, n - 1 \in R PROVE n \in R
    <2>1. PICK u : Laid(u, p, n - 1, S)
        BY <1>2
    <2>2. n - 1 \in Nat /\ (n - 1) + 1 = n /\ p[n] \in Seq(S)
        OBVIOUS
    <2>3. \E v : Laid(v, p, (n - 1) + 1, S)
        BY <2>1, <2>2, LaidOn
    <2> QED
        BY <2>2, <2>3
<1> HIDE DEF R
<1>3. 0..N \subseteq R
    BY <1>1, <1>2, InductionUpTo
<1> QED
    BY <1>3 DEF R

LEMMA FlattenLays ==
    ASSUME NEW N \in Nat, NEW S, NEW p \in [1..N -> Seq(S)]
    PROVE  \E u : Laid(u, p, N, S) /\ FlattenSeq(p) = u[N]
<1>1. PICK u : Laid(u, p, N, S)
    BY PiecesLaid
<1>2. u \in [0..N -> Seq(S)] /\ u[0] = <<>> /\ \A n \in 1..N : u[n] = u[n - 1] \o p[n]
    BY <1>1 DEF Laid
<1>3. p \in Seq(Seq(S)) /\ Len(p) = N
    OBVIOUS
<1>4. CASE N = 0
    <2>1. p = <<>>
        BY <1>3, <1>4
    <2> QED
        BY <1>1, <1>2, <1>3, <1>4, <2>1 DEF FlattenSeq
<1>5. CASE N # 0
    <2> DEFINE flatten[i \in 1..Len(p)] == IF i = 1 THEN p[i] ELSE flatten[i - 1] \o p[i]
    <2>1. FlattenSeq(p) = flatten[N]
        BY <1>3, <1>5 DEF FlattenSeq
    <2> DEFINE w == [i \in 1..N |-> u[i]]
    <2>2. w = [i \in 1..N |-> IF i = 1 THEN p[i] ELSE w[i - 1] \o p[i]]
        <3>1. ASSUME NEW i \in 1..N
              PROVE  u[i] = IF i = 1 THEN p[i] ELSE w[i - 1] \o p[i]
            <4>1. CASE i = 1
                <5>1. 1 \in 1..N /\ 1 - 1 = 0
                    BY <4>1
                <5>2. p[1] \in Seq(S)
                    BY <5>1
                <5>3. u[1] = u[0] \o p[1] /\ u[0] = <<>>
                    BY <1>2, <5>1
                <5>4. <<>> \o p[1] = p[1]
                    BY <5>2, ConcatEmptySeq
                <5> QED
                    BY <4>1, <5>3, <5>4
            <4>2. CASE i # 1
                <5>1. i - 1 \in 1..N
                    BY <4>2
                <5> QED
                    BY <1>2, <4>2, <5>1
            <4> QED
                BY <4>1, <4>2
        <3> QED
            BY <3>1
    <2>3. flatten = [i \in 1..N |-> IF i = 1 THEN p[i] ELSE flatten[i - 1] \o p[i]]
        BY <1>3, <2>2
    <2> HIDE DEF flatten
    <2> DEFINE R == {n \in 0..N : n # 0 => flatten[n] = u[n]}
    <2>4. 0 \in R
        OBVIOUS
    <2>5. ASSUME NEW n \in 1..N, n - 1 \in R PROVE n \in R
        <3>1. CASE n = 1
            <4>1. flatten[n] = p[n] /\ w[n] = p[n] /\ w[n] = u[n]
                BY <2>2, <2>3, <3>1
            <4> QED
                BY <4>1
        <3>2. CASE n # 1
            <4>1. n - 1 \in 1..N /\ n - 1 # 0
                BY <3>2
            <4>2. flatten[n - 1] = u[n - 1]
                BY <2>5, <4>1
            <4>3. flatten[n] = flatten[n - 1] \o p[n]
                BY <2>3, <3>2
            <4>4. u[n] = u[n - 1] \o p[n]
                BY <1>2
            <4>5. flatten[n] = u[n]
                BY <4>2, <4>3, <4>4
            <4> QED
                BY <4>5
        <3> QED
            BY <3>1, <3>2
    <2> HIDE DEF R
    <2>6. 0..N \subseteq R
        BY <2>4, <2>5, InductionUpTo
    <2>7. flatten[N] = u[N]
        BY <1>5, <2>6 DEF R
    <2> QED
        BY <1>1, <2>1, <2>7
<1> QED
    BY <1>4, <1>5

\* Pieces that are laid down stay.
LEMMA LaidGrows ==
    ASSUME NEW u, NEW p, NEW N \in Nat, NEW S, Laid(u, p, N, S), p \in [1..N -> Seq(S)],
           NEW k \in 0..N
    PROVE  \A n \in k..N : /\ Len(u[k]) <= Len(u[n])
                           /\ \A j \in 1..Len(u[k]) : u[n][j] = u[k][j]
<1> DEFINE Keep(n) == Len(u[k]) <= Len(u[n]) /\ \A j \in 1..Len(u[k]) : u[n][j] = u[k][j]
           R == {n \in 0..N : n >= k => Keep(n)}
<1>1. u \in [0..N -> Seq(S)] /\ \A n \in 1..N : u[n] = u[n - 1] \o p[n]
    BY DEF Laid
<1>2. \A n \in 0..N : u[n] \in Seq(S) /\ Len(u[n]) \in Nat
    BY <1>1, LenProperties
<1>3. Keep(k)
    BY <1>2
<1>4. 0 \in R
    <2>1. 0 >= k => k = 0
        OBVIOUS
    <2> HIDE DEF Keep
    <2> QED
        BY <1>3, <2>1
<1>5. ASSUME NEW n \in 1..N, n - 1 \in R PROVE n \in R
    <2>1. CASE n <= k
        <3>1. n >= k => n = k
            BY <2>1
        <3> HIDE DEF Keep
        <3> QED
            BY <1>3, <3>1
    <2>2. CASE n > k
        <3>1. n - 1 \in 0..N /\ n - 1 >= k
            BY <2>2
        <3>2. Keep(n - 1)
            BY <1>5, <3>1
        <3>3. u[n - 1] \in Seq(S) /\ p[n] \in Seq(S) /\ u[n] = u[n - 1] \o p[n]
            BY <1>1, <3>1
        <3>4. /\ Len(u[n]) = Len(u[n - 1]) + Len(p[n]) /\ Len(p[n]) \in Nat
              /\ \A j \in 1..Len(u[n - 1]) : u[n][j] = u[n - 1][j]
            <4>1. Len(u[n - 1]) \in Nat /\ Len(p[n]) \in Nat
                BY <3>3, LenProperties
            <4>2. /\ Len(u[n]) = Len(u[n - 1]) + Len(p[n])
                  /\ \A j \in 1..(Len(u[n - 1]) + Len(p[n])) :
                        u[n][j] = IF j <= Len(u[n - 1]) THEN u[n - 1][j] ELSE p[n][j - Len(u[n - 1])]
                BY <3>3, ConcatProperties
            <4>3. \A j \in 1..Len(u[n - 1]) :
                        j \in 1..(Len(u[n - 1]) + Len(p[n])) /\ j <= Len(u[n - 1])
                BY <4>1
            <4> QED
                BY <4>1, <4>2, <4>3
        <3>5. Len(u[k]) \in Nat /\ Len(u[n - 1]) \in Nat
            BY <1>2, <3>1
        <3>6. \A j \in 1..Len(u[k]) : j \in 1..Len(u[n - 1])
            BY <3>2, <3>5
        <3>7. Len(u[k]) <= Len(u[n])
            BY <3>2, <3>4, <3>5
        <3>8. \A j \in 1..Len(u[k]) : u[n][j] = u[k][j]
            BY <3>2, <3>4, <3>6
        <3>9. Keep(n)
            BY <3>7, <3>8
        <3> HIDE DEF Keep
        <3> QED
            BY <3>9
    <2> QED
        BY <2>1, <2>2
<1> HIDE DEF R
<1>6. 0..N \subseteq R
    BY <1>4, <1>5, InductionUpTo
<1>7. \A n \in k..N : n \in 0..N /\ n >= k
    OBVIOUS
<1> QED
    BY <1>6, <1>7 DEF R

\* The lines from s to k have become one piece each.
Single(p, t, s, k) == \A i \in s..k : p[i] = <<t[i]>>

\* They are in u, d lines further down.
Moved(t, u, s, k, d) == \A i \in s..k : d + i \in 1..Len(u) /\ u[d + i] = t[i]

\* A run of lines that become one piece each is still a run.
LEMMA RunLaid ==
    ASSUME NEW N \in Nat, NEW S, NEW p \in [1..N -> Seq(S)], NEW t,
           NEW s \in 1..N, NEW k \in s..N, Single(p, t, s, k)
    PROVE  \E d \in Int : (s = 1 => d = 0) /\ Moved(t, FlattenSeq(p), s, k, d)
<1>1. PICK u : Laid(u, p, N, S) /\ FlattenSeq(p) = u[N]
    BY FlattenLays
<1>2. /\ u \in [0..N -> Seq(S)] /\ u[0] = <<>> /\ \A n \in 1..N : u[n] = u[n - 1] \o p[n]
      /\ \A n \in 0..N : u[n] \in Seq(S) /\ Len(u[n]) \in Nat
    BY <1>1, LenProperties DEF Laid
<1> DEFINE d == Len(u[s - 1]) - (s - 1)
           R == {n \in 0..N : n \in s..k => Len(u[n]) = d + n /\ u[n][d + n] = t[n]}
<1>3. /\ s - 1 \in 0..N /\ Len(u[s - 1]) \in Nat /\ d \in Int
      /\ \A i \in s..k : p[i] = <<t[i]>>
    <2>1. \A i \in s..k : p[i] = <<t[i]>>
        BY DEF Single
    <2>2. s - 1 \in 0..N
        OBVIOUS
    <2>3. Len(u[s - 1]) \in Nat
        BY <1>2, <2>2
    <2> QED
        BY <2>1, <2>2, <2>3
<1>4. ASSUME NEW n \in s..k, Len(u[n - 1]) = d + (n - 1)
      PROVE  Len(u[n]) = d + n /\ u[n][d + n] = t[n]
    <2>1. n \in 1..N /\ n - 1 \in 0..N
        OBVIOUS
    <2>2. u[n - 1] \in Seq(S) /\ p[n] \in Seq(S) /\ u[n] = u[n - 1] \o p[n] /\ p[n] = <<t[n]>>
        BY <1>2, <1>3, <2>1
    <2>3. Len(u[n - 1]) \in Nat /\ Len(p[n]) = 1 /\ p[n][1] = t[n]
        BY <1>2, <2>1, <2>2
    <2>4. /\ Len(u[n]) = Len(u[n - 1]) + 1
          /\ u[n][Len(u[n - 1]) + 1] = p[n][(Len(u[n - 1]) + 1) - Len(u[n - 1])]
        <3>1. /\ Len(u[n]) = Len(u[n - 1]) + Len(p[n])
              /\ \A j \in 1..(Len(u[n - 1]) + Len(p[n])) :
                    u[n][j] = IF j <= Len(u[n - 1]) THEN u[n - 1][j] ELSE p[n][j - Len(u[n - 1])]
            BY <2>2, ConcatProperties
        <3>2. Len(u[n - 1]) + 1 \in 1..(Len(u[n - 1]) + Len(p[n])) /\ ~(Len(u[n - 1]) + 1 <= Len(u[n - 1]))
            BY <2>3
        <3> QED
            BY <2>3, <3>1, <3>2
    <2>5. (Len(u[n - 1]) + 1) - Len(u[n - 1]) = 1 /\ Len(u[n - 1]) + 1 = d + n
        <3> HIDE DEF d
        <3> QED
            BY <1>3, <1>4, <2>3
    <2> QED
        BY <2>3, <2>4, <2>5
<1>5. Len(u[s - 1]) = d + (s - 1)
    BY <1>3
<1>6. s = 1 => d = 0
    BY <1>2
<1> HIDE DEF d
<1>7. 0 \in R
    OBVIOUS
<1>8. ASSUME NEW n \in 1..N, n - 1 \in R PROVE n \in R
    <2> SUFFICES ASSUME n \in s..k PROVE Len(u[n]) = d + n /\ u[n][d + n] = t[n]
        OBVIOUS
    <2>1. Len(u[n - 1]) = d + (n - 1)
        <3>1. CASE n = s
            BY <1>5, <3>1
        <3>2. CASE n # s
            <4>1. n - 1 \in s..k
                BY <3>2
            <4> QED
                BY <1>8, <4>1
        <3> QED
            BY <3>1, <3>2
    <2> QED
        BY <1>4, <2>1
<1> HIDE DEF R
<1>9. 0..N \subseteq R
    BY <1>7, <1>8, InductionUpTo
<1>10. ASSUME NEW i \in s..k
       PROVE  d + i \in 1..Len(FlattenSeq(p)) /\ FlattenSeq(p)[d + i] = t[i]
    <2>1. i \in 0..N /\ i - 1 \in 0..N /\ i \in 1..N
        OBVIOUS
    <2>2. Len(u[i]) = d + i /\ u[i][d + i] = t[i]
        BY <1>9, <2>1 DEF R
    <2>3. u[i] = u[i - 1] \o p[i] /\ p[i] = <<t[i]>>
        BY <1>2, <1>3, <2>1
    <2>4. Len(u[i]) \in Nat /\ Len(u[N]) \in Nat /\ Len(u[i]) >= 1
        <3>1. u[i - 1] \in Seq(S) /\ p[i] \in Seq(S)
            BY <1>2, <2>1
        <3>2. Len(u[i]) = Len(u[i - 1]) + Len(p[i]) /\ Len(u[i - 1]) \in Nat
            BY <1>2, <2>1, <2>3, <3>1, ConcatProperties
        <3>3. Len(p[i]) = 1
            BY <2>3
        <3> QED
            BY <1>2, <2>1, <3>2, <3>3
    <2>5. /\ Len(u[i]) <= Len(u[N])
          /\ \A j \in 1..Len(u[i]) : u[N][j] = u[i][j]
        <3>1. \A n \in i..N : /\ Len(u[i]) <= Len(u[n])
                              /\ \A j \in 1..Len(u[i]) : u[n][j] = u[i][j]
            BY <1>1, <2>1, LaidGrows
        <3>2. N \in i..N
            BY <2>1
        <3> QED
            BY <3>1, <3>2
    <2>6. d + i \in 1..Len(u[i]) /\ d + i \in 1..Len(u[N])
        BY <2>2, <2>4, <2>5
    <2> QED
        BY <1>1, <2>2, <2>5, <2>6
<1>11. Moved(t, FlattenSeq(p), s, k, d)
    BY <1>10 DEF Moved
<1> QED
    BY <1>3, <1>6, <1>11

-----------------------------------------------------------------------------
(***************************************************************************)
(* What a transformation keeps.  Every run of lines with no FROM in it has *)
(* its first and its last line in the new text, with no FROM in between;   *)
(* one that starts the old text starts the new one.                        *)
(***************************************************************************)
\* The same line, apart from the stage it copies from.
SameLine(a, b) ==
    IF a.op \in {"COPY", "MOUNT"} THEN b.op = a.op /\ b.raw = a.raw ELSE b = a

Together(t, s, k) ==
    s \in DOMAIN t /\ k \in DOMAIN t /\ s <= k /\ \A j \in s..k : ~IsFrom(t[j])

OnTop(t, k) == k \in DOMAIN t /\ \A j \in 1..k : ~IsFrom(t[j])

StaysTogether(t, u) ==
    \A s, k : Together(t, s, k) =>
        \E s1, k1 : Together(u, s1, k1) /\ SameLine(t[s], u[s1]) /\ SameLine(t[k], u[k1])

StaysOnTop(t, u) ==
    \A k : OnTop(t, k) => \E k1 : OnTop(u, k1) /\ SameLine(t[k], u[k1])

\* t becomes the text u.
Keeps(t, u) == IsText(u) /\ StaysTogether(t, u) /\ StaysOnTop(t, u)

LEMMA SameLineTwice ==
    ASSUME NEW a, NEW b, NEW c, SameLine(a, b), SameLine(b, c)
    PROVE  SameLine(a, c)
BY DEF SameLine

LEMMA TogetherTwice ==
    ASSUME NEW t, NEW u, NEW v, StaysTogether(t, u), StaysTogether(u, v)
    PROVE  StaysTogether(t, v)
<1> SUFFICES ASSUME NEW s, NEW k, Together(t, s, k)
             PROVE  \E s2, k2 : /\ Together(v, s2, k2)
                                /\ SameLine(t[s], v[s2]) /\ SameLine(t[k], v[k2])
    BY DEF StaysTogether
<1>1. PICK s1, k1 : Together(u, s1, k1) /\ SameLine(t[s], u[s1]) /\ SameLine(t[k], u[k1])
    BY DEF StaysTogether
<1>2. PICK s2, k2 : Together(v, s2, k2) /\ SameLine(u[s1], v[s2]) /\ SameLine(u[k1], v[k2])
    BY <1>1 DEF StaysTogether
<1>3. SameLine(t[s], v[s2]) /\ SameLine(t[k], v[k2])
    BY <1>1, <1>2, SameLineTwice
<1> QED
    BY <1>2, <1>3

LEMMA KeepsTwice ==
    ASSUME NEW t, NEW u, NEW v, Keeps(t, u), Keeps(u, v)
    PROVE  Keeps(t, v)
<1>1. StaysTogether(t, v)
    BY TogetherTwice DEF Keeps
<1>2. StaysOnTop(t, v)
    <2> SUFFICES ASSUME NEW k, OnTop(t, k)
                 PROVE  \E k2 : OnTop(v, k2) /\ SameLine(t[k], v[k2])
        BY DEF StaysOnTop
    <2>1. PICK k1 : OnTop(u, k1) /\ SameLine(t[k], u[k1])
        BY DEF Keeps, StaysOnTop
    <2>2. PICK k2 : OnTop(v, k2) /\ SameLine(u[k1], v[k2])
        BY <2>1 DEF Keeps, StaysOnTop
    <2>3. SameLine(t[k], v[k2])
        BY <2>1, <2>2, SameLineTwice
    <2> QED
        BY <2>2, <2>3
<1> QED
    BY <1>1, <1>2 DEF Keeps

LEMMA TogetherEnd ==
    ASSUME NEW t, IsText(t), NEW s, NEW k, Together(t, s, k)
    PROVE  Together(t, k, k)
<1>1. Len(t) \in Nat /\ DOMAIN t = 1..Len(t)
    BY TextType
<1>2. s \in 1..Len(t) /\ k \in 1..Len(t) /\ s <= k /\ \A j \in s..k : ~IsFrom(t[j])
    BY <1>1 DEF Together
<1>3. k \in s..k /\ \A j \in k..k : j = k
    BY <1>1, <1>2
<1> QED
    BY <1>1, <1>2, <1>3 DEF Together

\* A transformation that works line by line, and leaves alone what is no FROM.
LEMMA LinesKept ==
    ASSUME NEW t, IsText(t), NEW u, u = [i \in DOMAIN t |-> u[i]],
           \A i \in DOMAIN t : \/ IsFrom(t[i])
                               \/ ~IsFrom(u[i]) /\ SameLine(t[i], u[i])
    PROVE  Keeps(t, u)
<1>1. Len(t) \in Nat /\ DOMAIN t = 1..Len(t) /\ DOMAIN u = DOMAIN t
    BY TextType
<1>2. IsText(u)
    BY <1>1, TextOfLines
<1>3. StaysTogether(t, u)
    <2> SUFFICES ASSUME NEW s, NEW k, Together(t, s, k)
                 PROVE  Together(u, s, k) /\ SameLine(t[s], u[s]) /\ SameLine(t[k], u[k])
        BY DEF StaysTogether
    <2>1. s \in 1..Len(t) /\ k \in 1..Len(t) /\ s <= k /\ \A j \in s..k : ~IsFrom(t[j])
        BY <1>1 DEF Together
    <2>2. \A j \in s..k : j \in 1..Len(t)
        BY <1>1, <2>1
    <2>3. \A j \in s..k : ~IsFrom(u[j]) /\ SameLine(t[j], u[j])
        BY <1>1, <2>1, <2>2
    <2>4. s \in s..k /\ k \in s..k
        BY <2>1
    <2> QED
        BY <1>1, <2>1, <2>3, <2>4 DEF Together
<1>4. StaysOnTop(t, u)
    <2> SUFFICES ASSUME NEW k, OnTop(t, k)
                 PROVE  OnTop(u, k) /\ SameLine(t[k], u[k])
        BY DEF StaysOnTop
    <2>1. k \in 1..Len(t) /\ \A j \in 1..k : ~IsFrom(t[j])
        BY <1>1 DEF OnTop
    <2>2. k \in 1..k /\ \A j \in 1..k : j \in 1..Len(t)
        BY <1>1, <2>1
    <2>3. \A j \in 1..k : ~IsFrom(u[j]) /\ SameLine(t[j], u[j])
        BY <1>1, <2>1, <2>2
    <2> QED
        BY <1>1, <2>1, <2>2, <2>3 DEF OnTop
<1> QED
    BY <1>2, <1>3, <1>4 DEF Keeps

\* The stage names of an import are made its own, and the other lines stay.
LEMMA ScopeKeeps ==
    ASSUME NEW t, IsText(t), NEW prefix
    PROVE  Keeps(t, ScopeStages(t, prefix))
<1>1. PICK names : names = StageNames(Named(t))
    OBVIOUS
<1>2. ScopeStages(t, prefix) = [i \in DOMAIN t |-> ScopeLine(Named(t)[i], names, prefix)]
    BY <1>1 DEF ScopeStages, Named
<1>3. ASSUME NEW i \in DOMAIN t, ~IsFrom(t[i])
      PROVE  /\ ~IsFrom(ScopeLine(Named(t)[i], names, prefix))
             /\ SameLine(t[i], ScopeLine(Named(t)[i], names, prefix))
    <2>1. Named(t)[i] = t[i]
        BY <1>3 DEF Named
    <2>2. CASE t[i].op \in {"COPY", "MOUNT"}
        <3>1. ScopeLine(t[i], names, prefix) =
                [op |-> t[i].op, from |-> ScopeMention(t[i].from, names, prefix), raw |-> t[i].raw]
            BY <1>3, <2>2 DEF ScopeLine
        <3> QED
            BY <2>1, <2>2, <3>1 DEF SameLine, IsFrom
    <2>3. CASE t[i].op \notin {"COPY", "MOUNT"}
        <3>1. ScopeLine(t[i], names, prefix) = t[i]
            BY <1>3, <2>3 DEF ScopeLine
        <3> QED
            BY <1>3, <2>1, <2>3, <3>1 DEF SameLine
    <2> QED
        BY <2>2, <2>3
<1> DEFINE u == ScopeStages(t, prefix)
<1>4. u = [i \in DOMAIN t |-> u[i]] /\ \A i \in DOMAIN t : u[i] = ScopeLine(Named(t)[i], names, prefix)
    BY <1>2
<1> HIDE DEF u
<1>5. Keeps(t, u)
    BY <1>3, <1>4, LinesKept
<1> QED
    BY <1>5 DEF u

LEMMA SanitizeKeeps ==
    ASSUME NEW t, IsText(t)
    PROVE  Keeps(t, SanitizeStageNames(t))
<1>1. ASSUME NEW line, NEW declared, ~IsFrom(line)
      PROVE  ~IsFrom(SanitizeLine(line, declared)) /\ SameLine(line, SanitizeLine(line, declared))
    <2>1. CASE line.op = "COPY" /\ line.from \in declared
        <3>1. SanitizeLine(line, declared) = CopyLine(SanitizeStageName(line.from), line.raw)
            BY <1>1, <2>1 DEF SanitizeLine
        <3> QED
            BY <2>1, <3>1 DEF CopyLine, SameLine, IsFrom
    <2>2. CASE ~(line.op = "COPY" /\ line.from \in declared)
        <3>1. SanitizeLine(line, declared) = line
            BY <1>1, <2>2 DEF SanitizeLine
        <3> QED
            BY <1>1, <3>1 DEF SameLine
    <2> QED
        BY <2>1, <2>2
<1> DEFINE u == SanitizeStageNames(t)
           declared(i) == {t[j].as : j \in {k \in 1..(i - 1) : IsFrom(t[k])}}
<1>2. u = [i \in DOMAIN t |-> u[i]] /\ \A i \in DOMAIN t : u[i] = SanitizeLine(t[i], declared(i))
    BY DEF SanitizeStageNames
<1> HIDE DEF u, declared
<1>3. \A i \in DOMAIN t : IsFrom(t[i]) \/ (~IsFrom(u[i]) /\ SameLine(t[i], u[i]))
    BY <1>1, <1>2
<1>4. Keeps(t, u)
    BY <1>2, <1>3, LinesKept
<1> QED
    BY <1>4 DEF u

\* A run whose lines are found, in their order, further up or down.
LEMMA RunMoved ==
    ASSUME NEW t, IsText(t), NEW u, IsText(u), NEW s, NEW k, Together(t, s, k), NEW d \in Int,
           Moved(t, u, s, k, d)
    PROVE  /\ Together(u, d + s, d + k) /\ u[d + s] = t[s] /\ u[d + k] = t[k]
           /\ s = 1 /\ d = 0 => OnTop(u, k)
<1>1. s \in Nat /\ k \in Nat /\ s <= k /\ \A j \in s..k : ~IsFrom(t[j])
    <2>1. DOMAIN t = 1..Len(t) /\ Len(t) \in Nat
        BY TextType
    <2>2. s \in 1..Len(t) /\ k \in 1..Len(t) /\ s <= k /\ \A j \in s..k : ~IsFrom(t[j])
        BY <2>1 DEF Together
    <2> QED
        BY <2>1, <2>2
<1>2. DOMAIN u = 1..Len(u) /\ Len(u) \in Nat
    BY TextType
<1>3. s \in s..k /\ k \in s..k /\ \A i \in s..k : d + i \in DOMAIN u /\ u[d + i] = t[i]
    BY <1>1, <1>2 DEF Moved
<1>4. ASSUME NEW j \in (d + s)..(d + k) PROVE ~IsFrom(u[j])
    <2>1. j - d \in s..k /\ d + (j - d) = j
        BY <1>1
    <2> QED
        BY <1>1, <1>3, <2>1
<1>5. Together(u, d + s, d + k) /\ u[d + s] = t[s] /\ u[d + k] = t[k]
    BY <1>1, <1>3, <1>4 DEF Together
<1>6. ASSUME s = 1, d = 0 PROVE OnTop(u, k)
    <2>1. d + s = 1 /\ d + k = k
        BY <1>1, <1>6
    <2> QED
        BY <1>5, <2>1 DEF Together, OnTop
<1> QED
    BY <1>5, <1>6

LEMMA FlattenedText ==
    ASSUME NEW N \in Nat, NEW S, NEW p \in [1..N -> Seq(S)]
    PROVE  /\ FlattenSeq(p) \in Seq(S) /\ IsText(FlattenSeq(p))
           /\ DOMAIN FlattenSeq(p) = 1..Len(FlattenSeq(p))
<1>1. PICK u : Laid(u, p, N, S) /\ FlattenSeq(p) = u[N]
    BY FlattenLays
<1>2. FlattenSeq(p) \in Seq(S)
    BY <1>1 DEF Laid
<1> QED
    BY <1>2, LenProperties DEF IsText

\* The run from s to k is in u, d lines further down, or on top if it was there.
Shifted(t, u, s, k, d) ==
    /\ Together(u, d + s, d + k) /\ u[d + s] = t[s] /\ u[d + k] = t[k]
    /\ s = 1 => OnTop(u, k) /\ u[k] = t[k]

LEMMA RunFlattened ==
    ASSUME NEW t, IsText(t), NEW S, NEW p \in [1..Len(t) -> Seq(S)],
           NEW s, NEW k, Together(t, s, k), Single(p, t, s, k)
    PROVE  \E d \in Int : Shifted(t, FlattenSeq(p), s, k, d)
<1> PICK u : u = FlattenSeq(p)
    OBVIOUS
<1>1. Len(t) \in Nat /\ s \in 1..Len(t) /\ k \in s..Len(t)
    BY TextType DEF Together
<1>2. IsText(u) /\ DOMAIN u = 1..Len(u)
    BY <1>1, FlattenedText
<1>3. PICK d \in Int : (s = 1 => d = 0) /\ Moved(t, u, s, k, d)
    BY <1>1, RunLaid
<1>5. /\ Together(u, d + s, d + k) /\ u[d + s] = t[s] /\ u[d + k] = t[k]
      /\ s = 1 /\ d = 0 => OnTop(u, k)
    BY <1>2, <1>3, RunMoved
<1>6. s = 1 => d + k = k
    BY <1>1, <1>3
<1>7. Shifted(t, u, s, k, d)
    BY <1>3, <1>5, <1>6 DEF Shifted
<1> QED
    BY <1>7

\* Lines are put next to some of the stages.
LEMMA PiecesKept ==
    ASSUME NEW t, IsText(t), NEW S, NEW p \in [1..Len(t) -> Seq(S)],
           \A i \in DOMAIN t : ~IsFrom(t[i]) => p[i] = <<t[i]>>
    PROVE  Keeps(t, FlattenSeq(p))
<1> PICK u : u = FlattenSeq(p)
    OBVIOUS
<1>1. Len(t) \in Nat /\ DOMAIN t = 1..Len(t)
    BY TextType
<1>2. IsText(u)
    BY <1>1, FlattenedText
<1>3. \A a : SameLine(a, a)
    BY DEF SameLine
<1>4. ASSUME NEW s, NEW k, Together(t, s, k)
      PROVE  Single(p, t, s, k)
    <2>1. s \in 1..Len(t) /\ k \in 1..Len(t) /\ \A j \in s..k : ~IsFrom(t[j])
        BY <1>1, <1>4 DEF Together
    <2>2. \A i \in s..k : i \in DOMAIN t
        BY <1>1, <2>1
    <2> QED
        BY <2>1, <2>2 DEF Single
<1>5. StaysTogether(t, u)
    <2> SUFFICES ASSUME NEW s, NEW k, Together(t, s, k)
                 PROVE  \E s1, k1 : /\ Together(u, s1, k1)
                                    /\ SameLine(t[s], u[s1]) /\ SameLine(t[k], u[k1])
        BY DEF StaysTogether
    <2>1. PICK d \in Int : Together(u, d + s, d + k) /\ u[d + s] = t[s] /\ u[d + k] = t[k]
        BY <1>4, RunFlattened DEF Shifted
    <2> QED
        BY <1>3, <2>1
<1>6. StaysOnTop(t, u)
    <2> SUFFICES ASSUME NEW k, OnTop(t, k)
                 PROVE  OnTop(u, k) /\ SameLine(t[k], u[k])
        BY DEF StaysOnTop
    <2>1. Together(t, 1, k)
        BY <1>1 DEF OnTop, Together
    <2>2. OnTop(u, k) /\ u[k] = t[k]
        BY <1>4, <2>1, RunFlattened DEF Shifted
    <2> QED
        BY <1>3, <2>2
<1> QED
    BY <1>2, <1>5, <1>6 DEF Keeps

LEMMA AliasKeeps ==
    ASSUME NEW t, IsText(t), NEW ctx
    PROVE  Keeps(t, WithAlias(t, ctx))
<1> DEFINE asked(i) == ctx.alias # NoName /\ i \in Targets(t, ctx)
           S == {t[i] : i \in DOMAIN t} \cup {FromLine(t[i].as, ctx.alias) : i \in DOMAIN t}
           p == [i \in DOMAIN t |-> IF asked(i) THEN <<t[i], FromLine(t[i].as, ctx.alias)>>
                                    ELSE <<t[i]>>]
<1>1. Len(t) \in Nat /\ DOMAIN t = 1..Len(t)
    BY TextType
<1>2. \A i \in DOMAIN t : t[i] \in S /\ FromLine(t[i].as, ctx.alias) \in S
    OBVIOUS
<1>3. \A i \in DOMAIN t : ~IsFrom(t[i]) => ~asked(i)
    BY DEF Targets
<1>4. WithAlias(t, ctx) = FlattenSeq(p)
    BY DEF WithAlias
<1> HIDE DEF asked, S
<1>5. p \in [1..Len(t) -> Seq(S)]
    BY <1>1, <1>2
<1>6. \A i \in DOMAIN t : ~IsFrom(t[i]) => p[i] = <<t[i]>>
    BY <1>3
<1> HIDE DEF p
<1>7. Keeps(t, FlattenSeq(p))
    BY <1>1, <1>5, <1>6, PiecesKept
<1> QED
    BY <1>4, <1>7

-----------------------------------------------------------------------------
(***************************************************************************)
(* Dropping the stages that are there twice.                               *)
(***************************************************************************)
LEMMA CutFacts ==
    ASSUME NEW t, IsText(t), NEW i \in DOMAIN t
    PROVE  /\ CutOf(t, i) \in Cuts(t) /\ CutOf(t, i) <= i
           /\ \A c \in Cuts(t) : c <= i => c <= CutOf(t, i)
<1> DEFINE S == {c \in Cuts(t) : c <= i}
<1>1. Len(t) \in Nat /\ DOMAIN t = 1..Len(t) /\ i \in 1..Len(t)
    BY TextType
<1>2. Cuts(t) \subseteq 1..Len(t) /\ 1 \in Cuts(t)
    <2>1. 1 \in DOMAIN t
        BY <1>1
    <2> QED
        BY <1>1, <2>1 DEF Cuts
<1>3. S \in SUBSET (0..Len(t)) /\ S # {}
    <2>1. 1 \in S
        BY <1>1, <1>2
    <2> QED
        BY <1>1, <1>2, <2>1
<1>4. CutOf(t, i) = Max(S)
    BY DEF CutOf
<1>5. Max(S) \in S /\ \A m \in S : m <= Max(S)
    <2> HIDE DEF S
    <2> QED
        BY <1>1, <1>3, LargestMember
<1> QED
    BY <1>4, <1>5

\* The lines from a cut to the last one that belongs to it belong to it.
LEMMA SameCut ==
    ASSUME NEW t, IsText(t), NEW c \in Cuts(t), NEW e \in DOMAIN t,
           \A j \in (c + 1)..e : ~IsFrom(t[j]), NEW i \in c..e
    PROVE  i \in DOMAIN t /\ CutOf(t, i) = c
<1>1. Len(t) \in Nat /\ DOMAIN t = 1..Len(t) /\ c \in DOMAIN t
    BY TextType DEF Cuts
<1>2. i \in DOMAIN t /\ c <= i
    BY <1>1
<1>3. CutOf(t, i) \in Cuts(t) /\ CutOf(t, i) <= i /\ c <= CutOf(t, i)
    BY <1>2, CutFacts
<1>4. CutOf(t, i) \in DOMAIN t /\ (CutOf(t, i) = 1 \/ IsFrom(t[CutOf(t, i)]))
    BY <1>3 DEF Cuts
<1>5. ~(CutOf(t, i) \in (c + 1)..e)
    <2>1. CASE CutOf(t, i) = 1
        BY <1>1, <2>1
    <2>2. CASE IsFrom(t[CutOf(t, i)])
        BY <2>2
    <2> QED
        BY <1>4, <2>1, <2>2
<1> QED
    BY <1>1, <1>2, <1>3, <1>4, <1>5

\* A block reaches from its cut to the line before the next one.
LEMMA BlockFacts ==
    ASSUME NEW t, IsText(t), NEW c \in Cuts(t)
    PROVE  \E e \in Int :
               /\ e \in DOMAIN t /\ Block(t, c) = SubSeq(t, c, e)
               /\ c <= e /\ \A j \in (c + 1)..e : ~IsFrom(t[j])
               /\ \A i \in DOMAIN t : CutOf(t, i) = c => i <= e
<1> DEFINE S == {i \in c..Len(t) : CutOf(t, i) = c}
<1>1. Len(t) \in Nat /\ DOMAIN t = 1..Len(t) /\ c \in 1..Len(t)
    BY TextType DEF Cuts
<1>2. CutOf(t, c) = c
    <2>1. CutOf(t, c) <= c /\ c <= CutOf(t, c) /\ CutOf(t, c) \in Cuts(t)
        BY <1>1, CutFacts
    <2>2. CutOf(t, c) \in DOMAIN t
        BY <2>1 DEF Cuts
    <2> QED
        BY <1>1, <2>1, <2>2
<1>3. c \in S /\ S \in SUBSET (0..Len(t))
    BY <1>1, <1>2
<1> PICK e : e = Max(S)
    OBVIOUS
<1>4. e \in S /\ \A m \in S : m <= e
    <2> HIDE DEF S
    <2> QED
        BY <1>1, <1>3, LargestMember
<1>5. Block(t, c) = SubSeq(t, c, e)
    BY DEF Block
<1>6. e \in Int /\ e \in DOMAIN t /\ c <= e /\ CutOf(t, e) = c
    BY <1>1, <1>4
<1>7. ASSUME NEW j \in (c + 1)..e PROVE ~IsFrom(t[j])
    <2>1. j \in DOMAIN t /\ j <= e /\ ~(j <= c)
        BY <1>1, <1>6
    <2>2. j \in Cuts(t) => j <= CutOf(t, e)
        BY <1>6, <2>1, CutFacts
    <2> QED
        BY <1>6, <2>1, <2>2 DEF Cuts
<1>8. ASSUME NEW i \in DOMAIN t, CutOf(t, i) = c PROVE i <= e
    <2>1. c <= i
        BY <1>8, CutFacts
    <2>2. i \in S
        BY <1>1, <1>8, <2>1
    <2> QED
        BY <1>4, <2>2
<1> QED
    BY <1>5, <1>6, <1>7, <1>8

\* Equal blocks have the same lines in the same places.
LEMMA SameBlock ==
    ASSUME NEW c \in Int, NEW e \in Int, NEW c1 \in Int, NEW e1 \in Int, NEW t, IsText(t),
           c \in DOMAIN t, e \in DOMAIN t, c <= e, c1 \in DOMAIN t, e1 \in DOMAIN t, c1 <= e1,
           SubSeq(t, c, e) = SubSeq(t, c1, e1)
    PROVE  e1 = (c1 - c) + e /\ \A i \in c..e : t[(c1 - c) + i] = t[i]
<1>1. PICK S : t \in Seq(S)
    BY DEF IsText
<1>2. Len(t) \in Nat /\ DOMAIN t = 1..Len(t) /\ \A i \in 1..Len(t) : t[i] \in S
    BY <1>1, LenProperties
<1>3. ASSUME NEW a \in DOMAIN t, NEW b \in DOMAIN t, a <= b
      PROVE  /\ Len(SubSeq(t, a, b)) = b - a + 1
             /\ \A i \in 1..(b - a + 1) : SubSeq(t, a, b)[i] = t[a + i - 1]
    <2>1. a \in Int /\ b \in Int /\ \A i \in a..b : t[i] \in S
        BY <1>2, <1>3
    <2>2. /\ Len(SubSeq(t, a, b)) = IF a <= b THEN b - a + 1 ELSE 0
          /\ \A i \in 1..(b - a + 1) : SubSeq(t, a, b)[i] = t[a + i - 1]
        BY <2>1, SubSeqProperties
    <2> QED
        BY <1>3, <2>2
<1>4. e - c + 1 = e1 - c1 + 1
    BY <1>3
<1>5. e1 = (c1 - c) + e
    BY <1>4
<1>6. ASSUME NEW i \in c..e PROVE t[(c1 - c) + i] = t[i]
    <2> DEFINE j == i - c + 1
    <2>1. j \in 1..(e - c + 1) /\ j \in 1..(e1 - c1 + 1) /\ c + j - 1 = i /\ c1 + j - 1 = (c1 - c) + i
        BY <1>4
    <2> HIDE DEF j
    <2>2. SubSeq(t, c, e)[j] = t[c + j - 1] /\ SubSeq(t, c1, e1)[j] = t[c1 + j - 1]
        BY <1>3, <2>1
    <2> QED
        BY <2>1, <2>2
<1> QED
    BY <1>5, <1>6

\* A run of lines is in one block, whose first copy is never dropped.
LEMMA RunStays ==
    ASSUME NEW t, IsText(t), NEW s, NEW k, Together(t, s, k)
    PROVE  \E d \in Int :
               /\ Together(t, d + s, d + k) /\ t[d + s] = t[s] /\ t[d + k] = t[k]
               /\ \A i \in (d + s)..(d + k) : i \in DOMAIN t /\ ~Repeated(t, CutOf(t, i))
               /\ s = 1 => d = 0
<1>1. Len(t) \in Nat /\ DOMAIN t = 1..Len(t)
    BY TextType
<1>2. s \in 1..Len(t) /\ k \in 1..Len(t) /\ s <= k /\ \A j \in s..k : ~IsFrom(t[j])
    BY <1>1 DEF Together
<1>c. PICK c \in Int : c = CutOf(t, s)
    <2>1. CutOf(t, s) \in 1..Len(t)
        BY <1>1, <1>2, CutFacts DEF Cuts
    <2> QED
        BY <1>1, <2>1
<1>3. c \in Cuts(t) /\ c <= s /\ c \in DOMAIN t
    BY <1>1, <1>2, <1>c, CutFacts DEF Cuts
<1>4. CutOf(t, k) = c
    <2>1. CutOf(t, k) \in Cuts(t) /\ CutOf(t, k) <= k /\ c <= CutOf(t, k)
        BY <1>1, <1>2, <1>3, CutFacts
    <2>2. CutOf(t, k) <= s
        <3>1. CutOf(t, k) \in 1..Len(t) /\ (CutOf(t, k) = 1 \/ IsFrom(t[CutOf(t, k)]))
            BY <1>1, <2>1 DEF Cuts
        <3>2. ~(CutOf(t, k) \in (s + 1)..k)
            <4>1. CASE CutOf(t, k) = 1
                BY <1>2, <4>1
            <4>2. CASE IsFrom(t[CutOf(t, k)])
                BY <1>2, <4>2
            <4> QED
                BY <3>1, <4>1, <4>2
        <3> QED
            BY <1>2, <2>1, <3>1, <3>2
    <2>3. CutOf(t, k) <= c
        BY <1>1, <1>2, <1>c, <2>1, <2>2, CutFacts
    <2> QED
        BY <1>1, <1>3, <2>1, <2>3 DEF Cuts
<1> DEFINE Same == {b \in Cuts(t) : Block(t, b) = Block(t, c)}
<1>5. Same \in SUBSET Nat /\ c \in Same
    BY <1>1, <1>3 DEF Cuts
<1>6. PICK b \in Int : b \in Same /\ \A m \in Same : b <= m
    <2> HIDE DEF Same
    <2>1. Same # {}
        BY <1>5
    <2>2. \E b \in Same : \A m \in Same : b <= m
        BY <1>5, <2>1, LeastMember
    <2> QED
        BY <1>5, <2>2
<1>7. b \in Cuts(t) /\ b \in DOMAIN t /\ Block(t, b) = Block(t, c)
    BY <1>6 DEF Cuts
<1>8. ~Repeated(t, b)
    <2> SUFFICES ASSUME NEW a \in Cuts(t), a < b, Block(t, a) = Block(t, b) PROVE FALSE
        BY DEF Repeated
    <2>1. a \in Same
        BY <1>7
    <2>2. b <= a
        BY <1>6, <2>1
    <2>3. a \in Int /\ b \in Int
        BY <1>1, <1>7 DEF Cuts
    <2> QED
        BY <2>2, <2>3
<1>9. PICK e \in Int :
        /\ e \in DOMAIN t /\ Block(t, c) = SubSeq(t, c, e) /\ c <= e
        /\ \A i \in DOMAIN t : CutOf(t, i) = c => i <= e
    BY <1>3, BlockFacts
<1>10. PICK e1 \in Int :
        /\ e1 \in DOMAIN t /\ Block(t, b) = SubSeq(t, b, e1) /\ b <= e1
        /\ \A j \in (b + 1)..e1 : ~IsFrom(t[j])
    BY <1>7, BlockFacts
<1>11. e1 = (b - c) + e /\ \A i \in c..e : t[(b - c) + i] = t[i]
    BY <1>3, <1>7, <1>9, <1>10, SameBlock
<1> DEFINE d == b - c
<1>12. b \in Int /\ c \in Int /\ e \in Int /\ s \in Int /\ k \in Int /\ e1 \in Int /\ d \in Int
    BY <1>1, <1>2, <1>3, <1>7
<1>13. k <= e
    BY <1>1, <1>2, <1>4, <1>9
<1>14. \A i \in s..k : i \in c..e /\ d + i \in b..e1
    BY <1>2, <1>3, <1>11, <1>12, <1>13
<1>15. \A i \in b..e1 : i \in DOMAIN t /\ CutOf(t, i) = b
    BY <1>7, <1>10, SameCut
<1>16. \A i \in (d + s)..(d + k) : i \in DOMAIN t /\ ~Repeated(t, CutOf(t, i))
    <2> SUFFICES ASSUME NEW i \in (d + s)..(d + k)
                 PROVE  i \in DOMAIN t /\ ~Repeated(t, CutOf(t, i))
        OBVIOUS
    <2>1. i \in b..e1
        BY <1>2, <1>3, <1>11, <1>12, <1>13
    <2>2. i \in DOMAIN t /\ CutOf(t, i) = b
        BY <1>15, <2>1
    <2> QED
        BY <1>8, <2>2
<1>17. Moved(t, t, s, k, d)
    <2> SUFFICES ASSUME NEW i \in s..k PROVE d + i \in 1..Len(t) /\ t[d + i] = t[i]
        BY DEF Moved
    <2>1. i \in c..e /\ d + i \in b..e1
        BY <1>14
    <2>2. d + i \in DOMAIN t
        BY <1>15, <2>1
    <2>3. t[d + i] = t[i]
        BY <1>11, <2>1
    <2> QED
        BY <1>1, <2>2, <2>3
<1>18. s = 1 => d = 0
    <2> SUFFICES ASSUME s = 1 PROVE d = 0
        OBVIOUS
    <2>1. c = 1
        BY <1>1, <1>3
    <2>2. b <= c /\ b >= 1
        BY <1>1, <1>5, <1>6, <1>7
    <2> QED
        BY <1>12, <2>1, <2>2
<1> HIDE DEF d
<1>19. Together(t, d + s, d + k) /\ t[d + s] = t[s] /\ t[d + k] = t[k]
    BY <1>12, <1>17, RunMoved
<1> QED
    BY <1>12, <1>16, <1>18, <1>19

LEMMA LinesAtText ==
    ASSUME NEW t, IsText(t), NEW kept, NEW S, \A i \in DOMAIN t : i \in kept => t[i] \in S
    PROVE  LinesAt(t, kept) \in Seq(S) /\ IsText(LinesAt(t, kept))
<1> DEFINE p == [i \in DOMAIN t |-> IF i \in kept THEN <<t[i]>> ELSE <<>>]
<1>1. Len(t) \in Nat /\ DOMAIN t = 1..Len(t)
    BY TextType
<1>2. p \in [1..Len(t) -> Seq(S)]
    BY <1>1
<1>3. LinesAt(t, kept) = FlattenSeq(p)
    BY DEF LinesAt
<1> HIDE DEF p
<1> QED
    BY <1>1, <1>2, <1>3, FlattenedText

\* A run all of whose lines are kept is still one.
LEMMA RunKept ==
    ASSUME NEW t, IsText(t), NEW kept, NEW s, NEW k, Together(t, s, k),
           \A i \in s..k : i \in DOMAIN t /\ i \in kept
    PROVE  \E d \in Int : Shifted(t, LinesAt(t, kept), s, k, d)
<1> DEFINE S == {t[i] : i \in DOMAIN t}
           p == [i \in DOMAIN t |-> IF i \in kept THEN <<t[i]>> ELSE <<>>]
<1>1. Len(t) \in Nat /\ DOMAIN t = 1..Len(t)
    BY TextType
<1>2. p \in [1..Len(t) -> Seq(S)]
    <2>1. \A i \in DOMAIN t : t[i] \in S
        OBVIOUS
    <2> HIDE DEF S
    <2> QED
        BY <1>1, <2>1
<1>3. LinesAt(t, kept) = FlattenSeq(p)
    BY DEF LinesAt
<1>4. Single(p, t, s, k)
    BY DEF Single
<1> HIDE DEF p, S
<1> QED
    BY <1>1, <1>2, <1>3, <1>4, RunFlattened

\* deduplicateStages loses no lines but those of a stage that is there before.
LEMMA DeduplicateKeeps ==
    ASSUME NEW t, IsText(t)
    PROVE  Keeps(t, DeduplicateStages(t))
<1> PICK kept : kept = {i \in DOMAIN t : ~Repeated(t, CutOf(t, i))}
    OBVIOUS
<1> PICK u : u = LinesAt(t, kept)
    OBVIOUS
<1>1. DeduplicateStages(t) = u
    BY DEF DeduplicateStages
<1>2. IsText(u)
    <2>1. \A i \in DOMAIN t : i \in kept => t[i] \in {t[j] : j \in DOMAIN t}
        OBVIOUS
    <2> QED
        BY <2>1, LinesAtText
<1>3. \A a : SameLine(a, a)
    BY DEF SameLine
<1>4. Len(t) \in Nat /\ DOMAIN t = 1..Len(t)
    BY TextType
<1>5. ASSUME NEW s, NEW k, Together(t, s, k)
      PROVE  \E d \in Int : Shifted(t, u, s, k, d)
    <2>1. PICK b \in Int :
            /\ Together(t, b + s, b + k) /\ t[b + s] = t[s] /\ t[b + k] = t[k]
            /\ \A i \in (b + s)..(b + k) : i \in DOMAIN t /\ ~Repeated(t, CutOf(t, i))
            /\ s = 1 => b = 0
        BY <1>5, RunStays
    <2>2. \A i \in (b + s)..(b + k) : i \in DOMAIN t /\ i \in kept
        BY <2>1
    <2>3. PICK d \in Int : Shifted(t, u, b + s, b + k, d)
        BY <2>1, <2>2, RunKept
    <2>4. s \in Int /\ k \in Int
        BY <1>4, <1>5 DEF Together
    <2>5. /\ (d + b) + s = d + (b + s) /\ (d + b) + k = d + (b + k) /\ d + b \in Int
          /\ s = 1 => b + s = 1 /\ b + k = k
        BY <2>1, <2>4
    <2>6. Shifted(t, u, s, k, d + b)
        BY <2>1, <2>3, <2>5 DEF Shifted
    <2> QED
        BY <2>5, <2>6
<1>6. StaysTogether(t, u)
    BY <1>3, <1>5 DEF StaysTogether, Shifted
<1>7. StaysOnTop(t, u)
    <2> SUFFICES ASSUME NEW k, OnTop(t, k)
                 PROVE  OnTop(u, k) /\ SameLine(t[k], u[k])
        BY DEF StaysOnTop
    <2>1. Together(t, 1, k)
        BY <1>4 DEF OnTop, Together
    <2>2. OnTop(u, k) /\ u[k] = t[k]
        BY <1>5, <2>1 DEF Shifted
    <2> QED
        BY <1>3, <2>2
<1> QED
    BY <1>1, <1>2, <1>6, <1>7 DEF Keeps

\* postProcessDockerfile renames, repeats and drops stages, and does nothing else
\* to the lines: those of a stage, and those above the first one, stay together,
\* in their order and under the same stage.
THEOREM PostProcessKeeps ==
    ASSUME NEW t, IsText(t), NEW ctx
    PROVE  Keeps(t, PostProcess(t, ctx))
<1> PICK scoped : scoped = Scoped(t, ctx)
    OBVIOUS
<1> PICK aliased : aliased = WithAlias(scoped, ctx)
    OBVIOUS
<1> PICK result : result = DeduplicateStages(aliased)
    OBVIOUS
<1>1. Keeps(t, scoped)
    <2>1. \A a : SameLine(a, a)
        BY DEF SameLine
    <2>2. Keeps(t, t)
        BY <2>1 DEF Keeps, StaysTogether, StaysOnTop
    <2> QED
        BY <2>2, ScopeKeeps DEF Scoped
<1>2. IsText(scoped)
    BY <1>1 DEF Keeps
<1>3. Keeps(scoped, aliased)
    BY <1>2, AliasKeeps
<1>4. IsText(aliased)
    BY <1>3 DEF Keeps
<1>5. Keeps(aliased, result)
    BY <1>4, DeduplicateKeeps
<1>6. IsText(result)
    BY <1>5 DEF Keeps
<1>7. Keeps(result, SanitizeStageNames(result))
    BY <1>6, SanitizeKeeps
<1>8. Keeps(t, result)
    BY <1>1, <1>3, <1>5, KeepsTwice
<1>9. Keeps(t, SanitizeStageNames(result))
    BY <1>7, <1>8, KeepsTwice
<1>10. PostProcess(t, ctx) =
        IF ctx.isRootFile \/ ctx.isRootInclude THEN SanitizeStageNames(result) ELSE result
    BY DEF PostProcess
<1> QED
    BY <1>8, <1>9, <1>10

-----------------------------------------------------------------------------
(***************************************************************************)
(* Texts put together.                                                     *)
(***************************************************************************)
LEMMA KeptBefore ==
    ASSUME NEW t, IsText(t), NEW v, IsText(v)
    PROVE  Keeps(t, t \o v)
<1> PICK u : u = t \o v
    OBVIOUS
<1>1. Len(t) \in Nat /\ DOMAIN t = 1..Len(t)
    BY TextType
<1>2. IsText(u) /\ DOMAIN u = 1..Len(u)
    BY JoinedText, TextType
<1>3. \A i \in 1..Len(t) : i \in DOMAIN u /\ u[i] = t[i]
    BY JoinedText
<1>4. \A a : SameLine(a, a)
    BY DEF SameLine
<1>5. ASSUME NEW s, NEW k, Together(t, s, k)
      PROVE  Together(u, s, k) /\ u[s] = t[s] /\ u[k] = t[k]
    <2>1. s \in 1..Len(t) /\ k \in 1..Len(t) /\ s <= k /\ \A j \in s..k : ~IsFrom(t[j])
        BY <1>1, <1>5 DEF Together
    <2>2. \A j \in s..k : j \in 1..Len(t)
        BY <1>1, <2>1
    <2>3. \A j \in s..k : ~IsFrom(u[j])
        BY <1>3, <2>1, <2>2
    <2> QED
        BY <1>3, <2>1, <2>3 DEF Together
<1>6. StaysTogether(t, u)
    BY <1>4, <1>5 DEF StaysTogether
<1>7. StaysOnTop(t, u)
    <2> SUFFICES ASSUME NEW k, OnTop(t, k)
                 PROVE  OnTop(u, k) /\ SameLine(t[k], u[k])
        BY DEF StaysOnTop
    <2>1. Together(t, 1, k)
        BY <1>1 DEF OnTop, Together
    <2>2. Together(u, 1, k) /\ u[k] = t[k]
        BY <1>5, <2>1
    <2> QED
        BY <1>4, <2>2 DEF OnTop, Together
<1> QED
    BY <1>2, <1>6, <1>7 DEF Keeps

LEMMA KeptAfter ==
    ASSUME NEW t, IsText(t), NEW v, IsText(v)
    PROVE  IsText(v \o t) /\ StaysTogether(t, v \o t)
<1> PICK u : u = v \o t
    OBVIOUS
<1>1. Len(v) \in Nat /\ IsText(u) /\ DOMAIN u = 1..Len(u)
    BY JoinedText, TextType
<1>2. \A i \in 1..Len(t) : Len(v) + i \in DOMAIN u /\ u[Len(v) + i] = t[i]
    BY JoinedText
<1>3. \A a : SameLine(a, a)
    BY DEF SameLine
<1>4. ASSUME NEW s, NEW k, Together(t, s, k)
      PROVE  /\ Together(u, Len(v) + s, Len(v) + k)
             /\ u[Len(v) + s] = t[s] /\ u[Len(v) + k] = t[k]
    <2>1. s \in 1..Len(t) /\ k \in 1..Len(t) /\ Len(t) \in Nat
        BY <1>4, TextType DEF Together
    <2>2. \A j \in s..k : j \in 1..Len(t)
        BY <2>1
    <2>3. Moved(t, u, s, k, Len(v))
        BY <1>1, <1>2, <2>2 DEF Moved
    <2>4. Len(v) \in Int
        BY <1>1
    <2>5. Together(u, Len(v) + s, Len(v) + k)
        BY <1>1, <1>4, <2>3, <2>4, RunMoved
    <2>6. u[Len(v) + s] = t[s] /\ u[Len(v) + k] = t[k]
        BY <1>2, <2>1
    <2> QED
        BY <2>5, <2>6
<1>5. StaysTogether(t, u)
    <2> SUFFICES ASSUME NEW s, NEW k, Together(t, s, k)
                 PROVE  \E s1, k1 : /\ Together(u, s1, k1)
                                    /\ SameLine(t[s], u[s1]) /\ SameLine(t[k], u[k1])
        BY DEF StaysTogether
    <2>1. /\ Together(u, Len(v) + s, Len(v) + k)
          /\ u[Len(v) + s] = t[s] /\ u[Len(v) + k] = t[k]
        BY <1>4
    <2>2. SameLine(t[s], u[Len(v) + s]) /\ SameLine(t[k], u[Len(v) + k])
        BY <1>3, <2>1
    <2> QED
        BY <2>1, <2>2
<1> QED
    BY <1>1, <1>5

-----------------------------------------------------------------------------
(***************************************************************************)
(* The ARGs that are repeated at the top.                                  *)
(***************************************************************************)
LEMMA HoistedAreArgs ==
    ASSUME NEW t, IsText(t)
    PROVE  /\ IsText(HoistedArgs(t))
           /\ \A i \in DOMAIN HoistedArgs(t) : HoistedArgs(t)[i].op = "ARG"
<1> PICK kept : kept = {i \in ImportedArgs(t) :
                            ~\E j \in ImportedArgs(t) : j < i /\ t[j] = t[i]}
    OBVIOUS
<1> DEFINE S == {line \in {t[i] : i \in DOMAIN t} : line.op = "ARG"}
<1>1. HoistedArgs(t) = LinesAt(t, kept)
    BY DEF HoistedArgs
<1>2. \A i \in DOMAIN t : i \in kept => t[i] \in S
    BY DEF ImportedArgs
<1>3. \A line \in S : line.op = "ARG"
    OBVIOUS
<1> HIDE DEF S
<1>4. HoistedArgs(t) \in Seq(S) /\ IsText(HoistedArgs(t))
    BY <1>1, <1>2, LinesAtText
<1>5. \A i \in DOMAIN HoistedArgs(t) : HoistedArgs(t)[i] \in S
    BY <1>4
<1> QED
    BY <1>3, <1>4, <1>5

\* redeclareArgTop only adds lines, and no stage.
LEMMA RedeclareKeeps ==
    ASSUME NEW t, IsText(t)
    PROVE  Keeps(t, RedeclareArgTop(t))
<1> PICK h : h = HoistedArgs(t)
    OBVIOUS
<1> PICK u : u = h \o t
    OBVIOUS
<1>1. RedeclareArgTop(t) = u
    BY DEF RedeclareArgTop
<1>2. IsText(h) /\ \A i \in DOMAIN h : h[i].op = "ARG"
    BY HoistedAreArgs
<1>3. /\ Len(h) \in Nat /\ DOMAIN h = 1..Len(h) /\ Len(t) \in Nat /\ DOMAIN t = 1..Len(t)
      /\ IsText(u) /\ DOMAIN u = 1..Len(u)
    BY <1>2, JoinedText, TextType
<1>4. /\ \A i \in 1..Len(h) : i \in DOMAIN u /\ u[i] = h[i]
      /\ \A i \in 1..Len(t) : Len(h) + i \in DOMAIN u /\ u[Len(h) + i] = t[i]
    BY <1>2, JoinedText
<1>5. StaysTogether(t, u)
    BY <1>2, KeptAfter
<1>6. StaysOnTop(t, u)
    <2> SUFFICES ASSUME NEW k, OnTop(t, k)
                 PROVE  OnTop(u, Len(h) + k) /\ SameLine(t[k], u[Len(h) + k])
        BY DEF StaysOnTop
    <2>1. k \in 1..Len(t) /\ \A j \in 1..k : ~IsFrom(t[j])
        BY <1>3 DEF OnTop
    <2>2. ASSUME NEW j \in 1..(Len(h) + k) PROVE ~IsFrom(u[j])
        <3>1. CASE j <= Len(h)
            <4>1. j \in 1..Len(h)
                BY <3>1
            <4>2. u[j].op = "ARG"
                BY <1>2, <1>3, <1>4, <4>1
            <4> QED
                BY <4>2 DEF IsFrom
        <3>2. CASE ~(j <= Len(h))
            <4>1. j - Len(h) \in 1..k /\ j - Len(h) \in 1..Len(t) /\ Len(h) + (j - Len(h)) = j
                BY <1>3, <2>1, <3>2
            <4> QED
                BY <1>4, <2>1, <4>1
        <3> QED
            BY <3>1, <3>2
    <2>3. Len(h) + k \in DOMAIN u /\ u[Len(h) + k] = t[k]
        BY <1>4, <2>1
    <2> QED
        BY <2>2, <2>3 DEF OnTop, SameLine
<1> QED
    BY <1>1, <1>3, <1>5, <1>6 DEF Keeps

\* An ARG that an import declares before its first stage is above every stage of
\* what redeclareArgTop returns, wherever the import stands in the text.
THEOREM ImportedArgOnTop ==
    ASSUME NEW t, IsText(t), NEW s, NEW k, Together(t, s, k),
           OpensImport(t[s]), t[k].op = "ARG"
    PROVE  \E k1 : OnTop(RedeclareArgTop(t), k1) /\ RedeclareArgTop(t)[k1] = t[k]
<1> PICK u : u = RedeclareArgTop(t)
    OBVIOUS
<1>1. Len(t) \in Nat /\ DOMAIN t = 1..Len(t)
    BY TextType
<1>2. s \in 1..Len(t) /\ k \in 1..Len(t) /\ s <= k /\ \A j \in s..k : ~IsFrom(t[j])
    BY <1>1 DEF Together
<1>3. s # k
    BY DEF OpensImport
<1>4. CASE \A f \in 1..(k - 1) : ~IsFrom(t[f])
    <2>1. \A j \in 1..k : ~IsFrom(t[j])
        <3>1. \A j \in 1..k : j = k \/ j \in 1..(k - 1)
            BY <1>2
        <3>2. ~IsFrom(t[k])
            BY DEF IsFrom
        <3> QED
            BY <1>4, <3>1, <3>2
    <2>2. OnTop(t, k)
        BY <1>1, <1>2, <2>1 DEF OnTop
    <2>3. PICK k1 : OnTop(u, k1) /\ SameLine(t[k], u[k1])
        BY <2>2, RedeclareKeeps DEF Keeps, StaysOnTop
    <2> QED
        BY <2>3 DEF SameLine
<1>5. CASE \E f \in 1..(k - 1) : IsFrom(t[f])
    <2> DEFINE Args == ImportedArgs(t)
               Like == {i \in Args : t[i] = t[k]}
               kept == {i \in Args : ~\E j \in Args : j < i /\ t[j] = t[i]}
    <2>1. k \in Args
        <3>1. s \in 1..(k - 1)
            BY <1>2, <1>3
        <3> QED
            BY <1>1, <1>2, <1>5, <3>1 DEF ImportedArgs
    <2>2. Args \subseteq 1..Len(t)
        BY <1>1 DEF ImportedArgs
    <2> HIDE DEF Args
    <2>3. PICK n \in Nat : n \in Like /\ \A m \in Like : n <= m
        <3>1. Like \in SUBSET Nat /\ Like # {}
            <4>1. k \in Like
                BY <2>1
            <4>2. \A i \in Like : i \in 1..Len(t)
                BY <2>2
            <4>3. \A i \in Like : i \in Nat
                BY <1>1, <4>2
            <4> HIDE DEF Like
            <4> QED
                BY <4>1, <4>3
        <3> HIDE DEF Like
        <3> QED
            BY <3>1, LeastMember
    <2>4. n \in 1..Len(t) /\ t[n] = t[k] /\ n \in Args
        BY <2>2, <2>3
    <2>5. n \in kept
        <3> SUFFICES ASSUME NEW j \in Args, j < n, t[j] = t[n] PROVE FALSE
            BY <2>4
        <3>1. j \in Like /\ j \in Int
            BY <2>2, <2>4
        <3>2. n <= j
            BY <2>3, <3>1
        <3> QED
            BY <3>1, <3>2
    <2>6. HoistedArgs(t) = LinesAt(t, kept)
        BY DEF HoistedArgs, Args
    <2>7. Together(t, n, n)
        <3>1. ~IsFrom(t[n]) /\ \A j \in n..n : j = n
            BY <2>4 DEF IsFrom
        <3> QED
            BY <1>1, <2>4, <3>1 DEF Together
    <2> HIDE DEF kept
    <2>8. PICK d \in Int : Shifted(t, LinesAt(t, kept), n, n, d)
        <3>1. \A i \in n..n : i \in DOMAIN t /\ i \in kept
            BY <1>1, <2>4, <2>5
        <3> QED
            BY <2>7, <3>1, RunKept
    <2> PICK h : h = HoistedArgs(t)
        OBVIOUS
    <2> PICK k1 : k1 = d + n
        OBVIOUS
    <2>9. k1 \in DOMAIN h /\ h[k1] = t[k]
        BY <2>4, <2>6, <2>8 DEF Shifted, Together
    <2>10. IsText(h) /\ \A i \in DOMAIN h : h[i].op = "ARG"
        BY HoistedAreArgs
    <2>11. Len(h) \in Nat /\ DOMAIN h = 1..Len(h)
        BY <2>10, TextType
    <2>12. \A i \in 1..Len(h) : i \in DOMAIN u /\ u[i] = h[i]
        BY <2>10, JoinedText DEF RedeclareArgTop
    <2>13. \A j \in 1..k1 : ~IsFrom(u[j])
        <3>1. \A j \in 1..k1 : j \in 1..Len(h)
            BY <2>9, <2>11
        <3>2. \A j \in 1..Len(h) : u[j].op = "ARG"
            BY <2>10, <2>11, <2>12
        <3> QED
            BY <3>1, <3>2 DEF IsFrom
    <2>14. OnTop(u, k1) /\ u[k1] = t[k]
        BY <2>9, <2>11, <2>12, <2>13 DEF OnTop
    <2> QED
        BY <2>14
<1> QED
    BY <1>4, <1>5

=============================================================================
