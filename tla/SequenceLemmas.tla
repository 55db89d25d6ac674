--------------------------- MODULE SequenceLemmas ---------------------------
(***************************************************************************)
(* What the proofs share: least numbers, functions that are recursive in a *)
(* number, and the operators on sequences that the library has no theorems *)
(* about.                                                                  *)
(***************************************************************************)
EXTENDS Naturals, Sequences, SequencesExt, SequenceTheorems,
        WellFoundedInduction, NaturalsInduction, TLAPS

\* Every set of numbers that is not empty has a least one.
LEMMA LeastExists ==
    ASSUME NEW S \in SUBSET Nat, S # {}
    PROVE  \E x \in S : \A y \in S : x <= y
<1> DEFINE R == OpToRel(<, Nat)
<1>1. PICK x \in S : \A y \in S : <<y, x>> \notin R
  BY NatLessThanWellFounded, WFMin
<1>2. SUFFICES ASSUME NEW y \in S, ~(x <= y) PROVE FALSE
  OBVIOUS
<1>3. y < x /\ <<y, x>> \in Nat \X Nat
  BY <1>2
<1>4. <<y, x>> \in R
  BY <1>3 DEF OpToRel
<1>5. QED BY <1>1, <1>4

\* Induction over an initial segment, for a set of numbers in place of a predicate.
LEMMA UpTo ==
    ASSUME NEW N \in Nat, NEW S, 0 \in S,
           \A i \in 1..N : i - 1 \in S => i \in S
    PROVE  \A i \in 0..N : i \in S
<1> DEFINE Out == {i \in 0..N : i \notin S}
<1>1. SUFFICES ASSUME Out # {} PROVE FALSE
  OBVIOUS
<1>2. PICK m \in Out : \A k \in Out : m <= k
  <2>1. Out \in SUBSET Nat
    OBVIOUS
  <2> HIDE DEF Out
  <2>2. QED BY <1>1, <2>1, LeastExists
<1>3. m \in 1..N /\ m - 1 \in 0..N /\ m - 1 \notin Out
  BY <1>2
<1>4. QED BY <1>2, <1>3

Steps(N, V) == [(1..N) \X V -> V]
Runs(f, N, V, base, step) ==
    /\ f \in [0..N -> V] /\ f[0] = base
    /\ \A i \in 1..N : f[i] = step[<<i, f[i - 1]>>]

\* There is a function that starts at base and goes on by step.
LEMMA StepsExist ==
    ASSUME NEW N \in Nat, NEW V, NEW base \in V, NEW step \in Steps(N, V)
    PROVE  \E f : Runs(f, N, V, base, step)
<1> USE DEF Steps, Runs
<1> DEFINE Reaches(n, f) == /\ f \in [0..n -> V] /\ f[0] = base
                            /\ \A i \in 1..n : f[i] = step[<<i, f[i - 1]>>]
           S == {n \in 0..N : \E f : Reaches(n, f)}
<1>1. 0 \in S
  <2> DEFINE f == [i \in 0..0 |-> base]
  <2>1. Reaches(0, f)
    OBVIOUS
  <2> HIDE DEF Reaches, f
  <2>2. 0 \in 0..N
    OBVIOUS
  <2>3. QED BY <2>1, <2>2
<1>2. ASSUME NEW n \in 1..N, n - 1 \in S PROVE n \in S
  <2>1. PICK f : Reaches(n - 1, f)
    BY <1>2
  <2> DEFINE g == [i \in 0..n |-> IF i = n THEN step[<<n, f[n - 1]>>] ELSE f[i]]
  <2>2. f[n - 1] \in V /\ step[<<n, f[n - 1]>>] \in V
    BY <2>1
  <2>3. g \in [0..n -> V] /\ g[0] = base
    BY <2>1, <2>2
  <2>4. ASSUME NEW i \in 1..n PROVE g[i] = step[<<i, g[i - 1]>>]
    <3>1. g[i - 1] = f[i - 1]
      <4>1. i - 1 \in 0..n /\ i - 1 # n
        OBVIOUS
      <4>2. QED BY <4>1
    <3>2. CASE i = n
      <4>1. g[n] = step[<<n, f[n - 1]>>]
        OBVIOUS
      <4> HIDE DEF g
      <4>2. QED BY <3>1, <3>2, <4>1
    <3>3. CASE i # n
      <4>1. i \in 1..(n - 1)
        BY <3>3
      <4>2. g[i] = f[i]
        BY <3>3
      <4>3. f[i] = step[<<i, f[i - 1]>>]
        BY <2>1, <4>1
      <4>4. QED BY <3>1, <4>2, <4>3
    <3>4. QED BY <3>2, <3>3
  <2>5. Reaches(n, g)
    BY <2>3, <2>4
  <2> HIDE DEF Reaches, g
  <2>6. n \in 0..N
    OBVIOUS
  <2>7. QED BY <2>5, <2>6
<1>3. N \in S
  <2> HIDE DEF S
  <2>1. \A i \in 0..N : i \in S
    BY <1>1, <1>2, UpTo
  <2>2. QED BY <2>1
<1>4. QED BY <1>3

\* FlattenSeq joins its sequences one after the other.
LEMMA FlattenSteps ==
    ASSUME NEW V, NEW seqs \in Seq(Seq(V))
    PROVE  \E f \in [0..Len(seqs) -> Seq(V)] :
              /\ f[0] = <<>>
              /\ \A i \in 1..Len(seqs) : f[i] = f[i - 1] \o seqs[i]
              /\ FlattenSeq(seqs) = f[Len(seqs)]
<1> DEFINE N == Len(seqs)
           step == [p \in (1..N) \X Seq(V) |-> p[2] \o seqs[p[1]]]
<1>1. N \in Nat /\ \A i \in 1..N : seqs[i] \in Seq(V)
  OBVIOUS
<1>2. step \in Steps(N, Seq(V))
  <2>1. \A s, t \in Seq(V) : s \o t \in Seq(V)
    OBVIOUS
  <2>2. QED BY <1>1, <2>1 DEF Steps
<1>3. <<>> \in Seq(V)
  OBVIOUS
<1>4. PICK f \in [0..N -> Seq(V)] :
         f[0] = <<>> /\ \A i \in 1..N : f[i] = step[<<i, f[i - 1]>>]
  <2> HIDE DEF N, step
  <2>1. \E f : Runs(f, N, Seq(V), <<>>, step)
    BY <1>1, <1>2, <1>3, StepsExist
  <2>2. QED BY <2>1 DEF Runs
<1>5. \A i \in 1..N : f[i] = f[i - 1] \o seqs[i]
  <2>1. SUFFICES ASSUME NEW i \in 1..N PROVE f[i] = f[i - 1] \o seqs[i]
    OBVIOUS
  <2>2. i - 1 \in 0..N /\ f[i - 1] \in Seq(V)
    <3>1. i - 1 \in 0..N
      BY <1>1
    <3>2. QED BY <1>4, <3>1
  <2>3. <<i, f[i - 1]>> \in (1..N) \X Seq(V)
    BY <2>2
  <2>4. QED BY <1>4, <2>3
<1>6. CASE N = 0
  <2>1. seqs = <<>>
    BY <1>6
  <2>2. FlattenSeq(seqs) = <<>>
    BY <1>6, <2>1 DEF FlattenSeq
  <2>3. QED BY <1>4, <1>5, <1>6, <2>2
<1>7. CASE N # 0
  <2> DEFINE Flattens(g) ==
        g = [i \in 1..N |-> IF i = 1 THEN seqs[i] ELSE g[i - 1] \o seqs[i]]
             h == [i \in 1..N |-> f[i]]
  <2>0. f[0] \o seqs[1] = seqs[1] /\ f[1] = seqs[1]
    <3>1. 1 \in 1..N /\ seqs[1] \in Seq(V) /\ f[0] = <<>> /\ 1 - 1 = 0
      BY <1>1, <1>4, <1>7
    <3>2. <<>> \o seqs[1] = seqs[1]
      BY <3>1
    <3>3. QED BY <1>5, <3>1, <3>2
  <2>1. Flattens(h)
    <3>1. SUFFICES ASSUME NEW i \in 1..N
                   PROVE  h[i] = IF i = 1 THEN seqs[i] ELSE h[i - 1] \o seqs[i]
      OBVIOUS
    <3>2. CASE i = 1
      BY <1>5, <2>0, <3>2
    <3>3. CASE i # 1
      <4>1. h[i - 1] = f[i - 1]
        <5>1. i - 1 \in 1..N
          BY <3>3
        <5>2. QED BY <5>1
      <4>2. QED BY <1>5, <3>3, <4>1
    <3>4. QED BY <3>2, <3>3
  <2> DEFINE flatten == CHOOSE g : Flattens(g)
  <2>2. Flattens(flatten)
    <3> HIDE DEF Flattens, h
    <3>1. QED BY <2>1
  <2>3. FlattenSeq(seqs) = flatten[N]
    BY <1>7 DEF FlattenSeq
  <2> HIDE DEF flatten
  <2> DEFINE S == {i \in 0..N : i = 0 \/ flatten[i] = f[i]}
  <2>4. \A i \in 1..N : i - 1 \in S => i \in S
    <3>1. SUFFICES ASSUME NEW i \in 1..N, i - 1 \in S PROVE flatten[i] = f[i]
      OBVIOUS
    <3>2. flatten[i] = IF i = 1 THEN seqs[i] ELSE flatten[i - 1] \o seqs[i]
      BY <2>2
    <3>3. CASE i = 1
      BY <2>0, <3>2, <3>3
    <3>4. CASE i # 1
      <4>1. flatten[i - 1] = f[i - 1]
        BY <3>1, <3>4
      <4>2. QED BY <1>5, <3>2, <3>4, <4>1
    <3>5. QED BY <3>3, <3>4
  <2>5. \A i \in 0..N : i \in S
    <3>1. 0 \in S
      BY <1>1
    <3> HIDE DEF S, N
    <3>2. QED BY <1>1, <2>4, <3>1, UpTo
  <2>6. flatten[N] = f[N]
    BY <1>1, <1>7, <2>5
  <2>7. QED BY <1>4, <1>5, <2>3, <2>6
<1>8. QED BY <1>6, <1>7

\* What stands where in two sequences, one after the other.
LEMMA ConcatIs ==
    ASSUME NEW V, NEW s \in Seq(V), NEW t \in Seq(V)
    PROVE  /\ s \o t \in Seq(V) /\ Len(s \o t) = Len(s) + Len(t)
           /\ Len(s) \in Nat /\ Len(t) \in Nat
           /\ \A i \in 1..Len(s) : (s \o t)[i] = s[i]
           /\ \A i \in 1..Len(t) : (s \o t)[Len(s) + i] = t[i]
BY ConcatProperties

\* Two sequences that agree up to the end of the first, and behind it, are one.
LEMMA IsConcat ==
    ASSUME NEW V, NEW s \in Seq(V), NEW t \in Seq(V), NEW u \in Seq(V),
           Len(u) = Len(s) + Len(t),
           \A i \in 1..Len(s) : u[i] = s[i],
           \A i \in 1..Len(t) : u[Len(s) + i] = t[i]
    PROVE  u = s \o t
<1> DEFINE w == s \o t
<1>1. /\ w \in Seq(V) /\ Len(w) = Len(u) /\ Len(s) \in Nat /\ Len(t) \in Nat
      /\ \A i \in 1..Len(s) : w[i] = s[i]
      /\ \A i \in 1..Len(t) : w[Len(s) + i] = t[i]
  BY ConcatIs
<1> HIDE DEF w
<1>2. ASSUME NEW i \in 1..Len(u) PROVE u[i] = w[i]
  <2>1. CASE i <= Len(s)
    <3>1. i \in 1..Len(s)
      BY <1>1, <2>1
    <3>2. QED BY <1>1, <3>1
  <2>2. CASE ~(i <= Len(s))
    <3>1. i - Len(s) \in 1..Len(t) /\ Len(s) + (i - Len(s)) = i
      BY <1>1, <2>2
    <3>2. QED BY <1>1, <3>1
  <2>3. QED BY <2>1, <2>2
<1>3. u = w
  BY <1>1, <1>2, SeqEqual
<1>4. QED BY <1>3 DEF w

\* A beginning of a sequence.
LEMMA PrefixIs ==
    ASSUME NEW V, NEW s \in Seq(V), NEW n \in 0..Len(s)
    PROVE  /\ SubSeq(s, 1, n) \in Seq(V) /\ Len(SubSeq(s, 1, n)) = n
           /\ \A i \in 1..n : SubSeq(s, 1, n)[i] = s[i]
<1>1. n \in Nat /\ n - 1 + 1 = n /\ \A i \in 1..n : 1 + i - 1 = i /\ s[i] \in V
  BY ElementOfSeq
<1>2. /\ SubSeq(s, 1, n) \in Seq(V)
      /\ Len(SubSeq(s, 1, n)) = IF 1 <= n THEN n - 1 + 1 ELSE 0
      /\ \A i \in 1..n - 1 + 1 : SubSeq(s, 1, n)[i] = s[1 + i - 1]
  BY <1>1, SubSeqProperties
<1>3. QED BY <1>1, <1>2

\* The join of two sequences of sequences.
LEMMA FlattenJoin ==
    ASSUME NEW V, NEW s \in Seq(Seq(V)), NEW t \in Seq(Seq(V))
    PROVE  /\ FlattenSeq(s) \in Seq(V) /\ FlattenSeq(t) \in Seq(V)
           /\ FlattenSeq(s \o t) = FlattenSeq(s) \o FlattenSeq(t)
<1> DEFINE u == s \o t
           M == Len(s)
           N == Len(t)
<1>0. \A i \in 1..N : t[i] \in Seq(V)
  OBVIOUS
<1>1. /\ u \in Seq(Seq(V)) /\ Len(u) = M + N /\ M \in Nat /\ N \in Nat
      /\ \A i \in 1..M : u[i] = s[i]
      /\ \A i \in 1..N : u[M + i] = t[i]
  BY ConcatProperties
<1>2. PICK f \in [0..M -> Seq(V)] :
         f[0] = <<>> /\ (\A i \in 1..M : f[i] = f[i - 1] \o s[i]) /\ FlattenSeq(s) = f[M]
  BY FlattenSteps
<1>3. PICK g \in [0..N -> Seq(V)] :
         g[0] = <<>> /\ (\A i \in 1..N : g[i] = g[i - 1] \o t[i]) /\ FlattenSeq(t) = g[N]
  BY FlattenSteps
<1> HIDE DEF u
<1>4. PICK h \in [0..Len(u) -> Seq(V)] :
         h[0] = <<>> /\ (\A i \in 1..Len(u) : h[i] = h[i - 1] \o u[i]) /\ FlattenSeq(u) = h[Len(u)]
  BY <1>1, FlattenSteps
<1> HIDE DEF M, N
<1>5. h[M] = f[M]
  <2> DEFINE S == {i \in 0..M : h[i] = f[i]}
  <2>1. 0 \in S
    BY <1>1, <1>2, <1>4
  <2>2. ASSUME NEW i \in 1..M, i - 1 \in S PROVE i \in S
    <3>1. i \in 1..Len(u) /\ i \in 0..M
      BY <1>1
    <3>2. h[i] = h[i - 1] \o u[i] /\ f[i] = f[i - 1] \o s[i] /\ u[i] = s[i] /\ h[i - 1] = f[i - 1]
      BY <1>1, <1>2, <1>4, <2>2, <3>1
    <3>3. QED BY <3>1, <3>2
  <2> HIDE DEF S
  <2>3. \A i \in 0..M : i \in S
    BY <1>1, <2>1, <2>2, UpTo
  <2>4. M \in S
    BY <1>1, <2>3
  <2>5. QED BY <2>4 DEF S
<1>6. f[M] \in Seq(V) /\ g[N] \in Seq(V)
  BY <1>1, <1>2, <1>3
<1>7. h[M + N] = f[M] \o g[N]
  <2> DEFINE S == {j \in 0..N : h[M + j] = f[M] \o g[j]}
  <2>1. 0 \in S
    <3>1. f[M] \o <<>> = f[M] /\ M + 0 = M
      BY <1>1, <1>6, ConcatEmptySeq
    <3>2. h[M + 0] = f[M] \o g[0]
      BY <1>3, <1>5, <3>1
    <3>3. QED BY <1>1, <3>2
  <2>2. ASSUME NEW j \in 1..N, j - 1 \in S PROVE j \in S
    <3>1. M + j \in 1..Len(u) /\ (M + j) - 1 = M + (j - 1) /\ j \in 0..N /\ j - 1 \in 0..N
      BY <1>1
    <3>2. h[M + j] = h[M + (j - 1)] \o t[j] /\ g[j] = g[j - 1] \o t[j]
      BY <1>1, <1>3, <1>4, <3>1
    <3>3. h[M + (j - 1)] = f[M] \o g[j - 1]
      BY <2>2
    <3>4. g[j - 1] \in Seq(V) /\ t[j] \in Seq(V)
      BY <1>0, <1>3, <3>1
    <3>5. (f[M] \o g[j - 1]) \o t[j] = f[M] \o (g[j - 1] \o t[j])
      <4> DEFINE p == f[M]
                 q == g[j - 1]
                 r == t[j]
      <4>1. p \in Seq(V) /\ q \in Seq(V) /\ r \in Seq(V)
        BY <1>6, <3>4
      <4> HIDE DEF p, q, r
      <4>2. (p \o q) \o r = p \o (q \o r)
        BY <4>1, ConcatAssociative
      <4>3. QED BY <4>2 DEF p, q, r
    <3>6. QED BY <3>1, <3>2, <3>3, <3>5
  <2> HIDE DEF S
  <2>3. \A j \in 0..N : j \in S
    BY <1>1, <2>1, <2>2, UpTo
  <2>4. N \in S
    BY <1>1, <2>3
  <2>5. QED BY <2>4 DEF S
<1>8. QED BY <1>1, <1>2, <1>3, <1>4, <1>6, <1>7 DEF u

LEMMA FlattenOfTyped ==
    ASSUME NEW V, NEW s \in Seq(Seq(V))
    PROVE  FlattenSeq(s) \in Seq(V)
<1>1. <<>> \in Seq(Seq(V))
  OBVIOUS
<1>2. QED BY <1>1, FlattenJoin

\* The join of no sequence, and of one.
LEMMA FlattenNone == FlattenSeq(<<>>) = <<>>
<1>1. Len(<<>>) = 0
  OBVIOUS
<1>2. QED BY <1>1 DEF FlattenSeq

LEMMA FlattenOne ==
    ASSUME NEW V, NEW s \in Seq(V)
    PROVE  FlattenSeq(<<s>>) = s
<1>1. <<s>> \in Seq(Seq(V)) /\ Len(<<s>>) = 1 /\ <<s>>[1] = s
  OBVIOUS
<1> DEFINE one == <<s>>
<1> HIDE DEF one
<1>2. PICK f \in [0..Len(one) -> Seq(V)] :
         f[0] = <<>> /\ (\A i \in 1..Len(one) : f[i] = f[i - 1] \o one[i])
         /\ FlattenSeq(one) = f[Len(one)]
  BY <1>1, FlattenSteps DEF one
<1>3. f[1] = <<>> \o s
  <2>1. 1 \in 1..Len(one) /\ 1 - 1 = 0 /\ one[1] = s
    BY <1>1 DEF one
  <2>2. QED BY <1>2, <2>1
<1>4. <<>> \o s = s
  OBVIOUS
<1>5. QED BY <1>1, <1>2, <1>3, <1>4 DEF one

\* The join of sequences of one element each.
LEMMA FlattenSingles ==
    ASSUME NEW V, NEW s \in Seq(V)
    PROVE  FlattenSeq([i \in 1..Len(s) |-> <<s[i]>>]) = s
<1> DEFINE N == Len(s)
           u == [i \in 1..N |-> <<s[i]>>]
<1>1. N \in Nat /\ \A i \in 1..N : s[i] \in V /\ <<s[i]>> \in Seq(V)
  OBVIOUS
<1>2. u \in Seq(Seq(V)) /\ Len(u) = N /\ \A i \in 1..N : u[i] = <<s[i]>>
  BY <1>1
<1> HIDE DEF u, N
<1>3. PICK f \in [0..N -> Seq(V)] :
         f[0] = <<>> /\ (\A i \in 1..N : f[i] = f[i - 1] \o u[i]) /\ FlattenSeq(u) = f[N]
  BY <1>2, FlattenSteps
<1> DEFINE S == {i \in 0..N : Len(f[i]) = i /\ \A j \in 1..i : f[i][j] = s[j]}
<1>4. 0 \in S
  BY <1>1, <1>3
<1>5. ASSUME NEW i \in 1..N, i - 1 \in S PROVE i \in S
  <2>0. i - 1 \in 0..N /\ i \in 0..N
    BY <1>1
  <2>1. i - 1 \in 0..N /\ i \in 0..N /\ f[i - 1] \in Seq(V) /\ f[i] = f[i - 1] \o <<s[i]>>
        /\ Len(f[i - 1]) = i - 1 /\ \A j \in 1..(i - 1) : f[i - 1][j] = s[j]
    BY <1>2, <1>3, <1>5, <2>0
  <2>2. <<s[i]>> \in Seq(V) /\ Len(<<s[i]>>) = 1 /\ <<s[i]>>[1] = s[i]
    BY <1>1
  <2> DEFINE p == f[i - 1]
             q == <<s[i]>>
  <2>3. /\ Len(p \o q) = Len(p) + Len(q)
        /\ \A j \in 1..Len(p) : (p \o q)[j] = p[j]
        /\ \A j \in 1..Len(q) : (p \o q)[Len(p) + j] = q[j]
    BY <2>1, <2>2, ConcatProperties
  <2>4. Len(f[i]) = i /\ f[i][i] = s[i]
    <3>1. 1 \in 1..Len(q) /\ Len(p) + 1 = i
      BY <2>1, <2>2
    <3>2. QED BY <2>1, <2>2, <2>3, <3>1
  <2>5. ASSUME NEW j \in 1..i PROVE f[i][j] = s[j]
    <3>1. CASE j = i
      BY <2>4, <3>1
    <3>2. CASE j # i
      <4>1. j \in 1..(i - 1)
        BY <3>2
      <4>2. QED BY <2>1, <2>3, <4>1
    <3>3. QED BY <3>1, <3>2
  <2>6. QED BY <2>1, <2>4, <2>5
<1>6. N \in S
  <2> HIDE DEF S
  <2>1. \A i \in 0..N : i \in S
    BY <1>1, <1>4, <1>5, UpTo
  <2>2. QED BY <1>1, <2>1
<1>7. f[N] \in Seq(V) /\ Len(f[N]) = Len(s) /\ \A j \in 1..Len(s) : f[N][j] = s[j]
  BY <1>1, <1>3, <1>6 DEF N
<1>8. f[N] = s
  BY <1>7, SeqEqual
<1>9. QED BY <1>3, <1>8 DEF u, N

\* Joining two sequences joins what is in them.
LEMMA RangeOfJoin ==
    ASSUME NEW V, NEW s \in Seq(V), NEW t \in Seq(V)
    PROVE  s \o t \in Seq(V) /\ Range(s \o t) = Range(s) \union Range(t)
<1>1. /\ s \o t \in Seq(V) /\ Len(s \o t) = Len(s) + Len(t)
      /\ \A i \in 1..Len(s) : (s \o t)[i] = s[i]
      /\ \A i \in 1..Len(t) : (s \o t)[Len(s) + i] = t[i]
  BY ConcatProperties
<1> DEFINE u == s \o t
<1>2. Len(s) \in Nat /\ Len(t) \in Nat /\ DOMAIN u = 1..(Len(s) + Len(t))
  BY <1>1
<1> HIDE DEF u
<1>3. ASSUME NEW i \in 1..(Len(s) + Len(t)) PROVE u[i] \in Range(s) \union Range(t)
  <2>1. CASE i <= Len(s)
    <3>1. i \in 1..Len(s) /\ u[i] = s[i]
      BY <1>1, <1>2, <2>1 DEF u
    <3>2. QED BY <3>1 DEF Range
  <2>2. CASE i > Len(s)
    <3>1. i - Len(s) \in 1..Len(t) /\ Len(s) + (i - Len(s)) = i
      BY <1>2, <2>2
    <3>2. u[i] = t[i - Len(s)]
      BY <1>1, <3>1 DEF u
    <3>3. QED BY <3>1, <3>2 DEF Range
  <2>3. QED BY <1>2, <2>1, <2>2
<1>4. ASSUME NEW i \in 1..Len(s) PROVE s[i] \in Range(u)
  <2>1. i \in DOMAIN u /\ u[i] = s[i]
    BY <1>1, <1>2 DEF u
  <2>2. QED BY <2>1 DEF Range
<1>5. ASSUME NEW i \in 1..Len(t) PROVE t[i] \in Range(u)
  <2>1. Len(s) + i \in DOMAIN u /\ u[Len(s) + i] = t[i]
    BY <1>1, <1>2 DEF u
  <2>2. QED BY <2>1 DEF Range
<1>6. Range(u) = Range(s) \union Range(t)
  <2>1. Range(u) \subseteq Range(s) \union Range(t)
    <3>1. \A v \in Range(u) : \E i \in 1..(Len(s) + Len(t)) : v = u[i]
      BY <1>2 DEF Range
    <3>2. QED BY <1>3, <3>1
  <2>2. \A v \in Range(s) : \E i \in 1..Len(s) : v = s[i]
    BY DEF Range
  <2>3. \A v \in Range(t) : \E i \in 1..Len(t) : v = t[i]
    BY DEF Range
  <2>4. QED BY <1>4, <1>5, <2>1, <2>2, <2>3
<1>7. QED BY <1>1, <1>6 DEF u

\* What is in the join of a sequence of sequences.
LEMMA FlattenRange ==
    ASSUME NEW V, NEW seqs \in Seq(Seq(V)), NEW v
    PROVE  v \in Range(FlattenSeq(seqs)) <=> \E i \in 1..Len(seqs) : v \in Range(seqs[i])
<1> DEFINE N == Len(seqs)
<1>1. N \in Nat /\ \A i \in 1..N : seqs[i] \in Seq(V)
  OBVIOUS
<1>2. PICK f \in [0..N -> Seq(V)] :
         f[0] = <<>> /\ (\A i \in 1..N : f[i] = f[i - 1] \o seqs[i]) /\ FlattenSeq(seqs) = f[N]
  BY FlattenSteps
<1> DEFINE S == {k \in 0..N : v \in Range(f[k]) <=> \E i \in 1..k : v \in Range(seqs[i])}
<1> HIDE DEF N
<1>3. 0 \in S
  <2>1. v \notin Range(<<>>)
    BY DEF Range
  <2>2. QED BY <1>1, <1>2, <2>1
<1>4. ASSUME NEW k \in 1..N, k - 1 \in S PROVE k \in S
  <2>1. k - 1 \in 0..N /\ k \in 0..N /\ f[k - 1] \in Seq(V) /\ seqs[k] \in Seq(V)
    <3>1. k - 1 \in 0..N /\ k \in 0..N
      BY <1>1
    <3>2. QED BY <1>1, <1>2, <3>1
  <2>2. Range(f[k - 1] \o seqs[k]) = Range(f[k - 1]) \union Range(seqs[k])
    BY <2>1, RangeOfJoin
  <2>3. v \in Range(f[k]) <=> v \in Range(f[k - 1]) \/ v \in Range(seqs[k])
    BY <1>2, <2>2
  <2>4. \A i : i \in 1..k <=> i \in 1..(k - 1) \/ i = k
    BY <1>1
  <2>5. v \in Range(f[k - 1]) <=> \E i \in 1..(k - 1) : v \in Range(seqs[i])
    BY <1>4
  <2>6. QED BY <2>1, <2>3, <2>4, <2>5
<1>5. N \in S
  <2> HIDE DEF S
  <2>1. \A k \in 0..N : k \in S
    BY <1>1, <1>3, <1>4, UpTo
  <2>2. QED BY <1>1, <2>1
<1>6. QED BY <1>2, <1>5 DEF N

\* Where each of a sequence of sequences stands in their join.
LEMMA FlattenPlaces ==
    ASSUME NEW V, NEW seqs \in Seq(Seq(V))
    PROVE  \E off \in [0..Len(seqs) -> Nat] :
              /\ off[0] = 0 /\ off[Len(seqs)] = Len(FlattenSeq(seqs))
              /\ \A i \in 1..Len(seqs) : off[i] = off[i - 1] + Len(seqs[i])
              /\ \A i \in 1..Len(seqs) : \A k \in 1..Len(seqs[i]) :
                    FlattenSeq(seqs)[off[i - 1] + k] = seqs[i][k]
<1> DEFINE N == Len(seqs)
<1>1. N \in Nat /\ \A i \in 1..N : seqs[i] \in Seq(V)
  OBVIOUS
<1>2. PICK f \in [0..N -> Seq(V)] :
         f[0] = <<>> /\ (\A i \in 1..N : f[i] = f[i - 1] \o seqs[i]) /\ FlattenSeq(seqs) = f[N]
  BY FlattenSteps
<1> HIDE DEF N
<1> DEFINE off == [i \in 0..N |-> Len(f[i])]
<1>3. off \in [0..N -> Nat] /\ \A i \in 0..N : off[i] = Len(f[i]) /\ Len(f[i]) \in Nat
  BY <1>2
<1>4. ASSUME NEW i \in 1..N
      PROVE  /\ i \in 0..N /\ i - 1 \in 0..N
             /\ off[i] = off[i - 1] + Len(seqs[i])
             /\ \A k \in 1..off[i - 1] : f[i][k] = f[i - 1][k]
             /\ \A k \in 1..Len(seqs[i]) : f[i][off[i - 1] + k] = seqs[i][k]
             /\ Len(seqs[i]) \in Nat
  <2>1. i \in 0..N /\ i - 1 \in 0..N
    BY <1>1
  <2>2. f[i - 1] \in Seq(V) /\ seqs[i] \in Seq(V) /\ f[i] = f[i - 1] \o seqs[i]
    BY <1>1, <1>2, <2>1
  <2>3. off[i] = Len(f[i]) /\ off[i - 1] = Len(f[i - 1])
    BY <1>3, <2>1
  <2>4. /\ Len(f[i]) = Len(f[i - 1]) + Len(seqs[i]) /\ Len(seqs[i]) \in Nat
        /\ \A k \in 1..Len(f[i - 1]) : f[i][k] = f[i - 1][k]
        /\ \A k \in 1..Len(seqs[i]) : f[i][Len(f[i - 1]) + k] = seqs[i][k]
    <3> DEFINE s == f[i - 1]
               t == seqs[i]
    <3>1. s \in Seq(V) /\ t \in Seq(V) /\ f[i] = s \o t
      BY <2>2
    <3> HIDE DEF s, t
    <3>2. /\ Len(s \o t) = Len(s) + Len(t) /\ Len(t) \in Nat
          /\ \A k \in 1..Len(s) : (s \o t)[k] = s[k]
          /\ \A k \in 1..Len(t) : (s \o t)[Len(s) + k] = t[k]
      BY <3>1, ConcatIs
    <3>3. QED BY <3>1, <3>2 DEF s, t
  <2>5. QED BY <2>1, <2>3, <2>4
<1> HIDE DEF off
\* What is in the join of the first ones stays in the join of more of them.
<1> DEFINE S == {m \in 0..N : \A i \in 0..m :
                    off[i] <= off[m] /\ \A k \in 1..off[i] : f[m][k] = f[i][k]}
<1>5. 0 \in S
  BY <1>1, <1>3
<1>6. ASSUME NEW m \in 1..N, m - 1 \in S PROVE m \in S
  <2>1. /\ m \in 0..N /\ m - 1 \in 0..N /\ off[m] = off[m - 1] + Len(seqs[m]) /\ Len(seqs[m]) \in Nat
        /\ \A k \in 1..off[m - 1] : f[m][k] = f[m - 1][k]
    BY <1>4
  <2>2. ASSUME NEW i \in 0..m
        PROVE  off[i] <= off[m] /\ \A k \in 1..off[i] : f[m][k] = f[i][k]
    <3>1. i \in 0..N /\ off[i] \in Nat /\ off[m] \in Nat /\ off[m - 1] \in Nat
      BY <1>1, <1>3, <2>1
    <3>2. CASE i = m
      BY <3>1, <3>2
    <3>3. CASE i # m
      <4>1. i \in 0..(m - 1)
        BY <1>1, <3>3
      <4>2. off[i] <= off[m - 1] /\ \A k \in 1..off[i] : f[m - 1][k] = f[i][k]
        BY <1>6, <4>1
      <4>3. \A k \in 1..off[i] : k \in 1..off[m - 1]
        BY <3>1, <4>2
      <4>4. QED BY <2>1, <3>1, <4>2, <4>3
    <3>4. QED BY <3>2, <3>3
  <2>3. QED BY <2>1, <2>2
<1>7. N \in S
  <2> HIDE DEF S
  <2>1. \A m \in 0..N : m \in S
    BY <1>1, <1>5, <1>6, UpTo
  <2>2. QED BY <1>1, <2>1
<1>8. ASSUME NEW i \in 1..N, NEW k \in 1..Len(seqs[i])
      PROVE  f[N][off[i - 1] + k] = seqs[i][k]
  <2>1. /\ i \in 0..N /\ i - 1 \in 0..N /\ off[i] = off[i - 1] + Len(seqs[i]) /\ Len(seqs[i]) \in Nat
        /\ f[i][off[i - 1] + k] = seqs[i][k]
    BY <1>4
  <2>2. off[i - 1] + k \in 1..off[i]
    BY <1>3, <2>1
  <2>3. f[N][off[i - 1] + k] = f[i][off[i - 1] + k]
    BY <1>7, <2>1, <2>2
  <2>4. QED BY <2>1, <2>3
<1>9. off[0] = 0 /\ off[N] = Len(FlattenSeq(seqs))
  BY <1>1, <1>2, <1>3
<1>10. \A i \in 1..N : off[i] = off[i - 1] + Len(seqs[i])
  BY <1>4
<1>11. \A i \in 1..N : \A k \in 1..Len(seqs[i]) : FlattenSeq(seqs)[off[i - 1] + k] = seqs[i][k]
  BY <1>2, <1>8
<1>12. QED BY <1>3, <1>9, <1>10, <1>11 DEF N
=============================================================================
