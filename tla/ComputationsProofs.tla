-------------------------- MODULE ComputationsProofs ------------------------
(***************************************************************************)
(* Safety of what is computed from forms, drawings and audits:             *)
(* CabinQualityScoring, SeatMaps and AdminDashboard, for any forms,        *)
(* weights, precision, drawings and audits.                                *)
(*                                                                         *)
(* These modules fold and flatten sequences.  What a fold computes is      *)
(* found here by induction over a set of numbers: the recursion of a fold  *)
(* has a solution, hence the one that CHOOSE takes solves it, and a set    *)
(* that holds 0 and the successors of its members holds every place.       *)
(***************************************************************************)
EXTENDS CabinQualityScoring, SeatMaps, AdminDashboard,
        FiniteSetTheorems, SequenceTheorems, WellFoundedInduction, TLAPS

\* Induction, of a set of numbers.
LEMMA NatSets ==
  ASSUME NEW S \in SUBSET Nat, 0 \in S, \A n \in S : n + 1 \in S
  PROVE  S = Nat
<1> SUFFICES ASSUME Nat \ S # {} PROVE FALSE
  OBVIOUS
<1>1. PICK x \in Nat \ S : \A y \in Nat \ S : ~(<<y, x>> \in OpToRel(<, Nat))
  BY WFMin, NatLessThanWellFounded
<1>2. \A y \in Nat \ S : ~(y < x)
  BY <1>1 DEF OpToRel
<1> QED
  BY <1>2

\* A bounded set of numbers has a least and a greatest element.
LEMMA MinMax ==
  ASSUME NEW n \in Nat, NEW S \in SUBSET (0..n), S # {}
  PROVE  /\ Max(S) \in S /\ \A x \in S : x <= Max(S)
         /\ Min(S) \in S /\ \A x \in S : Min(S) <= x
<1>1. \A T \in SUBSET Nat : T # {} => \E x \in T : \A y \in T : x <= y
  <2> SUFFICES ASSUME NEW T \in SUBSET Nat, T # {}
               PROVE  \E x \in T : \A y \in T : x <= y
    OBVIOUS
  <2>1. PICK x \in T : \A y \in T : ~(<<y, x>> \in OpToRel(<, Nat))
    BY WFMin, NatLessThanWellFounded
  <2>2. \A y \in T : ~(y < x)
    BY <2>1 DEF OpToRel
  <2> QED
    BY <2>2
<1>2. S \in SUBSET Nat /\ \A y \in S : y \in Nat /\ y <= n
  OBVIOUS
<1>3. PICK least \in S : \A y \in S : least <= y
  BY <1>1, <1>2
<1>4. PICK most \in S : \A y \in S : most >= y
  <2> DEFINE T == {n - y : y \in S}
  <2>1. T \in SUBSET Nat /\ T # {}
    BY <1>2
  <2>2. PICK x \in T : \A y \in T : x <= y
    BY <1>1, <2>1
  <2>3. PICK y \in S : x = n - y
    BY <2>2
  <2>4. ASSUME NEW z \in S PROVE y >= z
    <3>1. n - z \in T
      OBVIOUS
    <3> QED
      BY <1>2, <2>2, <2>3, <3>1
  <2> QED
    BY <2>4
<1>5. Max(S) \in S /\ \A y \in S : Max(S) >= y
  BY <1>4 DEF Max
<1>6. Min(S) \in S /\ \A y \in S : Min(S) <= y
  BY <1>3 DEF Min
<1> QED
  BY <1>2, <1>5, <1>6

LEMMA MaxOfPrefix ==
  ASSUME NEW k \in Nat, k > 0
  PROVE  Max(1..k) = k
<1>1. (1..k) \in SUBSET (0..k) /\ (1..k) # {} /\ k \in 1..k
  OBVIOUS
<1>2. Max(1..k) \in 1..k /\ k <= Max(1..k)
  BY <1>1, MinMax
<1> QED
  BY <1>2

SolvesFold(f, N, base, G) ==
  \A s \in SUBSET (1..N) : f[s] = IF s = {} THEN base ELSE G[<<Max(s), f[s \ {Max(s)}]>>]

\* The recursion of a fold over the places of a sequence has a solution.
LEMMA FoldDefined ==
  ASSUME NEW N \in Nat, NEW V, NEW base \in V, NEW G \in [(1..N) \X V -> V]
  PROVE  \E f \in [SUBSET (1..N) -> V] : SolvesFold(f, N, base, G)
<1> DEFINE Solves(f, n) ==
      /\ f \in [SUBSET (1..n) -> V]
      /\ \A s \in SUBSET (1..n) : f[s] = IF s = {} THEN base ELSE G[<<Max(s), f[s \ {Max(s)}]>>]
    S == {n \in Nat : n <= N => \E f : Solves(f, n)}
<1>1. 0 \in S
  <2>1. Solves([s \in SUBSET (1..0) |-> base], 0)
    OBVIOUS
  <2> QED
    BY <2>1
<1>2. ASSUME NEW n \in S PROVE n + 1 \in S
  <2> HIDE DEF Solves
  <2> SUFFICES ASSUME n + 1 <= N PROVE \E f : Solves(f, n + 1)
    OBVIOUS
  <2>0. n \in Nat /\ n <= N
    OBVIOUS
  <2>1. PICK f : Solves(f, n)
    BY <2>0
  <2> HIDE DEF S
  <2> DEFINE g == [s \in SUBSET (1..(n + 1)) |->
                     IF n + 1 \in s THEN G[<<n + 1, f[s \ {n + 1}]>>] ELSE f[s]]
  <2> HIDE DEF g
  <2>g. ASSUME NEW s \in SUBSET (1..(n + 1))
        PROVE  g[s] = IF n + 1 \in s THEN G[<<n + 1, f[s \ {n + 1}]>>] ELSE f[s]
    BY DEF g
  <2>f. /\ \A s \in SUBSET (1..n) : f[s] \in V
        /\ \A s \in SUBSET (1..n) : f[s] = IF s = {} THEN base ELSE G[<<Max(s), f[s \ {Max(s)}]>>]
    BY <2>1 DEF Solves
  <2>2. ASSUME NEW s \in SUBSET (1..(n + 1))
        PROVE  /\ g[s] \in V
               /\ g[s] = IF s = {} THEN base ELSE G[<<Max(s), g[s \ {Max(s)}]>>]
    <3>1. CASE n + 1 \in s
      <4>1. s \in SUBSET (0..(n + 1)) /\ s # {}
        BY <2>0, <3>1
      <4>2. n + 1 \in Nat
        BY <2>0
      <4>3. Max(s) \in s /\ n + 1 <= Max(s)
        BY <3>1, <4>1, <4>2, MinMax
      <4>4. Max(s) = n + 1
        <5>1. Max(s) \in 1..(n + 1)
          BY <4>3
        <5> HIDE DEF Max
        <5> QED
          BY <2>0, <4>3, <5>1
      <4>5. s \ {n + 1} \in SUBSET (1..n) /\ s \ {n + 1} \in SUBSET (1..(n + 1)) /\ n + 1 \notin s \ {n + 1}
        BY <2>0
      <4>6. g[s \ {n + 1}] = f[s \ {n + 1}] /\ f[s \ {n + 1}] \in V
        BY <2>g, <2>f, <4>5
      <4>7. n + 1 \in 1..N
        BY <2>0
      <4>8. g[s] = G[<<n + 1, f[s \ {n + 1}]>>]
        BY <2>g, <3>1
      <4> QED
        BY <3>1, <4>4, <4>6, <4>7, <4>8
    <3>2. CASE n + 1 \notin s
      <4>1. s \in SUBSET (1..n) /\ s \in SUBSET (0..n)
        BY <2>0, <3>2
      <4>2. g[s] = f[s] /\ f[s] \in V
        BY <2>g, <2>f, <3>2, <4>1
      <4>3. CASE s # {}
        <5>1. Max(s) \in s
          BY <2>0, <4>1, <4>3, MinMax
        <5>2. s \ {Max(s)} \in SUBSET (1..(n + 1)) /\ n + 1 \notin s \ {Max(s)}
          BY <3>2
        <5>3. g[s \ {Max(s)}] = f[s \ {Max(s)}]
          BY <2>g, <5>2
        <5> QED
          BY <2>f, <4>1, <4>2, <4>3, <5>3
      <4> QED
        BY <2>f, <4>1, <4>2, <4>3
    <3> QED
      BY <3>1, <3>2
  <2>3. Solves(g, n + 1)
    BY <2>2 DEF Solves, g
  <2> QED
    BY <2>3
<1>3. N \in S
  <2> HIDE DEF S
  <2>1. S \in SUBSET Nat
    BY DEF S
  <2> QED
    BY <1>1, <1>2, <2>1, NatSets
<1> QED
  <2> HIDE DEF Solves
  <2>1. \E f : Solves(f, N)
    BY <1>3
  <2> QED
    BY <2>1 DEF Solves, SolvesFold

LEMMA WithoutMax ==
  ASSUME NEW n \in Nat, NEW k \in 1..n
  PROVE  /\ Max(1..k) = k /\ (1..k) \ {k} = 1..(k - 1)
         /\ 1..k \in SUBSET (1..n) /\ 1..(k - 1) \in SUBSET (1..n) /\ 1..k # {}
<1>1. k \in Nat /\ k > 0
  OBVIOUS
<1>2. Max(1..k) = k
  BY <1>1, MaxOfPrefix
<1> QED
  BY <1>2

\* A recursion over the numbers to N has a solution.
Runs(g, N, base, G) == g[0] = base /\ \A k \in 1..N : g[k] = G[<<k, g[k - 1]>>]

LEMMA RunsDefined ==
  ASSUME NEW N \in Nat, NEW V, NEW base \in V, NEW G \in [(1..N) \X V -> V]
  PROVE  \E g \in [0..N -> V] : Runs(g, N, base, G)
<1>1. PICK f \in [SUBSET (1..N) -> V] : SolvesFold(f, N, base, G)
  BY FoldDefined
<1> DEFINE g == [k \in 0..N |-> f[1..k]]
<1>2. g \in [0..N -> V]
  <2>1. \A k \in 0..N : 1..k \in SUBSET (1..N)
    OBVIOUS
  <2> QED
    BY <2>1
<1>3. g[0] = base
  <2>1. 1..0 = {} /\ {} \in SUBSET (1..N) /\ 0 \in 0..N
    OBVIOUS
  <2>2. f[{}] = base
    BY <1>1, <2>1 DEF SolvesFold
  <2> QED
    BY <2>1, <2>2
<1>4. ASSUME NEW k \in 1..N PROVE g[k] = G[<<k, g[k - 1]>>]
  <2>1. /\ Max(1..k) = k /\ (1..k) \ {k} = 1..(k - 1)
        /\ 1..k \in SUBSET (1..N) /\ 1..k # {}
    BY WithoutMax
  <2>2. f[1..k] = G[<<Max(1..k), f[(1..k) \ {Max(1..k)}]>>]
    BY <1>1, <2>1 DEF SolvesFold
  <2>3. k \in 0..N /\ k - 1 \in 0..N
    OBVIOUS
  <2> QED
    BY <2>1, <2>2, <2>3
<1> HIDE DEF g
<1> QED
  BY <1>2, <1>3, <1>4 DEF Runs

-----------------------------------------------------------------------------
(***************************************************************************)
(* Folds and sums of sequences.                                            *)
(***************************************************************************)

\* A sum is the last of the sums of the beginnings.
LEMMA FoldTotal ==
  ASSUME NEW s \in Seq(Nat)
  PROVE  \E g \in [0..Len(s) -> Nat] :
           /\ g[0] = 0
           /\ \A k \in 1..Len(s) : g[k] = g[k - 1] + s[k]
           /\ Total(s) = g[Len(s)]
<1> DEFINE N == Len(s)
           Recurs(iter) == iter = [S \in SUBSET DOMAIN s |->
             IF S = {} THEN 0 ELSE iter[S \ {Max(S)}] + s[Max(S)]]
           Iter == CHOOSE iter : Recurs(iter)
<1>1. Total(s) = Iter[DOMAIN s]
  BY DEF Total, FoldLeft, MapThenFoldSet
<1>2. N \in Nat /\ DOMAIN s = 1..N /\ \A k \in 1..N : s[k] \in Nat
  OBVIOUS
<1> HIDE DEF N
<1>3. PICK f \in [SUBSET (1..N) -> Nat] :
        \A S \in SUBSET (1..N) : f[S] = IF S = {} THEN 0 ELSE f[S \ {Max(S)}] + s[Max(S)]
  <2> DEFINE G == [p \in (1..N) \X Nat |-> p[2] + s[p[1]]]
  <2>1. G \in [(1..N) \X Nat -> Nat]
    BY <1>2
  <2>2. PICK f \in [SUBSET (1..N) -> Nat] :
          \A S \in SUBSET (1..N) : f[S] = IF S = {} THEN 0 ELSE G[<<Max(S), f[S \ {Max(S)}]>>]
    <3> HIDE DEF G, Recurs, Iter
    <3>1. N \in Nat
      BY <1>2
    <3>2. \E f \in [SUBSET (1..N) -> Nat] : SolvesFold(f, N, 0, G)
      BY <2>1, <3>1, FoldDefined
    <3> QED
      BY <3>2 DEF SolvesFold
  <2>3. ASSUME NEW S \in SUBSET (1..N), S # {} PROVE f[S] = f[S \ {Max(S)}] + s[Max(S)]
    <3>1. S \in SUBSET (0..N)
      OBVIOUS
    <3>2. Max(S) \in S
      BY <1>2, <2>3, <3>1, MinMax
    <3>3. Max(S) \in 1..N /\ f[S \ {Max(S)}] \in Nat
      BY <3>2
    <3>4. f[S] = G[<<Max(S), f[S \ {Max(S)}]>>]
      BY <2>2, <2>3
    <3> QED
      BY <3>3, <3>4
  <2> QED
    BY <2>2, <2>3
<1>4. Recurs(f)
  BY <1>2, <1>3
<1>5. Recurs(Iter)
  <2> HIDE DEF Recurs
  <2> QED
    BY <1>4
<1> HIDE DEF Iter
<1>6. Iter[{}] = 0
  BY <1>2, <1>5
<1>7. ASSUME NEW k \in 1..N PROVE Iter[1..k] = Iter[1..(k - 1)] + s[k]
  <2>1. /\ Max(1..k) = k /\ (1..k) \ {k} = 1..(k - 1)
        /\ 1..k \in SUBSET (1..N) /\ 1..k # {}
    BY <1>2, WithoutMax
  <2>2. \A S \in SUBSET (1..N) : S # {} => Iter[S] = Iter[S \ {Max(S)}] + s[Max(S)]
    BY <1>2, <1>5
  <2>3. Iter[1..k] = Iter[(1..k) \ {Max(1..k)}] + s[Max(1..k)]
    BY <2>1, <2>2
  <2> QED
    BY <2>1, <2>3
<1> HIDE DEF Recurs
<1> DEFINE K == {k \in Nat : k <= N => Iter[1..k] \in Nat}
<1>8. 0 \in K
  BY <1>6
<1>9. ASSUME NEW k \in K PROVE k + 1 \in K
  <2>1. k \in Nat /\ (k <= N => Iter[1..k] \in Nat)
    OBVIOUS
  <2>2. CASE k + 1 <= N
    <3>1. k + 1 \in 1..N /\ (k + 1) - 1 = k /\ k <= N
      BY <1>2, <2>1, <2>2
    <3>2. Iter[1..(k + 1)] = Iter[1..k] + s[k + 1]
      BY <1>7, <3>1
    <3> QED
      BY <1>2, <2>1, <3>1, <3>2
  <2> QED
    BY <2>1, <2>2
<1>10. K = Nat
  <2> HIDE DEF K
  <2>1. K \in SUBSET Nat
    BY DEF K
  <2> QED
    BY <1>8, <1>9, <2>1, NatSets
<1> DEFINE g == [k \in 0..N |-> Iter[1..k]]
<1>11. g \in [0..N -> Nat]
  <2>1. ASSUME NEW k \in 0..N PROVE Iter[1..k] \in Nat
    <3>1. k \in K /\ k <= N
      BY <1>2, <1>10
    <3> QED
      BY <3>1
  <2> QED
    BY <2>1
<1>12. g[0] = 0 /\ g[N] = Iter[DOMAIN s]
  BY <1>2, <1>6
<1>13. ASSUME NEW k \in 1..N PROVE g[k] = g[k - 1] + s[k]
  <2>1. k \in 0..N /\ k - 1 \in 0..N
    BY <1>2
  <2> QED
    BY <1>7, <2>1
<1> QED
  <2> HIDE DEF g
  <2> QED
    BY <1>1, <1>11, <1>12, <1>13 DEF N

\* A sum is no less than its parts, and grows with them.
LEMMA TotalGrows ==
  ASSUME NEW s \in Seq(Nat), NEW t \in Seq(Nat), Len(s) = Len(t), \A i \in 1..Len(s) : s[i] <= t[i]
  PROVE  Total(s) \in Nat /\ Total(t) \in Nat /\ Total(s) <= Total(t)
<1> DEFINE n == Len(s)
<1>1. PICK g \in [0..n -> Nat] :
        g[0] = 0 /\ (\A k \in 1..n : g[k] = g[k - 1] + s[k]) /\ Total(s) = g[n]
  BY FoldTotal
<1>2. PICK h \in [0..n -> Nat] :
        h[0] = 0 /\ (\A k \in 1..n : h[k] = h[k - 1] + t[k]) /\ Total(t) = h[n]
  BY FoldTotal
<1>3. n \in Nat /\ \A i \in 1..n : s[i] \in Nat /\ t[i] \in Nat /\ s[i] <= t[i]
  OBVIOUS
<1> HIDE DEF n
<1> DEFINE K == {k \in Nat : k <= n => g[k] <= h[k]}
<1>4. 0 \in K
  BY <1>1, <1>2
<1>5. ASSUME NEW k \in K PROVE k + 1 \in K
  <2>1. k \in Nat /\ (k <= n => g[k] <= h[k])
    OBVIOUS
  <2>2. ASSUME k + 1 <= n PROVE g[k + 1] <= h[k + 1]
    <3>1. k + 1 \in 1..n /\ k \in 0..n /\ (k + 1) - 1 = k /\ k <= n
      BY <1>3, <2>1, <2>2
    <3> HIDE DEF K
    <3>2. g[k + 1] = g[k] + s[k + 1] /\ g[k] \in Nat
      BY <1>1, <3>1
    <3>4. h[k + 1] = h[k] + t[k + 1] /\ h[k] \in Nat
      BY <1>2, <3>1
    <3>3. s[k + 1] \in Nat /\ t[k + 1] \in Nat /\ s[k + 1] <= t[k + 1] /\ g[k] <= h[k]
      BY <1>3, <2>1, <3>1
    <3> QED
      BY <3>2, <3>3, <3>4
  <2> QED
    BY <2>1, <2>2
<1>6. K = Nat
  <2> HIDE DEF K
  <2>1. K \in SUBSET Nat
    BY DEF K
  <2> QED
    BY <1>4, <1>5, <2>1, NatSets
<1> HIDE DEF K
<1>7. n \in K /\ n \in 0..n
  BY <1>3, <1>6
<1>8. g[n] \in Nat /\ h[n] \in Nat /\ g[n] <= h[n]
  BY <1>1, <1>2, <1>3, <1>7 DEF K
<1> QED
  BY <1>1, <1>2, <1>8

\* Nothing adds up to nothing only.
LEMMA TotalZero ==
  ASSUME NEW s \in Seq(Nat)
  PROVE  Total(s) = 0 <=> \A i \in 1..Len(s) : s[i] = 0
<1> DEFINE n == Len(s)
<1>1. PICK g \in [0..n -> Nat] :
        g[0] = 0 /\ (\A k \in 1..n : g[k] = g[k - 1] + s[k]) /\ Total(s) = g[n]
  BY FoldTotal
<1>2. n \in Nat /\ \A i \in 1..n : s[i] \in Nat
  OBVIOUS
<1> HIDE DEF n
<1> DEFINE K == {k \in Nat : k <= n => (g[k] = 0 <=> \A i \in 1..k : s[i] = 0)}
<1>4. 0 \in K
  BY <1>1
<1>5. ASSUME NEW k \in K PROVE k + 1 \in K
  <2>1. k \in Nat /\ (k <= n => (g[k] = 0 <=> \A i \in 1..k : s[i] = 0))
    OBVIOUS
  <2>2. ASSUME k + 1 <= n PROVE g[k + 1] = 0 <=> \A i \in 1..(k + 1) : s[i] = 0
    <3>0. 1..(k + 1) = (1..k) \cup {k + 1}
      BY <2>1
    <3>1. k + 1 \in 1..n /\ k \in 0..n /\ (k + 1) - 1 = k /\ k <= n
      BY <1>2, <2>1, <2>2
    <3>2. g[k + 1] = g[k] + s[k + 1] /\ g[k] \in Nat /\ s[k + 1] \in Nat
      BY <1>1, <1>2, <3>1
    <3>3. g[k + 1] = 0 <=> g[k] = 0 /\ s[k + 1] = 0
      BY <3>2
    <3> QED
      BY <2>1, <3>0, <3>1, <3>3
  <2> QED
    BY <2>1, <2>2
<1>6. K = Nat
  <2> HIDE DEF K
  <2>1. K \in SUBSET Nat
    BY DEF K
  <2> QED
    BY <1>4, <1>5, <2>1, NatSets
<1> QED
  BY <1>1, <1>2, <1>6 DEF n

LEMMA TotalOfEmpty == Total(<<>>) = 0
<1>1. <<>> \in Seq(Nat) /\ Len(<<>>) = 0
  BY EmptySeq
<1> QED
  BY <1>1, FoldTotal

LEMMA TotalOfOneMore ==
  ASSUME NEW s \in Seq(Nat), NEW x \in Nat
  PROVE  /\ Append(s, x) \in Seq(Nat) /\ Len(Append(s, x)) = Len(s) + 1
         /\ Total(Append(s, x)) = Total(s) + x
<1> DEFINE n == Len(s)
           t == Append(s, x)
<1>1. n \in Nat /\ t \in Seq(Nat) /\ Len(t) = n + 1 /\ t[n + 1] = x /\ \A i \in 1..n : s[i] \in Nat /\ t[i] = s[i]
  BY AppendProperties
<1>2. PICK g \in [0..n -> Nat] :
        g[0] = 0 /\ (\A k \in 1..n : g[k] = g[k - 1] + s[k]) /\ Total(s) = g[n]
  BY FoldTotal
<1> HIDE DEF t
<1>3. PICK h \in [0..Len(t) -> Nat] :
        h[0] = 0 /\ (\A k \in 1..Len(t) : h[k] = h[k - 1] + t[k]) /\ Total(t) = h[Len(t)]
  BY <1>1, FoldTotal
<1> HIDE DEF n
<1> DEFINE K == {k \in Nat : k <= n => g[k] = h[k]}
<1>4. 0 \in K
  BY <1>2, <1>3
<1>5. ASSUME NEW k \in K PROVE k + 1 \in K
  <2>1. k \in Nat /\ (k <= n => g[k] = h[k])
    OBVIOUS
  <2> DEFINE m == k + 1
  <2>2. ASSUME m <= n PROVE g[m] = h[m]
    <3>1. m \in 1..n /\ m \in 1..Len(t) /\ m - 1 = k /\ k <= n
      BY <1>1, <2>1, <2>2
    <3> HIDE DEF m, K
    <3> QED
      BY <1>1, <1>2, <1>3, <2>1, <3>1
  <2> QED
    BY <2>1, <2>2
<1>6. K = Nat
  <2> HIDE DEF K
  <2>1. K \in SUBSET Nat
    BY DEF K
  <2> QED
    BY <1>4, <1>5, <2>1, NatSets
<1> HIDE DEF K
<1>7. g[n] = h[n]
  <2>1. n \in K
    BY <1>1, <1>6
  <2> QED
    BY <1>1, <2>1 DEF K
<1>8. h[n + 1] = h[n] + t[n + 1]
  <2>1. n + 1 \in 1..Len(t) /\ (n + 1) - 1 = n
    BY <1>1
  <2> QED
    BY <1>3, <2>1
<1>9. Total(t) = Total(s) + x
  BY <1>1, <1>2, <1>3, <1>7, <1>8
<1> QED
  BY <1>1, <1>9 DEF t, n

\* Quotients.
LEMMA Division ==
  ASSUME NEW a \in Nat, NEW b \in Nat \ {0}
  PROVE  a \div b \in Nat /\ b * (a \div b) <= a /\ a < b * (a \div b) + b
OBVIOUS

LEMMA Times ==
  ASSUME NEW b \in Nat, NEW q \in Nat, NEW r \in Nat, q <= r
  PROVE  b * q \in Nat /\ b * r \in Nat /\ b * q <= b * r
OBVIOUS

LEMMA Quotient ==
  ASSUME NEW a \in Nat, NEW b \in Nat \ {0}, NEW q \in Nat, b * q <= a, a < b * q + b
  PROVE  a \div b = q
OBVIOUS

LEMMA DivisionGrows ==
  ASSUME NEW a \in Nat, NEW c \in Nat, NEW b \in Nat \ {0}, a <= c
  PROVE  a \div b <= c \div b
OBVIOUS

\* A fraction may be reduced.
LEMMA Reduced ==
  ASSUME NEW a \in Nat, NEW b \in Nat \ {0}, NEW p \in Nat \ {0}
  PROVE  (a * p) \div (b * p) = a \div b
OBVIOUS

LEMMA QuotientBounds ==
  ASSUME NEW a \in Nat, NEW b \in Nat \ {0}, NEW k \in Nat
  PROVE  /\ a \div b \in Nat
         /\ k <= a \div b <=> b * k <= a
         /\ a \div b <= k <=> a < b * (k + 1)
<1> DEFINE q == a \div b
           p == b * q
<1>1. q \in Nat /\ p \in Nat /\ p <= a /\ a < p + b
  BY Division, Times
<1> HIDE DEF p
<1>2. p = b * q
  BY DEF p
<1> HIDE DEF q
<1>3. ASSUME k <= q PROVE b * k <= a
  <2>1. b * k \in Nat /\ b * k <= b * q
    BY <1>1, <1>3, Times
  <2> QED
    BY <1>1, <1>2, <2>1
<1>4. ASSUME ~(k <= q) PROVE ~(b * k <= a)
  <2>1. q + 1 \in Nat /\ q + 1 <= k
    BY <1>1, <1>4
  <2>2. b * (q + 1) <= b * k /\ b * k \in Nat
    BY <2>1, Times
  <2>3. b * (q + 1) = b * q + b
    BY <1>1
  <2> QED
    BY <1>1, <1>2, <2>2, <2>3
<1>5. ASSUME q <= k PROVE a < b * (k + 1)
  <2>1. q + 1 \in Nat /\ k + 1 \in Nat /\ q + 1 <= k + 1
    BY <1>1, <1>5
  <2>2. b * (q + 1) <= b * (k + 1) /\ b * (k + 1) \in Nat
    BY <2>1, Times
  <2>3. b * (q + 1) = b * q + b
    BY <1>1
  <2> QED
    BY <1>1, <1>2, <2>2, <2>3
<1>6. ASSUME ~(q <= k) PROVE ~(a < b * (k + 1))
  <2>1. k + 1 \in Nat /\ k + 1 <= q
    BY <1>1, <1>6
  <2>2. b * (k + 1) <= b * q /\ b * (k + 1) \in Nat
    BY <1>1, <2>1, Times
  <2> QED
    BY <1>1, <1>2, <2>2
<1> QED
  BY <1>1, <1>3, <1>4, <1>5, <1>6 DEF q

-----------------------------------------------------------------------------
(***************************************************************************)
(* Sequences of sequences.                                                 *)
(***************************************************************************)

LEMMA ToSetOfConcatenation ==
  ASSUME NEW T, NEW s \in Seq(T), NEW t \in Seq(T)
  PROVE  s \o t \in Seq(T) /\ ToSet(s \o t) = ToSet(s) \cup ToSet(t)
<1>1. /\ s \o t \in Seq(T) /\ Len(s) \in Nat /\ Len(t) \in Nat /\ Len(s \o t) = Len(s) + Len(t)
      /\ DOMAIN s = 1..Len(s) /\ DOMAIN t = 1..Len(t) /\ DOMAIN (s \o t) = 1..(Len(s) + Len(t))
  OBVIOUS
<1>2. \A i \in 1..Len(s) : i \in 1..(Len(s) + Len(t)) /\ (s \o t)[i] = s[i]
  BY <1>1
<1>3. \A i \in 1..Len(t) : Len(s) + i \in 1..(Len(s) + Len(t)) /\ (s \o t)[Len(s) + i] = t[i]
  BY <1>1
<1>4. ASSUME NEW k \in 1..(Len(s) + Len(t)) PROVE (s \o t)[k] \in ToSet(s) \cup ToSet(t)
  <2>1. CASE k \in 1..Len(s)
    BY <1>1, <1>2, <2>1 DEF ToSet
  <2>2. CASE k \notin 1..Len(s)
    <3>1. k - Len(s) \in 1..Len(t) /\ Len(s) + (k - Len(s)) = k
      BY <1>1, <2>2
    <3>2. (s \o t)[k] = t[k - Len(s)]
      BY <1>3, <3>1
    <3> QED
      BY <1>1, <3>1, <3>2 DEF ToSet
  <2> QED
    BY <2>1, <2>2
<1>5. ToSet(s \o t) \subseteq ToSet(s) \cup ToSet(t)
  <2>1. ToSet(s \o t) = {(s \o t)[k] : k \in 1..(Len(s) + Len(t))}
    BY <1>1 DEF ToSet
  <2> QED
    BY <1>4, <2>1
<1>6. ASSUME NEW i \in 1..Len(s) PROVE s[i] \in ToSet(s \o t)
  BY <1>1, <1>2 DEF ToSet
<1>7. ASSUME NEW i \in 1..Len(t) PROVE t[i] \in ToSet(s \o t)
  BY <1>1, <1>3 DEF ToSet
<1>8. ToSet(s) = {s[i] : i \in 1..Len(s)} /\ ToSet(t) = {t[i] : i \in 1..Len(t)}
  BY <1>1 DEF ToSet
<1> QED
  BY <1>1, <1>5, <1>6, <1>7, <1>8

\* Sequences one after the other.
Concatenates(g, n, ss) ==
  /\ g[0] = <<>>
  /\ \A k \in 1..n : g[k] = g[k - 1] \o ss[k]
  /\ FlattenSeq(ss) = g[n]

LEMMA FlattenRuns ==
  ASSUME NEW T, NEW n \in Nat, NEW ss \in [1..n -> Seq(T)]
  PROVE  \E g \in [0..n -> Seq(T)] : Concatenates(g, n, ss)
<1> SUFFICES \E g \in [0..n -> Seq(T)] :
               /\ g[0] = <<>>
               /\ \A k \in 1..n : g[k] = g[k - 1] \o ss[k]
               /\ FlattenSeq(ss) = g[n]
  BY DEF Concatenates
<1>1. ss \in Seq(Seq(T)) /\ Len(ss) = n
  <2>1. ss \in Seq(Seq(T))
    <3>1. ss \in UNION {[1..m -> Seq(T)] : m \in Nat}
      OBVIOUS
    <3>2. Seq(Seq(T)) = UNION {[1..m -> Seq(T)] : m \in Nat}
      BY SeqDef, Zenon
    <3> QED
      BY <3>1, <3>2, Zenon
  <2>2. DOMAIN ss = 1..n /\ DOMAIN ss = 1..Len(ss) /\ Len(ss) \in Nat
    BY <2>1
  <2> QED
    BY <2>1, <2>2
<1>2. PICK g \in [0..n -> Seq(T)] : g[0] = <<>> /\ \A k \in 1..n : g[k] = g[k - 1] \o ss[k]
  <2> DEFINE V == Seq(T)
             H == [p \in (1..n) \X V |-> p[2] \o ss[p[1]]]
  <2>1. <<>> \in V /\ H \in [(1..n) \X V -> V]
    BY EmptySeq
  <2>2. \A k \in 1..n, v \in V : H[<<k, v>>] = v \o ss[k]
    OBVIOUS
  <2> HIDE DEF H, V
  <2>3. PICK g \in [0..n -> V] : Runs(g, n, <<>>, H)
    BY <2>1, RunsDefined
  <2>4. ASSUME NEW k \in 1..n PROVE g[k] = g[k - 1] \o ss[k]
    <3>1. g[k - 1] \in V
      OBVIOUS
    <3> QED
      BY <2>2, <2>3, <3>1 DEF Runs
  <2> QED
    BY <2>3, <2>4 DEF Runs, V
<1>3. CASE n = 0
  <2>1. ss = <<>>
    BY <1>1, <1>3
  <2>2. FlattenSeq(ss) = <<>>
    BY <1>1, <1>3, <2>1 DEF FlattenSeq
  <2> QED
    BY <1>2, <1>3, <2>2
<1>4. CASE n # 0
  <2> DEFINE Recurs(f) == f = [i \in 1..n |-> IF i = 1 THEN ss[i] ELSE f[i - 1] \o ss[i]]
             F == CHOOSE f : Recurs(f)
             h == [i \in 1..n |-> g[i]]
  <2>1. FlattenSeq(ss) = F[n]
    BY <1>1, <1>4 DEF FlattenSeq
  <2>2. ASSUME NEW i \in 1..n PROVE h[i] = IF i = 1 THEN ss[i] ELSE h[i - 1] \o ss[i]
    <3>1. CASE i = 1
      <4>0. i - 1 = 0 /\ ss[i] \in Seq(T)
        BY <3>1
      <4>1. h[i] = g[i] /\ g[i] = g[i - 1] \o ss[i] /\ g[0] = <<>> /\ ss[i] \in Seq(T)
        BY <1>2, <4>0
      <4>2. <<>> \o ss[i] = ss[i]
        BY <4>1, ConcatEmptySeq
      <4> QED
        BY <3>1, <4>0, <4>1, <4>2
    <3>2. CASE i # 1
      <4>1. i - 1 \in 1..n
        BY <3>2
      <4> QED
        BY <1>2, <3>2, <4>1
    <3> QED
      BY <3>1, <3>2
  <2>3. Recurs(h)
    <3>1. h = [i \in 1..n |-> h[i]]
      OBVIOUS
    <3> HIDE DEF h
    <3> QED
      BY <2>2, <3>1
  <2>4. Recurs(F)
    <3> HIDE DEF Recurs, h
    <3> QED
      BY <2>3
  <2> HIDE DEF F
  <2>5. \A i \in 1..n : F[i] = IF i = 1 THEN ss[i] ELSE F[i - 1] \o ss[i]
    BY <2>4
  <2> HIDE DEF Recurs
  <2> DEFINE K == {k \in Nat : k + 1 <= n => F[k + 1] = h[k + 1]}
  <2>6. 0 \in K
    <3>1. 1 \in 1..n /\ 0 + 1 = 1
      BY <1>4
    <3> HIDE DEF h
    <3> QED
      BY <2>2, <2>5, <3>1
  <2>7. ASSUME NEW k \in K PROVE k + 1 \in K
    <3>1. k \in Nat /\ (k + 1 <= n => F[k + 1] = h[k + 1])
      OBVIOUS
    <3> DEFINE i == (k + 1) + 1
    <3>2. ASSUME i <= n PROVE F[i] = h[i]
      <4>1. i \in 1..n /\ i # 1 /\ i - 1 = k + 1 /\ k + 1 <= n
        BY <3>1, <3>2
      <4> HIDE DEF i, h
      <4> QED
        BY <2>2, <2>5, <3>1, <4>1
    <3> QED
      BY <3>1, <3>2
  <2>8. K = Nat
    <3> HIDE DEF K
    <3>1. K \in SUBSET Nat
      BY DEF K
    <3> QED
      BY <2>6, <2>7, <3>1, NatSets
  <2> HIDE DEF K
  <2>9. n - 1 \in K /\ (n - 1) + 1 = n
    BY <1>4, <2>8
  <2>10. F[n] = h[n]
    BY <2>9 DEF K
  <2>11. FlattenSeq(ss) = g[n]
    BY <1>4, <2>1, <2>10
  <2> HIDE DEF h
  <2> QED
    BY <1>2, <2>11
<1> QED
  BY <1>3, <1>4

\* What a flattened sequence of sequences holds.
LEMMA Flattened ==
  ASSUME NEW T, NEW n \in Nat, NEW ss \in [1..n -> Seq(T)]
  PROVE  /\ FlattenSeq(ss) \in Seq(T)
         /\ ToSet(FlattenSeq(ss)) = UNION {ToSet(ss[i]) : i \in 1..n}
<1>1. PICK g \in [0..n -> Seq(T)] :
           /\ g[0] = <<>>
           /\ \A k \in 1..n : g[k] = g[k - 1] \o ss[k]
           /\ FlattenSeq(ss) = g[n]
  BY FlattenRuns DEF Concatenates
<1> DEFINE K == {k \in Nat : k <= n => ToSet(g[k]) = UNION {ToSet(ss[i]) : i \in 1..k}}
<1>2. 0 \in K
  <2>1. ToSet(<<>>) = {}
    BY DEF ToSet
  <2> QED
    BY <1>1, <2>1
<1>3. ASSUME NEW k \in K PROVE k + 1 \in K
  <2>1. k \in Nat /\ (k <= n => ToSet(g[k]) = UNION {ToSet(ss[i]) : i \in 1..k})
    OBVIOUS
  <2> DEFINE m == k + 1
  <2>2. ASSUME m <= n PROVE ToSet(g[m]) = UNION {ToSet(ss[i]) : i \in 1..m}
    <3>1. m \in 1..n /\ m - 1 = k /\ k <= n /\ k \in 0..n /\ 1..m = (1..k) \cup {m}
      BY <2>1, <2>2
    <3> HIDE DEF m, K
    <3>2. g[m] = g[k] \o ss[m] /\ g[k] \in Seq(T) /\ ss[m] \in Seq(T)
      BY <1>1, <3>1
    <3>3. ToSet(g[m]) = ToSet(g[k]) \cup ToSet(ss[m])
      BY <3>2, ToSetOfConcatenation
    <3>4. UNION {ToSet(ss[i]) : i \in 1..m} = (UNION {ToSet(ss[i]) : i \in 1..k}) \cup ToSet(ss[m])
      BY <3>1
    <3> QED
      BY <2>1, <3>1, <3>3, <3>4
  <2> QED
    BY <2>1, <2>2
<1>4. K = Nat
  <2> HIDE DEF K
  <2>1. K \in SUBSET Nat
    BY DEF K
  <2> QED
    BY <1>2, <1>3, <2>1, NatSets
<1> HIDE DEF K
<1>5. n \in K /\ n \in 0..n
  BY <1>4
<1> QED
  BY <1>1, <1>5 DEF K

-----------------------------------------------------------------------------
(***************************************************************************)
(* Cabin quality scores. An area earns a part of the points that are       *)
(* possible for it, all of them when none of its items failed, so a form   *)
(* that passes earns all that is possible.                                 *)
(***************************************************************************)

WeightsOK(weights) == DOMAIN weights \subseteq Groups /\ \A g \in DOMAIN weights : weights[g] \in Nat

\* Every area falls into a known group.
LEMMA GroupKnown ==
  ASSUME NEW area \in Area
  PROVE  GroupOf(area) \in Groups
<1> DEFINE I == {i \in 1..Len(Rules) : Rules[i][1] \cap area.words # {}}
           rule == IF I # {} THEN Min(I) ELSE 0
<1>1. GroupOf(area) = IF area.group \in Groups THEN area.group ELSE IF rule = 0 THEN "other" ELSE Rules[rule][2]
  BY DEF GroupOf, SelectInSeq
<1>2. Len(Rules) = 5 /\ \A i \in 1..5 : Rules[i][2] \in Groups
  BY DEF Rules, Groups
<1>3. I \in SUBSET (0..5) /\ I \subseteq 1..5
  BY <1>2
<1> HIDE DEF I
<1>4. rule = 0 \/ rule \in 1..5
  BY <1>3, MinMax
<1> HIDE DEF rule
<1>5. "other" \in Groups
  BY DEF Groups
<1> QED
  BY <1>1, <1>2, <1>4, <1>5

LEMMA WeightKnown ==
  ASSUME NEW weights, WeightsOK(weights), NEW g \in Groups
  PROVE  NormalWeights(weights)[g] \in Nat
<1>1. DefaultWeights[g] * Fraction \in Nat
  <2>1. DefaultWeights[g] \in Nat /\ Fraction \in Nat
    BY ScoringAssumption DEF Groups, DefaultWeights
  <2> QED
    BY <2>1
<1> QED
  BY <1>1 DEF NormalWeights, WeightsOK

\* The points of an area that applies.
Points(weight, pass, count, items) == Round(weight * pass, count * items)

\* The passing share of the points is no more than the points.
LEMMA PointsOfArea ==
  ASSUME NEW weight \in Nat, NEW count \in Nat \ {0}, NEW items \in Nat \ {0}, NEW pass \in Nat, pass <= items
  PROVE  /\ Points(weight, pass, count, items) \in Nat
         /\ Round(weight, count) \in Nat
         /\ Points(weight, pass, count, items) <= Round(weight, count)
         /\ pass = items => Points(weight, pass, count, items) = Round(weight, count)
<1> DEFINE a == 2 * (weight * pass) + count * items
           c == (2 * weight + count) * items
           b == (2 * count) * items
<1>1. weight * pass \in Nat /\ weight * items \in Nat /\ weight * pass <= weight * items
  BY Times
<1>2. count * items \in Nat \ {0}
  OBVIOUS
<1>3. c = 2 * (weight * items) + count * items
  OBVIOUS
<1>4. b = 2 * (count * items)
  OBVIOUS
<1>5. a \in Nat /\ c \in Nat /\ a <= c /\ b \in Nat \ {0} /\ (pass = items => a = c)
  BY <1>1, <1>2, <1>3, <1>4
<1>6. Points(weight, pass, count, items) = a \div b
  BY <1>4 DEF Round, Points
<1>7. Round(weight, count) = c \div b
  <2>1. 2 * weight + count \in Nat /\ 2 * count \in Nat \ {0}
    OBVIOUS
  <2>2. c \div b = (2 * weight + count) \div (2 * count)
    BY <2>1, Reduced
  <2> QED
    BY <2>2 DEF Round
<1> HIDE DEF a, b, c
<1>8. a \div b <= c \div b /\ a \div b \in Nat /\ c \div b \in Nat
  BY <1>5, DivisionGrows, Division
<1> QED
  BY <1>5, <1>6, <1>7, <1>8

\* An area earns no more than is possible, all of it where nothing failed.
LEMMA AreaScored ==
  ASSUME NEW areas \in Seq(Area), NEW weights, WeightsOK(weights), NEW i \in DOMAIN areas
  PROVE  LET scored == ScoredArea(areas[i], areas, weights) IN
         /\ scored.earned \in Nat /\ scored.possible \in Nat /\ scored.earned <= scored.possible
         /\ areas[i].fail = 0 => scored.earned = scored.possible
         /\ scored.status = "fail" <=> areas[i].fail > 0
<1> DEFINE area == areas[i]
           group == GroupOf(area)
           number == ApplicableAreas(areas, group)
           count == Fraction * number
           weight == NormalWeights(weights)[group] * Precision
           items == ApplicableItems(area)
<1>1. area \in Area /\ DOMAIN areas = 1..Len(areas) /\ Len(areas) \in Nat
  OBVIOUS
<1>2. area.pass \in Nat /\ area.fail \in Nat /\ items = area.pass + area.fail
  BY <1>1 DEF Area, ApplicableItems
<1>3. weight \in Nat
  <2>1. NormalWeights(weights)[group] \in Nat
    BY <1>1, GroupKnown, WeightKnown
  <2> QED
    BY <2>1, ScoringAssumption
<1>4. Applies(area) => count \in Nat \ {0}
  <2> DEFINE S == {j \in DOMAIN areas : GroupOf(areas[j]) = group /\ Applies(areas[j])}
  <2>1. IsFiniteSet(DOMAIN areas)
    BY <1>1, FS_Interval
  <2>2. IsFiniteSet(S)
    BY <2>1, FS_Subset
  <2>3. Applies(area) => S # {}
    OBVIOUS
  <2>4. number = Cardinality(S)
    BY DEF ApplicableAreas
  <2> HIDE DEF S
  <2>5. Applies(area) => number \in Nat \ {0}
    BY <2>2, <2>3, <2>4, FS_CardinalityType, FS_EmptySet
  <2> HIDE DEF number
  <2> QED
    BY <2>5, ScoringAssumption
<1>5. Applies(area) <=> items > 0
  BY DEF Applies
<1> DEFINE scored == ScoredArea(area, areas, weights)
<1>6. /\ scored.earned = IF Applies(area) THEN Points(weight, area.pass, count, items) ELSE 0
      /\ scored.possible = IF Applies(area) THEN Round(weight, count) ELSE 0
      /\ scored.status = AreaStatus(area)
  BY DEF ScoredArea, Points
<1>7. AreaStatus(area) = "fail" <=> area.fail > 0
  BY <1>2 DEF AreaStatus
<1> HIDE DEF area, count, weight, items, scored
<1>8. CASE Applies(area)
  <2>1. items \in Nat \ {0} /\ area.pass <= items /\ (area.fail = 0 => area.pass = items)
    BY <1>2, <1>5, <1>8
  <2>2. count \in Nat \ {0}
    BY <1>4, <1>8
  <2>3. /\ Points(weight, area.pass, count, items) \in Nat
        /\ Round(weight, count) \in Nat
        /\ Points(weight, area.pass, count, items) <= Round(weight, count)
        /\ area.pass = items => Points(weight, area.pass, count, items) = Round(weight, count)
    BY <1>2, <1>3, <2>1, <2>2, PointsOfArea
  <2> QED
    BY <1>6, <1>7, <1>8, <2>1, <2>3 DEF scored, area
<1>9. CASE ~Applies(area)
  BY <1>6, <1>7, <1>9 DEF scored, area
<1> QED
  BY <1>8, <1>9

\* The percentage and the score of what was earned.
PercentOf(earned, possible) == IF possible = 0 THEN 0 ELSE Round(earned * 10000, possible)

\* The score is out of a hundred, which is what all possible points give.
LEMMA ScoreOfTotals ==
  ASSUME NEW earned \in Nat, NEW possible \in Nat, earned <= possible
  PROVE  /\ Round(PercentOf(earned, possible), 100) \in 0..100
         /\ possible = 0 => Round(PercentOf(earned, possible), 100) = 0
         /\ possible # 0 /\ earned = possible => Round(PercentOf(earned, possible), 100) = 100
<1> DEFINE percent == PercentOf(earned, possible)
<1>1. CASE possible = 0
  <2>1. percent = 0 /\ Round(0, 100) = 0
    BY <1>1 DEF Round, PercentOf
  <2> QED
    BY <1>1, <2>1
<1>2. CASE possible # 0
  <2> DEFINE a == 2 * (earned * 10000) + possible
             c == 2 * (possible * 10000) + possible
             b == 2 * possible
  <2>1. a \in Nat /\ c \in Nat /\ a <= c /\ b \in Nat \ {0} /\ (earned = possible => a = c)
    BY <1>2
  <2>2. b * 10000 <= c /\ c < b * 10000 + b
    BY <1>2
  <2>3. percent = a \div b
    BY <1>2 DEF Round, PercentOf
  <2> HIDE DEF a, b, c, percent
  <2>4. c \div b = 10000
    BY <2>1, <2>2, Quotient
  <2>5. a \div b \in Nat /\ a \div b <= c \div b
    BY <2>1, Division, DivisionGrows
  <2>6. percent \in Nat /\ percent <= 10000 /\ (earned = possible => percent = 10000)
    BY <2>1, <2>3, <2>4, <2>5
  <2>7. Round(percent, 100) \in 0..100 /\ (percent = 10000 => Round(percent, 100) = 100)
    BY <2>6 DEF Round
  <2> QED
    BY <1>2, <2>6, <2>7 DEF percent
<1> QED
  BY <1>1, <1>2

Stands(summary, areas) ==
  /\ summary.status = "FAIL" <=> \E area \in ToSet(areas) : area.fail > 0
  /\ summary.score \in 0..100
  /\ summary.status = "PASS" => summary.score = IF summary.applicable = 0 THEN 0 ELSE 100

\* The summary of a form stands.
LEMMA SummaryOfScored ==
  ASSUME NEW areas \in Seq(Area), NEW weights, WeightsOK(weights)
  PROVE  Stands(Summary(Scored(areas, weights)), areas)
<1> DEFINE scored == Scored(areas, weights)
           n == Len(areas)
           es == [i \in 1..n |-> scored[i].earned]
           ps == [i \in 1..n |-> scored[i].possible]
           failed == {i \in 1..n : scored[i].status = "fail"}
           counted == {i \in 1..n : scored[i].possible > 0}
           percent == PercentOf(Total(es), Total(ps))
           summary == Summary(scored)
<1>1. n \in Nat /\ DOMAIN areas = 1..n /\ DOMAIN scored = 1..n /\ \A i \in 1..n : areas[i] \in Area
  BY DEF Scored
<1>2. ASSUME NEW i \in 1..n
      PROVE  /\ scored[i].earned \in Nat /\ scored[i].possible \in Nat /\ scored[i].earned <= scored[i].possible
             /\ areas[i].fail = 0 => scored[i].earned = scored[i].possible
             /\ scored[i].status = "fail" <=> areas[i].fail > 0
             /\ areas[i].fail \in Nat
  <2>1. scored[i] = ScoredArea(areas[i], areas, weights)
    BY <1>1 DEF Scored
  <2>2. areas[i].fail \in Nat
    BY <1>1 DEF Area
  <2> QED
    BY <1>1, <2>1, <2>2, AreaScored
<1>3. /\ summary.score = Round(percent, 100)
      /\ summary.status = IF failed = {} THEN "PASS" ELSE "FAIL"
      /\ summary.applicable = Cardinality(counted)
  <2> HIDE DEF scored
  <2>1. /\ es = [i \in DOMAIN scored |-> scored[i].earned]
        /\ ps = [i \in DOMAIN scored |-> scored[i].possible]
        /\ failed = {i \in DOMAIN scored : scored[i].status = "fail"}
        /\ counted = {i \in DOMAIN scored : scored[i].possible > 0}
    BY <1>1
  <2>2. LET p == PercentOf(Total([i \in DOMAIN scored |-> scored[i].earned]),
                           Total([i \in DOMAIN scored |-> scored[i].possible]))
            f == {i \in DOMAIN scored : scored[i].status = "fail"}
        IN  summary = [percent |-> p, score |-> Round(p, 100),
                       status |-> IF f = {} THEN "PASS" ELSE "FAIL",
                       applicable |-> Cardinality({i \in DOMAIN scored : scored[i].possible > 0}),
                       failed |-> Cardinality(f)]
    BY DEF Summary, PercentOf
  <2> HIDE DEF es, ps, failed, counted, summary
  <2> QED
    BY <2>1, <2>2
<1> HIDE DEF n, scored, summary, percent
<1>a. (\A i \in 1..n : es[i] \in Nat /\ es[i] = scored[i].earned) /\ DOMAIN es = 1..n
  BY <1>2
<1>b. (\A i \in 1..n : ps[i] \in Nat /\ ps[i] = scored[i].possible) /\ DOMAIN ps = 1..n
  BY <1>2
<1>c. es \in Seq(Nat) /\ ps \in Seq(Nat) /\ Len(es) = n /\ Len(ps) = n
  BY <1>1, <1>a, <1>b
<1>4. es \in Seq(Nat) /\ ps \in Seq(Nat) /\ Len(es) = n /\ Len(ps) = n /\ \A i \in 1..n : es[i] <= ps[i]
  <2> HIDE DEF es, ps
  <2> QED
    BY <1>2, <1>a, <1>b, <1>c
<1>5. (\A i \in 1..n : areas[i].fail = 0) => es = ps
  BY <1>2
<1>6. counted = {} <=> \A i \in 1..n : ps[i] = 0
  BY <1>2
<1> HIDE DEF es, ps
<1>7. Total(es) \in Nat /\ Total(ps) \in Nat /\ Total(es) <= Total(ps)
  BY <1>4, TotalGrows
<1>8. Total(ps) = 0 <=> counted = {}
  BY <1>4, <1>6, TotalZero
<1>9. Cardinality(counted) = 0 <=> counted = {}
  <2>1. IsFiniteSet(1..n)
    BY <1>1, FS_Interval
  <2>2. IsFiniteSet(counted)
    BY <2>1, FS_Subset
  <2> HIDE DEF counted
  <2> QED
    BY <2>2, FS_EmptySet
<1>10. failed = {} <=> \A i \in 1..n : areas[i].fail = 0
  BY <1>2
<1>11. (\E area \in ToSet(areas) : area.fail > 0) <=> ~ \A i \in 1..n : areas[i].fail = 0
  <2>1. ToSet(areas) = {areas[i] : i \in 1..n}
    BY <1>1 DEF ToSet
  <2>2. \A i \in 1..n : areas[i].fail > 0 <=> areas[i].fail # 0
    BY <1>2
  <2> QED
    BY <2>1, <2>2
<1>12. /\ Round(percent, 100) \in 0..100
       /\ Total(ps) = 0 => Round(percent, 100) = 0
       /\ Total(ps) # 0 /\ Total(es) = Total(ps) => Round(percent, 100) = 100
  BY <1>7, ScoreOfTotals DEF percent
<1> HIDE DEF counted, failed
<1>13. summary.status = "FAIL" <=> \E area \in ToSet(areas) : area.fail > 0
  BY <1>3, <1>10, <1>11
<1>14. summary.status = "PASS" => summary.score = IF summary.applicable = 0 THEN 0 ELSE 100
  BY <1>3, <1>5, <1>8, <1>9, <1>10, <1>12
<1> QED
  BY <1>3, <1>12, <1>13, <1>14 DEF Stands, summary, scored

\* What is stored is what the form that was filed scores.
ScoreIInv ==
  \/ form = NoForm /\ stored = <<>>
  \/ form.areas \in Seq(Area) /\ WeightsOK(form.weights) /\ stored = Scored(form.areas, form.weights)

\* Any filing keeps the invariant.
THEOREM ScoreInvariance == ScoreSpec => []ScoreIInv
<1>1. ScoreInit => ScoreIInv
  BY DEF ScoreInit, ScoreIInv
<1>2. ScoreIInv /\ [ScoreNext]_scoreVars => ScoreIInv'
  <2> SUFFICES ASSUME ScoreIInv, [ScoreNext]_scoreVars PROVE ScoreIInv'
    OBVIOUS
  <2>1. CASE FileAudit
    <3>1. PICK areas \in Forms, weights \in Weights :
            form' = [areas |-> areas, weights |-> weights] /\ stored' = Scored(areas, weights)
      BY <2>1 DEF FileAudit
    <3>2. areas \in Seq(Area) /\ WeightsOK(weights)
      BY ScoringAssumption DEF WeightsOK
    <3>3. form'.areas = areas /\ form'.weights = weights
      BY <3>1
    <3> QED
      BY <3>1, <3>2, <3>3 DEF ScoreIInv
  <2>2. CASE UNCHANGED scoreVars
    BY <2>2 DEF scoreVars, ScoreIInv
  <2> QED
    BY <2>1, <2>2 DEF ScoreNext
<1> QED
  BY <1>1, <1>2, PTL DEF ScoreSpec

\* The verdict and the range of the score stand for every form, all weights that are
\* not negative and have a common denominator, and any precision.
THEOREM VerdictsStand == ScoreSpec => []VerdictStands
<1>1. ScoreIInv => VerdictStands
  <2> SUFFICES ASSUME ScoreIInv, stored # <<>>
               PROVE  Stands(StoredSummary, form.areas)
    BY DEF VerdictStands, Stands
  <2>1. form.areas \in Seq(Area) /\ WeightsOK(form.weights) /\ stored = Scored(form.areas, form.weights)
    BY DEF ScoreIInv
  <2>2. StoredSummary = Summary(Scored(form.areas, form.weights))
    BY <2>1 DEF StoredSummary
  <2> QED
    BY <2>1, <2>2, SummaryOfScored
<1> QED
  BY <1>1, ScoreInvariance, PTL

-----------------------------------------------------------------------------
(***************************************************************************)
(* Seat maps. The places that a drawing offers are the union of what its   *)
(* sections offer, and neither the normal form nor dropping duplicates     *)
(* loses one.                                                              *)
(***************************************************************************)

\* Dropping duplicates goes candidate by candidate.
LEMMA FoldPush ==
  ASSUME NEW T, NEW s \in Seq(T), NEW V, <<>> \in V,
         \A v \in V, x \in T : Push(v, x) \in V
  PROVE  \E g \in [0..Len(s) -> V] :
           /\ g[0] = <<>>
           /\ \A k \in 1..Len(s) : g[k] = Push(g[k - 1], s[k])
           /\ Deduplicated(s) = g[Len(s)]
<1> DEFINE N == Len(s)
           Recurs(iter) == iter = [S \in SUBSET DOMAIN s |->
             IF S = {} THEN <<>> ELSE Push(iter[S \ {Max(S)}], s[Max(S)])]
           Iter == CHOOSE iter : Recurs(iter)
<1>1. Deduplicated(s) = Iter[DOMAIN s]
  BY DEF Deduplicated, FoldLeft, MapThenFoldSet
<1>2. N \in Nat /\ DOMAIN s = 1..N /\ \A k \in 1..N : s[k] \in T
  OBVIOUS
<1> HIDE DEF N
<1>3. PICK f \in [SUBSET (1..N) -> V] :
        \A S \in SUBSET (1..N) : f[S] = IF S = {} THEN <<>> ELSE Push(f[S \ {Max(S)}], s[Max(S)])
  <2> DEFINE G == [p \in (1..N) \X V |-> Push(p[2], s[p[1]])]
  <2>1. G \in [(1..N) \X V -> V]
    BY <1>2
  <2>2. PICK f \in [SUBSET (1..N) -> V] :
          \A S \in SUBSET (1..N) : f[S] = IF S = {} THEN <<>> ELSE G[<<Max(S), f[S \ {Max(S)}]>>]
    <3> HIDE DEF G, Recurs, Iter
    <3>1. N \in Nat
      BY <1>2
    <3>2. \E f \in [SUBSET (1..N) -> V] : SolvesFold(f, N, <<>>, G)
      BY <2>1, <3>1, FoldDefined
    <3> QED
      BY <3>2 DEF SolvesFold
  <2>3. ASSUME NEW S \in SUBSET (1..N), S # {} PROVE f[S] = Push(f[S \ {Max(S)}], s[Max(S)])
    <3>1. S \in SUBSET (0..N)
      OBVIOUS
    <3>2. Max(S) \in S
      BY <1>2, <2>3, <3>1, MinMax
    <3>3. Max(S) \in 1..N /\ f[S \ {Max(S)}] \in V
      BY <3>2
    <3>4. f[S] = G[<<Max(S), f[S \ {Max(S)}]>>]
      BY <2>2, <2>3
    <3> QED
      BY <3>3, <3>4
  <2> QED
    BY <2>2, <2>3
<1>4. Recurs(f)
  BY <1>2, <1>3
<1>5. Recurs(Iter)
  <2> HIDE DEF Recurs
  <2> QED
    BY <1>4
<1> HIDE DEF Iter
<1>6. Iter[{}] = <<>>
  BY <1>2, <1>5
<1>7. ASSUME NEW k \in 1..N PROVE Iter[1..k] = Push(Iter[1..(k - 1)], s[k])
  <2>1. /\ Max(1..k) = k /\ (1..k) \ {k} = 1..(k - 1)
        /\ 1..k \in SUBSET (1..N) /\ 1..k # {}
    BY <1>2, WithoutMax
  <2>2. \A S \in SUBSET (1..N) : S # {} => Iter[S] = Push(Iter[S \ {Max(S)}], s[Max(S)])
    BY <1>2, <1>5
  <2>3. Iter[1..k] = Push(Iter[(1..k) \ {Max(1..k)}], s[Max(1..k)])
    BY <2>1, <2>2
  <2> QED
    BY <2>1, <2>3
<1> HIDE DEF Recurs
<1> DEFINE K == {k \in Nat : k <= N => Iter[1..k] \in V}
<1>8. 0 \in K
  BY <1>6
<1>9. ASSUME NEW k \in K PROVE k + 1 \in K
  <2>1. k \in Nat /\ (k <= N => Iter[1..k] \in V)
    OBVIOUS
  <2>2. CASE k + 1 <= N
    <3>1. k + 1 \in 1..N /\ (k + 1) - 1 = k /\ k <= N
      BY <1>2, <2>1, <2>2
    <3>2. Iter[1..(k + 1)] = Push(Iter[1..k], s[k + 1])
      BY <1>7, <3>1
    <3> QED
      BY <1>2, <2>1, <3>1, <3>2
  <2> QED
    BY <2>1, <2>2
<1>10. K = Nat
  <2> HIDE DEF K
  <2>1. K \in SUBSET Nat
    BY DEF K
  <2> QED
    BY <1>8, <1>9, <2>1, NatSets
<1> DEFINE g == [k \in 0..N |-> Iter[1..k]]
<1>11. g \in [0..N -> V]
  <2>1. ASSUME NEW k \in 0..N PROVE Iter[1..k] \in V
    <3>1. k \in K /\ k <= N
      BY <1>2, <1>10
    <3> QED
      BY <3>1
  <2> QED
    BY <2>1
<1>12. g[0] = <<>> /\ g[N] = Iter[DOMAIN s]
  BY <1>2, <1>6
<1>13. ASSUME NEW k \in 1..N PROVE g[k] = Push(g[k - 1], s[k])
  <2>1. k \in 0..N /\ k - 1 \in 0..N
    BY <1>2
  <2> QED
    BY <1>7, <2>1
<1> QED
  <2> HIDE DEF g
  <2> QED
    BY <1>1, <1>11, <1>12, <1>13 DEF N

\* A seat is at a row, which is a number.
Shown == [kind : Text \cup {"SEAT"}, zone : Text \cup {ToString(n) : n \in Nat}, side : Text]
Offer == [place : Shown,
          type : {LocationType(p) : p \in Place} \cup {"SEAT"},
          section : {AmenitySectionLabel(p, t) : p \in Place, t \in Text} \cup Text]

LEMMA Singleton ==
  ASSUME NEW T, NEW x \in T
  PROVE  <<x>> \in Seq(T) /\ ToSet(<<x>>) = {x}
<1>1. <<x>> \in Seq(T) /\ DOMAIN <<x>> = {1} /\ <<x>>[1] = x
  OBVIOUS
<1> QED
  BY <1>1 DEF ToSet

LEMMA EmptyToSet == ToSet(<<>>) = {}
BY DEF ToSet

\* The columns of a section are those that are not blank.
LEMMA ColumnsKept ==
  ASSUME NEW list \in Seq(Text)
  PROVE  Columns(list) \in Seq(Text) /\ ToSet(Columns(list)) = ToSet(list) \ {""}
<1> DEFINE n == Len(list)
           ss == [i \in 1..n |-> IF list[i] = "" THEN <<>> ELSE <<list[i]>>]
<1>1. n \in Nat /\ DOMAIN list = 1..n /\ \A i \in 1..n : list[i] \in Text
  OBVIOUS
<1> HIDE DEF n
<1>2. Columns(list) = FlattenSeq(ss)
  BY <1>1 DEF Columns
<1>3. ASSUME NEW i \in 1..n
      PROVE  ss[i] \in Seq(Text) /\ ToSet(ss[i]) = IF list[i] = "" THEN {} ELSE {list[i]}
  <2>1. <<list[i]>> \in Seq(Text) /\ ToSet(<<list[i]>>) = {list[i]}
    BY <1>1, Singleton
  <2>2. <<>> \in Seq(Text) /\ ToSet(<<>>) = {}
    BY EmptySeq, EmptyToSet
  <2> QED
    BY <2>1, <2>2
<1>4. ss \in [1..n -> Seq(Text)]
  BY <1>3
<1>5. ToSet(list) = {list[i] : i \in 1..n}
  BY <1>1 DEF ToSet
<1> HIDE DEF ss
<1>6. /\ FlattenSeq(ss) \in Seq(Text)
      /\ ToSet(FlattenSeq(ss)) = UNION {ToSet(ss[i]) : i \in 1..n}
  BY <1>1, <1>4, Flattened
<1>7. UNION {ToSet(ss[i]) : i \in 1..n} = {list[i] : i \in 1..n} \ {""}
  BY <1>3
<1> QED
  BY <1>2, <1>5, <1>6, <1>7

LEMMA PlaceOffered ==
  ASSUME NEW place \in Place, NEW section \in Text
  PROVE  OfPlace(place, section) \in Seq(Offer)
<1>1. place \in Shown
  BY DEF Place, Shown
<1>2. [place |-> place, type |-> LocationType(place), section |-> AmenitySectionLabel(place, section)] \in Offer
  BY <1>1 DEF Offer
<1> HIDE DEF Offer
<1>3. <<>> \in Seq(Offer)
  BY EmptySeq
<1>4. <<[place |-> place, type |-> LocationType(place), section |-> AmenitySectionLabel(place, section)]>> \in Seq(Offer)
  BY <1>2, Singleton
<1> QED
  BY <1>3, <1>4 DEF OfPlace

LEMMA AmenityOffered ==
  ASSUME NEW a \in Amenity, NEW section \in Text
  PROVE  OfAmenity(a, section) \in Seq(Offer)
<1>1. a.left \in Place /\ a.right \in Place /\ a.label \in Place
  BY DEF Amenity
<1>2. /\ OfPlace(a.left, section) \in Seq(Offer) /\ OfPlace(a.right, section) \in Seq(Offer)
      /\ OfPlace(a.label, section) \in Seq(Offer)
  BY <1>1, PlaceOffered
<1> QED
  BY <1>2 DEF OfAmenity

LEMMA AmenitiesOffered ==
  ASSUME NEW list \in Seq(Amenity), NEW section \in Text
  PROVE  OfAmenities(list, section) \in Seq(Offer)
<1> DEFINE n == Len(list)
           ss == [i \in 1..n |-> OfAmenity(list[i], section)]
<1>1. n \in Nat /\ DOMAIN list = 1..n /\ \A i \in 1..n : list[i] \in Amenity
  OBVIOUS
<1> HIDE DEF n
<1>2. OfAmenities(list, section) = FlattenSeq(ss)
  BY <1>1 DEF OfAmenities
<1>3. ss \in [1..n -> Seq(Offer)]
  BY <1>1, AmenityOffered
<1> HIDE DEF ss
<1> QED
  BY <1>1, <1>2, <1>3, Flattened

\* A row has a seat in each column of either side.
LEMMA RowOffered ==
  ASSUME NEW s \in SeatSection, NEW row \in Nat
  PROVE  /\ OfRow(s, row) \in Seq(Offer)
         /\ ToSet(OfRow(s, row)) =
              {[place |-> Seat(ToString(row), c), type |-> "SEAT", section |-> s.name] :
                 c \in (ToSet(s.leftCols) \cup ToSet(s.rightCols)) \ {""}}
<1>1. s.leftCols \in Seq(Text) /\ s.rightCols \in Seq(Text) /\ s.name \in Text
  BY DEF SeatSection
<1> DEFINE columns == Columns(s.leftCols \o s.rightCols)
<1>2. /\ s.leftCols \o s.rightCols \in Seq(Text)
      /\ ToSet(s.leftCols \o s.rightCols) = ToSet(s.leftCols) \cup ToSet(s.rightCols)
  BY <1>1, ToSetOfConcatenation
<1>3. columns \in Seq(Text) /\ ToSet(columns) = (ToSet(s.leftCols) \cup ToSet(s.rightCols)) \ {""}
  BY <1>2, ColumnsKept
<1>4. OfRow(s, row) = [i \in DOMAIN columns |->
         [place |-> Seat(ToString(row), columns[i]), type |-> "SEAT", section |-> s.name]]
  BY DEF OfRow
<1> HIDE DEF columns
<1>a. columns \in Seq(Text)
  BY <1>3
<1> DEFINE n == Len(columns)
<1>5. n \in Nat /\ DOMAIN columns = 1..n /\ \A i \in 1..n : columns[i] \in Text
  BY <1>a
<1> HIDE DEF n
<1> DEFINE SeatAt(c) == [place |-> Seat(ToString(row), c), type |-> "SEAT", section |-> s.name]
<1>6. \A c \in Text : SeatAt(c) \in Offer
  BY <1>1 DEF Seat, Offer, Shown
<1> HIDE DEF SeatAt
<1>7. OfRow(s, row) = [i \in 1..n |-> SeatAt(columns[i])]
  BY <1>4, <1>5 DEF SeatAt
<1>8. OfRow(s, row) \in Seq(Offer)
  BY <1>5, <1>6, <1>7
<1>9. ToSet(OfRow(s, row)) = {SeatAt(columns[i]) : i \in 1..n} /\ ToSet(columns) = {columns[i] : i \in 1..n}
  BY <1>5, <1>7 DEF ToSet
<1>10. ToSet(OfRow(s, row)) = {SeatAt(c) : c \in ToSet(columns)}
  BY <1>9
<1> QED
  BY <1>3, <1>8, <1>10 DEF SeatAt

\* The rows of a section are those from its first to its last but for the ones left out.
LEMMA RowsOffered ==
  ASSUME NEW s \in SeatSection
  PROVE  /\ SeatRows(s) \in Seq(Offer)
         /\ ToSet(SeatRows(s)) =
              UNION {ToSet(OfRow(s, row)) : row \in {r \in 1..s.endRow : r >= s.startRow /\ r \notin s.skipRows}}
<1> DEFINE n == s.endRow
           ss == [row \in 1..n |-> IF row < s.startRow \/ row \in s.skipRows THEN <<>> ELSE OfRow(s, row)]
<1>1. n \in Nat /\ s.startRow \in Nat
  BY DEF SeatSection
<1>2. SeatRows(s) = FlattenSeq(ss)
  BY DEF SeatRows
<1> HIDE DEF n
<1>3. ss \in [1..n -> Seq(Offer)]
  <2>1. ASSUME NEW row \in 1..n PROVE ss[row] \in Seq(Offer)
    <3>1. row \in Nat
      BY <1>1
    <3>2. OfRow(s, row) \in Seq(Offer)
      BY <3>1, RowOffered
    <3>3. <<>> \in Seq(Offer)
      BY EmptySeq
    <3> QED
      BY <3>2, <3>3
  <2> QED
    BY <2>1
<1>4. \A row \in 1..n : ToSet(ss[row]) = IF row < s.startRow \/ row \in s.skipRows THEN {} ELSE ToSet(OfRow(s, row))
  BY EmptyToSet
<1> HIDE DEF ss
<1>5. FlattenSeq(ss) \in Seq(Offer) /\ ToSet(FlattenSeq(ss)) = UNION {ToSet(ss[row]) : row \in 1..n}
  <2> DEFINE T == Offer
  <2>1. ss \in [1..n -> Seq(T)]
    BY <1>3
  <2> HIDE DEF T
  <2>2. FlattenSeq(ss) \in Seq(T) /\ ToSet(FlattenSeq(ss)) = UNION {ToSet(ss[row]) : row \in 1..n}
    BY <1>1, <2>1, Flattened, SMTT(20)
  <2> QED
    BY <2>2 DEF T
<1>6. \A row \in 1..n : (row < s.startRow \/ row \in s.skipRows) <=> ~(row >= s.startRow /\ row \notin s.skipRows)
  BY <1>1
<1>7. UNION {ToSet(ss[row]) : row \in 1..n}
        = UNION {ToSet(OfRow(s, row)) : row \in {r \in 1..n : r >= s.startRow /\ r \notin s.skipRows}}
  BY <1>4, <1>6
<1> QED
  BY <1>2, <1>5, <1>7 DEF n

LEMMA SectionOffered ==
  ASSUME NEW s \in SeatSection
  PROVE  /\ OfSection(s) \in Seq(Offer)
         /\ ToSet(OfSection(s)) = ToSet(OfAmenities(s.before, s.name)) \cup ToSet(SeatRows(s))
                                    \cup ToSet(OfAmenities(s.after, s.name))
<1>1. s.before \in Seq(Amenity) /\ s.after \in Seq(Amenity) /\ s.name \in Text
  BY DEF SeatSection
<1>2. OfAmenities(s.before, s.name) \in Seq(Offer) /\ OfAmenities(s.after, s.name) \in Seq(Offer)
  BY <1>1, AmenitiesOffered
<1>3. SeatRows(s) \in Seq(Offer)
  BY RowsOffered
<1>4. \A t, r \in Seq(Offer) : t \o r \in Seq(Offer) /\ ToSet(t \o r) = ToSet(t) \cup ToSet(r)
  BY ToSetOfConcatenation
<1> DEFINE head == OfAmenities(s.before, s.name) \o SeatRows(s)
           tail == OfAmenities(s.after, s.name)
<1>5. head \in Seq(Offer) /\ ToSet(head) = ToSet(OfAmenities(s.before, s.name)) \cup ToSet(SeatRows(s))
  BY <1>2, <1>3, <1>4
<1>6. tail \in Seq(Offer) /\ OfSection(s) = head \o tail
  BY <1>2 DEF OfSection
<1> HIDE DEF head
<1> QED
  BY <1>4, <1>5, <1>6

\* Dropping what is there already loses no place.
LEMMA PlacesPushed ==
  ASSUME NEW s \in Seq(Offer)
  PROVE  /\ Deduplicated(s) \in Seq(Offer)
         /\ Places(Deduplicated(s)) = Places(s)
<1>1. ASSUME NEW cs \in Seq(Offer), NEW c \in Offer
      PROVE  Push(cs, c) \in Seq(Offer) /\ Places(Push(cs, c)) = Places(cs) \cup {c.place}
  <2>1. CASE \E d \in ToSet(cs) : d.place = c.place
    BY <2>1 DEF Push, Places
  <2>2. CASE ~ \E d \in ToSet(cs) : d.place = c.place
    <3>1. Push(cs, c) = Append(cs, c) /\ Append(cs, c) \in Seq(Offer)
      BY <2>2 DEF Push
    <3> DEFINE one == <<c>>
    <3>2. one \in Seq(Offer) /\ ToSet(one) = {c}
      BY Singleton
    <3>4. Append(cs, c) = cs \o one
      BY AppendIsConcat
    <3> HIDE DEF one
    <3>3. ToSet(cs \o one) = ToSet(cs) \cup ToSet(one)
      BY <3>2, ToSetOfConcatenation
    <3> QED
      BY <3>1, <3>2, <3>3, <3>4 DEF Places
  <2> QED
    BY <2>1, <2>2
<1>2. <<>> \in Seq(Offer) /\ \A cs \in Seq(Offer), c \in Offer : Push(cs, c) \in Seq(Offer)
  BY <1>1
<1>3. PICK g \in [0..Len(s) -> Seq(Offer)] :
           /\ g[0] = <<>>
           /\ \A k \in 1..Len(s) : g[k] = Push(g[k - 1], s[k])
           /\ Deduplicated(s) = g[Len(s)]
  <2> DEFINE V == Seq(Offer)
  <2>1. <<>> \in V /\ \A cs \in V, c \in Offer : Push(cs, c) \in V
    BY <1>2
  <2> HIDE DEF V
  <2>2. \E g \in [0..Len(s) -> V] :
           /\ g[0] = <<>>
           /\ \A k \in 1..Len(s) : g[k] = Push(g[k - 1], s[k])
           /\ Deduplicated(s) = g[Len(s)]
    BY <2>1, FoldPush
  <2> QED
    BY <2>2 DEF V
<1>4. Len(s) \in Nat /\ DOMAIN s = 1..Len(s) /\ \A k \in 1..Len(s) : s[k] \in Offer
  OBVIOUS
<1> DEFINE n == Len(s)
           K == {k \in Nat : k <= n => Places(g[k]) = {s[i].place : i \in 1..k}}
<1> HIDE DEF n
<1>5. 0 \in K
  BY <1>3 DEF Places, ToSet
<1>6. ASSUME NEW k \in K PROVE k + 1 \in K
  <2>1. k \in Nat /\ (k <= n => Places(g[k]) = {s[i].place : i \in 1..k})
    OBVIOUS
  <2>2. ASSUME k + 1 <= n PROVE Places(g[k + 1]) = {s[i].place : i \in 1..(k + 1)}
    <3>1. k + 1 \in 1..n /\ k <= n /\ (k + 1) - 1 = k /\ k \in 0..n /\ n \in Nat /\ 1..(k + 1) = (1..k) \cup {k + 1}
      BY <1>4, <2>1, <2>2 DEF n
    <3>2. g[k + 1] = Push(g[k], s[k + 1]) /\ g[k] \in Seq(Offer) /\ s[k + 1] \in Offer
      BY <1>3, <1>4, <3>1 DEF n
    <3>3. Places(g[k + 1]) = Places(g[k]) \cup {s[k + 1].place}
      BY <1>1, <3>2
    <3> QED
      BY <2>1, <3>1, <3>3
  <2> QED
    BY <2>1, <2>2
<1>7. n \in K
  <2> HIDE DEF K
  <2>1. K \in SUBSET Nat
    BY DEF K
  <2>2. K = Nat
    BY <1>5, <1>6, <2>1, NatSets
  <2> QED
    BY <1>4, <2>2 DEF n
<1>8. Places(g[n]) = {s[i].place : i \in 1..n} /\ n \in 0..n
  BY <1>4, <1>7 DEF n
<1>9. Places(s) = {s[i].place : i \in 1..n}
  BY <1>4 DEF Places, ToSet, n
<1> QED
  BY <1>3, <1>8, <1>9 DEF n

LEMMA MapOffered ==
  ASSUME NEW map \in SeatMap
  PROVE  /\ Candidates(map) \in Seq(Offer)
         /\ Places(Candidates(map)) =
              {c.place : c \in UNION {ToSet(OfSection(map.sections[i])) : i \in DOMAIN map.sections}}
<1> DEFINE n == Len(map.sections)
           ss == [i \in 1..n |-> OfSection(map.sections[i])]
<1>1. map.sections \in Seq(SeatSection)
  BY DEF SeatMap
<1>2. n \in Nat /\ DOMAIN map.sections = 1..n /\ \A i \in 1..n : map.sections[i] \in SeatSection
  BY <1>1
<1> HIDE DEF n
<1>3. ss \in [1..n -> Seq(Offer)]
  BY <1>2, SectionOffered
<1>4. Candidates(map) = Deduplicated(FlattenSeq(ss))
  BY <1>2 DEF Candidates
<1>5. \A i \in 1..n : ss[i] = OfSection(map.sections[i])
  OBVIOUS
<1> HIDE DEF ss
<1>6. FlattenSeq(ss) \in Seq(Offer) /\ ToSet(FlattenSeq(ss)) = UNION {ToSet(ss[i]) : i \in 1..n}
  BY <1>2, <1>3, Flattened
<1>7. /\ Deduplicated(FlattenSeq(ss)) \in Seq(Offer)
      /\ Places(Deduplicated(FlattenSeq(ss))) = Places(FlattenSeq(ss))
  BY <1>6, PlacesPushed
<1>8. UNION {ToSet(ss[i]) : i \in 1..n} = UNION {ToSet(OfSection(map.sections[i])) : i \in DOMAIN map.sections}
  BY <1>2, <1>5
<1> QED
  BY <1>4, <1>6, <1>7, <1>8 DEF Places

\* What is valid is normal but for blank columns.
LEMMA ValidAmenity ==
  ASSUME NEW a \in Amenity, AmenityValid(a)
  PROVE  NormalAmenity(a) = a
<1>1. /\ a.leftSvg \in BOOLEAN /\ a.rightSvg \in BOOLEAN
      /\ a = [left |-> a.left, leftSvg |-> a.leftSvg, right |-> a.right, rightSvg |-> a.rightSvg, label |-> a.label]
  BY DEF Amenity
<1>2. (a.leftSvg <=> Given(a.left)) /\ (a.rightSvg <=> Given(a.right))
  BY DEF AmenityValid
<1>3. (Given(a.left) \/ a.left = Blank) /\ (Given(a.right) \/ a.right = Blank)
  BY DEF Given
<1>4. (a.leftSvg /\ Given(a.left)) = a.leftSvg /\ (a.rightSvg /\ Given(a.right)) = a.rightSvg
  BY <1>1, <1>2
<1>5. (IF a.leftSvg THEN a.left ELSE Blank) = a.left /\ (IF a.rightSvg THEN a.right ELSE Blank) = a.right
  BY <1>1, <1>2, <1>3
<1>6. NormalAmenity(a) = [a EXCEPT !.left = a.left, !.right = a.right, !.leftSvg = a.leftSvg, !.rightSvg = a.rightSvg]
  BY <1>4, <1>5 DEF NormalAmenity
<1> QED
  BY <1>1, <1>6

LEMMA ValidAmenities ==
  ASSUME NEW list \in Seq(Amenity), \A a \in ToSet(list) : AmenityValid(a)
  PROVE  Amenities(list) = list
<1>1. \A i \in DOMAIN list : list[i] \in Amenity /\ list[i] \in ToSet(list)
  BY DEF ToSet
<1>2. \A i \in DOMAIN list : NormalAmenity(list[i]) = list[i]
  BY <1>1, ValidAmenity
<1>3. list = [i \in DOMAIN list |-> list[i]]
  OBVIOUS
<1> QED
  BY <1>2, <1>3 DEF Amenities

NormalSection(s) ==
  [s EXCEPT !.leftCols = Columns(s.leftCols), !.rightCols = Columns(s.rightCols),
            !.before = Amenities(s.before), !.after = Amenities(s.after)]

LEMMA ValidSection ==
  ASSUME NEW s \in SeatSection, SectionValid(s)
  PROVE  NormalSection(s) \in SeatSection /\ ToSet(OfSection(NormalSection(s))) = ToSet(OfSection(s))
<1> DEFINE t == NormalSection(s)
<1>1. s.before \in Seq(Amenity) /\ s.after \in Seq(Amenity) /\ s.leftCols \in Seq(Text) /\ s.rightCols \in Seq(Text)
  BY DEF SeatSection
<1>2. /\ \A a \in ToSet(s.before) : AmenityValid(a)
      /\ \A a \in ToSet(s.after) : AmenityValid(a)
  BY DEF SectionValid
<1>3. Amenities(s.before) = s.before /\ Amenities(s.after) = s.after
  BY <1>1, <1>2, ValidAmenities
<1>4. /\ Columns(s.leftCols) \in Seq(Text) /\ ToSet(Columns(s.leftCols)) = ToSet(s.leftCols) \ {""}
      /\ Columns(s.rightCols) \in Seq(Text) /\ ToSet(Columns(s.rightCols)) = ToSet(s.rightCols) \ {""}
  BY <1>1, ColumnsKept
<1>5. /\ t.name = s.name /\ t.startRow = s.startRow /\ t.endRow = s.endRow /\ t.skipRows = s.skipRows
      /\ t.leftCols = Columns(s.leftCols) /\ t.rightCols = Columns(s.rightCols)
      /\ t.before = s.before /\ t.after = s.after
  BY <1>3 DEF NormalSection, SeatSection
<1>6. t \in SeatSection
  BY <1>3, <1>4 DEF NormalSection, SeatSection
<1> HIDE DEF t
<1>7. (ToSet(t.leftCols) \cup ToSet(t.rightCols)) \ {""} = (ToSet(s.leftCols) \cup ToSet(s.rightCols)) \ {""}
  BY <1>4, <1>5
<1>8. ASSUME NEW row \in Nat PROVE ToSet(OfRow(t, row)) = ToSet(OfRow(s, row))
  <2>1. ToSet(OfRow(t, row)) =
              {[place |-> Seat(ToString(row), c), type |-> "SEAT", section |-> t.name] :
                 c \in (ToSet(t.leftCols) \cup ToSet(t.rightCols)) \ {""}}
    BY <1>6, RowOffered
  <2>2. ToSet(OfRow(s, row)) =
              {[place |-> Seat(ToString(row), c), type |-> "SEAT", section |-> s.name] :
                 c \in (ToSet(s.leftCols) \cup ToSet(s.rightCols)) \ {""}}
    BY RowOffered
  <2> QED
    BY <1>5, <1>7, <2>1, <2>2
<1> DEFINE rows == {r \in 1..s.endRow : r >= s.startRow /\ r \notin s.skipRows}
<1>9. rows \in SUBSET Nat
  BY DEF SeatSection
<1>10. /\ ToSet(SeatRows(t)) = UNION {ToSet(OfRow(t, row)) : row \in rows}
       /\ ToSet(SeatRows(s)) = UNION {ToSet(OfRow(s, row)) : row \in rows}
  BY <1>5, <1>6, RowsOffered
<1> HIDE DEF rows
<1>11. ToSet(SeatRows(t)) = ToSet(SeatRows(s))
  BY <1>8, <1>9, <1>10
<1>12. /\ ToSet(OfSection(t)) = ToSet(OfAmenities(t.before, t.name)) \cup ToSet(SeatRows(t))
                                    \cup ToSet(OfAmenities(t.after, t.name))
       /\ ToSet(OfSection(s)) = ToSet(OfAmenities(s.before, s.name)) \cup ToSet(SeatRows(s))
                                    \cup ToSet(OfAmenities(s.after, s.name))
  BY <1>6, SectionOffered
<1> QED
  BY <1>5, <1>6, <1>11, <1>12 DEF t

\* A valid drawing and its normal form show the same places.
LEMMA NormalOffers ==
  ASSUME NEW map \in SeatMap, ValidMap(map)
  PROVE  Normal(map) \in SeatMap /\ Places(Candidates(Normal(map))) = Places(Candidates(map))
<1> DEFINE n == Len(map.sections)
           normal == [i \in 1..n |-> NormalSection(map.sections[i])]
<1>1. map.sections \in Seq(SeatSection)
  BY DEF SeatMap
<1>2. n \in Nat /\ DOMAIN map.sections = 1..n /\ \A i \in 1..n : map.sections[i] \in SeatSection
  BY <1>1
<1> HIDE DEF n
<1>3. \A i \in 1..n : SectionValid(map.sections[i])
  BY <1>2 DEF ValidMap, ToSet
<1>4. ASSUME NEW i \in 1..n
      PROVE  /\ NormalSection(map.sections[i]) \in SeatSection
             /\ ToSet(OfSection(NormalSection(map.sections[i]))) = ToSet(OfSection(map.sections[i]))
  BY <1>2, <1>3, ValidSection
<1>5. Normal(map).sections = normal /\ Normal(map) = [sections |-> normal]
  BY <1>2 DEF Normal, NormalSection
<1>6. normal \in Seq(SeatSection) /\ DOMAIN normal = 1..n
  BY <1>2, <1>4
<1>7. \A i \in 1..n : normal[i] = NormalSection(map.sections[i])
  OBVIOUS
<1> HIDE DEF normal
<1>8. Normal(map) \in SeatMap
  BY <1>5, <1>6 DEF SeatMap
<1>9. /\ Places(Candidates(map)) =
           {c.place : c \in UNION {ToSet(OfSection(map.sections[i])) : i \in 1..n}}
      /\ Places(Candidates(Normal(map))) =
           {c.place : c \in UNION {ToSet(OfSection(normal[i])) : i \in 1..n}}
  <2>1. Places(Candidates(map)) =
          {c.place : c \in UNION {ToSet(OfSection(map.sections[i])) : i \in DOMAIN map.sections}}
    BY MapOffered
  <2> DEFINE new == Normal(map)
  <2>2. new \in SeatMap /\ new.sections = normal
    BY <1>5, <1>8
  <2> HIDE DEF new
  <2>3. Places(Candidates(new)) =
          {c.place : c \in UNION {ToSet(OfSection(new.sections[i])) : i \in DOMAIN new.sections}}
    BY <2>2, MapOffered
  <2>4. Places(Candidates(new)) = {c.place : c \in UNION {ToSet(OfSection(normal[i])) : i \in 1..n}}
    BY <1>6, <2>2, <2>3
  <2> QED
    BY <1>2, <2>1, <2>4 DEF new
<1>10. UNION {ToSet(OfSection(normal[i])) : i \in 1..n} = UNION {ToSet(OfSection(map.sections[i])) : i \in 1..n}
  BY <1>4, <1>7
<1> QED
  BY <1>8, <1>9, <1>10

\* A drawing is the one that was sent or the normal form of it.
SeatTypeOK == saved \in SeatMap /\ drawn \in SeatMap
SavedAsDrawn == saved = drawn \/ (ValidMap(drawn) /\ saved = Normal(drawn))
SeatIInv == SeatTypeOK /\ SavedAsDrawn

\* Any save and the seed keep the invariant.
THEOREM SeatInvariance == SeatSpec => []SeatIInv
<1> USE DEF SeatIInv, SeatTypeOK, SavedAsDrawn
<1>1. SeatInit => SeatIInv
  BY MapsAssumption DEF SeatInit
<1>2. SeatIInv /\ [SeatNext]_seatVars => SeatIInv'
  <2> SUFFICES ASSUME SeatIInv, [SeatNext]_seatVars PROVE SeatIInv'
    OBVIOUS
  <2>1. ASSUME NEW map \in Maps, SaveSeatMap(map) PROVE SeatIInv'
    <3>1. map \in SeatMap /\ ValidMap(map) /\ saved' = Normal(map) /\ drawn' = map
      BY <2>1, MapsAssumption DEF SaveSeatMap
    <3>2. Normal(map) \in SeatMap
      BY <3>1, NormalOffers
    <3> QED
      BY <3>1, <3>2
  <2>2. CASE SeedSeatMap
    BY <2>2, MapsAssumption DEF SeedSeatMap
  <2>3. CASE UNCHANGED seatVars
    BY <2>3 DEF seatVars
  <2> QED
    BY <2>1, <2>2, <2>3 DEF SeatNext
<1> QED
  BY <1>1, <1>2, PTL DEF SeatSpec

\* Checking and normalising lose no place that a drawing shows and invent none, for all
\* drawings.
THEOREM OffersEverythingDrawn == SeatSpec => []OffersWhatWasDrawn
<1>1. SeatIInv => OffersWhatWasDrawn
  <2> SUFFICES ASSUME SeatIInv, saved # drawn PROVE Places(Candidates(saved)) = Places(Candidates(drawn))
    BY DEF OffersWhatWasDrawn
  <2>1. drawn \in SeatMap /\ ValidMap(drawn) /\ saved = Normal(drawn)
    BY DEF SeatIInv, SeatTypeOK, SavedAsDrawn
  <2> QED
    BY <2>1, NormalOffers
<1> QED
  BY <1>1, SeatInvariance, PTL

-----------------------------------------------------------------------------
(***************************************************************************)
(* The dashboard. Sums and counts of places that are apart add up, so the  *)
(* overall score, an average of all audits, lies among the averages of the *)
(* kinds; and the audits of the days of a trend, day by day, are all the   *)
(* audits of its period.                                                   *)
(***************************************************************************)

AuditsOK == audits \in Seq(Submission)

SumOf(places) == Total(ScoresOf(places))
CountOf(places) == Len(ScoresOf(places))

\* The scores of some places are added up audit by audit.
Adds(sum, count, places) ==
  /\ sum[0] = 0 /\ count[0] = 0
  /\ \A k \in 1..Len(audits) :
       /\ sum[k] = IF k \in places THEN sum[k - 1] + audits[k].score ELSE sum[k - 1]
       /\ count[k] = IF k \in places THEN count[k - 1] + 1 ELSE count[k - 1]
  /\ SumOf(places) = sum[Len(audits)] /\ CountOf(places) = count[Len(audits)]

LEMMA SumsOfPlaces ==
  ASSUME AuditsOK, NEW places
  PROVE  /\ ScoresOf(places) \in Seq(Nat)
         /\ \E sum, count \in [0..Len(audits) -> Nat] : Adds(sum, count, places)
<1> DEFINE n == Len(audits)
           ss == [i \in 1..n |-> IF i \in places THEN <<audits[i].score>> ELSE <<>>]
<1>1. n \in Nat /\ DOMAIN audits = 1..n /\ \A i \in 1..n : audits[i] \in Submission
  BY DEF AuditsOK
<1>2. \A i \in 1..n : audits[i].score \in Nat
  <2>1. \A audit \in Submission : audit.score \in Nat
    BY DEF Submission
  <2> QED
    BY <1>1, <2>1
<1> HIDE DEF n
<1>3. ScoresOf(places) = FlattenSeq(ss)
  BY <1>1 DEF ScoresOf
<1>4. ASSUME NEW i \in 1..n
      PROVE  ss[i] \in Seq(Nat) /\ ss[i] = IF i \in places THEN <<audits[i].score>> ELSE <<>>
  BY <1>2, EmptySeq
<1>5. ss \in [1..n -> Seq(Nat)]
  BY <1>4
<1> HIDE DEF ss
<1>6. PICK g \in [0..n -> Seq(Nat)] :
        g[0] = <<>> /\ (\A k \in 1..n : g[k] = g[k - 1] \o ss[k]) /\ FlattenSeq(ss) = g[n]
  <2> DEFINE T == Nat
  <2>1. ss \in [1..n -> Seq(T)]
    BY <1>5
  <2> HIDE DEF T
  <2>2. \E g \in [0..n -> Seq(T)] : Concatenates(g, n, ss)
    BY <1>1, <2>1, FlattenRuns
  <2> QED
    BY <2>2 DEF T, Concatenates
<1> DEFINE sum == [k \in 0..n |-> Total(g[k])]
           count == [k \in 0..n |-> Len(g[k])]
<1>7. ASSUME NEW k \in 0..n PROVE Total(g[k]) \in Nat /\ Len(g[k]) \in Nat
  <2>1. g[k] \in Seq(Nat) /\ Len(g[k]) = Len(g[k]) /\ \A i \in 1..Len(g[k]) : g[k][i] \in Nat
    OBVIOUS
  <2>2. \A i \in 1..Len(g[k]) : g[k][i] <= g[k][i]
    BY <2>1
  <2> QED
    BY <2>1, <2>2, TotalGrows
<1>8. sum[0] = 0 /\ count[0] = 0
  BY <1>1, <1>6, TotalOfEmpty, EmptySeq
<1>9. ASSUME NEW k \in 1..n
      PROVE  /\ sum[k] = IF k \in places THEN sum[k - 1] + audits[k].score ELSE sum[k - 1]
             /\ count[k] = IF k \in places THEN count[k - 1] + 1 ELSE count[k - 1]
  <2>1. k \in 0..n /\ k - 1 \in 0..n
    BY <1>1
  <2> DEFINE before == g[k - 1]
  <2>2. before \in Seq(Nat) /\ g[k] = before \o ss[k]
    BY <1>6, <2>1
  <2>3. sum[k] = Total(g[k]) /\ sum[k - 1] = Total(before) /\ count[k] = Len(g[k]) /\ count[k - 1] = Len(before)
    BY <2>1
  <2> HIDE DEF before, sum, count
  <2>4. CASE k \in places
    <3>1. before \o <<audits[k].score>> = Append(before, audits[k].score) /\ audits[k].score \in Nat
      BY <1>2, <2>2, AppendIsConcat
    <3>2. g[k] = Append(before, audits[k].score)
      BY <1>4, <2>2, <2>4, <3>1
    <3> QED
      BY <2>2, <2>3, <2>4, <3>1, <3>2, TotalOfOneMore
  <2>5. CASE k \notin places
    <3>1. g[k] = before
      BY <1>4, <2>2, <2>5, ConcatEmptySeq
    <3> QED
      BY <2>3, <2>5, <3>1
  <2> QED
    BY <2>4, <2>5
<1>10. sum \in [0..n -> Nat] /\ count \in [0..n -> Nat] /\ sum[n] = Total(g[n]) /\ count[n] = Len(g[n]) /\ g[n] \in Seq(Nat)
  BY <1>1, <1>7
<1> HIDE DEF sum, count
<1>11. Adds(sum, count, places)
  BY <1>3, <1>6, <1>8, <1>9, <1>10 DEF Adds, SumOf, CountOf, n
<1> QED
  BY <1>3, <1>6, <1>10, <1>11 DEF n

\* The scores of places that are apart add up.
LEMMA SumsApart ==
  ASSUME AuditsOK, NEW A, NEW B, A \cap B = {}
  PROVE  /\ SumOf(A) \in Nat /\ CountOf(A) \in Nat /\ SumOf(B) \in Nat /\ CountOf(B) \in Nat
         /\ SumOf(A \cup B) = SumOf(A) + SumOf(B)
         /\ CountOf(A \cup B) = CountOf(A) + CountOf(B)
<1> DEFINE n == Len(audits)
           C == A \cup B
<1>1. n \in Nat /\ \A i \in 1..n : audits[i].score \in Nat
  <2>1. \A audit \in Submission : audit.score \in Nat
    BY DEF Submission
  <2> QED
    BY <2>1 DEF AuditsOK
<1>2. PICK sa, ca \in [0..n -> Nat] : Adds(sa, ca, A)
  BY SumsOfPlaces
<1>3. PICK sb, cb \in [0..n -> Nat] : Adds(sb, cb, B)
  BY SumsOfPlaces
<1>4. PICK sc, cc \in [0..n -> Nat] : Adds(sc, cc, C)
  BY SumsOfPlaces
<1> HIDE DEF C
<1> DEFINE Good(k) == sc[k] = sa[k] + sb[k] /\ cc[k] = ca[k] + cb[k]
<1>5. Good(0)
  BY <1>2, <1>3, <1>4 DEF Adds
<1>6. ASSUME NEW k \in Nat, NEW m \in 1..n, m = k + 1, Good(k) PROVE Good(m)
  <2>1. m - 1 = k /\ k \in 0..n
    BY <1>1, <1>6, SMTT(30)
  <2>2. \A f \in [0..n -> Nat] : f[k] \in Nat
    BY <2>1
  <2>3. /\ sa[k] \in Nat /\ sb[k] \in Nat /\ sc[k] \in Nat
        /\ ca[k] \in Nat /\ cb[k] \in Nat /\ cc[k] \in Nat
        /\ audits[m].score \in Nat
    BY <1>1, <2>2
  <2>4. /\ sa[m] = IF m \in A THEN sa[k] + audits[m].score ELSE sa[k]
        /\ ca[m] = IF m \in A THEN ca[k] + 1 ELSE ca[k]
    BY <1>2, <2>1 DEF Adds
  <2>5. /\ sb[m] = IF m \in B THEN sb[k] + audits[m].score ELSE sb[k]
        /\ cb[m] = IF m \in B THEN cb[k] + 1 ELSE cb[k]
    BY <1>3, <2>1 DEF Adds
  <2>6. /\ sc[m] = IF m \in C THEN sc[k] + audits[m].score ELSE sc[k]
        /\ cc[m] = IF m \in C THEN cc[k] + 1 ELSE cc[k]
    BY <1>4, <2>1 DEF Adds
  <2>7. (m \in C <=> m \in A \/ m \in B) /\ ~(m \in A /\ m \in B)
    BY DEF C
  <2>8. sc[k] = sa[k] + sb[k] /\ cc[k] = ca[k] + cb[k]
    BY <1>6
  <2>a. PICK x, a, b, c \in Nat : x = audits[m].score /\ a = sa[k] /\ b = sb[k] /\ c = sc[k]
    BY <2>3
  <2>b. PICK d, e, f \in Nat : d = ca[k] /\ e = cb[k] /\ f = cc[k]
    BY <2>3
  <2>c. c = a + b /\ f = d + e
    BY <2>8, <2>a, <2>b
  <2>d. c + x = (a + x) + b /\ c + x = a + (b + x)
    BY <2>c
  <2>e. f + 1 = (d + 1) + e /\ f + 1 = d + (e + 1)
    BY <2>c
  <2> HIDE DEF n, C
  <2>9. CASE m \in A
    <3>1. /\ sc[m] = sc[k] + audits[m].score /\ sa[m] = sa[k] + audits[m].score /\ sb[m] = sb[k]
          /\ cc[m] = cc[k] + 1 /\ ca[m] = ca[k] + 1 /\ cb[m] = cb[k]
      BY <2>4, <2>5, <2>6, <2>7, <2>9
    <3> QED
      BY <2>a, <2>b, <2>d, <2>e, <3>1
  <2>10. CASE m \in B
    <3>1. /\ sc[m] = sc[k] + audits[m].score /\ sb[m] = sb[k] + audits[m].score /\ sa[m] = sa[k]
          /\ cc[m] = cc[k] + 1 /\ cb[m] = cb[k] + 1 /\ ca[m] = ca[k]
      BY <2>4, <2>5, <2>6, <2>7, <2>10
    <3> QED
      BY <2>a, <2>b, <2>d, <2>e, <3>1
  <2>11. CASE m \notin A /\ m \notin B
    BY <2>4, <2>5, <2>6, <2>7, <2>8, <2>11
  <2> QED
    BY <2>9, <2>10, <2>11
<1> DEFINE K == {k \in Nat : k <= n => Good(k)}
<1> HIDE DEF Good, n
<1>7. 0 \in K
  BY <1>5
<1>8. ASSUME NEW k \in K PROVE k + 1 \in K
  <2>1. k \in Nat /\ (k <= n => Good(k))
    OBVIOUS
  <2> DEFINE m == k + 1
  <2>2. ASSUME m <= n PROVE Good(m)
    <3>1. m \in 1..n /\ m = k + 1 /\ k <= n
      BY <1>1, <2>1, <2>2
    <3> HIDE DEF m
    <3> QED
      BY <1>6, <2>1, <3>1
  <2> QED
    BY <2>1, <2>2
<1>9. K = Nat
  <2> HIDE DEF K
  <2>1. K \in SUBSET Nat
    BY DEF K
  <2> QED
    BY <1>7, <1>8, <2>1, NatSets
<1> HIDE DEF K
<1>10. Good(n)
  <2>1. n \in K
    BY <1>1, <1>9
  <2> QED
    BY <1>1, <2>1 DEF K
<1>11. \A f \in [0..n -> Nat] : f[n] \in Nat
  BY <1>1
<1>12. /\ SumOf(A) = sa[n] /\ CountOf(A) = ca[n] /\ SumOf(B) = sb[n] /\ CountOf(B) = cb[n]
       /\ SumOf(C) = sc[n] /\ CountOf(C) = cc[n]
  BY <1>2, <1>3, <1>4 DEF Adds, n
<1> QED
  BY <1>10, <1>11, <1>12 DEF Good, C

\* Places have scores where there are audits, of a hundred at most.
LEMMA ScoresThere ==
  ASSUME AuditsOK, NEW A
  PROVE  /\ SumOf(A) \in Nat /\ CountOf(A) \in Nat
         /\ SumOf(A) <= 100 * CountOf(A)
         /\ CountOf(A) = 0 <=> A \cap DOMAIN audits = {}
<1> DEFINE n == Len(audits)
<1>1. n \in Nat /\ DOMAIN audits = 1..n /\ \A i \in 1..n : audits[i].score \in 0..100
  <2>1. \A audit \in Submission : audit.score \in 0..100
    BY DEF Submission
  <2> QED
    BY <2>1 DEF AuditsOK
<1>2. PICK sa, ca \in [0..n -> Nat] : Adds(sa, ca, A)
  BY SumsOfPlaces
<1> DEFINE Good(k) == /\ sa[k] <= 100 * ca[k]
                      /\ ca[k] = 0 <=> \A i \in 1..k : i \notin A
<1>5. Good(0)
  BY <1>2 DEF Adds
<1>6. ASSUME NEW k \in Nat, NEW m \in 1..n, m = k + 1, Good(k) PROVE Good(m)
  <2>1. m - 1 = k /\ k \in 0..n /\ 1..m = (1..k) \cup {m}
    BY <1>1, <1>6
  <2>2. \A f \in [0..n -> Nat] : f[k] \in Nat
    BY <2>1
  <2>3. sa[k] \in Nat /\ ca[k] \in Nat /\ audits[m].score \in 0..100
    BY <1>1, <2>2
  <2>4. /\ sa[m] = IF m \in A THEN sa[k] + audits[m].score ELSE sa[k]
        /\ ca[m] = IF m \in A THEN ca[k] + 1 ELSE ca[k]
    BY <1>2, <2>1 DEF Adds
  <2>5. sa[m] <= 100 * ca[m]
    <3>1. \A s, c \in Nat, x \in 0..100 : s <= 100 * c => s <= 100 * c /\ s + x <= 100 * (c + 1)
      OBVIOUS
    <3> HIDE DEF n
    <3>2. sa[k] <= 100 * ca[k] /\ sa[k] + audits[m].score <= 100 * (ca[k] + 1)
      BY <1>6, <2>3, <3>1
    <3> QED
      BY <2>4, <3>2
  <2>6. ca[m] = 0 <=> ca[k] = 0 /\ m \notin A
    BY <2>3, <2>4
  <2> QED
    BY <1>6, <2>1, <2>5, <2>6
<1> DEFINE K == {k \in Nat : k <= n => Good(k)}
<1> HIDE DEF Good, n
<1>7. 0 \in K
  BY <1>5
<1>8. ASSUME NEW k \in K PROVE k + 1 \in K
  <2>1. k \in Nat /\ (k <= n => Good(k))
    OBVIOUS
  <2> DEFINE m == k + 1
  <2>2. ASSUME m <= n PROVE Good(m)
    <3>1. m \in 1..n /\ m = k + 1 /\ k <= n
      BY <1>1, <2>1, <2>2
    <3> HIDE DEF m
    <3> QED
      BY <1>6, <2>1, <3>1
  <2> QED
    BY <2>1, <2>2
<1>9. K = Nat
  <2> HIDE DEF K
  <2>1. K \in SUBSET Nat
    BY DEF K
  <2> QED
    BY <1>7, <1>8, <2>1, NatSets
<1> HIDE DEF K
<1>10. Good(n)
  <2>1. n \in K
    BY <1>1, <1>9
  <2> QED
    BY <1>1, <2>1 DEF K
<1>11. \A f \in [0..n -> Nat] : f[n] \in Nat
  BY <1>1
<1>12. SumOf(A) = sa[n] /\ CountOf(A) = ca[n]
  BY <1>2 DEF Adds, n
<1>13. (\A i \in 1..n : i \notin A) <=> A \cap DOMAIN audits = {}
  BY <1>1
<1> QED
  BY <1>10, <1>11, <1>12, <1>13 DEF Good

\* The score of places, from their sum and count.
LEMMA AverageIs ==
  ASSUME AuditsOK, NEW A
  PROVE  Average(A) = IF CountOf(A) = 0 THEN 100
                      ELSE (2 * SumOf(A) + CountOf(A)) \div (2 * CountOf(A))
<1> DEFINE s == ScoresOf(A)
<1>1. s \in Seq(Nat)
  BY SumsOfPlaces
<1>2. AverageScore(s) = IF s = <<>> THEN 100 ELSE (2 * Total(s) + Len(s)) \div (2 * Len(s))
  BY DEF AverageScore, Total, FoldLeft, MapThenFoldSet
<1>3. s = <<>> <=> Len(s) = 0
  BY <1>1, EmptySeq
<1> QED
  BY <1>2, <1>3 DEF Average, SumOf, CountOf

\* The average of a sum of numbers, rounded, lies between two bounds.
Lies(sum, count, low, high) ==
  /\ count * low + count * low <= sum + sum + count
  /\ count = 0 \/ sum + sum + count < count * (high + 1) + count * (high + 1)
  /\ count = 0 => sum = 0

LEMMA AverageLies ==
  ASSUME AuditsOK, NEW A, NEW low \in Nat, NEW high \in Nat, CountOf(A) # 0
  PROVE  /\ Average(A) \in 0..100
         /\ Lies(SumOf(A), CountOf(A), low, high) <=> low <= Average(A) /\ Average(A) <= high
<1> DEFINE s == SumOf(A)
           n == CountOf(A)
           a == 2 * s + n
           b == 2 * n
<1>1. s \in Nat /\ n \in Nat \ {0} /\ s <= 100 * n
  BY ScoresThere
<1>2. Average(A) = a \div b
  BY AverageIs
<1> HIDE DEF s, n
<1>3. a \in Nat /\ b \in Nat \ {0} /\ a = s + s + n
  BY <1>1
<1>4. b * low = n * low + n * low /\ b * (high + 1) = n * (high + 1) + n * (high + 1)
  BY <1>1
<1>5. a < b * (100 + 1)
  BY <1>1
<1> HIDE DEF a, b
<1>6. /\ a \div b \in Nat
      /\ low <= a \div b <=> b * low <= a
      /\ a \div b <= high <=> a < b * (high + 1)
  BY <1>3, QuotientBounds
<1>7. a \div b <= 100
  <2>1. 100 \in Nat
    OBVIOUS
  <2> QED
    BY <1>3, <1>5, <2>1, QuotientBounds
<1> DEFINE q == a \div b
<1>8. q = Average(A) /\ q \in Nat /\ q <= 100
  BY <1>2, <1>6, <1>7
<1>9. low <= q <=> n * low + n * low <= s + s + n
  BY <1>3, <1>4, <1>6
<1>10. q <= high <=> s + s + n < n * (high + 1) + n * (high + 1)
  BY <1>3, <1>4, <1>6
<1> HIDE DEF q
<1>11. n # 0
  BY <1>1
<1>12. Lies(s, n, low, high) <=> low <= q /\ q <= high
  BY <1>9, <1>10, <1>11 DEF Lies
<1> QED
  BY <1>8, <1>12 DEF s, n

\* Bounds of the scores of two sets of places are bounds of both together.
LEMMA LiesTogether ==
  ASSUME NEW s \in Nat, NEW n \in Nat, NEW t \in Nat, NEW m \in Nat, NEW low \in Nat, NEW high \in Nat,
         Lies(s, n, low, high), Lies(t, m, low, high)
  PROVE  Lies(s + t, n + m, low, high)
<1> DEFINE nl == n * low
           ml == m * low
           nh == n * (high + 1)
           mh == m * (high + 1)
<1>1. (n + m) * low = nl + ml /\ (n + m) * (high + 1) = nh + mh
  OBVIOUS
<1>2. nl \in Nat /\ ml \in Nat /\ nh \in Nat /\ mh \in Nat
  OBVIOUS
<1>3. n = 0 => nh = 0
  OBVIOUS
<1>4. m = 0 => mh = 0
  OBVIOUS
<1>5. /\ nl + nl <= s + s + n /\ ml + ml <= t + t + m
      /\ n = 0 \/ s + s + n < nh + nh
      /\ m = 0 \/ t + t + m < mh + mh
      /\ (n = 0 => s = 0) /\ (m = 0 => t = 0)
  BY DEF Lies
<1> HIDE DEF nl, ml, nh, mh
<1> DEFINE l == nl + ml
           h == nh + mh
<1>6. l + l <= (s + t) + (s + t) + (n + m)
  BY <1>2, <1>5
<1>7. n + m = 0 \/ (s + t) + (s + t) + (n + m) < h + h
  BY <1>2, <1>3, <1>4, <1>5
<1>8. n + m = 0 => s + t = 0
  BY <1>5
<1> HIDE DEF l, h
<1> QED
  BY <1>1, <1>6, <1>7, <1>8 DEF Lies, l, h

\* The kinds of a period are apart, and are all there is of it.
LEMMA KindsApart ==
  ASSUME NEW station, NEW period
  PROVE  /\ \A type, other : type # other => Kind(station, type, period) \cap Kind(station, other, period) = {}
         /\ \A type : Kind(station, type, period) \in SUBSET DOMAIN audits
         /\ All(station, period)
              = ((Kind(station, "CABIN_QUALITY", period) \cup Kind(station, "CABIN_SECURITY", period))
                   \cup Kind(station, "HIDDEN_OBJECT", period)) \cup Kind(station, "LAV_SAFETY", period)
<1>1. \A type, other : type # other => Kind(station, type, period) \cap Kind(station, other, period) = {}
  BY DEF Kind
<1>2. \A type : Kind(station, type, period) \in SUBSET DOMAIN audits
  BY DEF Kind
<1>3. All(station, period)
        = ((Kind(station, "CABIN_QUALITY", period) \cup Kind(station, "CABIN_SECURITY", period))
             \cup Kind(station, "HIDDEN_OBJECT", period)) \cup Kind(station, "LAV_SAFETY", period)
  BY DEF All, AuditTypes
<1> QED
  BY <1>1, <1>2, <1>3

\* Bounds of the scores of places that are apart are bounds of all of them.
LEMMA BothLie ==
  ASSUME AuditsOK, NEW A, NEW B, A \cap B = {}, NEW low \in Nat, NEW high \in Nat,
         Lies(SumOf(A), CountOf(A), low, high), Lies(SumOf(B), CountOf(B), low, high)
  PROVE  Lies(SumOf(A \cup B), CountOf(A \cup B), low, high)
<1> DEFINE s == SumOf(A)
           n == CountOf(A)
           t == SumOf(B)
           m == CountOf(B)
<1>1. /\ s \in Nat /\ n \in Nat /\ t \in Nat /\ m \in Nat
      /\ SumOf(A \cup B) = s + t /\ CountOf(A \cup B) = n + m
  BY SumsApart
<1>2. Lies(s, n, low, high) /\ Lies(t, m, low, high)
  OBVIOUS
<1> HIDE DEF s, n, t, m
<1>3. Lies(s + t, n + m, low, high)
  BY <1>1, <1>2, LiesTogether
<1> QED
  BY <1>1, <1>3

\* Bounds of the scores of the kinds are bounds of the overall score.
LEMMA OverallLies ==
  ASSUME AuditsOK, NEW station, NEW period, NEW low \in Nat, NEW high \in Nat,
         \A type \in AuditTypes : Kind(station, type, period) # {} =>
           low <= ScoreOf(station, type, period) /\ ScoreOf(station, type, period) <= high
  PROVE  \A type \in AuditTypes : Kind(station, type, period) # {} =>
           low <= OverallScore(station, period) /\ OverallScore(station, period) <= high
<1> DEFINE K(type) == Kind(station, type, period)
<1>1. ASSUME NEW type \in AuditTypes
      PROVE  /\ SumOf(K(type)) \in Nat /\ CountOf(K(type)) \in Nat
             /\ CountOf(K(type)) = 0 <=> K(type) = {}
             /\ Lies(SumOf(K(type)), CountOf(K(type)), low, high)
  <2> DEFINE A == K(type)
  <2>1. A \in SUBSET DOMAIN audits
    BY KindsApart
  <2>2. A # {} => low <= Average(A) /\ Average(A) <= high
    BY DEF ScoreOf
  <2> HIDE DEF A
  <2>3. /\ SumOf(A) \in Nat /\ CountOf(A) \in Nat /\ SumOf(A) <= 100 * CountOf(A)
        /\ CountOf(A) = 0 <=> A \cap DOMAIN audits = {}
    BY ScoresThere
  <2>4. CountOf(A) = 0 <=> A = {}
    BY <2>1, <2>3
  <2>5. CASE CountOf(A) = 0
    <3>1. SumOf(A) = 0
      BY <2>3, <2>5
    <3> QED
      BY <2>3, <2>4, <2>5, <3>1 DEF Lies, A
  <2>6. CASE CountOf(A) # 0
    <3>1. Lies(SumOf(A), CountOf(A), low, high)
      BY <2>2, <2>4, <2>6, AverageLies
    <3> QED
      BY <2>3, <2>4, <3>1 DEF A
  <2> QED
    BY <2>5, <2>6
<1>2. /\ "CABIN_QUALITY" \in AuditTypes /\ "CABIN_SECURITY" \in AuditTypes
      /\ "HIDDEN_OBJECT" \in AuditTypes /\ "LAV_SAFETY" \in AuditTypes
      /\ \A type \in AuditTypes : type \in {"CABIN_QUALITY", "CABIN_SECURITY", "HIDDEN_OBJECT", "LAV_SAFETY"}
  BY DEF AuditTypes
<1> DEFINE A == K("CABIN_QUALITY")
           B == K("CABIN_SECURITY")
           C == K("HIDDEN_OBJECT")
           D == K("LAV_SAFETY")
<1>3. /\ A \cap B = {} /\ (A \cup B) \cap C = {} /\ ((A \cup B) \cup C) \cap D = {}
      /\ All(station, period) = ((A \cup B) \cup C) \cup D
  BY KindsApart
<1>4. /\ Lies(SumOf(A), CountOf(A), low, high) /\ Lies(SumOf(B), CountOf(B), low, high)
      /\ Lies(SumOf(C), CountOf(C), low, high) /\ Lies(SumOf(D), CountOf(D), low, high)
  BY <1>1, <1>2
<1>5. ASSUME NEW type \in AuditTypes, K(type) # {}
      PROVE  A # {} \/ B # {} \/ C # {} \/ D # {}
  BY <1>2, <1>5
<1> HIDE DEF A, B, C, D
<1> DEFINE AB == A \cup B
           ABC == AB \cup C
           ABCD == ABC \cup D
<1>6. Lies(SumOf(AB), CountOf(AB), low, high)
  <2>1. A \cap B = {}
    BY <1>3
  <2> QED
    BY <1>4, <2>1, BothLie
<1>7. AB \cap C = {} /\ ABC \cap D = {}
  BY <1>3
<1> HIDE DEF AB
<1>8. Lies(SumOf(ABC), CountOf(ABC), low, high)
  BY <1>4, <1>6, <1>7, BothLie
<1> HIDE DEF ABC
<1>9. Lies(SumOf(ABCD), CountOf(ABCD), low, high)
  BY <1>4, <1>7, <1>8, BothLie
<1>10. ABCD = All(station, period)
  BY <1>3 DEF ABC, AB
<1>11. ABCD \in SUBSET DOMAIN audits
  <2>1. \A type : Kind(station, type, period) \in SUBSET DOMAIN audits
    BY KindsApart
  <2> QED
    BY <1>10, <2>1 DEF All
<1>12. ABCD # {} => CountOf(ABCD) # 0
  BY <1>11, ScoresThere
<1>13. ASSUME NEW type \in AuditTypes, K(type) # {}
       PROVE  low <= OverallScore(station, period) /\ OverallScore(station, period) <= high
  <2>1. ABCD # {}
    BY <1>5, <1>13 DEF ABC, AB
  <2> HIDE DEF ABCD
  <2>2. CountOf(ABCD) # 0
    BY <1>12, <2>1
  <2>3. low <= Average(ABCD) /\ Average(ABCD) <= high
    BY <1>9, <2>2, AverageLies
  <2> QED
    BY <1>10, <2>3 DEF OverallScore
<1> QED
  BY <1>13

\* The overall score is between the lowest and the highest score of the kinds.
LEMMA OverallBetween ==
  ASSUME AuditsOK, NEW station, NEW period
  PROVE  LET present == {type \in AuditTypes : Kind(station, type, period) # {}}
             scores == {ScoreOf(station, type, period) : type \in present}
         IN  present # {} => /\ Min(scores) <= OverallScore(station, period)
                             /\ OverallScore(station, period) <= Max(scores)
<1> DEFINE present == {type \in AuditTypes : Kind(station, type, period) # {}}
           scores == {ScoreOf(station, type, period) : type \in present}
<1> SUFFICES ASSUME present # {}
             PROVE  Min(scores) <= OverallScore(station, period) /\ OverallScore(station, period) <= Max(scores)
  OBVIOUS
<1>1. ASSUME NEW type \in present PROVE ScoreOf(station, type, period) \in 0..100
  <2> DEFINE A == Kind(station, type, period)
  <2>1. A \in SUBSET DOMAIN audits /\ A # {}
    BY KindsApart
  <2> HIDE DEF A
  <2>2. CountOf(A) # 0
    BY <2>1, ScoresThere
  <2>3. 0 \in Nat /\ 100 \in Nat
    OBVIOUS
  <2>4. Average(A) \in 0..100
    BY <2>2, <2>3, AverageLies
  <2> QED
    BY <2>4 DEF ScoreOf, A
<1>2. scores \in SUBSET (0..100) /\ scores # {}
  BY <1>1
<1>3. ASSUME NEW type \in AuditTypes, Kind(station, type, period) # {}
      PROVE  ScoreOf(station, type, period) \in scores
  BY <1>3
<1> DEFINE low == Min(scores)
           high == Max(scores)
<1> HIDE DEF scores
<1>4. /\ high \in scores /\ \A x \in scores : x <= high
      /\ low \in scores /\ \A x \in scores : low <= x
  <2> DEFINE n == 100
  <2>1. n \in Nat /\ scores \in SUBSET (0..n) /\ scores # {}
    BY <1>2
  <2> HIDE DEF n, low, high
  <2>2. /\ Max(scores) \in scores /\ \A x \in scores : x <= Max(scores)
        /\ Min(scores) \in scores /\ \A x \in scores : Min(scores) <= x
    BY <2>1, MinMax
  <2> QED
    BY <2>2 DEF low, high
<1> HIDE DEF low, high
<1>5. low \in Nat /\ high \in Nat
  <2>1. \A x \in scores : x \in Nat
    BY <1>2
  <2> QED
    BY <1>4, <2>1
<1>6. \A type \in AuditTypes : Kind(station, type, period) # {} =>
           low <= ScoreOf(station, type, period) /\ ScoreOf(station, type, period) <= high
  BY <1>3, <1>4
<1>7. \A type \in AuditTypes : Kind(station, type, period) # {} =>
           low <= OverallScore(station, period) /\ OverallScore(station, period) <= high
  BY <1>5, <1>6, OverallLies
<1> QED
  BY <1>7 DEF low, high

\* The things of each group, counted group by group, are all of them.
SumOver(trend, type, D) == MapThenSumSet(LAMBDA x : trend[x][type], D)

LEMMA CountedByGroup ==
  ASSUME NEW P, IsFiniteSet(P), NEW D, IsFiniteSet(D), NEW d \in [P -> D],
         NEW trend, NEW type, \A x \in D : trend[x][type] = Cardinality({i \in P : d[i] = x})
  PROVE  SumOver(trend, type, D) = Cardinality(P)
<1> DEFINE Of(s) == {i \in P : d[i] \in s}
           Recurs(iter) == iter = [s \in SUBSET D |->
             IF s = {} THEN 0
             ELSE trend[CHOOSE x \in s : TRUE][type] + iter[s \ {CHOOSE x \in s : TRUE}]]
           Iter == CHOOSE iter : Recurs(iter)
           h == [s \in SUBSET D |-> Cardinality(Of(s))]
<1>1. SumOver(trend, type, D) = Iter[D]
  BY DEF SumOver, MapThenSumSet, MapThenFoldSet
<1>2. \A s : IsFiniteSet(Of(s)) /\ Cardinality(Of(s)) \in Nat
  <2>1. \A s : Of(s) \in SUBSET P
    OBVIOUS
  <2> HIDE DEF Of
  <2>2. \A s : IsFiniteSet(Of(s))
    BY <2>1, FS_Subset
  <2> QED
    BY <2>2, FS_CardinalityType
<1>3. ASSUME NEW s \in SUBSET D, NEW x \in s
      PROVE  Cardinality(Of(s)) = trend[x][type] + Cardinality(Of(s \ {x}))
  <2> DEFINE A == Of({x})
             B == Of(s \ {x})
  <2>1. A \cap B = {} /\ Of(s) = A \cup B
    OBVIOUS
  <2>2. A = {i \in P : d[i] = x}
    OBVIOUS
  <2>3. Cardinality(A) = trend[x][type]
    <3> HIDE DEF A
    <3> QED
      BY <2>2
  <2>4. IsFiniteSet(A) /\ IsFiniteSet(B) /\ Cardinality(A) \in Nat /\ Cardinality(B) \in Nat
    BY <1>2
  <2> HIDE DEF A, B, Of
  <2>5. Cardinality(A \cup B) = Cardinality(A) + Cardinality(B) - Cardinality(A \cap B)
    BY <2>4, FS_Union
  <2>6. Cardinality(A \cap B) = 0
    BY <2>1, FS_EmptySet
  <2> QED
    BY <2>1, <2>3, <2>4, <2>5, <2>6 DEF B
<1>4. Cardinality(Of({})) = 0
  <2>1. Of({}) = {}
    OBVIOUS
  <2> QED
    BY <2>1, FS_EmptySet
<1> HIDE DEF Of
<1>5. ASSUME NEW s \in SUBSET D
      PROVE  h[s] = IF s = {} THEN 0
                    ELSE trend[CHOOSE x \in s : TRUE][type] + h[s \ {CHOOSE x \in s : TRUE}]
  <2>1. CASE s = {}
    BY <1>4, <2>1
  <2>2. CASE s # {}
    <3> DEFINE x == CHOOSE y \in s : TRUE
    <3>1. x \in s
      BY <2>2
    <3> HIDE DEF x
    <3>2. h[s] = trend[x][type] + h[s \ {x}]
      BY <1>3, <3>1
    <3> QED
      BY <2>2, <3>2 DEF x
  <2> QED
    BY <2>1, <2>2
<1>6. Recurs(h)
  <2>1. h = [s \in SUBSET D |-> h[s]]
    OBVIOUS
  <2> HIDE DEF h
  <2> QED
    BY <1>5, <2>1
<1>7. Recurs(Iter)
  <2> HIDE DEF Recurs, h
  <2> QED
    BY <1>6
<1> HIDE DEF Iter
<1>8. \A s \in SUBSET D : Iter[s] = IF s = {} THEN 0
        ELSE trend[CHOOSE x \in s : TRUE][type] + Iter[s \ {CHOOSE x \in s : TRUE}]
  BY <1>7
<1> HIDE DEF Recurs
<1> DEFINE Alike(s) == Iter[s] = Cardinality(Of(s))
           K == {k \in Nat : \A s \in SUBSET D : Cardinality(s) = k => Alike(s)}
<1>9. \A s \in SUBSET D : IsFiniteSet(s) /\ Cardinality(s) \in Nat
  BY FS_Subset, FS_CardinalityType
<1>10. 0 \in K
  <2>1. ASSUME NEW s \in SUBSET D, Cardinality(s) = 0 PROVE Alike(s)
    <3>1. s = {}
      BY <1>9, <2>1, FS_EmptySet
    <3> QED
      BY <1>4, <1>8, <3>1
  <2> QED
    BY <2>1
<1>11. ASSUME NEW k \in K PROVE k + 1 \in K
  <2>1. k \in Nat /\ \A s \in SUBSET D : Cardinality(s) = k => Alike(s)
    OBVIOUS
  <2>2. ASSUME NEW s \in SUBSET D, Cardinality(s) = k + 1 PROVE Alike(s)
    <3>1. s # {}
      BY <2>1, <2>2, FS_EmptySet
    <3> DEFINE x == CHOOSE y \in s : TRUE
    <3>2. x \in s
      BY <3>1
    <3>3. Iter[s] = trend[x][type] + Iter[s \ {x}]
      BY <1>8, <3>1
    <3> HIDE DEF x, K, Alike
    <3>4. Cardinality(s \ {x}) = Cardinality(s) - 1
      BY <1>9, <3>2, FS_RemoveElement
    <3>5. Cardinality(s \ {x}) = k
      BY <2>1, <2>2, <3>4
    <3>6. Alike(s \ {x})
      BY <2>1, <3>5
    <3>7. Cardinality(Of(s)) = trend[x][type] + Cardinality(Of(s \ {x}))
      BY <1>3, <3>2
    <3> QED
      BY <3>3, <3>6, <3>7 DEF Alike
  <2> QED
    BY <2>1, <2>2
<1>12. K = Nat
  <2> HIDE DEF K
  <2>1. K \in SUBSET Nat
    BY DEF K
  <2> QED
    BY <1>10, <1>11, <2>1, NatSets
<1> HIDE DEF K
<1>13. Alike(D)
  <2>1. Cardinality(D) \in K /\ D \in SUBSET D
    BY <1>9, <1>12
  <2> QED
    BY <2>1 DEF K
<1>14. Of(D) = P
  BY DEF Of
<1> QED
  BY <1>1, <1>13, <1>14

\* The trend counts the audits that can be listed.
LEMMA TrendCounts ==
  ASSUME AuditsOK, NEW station, NEW period, NEW type \in AuditTypes
  PROVE  LET trend == Trend(station, period)
         IN  Cardinality(Records(station, type, period, Unfiltered)) = SumOver(trend, type, DOMAIN trend)
<1> DEFINE K == All(station, period)
           P == Kind(station, type, period)
           trend == Trend(station, period)
           D == {audits[i].day : i \in K}
           d == [i \in P |-> audits[i].day]
<1>1. \A t : Kind(station, t, period) \in SUBSET DOMAIN audits
  BY KindsApart
<1>2. P \in SUBSET K /\ K \in SUBSET DOMAIN audits
  BY <1>1 DEF All
<1>3. Len(audits) \in Nat /\ DOMAIN audits = 1..Len(audits)
  BY DEF AuditsOK
<1>4. IsFiniteSet(DOMAIN audits)
  BY <1>3, FS_Interval
<1>5. IsFiniteSet(K)
  BY <1>2, <1>4, FS_Subset
<1>6. IsFiniteSet(P)
  BY <1>2, <1>5, FS_Subset
<1>7. IsFiniteSet(D)
  <2> DEFINE e == [i \in K |-> audits[i].day]
  <2>1. e \in Surjection(K, D)
    <3> HIDE DEF K
    <3> QED
      BY DEF Surjection
  <2> HIDE DEF K, D, e
  <2> QED
    BY <1>5, <2>1, FS_Surjection
<1>8. d \in [P -> D]
  <2> HIDE DEF P, K
  <2> QED
    BY <1>2
<1>9. Records(station, type, period, Unfiltered) = P
  <2>1. type # Unfiltered
    BY DashboardAssumption
  <2> QED
    BY <2>1 DEF Records, AtGate
<1>10. DOMAIN trend = D /\ \A x \in D : trend[x][type] = Cardinality({i \in P : d[i] = x})
  <2>1. \A x \in D : trend[x][type] = Cardinality({i \in P : audits[i].day = x})
    BY DEF Trend
  <2>2. \A x : {i \in P : audits[i].day = x} = {i \in P : d[i] = x}
    <3> HIDE DEF P
    <3> QED
      OBVIOUS
  <2>3. DOMAIN trend = D
    BY DEF Trend
  <2> HIDE DEF P, D, d, trend
  <2> QED
    BY <2>1, <2>2, <2>3
<1> HIDE DEF P, D, d, trend
<1>11. SumOver(trend, type, D) = Cardinality(P)
  BY <1>6, <1>7, <1>8, <1>10, CountedByGroup
<1> QED
  BY <1>9, <1>10, <1>11 DEF trend

\* A record opens where it is, and nowhere else.
LEMMA RecordsOpen ==
  ASSUME AuditsOK, audits \in Seq(Submissions), NEW station, NEW period,
         NEW i \in Records(station, Unfiltered, period, Unfiltered), NEW reader
  PROVE  Detail(reader, audits[i].auditType, i) # Unfiltered <=> reader = station
<1>1. i \in All(station, period)
  BY DEF Records
<1>2. i \in DOMAIN audits /\ audits[i].station = station
  BY <1>1 DEF All, Kind
<1>3. audits[i] \in Submissions
  BY <1>2
<1>4. audits[i] # Unfiltered
  BY <1>3, DashboardAssumption
<1> QED
  BY <1>2, <1>4 DEF Detail

DashboardIInv == audits \in Seq(Submissions)

\* What is filed are audits that may be filed.
THEOREM DashboardInvariance == DashboardSpec => []DashboardIInv
<1>1. DashboardInit => DashboardIInv
  BY EmptySeq DEF DashboardInit, DashboardIInv
<1>2. DashboardIInv /\ [DashboardNext]_audits => DashboardIInv'
  <2> SUFFICES ASSUME DashboardIInv, [DashboardNext]_audits PROVE DashboardIInv'
    OBVIOUS
  <2>1. CASE AuditFiled
    BY <2>1, AppendProperties DEF AuditFiled, DashboardIInv
  <2>2. CASE UNCHANGED audits
    BY <2>2 DEF DashboardIInv
  <2> QED
    BY <2>1, <2>2 DEF DashboardNext
<1> QED
  BY <1>1, <1>2, PTL DEF DashboardSpec

\* The overview of any period of any station agrees with the records, whatever was filed,
\* for any days, gates and number of audits.
THEOREM OverviewsAgree == DashboardSpec => []OverviewAgrees
<1>1. DashboardIInv => OverviewAgrees
  <2> SUFFICES ASSUME DashboardIInv PROVE OverviewAgrees
    OBVIOUS
  <2>1. AuditsOK
    <3>1. Submissions \subseteq Submission
      BY DashboardAssumption
    <3> HIDE DEF Submission
    <3>2. Len(audits) \in Nat /\ audits \in [1..Len(audits) -> Submission]
      BY <3>1 DEF DashboardIInv
    <3> QED
      BY <3>2 DEF AuditsOK
  <2>2. ASSUME NEW station, NEW period
        PROVE  LET present == {type \in AuditTypes : Kind(station, type, period) # {}}
                   scores == {ScoreOf(station, type, period) : type \in present}
                   trend == Trend(station, period)
               IN  /\ present # {} => /\ Min(scores) <= OverallScore(station, period)
                                      /\ OverallScore(station, period) <= Max(scores)
                   /\ \A type \in AuditTypes :
                        Cardinality(Records(station, type, period, Unfiltered))
                          = MapThenSumSet(LAMBDA day : trend[day][type], DOMAIN trend)
                   /\ \A i \in Records(station, Unfiltered, period, Unfiltered), reader \in StationsShown :
                        Detail(reader, audits[i].auditType, i) # Unfiltered <=> reader = station
    <3> DEFINE present == {type \in AuditTypes : Kind(station, type, period) # {}}
               scores == {ScoreOf(station, type, period) : type \in present}
               trend == Trend(station, period)
    <3>1. present # {} => /\ Min(scores) <= OverallScore(station, period)
                          /\ OverallScore(station, period) <= Max(scores)
      BY <2>1, OverallBetween
    <3>2. \A type \in AuditTypes :
            Cardinality(Records(station, type, period, Unfiltered)) = SumOver(trend, type, DOMAIN trend)
      BY <2>1, TrendCounts
    <3>3. \A type \in AuditTypes :
            Cardinality(Records(station, type, period, Unfiltered))
              = MapThenSumSet(LAMBDA day : trend[day][type], DOMAIN trend)
      <4> HIDE DEF trend
      <4> QED
        BY <3>2 DEF SumOver
    <3>4. \A i \in Records(station, Unfiltered, period, Unfiltered), reader \in StationsShown :
            Detail(reader, audits[i].auditType, i) # Unfiltered <=> reader = station
      BY <2>1, RecordsOpen DEF DashboardIInv
    <3> HIDE DEF present, scores, trend
    <3> QED
      BY <3>1, <3>3, <3>4 DEF present, scores, trend
  <2> QED
    BY <2>2 DEF OverviewAgrees
<1> QED
  BY <1>1, DashboardInvariance, PTL
=============================================================================
