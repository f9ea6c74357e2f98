------------------------------- MODULE Chains -------------------------------
(***************************************************************************)
(* Facts about naturals that the other proofs rest on: sets of them have   *)
(* least elements, recursive functions exist and can be followed step by   *)
(* step.                                                                   *)
(***************************************************************************)
EXTENDS Integers, WellFoundedInduction, TLAPS

\* A set of naturals has a least element.
LEMMA LeastNatural ==
    ASSUME NEW S \in SUBSET Nat, S # {}
    PROVE  \E n \in S : \A m \in S : n <= m
<1> DEFINE R == OpToRel(<, Nat)
<1>1. PICK n \in S : \A m \in S : ~(<<m, n>> \in R)
  <2>1. IsWellFoundedOn(R, Nat)
    BY NatLessThanWellFounded
  <2> HIDE DEF R
  <2> QED
    BY <2>1, WFMin
<1>2. ASSUME NEW m \in S PROVE n <= m
  <2>1. m \in Nat /\ n \in Nat
    OBVIOUS
  <2>2. m < n => <<m, n>> \in R
    BY <2>1 DEF OpToRel
  <2>3. <<m, n>> \notin R
    BY <1>1
  <2>4. ~(m < n)
    BY <2>2, <2>3
  <2> HIDE DEF R
  <2> QED
    BY <2>1, <2>4
<1> QED
  BY <1>2

\* A chain of values that starts in S[0] and moves from each set to the next
\* arrives in the last.
LEMMA ChainArrives ==
    ASSUME NEW N \in Nat, NEW S, NEW f, f[0] \in S[0],
           \A n \in 1 .. N : f[n - 1] \in S[n - 1] => f[n] \in S[n]
    PROVE  f[N] \in S[N]
<1> DEFINE astray == {n \in 0 .. N : f[n] \notin S[n]}
<1> SUFFICES ASSUME f[N] \notin S[N] PROVE FALSE
  OBVIOUS
<1>1. astray \in SUBSET Nat /\ astray # {}
  OBVIOUS
<1>2. PICK n \in astray : \A m \in astray : n <= m
  BY <1>1, LeastNatural
<1>3. n \in 1 .. N /\ n - 1 \in 0 .. N
  BY <1>2
<1>4. n - 1 \notin astray
  BY <1>2, <1>3
<1> QED
  BY <1>2, <1>3, <1>4

\* A chain can be built step by step.
HasChain(N, T, first, step) ==
    \E f \in [0 .. N -> T] : f[0] = first /\ \A n \in 1 .. N : f[n] = step[n][f[n - 1]]

LEMMA ChainExists ==
    ASSUME NEW N \in Nat, NEW T, NEW first \in T, NEW step \in [1 .. N -> [T -> T]]
    PROVE  HasChain(N, T, first, step)
<1> DEFINE Built(m) == \E f \in [0 .. m -> T] :
                          f[0] = first /\ \A n \in 1 .. m : f[n] = step[n][f[n - 1]]
           missing == {m \in 0 .. N : ~Built(m)}
<1> SUFFICES ASSUME ~Built(N) PROVE FALSE
  BY DEF HasChain
<1>0. Built(0)
  <2> DEFINE f == [n \in 0 .. 0 |-> first]
  <2>1. f \in [0 .. 0 -> T] /\ f[0] = first
    OBVIOUS
  <2>2. \A n \in 1 .. 0 : f[n] = step[n][f[n - 1]]
    OBVIOUS
  <2> HIDE DEF f
  <2> QED
    BY <2>1, <2>2
<1>1. ASSUME NEW m \in 1 .. N, Built(m - 1) PROVE Built(m)
  <2>1. PICK f \in [0 .. m - 1 -> T] :
            f[0] = first /\ \A n \in 1 .. m - 1 : f[n] = step[n][f[n - 1]]
    BY <1>1
  <2> DEFINE g == [n \in 0 .. m |-> IF n = m THEN step[m][f[m - 1]] ELSE f[n]]
  <2>2. f[m - 1] \in T /\ step[m][f[m - 1]] \in T
    <3>1. m - 1 \in 0 .. m - 1
      OBVIOUS
    <3>2. f[m - 1] \in T
      BY <2>1, <3>1
    <3> QED
      BY <3>2
  <2>3. g \in [0 .. m -> T]
    <3>1. ASSUME NEW n \in 0 .. m PROVE n = m \/ n \in 0 .. m - 1
      OBVIOUS
    <3> QED
      BY <2>1, <2>2, <3>1
  <2>4. g[0] = first
    BY <2>1
  <2>5. ASSUME NEW n \in 1 .. m PROVE g[n] = step[n][g[n - 1]]
    <3>1. n \in 0 .. m /\ n - 1 \in 0 .. m /\ n - 1 # m
      OBVIOUS
    <3>2. g[n - 1] = f[n - 1]
      BY <3>1
    <3>3. CASE n = m
      BY <3>1, <3>2, <3>3
    <3>4. CASE n # m
      <4>1. n \in 1 .. m - 1 /\ g[n] = f[n]
        BY <3>1, <3>4
      <4> QED
        BY <2>1, <3>2, <4>1
    <3> QED
      BY <3>3, <3>4
  <2> HIDE DEF g
  <2> QED
    BY <2>3, <2>4, <2>5
<1> HIDE DEF Built
<1>2. missing \in SUBSET Nat /\ missing # {}
  OBVIOUS
<1>3. PICK m \in missing : \A k \in missing : m <= k
  BY <1>2, LeastNatural
<1>4. m \in 1 .. N /\ m - 1 \in 0 .. N
  BY <1>0, <1>3
<1>5. m - 1 \notin missing
  BY <1>3, <1>4
<1> QED
  BY <1>1, <1>3, <1>4, <1>5

\* Finitely many naturals have a greatest.
LEMMA GreatestExists ==
    ASSUME NEW N \in Nat \ {0}, NEW f \in [1 .. N -> Nat]
    PROVE  \E k \in 1 .. N : \A n \in 1 .. N : f[n] <= f[k]
<1> DEFINE Greatest(l) == \E i \in 1 .. l : \A j \in 1 .. l : f[j] <= f[i]
           without     == {l \in 1 .. N : ~Greatest(l)}
<1> SUFFICES ASSUME ~Greatest(N) PROVE FALSE
  OBVIOUS
<1>1. Greatest(1)
  OBVIOUS
<1>2. ASSUME NEW m \in 2 .. N, Greatest(m - 1) PROVE Greatest(m)
  <2>1. PICK k \in 1 .. m - 1 : \A n \in 1 .. m - 1 : f[n] <= f[k]
    BY <1>2
  <2> HIDE DEF Greatest
  <2>2. m \in Nat /\ k \in Nat /\ k \in 1 .. N /\ m \in 1 .. N /\ k \in 1 .. m /\ m \in 1 .. m
    OBVIOUS
  <2>3. \A n \in 1 .. N : f[n] \in Nat
    OBVIOUS
  <2>4. ASSUME NEW n \in 1 .. m PROVE n \in 1 .. N /\ (n = m \/ n \in 1 .. m - 1)
    BY <2>2
  <2>5. CASE f[m] <= f[k]
    <3>1. ASSUME NEW n \in 1 .. m PROVE f[n] <= f[k]
      BY <2>1, <2>4, <2>5
    <3> QED
      BY <2>2, <3>1 DEF Greatest
  <2>6. CASE f[k] <= f[m]
    <3>1. ASSUME NEW n \in 1 .. m PROVE f[n] <= f[m]
      <4>1. f[n] \in Nat /\ f[k] \in Nat /\ f[m] \in Nat
        BY <2>2, <2>3, <2>4
      <4>2. f[n] <= f[k] \/ n = m
        BY <2>1, <2>4
      <4> QED
        BY <2>6, <4>1, <4>2
    <3> QED
      BY <2>2, <3>1 DEF Greatest
  <2>7. f[m] <= f[k] \/ f[k] <= f[m]
    BY <2>2, <2>3
  <2> QED
    BY <2>5, <2>6, <2>7
<1> HIDE DEF Greatest
<1>3. without \in SUBSET Nat /\ without # {}
  OBVIOUS
<1>4. PICK m \in without : \A n \in without : m <= n
  BY <1>3, LeastNatural
<1>5. m \in 2 .. N /\ m - 1 \in 1 .. N
  BY <1>1, <1>4
<1>6. m - 1 \notin without
  BY <1>4, <1>5
<1> QED
  BY <1>2, <1>4, <1>5, <1>6
=============================================================================
