-------------------------------- MODULE Loops --------------------------------
(***************************************************************************)
(* A loop of the code that goes through a list is a recursive function of  *)
(* how far it has come.  What such functions are, and what they keep.      *)
(***************************************************************************)
EXTENDS Integers, Sequences, WellFoundedInduction, TLAPS

(* A set of numbers that has 0 and with each number the next has them all. *)
LEMMA NatSetInduction ==
  ASSUME NEW S \in SUBSET Nat, 0 \in S, \A n \in S : n + 1 \in S
  PROVE  S = Nat
<1>1. SUFFICES ASSUME Nat \ S # {} PROVE FALSE
  OBVIOUS
<1>2. \E x \in Nat \ S : \A y \in Nat \ S : ~(<<y, x>> \in OpToRel(<, Nat))
  BY ONLY <1>1, NatLessThanWellFounded, WFMin, Nat \ S \in SUBSET Nat, Zenon
<1>3. PICK x \in Nat \ S : \A y \in Nat \ S : ~(y < x)
  BY <1>2 DEF OpToRel
<1>4. x # 0 /\ x - 1 \in Nat /\ x - 1 < x
  BY <1>3
<1>5. x - 1 \in S
  BY <1>3, <1>4
<1> QED
  BY <1>5, <1>4, <1>3

(* f is what a loop of N steps G from b has after each.                    *)
Runs(f, b, G, N) == f[0] = b /\ \A k \in 1 .. N : f[k] = G[<<f[k - 1], k>>]

(* A loop of N steps, each a function of what is so far, has its values.   *)
LEMMA LoopExists ==
  ASSUME NEW D, NEW N \in Nat, NEW b \in D, NEW G \in [D \X (1 .. N) -> D]
  PROVE  \E f \in [0 .. N -> D] : Runs(f, b, G, N)
<1> DEFINE Upto(f, n) == f[0] = b /\ \A k \in 1 .. n : k <= N => f[k] = G[<<f[k - 1], k>>]
           S == {n \in Nat : \E f \in [0 .. n -> D] : Upto(f, n)}
<1>1. 0 \in S
  <2>1. [k \in 0 .. 0 |-> b] \in [0 .. 0 -> D] /\ Upto([k \in 0 .. 0 |-> b], 0)
    OBVIOUS
  <2> QED
    BY <2>1
<1>2. ASSUME NEW n \in S PROVE n + 1 \in S
  <2>1. PICK f \in [0 .. n -> D] : Upto(f, n)
    BY <1>2
  <2> DEFINE d == IF n + 1 <= N THEN G[<<f[n], n + 1>>] ELSE b
             g == [k \in 0 .. n + 1 |-> IF k <= n THEN f[k] ELSE d]
  <2>2. n \in Nat
    BY <1>2
  <2>3. f[n] \in D
    BY <2>1, <2>2
  <2>4. d \in D
    <3>1. CASE n + 1 <= N
      <4>1. <<f[n], n + 1>> \in D \X (1 .. N)
        BY <2>2, <2>3, <3>1
      <4> QED
        BY <4>1, <3>1
    <3> QED
      BY <3>1
  <2>5. g \in [0 .. n + 1 -> D]
    BY <2>1, <2>2, <2>4
  <2>6. Upto(g, n + 1)
    <3>1. g[0] = b
      BY <2>1, <2>2
    <3>2. ASSUME NEW k \in 1 .. n + 1, k <= N PROVE g[k] = G[<<g[k - 1], k>>]
      <4>1. g[k - 1] = f[k - 1]
        BY <2>2
      <4>2. CASE k <= n
        BY <4>1, <4>2, <2>1, <2>2, <3>2
      <4>3. CASE k = n + 1
        <5>1. g[n + 1] = d /\ d = G[<<f[n], n + 1>>] /\ k - 1 = n /\ f[n] = g[k - 1]
          BY <4>1, <4>3, <2>2, <3>2
        <5> QED
          BY <5>1, <4>3
      <4> QED
        BY <4>2, <4>3, <2>2
    <3> QED
      BY <3>1, <3>2
  <2> HIDE DEF g, Upto
  <2>7. \E h \in [0 .. n + 1 -> D] : Upto(h, n + 1)
    BY <2>5, <2>6
  <2> QED
    BY <2>2, <2>7
<1>3. N \in S
  BY <1>1, <1>2, NatSetInduction, S \in SUBSET Nat
<1>4. PICK f \in [0 .. N -> D] : Upto(f, N)
  BY <1>3
<1> QED
  BY <1>4 DEF Runs

(* What holds at the start of a loop and is kept by each step.             *)
LEMMA LoopInduction ==
  ASSUME NEW N \in Nat, NEW I, 0 \in I, \A k \in 1 .. N : k - 1 \in I => k \in I
  PROVE  \A k \in 0 .. N : k \in I
<1> DEFINE S == {n \in Nat : n <= N => n \in I}
<1>1. \A n \in S : n + 1 \in S
  <2> TAKE n \in S
  <2>1. n \in Nat /\ (n <= N => n \in I) /\ n + 1 - 1 = n
    OBVIOUS
  <2>2. n + 1 <= N => n + 1 \in 1 .. N /\ n <= N
    BY <2>1
  <2>3. n + 1 <= N => n + 1 \in I
    BY <2>1, <2>2
  <2> QED
    BY <2>1, <2>3
<1>2. 0 \in S /\ S \in SUBSET Nat
  OBVIOUS
<1> HIDE DEF S
<1>3. S = Nat
  BY <1>1, <1>2, NatSetInduction
<1> QED
  BY <1>3 DEF S
=============================================================================
