-------------------------- MODULE RaceOffice_proofs --------------------------
(***************************************************************************)
(* Proofs about participants, awards and boards, for any race and any      *)
(* award configuration.                                                    *)
(***************************************************************************)
EXTENDS MCRaceOffice, FiniteSetTheorems, FunctionTheorems, SequenceTheorems,
        WellFoundedInduction, Loops, TLAPS

-----------------------------------------------------------------------------
(* The first of a list *)

(* The loop of getWinners.                                                 *)
LEMMA PickedSteps ==
  ASSUME NEW T, NEW list \in Seq(T), NEW set, NEW n \in Int
  PROVE  /\ Picked(list, set, n) \in [0 .. Len(list) -> Seq(T)]
         /\ Picked(list, set, n)[0] = <<>>
         /\ \A k \in 1 .. Len(list) :
              Picked(list, set, n)[k] =
                IF list[k] \in set /\ Len(Picked(list, set, n)[k - 1]) < n
                THEN Append(Picked(list, set, n)[k - 1], list[k])
                ELSE Picked(list, set, n)[k - 1]
<1> DEFINE N == Len(list)
           P(f) == f = [k \in 0 .. Len(list) |->
             IF k = 0 THEN <<>>
             ELSE LET before == f[k - 1]
                  IN IF list[k] \in set /\ Len(before) < n THEN Append(before, list[k]) ELSE before]
           G == [p \in Seq(T) \X (1 .. N) |->
             IF list[p[2]] \in set /\ Len(p[1]) < n THEN Append(p[1], list[p[2]]) ELSE p[1]]
           h == CHOOSE f : P(f)
<1>1. G \in [Seq(T) \X (1 .. N) -> Seq(T)]
  OBVIOUS
<1>2. ASSUME NEW s \in Seq(T), NEW k \in 1 .. N
      PROVE  G[<<s, k>>] = IF list[k] \in set /\ Len(s) < n THEN Append(s, list[k]) ELSE s
  OBVIOUS
<1>3. N \in Nat /\ <<>> \in Seq(T)
  OBVIOUS
<1>4. \E f : P(f)
  <2> HIDE DEF G, N
  <2>1. PICK f \in [0 .. N -> Seq(T)] : Runs(f, <<>>, G, N)
    BY <1>1, <1>3, LoopExists, Zenon
  <2>2. ASSUME NEW k \in 0 .. N
        PROVE  f[k] = IF k = 0 THEN <<>>
          ELSE LET before == f[k - 1]
               IN IF list[k] \in set /\ Len(before) < n THEN Append(before, list[k]) ELSE before
    <3>1. CASE k = 0
      BY <3>1, <2>1 DEF Runs
    <3>2. CASE k # 0
      <4>1. k \in 1 .. N /\ k - 1 \in 0 .. N
        BY <3>2, <1>3
      <4>2. f[k] = G[<<f[k - 1], k>>] /\ f[k - 1] \in Seq(T)
        BY <4>1, <2>1, <3>2 DEF Runs
      <4>3. f[k] = IF list[k] \in set /\ Len(f[k - 1]) < n THEN Append(f[k - 1], list[k])
                   ELSE f[k - 1]
        BY <4>1, <4>2, <1>2
      <4> QED
        BY <4>3, <3>2
    <3> QED
      BY <3>1, <3>2
  <2>3. P(f)
    <3>1. f = [k \in 0 .. N |-> f[k]]
      BY <2>1
    <3> QED
      BY <3>1, <2>2 DEF N
  <2> QED
    BY <2>3
<1>5. P(h)
  BY <1>4, Zenon
<1>6. Picked(list, set, n) = h
  BY Zenon DEF Picked
<1> HIDE DEF h
<1>7. /\ h = [k \in 0 .. N |-> h[k]] /\ h[0] = <<>>
      /\ \A k \in 1 .. N :
           h[k] = IF list[k] \in set /\ Len(h[k - 1]) < n THEN Append(h[k - 1], list[k])
                  ELSE h[k - 1]
  <2>1. 0 \in 0 .. N /\ \A k \in 1 .. N : k \in 0 .. N /\ k # 0
    BY <1>3
  <2> QED
    BY <1>5, <2>1
<1>8. \A k \in 0 .. N : k \in {j \in 0 .. N : h[j] \in Seq(T)}
  <2> DEFINE I == {j \in 0 .. N : h[j] \in Seq(T)}
  <2>1. 0 \in I
    BY <1>7, <1>3
  <2>2. ASSUME NEW k \in 1 .. N, k - 1 \in I PROVE k \in I
    <3>1. h[k - 1] \in Seq(T) /\ list[k] \in T /\ k \in 0 .. N
      BY <2>2, <1>3
    <3> QED
      BY <3>1, <1>7
  <2> HIDE DEF I, N
  <2>3. \A k \in 0 .. N : k \in I
    BY <2>1, <2>2, <1>3, LoopInduction
  <2> QED
    BY <2>3 DEF I
<1> QED
  BY <1>6, <1>7, <1>8

Once(list) == \A j, k \in DOMAIN list : list[j] = list[k] => j = k

(* picked is of the first k on the list, in their order, and leaves out    *)
(* whom the set has only when it is full of others who are before.         *)
IsPicked(list, set, n, k, picked) ==
  /\ Len(picked) <= n /\ Len(picked) <= k
  /\ \A i \in DOMAIN picked : picked[i] \in set /\ \E p \in 1 .. k : list[p] = picked[i]
  /\ \A i, j \in DOMAIN picked, p, q \in DOMAIN list :
       i < j /\ list[p] = picked[i] /\ list[q] = picked[j] => p < q
  /\ \A p \in 1 .. k : list[p] \in set =>
       \/ \E i \in DOMAIN picked : picked[i] = list[p]
       \/ /\ Len(picked) = n /\ n < p
          /\ \A i \in DOMAIN picked, q \in DOMAIN list : list[q] = picked[i] => q < p

LEMMA PickedAll ==
  ASSUME NEW T, NEW list \in Seq(T), NEW set, NEW n \in Nat, Once(list)
  PROVE  \A k \in 0 .. Len(list) : IsPicked(list, set, n, k, Picked(list, set, n)[k])
<1> DEFINE N == Len(list)
           P(k) == Picked(list, set, n)[k]
           I == {k \in 0 .. N : IsPicked(list, set, n, k, P(k))}
<1>1. /\ N \in Nat
      /\ \A k \in 0 .. N : P(k) \in Seq(T)
      /\ P(0) = <<>>
      /\ \A k \in 1 .. N : P(k) = IF list[k] \in set /\ Len(P(k - 1)) < n
                                  THEN Append(P(k - 1), list[k]) ELSE P(k - 1)
  BY PickedSteps, n \in Int
<1>2. 0 \in I
  BY <1>1 DEF IsPicked
<1>3. ASSUME NEW k \in 1 .. N, k - 1 \in I PROVE k \in I
  <2> DEFINE a == P(k - 1)
             b == P(k)
  <2>1. a \in Seq(T) /\ b \in Seq(T) /\ list[k] \in T /\ k \in 0 .. N /\ k - 1 \in 0 .. N /\ k \in Nat
    BY <1>1
  <2>2. IsPicked(list, set, n, k - 1, a)
    BY <1>3
  <2>3. b = IF list[k] \in set /\ Len(a) < n THEN Append(a, list[k]) ELSE a
    BY <1>1
  <2> HIDE DEF a, b
  <2>4. IsPicked(list, set, n, k, b)
    <3>1. CASE list[k] \in set /\ Len(a) < n
      <4>1. /\ b \in Seq(T) /\ Len(b) = Len(a) + 1 /\ b[Len(b)] = list[k]
            /\ \A i \in DOMAIN a : i \in DOMAIN b /\ b[i] = a[i]
            /\ \A i \in DOMAIN b : i \in DOMAIN a \/ i = Len(b)
        <5>1. b = Append(a, list[k])
          BY <2>3, <3>1
        <5>2. /\ Len(b) = Len(a) + 1 /\ b[Len(b)] = list[k]
              /\ \A i \in 1 .. Len(a) : b[i] = a[i]
          BY <5>1, <2>1, AppendProperties
        <5>3. DOMAIN a = 1 .. Len(a) /\ DOMAIN b = 1 .. Len(b) /\ Len(a) \in Nat
          BY <2>1
        <5>4. \A i \in DOMAIN a : i \in DOMAIN b /\ b[i] = a[i]
          BY ONLY <5>2, <5>3
        <5>5. \A i \in DOMAIN b : i \in DOMAIN a \/ i = Len(b)
          BY ONLY <5>2, <5>3
        <5> QED
          BY <5>2, <5>4, <5>5, <2>1
      <4>2. ASSUME NEW i \in DOMAIN b
            PROVE  b[i] \in set /\ \E p \in 1 .. k : list[p] = b[i]
        <5>1. CASE i \in DOMAIN a
          <6>1. a[i] \in set /\ \E p \in 1 .. k - 1 : list[p] = a[i]
            BY <5>1, <2>2 DEF IsPicked
          <6> QED
            BY <6>1, <5>1, <4>1, <2>1
        <5>2. CASE i = Len(b)
          BY <5>2, <4>1, <2>1, <3>1
        <5> QED
          BY <5>1, <5>2, <4>1
      <4>3. ASSUME NEW i \in DOMAIN b, NEW j \in DOMAIN b, NEW p \in DOMAIN list,
                   NEW q \in DOMAIN list, i < j, list[p] = b[i], list[q] = b[j]
            PROVE  p < q
        <5>1. i \in DOMAIN a
          BY <4>1, <4>3, <2>1
        <5>2. CASE j \in DOMAIN a
          BY <5>1, <5>2, <4>1, <4>3, <2>2 DEF IsPicked
        <5>3. CASE j = Len(b)
          <6>1. q = k
            BY <5>3, <4>1, <4>3, <2>1 DEF Once
          <6>2. PICK m \in 1 .. k - 1 : list[m] = a[i]
            BY <5>1, <2>2 DEF IsPicked
          <6>3. m = p
            BY <6>2, <5>1, <4>1, <4>3, <2>1 DEF Once
          <6> QED
            BY <6>1, <6>2, <6>3, <2>1
        <5> QED
          BY <5>2, <5>3, <4>1
      <4>4. ASSUME NEW p \in 1 .. k, list[p] \in set
            PROVE  \E i \in DOMAIN b : b[i] = list[p]
        <5>1. CASE p = k
          BY <5>1, <4>1, <2>1
        <5>2. CASE p \in 1 .. k - 1
          <6>1. \E i \in DOMAIN a : a[i] = list[p]
            BY <5>2, <4>4, <2>2, <3>1 DEF IsPicked
          <6> QED
            BY <6>1, <4>1
        <5> QED
          BY <5>1, <5>2, <2>1
      <4>5. Len(b) <= n /\ Len(b) <= k
        BY <4>1, <2>1, <2>2, <3>1 DEF IsPicked
      <4> QED
        BY <4>2, <4>3, <4>4, <4>5 DEF IsPicked
    <3>2. CASE list[k] \notin set
      <4>1. b = a
        BY <2>3, <3>2
      <4>2. \A p \in 1 .. k : list[p] \in set => p \in 1 .. k - 1
        BY <3>2, <2>1
      <4>3. \A p \in 1 .. k - 1 : p \in 1 .. k
        BY <2>1
      <4> QED
        BY <4>1, <4>2, <4>3, <2>1, <2>2 DEF IsPicked
    <3>3. CASE list[k] \in set /\ ~(Len(a) < n)
      <4>1. b = a /\ Len(a) = n /\ n < k
        BY <2>1, <2>2, <2>3, <3>3 DEF IsPicked
      <4>2. \A i \in DOMAIN a, q \in DOMAIN list : list[q] = a[i] => q < k
        <5> TAKE i \in DOMAIN a, q \in DOMAIN list
        <5> HAVE list[q] = a[i]
        <5>1. PICK p \in 1 .. k - 1 : list[p] = a[i]
          BY <2>2 DEF IsPicked
        <5>2. p = q
          BY <5>1, <2>1 DEF Once
        <5> QED
          BY <5>1, <5>2, <2>1
      <4>3. ASSUME NEW p \in 1 .. k, list[p] \in set
            PROVE  \/ \E i \in DOMAIN b : b[i] = list[p]
                   \/ /\ Len(b) = n /\ n < p
                      /\ \A i \in DOMAIN b, q \in DOMAIN list : list[q] = b[i] => q < p
        <5>1. CASE p = k
          BY <5>1, <4>1, <4>2
        <5>2. CASE p \in 1 .. k - 1
          BY <5>2, <4>1, <4>3, <2>2 DEF IsPicked
        <5> QED
          BY <5>1, <5>2, <2>1
      <4>4. \A p \in 1 .. k - 1 : p \in 1 .. k
        BY <2>1
      <4>5. /\ Len(b) <= n /\ Len(b) <= k
            /\ \A i \in DOMAIN b : b[i] \in set /\ \E p \in 1 .. k : list[p] = b[i]
            /\ \A i, j \in DOMAIN b, p, q \in DOMAIN list :
                 i < j /\ list[p] = b[i] /\ list[q] = b[j] => p < q
        BY <4>1, <4>4, <2>1, <2>2 DEF IsPicked
      <4> QED
        BY <4>3, <4>5 DEF IsPicked
    <3> QED
      BY <3>1, <3>2, <3>3
  <2> QED
    BY <2>1, <2>4 DEF b
<1> HIDE DEF I, N
<1>4. \A k \in 0 .. N : k \in I
  BY <1>1, <1>2, <1>3, LoopInduction
<1> QED
  BY <1>4 DEF I, N

(* What getWinners comes to.                                               *)
LEMMA FirstOfIsPicked ==
  ASSUME NEW T, NEW list \in Seq(T), NEW set, NEW n \in Nat, Once(list)
  PROVE  /\ FirstOf(list, set, n) \in Seq(T)
         /\ IsPicked(list, set, n, Len(list), FirstOf(list, set, n))
         /\ Once(FirstOf(list, set, n))
<1> DEFINE F == FirstOf(list, set, n)
<1>1. Len(list) \in Nat /\ Len(list) \in 0 .. Len(list)
  OBVIOUS
<1>2. IsPicked(list, set, n, Len(list), F)
  BY <1>1, PickedAll DEF FirstOf
<1>3. F \in Seq(T)
  BY <1>1, PickedSteps, n \in Int DEF FirstOf
<1> HIDE DEF F
<1>4. ASSUME NEW i \in DOMAIN F, NEW j \in DOMAIN F, F[i] = F[j], i < j PROVE FALSE
  <2>1. PICK p \in 1 .. Len(list) : list[p] = F[i]
    BY <1>2 DEF IsPicked
  <2>2. p \in DOMAIN list
    OBVIOUS
  <2>3. p < p
    BY <2>1, <2>2, <1>2, <1>4 DEF IsPicked
  <2> QED
    BY <2>3
<1>5. Once(F)
  BY <1>3, <1>4 DEF Once
<1> QED
  BY <1>2, <1>3, <1>5 DEF F

-----------------------------------------------------------------------------
(* The categories *)

Rule == [gender : {"", "M", "F"}, min : Int, max : Int, count : Nat \ {0}, group : BOOLEAN]

LEMMA PositiveIsNatural == \A n \in Int : ~(n <= 0) => n \in Nat \ {0}
  OBVIOUS

LEMMA SplitIsOfRules ==
  ASSUME NEW split \in BOOLEAN, NEW min \in Int, NEW max \in Int, NEW count \in Int,
         NEW group \in BOOLEAN
  PROVE  SplitCategory(split, min, max, count, group) \in Seq(Rule)
<1>1. CASE count <= 0
  BY <1>1 DEF SplitCategory
<1>2. CASE ~(count <= 0)
  <2>1. ASSUME NEW g \in {"", "M", "F"} PROVE Category(g, min, max, count, group) \in Rule
    <3>1. count \in Nat \ {0}
      BY <1>2, PositiveIsNatural, Zenon
    <3> QED
      BY <3>1, group \in BOOLEAN, Zenon DEF Category, Rule
  <2>2. \A a, b \in Rule : <<a>> \in Seq(Rule) /\ <<a, b>> \in Seq(Rule)
    OBVIOUS
  <2>3. CASE split
    BY <1>2, <2>1, <2>2, <2>3 DEF SplitCategory
  <2>4. CASE ~split
    BY <1>2, <2>1, <2>2, <2>4 DEF SplitCategory
  <2> QED
    BY <2>3, <2>4
<1> QED
  BY <1>1, <1>2

LEMMA AgeGroupsAreRules ==
  ASSUME NEW split \in BOOLEAN, NEW depth \in Int, NEW groups \in Seq(AgeGroup)
  PROVE  AgeGroups(split, depth, groups)[Len(groups)] \in Seq(Rule)
<1> DEFINE N == Len(groups)
           P(f) == f = [k \in 0 .. Len(groups) |->
             IF k = 0 THEN <<>>
             ELSE f[k - 1] \o SplitCategory(split, groups[k].min, groups[k].max, depth, TRUE)]
           C(k) == SplitCategory(split, groups[k].min, groups[k].max, depth, TRUE)
           G == [p \in Seq(Rule) \X (1 .. N) |-> p[1] \o C(p[2])]
           h == CHOOSE f : P(f)
<1>1. N \in Nat /\ <<>> \in Seq(Rule)
  OBVIOUS
<1>2. ASSUME NEW k \in 1 .. N PROVE C(k) \in Seq(Rule)
  <2>1. groups[k] \in AgeGroup
    OBVIOUS
  <2>2. groups[k].min \in Int /\ groups[k].max \in Int
    BY <2>1 DEF AgeGroup
  <2> QED
    BY <2>2, SplitIsOfRules
<1> HIDE DEF C
<1>3. \A s \in Seq(Rule), k \in 1 .. N : s \o C(k) \in Seq(Rule)
  BY <1>2, ConcatProperties
<1>4. G \in [Seq(Rule) \X (1 .. N) -> Seq(Rule)]
  BY <1>3
<1>5. \A s \in Seq(Rule), k \in 1 .. N : G[<<s, k>>] = s \o C(k)
  OBVIOUS
<1>6. \E f : P(f)
  <2> HIDE DEF G, N
  <2>1. PICK f \in [0 .. N -> Seq(Rule)] : Runs(f, <<>>, G, N)
    BY <1>1, <1>4, LoopExists, Zenon
  <2>2. ASSUME NEW k \in 0 .. N PROVE f[k] = IF k = 0 THEN <<>> ELSE f[k - 1] \o C(k)
    <3>1. CASE k = 0
      BY <3>1, <2>1 DEF Runs
    <3>2. CASE k # 0
      <4>1. k \in 1 .. N /\ k - 1 \in 0 .. N
        BY <3>2, <1>1
      <4>2. f[k] = G[<<f[k - 1], k>>] /\ f[k - 1] \in Seq(Rule)
        BY <4>1, <2>1 DEF Runs
      <4>3. f[k] = f[k - 1] \o C(k)
        BY <4>1, <4>2, <1>5
      <4> QED
        BY <4>3, <3>2
    <3> QED
      BY <3>1, <3>2
  <2>3. f = [k \in 0 .. N |-> f[k]]
    BY <2>1
  <2>4. P(f)
    BY <2>2, <2>3 DEF N, C
  <2> QED
    BY <2>4
<1>7. P(h)
  BY <1>6, Zenon
<1>8. AgeGroups(split, depth, groups) = h
  BY Zenon DEF AgeGroups
<1> HIDE DEF h
<1>9. h[0] = <<>> /\ \A k \in 1 .. N : h[k] = h[k - 1] \o C(k)
  <2>1. 0 \in 0 .. N /\ \A k \in 1 .. N : k \in 0 .. N /\ k # 0
    BY <1>1
  <2> QED
    BY <1>7, <2>1 DEF C
<1>10. h[N] \in Seq(Rule)
  <2> DEFINE I == {j \in 0 .. N : h[j] \in Seq(Rule)}
  <2>1. \A j : j \in I <=> j \in 0 .. N /\ h[j] \in Seq(Rule)
    BY Zenon
  <2>2. 0 \in 0 .. N /\ N \in 0 .. N
    BY <1>1
  <2>3. h[0] \in Seq(Rule)
    BY <1>9
  <2> HIDE DEF I, N
  <2>4. 0 \in I
    BY <2>1, <2>2, <2>3, Zenon
  <2>5. ASSUME NEW k \in 1 .. N, k - 1 \in I PROVE k \in I
    <3>1. h[k - 1] \in Seq(Rule)
      BY <2>1, <2>5, Zenon
    <3>2. h[k] \in Seq(Rule)
      BY <3>1, <1>3, <1>9, Zenon
    <3>3. k \in 0 .. N
      BY <1>1
    <3> QED
      BY <2>1, <3>2, <3>3, Zenon
  <2>6. \A k \in 0 .. N : k \in I
    BY <2>4, <2>5, <1>1, LoopInduction
  <2> QED
    BY <2>1, <2>2, <2>6
<1> QED
  BY <1>8, <1>10

LEMMA CategoriesAreRules ==
  ASSUME NEW c \in AwardConfig
  PROVE  Categories(c) \in Seq(Rule)
<1> DEFINE Master(k) ==
             LET m == c.masters[IF c.distributed THEN 4 - k ELSE k]
             IN SplitCategory(c.split, m.age, 200, m.count, FALSE)
           O == SplitCategory(c.split, 0, 200, c.overall, FALSE)
           A == AgeGroups(c.split, c.depth, c.groups)[Len(c.groups)]
<1>1. /\ c.split \in BOOLEAN /\ c.distributed \in BOOLEAN /\ c.overall \in Int
      /\ c.masters \in [1 .. 3 -> Masters]
      /\ c.depth \in Int /\ c.groups \in Seq(AgeGroup)
  BY DEF AwardConfig
<1>2. ASSUME NEW k \in 1 .. 3 PROVE Master(k) \in Seq(Rule)
  <2> DEFINE m == c.masters[IF c.distributed THEN 4 - k ELSE k]
  <2>1. (IF c.distributed THEN 4 - k ELSE k) \in 1 .. 3
    BY <1>1
  <2>2. m \in Masters
    BY <2>1, <1>1
  <2>5. m.age \in Int /\ m.count \in Int
    BY <2>2 DEF Masters
  <2> HIDE DEF m
  <2>3. SplitCategory(c.split, m.age, 200, m.count, FALSE) \in Seq(Rule)
    BY <2>5, <1>1, FALSE \in BOOLEAN, 200 \in Int, SplitIsOfRules, Zenon
  <2> QED
    BY <2>3 DEF m
<1>3. O \in Seq(Rule)
  BY <1>1, FALSE \in BOOLEAN, 0 \in Int, 200 \in Int, SplitIsOfRules, Zenon
<1>4. A \in Seq(Rule)
  BY <1>1, AgeGroupsAreRules
<1>5. Categories(c) = O \o Master(1) \o Master(2) \o Master(3) \o A
  BY DEF Categories
<1>6. \A a, b \in Seq(Rule) : a \o b \in Seq(Rule)
  OBVIOUS
<1> HIDE DEF O, A, Master
<1>7. Master(1) \in Seq(Rule) /\ Master(2) \in Seq(Rule) /\ Master(3) \in Seq(Rule)
  BY <1>2
<1> QED
  BY <1>3, <1>4, <1>5, <1>6, <1>7

-----------------------------------------------------------------------------
(* The awards *)

Award == [category : Rule, winners : Seq(Runner)]

LEMMA FinishIsOnce ==
  ASSUME NEW f \in Finish
  PROVE  f \in Seq(Runner) /\ Once(f)
  BY DEF Finish, Once

LEMMA UnclaimedAre ==
  ASSUME NEW list \in Seq(Award), NEW c
  PROVE  \A r : r \in Unclaimed(list, c) <=> r \in Runner /\ r \notin Claimed(list) /\ Eligible(r, c)
  BY DEF Unclaimed

LEMMA WinnersAreAward ==
  ASSUME NEW chute \in Seq(Runner), Once(chute), NEW list \in Seq(Award), NEW c \in Rule
  PROVE  GetWinners(chute, list, c) \in Seq(Award)
<1> DEFINE w == FirstOf(chute, Unclaimed(list, c), c.count)
<1>1. c.count \in Nat
  BY DEF Rule
<1>2. w \in Seq(Runner)
  BY <1>1, FirstOfIsPicked
<1>3. [category |-> c, winners |-> w] \in Award
  BY <1>2 DEF Award
<1> HIDE DEF w
<1>4. Append(list, [category |-> c, winners |-> w]) \in Seq(Award)
  BY <1>3, AppendProperties
<1> QED
  BY <1>4 DEF GetWinners, w

LEMMA AwardedSteps ==
  ASSUME NEW chute \in Seq(Runner), Once(chute), NEW cs \in Seq(Rule)
  PROVE  /\ \A k \in 0 .. Len(cs) : Awarded(chute, cs)[k] \in Seq(Award)
         /\ Awarded(chute, cs)[0] = <<>>
         /\ \A k \in 1 .. Len(cs) :
              Awarded(chute, cs)[k] = GetWinners(chute, Awarded(chute, cs)[k - 1], cs[k])
<1> DEFINE N == Len(cs)
           P(f) == f = [k \in 0 .. Len(cs) |->
             IF k = 0 THEN <<>> ELSE GetWinners(chute, f[k - 1], cs[k])]
           W(s, k) == GetWinners(chute, s, cs[k])
           G == [p \in Seq(Award) \X (1 .. N) |-> W(p[1], p[2])]
           h == CHOOSE f : P(f)
<1>1. N \in Nat /\ <<>> \in Seq(Award) /\ \A k \in 1 .. N : cs[k] \in Rule
  OBVIOUS
<1>2. \A s \in Seq(Award), k \in 1 .. N : W(s, k) \in Seq(Award)
  BY <1>1, WinnersAreAward
<1> HIDE DEF W
<1>3. G \in [Seq(Award) \X (1 .. N) -> Seq(Award)]
  BY <1>2
<1>4. \A s \in Seq(Award), k \in 1 .. N : G[<<s, k>>] = W(s, k)
  OBVIOUS
<1>5. \E f : P(f)
  <2> HIDE DEF G, N
  <2>1. PICK f \in [0 .. N -> Seq(Award)] : Runs(f, <<>>, G, N)
    BY <1>1, <1>3, LoopExists, Zenon
  <2>2. ASSUME NEW k \in 0 .. N PROVE f[k] = IF k = 0 THEN <<>> ELSE W(f[k - 1], k)
    <3>1. CASE k = 0
      BY <3>1, <2>1 DEF Runs
    <3>2. CASE k # 0
      <4>1. k \in 1 .. N /\ k - 1 \in 0 .. N
        BY <3>2, <1>1
      <4>2. f[k] = G[<<f[k - 1], k>>] /\ f[k - 1] \in Seq(Award)
        BY <4>1, <2>1 DEF Runs
      <4>3. f[k] = W(f[k - 1], k)
        BY <4>1, <4>2, <1>4
      <4> QED
        BY <4>3, <3>2
    <3> QED
      BY <3>1, <3>2
  <2>3. f = [k \in 0 .. N |-> f[k]]
    BY <2>1
  <2>4. P(f)
    BY <2>2, <2>3 DEF N, W
  <2> QED
    BY <2>4
<1>6. P(h)
  BY <1>5, Zenon
<1>7. Awarded(chute, cs) = h
  BY Zenon DEF Awarded
<1> HIDE DEF h
<1>8. h[0] = <<>> /\ \A k \in 1 .. N : h[k] = W(h[k - 1], k)
  <2>1. 0 \in 0 .. N /\ \A k \in 1 .. N : k \in 0 .. N /\ k # 0
    BY <1>1
  <2> QED
    BY <1>6, <2>1 DEF W
<1>9. \A k \in 0 .. N : h[k] \in Seq(Award)
  <2> DEFINE I == {j \in 0 .. N : h[j] \in Seq(Award)}
  <2>1. \A j : j \in I <=> j \in 0 .. N /\ h[j] \in Seq(Award)
    BY Zenon
  <2>2. 0 \in 0 .. N
    BY <1>1
  <2>3. h[0] \in Seq(Award)
    BY <1>8
  <2> HIDE DEF I, N
  <2>4. 0 \in I
    BY <2>1, <2>2, <2>3, Zenon
  <2>5. ASSUME NEW k \in 1 .. N, k - 1 \in I PROVE k \in I
    <3>1. h[k - 1] \in Seq(Award)
      BY <2>1, <2>5, Zenon
    <3>2. h[k] \in Seq(Award)
      BY <3>1, <1>2, <1>8, Zenon
    <3>3. k \in 0 .. N
      BY <1>1
    <3> QED
      BY <2>1, <3>2, <3>3, Zenon
  <2>6. \A k \in 0 .. N : k \in I
    BY <2>4, <2>5, <1>1, LoopInduction
  <2> QED
    BY <2>1, <2>6
<1> QED
  BY <1>7, <1>8, <1>9 DEF W

(* What is so of the awards after the first k of the categories cs: each   *)
(* was won as getWinners decides, is of one of those categories, and who   *)
(* has none was beaten.                                                    *)
Won(chute, list) ==
  \A i \in DOMAIN list :
    list[i].winners = FirstOf(chute, Unclaimed(SubSeq(list, 1, i - 1), list[i].category),
                              list[i].category.count)
Beaten(chute, cs, list, m, r) ==
  \/ \E i \in DOMAIN list, j \in 1 .. m :
       list[i].category = cs[j] /\ r \in Range(list[i].winners)
  \/ \E i \in DOMAIN list :
       /\ list[i].category = cs[m] /\ Len(list[i].winners) = cs[m].count
       /\ \A w \in Range(list[i].winners) : Ahead(chute, w, r)
IsAwarded(chute, cs, k, list) ==
  /\ Won(chute, list)
  /\ \A i \in DOMAIN list : \E m \in 1 .. k : list[i].category = cs[m]
  /\ \A m \in 1 .. k, r \in Range(chute) :
       Eligible(r, cs[m]) => Beaten(chute, cs, list, m, r)

LEMMA WinnersBeat ==
  ASSUME NEW chute \in Seq(Runner), Once(chute), NEW cs \in Seq(Rule), NEW k \in 1 .. Len(cs),
         NEW list \in Seq(Award), IsAwarded(chute, cs, k - 1, list)
  PROVE  IsAwarded(chute, cs, k, GetWinners(chute, list, cs[k]))
<1> DEFINE c == cs[k]
           u == Unclaimed(list, c)
           w == FirstOf(chute, u, c.count)
           new == GetWinners(chute, list, c)
           a == [category |-> c, winners |-> w]
<1>1. c \in Rule /\ c.count \in Nat /\ c.count # 0 /\ k \in Nat /\ k >= 1
  <2>1. cs[k] \in Rule /\ k \in Nat /\ k >= 1
    OBVIOUS
  <2> QED
    BY <2>1 DEF Rule
<1>2. w \in Seq(Runner) /\ IsPicked(chute, u, c.count, Len(chute), w)
  BY <1>1, FirstOfIsPicked
<1>3. new = IF w = <<>> THEN list ELSE Append(list, a)
  BY DEF GetWinners
<1>4. a \in Award /\ a.category = c /\ a.winners = w
  BY <1>1, <1>2 DEF Award
<1>5. \A r : r \in u <=> r \in Runner /\ r \notin Claimed(list) /\ Eligible(r, c)
  BY UnclaimedAre
<1> HIDE DEF u, w, a, c, new
<1>6. DOMAIN list = 1 .. Len(list) /\ Len(list) \in Nat
  OBVIOUS
<1>7. ASSUME NEW r \in Range(chute), Eligible(r, c), r \in Claimed(list)
      PROVE  \E i \in DOMAIN list, j \in 1 .. k :
               list[i].category = cs[j] /\ r \in Range(list[i].winners)
  <2>1. PICK i \in DOMAIN list : r \in Range(list[i].winners)
    BY <1>7 DEF Claimed
  <2>2. PICK j \in 1 .. k - 1 : list[i].category = cs[j]
    BY DEF IsAwarded
  <2>3. j \in 1 .. k
    BY <1>1
  <2> QED
    BY <2>1, <2>2, <2>3
<1>8. ASSUME NEW r \in Range(chute), Eligible(r, c), r \notin Claimed(list), r \notin Range(w)
      PROVE  Len(w) = c.count /\ \A x \in Range(w) : Ahead(chute, x, r)
  <2>1. PICK p \in 1 .. Len(chute) : chute[p] = r
    BY DEF Range
  <2>2. r \in u
    BY <2>1, <1>5, <1>8
  <2>3. ~\E i \in DOMAIN w : w[i] = r
    BY <1>8 DEF Range
  <2>4. Len(w) = c.count /\ \A i \in DOMAIN w, q \in DOMAIN chute : chute[q] = w[i] => q < p
    BY <2>1, <2>2, <2>3, <1>2 DEF IsPicked
  <2>5. ASSUME NEW x \in Range(w) PROVE Ahead(chute, x, r)
    <3>1. PICK i \in DOMAIN w : w[i] = x
      BY DEF Range
    <3>2. PICK q \in 1 .. Len(chute) : chute[q] = w[i]
      BY <1>2 DEF IsPicked
    <3>3. p \in DOMAIN chute /\ q \in DOMAIN chute /\ q < p
      BY <2>1, <2>4, <3>2
    <3> QED
      BY <2>1, <3>1, <3>2, <3>3 DEF Ahead
  <2> QED
    BY <2>4, <2>5
<1>9. CASE w = <<>>
  <2>1. new = list
    BY <1>3, <1>9
  <2>2. ASSUME NEW m \in 1 .. k, NEW r \in Range(chute), Eligible(r, cs[m])
        PROVE  Beaten(chute, cs, list, m, r)
    <3>1. CASE m \in 1 .. k - 1
      BY <2>2, <3>1 DEF IsAwarded
    <3>2. CASE m = k
      <4>1. Eligible(r, c)
        BY <2>2, <3>2 DEF c
      <4>2. Len(w) = 0 /\ Range(w) = {}
        BY <1>9 DEF Range
      <4>3. r \in Claimed(list)
        BY <4>1, <4>2, <1>1, <1>8
      <4> QED
        BY <4>1, <4>3, <1>7, <3>2 DEF Beaten
    <3> QED
      BY <3>1, <3>2, <1>1
  <2>3. \A i \in DOMAIN list : \E m \in 1 .. k : list[i].category = cs[m]
    BY <1>1 DEF IsAwarded
  <2> QED
    BY <2>1, <2>2, <2>3 DEF IsAwarded, new, c
<1>10. CASE w # <<>>
  <2>1. /\ new = Append(list, a) /\ new \in Seq(Award) /\ Len(new) = Len(list) + 1
        /\ new[Len(list) + 1] = a /\ \A i \in 1 .. Len(list) : new[i] = list[i]
    BY <1>3, <1>4, <1>10, AppendProperties
  <2>2. DOMAIN new = 1 .. Len(list) + 1 /\ DOMAIN list \subseteq DOMAIN new
    BY <2>1, <1>6
  <2>3. \A i \in 1 .. Len(list) + 1 : SubSeq(new, 1, i - 1) = SubSeq(list, 1, i - 1)
    <3> TAKE i \in 1 .. Len(list) + 1
    <3>1. i - 1 \in Int /\ i - 1 <= Len(list) /\ 1 \in Int
      BY <1>6
    <3>2. \A j \in 1 .. i - 1 : new[j] \in Award /\ list[j] \in Award /\ new[j] = list[j]
      BY <2>1, <1>6
    <3>3. /\ SubSeq(new, 1, i - 1) \in Seq(Award) /\ SubSeq(list, 1, i - 1) \in Seq(Award)
          /\ Len(SubSeq(new, 1, i - 1)) = Len(SubSeq(list, 1, i - 1))
          /\ Len(SubSeq(new, 1, i - 1)) = IF 1 <= i - 1 THEN i - 1 - 1 + 1 ELSE 0
          /\ \A j \in 1 .. i - 1 - 1 + 1 : SubSeq(new, 1, i - 1)[j] = new[1 + j - 1]
          /\ \A j \in 1 .. i - 1 - 1 + 1 : SubSeq(list, 1, i - 1)[j] = list[1 + j - 1]
      BY <3>1, <3>2, SubSeqProperties
    <3>4. \A j \in 1 .. Len(SubSeq(new, 1, i - 1)) :
            SubSeq(new, 1, i - 1)[j] = SubSeq(list, 1, i - 1)[j]
      BY <3>1, <3>2, <3>3
    <3> QED
      BY <3>3, <3>4, SeqEqual
  <2>4. SubSeq(list, 1, Len(list)) = list
    BY SubSeqFull
  <2>5. Won(chute, new)
    <3>1. ASSUME NEW i \in 1 .. Len(list)
          PROVE  new[i].winners = FirstOf(chute, Unclaimed(SubSeq(new, 1, i - 1), new[i].category),
                                          new[i].category.count)
      <4>1. i \in 1 .. Len(list) + 1 /\ i \in DOMAIN list
        BY <1>6
      <4>2. new[i] = list[i] /\ SubSeq(new, 1, i - 1) = SubSeq(list, 1, i - 1)
        BY <4>1, <2>1, <2>3
      <4>3. list[i].winners = FirstOf(chute, Unclaimed(SubSeq(list, 1, i - 1), list[i].category),
                                      list[i].category.count)
        BY <4>1, Zenon DEF IsAwarded, Won
      <4> QED
        BY <4>2, <4>3, Zenon
    <3>2. ASSUME NEW i \in DOMAIN new, i = Len(list) + 1
          PROVE  new[i].winners = FirstOf(chute, Unclaimed(SubSeq(new, 1, i - 1), new[i].category),
                                          new[i].category.count)
      <4>1. i - 1 = Len(list) /\ i \in 1 .. Len(list) + 1
        BY <3>2, <1>6
      <4>2. SubSeq(new, 1, i - 1) = SubSeq(list, 1, i - 1)
        BY <4>1, <2>3
      <4>3. SubSeq(new, 1, i - 1) = list
        BY <4>1, <4>2, <2>4
      <4>4. new[i] = a
        BY <3>2, <2>1
      <4> QED
        BY <4>3, <4>4, <1>4, Zenon DEF u, w
    <3>4. \A i \in DOMAIN new : i \in 1 .. Len(list) \/ i = Len(list) + 1
      BY <2>2, <1>6
    <3> QED
      BY <3>1, <3>2, <3>4 DEF Won
  <2>6. \A i \in DOMAIN new : \E m \in 1 .. k : new[i].category = cs[m]
    <3>1. ASSUME NEW i \in 1 .. Len(list) PROVE \E m \in 1 .. k : new[i].category = cs[m]
      <4>1. PICK m \in 1 .. k - 1 : list[i].category = cs[m]
        BY <1>6, Zenon DEF IsAwarded
      <4>2. m \in 1 .. k /\ new[i] = list[i]
        BY <1>1, <2>1
      <4> QED
        BY <4>1, <4>2
    <3>2. k \in 1 .. k /\ new[Len(list) + 1].category = cs[k]
      BY <2>1, <1>1, <1>4 DEF c
    <3> QED
      BY <3>1, <3>2, <2>2, <1>6
  <2>7. ASSUME NEW m \in 1 .. k, NEW r \in Range(chute), Eligible(r, cs[m])
        PROVE  Beaten(chute, cs, new, m, r)
    <3>1. \A i \in DOMAIN list : i \in DOMAIN new /\ new[i] = list[i]
      BY <2>1, <2>2, <1>6
    <3>2. CASE m \in 1 .. k - 1
      <4>1. Beaten(chute, cs, list, m, r)
        BY <2>7, <3>2 DEF IsAwarded
      <4> QED
        BY <4>1, <3>1 DEF Beaten
    <3>3. CASE m = k
      <4>1. Eligible(r, c)
        BY <2>7, <3>3 DEF c
      <4>2. CASE r \in Claimed(list)
        <5>1. PICK i \in DOMAIN list, j \in 1 .. k :
                list[i].category = cs[j] /\ r \in Range(list[i].winners)
          BY <4>1, <4>2, <1>7
        <5> QED
          BY <5>1, <3>1, <3>3 DEF Beaten
      <4>3. Len(list) + 1 \in DOMAIN new /\ k \in 1 .. k
        BY <2>2, <1>6, <1>1
      <4>4. new[Len(list) + 1].category = cs[k] /\ new[Len(list) + 1].winners = w
        BY <2>1, <1>4 DEF c
      <4>5. CASE r \in Range(w)
        BY <4>3, <4>4, <4>5, <3>3 DEF Beaten
      <4>6. CASE r \notin Claimed(list) /\ r \notin Range(w)
        <5>1. Len(w) = c.count /\ \A x \in Range(w) : Ahead(chute, x, r)
          BY <4>1, <4>6, <1>8
        <5> QED
          BY <5>1, <4>3, <4>4, <3>3 DEF Beaten, c
      <4> QED
        BY <4>2, <4>5, <4>6
    <3> QED
      BY <3>2, <3>3, <1>1
  <2> QED
    BY <2>5, <2>6, <2>7 DEF IsAwarded, new, c
<1> QED
  BY <1>9, <1>10

LEMMA AwardsAreAwarded ==
  ASSUME NEW chute \in Seq(Runner), Once(chute), NEW c \in AwardConfig
  PROVE  /\ GetAwards(c, chute) \in Seq(Award)
         /\ IsAwarded(chute, Categories(c), Len(Categories(c)), GetAwards(c, chute))
<1> DEFINE cs == Categories(c)
           A(k) == Awarded(chute, cs)[k]
           I == {k \in 0 .. Len(cs) : IsAwarded(chute, cs, k, A(k))}
<1>1. cs \in Seq(Rule) /\ Len(cs) \in Nat
  BY CategoriesAreRules
<1> HIDE DEF cs
<1>2. /\ \A k \in 0 .. Len(cs) : A(k) \in Seq(Award)
      /\ A(0) = <<>>
      /\ \A k \in 1 .. Len(cs) : A(k) = GetWinners(chute, A(k - 1), cs[k])
  BY <1>1, AwardedSteps
<1>3. \A k : k \in I <=> k \in 0 .. Len(cs) /\ IsAwarded(chute, cs, k, A(k))
  BY Zenon
<1>4. IsAwarded(chute, cs, 0, A(0)) /\ 0 \in 0 .. Len(cs)
  BY <1>1, <1>2 DEF IsAwarded, Won
<1>5. ASSUME NEW k \in 1 .. Len(cs), IsAwarded(chute, cs, k - 1, A(k - 1))
      PROVE  k \in 0 .. Len(cs) /\ IsAwarded(chute, cs, k, A(k))
  <2>1. k \in 0 .. Len(cs) /\ k - 1 \in 0 .. Len(cs)
    BY <1>1
  <2>2. A(k - 1) \in Seq(Award) /\ A(k) = GetWinners(chute, A(k - 1), cs[k])
    BY <2>1, <1>2
  <2> HIDE DEF A
  <2>3. IsAwarded(chute, cs, k, GetWinners(chute, A(k - 1), cs[k]))
    BY <2>2, <1>1, <1>5, WinnersBeat
  <2> QED
    BY <2>1, <2>2, <2>3
<1> HIDE DEF I, A
<1>6. \A k \in 0 .. Len(cs) : k \in I
  BY <1>1, <1>3, <1>4, <1>5, LoopInduction
<1>7. Len(cs) \in 0 .. Len(cs) /\ GetAwards(c, chute) = A(Len(cs))
  BY <1>1 DEF GetAwards, cs, A
<1> QED
  BY <1>2, <1>3, <1>6, <1>7 DEF cs

LEMMA ClaimedBefore ==
  ASSUME NEW list \in Seq(Award), NEW k \in DOMAIN list
  PROVE  \A r : r \in Claimed(SubSeq(list, 1, k - 1))
                  <=> \E i \in 1 .. k - 1 : r \in Range(list[i].winners)
<1> DEFINE b == SubSeq(list, 1, k - 1)
<1>1. k \in Nat /\ k >= 1 /\ k <= Len(list) /\ 1 \in Int /\ k - 1 \in Int
  OBVIOUS
<1>2. \A i \in 1 .. k - 1 : list[i] \in Award
  BY <1>1
<1>3. /\ b \in Seq(Award) /\ Len(b) = IF 1 <= k - 1 THEN k - 1 - 1 + 1 ELSE 0
      /\ \A i \in 1 .. k - 1 - 1 + 1 : b[i] = list[1 + i - 1]
  BY <1>1, <1>2, SubSeqProperties
<1> HIDE DEF b
<1>4. DOMAIN b = 1 .. k - 1 /\ \A i \in 1 .. k - 1 : b[i] = list[i]
  BY <1>1, <1>3
<1> QED
  BY <1>4 DEF Claimed, b

LEMMA WonBy ==
  ASSUME NEW chute \in Seq(Runner), Once(chute), NEW list \in Seq(Award), Won(chute, list),
         NEW i \in DOMAIN list
  PROVE  /\ list[i].winners \in Seq(Runner) /\ Once(list[i].winners)
         /\ list[i].category \in Rule
         /\ Len(list[i].winners) <= list[i].category.count
         /\ \A r \in Range(list[i].winners) :
              /\ r \in Runner /\ r \in Range(chute)
              /\ r \notin Claimed(SubSeq(list, 1, i - 1)) /\ Eligible(r, list[i].category)
<1> DEFINE b == SubSeq(list, 1, i - 1)
           c == list[i].category
           w == list[i].winners
<1>1. list[i] \in Award /\ i - 1 \in Int /\ 1 \in Int /\ \A j \in 1 .. i - 1 : list[j] \in Award
  OBVIOUS
<1>2. b \in Seq(Award)
  BY <1>1, SubSeqProperties
<1>3. c \in Rule /\ c.count \in Nat
  BY <1>1 DEF Award, Rule
<1>4. w = FirstOf(chute, Unclaimed(b, c), c.count)
  BY Zenon DEF Won
<1> HIDE DEF b, c, w
<1>5. w \in Seq(Runner) /\ IsPicked(chute, Unclaimed(b, c), c.count, Len(chute), w) /\ Once(w)
  BY <1>3, <1>4, FirstOfIsPicked
<1>6. ASSUME NEW r \in Range(w) PROVE r \in Unclaimed(b, c) /\ r \in Range(chute)
  <2>1. PICK j \in DOMAIN w : w[j] = r
    BY DEF Range
  <2> QED
    BY <2>1, <1>5 DEF IsPicked, Range
<1>7. \A r \in Range(w) : r \in Runner /\ r \notin Claimed(b) /\ Eligible(r, c)
  BY <1>2, <1>6, UnclaimedAre
<1> QED
  BY <1>3, <1>5, <1>6, <1>7 DEF IsPicked, b, c, w

LEMMA OnceCounts ==
  ASSUME NEW w \in Seq(Runner), Once(w)
  PROVE  Cardinality(Range(w)) = Len(w) /\ IsFiniteSet(Range(w))
<1>1. w \in [1 .. Len(w) -> Range(w)] /\ Len(w) \in Nat
  BY DEF Range
<1>2. \A x \in Range(w) : \E j \in 1 .. Len(w) : w[j] = x
  BY DEF Range
<1>3. \A j, k \in 1 .. Len(w) : w[j] = w[k] => j = k
  BY DEF Once
<1>4. w \in Bijection(1 .. Len(w), Range(w))
  BY <1>1, <1>2, <1>3, Fun_IsBij
<1>5. IsFiniteSet(1 .. Len(w)) /\ Cardinality(1 .. Len(w)) = Len(w)
  <2>1. 1 \in Int /\ Len(w) \in Int
    BY <1>1
  <2>2. IsFiniteSet(1 .. Len(w))
        /\ Cardinality(1 .. Len(w)) = IF 1 > Len(w) THEN 0 ELSE Len(w) - 1 + 1
    BY <2>1, FS_Interval, Zenon
  <2> QED
    BY <1>1, <2>2
<1> QED
  BY <1>4, <1>5, FS_Bijection DEF ExistsBijection

(* Whatever has finished in whatever order, under any configuration.       *)
LEMMA AnyAwardsAreFair ==
  ASSUME NEW chute \in Seq(Runner), Once(chute), NEW cs \in Seq(Rule),
         NEW list \in Seq(Award), IsAwarded(chute, cs, Len(cs), list)
  PROVE  LET Winners(i) == Range(list[i].winners)
         IN /\ \A i, k \in DOMAIN list : i # k => Winners(i) \cap Winners(k) = {}
            /\ \A i \in DOMAIN list :
                 /\ \A w \in Winners(i) : Eligible(w, list[i].category)
                 /\ Cardinality(Winners(i)) <= list[i].category.count
            /\ \A j \in DOMAIN cs, r \in Range(chute) :
                 Eligible(r, cs[j]) =>
                   \/ \E i \in DOMAIN list, m \in 1 .. j :
                        list[i].category = cs[m] /\ r \in Winners(i)
                   \/ \E i \in DOMAIN list :
                        /\ list[i].category = cs[j]
                        /\ Cardinality(Winners(i)) = cs[j].count
                        /\ \A w \in Winners(i) : Ahead(chute, w, r)
<1>1. Won(chute, list)
  BY DEF IsAwarded
<1>2. ASSUME NEW i \in DOMAIN list, NEW k \in DOMAIN list, i < k,
             NEW r \in Range(list[i].winners), r \in Range(list[k].winners)
      PROVE  FALSE
  <2>1. i \in 1 .. k - 1
    BY <1>2
  <2>2. r \in Claimed(SubSeq(list, 1, k - 1))
    BY <2>1, ClaimedBefore
  <2> QED
    BY <2>2, <1>1, <1>2, WonBy
<1>3. \A i, k \in DOMAIN list : i # k => i < k \/ k < i
  OBVIOUS
<1>4. \A i, k \in DOMAIN list : i # k => Range(list[i].winners) \cap Range(list[k].winners) = {}
  BY <1>2, <1>3
<1>5. ASSUME NEW i \in DOMAIN list
      PROVE  /\ \A w \in Range(list[i].winners) : Eligible(w, list[i].category)
             /\ Cardinality(Range(list[i].winners)) = Len(list[i].winners)
             /\ Len(list[i].winners) <= list[i].category.count
  BY <1>1, WonBy, OnceCounts
<1>6. ASSUME NEW j \in DOMAIN cs, NEW r \in Range(chute), Eligible(r, cs[j])
      PROVE  \/ \E i \in DOMAIN list, m \in 1 .. j :
                  list[i].category = cs[m] /\ r \in Range(list[i].winners)
             \/ \E i \in DOMAIN list :
                  /\ list[i].category = cs[j]
                  /\ Cardinality(Range(list[i].winners)) = cs[j].count
                  /\ \A w \in Range(list[i].winners) : Ahead(chute, w, r)
  <2>1. j \in 1 .. Len(cs)
    OBVIOUS
  <2>2. Beaten(chute, cs, list, j, r)
    BY <2>1, <1>6 DEF IsAwarded
  <2> QED
    BY <2>2, <1>5, Zenon DEF Beaten
<1> QED
  BY <1>4, <1>5, <1>6

-----------------------------------------------------------------------------
(* The boards *)

LEMMA OnceIsFinish ==
  ASSUME NEW f \in Seq(Runner), Once(f)
  PROVE  f \in Finish
<1>1. IsFiniteSet(Runner)
  BY ResultsAssumption
<1>2. f \in [1 .. Len(f) -> Runner] /\ Len(f) \in Nat /\ 1 \in Int /\ Len(f) \in Int
  OBVIOUS
<1>3. f \in Injection(1 .. Len(f), Runner)
  BY <1>2, Fun_IsInj DEF Once
<1>4. Cardinality(1 .. Len(f)) <= Cardinality(Runner)
  BY <1>1, <1>3, FS_Injection
<1>5. Cardinality(1 .. Len(f)) = IF 1 > Len(f) THEN 0 ELSE Len(f) - 1 + 1
  BY <1>2, FS_Interval, Zenon
<1>6. Cardinality(Runner) \in Nat
  BY <1>1, FS_CardinalityType
<1>7. Len(f) \in 0 .. Cardinality(Runner)
  BY <1>2, <1>4, <1>5, <1>6
<1> QED
  BY <1>2, <1>7 DEF Finish, Once

LEMMA ReverseIsFinish ==
  ASSUME NEW f \in Finish
  PROVE  Reverse(f) \in Finish
<1>1. f \in Seq(Runner) /\ Once(f)
  BY FinishIsOnce
<1> DEFINE g == [i \in 1 .. Len(f) |-> f[(Len(f) - i) + 1]]
<1>2. \A i \in 1 .. Len(f) : (Len(f) - i) + 1 \in 1 .. Len(f) /\ f[(Len(f) - i) + 1] \in Runner
  BY <1>1
<1>3. g \in Seq(Runner) /\ DOMAIN g = 1 .. Len(f)
  BY <1>1, <1>2
<1>4. ASSUME NEW i \in 1 .. Len(f), NEW j \in 1 .. Len(f), g[i] = g[j] PROVE i = j
  <2>1. (Len(f) - i) + 1 = (Len(f) - j) + 1
    BY <1>1, <1>2, <1>4 DEF Once
  <2> QED
    BY <1>1, <2>1
<1>5. Once(g)
  BY <1>3, <1>4 DEF Once
<1> QED
  BY <1>3, <1>5, OnceIsFinish DEF Reverse

LEMMA InsertIsFinish ==
  ASSUME NEW f \in Finish, NEW r \in Runner, r \notin Range(f), NEW k \in 1 .. Len(f) + 1
  PROVE  InsertAt(f, k, r) \in Finish
<1>1. f \in Seq(Runner) /\ Once(f) /\ Len(f) \in Nat
  BY FinishIsOnce
<1> DEFINE a == SubSeq(f, 1, k - 1)
           b == SubSeq(f, k, Len(f))
           g == a \o <<r>> \o b
<1>2. /\ a \in Seq(Runner) /\ Len(a) = k - 1
      /\ \A i \in 1 .. k - 1 : a[i] = f[i]
  <2>1. k - 1 \in Int /\ 1 \in Int /\ \A i \in 1 .. k - 1 : f[i] \in Runner
    BY <1>1
  <2>2. /\ a \in Seq(Runner) /\ Len(a) = IF 1 <= k - 1 THEN k - 1 - 1 + 1 ELSE 0
        /\ \A i \in 1 .. k - 1 - 1 + 1 : a[i] = f[1 + i - 1]
    BY <2>1, SubSeqProperties
  <2> HIDE DEF a
  <2> QED
    BY <2>2, <1>1
<1>3. /\ b \in Seq(Runner) /\ Len(b) = Len(f) - k + 1
      /\ \A i \in 1 .. Len(f) - k + 1 : b[i] = f[k + i - 1]
  <2>1. k \in Int /\ Len(f) \in Int /\ \A i \in k .. Len(f) : f[i] \in Runner
    BY <1>1
  <2>2. /\ b \in Seq(Runner) /\ Len(b) = IF k <= Len(f) THEN Len(f) - k + 1 ELSE 0
        /\ \A i \in 1 .. Len(f) - k + 1 : b[i] = f[k + i - 1]
    BY <2>1, SubSeqProperties
  <2> HIDE DEF b
  <2> QED
    BY <2>2, <1>1
<1> HIDE DEF a, b
<1>4. /\ g \in Seq(Runner) /\ Len(g) = Len(f) + 1
      /\ \A i \in 1 .. Len(f) + 1 :
           g[i] = IF i < k THEN f[i] ELSE IF i = k THEN r ELSE f[i - 1]
  <2>1. <<r>> \in Seq(Runner) /\ Len(<<r>>) = 1 /\ <<r>>[1] = r
    OBVIOUS
  <2>2. /\ a \o <<r>> \in Seq(Runner) /\ Len(a \o <<r>>) = k
        /\ \A i \in 1 .. k : (a \o <<r>>)[i] = IF i <= k - 1 THEN a[i] ELSE r
    BY <1>1, <1>2, <2>1
  <2> DEFINE c == a \o <<r>>
  <2> HIDE DEF c
  <2>3. /\ c \o b \in Seq(Runner) /\ Len(c \o b) = Len(f) + 1
        /\ \A i \in 1 .. Len(f) + 1 : (c \o b)[i] = IF i <= k THEN c[i] ELSE b[i - k]
    <3>0. c \in Seq(Runner) /\ b \in Seq(Runner) /\ Len(c) = k
      BY <1>3, <2>2, Zenon DEF c
    <3>1. Len(c) + Len(b) = Len(f) + 1
      BY <3>0, <1>1, <1>3
    <3>2. /\ c \o b \in Seq(Runner) /\ Len(c \o b) = Len(c) + Len(b)
          /\ \A i \in 1 .. Len(c) + Len(b) : (c \o b)[i] = IF i <= Len(c) THEN c[i] ELSE b[i - Len(c)]
      BY <3>0, ConcatProperties
    <3> QED
      BY <3>0, <3>1, <3>2
  <2>4. ASSUME NEW i \in 1 .. Len(f) + 1
        PROVE  (c \o b)[i] = IF i < k THEN f[i] ELSE IF i = k THEN r ELSE f[i - 1]
    <3>1. CASE i < k
      BY <3>1, <2>2, <2>3, <1>1, <1>2 DEF c
    <3>2. CASE i = k
      BY <3>2, <2>2, <2>3, <1>1 DEF c
    <3>3. CASE i > k
      <4>1. i - k \in 1 .. Len(f) - k + 1 /\ k + (i - k) - 1 = i - 1
        BY <3>3, <1>1
      <4>2. (c \o b)[i] = b[i - k] /\ b[i - k] = f[k + (i - k) - 1]
        BY <4>1, <3>3, <2>3, <1>1, <1>3
      <4>3. ~(i < k) /\ i # k
        BY <3>3, <1>1
      <4> QED
        BY <4>1, <4>2, <4>3, Zenon
    <3>4. i < k \/ i = k \/ i > k
      BY <1>1
    <3> QED
      BY <3>1, <3>2, <3>3, <3>4, Zenon
  <2> QED
    BY <2>3, <2>4 DEF c
<1> HIDE DEF g
<1>5. \A i \in 1 .. Len(f) : f[i] # r
  BY <1>1 DEF Range
<1>6. ASSUME NEW i \in 1 .. Len(f) + 1, NEW j \in 1 .. Len(f) + 1, g[i] = g[j], i < j PROVE FALSE
  <2>1. CASE j < k
    BY <2>1, <1>1, <1>4, <1>6 DEF Once
  <2>2. CASE j = k
    BY <2>2, <1>1, <1>4, <1>5, <1>6
  <2>3. CASE j > k
    <3>1. CASE i < k
      <4>1. g[i] = f[i] /\ g[j] = f[j - 1] /\ i \in DOMAIN f /\ j - 1 \in DOMAIN f /\ i # j - 1
        BY <2>3, <3>1, <1>1, <1>4, <1>6
      <4> QED
        BY <4>1, <1>1, <1>6 DEF Once
    <3>2. CASE i = k
      <4>1. g[i] = r /\ g[j] = f[j - 1] /\ j - 1 \in 1 .. Len(f)
        BY <2>3, <3>2, <1>1, <1>4
      <4> QED
        BY <4>1, <1>5, <1>6
    <3>3. CASE i > k
      <4>1. g[i] = f[i - 1] /\ g[j] = f[j - 1] /\ i - 1 \in DOMAIN f /\ j - 1 \in DOMAIN f /\ i - 1 # j - 1
        BY <2>3, <3>3, <1>1, <1>4, <1>6
      <4> QED
        BY <4>1, <1>1, <1>6 DEF Once
    <3> QED
      BY <3>1, <3>2, <3>3
  <2> QED
    BY <2>1, <2>2, <2>3
<1>7. Once(g)
  <2>1. DOMAIN g = 1 .. Len(f) + 1
    BY <1>1, <1>4
  <2> QED
    BY <2>1, <1>1, <1>6 DEF Once
<1> QED
  BY <1>4, <1>7, OnceIsFinish DEF InsertAt, a, b, g

LEMMA RemoveIsFinish ==
  ASSUME NEW f \in Finish, NEW k \in DOMAIN f
  PROVE  RemoveAt(f, k) \in Finish
<1>1. f \in Seq(Runner) /\ Once(f) /\ Len(f) \in Nat /\ k \in 1 .. Len(f)
  BY FinishIsOnce
<1> DEFINE a == SubSeq(f, 1, k - 1)
           b == SubSeq(f, k + 1, Len(f))
           g == a \o b
<1>2. /\ a \in Seq(Runner) /\ Len(a) = k - 1
      /\ \A i \in 1 .. k - 1 : a[i] = f[i]
  <2>1. k - 1 \in Int /\ 1 \in Int /\ \A i \in 1 .. k - 1 : f[i] \in Runner
    BY <1>1
  <2>2. /\ a \in Seq(Runner) /\ Len(a) = IF 1 <= k - 1 THEN k - 1 - 1 + 1 ELSE 0
        /\ \A i \in 1 .. k - 1 - 1 + 1 : a[i] = f[1 + i - 1]
    BY <2>1, SubSeqProperties
  <2> HIDE DEF a
  <2> QED
    BY <2>2, <1>1
<1>3. /\ b \in Seq(Runner) /\ Len(b) = Len(f) - k
      /\ \A i \in 1 .. Len(f) - k : b[i] = f[k + i]
  <2>1. k + 1 \in Int /\ Len(f) \in Int /\ \A i \in k + 1 .. Len(f) : f[i] \in Runner
    BY <1>1
  <2>2. /\ b \in Seq(Runner) /\ Len(b) = IF k + 1 <= Len(f) THEN Len(f) - (k + 1) + 1 ELSE 0
        /\ \A i \in 1 .. Len(f) - (k + 1) + 1 : b[i] = f[k + 1 + i - 1]
    BY <2>1, SubSeqProperties
  <2> HIDE DEF b
  <2>3. \A i \in 1 .. Len(f) - k : i \in 1 .. Len(f) - (k + 1) + 1 /\ k + 1 + i - 1 = k + i
    BY <1>1
  <2> QED
    BY <2>2, <2>3, <1>1
<1> HIDE DEF a, b
<1>4. /\ g \in Seq(Runner) /\ Len(g) = Len(f) - 1
      /\ \A i \in 1 .. Len(f) - 1 : g[i] = IF i < k THEN f[i] ELSE f[i + 1]
  <2>1. /\ g \in Seq(Runner) /\ Len(g) = Len(f) - 1
        /\ \A i \in 1 .. Len(f) - 1 : g[i] = IF i <= k - 1 THEN a[i] ELSE b[i - (k - 1)]
    BY <1>1, <1>2, <1>3
  <2> HIDE DEF g
  <2>2. \A i \in 1 .. Len(f) - 1 : i >= k =>
          i - (k - 1) \in 1 .. Len(f) - k /\ k + (i - (k - 1)) = i + 1
    BY <1>1
  <2>3. ASSUME NEW i \in 1 .. Len(f) - 1
        PROVE  g[i] = IF i < k THEN f[i] ELSE f[i + 1]
    <3>1. CASE i < k
      BY <3>1, <2>1, <1>1, <1>2
    <3>2. CASE ~(i < k)
      <4>1. i - (k - 1) \in 1 .. Len(f) - k /\ k + (i - (k - 1)) = i + 1 /\ ~(i <= k - 1)
        BY <2>2, <3>2, <1>1
      <4>2. g[i] = b[i - (k - 1)] /\ b[i - (k - 1)] = f[k + (i - (k - 1))]
        BY <4>1, <2>1, <1>3
      <4> QED
        BY <3>2, <4>1, <4>2, Zenon
    <3> QED
      BY <3>1, <3>2
  <2> QED
    BY <2>1, <2>3
<1> HIDE DEF g
<1>5. ASSUME NEW i \in 1 .. Len(f) - 1, NEW j \in 1 .. Len(f) - 1, g[i] = g[j], i < j PROVE FALSE
  <2>1. PICK x \in DOMAIN f, y \in DOMAIN f : g[i] = f[x] /\ g[j] = f[y] /\ x # y
    <3>1. i \in DOMAIN f /\ i + 1 \in DOMAIN f /\ j \in DOMAIN f /\ j + 1 \in DOMAIN f
          /\ i # j /\ i # j + 1 /\ i + 1 # j + 1
      BY <1>1, <1>5
    <3> QED
      BY <3>1, <1>1, <1>4, <1>5
  <2> QED
    BY <2>1, <1>1, <1>5 DEF Once
<1>6. Once(g)
  <2>1. DOMAIN g = 1 .. Len(f) - 1
    BY <1>1, <1>4
  <2> QED
    BY <2>1, <1>1, <1>5 DEF Once
<1> QED
  BY <1>4, <1>6, OnceIsFinish DEF RemoveAt, a, b, g

(* What a load holds when its answer is shown.                             *)
LoadsHold ==
  \A s \in Slot : loads[s] # None =>
    /\ loads[s].awards \in {"configured", "answered"} => loads[s].config \in Config
    /\ loads[s].awards = "answered" => loads[s].first \in Finish
    /\ loads[s].results = "answered" => loads[s].second \in Finish
ResultsInv == ResultsTypeOK /\ LoadsHold

LEMMA ResultsInitHolds == ResultsInit => ResultsInv
<1> SUFFICES ASSUME ResultsInit PROVE ResultsInv
  OBVIOUS
<1>1. FirstRace \in Race /\ MaxChanges \in Nat
  BY ResultsAssumption
<1>2. /\ finish \in [Race -> Finish] /\ config \in [Race -> Config] /\ browser \in BOOLEAN
      /\ board \in {"awards", "live"} /\ selected \in Race /\ awards = None /\ results = None
      /\ loads \in [Slot -> Load \cup {None}] /\ \A s \in Slot : loads[s] = None
  BY <1>1, Zenon DEF ResultsInit
<1>3. setup \in [selected : Race, asked : SUBSET Race, of : Race, config : Config \cup {None}]
  BY <1>1 DEF ResultsInit
<1>4. changes \in 0 .. MaxChanges
  BY <1>1 DEF ResultsInit
<1> QED
  BY <1>2, <1>3, <1>4 DEF ResultsInv, ResultsTypeOK, LoadsHold

LEMMA OneLoadChanges ==
  ASSUME ResultsInv, NEW s \in Slot, NEW r \in Load \cup {None},
         loads' = [loads EXCEPT ![s] = r],
         r # None =>
           /\ r.awards \in {"configured", "answered"} => r.config \in Config
           /\ r.awards = "answered" => r.first \in Finish
           /\ r.results = "answered" => r.second \in Finish
  PROVE  loads' \in [Slot -> Load \cup {None}] /\ LoadsHold'
<1>1. loads \in [Slot -> Load \cup {None}]
  BY DEF ResultsInv, ResultsTypeOK
<1>2. loads' \in [Slot -> Load \cup {None}] /\ loads'[s] = r
      /\ \A t \in Slot : t # s => loads'[t] = loads[t]
  BY <1>1
<1> QED
  BY <1>2 DEF ResultsInv, LoadsHold

LEMMA LoadsAre ==
  ASSUME ResultsInv
  PROVE  /\ LoadData \in Load /\ LoadData.awards = "asked"
         /\ LoadData.results \in {"waiting", "asked"}
         /\ \A e \in Race : [LoadData EXCEPT !.event = e] \in Load
  BY DEF ResultsInv, ResultsTypeOK, LoadData, Load

LEMMA PollKeeps ==
  ASSUME ResultsInv, NEW s \in Slot, PollBoard(s)
  PROVE  ResultsInv'
<1> DEFINE r == LoadData
<1>1. r \in Load /\ r.awards = "asked" /\ r.results \in {"waiting", "asked"}
  BY LoadsAre
<1>2. loads' = [loads EXCEPT ![s] = r]
  BY DEF PollBoard
<1> HIDE DEF r
<1>3. loads' \in [Slot -> Load \cup {None}] /\ LoadsHold'
  BY <1>1, <1>2, OneLoadChanges
<1> QED
  BY <1>3 DEF PollBoard, ResultsInv, ResultsTypeOK, shownBoard

LEMMA LaptopKeeps ==
  ASSUME ResultsInv, NEW s \in Slot, GetAwardConfig(s) \/ AnswerAwards(s) \/ GetEventResults(s)
  PROVE  ResultsInv'
<1> DEFINE e == loads[s].event
<1>1. loads[s] \in Load /\ e \in Race /\ loads[s] # None
  BY DEF ResultsInv, ResultsTypeOK, Load, GetAwardConfig, AnswerAwards, GetEventResults
<1>2. config[e] \in Config /\ finish[e] \in Finish
  BY <1>1 DEF ResultsInv, ResultsTypeOK
<1>3. CASE GetAwardConfig(s)
  <2> DEFINE r == [loads[s] EXCEPT !.awards = "configured", !.config = config[e]]
  <2>1. loads' = [loads EXCEPT ![s] = r]
    BY <1>3, <1>1 DEF GetAwardConfig, ResultsInv, ResultsTypeOK
  <2>2. r \in Load /\ r.awards = "configured" /\ r.config \in Config
        /\ r.results = loads[s].results /\ r.second = loads[s].second
    BY <1>1, <1>2 DEF Load
  <2> HIDE DEF r
  <2>3. loads' \in [Slot -> Load \cup {None}] /\ LoadsHold'
    BY <2>1, <2>2, <1>1, OneLoadChanges DEF ResultsInv, LoadsHold
  <2> QED
    BY <2>3, <1>3 DEF GetAwardConfig, ResultsInv, ResultsTypeOK, shownBoard
<1>4. CASE AnswerAwards(s)
  <2> DEFINE r == [loads[s] EXCEPT !.awards = "answered", !.first = finish[e]]
  <2>1. loads' = [loads EXCEPT ![s] = r]
    BY <1>4, <1>1 DEF AnswerAwards, ResultsInv, ResultsTypeOK
  <2>2. r \in Load /\ r.awards = "answered" /\ r.first \in Finish /\ r.config = loads[s].config
        /\ r.results = loads[s].results /\ r.second = loads[s].second
    BY <1>1, <1>2 DEF Load
  <2> HIDE DEF r
  <2>3. loads[s].config \in Config
    BY <1>1, <1>4 DEF ResultsInv, LoadsHold, AnswerAwards
  <2>4. loads' \in [Slot -> Load \cup {None}] /\ LoadsHold'
    BY <2>1, <2>2, <2>3, <1>1, OneLoadChanges DEF ResultsInv, LoadsHold
  <2> QED
    BY <2>4, <1>4 DEF AnswerAwards, ResultsInv, ResultsTypeOK, shownBoard
<1>5. CASE GetEventResults(s)
  <2> DEFINE r == [loads[s] EXCEPT !.results = "answered", !.second = finish[e]]
  <2>1. loads' = [loads EXCEPT ![s] = r]
    BY <1>5, <1>1 DEF GetEventResults, ResultsInv, ResultsTypeOK
  <2>2. r \in Load /\ r.results = "answered" /\ r.second \in Finish /\ r.config = loads[s].config
        /\ r.awards = loads[s].awards /\ r.first = loads[s].first
    BY <1>1, <1>2 DEF Load
  <2> HIDE DEF r
  <2>3. loads' \in [Slot -> Load \cup {None}] /\ LoadsHold'
    BY <2>1, <2>2, <1>1, OneLoadChanges DEF ResultsInv, LoadsHold
  <2> QED
    BY <2>3, <1>5 DEF GetEventResults, ResultsInv, ResultsTypeOK, shownBoard
<1> QED
  BY <1>3, <1>4, <1>5

LEMMA EndedIs ==
  ASSUME NEW r \in Load
  PROVE  Ended(r) \in {r, None}
  BY DEF Ended

LEMMA AnswersKeep ==
  ASSUME ResultsInv, NEW s \in Slot, SetCategories(s) \/ SetResults(s)
  PROVE  ResultsInv'
<1> DEFINE l == loads[s]
<1>1. l \in Load /\ l # None /\ loads \in [Slot -> Load \cup {None}]
  BY DEF ResultsInv, ResultsTypeOK, SetCategories, SetResults
<1>2. CASE SetCategories(s)
  <2> DEFINE d == [l EXCEPT !.awards = "done"]
             r == [d EXCEPT !.results = IF d.results = "waiting" THEN "asked" ELSE d.results]
  <2>1. loads' = [loads EXCEPT ![s] = Ended(r)]
    BY <1>2, Zenon DEF SetCategories
  <2>2. r \in Load /\ r.awards = "done" /\ r.second = l.second
        /\ (r.results = "answered" => l.results = "answered")
    BY <1>1 DEF Load
  <2> HIDE DEF r
  <2>3. Ended(r) \in {r, None}
    BY <2>2, EndedIs
  <2>4. l.results = "answered" => l.second \in Finish
    BY <1>1 DEF ResultsInv, LoadsHold
  <2> DEFINE q == Ended(r)
  <2> HIDE DEF q
  <2>5. q \in Load \cup {None} /\ (q # None => q = r)
    BY <2>2, <2>3 DEF q
  <2>6. loads' = [loads EXCEPT ![s] = q]
    BY <2>1 DEF q
  <2>7. loads' \in [Slot -> Load \cup {None}] /\ LoadsHold'
    BY <2>2, <2>4, <2>5, <2>6, OneLoadChanges
  <2>8. l.event \in Race /\ l.config \in Config /\ l.first \in Finish
    BY <1>1, <1>2 DEF SetCategories, ResultsInv, LoadsHold, Load
  <2>9. awards' \in [event : Race, config : Config, finish : Finish]
    BY <1>2, <2>8 DEF SetCategories
  <2> QED
    BY <2>7, <2>9, <1>2 DEF SetCategories, ResultsInv, ResultsTypeOK
<1>3. CASE SetResults(s)
  <2> DEFINE r == [l EXCEPT !.results = "done"]
  <2>1. loads' = [loads EXCEPT ![s] = Ended(r)]
    BY <1>1, <1>3 DEF SetResults, Load
  <2>2. r \in Load /\ r.results = "done" /\ r.awards = l.awards /\ r.config = l.config
        /\ r.first = l.first
    BY <1>1 DEF Load
  <2> HIDE DEF r
  <2>3. Ended(r) \in {r, None}
    BY <2>2, EndedIs
  <2>4. /\ l.awards \in {"configured", "answered"} => l.config \in Config
        /\ l.awards = "answered" => l.first \in Finish
    BY <1>1 DEF ResultsInv, LoadsHold
  <2> DEFINE q == Ended(r)
  <2> HIDE DEF q
  <2>5. q \in Load \cup {None} /\ (q # None => q = r)
    BY <2>2, <2>3 DEF q
  <2>6. loads' = [loads EXCEPT ![s] = q]
    BY <2>1 DEF q
  <2>7. loads' \in [Slot -> Load \cup {None}] /\ LoadsHold'
    BY <2>2, <2>4, <2>5, <2>6, OneLoadChanges
  <2>8. l.event \in Race /\ l.second \in Finish /\ Reverse(l.second) \in Finish
    BY <1>1, <1>3, ReverseIsFinish DEF SetResults, ResultsInv, LoadsHold, Load
  <2> DEFINE f == IF board = "live" THEN Reverse(l.second) ELSE l.second
  <2>9. f \in Finish /\ results' = [event |-> l.event, list |-> f]
    BY <1>3, <2>8 DEF SetResults
  <2> HIDE DEF f
  <2>10. results' \in [event : Race, list : Finish]
    BY <2>8, <2>9
  <2> QED
    BY <2>7, <2>10, <1>3 DEF SetResults, ResultsInv, ResultsTypeOK
<1> QED
  BY <1>2, <1>3

LEMMA ThrownKeeps ==
  ASSUME ResultsInv, NEW s \in Slot, BoardThrows(s)
  PROVE  ResultsInv'
<1>1. loads' \in [Slot -> Load \cup {None}] /\ LoadsHold'
  BY DEF BoardThrows, LoadsHold
<1>2. board' = "blank" /\ awards' = None /\ results' = None
  BY DEF BoardThrows
<1> QED
  BY <1>1, <1>2 DEF BoardThrows, ResultsInv, ResultsTypeOK

LEMMA NobodyIsFinish == <<>> \in Finish
<1>1. <<>> \in Seq(Runner) /\ Once(<<>>)
  BY DEF Once
<1> QED
  BY <1>1, OnceIsFinish

(* What becomes of a load of which a request fails.                        *)
Failed(l, q) ==
  \/ q = None
  \/ q = [l EXCEPT !.awards = "done"]
  \/ q = [l EXCEPT !.awards = "answered", !.config = DefaultConfig, !.first = <<>>]
  \/ q = [l EXCEPT !.results = "done"]
  \/ q = [l EXCEPT !.results = "answered", !.second = <<>>]

LEMMA FailedLoads ==
  ASSUME NEW s \in Slot, RequestFails(s)
  PROVE  \E q : Failed(loads[s], q) /\ loads' = [loads EXCEPT ![s] = q]
<1> DEFINE l == loads[s]
           a == [l EXCEPT !.awards = "done"]
           b == [l EXCEPT !.results = "done"]
<1>1. CASE loads' = [loads EXCEPT ![s] = None]
  BY <1>1, Zenon DEF Failed
<1>2. CASE loads' = [loads EXCEPT ![s] =
             IF browser
             THEN [@ EXCEPT !.awards = "answered", !.config = DefaultConfig, !.first = <<>>]
             ELSE Ended([@ EXCEPT !.awards = "done"])]
  <2>1. CASE browser
    BY <1>2, <2>1 DEF Failed
  <2>2. CASE ~browser
    <3>1. loads' = [loads EXCEPT ![s] = Ended(a)]
      BY <1>2, <2>2
    <3>2. Failed(l, Ended(a))
      BY DEF Failed, Ended
    <3> QED
      BY <3>1, <3>2
  <2> QED
    BY <2>1, <2>2
<1>3. CASE loads' = [loads EXCEPT ![s] =
             IF browser THEN [@ EXCEPT !.results = "answered", !.second = <<>>]
                        ELSE Ended([@ EXCEPT !.results = "done"])]
  <2>1. CASE browser
    BY <1>3, <2>1 DEF Failed
  <2>2. CASE ~browser
    <3>1. loads' = [loads EXCEPT ![s] = Ended(b)]
      BY <1>3, <2>2
    <3>2. Failed(l, Ended(b))
      BY DEF Failed, Ended
    <3> QED
      BY <3>1, <3>2
  <2> QED
    BY <2>1, <2>2
<1> QED
  BY <1>1, <1>2, <1>3 DEF RequestFails

LEMMA FailuresKeep ==
  ASSUME ResultsInv, NEW s \in Slot, RequestFails(s)
  PROVE  ResultsInv'
<1> DEFINE l == loads[s]
<1>1. l \in Load /\ l # None /\ loads \in [Slot -> Load \cup {None}]
  BY DEF ResultsInv, ResultsTypeOK, RequestFails
<1>2. /\ l.awards \in {"configured", "answered"} => l.config \in Config
      /\ l.awards = "answered" => l.first \in Finish
      /\ l.results = "answered" => l.second \in Finish
  BY <1>1 DEF ResultsInv, LoadsHold
<1>3. PICK q : Failed(l, q) /\ loads' = [loads EXCEPT ![s] = q]
  BY FailedLoads
<1>4. DefaultConfig \in Config /\ <<>> \in Finish
  BY ResultsAssumption, NobodyIsFinish
<1> HIDE DEF l
<1>5. q \in Load \cup {None}
  BY <1>1, <1>3, <1>4 DEF Failed, Load
<1>6. q # None =>
        /\ q.awards \in {"configured", "answered"} => q.config \in Config
        /\ q.awards = "answered" => q.first \in Finish
        /\ q.results = "answered" => q.second \in Finish
  BY <1>1, <1>2, <1>3, <1>4 DEF Failed, Load
<1>7. loads' \in [Slot -> Load \cup {None}] /\ LoadsHold'
  BY <1>3, <1>5, <1>6, OneLoadChanges
<1>8. changes' \in 0 .. MaxChanges
  BY ResultsAssumption DEF RequestFails, Change, ResultsInv, ResultsTypeOK
<1> QED
  BY <1>7, <1>8 DEF RequestFails, ResultsInv, ResultsTypeOK, shownBoard

LEMMA ChangeCounts ==
  ASSUME ResultsInv, Change
  PROVE  changes' \in 0 .. MaxChanges
  BY ResultsAssumption DEF Change, ResultsInv, ResultsTypeOK

LEMMA BoardsKeep ==
  ASSUME ResultsInv, NEW e \in Race, NEW s \in Slot, NEW b \in {"awards", "live"},
         SelectRace(e, s) \/ OpenBoard(b)
  PROVE  ResultsInv'
<1>1. CASE SelectRace(e, s)
  <2> DEFINE r == [LoadData EXCEPT !.event = e]
  <2>1. r \in Load /\ r.awards = "asked" /\ r.results \in {"waiting", "asked"}
    BY LoadsAre DEF LoadData
  <2>2. loads' = [loads EXCEPT ![s] = r]
    BY <1>1 DEF SelectRace
  <2> HIDE DEF r
  <2>3. loads' \in [Slot -> Load \cup {None}] /\ LoadsHold'
    BY <2>1, <2>2, OneLoadChanges
  <2>4. changes' \in 0 .. MaxChanges
    BY <1>1, ChangeCounts DEF SelectRace
  <2> QED
    BY <2>3, <2>4, <1>1 DEF SelectRace, ResultsInv, ResultsTypeOK
<1>2. CASE OpenBoard(b)
  <2>1. loads' \in [Slot -> Load \cup {None}] /\ LoadsHold'
    BY <1>2 DEF OpenBoard, LoadsHold
  <2>2. changes' \in 0 .. MaxChanges
    BY <1>2, ChangeCounts DEF OpenBoard
  <2> QED
    BY <2>1, <2>2, <1>2, ResultsAssumption DEF OpenBoard, ResultsInv, ResultsTypeOK
<1> QED
  BY <1>1, <1>2

LEMMA SetupKeeps ==
  ASSUME ResultsInv, ConfigScreen
  PROVE  ResultsInv'
<1> DEFINE Setup == [selected : Race, asked : SUBSET Race, of : Race, config : Config \cup {None}]
<1>1. setup \in Setup /\ config \in [Race -> Config]
  BY DEF ResultsInv, ResultsTypeOK
<1>2. CASE HandleSave
  <2>1. setup.config \in Config /\ setup.of \in Race
    BY <1>1, <1>2 DEF HandleSave
  <2>2. config' \in [Race -> Config]
    BY <2>1, <1>1, <1>2 DEF HandleSave
  <2>3. changes' \in 0 .. MaxChanges
    BY <1>2, ChangeCounts DEF HandleSave
  <2> QED
    BY <2>2, <2>3, <1>2 DEF HandleSave, ResultsInv, ResultsTypeOK, LoadsHold, shownBoard
<1>3. ASSUME NEW e \in Race, SelectConfigRace(e) PROVE ResultsInv'
  <2>1. setup' \in Setup
    BY <1>1, <1>3 DEF SelectConfigRace
  <2>2. changes' \in 0 .. MaxChanges
    BY <1>3, ChangeCounts DEF SelectConfigRace
  <2> QED
    BY <2>1, <2>2, <1>3 DEF SelectConfigRace, ResultsInv, ResultsTypeOK, LoadsHold, shownBoard
<1>4. ASSUME NEW e \in Race, SetConfig(e) PROVE ResultsInv'
  <2>1. setup' \in Setup
    BY <1>1, <1>4 DEF SetConfig
  <2> QED
    BY <2>1, <1>4 DEF SetConfig, ResultsInv, ResultsTypeOK, LoadsHold, shownBoard
<1>5. ASSUME NEW c \in Config, EditConfig(c) PROVE ResultsInv'
  <2>1. setup' \in Setup
    BY <1>1, <1>5 DEF EditConfig
  <2> QED
    BY <2>1, <1>5 DEF EditConfig, ResultsInv, ResultsTypeOK, LoadsHold, shownBoard
<1> QED
  BY <1>2, <1>3, <1>4, <1>5 DEF ConfigScreen

LEMMA RecordKeeps ==
  ASSUME ResultsInv, TheRecord
  PROVE  ResultsInv'
<1>1. finish \in [Race -> Finish]
  BY DEF ResultsInv, ResultsTypeOK
<1>2. ASSUME finish' \in [Race -> Finish], Change,
             UNCHANGED <<config, browser, shownBoard, loads, setup>>
      PROVE  ResultsInv'
  <2>1. changes' \in 0 .. MaxChanges
    BY <1>2, ChangeCounts
  <2> QED
    BY <2>1, <1>2 DEF ResultsInv, ResultsTypeOK, LoadsHold, shownBoard
<1>3. ASSUME NEW r \in Runner, NEW k, Recorded(r, k) PROVE ResultsInv'
  <2> DEFINE e == Registered[r]
             f == InsertAt(finish[e], k, r)
  <2>1. e \in Race /\ finish[e] \in Finish
    BY <1>1, ResultsAssumption
  <2>2. r \notin Range(finish[e]) /\ k \in 1 .. Len(finish[e]) + 1
    BY <1>3 DEF Recorded
  <2>3. f \in Finish
    BY <2>1, <2>2, InsertIsFinish
  <2>4. finish' = [finish EXCEPT ![e] = f]
    BY <1>3 DEF Recorded
  <2> HIDE DEF f
  <2> QED
    BY <2>1, <2>3, <2>4, <1>1, <1>2, <1>3 DEF Recorded
<1>4. ASSUME NEW e \in Race, NEW k, Withdrawn(e, k) PROVE ResultsInv'
  <2> DEFINE f == RemoveAt(finish[e], k)
  <2>1. finish[e] \in Finish /\ k \in DOMAIN finish[e]
    BY <1>1, <1>4 DEF Withdrawn
  <2>2. f \in Finish
    BY <2>1, RemoveIsFinish
  <2>3. finish' = [finish EXCEPT ![e] = f]
    BY <1>4 DEF Withdrawn
  <2> HIDE DEF f
  <2> QED
    BY <2>2, <2>3, <1>1, <1>2, <1>4 DEF Withdrawn
<1> QED
  BY <1>3, <1>4 DEF TheRecord

LEMMA ResultsNextKeeps == ResultsInv /\ [ResultsNext]_resultsVars => ResultsInv'
<1> SUFFICES ASSUME ResultsInv, [ResultsNext]_resultsVars PROVE ResultsInv'
  OBVIOUS
<1>1. ASSUME UNCHANGED resultsVars PROVE ResultsInv'
  BY <1>1 DEF resultsVars, ResultsInv, ResultsTypeOK, LoadsHold
<1>2. ASSUME NEW s \in Slot, PollBoard(s) \/ BoardStep(s) \/ Operator(s) PROVE ResultsInv'
  <2>1. ASSUME NEW e \in Race, SelectRace(e, s) PROVE ResultsInv'
    BY <2>1, BoardsKeep, "live" \in {"awards", "live"}
  <2> QED
    BY <1>2, <2>1, PollKeeps, LaptopKeeps, AnswersKeep, ThrownKeeps, FailuresKeep
    DEF BoardStep, Operator
<1>3. ASSUME NEW b \in {"awards", "live"}, OpenBoard(b) PROVE ResultsInv'
  <2>1. changes' \in 0 .. MaxChanges
    BY <1>3, ChangeCounts DEF OpenBoard
  <2>2. loads' \in [Slot -> Load \cup {None}] /\ LoadsHold'
    BY <1>3 DEF OpenBoard, LoadsHold
  <2> QED
    BY <2>1, <2>2, <1>3, ResultsAssumption DEF OpenBoard, ResultsInv, ResultsTypeOK
<1> QED
  BY <1>1, <1>2, <1>3, SetupKeeps, RecordKeeps DEF ResultsNext

(* The boards, the configuration screen and the record keep their shape,   *)
(* and no board shows what nobody answered: through every order of answers *)
(* a finish lists every finisher once.                                     *)
THEOREM BoardsAreWellFormed == ResultsSpec => []ResultsTypeOK
<1>1. ResultsInv => ResultsTypeOK
  BY DEF ResultsInv
<1> QED
  BY <1>1, ResultsInitHolds, ResultsNextKeeps, PTL DEF ResultsSpec

LEMMA TypedBoardIsFair == ResultsInv => AwardsAreFair
<1> SUFFICES ASSUME ResultsInv, awards # None PROVE AwardsAreFair
  BY DEF AwardsAreFair
<1> DEFINE c == awards.config
           f == awards.finish
           list == GetAwards(c, f)
           cs == Categories(c)
<1>1. c \in AwardConfig /\ f \in Finish
  BY ResultsAssumption DEF ResultsInv, ResultsTypeOK
<1>2. f \in Seq(Runner) /\ Once(f)
  BY <1>1, FinishIsOnce
<1>3. cs \in Seq(Rule)
  BY <1>1, CategoriesAreRules
<1>4. list \in Seq(Award) /\ IsAwarded(f, cs, Len(cs), list)
  BY <1>1, <1>2, AwardsAreAwarded
<1> HIDE DEF list, cs, f, c
<1>5. LET Winners(i) == Range(list[i].winners)
      IN /\ \A i, k \in DOMAIN list : i # k => Winners(i) \cap Winners(k) = {}
         /\ \A i \in DOMAIN list :
              /\ \A w \in Winners(i) : Eligible(w, list[i].category)
              /\ Cardinality(Winners(i)) <= list[i].category.count
         /\ \A j \in DOMAIN cs, r \in Range(f) :
              Eligible(r, cs[j]) =>
                \/ \E i \in DOMAIN list, m \in 1 .. j :
                     list[i].category = cs[m] /\ r \in Winners(i)
                \/ \E i \in DOMAIN list :
                     /\ list[i].category = cs[j]
                     /\ Cardinality(Winners(i)) = cs[j].count
                     /\ \A w \in Winners(i) : Ahead(f, w, r)
  BY <1>2, <1>3, <1>4, AnyAwardsAreFair
<1> QED
  BY <1>5, Zenon DEF AwardsAreFair, list, cs, f, c

(* Under every configuration and for every finish a board can come to      *)
(* show, one trophy per person, in the highest category.                   *)
THEOREM AwardsStayFair == ResultsSpec => []AwardsAreFair
  BY TypedBoardIsFair, ResultsInitHolds, ResultsNextKeeps, PTL DEF ResultsSpec

-----------------------------------------------------------------------------
(* A file *)

LEMMA SmallestIsOne ==
  ASSUME NEW S \in SUBSET Nat, S # {}
  PROVE  LET x == CHOOSE k \in S : \A j \in S : k <= j
         IN x \in S /\ \A j \in S : x <= j
<1>1. PICK x \in S : \A y \in S : ~(<<y, x>> \in OpToRel(<, Nat))
  BY ONLY NatLessThanWellFounded, WFMin, S \in SUBSET Nat, S # {}, Zenon
<1>2. ASSUME NEW y \in S PROVE x <= y
  <2>1. x \in Nat /\ y \in Nat
    OBVIOUS
  <2>2. ~(<<y, x>> \in OpToRel(<, Nat))
    BY <1>1
  <2>3. ~(y < x)
    BY <2>1, <2>2 DEF OpToRel
  <2> QED
    BY <2>1, <2>3
<1>3. \E k \in S : \A j \in S : k <= j
  BY <1>2
<1> QED
  BY <1>3, Zenon

LEMMA BibsAreFew ==
  ASSUME NEW t \in People
  PROVE  Bibs(t) \in SUBSET (Bib \ {0}) /\ IsFiniteSet(Bibs(t)) /\ Cardinality(Bibs(t)) <= MaxId
<1> DEFINE P == Present(t)
           B == {t[i].bib : i \in P}
           f == [i \in P |-> t[i].bib]
<1>1. MaxId \in Nat /\ P \subseteq 1 .. MaxId /\ \A i \in P : t[i] \in Person
  BY ParticipantAssumption DEF People, Present, PersonId
<1>2. B \subseteq Bib
  BY <1>1 DEF Person
<1>3. IsFiniteSet(1 .. MaxId) /\ Cardinality(1 .. MaxId) = IF 1 > MaxId THEN 0 ELSE MaxId - 1 + 1
  BY <1>1, FS_Interval, 1 \in Int, MaxId \in Int, Zenon
<1>4. IsFiniteSet(P) /\ Cardinality(P) <= Cardinality(1 .. MaxId)
  BY <1>1, <1>3, FS_Subset, Zenon
<1>5. f \in Surjection(P, B)
  <2>1. f \in [P -> B] /\ \A b \in B : \E i \in P : f[i] = b
    OBVIOUS
  <2> HIDE DEF f, B, P
  <2> QED
    BY <2>1, Fun_IsSurj
<1>6. IsFiniteSet(B) /\ Cardinality(B) <= Cardinality(P)
  BY <1>4, <1>5, FS_Surjection
<1>7. Bibs(t) = B \ {0}
  BY DEF Bibs
<1> HIDE DEF B, P
<1>8. IsFiniteSet(B \ {0}) /\ Cardinality(B \ {0}) <= Cardinality(B)
  <2>1. B \ {0} \in SUBSET B
    OBVIOUS
  <2> QED
    BY <2>1, <1>6, FS_Subset
<1>9. Cardinality(B) \in Nat /\ Cardinality(P) \in Nat /\ Cardinality(B \ {0}) \in Nat
  BY <1>4, <1>6, <1>8, FS_CardinalityType
<1>10. Cardinality(1 .. MaxId) = MaxId
  BY <1>1, <1>3
<1> QED
  BY <1>1, <1>2, <1>4, <1>6, <1>7, <1>8, <1>9, <1>10

(* There are more bibs than rows: one is free for every entry.             *)
LEMMA OneIsFree ==
  ASSUME NEW U, IsFiniteSet(U), Cardinality(U) <= 2 * MaxId,
         NEW s \in Nat, s + 2 * MaxId <= MaxBib, NEW n \in Nat, s <= n,
         \A b \in s .. n - 1 : b \in U,
         NEW taken, taken \subseteq U
  PROVE  n <= s + 2 * MaxId /\ \E b \in n .. MaxBib : b \notin taken
<1>1. MaxId \in Nat /\ MaxBib \in Nat /\ Cardinality(U) \in Nat
  BY ParticipantAssumption, FS_CardinalityType
<1>2. ASSUME NEW m \in Nat, s <= m, s .. m - 1 \subseteq U PROVE m - s <= 2 * MaxId
  <2>1. s \in Int /\ m - 1 \in Int
    BY <1>2
  <2>2. Cardinality(s .. m - 1) = IF s > m - 1 THEN 0 ELSE m - 1 - s + 1
    BY <2>1, FS_Interval, Zenon
  <2>3. Cardinality(s .. m - 1) <= Cardinality(U)
    BY <1>2, FS_Subset, Zenon
  <2> QED
    BY <1>1, <1>2, <2>2, <2>3
<1>3. n - s <= 2 * MaxId
  BY <1>2
<1>4. ASSUME \A b \in n .. MaxBib : b \in taken PROVE FALSE
  <2>1. \A b \in s .. (MaxBib + 1) - 1 : b \in U
    <3> TAKE b \in s .. (MaxBib + 1) - 1
    <3>1. b \in s .. n - 1 \/ b \in n .. MaxBib
      BY <1>1
    <3> QED
      BY <3>1, <1>4
  <2>2. MaxBib + 1 \in Nat /\ s <= MaxBib + 1
    BY <1>1
  <2>3. (MaxBib + 1) - s <= 2 * MaxId
    BY <2>1, <2>2, <1>2
  <2> QED
    BY <1>1, <2>3
<1> QED
  BY <1>1, <1>3, <1>4

LEMMA FreeBibIsFree ==
  ASSUME NEW n \in Nat, NEW taken, \E b \in n .. MaxBib : b \notin taken
  PROVE  /\ FreeBib(n, taken) \in n .. MaxBib /\ FreeBib(n, taken) \notin taken
         /\ \A a \in n .. FreeBib(n, taken) - 1 : a \in taken
<1> DEFINE S == {b \in n .. MaxBib : b \notin taken}
           P(b) == b \notin taken /\ \A a \in n .. b - 1 : a \in taken
           x == CHOOSE b \in S : \A a \in S : b <= a
<1>1. MaxBib \in Nat
  BY ParticipantAssumption
<1>2. S \in SUBSET Nat /\ S # {}
  BY <1>1
<1>3. x \in S /\ \A a \in S : x <= a
  <2> HIDE DEF S
  <2> QED
    BY <1>2, SmallestIsOne, Zenon
<1> HIDE DEF x
<1>4. P(x)
  BY <1>1, <1>3
<1>5. \E b \in n .. MaxBib : P(b)
  BY <1>3, <1>4
<1>6. FreeBib(n, taken) = CHOOSE b \in n .. MaxBib : P(b)
  BY Zenon DEF FreeBib
<1> HIDE DEF P
<1>7. FreeBib(n, taken) \in n .. MaxBib /\ P(FreeBib(n, taken))
  BY <1>5, <1>6
<1> QED
  BY <1>7 DEF P

(* What a file has come to after some of its entries.  Every bib given or  *)
(* passed over is one that somebody had, in t, or has.                     *)
Acc == [people : People, last : 0 .. MaxId, next : Bib, taken : SUBSET Bib]
Behind(p, last) == \A i \in PersonId : i > last => p[i] = None
ImportInv(t, s, a) ==
  /\ a \in Acc /\ Behind(a.people, a.last)
  /\ a.taken \subseteq t \cup Bibs(a.people)
  /\ s = 0 => a.next = 0
  /\ s > 0 => s <= a.next /\ \A b \in s .. a.next - 1 : b \in t \cup Bibs(a.people)

LEMMA NewRowsBib ==
  ASSUME NEW p \in People, NEW i \in PersonId, p[i] = None, NEW row \in Person
  PROVE  /\ [p EXCEPT ![i] = row] \in People
         /\ Present([p EXCEPT ![i] = row]) = Present(p) \cup {i}
         /\ Bibs([p EXCEPT ![i] = row]) = Bibs(p) \cup ({row.bib} \ {0})
<1> DEFINE q == [p EXCEPT ![i] = row]
<1>1. q \in People /\ q[i] = row /\ \A j \in PersonId : j # i => q[j] = p[j]
  BY DEF People
<1> HIDE DEF q
<1>2. row # None
  BY ParticipantAssumption
<1>3. Present(q) = Present(p) \cup {i} /\ i \notin Present(p)
  BY <1>1, <1>2 DEF Present
<1>4. {q[j].bib : j \in Present(q)} = {p[j].bib : j \in Present(p)} \cup {row.bib}
  <2>1. \A j \in Present(p) : j \in PersonId /\ q[j] = p[j]
    BY <1>1, <1>3 DEF Present
  <2> QED
    BY <2>1, <1>1, <1>3
<1> QED
  BY <1>1, <1>3, <1>4 DEF Bibs, q

LEMMA FewBibs ==
  ASSUME NEW t, IsFiniteSet(t), Cardinality(t) <= MaxId, NEW x \in People
  PROVE  IsFiniteSet(t \cup Bibs(x)) /\ Cardinality(t \cup Bibs(x)) <= 2 * MaxId
<1>1. IsFiniteSet(Bibs(x)) /\ Cardinality(Bibs(x)) <= MaxId
  BY BibsAreFew
<1>2. /\ IsFiniteSet(t \cup Bibs(x))
      /\ Cardinality(t \cup Bibs(x)) = Cardinality(t) + Cardinality(Bibs(x)) - Cardinality(t \cap Bibs(x))
  BY <1>1, FS_Union, Zenon
<1>3. t \cap Bibs(x) \in SUBSET t
  OBVIOUS
<1>4. IsFiniteSet(t \cap Bibs(x))
  BY <1>3, FS_Subset, Zenon
<1>5. Cardinality(t) \in Nat /\ Cardinality(Bibs(x)) \in Nat /\ Cardinality(t \cap Bibs(x)) \in Nat
  BY <1>1, <1>4, FS_CardinalityType
<1> QED
  BY <1>1, <1>2, <1>5, ParticipantAssumption

(* The bib an entry gets: its own, or a free one that is assigned.         *)
GetsNumber(a, e) == e.bib = 0 /\ a.next > 0
BibFor(a, e) == IF GetsNumber(a, e) THEN FreeBib(a.next, a.taken) ELSE e.bib
RowFor(a, e) == [name |-> e.name, bib |-> BibFor(a, e), in |-> FALSE]

LEMMA ChosenBib ==
  ASSUME NEW t \in SUBSET Bib, IsFiniteSet(t), Cardinality(t) <= MaxId,
         NEW s \in Bib, s > 0 => s + 2 * MaxId <= MaxBib,
         NEW a, ImportInv(t, s, a), NEW e \in Entry
  PROVE  /\ BibFor(a, e) \in Bib /\ BibFor(a, e) \in Nat
         /\ GetsNumber(a, e) => /\ s > 0 /\ s <= a.next /\ BibFor(a, e) \in a.next .. MaxBib
                          /\ BibFor(a, e) \notin a.taken
                          /\ \A b \in a.next .. BibFor(a, e) - 1 : b \in a.taken
<1>1. /\ MaxId \in Nat /\ MaxBib \in Nat /\ s \in Nat
      /\ a.people \in People /\ a.next \in Nat /\ e.bib \in Bib
  BY ParticipantAssumption DEF ImportInv, Acc, Bib, Entry
<1> DEFINE U == t \cup Bibs(a.people)
<1>2. IsFiniteSet(U) /\ Cardinality(U) <= 2 * MaxId
  BY <1>1, FewBibs
<1>3. ASSUME GetsNumber(a, e)
      PROVE  /\ s > 0 /\ s <= a.next /\ FreeBib(a.next, a.taken) \in a.next .. MaxBib
             /\ FreeBib(a.next, a.taken) \notin a.taken
             /\ \A b \in a.next .. FreeBib(a.next, a.taken) - 1 : b \in a.taken
  <2>1. /\ s > 0 /\ s <= a.next /\ s + 2 * MaxId <= MaxBib
        /\ \A b \in s .. a.next - 1 : b \in U
    BY <1>1, <1>3 DEF ImportInv, GetsNumber
  <2>2. a.taken \subseteq U
    BY DEF ImportInv
  <2>3. \E b \in a.next .. MaxBib : b \notin a.taken
    <3> HIDE DEF U
    <3> QED
      BY <2>1, <2>2, <1>1, <1>2, OneIsFree
  <2> QED
    BY <2>1, <2>3, <1>1, FreeBibIsFree
<1>4. CASE GetsNumber(a, e)
  BY <1>1, <1>3, <1>4 DEF BibFor, Bib
<1>5. CASE ~GetsNumber(a, e)
  BY <1>1, <1>5 DEF BibFor, Bib
<1> QED
  BY <1>4, <1>5

LEMMA EntryKeeps ==
  ASSUME NEW t \in SUBSET Bib, IsFiniteSet(t), Cardinality(t) <= MaxId,
         NEW s \in Bib, s > 0 => s + 2 * MaxId <= MaxBib,
         NEW a, ImportInv(t, s, a), a.last < MaxId, NEW e \in Entry
  PROVE  /\ ImportInv(t, s, ImportEntry(a, e))
         /\ ImportEntry(a, e).last \in {a.last, a.last + 1}
<1> DEFINE auto == GetsNumber(a, e)
           bib == BibFor(a, e)
           n2 == IF auto THEN bib + 1 ELSE a.next
           on == [a EXCEPT !.next = IF auto THEN bib + 1 ELSE @]
           row == [name |-> e.name, bib |-> bib, in |-> FALSE]
           q == [a.people EXCEPT ![a.last + 1] = row]
           added == [on EXCEPT !.people = [@ EXCEPT ![a.last + 1] = row],
                               !.last = @ + 1, !.taken = @ \cup ({bib} \ {0})]
           U(x) == t \cup Bibs(x)
<1>1. /\ MaxId \in Nat /\ MaxBib \in Nat /\ s \in Nat
      /\ a \in Acc /\ a.people \in People /\ a.last \in Nat /\ a.next \in Nat /\ a.next <= MaxBib
      /\ a.taken \in SUBSET Bib /\ e.bib \in Bib /\ e.name \in Name \cup {None}
  BY ParticipantAssumption DEF ImportInv, Acc, Bib, Entry
<1>2. ASSUME NEW x \in People PROVE IsFiniteSet(U(x)) /\ Cardinality(U(x)) <= 2 * MaxId
  BY <1>2, FewBibs
<1>3. auto => s > 0 /\ s <= a.next /\ s + 2 * MaxId <= MaxBib
              /\ \A b \in s .. a.next - 1 : b \in U(a.people)
  BY <1>1 DEF ImportInv, GetsNumber
<1>4. auto => /\ bib \in a.next .. MaxBib /\ bib \notin a.taken
              /\ \A b \in a.next .. bib - 1 : b \in a.taken
  BY ChosenBib
<1>5. bib \in Bib /\ bib \in Nat
  BY ChosenBib
<1>6. \/ ImportEntry(a, e) = a \/ ImportEntry(a, e) = added
      \/ ImportEntry(a, e) = on /\ Refused(a.people, 0, bib)
  <2>1. ImportEntry(a, e) = IF e.name = None \/ (e.bib # 0 /\ e.bib \in a.taken) THEN a
                           ELSE IF Refused(a.people, 0, bib) THEN on ELSE added
    BY Zenon DEF ImportEntry, BibFor, GetsNumber
  <2> HIDE DEF on, added, bib
  <2> QED
    BY <2>1, Zenon
<1> HIDE DEF bib
<1>7. on.people = a.people /\ on.last = a.last /\ on.next = n2 /\ on.taken = a.taken
      /\ on = [people |-> a.people, last |-> a.last, next |-> n2, taken |-> a.taken]
  BY <1>1 DEF Acc
<1>8. /\ added.people = q /\ added.last = a.last + 1 /\ added.next = n2
      /\ added.taken = a.taken \cup ({bib} \ {0})
      /\ q \in People /\ a.last + 1 \in 0 .. MaxId /\ n2 \in Bib /\ bib \in Bib => added \in Acc
  <2> DEFINE t2 == a.taken \cup ({bib} \ {0})
             l2 == a.last + 1
  <2> HIDE DEF on, n2
  <2>1. /\ on.people = a.people /\ on.last = a.last /\ on.next = n2 /\ on.taken = a.taken
        /\ on = [people |-> a.people, last |-> a.last, next |-> n2, taken |-> a.taken]
    BY <1>7
  <2>2. added = [on EXCEPT !.people = q, !.last = l2, !.taken = t2]
    BY <2>1, Zenon
  <2>3. bib \in Bib => t2 \in SUBSET Bib
    BY <1>1
  <2>4. n2 \in Bib => on \in Acc
    BY <2>1, <1>1 DEF Acc
  <2> HIDE DEF q, l2, t2, added
  <2>5. added.people = q /\ added.last = l2 /\ added.next = n2 /\ added.taken = t2
    BY <2>1, <2>2
  <2>6. on \in Acc /\ q \in People /\ l2 \in 0 .. MaxId /\ t2 \in SUBSET Bib => added \in Acc
    BY <2>2 DEF Acc
  <2> QED
    BY <2>3, <2>4, <2>5, <2>6, Zenon DEF l2, t2
<1> HIDE DEF on, added
<1>9. a.last + 1 \in PersonId /\ a.people[a.last + 1] = None /\ row \in Person
  BY <1>1, <1>5 DEF PersonId, ImportInv, Behind, Person
<1>10. q \in People /\ Bibs(q) = Bibs(a.people) \cup ({bib} \ {0}) /\ Behind(q, a.last + 1)
  <2>1. q \in People /\ Bibs(q) = Bibs(a.people) \cup ({row.bib} \ {0})
    BY <1>1, <1>9, NewRowsBib
  <2>2. Behind(q, a.last + 1)
    BY <1>1, <1>9 DEF ImportInv, Behind, PersonId, People
  <2> QED
    BY <2>1, <2>2
(* whoever has the bib now, the numbers before the next one are had        *)
<1>11. ASSUME NEW x \in People, Bibs(a.people) \subseteq Bibs(x), bib # 0 => bib \in Bibs(x)
       PROVE  n2 \in Bib /\ (s = 0 => n2 = 0)
              /\ (s > 0 => s <= n2 /\ \A b \in s .. n2 - 1 : b \in U(x))
  <2>1. CASE ~auto
    BY <2>1, <1>1, <1>11 DEF ImportInv, Acc
  <2>2. CASE auto
    <3>1. s \in Nat /\ s > 0 /\ s <= a.next /\ bib \in Nat /\ a.next <= bib /\ n2 = bib + 1
      BY <2>2, <1>1, <1>3, <1>4
    <3>2. \A b \in s .. n2 - 1 : b \in U(x)
      <4> TAKE b \in s .. n2 - 1
      <4>1. b \in s .. a.next - 1 \/ b \in a.next .. bib - 1 \/ b = bib
        BY <3>1, <1>1
      <4>2. b \in s .. a.next - 1 => b \in U(a.people)
        BY <2>2, <1>3
      <4>3. b \in a.next .. bib - 1 => b \in U(a.people)
        BY <2>2, <1>4 DEF ImportInv
      <4>4. U(a.people) \subseteq U(x)
        BY <1>11
      <4>5. bib \in U(x)
        BY <3>1, <1>1, <1>11
      <4> QED
        BY <4>1, <4>2, <4>3, <4>4, <4>5
    <3>3. n2 <= s + 2 * MaxId
      <4> HIDE DEF U
      <4>1. s + 2 * MaxId <= MaxBib
        BY <1>3, <2>2
      <4> HIDE DEF n2, auto
      <4>3. n2 \in Nat /\ s <= n2 /\ {} \subseteq U(x)
        BY <3>1, <1>1
      <4>2. IsFiniteSet(U(x)) /\ Cardinality(U(x)) <= 2 * MaxId
        BY <1>2
      <4> QED
        BY <4>1, <4>2, <4>3, <3>1, <3>2, OneIsFree
    <3> QED
      BY <3>1, <3>2, <3>3, <1>1, <1>3, <2>2 DEF Bib
  <2> QED
    BY <2>1, <2>2
<1>12. ASSUME Refused(a.people, 0, bib) PROVE ImportInv(t, s, on)
  <2>1. bib \in Bibs(a.people)
    BY <1>12 DEF Refused, Bibs
  <2>2. n2 \in Bib /\ (s = 0 => n2 = 0)
        /\ (s > 0 => s <= n2 /\ \A b \in s .. n2 - 1 : b \in U(a.people))
    BY <2>1, <1>1, <1>11
  <2>3. on \in Acc
    BY <2>2, <1>1, <1>7 DEF Acc
  <2> HIDE DEF n2
  <2> QED
    BY <2>2, <2>3, <1>7 DEF ImportInv
<1>13. ImportInv(t, s, added) /\ added.last = a.last + 1
  <2>1. n2 \in Bib /\ (s = 0 => n2 = 0)
        /\ (s > 0 => s <= n2 /\ \A b \in s .. n2 - 1 : b \in U(q))
    BY <1>10, <1>11
  <2> DEFINE t2 == a.taken \cup ({bib} \ {0})
  <2>2. t2 \in SUBSET Bib /\ t2 \subseteq U(q)
    BY <1>1, <1>5, <1>10 DEF ImportInv
  <2>3. a.last + 1 \in 0 .. MaxId
    BY <1>1
  <2> HIDE DEF n2, q, t2
  <2>4. added.people = q /\ added.last = a.last + 1 /\ added.next = n2 /\ added.taken = t2
    BY <1>8 DEF t2
  <2>5. added \in Acc
    BY <2>1, <2>3, <1>5, <1>8, <1>10
  <2> QED
    BY <2>1, <2>2, <2>4, <2>5, <1>10 DEF ImportInv
<1> QED
  BY <1>6, <1>7, <1>12, <1>13

(* The loop of ImportParticipants.                                         *)
LEMMA ImportedSteps ==
  ASSUME NEW t \in SUBSET Bib, IsFiniteSet(t), Cardinality(t) <= MaxId,
         NEW s \in Bib, s > 0 => s + 2 * MaxId <= MaxBib,
         NEW first, ImportInv(t, s, first),
         NEW file \in Seq(Entry), first.last + Len(file) <= MaxId
  PROVE  /\ \A k \in 0 .. Len(file) : ImportInv(t, s, Imported(first, file)[k])
         /\ Imported(first, file)[0] = first
         /\ \A k \in 1 .. Len(file) :
              Imported(first, file)[k] = ImportEntry(Imported(first, file)[k - 1], file[k])
         /\ \A k \in 0 .. Len(file) :
              /\ Imported(first, file)[k].last >= first.last
              /\ Imported(first, file)[k].last <= first.last + k
<1> DEFINE N == Len(file)
           P(f) == f = [k \in 0 .. Len(file) |->
                          IF k = 0 THEN first ELSE ImportEntry(f[k - 1], file[k])]
           Inv(k, a) == ImportInv(t, s, a) /\ a.last >= first.last /\ a.last <= first.last + k
           G == [p \in Acc \X (1 .. N) |->
                   IF ImportEntry(p[1], file[p[2]]) \in Acc THEN ImportEntry(p[1], file[p[2]])
                   ELSE first]
           h == CHOOSE f : P(f)
<1>1. /\ N \in Nat /\ first \in Acc /\ first.last \in Nat /\ MaxId \in Nat
      /\ first.last + N <= MaxId /\ \A k \in 1 .. N : file[k] \in Entry
  BY ParticipantAssumption DEF ImportInv, Acc
<1>2. Inv(0, first)
  BY <1>1
<1>3. ASSUME NEW k \in 1 .. N, NEW a, Inv(k - 1, a)
      PROVE  Inv(k, ImportEntry(a, file[k])) /\ ImportEntry(a, file[k]) \in Acc
  <2>1. a.last \in Nat /\ a.last < MaxId /\ file[k] \in Entry /\ k \in Nat
    BY <1>1, <1>3 DEF ImportInv, Acc
  <2>2. /\ ImportInv(t, s, ImportEntry(a, file[k]))
        /\ ImportEntry(a, file[k]).last \in {a.last, a.last + 1}
    BY <2>1, <1>3, EntryKeeps
  <2>3. ImportEntry(a, file[k]) \in Acc
    BY <2>2 DEF ImportInv
  <2> DEFINE b == ImportEntry(a, file[k])
  <2> HIDE DEF b
  <2>4. b.last \in {a.last, a.last + 1}
    BY <2>2 DEF b
  <2>5. b.last >= first.last /\ b.last <= first.last + k
    BY <2>1, <2>4, <1>1, <1>3
  <2> QED
    BY <2>2, <2>3, <2>5 DEF b
<1>4. G \in [Acc \X (1 .. N) -> Acc]
  BY <1>1
<1>5. ASSUME NEW a \in Acc, NEW k \in 1 .. N, ImportEntry(a, file[k]) \in Acc
      PROVE  G[<<a, k>>] = ImportEntry(a, file[k])
  BY <1>5
<1> HIDE DEF Inv
<1>6. \E f : P(f)
  <2> HIDE DEF G, N
  <2>1. PICK f \in [0 .. N -> Acc] : Runs(f, first, G, N)
    BY <1>1, <1>4, LoopExists, Zenon
  <2> DEFINE I == {k \in 0 .. N : Inv(k, f[k])}
  <2>2. \A j : j \in I <=> j \in 0 .. N /\ Inv(j, f[j])
    BY Zenon
  <2> HIDE DEF I
  <2>3. 0 \in I
    <3>1. 0 \in 0 .. N /\ f[0] = first
      BY <1>1, <2>1 DEF Runs
    <3> QED
      BY <3>1, <1>2, <2>2
  <2>4. ASSUME NEW k \in 1 .. N, k - 1 \in I
        PROVE  k \in I /\ f[k] = ImportEntry(f[k - 1], file[k])
    <3>1. k \in 0 .. N /\ k - 1 \in 0 .. N
      BY <1>1
    <3>2. Inv(k - 1, f[k - 1]) /\ f[k - 1] \in Acc
      BY <3>1, <2>1, <2>2, <2>4
    <3>3. Inv(k, ImportEntry(f[k - 1], file[k])) /\ ImportEntry(f[k - 1], file[k]) \in Acc
      BY <3>2, <1>3
    <3>4. f[k] = G[<<f[k - 1], k>>]
      BY <2>1 DEF Runs
    <3>5. f[k] = ImportEntry(f[k - 1], file[k])
      BY <3>2, <3>3, <3>4, <1>5
    <3> QED
      BY <3>1, <3>3, <3>5, <2>2, Zenon
  <2>5. \A k \in 0 .. N : k \in I
    BY <1>1, <2>3, <2>4, LoopInduction
  <2>6. ASSUME NEW k \in 0 .. N
        PROVE  f[k] = IF k = 0 THEN first ELSE ImportEntry(f[k - 1], file[k])
    <3>1. CASE k = 0
      BY <3>1, <2>1 DEF Runs
    <3>2. CASE k # 0
      <4>1. k \in 1 .. N /\ k - 1 \in 0 .. N
        BY <3>2, <1>1
      <4> QED
        BY <4>1, <3>2, <2>4, <2>5
    <3> QED
      BY <3>1, <3>2
  <2>7. P(f)
    <3>1. f = [k \in 0 .. N |-> f[k]]
      BY <2>1
    <3> QED
      BY <3>1, <2>6 DEF N
  <2> QED
    BY <2>7
<1>7. P(h)
  BY <1>6, Zenon
<1>8. Imported(first, file) = h
  BY Zenon DEF Imported
<1> HIDE DEF h
<1>9. /\ h[0] = first
      /\ \A k \in 1 .. N : h[k] = ImportEntry(h[k - 1], file[k])
  <2>1. 0 \in 0 .. N /\ \A k \in 1 .. N : k \in 0 .. N /\ k # 0
    BY <1>1
  <2> QED
    BY <1>7, <2>1
<1>10. \A k \in 0 .. N : Inv(k, h[k])
  <2> DEFINE I == {k \in 0 .. N : Inv(k, h[k])}
  <2>1. \A j : j \in I <=> j \in 0 .. N /\ Inv(j, h[j])
    BY Zenon
  <2> HIDE DEF I, N
  <2>2. 0 \in I
    BY <1>1, <1>2, <1>9, <2>1
  <2>3. ASSUME NEW k \in 1 .. N, k - 1 \in I PROVE k \in I
    <3>1. k \in 0 .. N /\ k - 1 \in 0 .. N
      BY <1>1
    <3>2. Inv(k - 1, h[k - 1])
      BY <3>1, <2>1, <2>3
    <3>3. Inv(k, ImportEntry(h[k - 1], file[k]))
      BY <3>2, <1>3
    <3> QED
      BY <3>1, <3>3, <1>9, <2>1, Zenon
  <2>4. \A k \in 0 .. N : k \in I
    BY <1>1, <2>2, <2>3, LoopInduction
  <2> QED
    BY <2>1, <2>4
<1> QED
  BY <1>8, <1>9, <1>10 DEF Inv

-----------------------------------------------------------------------------
(* The calls of the screens *)

(* What a call under way may rely on: t is the table, last its last row.   *)
(* A sync that nobody interferes with knows everybody who is there.        *)
CallHolds(r, t, last) ==
  /\ r.op = "toggle" => r.id \in PersonId
  /\ r.phase \in {"held", "arriving"} => r.list \in People
  /\ r.op = "bulk" \/ (r.op = "csv" /\ r.next > 0) => r.next + 2 * MaxId <= MaxBib
  /\ r.op = "rsu" /\ r.next > 0 => r.next + (MaxId - last) <= MaxBib
  /\ r.op = "csv" /\ r.phase = "held" /\ r.clean => r.list = t
  /\ r.op = "rsu" /\ r.phase \in {"asking", "sent"} /\ r.clean /\ ~r.replace =>
       \A i \in Present(t) : [name |-> t[i].name, bib |-> t[i].bib] \in r.known
CallsHold(d, t, last) ==
  /\ d \in [Desk -> DeskCall \cup {None}]
  /\ \A c \in Desk : d[c] # None => CallHolds(d[c], t, last)
DeskInv ==
  /\ ParticipantsTypeOK /\ Behind(people, lastPerson)
  /\ CallsHold(desk, people, lastPerson)

LEMMA ToldKeeps ==
  ASSUME CallsHold(desk, people, lastPerson), NEW c \in Desk, NEW r \in DeskCall \cup {None},
         r # None => CallHolds(r, people, lastPerson), Told(c, r)
  PROVE  CallsHold(desk', people, lastPerson)
<1>1. desk' = [desk EXCEPT ![c] = r] /\ desk \in [Desk -> DeskCall \cup {None}]
  BY DEF Told, CallsHold
<1>2. desk' \in [Desk -> DeskCall \cup {None}] /\ desk'[c] = r
      /\ \A d \in Desk : d # c => desk'[d] = desk[d]
  BY <1>1
<1> QED
  BY <1>2 DEF CallsHold

LEMMA StaleHolds ==
  ASSUME NEW r \in DeskCall, NEW t, NEW last \in Nat, CallHolds(r, t, last),
         NEW t2, NEW last2 \in Nat, last <= last2
  PROVE  /\ [r EXCEPT !.clean = @ /\ t2 = t] \in DeskCall
         /\ CallHolds([r EXCEPT !.clean = @ /\ t2 = t], t2, last2)
<1> DEFINE q == [r EXCEPT !.clean = @ /\ t2 = t]
<1>1. q \in DeskCall
  BY DEF DeskCall
<1>2. /\ q.op = r.op /\ q.id = r.id /\ q.phase = r.phase /\ q.list = r.list /\ q.next = r.next
      /\ q.replace = r.replace /\ q.known = r.known /\ (q.clean => r.clean /\ t2 = t)
  BY DEF DeskCall
<1> HIDE DEF q
<1>3. r.op = "rsu" /\ r.next > 0 => r.next + (MaxId - last2) <= MaxBib
  <2>1. r.op = "rsu" /\ r.next > 0 => r.next + (MaxId - last) <= MaxBib
    BY DEF CallHolds
  <2>2. r.next \in Int /\ MaxId \in Int /\ MaxBib \in Int
    BY ParticipantAssumption DEF DeskCall, Bib
  <2> QED
    BY ONLY <2>1, <2>2, last \in Nat, last2 \in Nat, last <= last2
<1>4. CallHolds(q, t2, last2)
  <2>1. q.op = "toggle" => q.id \in PersonId
    BY <1>2 DEF CallHolds
  <2>2. q.phase \in {"held", "arriving"} => q.list \in People
    BY <1>2 DEF CallHolds
  <2>3. q.op = "bulk" \/ (q.op = "csv" /\ q.next > 0) => q.next + 2 * MaxId <= MaxBib
    BY <1>2 DEF CallHolds
  <2>4. q.op = "rsu" /\ q.next > 0 => q.next + (MaxId - last2) <= MaxBib
    BY <1>2, <1>3
  <2>5. q.op = "csv" /\ q.phase = "held" /\ q.clean => q.list = t2
    BY <1>2, Zenon DEF CallHolds
  <2>6. q.op = "rsu" /\ q.phase \in {"asking", "sent"} /\ q.clean /\ ~q.replace =>
          \A i \in Present(t2) : [name |-> t2[i].name, bib |-> t2[i].bib] \in q.known
    BY <1>2, Zenon DEF CallHolds
  <2> QED
    BY <2>1, <2>2, <2>3, <2>4, <2>5, <2>6, Zenon DEF CallHolds
<1> QED
  BY <1>1, <1>4 DEF q

LEMMA WriteKeeps ==
  ASSUME CallsHold(desk, people, lastPerson), lastPerson \in Nat, NEW c \in Desk,
         NEW t, NEW last \in Nat, lastPerson <= last,
         NEW r \in DeskCall, CallHolds(r, t, last), Write(c, t, r)
  PROVE  CallsHold(desk', t, last)
<1> DEFINE Old(d) == [desk[d] EXCEPT !.clean = @ /\ t = people]
<1>1. desk' = [d \in Desk |-> IF d = c THEN r ELSE IF desk[d] = None THEN None ELSE Old(d)]
  BY DEF Write
<1>2. ASSUME NEW d \in Desk, desk[d] # None
      PROVE  Old(d) \in DeskCall /\ CallHolds(Old(d), t, last)
  <2>1. desk[d] \in DeskCall /\ CallHolds(desk[d], people, lastPerson)
    BY <1>2 DEF CallsHold
  <2> QED
    BY <2>1, StaleHolds
<1> HIDE DEF Old
<1>3. desk' \in [Desk -> DeskCall \cup {None}]
  BY <1>1, <1>2
<1>4. ASSUME NEW d \in Desk, desk'[d] # None PROVE CallHolds(desk'[d], t, last)
  <2>1. desk'[d] = IF d = c THEN r ELSE IF desk[d] = None THEN None ELSE Old(d)
    BY <1>1
  <2> QED
    BY <2>1, <1>2, <1>4
<1> QED
  BY <1>3, <1>4 DEF CallsHold

LEMMA PhaseHolds ==
  ASSUME NEW r \in DeskCall, NEW t, NEW last, CallHolds(r, t, last), NEW p,
         p \in {"written", "refresh"} \/ (p = "sent" /\ r.op = "rsu" /\ r.phase = "asking")
  PROVE  [r EXCEPT !.phase = p] \in DeskCall /\ CallHolds([r EXCEPT !.phase = p], t, last)
<1> DEFINE q == [r EXCEPT !.phase = p]
<1>1. q \in DeskCall
  BY DEF DeskCall, DeskPhase
<1>2. /\ q.op = r.op /\ q.id = r.id /\ q.phase = p /\ q.next = r.next
      /\ q.replace = r.replace /\ q.known = r.known /\ q.clean = r.clean
  BY DEF DeskCall
<1> HIDE DEF q
<1>3. CallHolds(q, t, last)
  BY <1>2 DEF CallHolds
<1> QED
  BY <1>1, <1>3 DEF q

(* A call that has been answered relies on little of the table.            *)
LEMMA WrittenHolds ==
  ASSUME NEW r \in DeskCall, NEW t, NEW last, CallHolds(r, t, last), r.op # "rsu"
  PROVE  /\ [r EXCEPT !.phase = "written"] \in DeskCall
         /\ \A t2, last2 : CallHolds([r EXCEPT !.phase = "written"], t2, last2)
<1> DEFINE q == [r EXCEPT !.phase = "written"]
<1>1. q \in DeskCall /\ CallHolds(q, t, last)
  BY PhaseHolds
<1>2. q.op = r.op /\ q.phase = "written"
  BY DEF DeskCall
<1> HIDE DEF q
<1>3. \A t2, last2 : CallHolds(q, t2, last2)
  BY <1>1, <1>2 DEF CallHolds
<1> QED
  BY <1>1, <1>3 DEF q

LEMMA UnmountedHolds ==
  ASSUME NEW t, NEW last, CallsHold(desk, t, last)
  PROVE  CallsHold(Unmounted, t, last)
<1> DEFINE Left(d) == [desk[d] EXCEPT !.here = FALSE]
<1>1. ASSUME NEW d \in Desk, desk[d] # None
      PROVE  Left(d) \in DeskCall /\ CallHolds(Left(d), t, last)
  <2>1. desk[d] \in DeskCall /\ CallHolds(desk[d], t, last)
    BY <1>1 DEF CallsHold
  <2> DEFINE r == desk[d]
             q == Left(d)
  <2>2. q \in DeskCall
    BY <2>1 DEF DeskCall
  <2>3. /\ q.op = r.op /\ q.id = r.id /\ q.phase = r.phase /\ q.list = r.list /\ q.next = r.next
        /\ q.replace = r.replace /\ q.known = r.known /\ q.clean = r.clean
    BY <2>1 DEF DeskCall
  <2> HIDE DEF q
  <2>4. CallHolds(q, t, last)
    BY <2>1, <2>3 DEF CallHolds
  <2> QED
    BY <2>2, <2>4 DEF q
<1> HIDE DEF Left
<1>2. Unmounted = [d \in Desk |-> IF desk[d] = None THEN None ELSE Left(d)]
  BY DEF Unmounted, Left
<1>3. \A d \in Desk : Unmounted[d] = IF desk[d] = None THEN None ELSE Left(d)
  BY <1>2
<1>4. Unmounted \in [Desk -> DeskCall \cup {None}]
  BY <1>1, <1>2
<1> QED
  BY <1>1, <1>3, <1>4 DEF CallsHold

LEMMA DeskKeeps ==
  ASSUME DeskInv, UNCHANGED table, CallsHold(desk', people, lastPerson),
         shown' \in People, screen' \in {"list", "csv"}, panel' \in BOOLEAN,
         edit' \in [id : 0 .. MaxId, now : Person] \cup {None}, steps' \in 0 .. MaxSteps
  PROVE  DeskInv'
<1>1. people' = people /\ lastPerson' = lastPerson
  BY DEF table
<1>2. CallsHold(desk', people', lastPerson') /\ Behind(people', lastPerson')
  BY <1>1 DEF DeskInv
<1>3. desk' \in [Desk -> DeskCall \cup {None}]
  BY <1>2, Zenon DEF CallsHold
<1>4. people' \in People /\ lastPerson' \in 0 .. MaxId
  BY <1>1 DEF DeskInv, ParticipantsTypeOK
<1> QED
  BY <1>2, <1>3, <1>4, Zenon DEF DeskInv, ParticipantsTypeOK

LEMMA DeskIs ==
  ASSUME DeskInv
  PROVE  /\ people \in People /\ lastPerson \in 0 .. MaxId /\ lastPerson \in Nat
         /\ shown \in People /\ screen \in {"list", "csv"} /\ panel \in BOOLEAN
         /\ edit \in [id : 0 .. MaxId, now : Person] \cup {None}
         /\ desk \in [Desk -> DeskCall \cup {None}] /\ steps \in 0 .. MaxSteps
         /\ Behind(people, lastPerson) /\ CallsHold(desk, people, lastPerson)
         /\ \A c \in Desk : desk[c] # None =>
              desk[c] \in DeskCall /\ CallHolds(desk[c], people, lastPerson)
<1>1. 0 .. MaxId \subseteq Nat
  BY ParticipantAssumption
<1>2. DeskInv
  OBVIOUS
<1>3. CallsHold(desk, people, lastPerson)
  BY <1>2, Zenon DEF DeskInv
<1>4. \A c \in Desk : desk[c] # None =>
        desk[c] \in DeskCall /\ CallHolds(desk[c], people, lastPerson)
  BY <1>3 DEF CallsHold
<1> QED
  BY <1>1, <1>2, <1>3, <1>4, Zenon DEF DeskInv, ParticipantsTypeOK

LEMMA StepCounts ==
  ASSUME DeskInv, Step
  PROVE  steps' \in 0 .. MaxSteps
<1>1. steps \in 0 .. MaxSteps
  BY DeskIs
<1> QED
  BY <1>1, ParticipantAssumption DEF Step

(* A handler that only touches its screen.                                 *)
LEMMA ScreenOnlyKeeps ==
  ASSUME DeskInv, Step, UNCHANGED <<table, shown, screen, desk>>, panel' \in BOOLEAN,
         edit' \in [id : 0 .. MaxId, now : Person] \cup {None}
  PROVE  DeskInv'
<1>1. steps' \in 0 .. MaxSteps
  BY StepCounts
<1>2. /\ CallsHold(desk, people, lastPerson) /\ shown \in People
      /\ screen \in {"list", "csv"}
  BY DeskIs
<1>3. CallsHold(desk', people, lastPerson) /\ shown' \in People
      /\ screen' \in {"list", "csv"} /\ UNCHANGED table
  BY <1>2
<1> QED
  BY <1>1, <1>3, DeskKeeps

LEMMA CallKeeps ==
  ASSUME DeskInv, NEW c \in Desk, NEW r \in DeskCall, CallHolds(r, people, lastPerson), Call(c, r)
  PROVE  DeskInv'
<1>1. steps' \in 0 .. MaxSteps
  BY StepCounts DEF Call
<1>2. CallsHold(desk', people, lastPerson)
  BY DeskIs, ToldKeeps DEF Call
<1>3. UNCHANGED table /\ shown' = shown /\ screen' = screen /\ panel' = panel /\ edit' = edit
  BY DEF Call, page
<1> QED
  BY <1>1, <1>2, <1>3, DeskIs, DeskKeeps

LEMMA AskIs ==
  ASSUME NEW op \in DeskOp
  PROVE  /\ Ask(op) \in DeskCall /\ Ask(op).op = op /\ Ask(op).phase = "sent"
         /\ Ask(op).next = 0 /\ Ask(op).list = None
<1>1. Blank \in Person /\ 0 \in Bib /\ 0 \in 0 .. MaxId
  BY ParticipantAssumption DEF Blank, Person, Bib
<1>2. <<>> \in Seq(Entry) /\ {} \in SUBSET Entry
  OBVIOUS
<1>3. Ask(op) = [op |-> op, phase |-> "sent", id |-> 0, row |-> Blank, list |-> None,
                 todo |-> <<>>, known |-> {}, next |-> 0, replace |-> FALSE,
                 here |-> TRUE, clean |-> TRUE]
  BY DEF Ask
<1> QED
  BY <1>1, <1>2, <1>3 DEF DeskCall, DeskPhase

LEMMA ButtonsKeep ==
  ASSUME DeskInv, NEW c \in Desk, NEW i \in PersonId,
         HandleToggleCheckIn(c, i) \/ HandleDeletePerson(c, i)
           \/ HandleDeleteAllParticipants(c) \/ HandleClearAllBibs(c)
  PROVE  DeskInv'
<1>1. i \in 0 .. MaxId
  BY ParticipantAssumption DEF PersonId
<1>2. ASSUME NEW op \in {"toggle", "delete"}
      PROVE  [Ask(op) EXCEPT !.id = i] \in DeskCall
             /\ CallHolds([Ask(op) EXCEPT !.id = i], people, lastPerson)
  <2>1. op \in DeskOp
    BY DEF DeskOp
  <2>2. Ask(op) \in DeskCall /\ Ask(op).op = op /\ Ask(op).phase = "sent"
    BY <2>1, AskIs
  <2> DEFINE r == [Ask(op) EXCEPT !.id = i]
  <2>3. r \in DeskCall /\ r.op = op /\ r.phase = "sent" /\ r.id = i
    BY <2>2, <1>1 DEF DeskCall
  <2> HIDE DEF r
  <2>4. CallHolds(r, people, lastPerson)
    BY <2>3 DEF CallHolds
  <2> QED
    BY <2>3, <2>4 DEF r
<1>3. ASSUME NEW op \in {"delete all", "clear bibs"}
      PROVE  Ask(op) \in DeskCall /\ CallHolds(Ask(op), people, lastPerson)
  <2>1. op \in DeskOp
    BY DEF DeskOp
  <2>2. Ask(op) \in DeskCall /\ Ask(op).op = op /\ Ask(op).phase = "sent"
    BY <2>1, AskIs
  <2> QED
    BY <2>2 DEF CallHolds
<1>4. \/ \E op \in {"toggle", "delete"} : Call(c, [Ask(op) EXCEPT !.id = i])
      \/ \E op \in {"delete all", "clear bibs"} : Call(c, Ask(op))
  BY DEF HandleToggleCheckIn, HandleDeletePerson, HandleDeleteAllParticipants, HandleClearAllBibs
<1> QED
  BY <1>2, <1>3, <1>4, CallKeeps

LEMMA StartsAre ==
  ASSUME NEW s \in Start
  PROVE  s \in Bib /\ s + 2 * MaxId <= MaxBib
  BY ParticipantAssumption

LEMMA BulkKeeps ==
  ASSUME DeskInv, NEW c \in Desk, NEW s \in Start, BulkBibs(c, s)
  PROVE  DeskInv'
<1> DEFINE r == [Ask("bulk") EXCEPT !.next = s]
<1>1. Ask("bulk") \in DeskCall /\ Ask("bulk").op = "bulk" /\ Ask("bulk").phase = "sent"
  BY AskIs DEF DeskOp
<1>2. r \in DeskCall /\ r.op = "bulk" /\ r.phase = "sent" /\ r.next = s
  BY <1>1, StartsAre DEF DeskCall
<1>3. Call(c, r)
  BY DEF BulkBibs
<1> HIDE DEF r
<1>4. CallHolds(r, people, lastPerson)
  BY <1>2, StartsAre DEF CallHolds
<1> QED
  BY <1>2, <1>3, <1>4, CallKeeps

LEMMA FormsKeep ==
  ASSUME DeskInv, NEW c \in Desk, ParticipantForm(c) \/ ToggleRSUImport \/ (\E i \in PersonId : HandleEdit(i))
  PROVE  DeskInv'
<1> DEFINE Form == [id : 0 .. MaxId, now : Person]
<1>1. /\ edit \in Form \cup {None} /\ shown \in People /\ panel \in BOOLEAN
      /\ PersonId \subseteq 0 .. MaxId /\ 0 \in 0 .. MaxId /\ Blank \in Person
  <2>1. PersonId \subseteq 0 .. MaxId /\ 0 \in 0 .. MaxId /\ Blank \in Person
    BY ParticipantAssumption DEF PersonId, Blank, Person, Bib
  <2> QED
    BY <2>1, DeskIs, Zenon
<1>2. ASSUME NEW i \in PersonId, HandleEdit(i) PROVE DeskInv'
  <2>1. edit' \in Form /\ panel' \in BOOLEAN
    BY <1>1, <1>2 DEF HandleEdit, People
  <2> QED
    BY <2>1, <1>2, ScreenOnlyKeeps DEF HandleEdit
<1>3. CASE HandleStartAddParticipant
  <2>1. edit' \in Form /\ panel' \in BOOLEAN
    BY <1>1, <1>3 DEF HandleStartAddParticipant
  <2> QED
    BY <2>1, <1>3, ScreenOnlyKeeps DEF HandleStartAddParticipant
<1>4. CASE HandleCancelForm
  BY <1>1, <1>4, ScreenOnlyKeeps DEF HandleCancelForm
<1>5. ASSUME NEW n \in Name, NEW b \in Typed, NEW in \in BOOLEAN, FillForm(n, b, in)
      PROVE  DeskInv'
  <2> DEFINE row == [name |-> n, bib |-> b, in |-> in]
  <2>1. row \in Person
    BY ParticipantAssumption DEF Person
  <2>2. edit' = [edit EXCEPT !.now = row] /\ edit \in Form
    BY <1>1, <1>5 DEF FillForm
  <2> HIDE DEF row
  <2>3. edit' \in Form
    BY <2>1, <2>2
  <2> QED
    BY <2>3, <1>1, <1>5, ScreenOnlyKeeps DEF FillForm
<1>6. CASE HandleSubmitForm(c)
  <2> DEFINE op == IF edit.id = 0 THEN "add" ELSE "save"
             r == [Ask(op) EXCEPT !.id = edit.id, !.row = edit.now]
  <2>1. edit \in Form /\ Call(c, r)
    BY <1>1, <1>6 DEF HandleSubmitForm
  <2>2. op \in DeskOp /\ op \in {"add", "save"}
    BY DEF DeskOp
  <2> HIDE DEF op
  <2>3. Ask(op) \in DeskCall /\ Ask(op).op = op /\ Ask(op).phase = "sent"
    BY <2>2, AskIs
  <2>4. r \in DeskCall /\ r.op = op /\ r.phase = "sent"
    BY <2>1, <2>3 DEF DeskCall
  <2> HIDE DEF r
  <2>5. CallHolds(r, people, lastPerson)
    BY <2>2, <2>4 DEF CallHolds
  <2> QED
    BY <2>1, <2>4, <2>5, CallKeeps
<1>7. CASE ToggleRSUImport
  <2>1. panel' \in BOOLEAN /\ edit' = None
    BY <1>7 DEF ToggleRSUImport
  <2> QED
    BY <2>1, <1>7, ScreenOnlyKeeps DEF ToggleRSUImport
<1> QED
  BY <1>2, <1>3, <1>4, <1>5, <1>6, <1>7 DEF ParticipantForm

LEMMA FileCallKeeps ==
  ASSUME DeskInv, NEW c \in Desk, NEW s \in Start \cup {0}, NEW replace \in BOOLEAN,
         NEW file \in File, HandleImport(c, file, s, replace)
  PROVE  DeskInv'
<1> DEFINE r == [Ask("csv") EXCEPT !.todo = file, !.next = s, !.replace = replace]
<1>1. Ask("csv") \in DeskCall /\ Ask("csv").op = "csv" /\ Ask("csv").phase = "sent"
  BY AskIs DEF DeskOp
<1>2. s \in Bib /\ (s > 0 => s + 2 * MaxId <= MaxBib) /\ file \in Seq(Entry)
  BY StartsAre, ParticipantAssumption DEF Bib
<1>3. r \in DeskCall /\ r.op = "csv" /\ r.phase = "sent" /\ r.next = s
  BY <1>1, <1>2 DEF DeskCall
<1>4. Call(c, r)
  BY DEF HandleImport
<1> HIDE DEF r
<1>5. CallHolds(r, people, lastPerson)
  BY <1>2, <1>3 DEF CallHolds
<1> QED
  BY <1>3, <1>4, <1>5, CallKeeps

LEMMA RosterCallKeeps ==
  ASSUME DeskInv, NEW c \in Desk, NEW s \in Start \cup {0}, NEW replace \in BOOLEAN,
         NEW roster \in Roster, HandleRSUImportAction(c, roster, s, replace)
  PROVE  DeskInv'
<1> DEFINE known == IF replace THEN {} ELSE
             {[name |-> shown[i].name, bib |-> shown[i].bib] : i \in Present(shown)}
           same == (shown = people)
           r == [Ask("rsu") EXCEPT !.phase = "asking", !.todo = roster, !.next = s,
                   !.replace = replace, !.known = known, !.clean = same]
<1>1. Ask("rsu") \in DeskCall /\ Ask("rsu").op = "rsu"
  BY AskIs DEF DeskOp
<1>2. s \in Bib /\ (s > 0 => s + 2 * MaxId <= MaxBib) /\ roster \in Seq(Entry)
  BY StartsAre, ParticipantAssumption DEF Bib
<1>3. known \in SUBSET Entry /\ same \in BOOLEAN
  <2>1. \A i \in Present(shown) : shown[i] \in Person
    BY DeskIs DEF Present, People
  <2> QED
    BY <2>1 DEF Person, Entry
<1>4. Call(c, r)
  BY Zenon DEF HandleRSUImportAction
<1>5. ~replace /\ same => \A i \in Present(people) : [name |-> people[i].name, bib |-> people[i].bib] \in known
  OBVIOUS
<1> HIDE DEF known, same
<1>6. /\ r \in DeskCall /\ r.op = "rsu" /\ r.phase = "asking" /\ r.next = s /\ r.known = known
      /\ r.replace = replace /\ r.clean = same
  BY <1>1, <1>2, <1>3 DEF DeskCall, DeskPhase
<1> HIDE DEF r
<1>7. s > 0 => s + (MaxId - lastPerson) <= MaxBib
  <2>1. lastPerson \in Nat /\ MaxId \in Nat /\ MaxBib \in Nat /\ s \in Nat
    BY <1>2, DeskIs, ParticipantAssumption DEF Bib
  <2> QED
    BY ONLY <2>1, <1>2
<1>8. CallHolds(r, people, lastPerson)
  BY <1>5, <1>6, <1>7 DEF CallHolds
<1> QED
  BY <1>4, <1>6, <1>8, CallKeeps

LEMMA ViewsKeep ==
  ASSUME DeskInv, SetView
  PROVE  DeskInv'
<1>1. steps' \in 0 .. MaxSteps
  BY StepCounts DEF SetView
<1>2. CallsHold(desk', people, lastPerson)
  BY DeskIs, UnmountedHolds DEF SetView
<1>3. UNCHANGED table /\ shown' = shown /\ screen' \in {"list", "csv"} /\ edit' = None
      /\ panel' \in BOOLEAN
  BY DEF SetView
<1> QED
  BY <1>1, <1>2, <1>3, DeskIs, DeskKeeps

-----------------------------------------------------------------------------
(* What the laptop does *)

(* A step of a call that leaves the table as it is.                        *)
LEMMA AnsweredKeeps ==
  ASSUME DeskInv, NEW c \in Desk, NEW r \in DeskCall \cup {None},
         r # None => CallHolds(r, people, lastPerson), Told(c, r),
         UNCHANGED <<table, shown, page, steps>>
  PROVE  DeskInv'
<1>1. CallsHold(desk', people, lastPerson)
  BY DeskIs, ToldKeeps
<1>2. /\ UNCHANGED table /\ shown' = shown /\ screen' = screen /\ panel' = panel
      /\ edit' = edit /\ steps' = steps
  BY DEF page
<1> QED
  BY <1>1, <1>2, DeskIs, DeskKeeps

(* A step of a call that writes it.                                        *)
LEMMA WrittenKeeps ==
  ASSUME DeskInv, NEW c \in Desk, NEW t \in People, NEW last \in 0 .. MaxId, lastPerson <= last,
         Behind(t, last), NEW r \in DeskCall, CallHolds(r, t, last), Write(c, t, r),
         lastPerson' = last, UNCHANGED <<shown, page, steps>>
  PROVE  DeskInv'
<1>1. last \in Nat
  BY ParticipantAssumption
<1>2. CallsHold(desk', t, last)
  BY <1>1, DeskIs, WriteKeeps
<1>3. people' = t
  BY DEF Write
<1>4. CallsHold(desk', people', lastPerson') /\ Behind(people', lastPerson')
      /\ people' \in People /\ lastPerson' \in 0 .. MaxId
  BY <1>2, <1>3
<1>5. desk' \in [Desk -> DeskCall \cup {None}]
  BY <1>2, Zenon DEF CallsHold
<1>6. shown' = shown /\ screen' = screen /\ panel' = panel /\ edit' = edit /\ steps' = steps
  BY DEF page
<1>7. /\ shown' \in People /\ screen' \in {"list", "csv"} /\ panel' \in BOOLEAN
      /\ edit' \in [id : 0 .. MaxId, now : Person] \cup {None} /\ steps' \in 0 .. MaxSteps
  BY <1>6, DeskIs
<1> QED
  BY <1>4, <1>5, <1>7, Zenon DEF DeskInv, ParticipantsTypeOK

LEMMA CallIs ==
  ASSUME DeskInv, NEW c \in Desk, desk[c] # None
  PROVE  /\ desk[c] \in DeskCall /\ CallHolds(desk[c], people, lastPerson)
         /\ desk[c].id \in 0 .. MaxId /\ desk[c].row \in Person /\ desk[c].todo \in Seq(Entry)
         /\ desk[c].known \in SUBSET Entry /\ desk[c].next \in Bib /\ desk[c].op \in DeskOp
         /\ desk[c].phase \in DeskPhase
<1>1. desk[c] \in DeskCall /\ CallHolds(desk[c], people, lastPerson)
  BY DeskIs
<1> QED
  BY <1>1 DEF DeskCall

(* Nobody comes where nobody was, unless a row is inserted.                *)
LEMMA StatementIs ==
  ASSUME DeskInv, NEW c \in Desk, desk[c] # None
  PROVE  Statement(c) \in People /\ Behind(Statement(c), lastPerson)
<1> DEFINE r == desk[c]
           p == [people EXCEPT ![r.id] = None]
           b == [i \in PersonId |-> IF people[i] = None THEN None ELSE [people[i] EXCEPT !.bib = 0]]
           u == [people EXCEPT ![r.id] = r.row]
<1>1. people \in People /\ Behind(people, lastPerson) /\ r.row \in Person
  BY DeskIs, CallIs
<1>2. p \in People /\ Behind(p, lastPerson)
  BY <1>1 DEF People, Behind
<1>3. Nobody \in People /\ Behind(Nobody, lastPerson)
  BY DEF People, Behind, Nobody
<1>4. b \in People /\ Behind(b, lastPerson)
  <2>1. ASSUME NEW i \in PersonId, people[i] # None PROVE [people[i] EXCEPT !.bib = 0] \in Person
    <3>1. people[i] \in Person /\ 0 \in Bib
      BY <1>1, <2>1, ParticipantAssumption DEF People, Bib
    <3> QED
      BY <3>1 DEF Person
  <2> QED
    BY <2>1, <1>1 DEF People, Behind
<1>5. u \in People /\ (people[r.id] # None => Behind(u, lastPerson))
  <2>1. u \in People
    BY <1>1 DEF People
  <2>2. ASSUME people[r.id] # None, NEW i \in PersonId, i > lastPerson PROVE u[i] = None
    <3>1. i # r.id
      BY <2>2, <1>1 DEF Behind
    <3> QED
      BY <3>1, <2>2, <1>1 DEF Behind, People
  <2> QED
    BY <2>1, <2>2 DEF Behind
<1> HIDE DEF p, b, u
<1>6. Statement(c) \in {p, Nobody, b, u, people} /\ (Statement(c) = u => people[r.id] # None \/ u \in {p, Nobody, b, people})
  <2>1. Statement(c) \in {p, Nobody, b, Update(r.id, r.row)}
    <3>1. CASE r.op = "delete"
      BY <3>1, Zenon DEF Statement, p
    <3>2. CASE r.op = "delete all"
      BY <3>2 DEF Statement
    <3>3. CASE r.op = "clear bibs"
      BY <3>3 DEF Statement, b
    <3>4. CASE r.op \notin {"delete", "delete all", "clear bibs"}
      BY <3>4 DEF Statement
    <3> QED
      BY <3>1, <3>2, <3>3, <3>4
  <2>2. Update(r.id, r.row) = IF people[r.id] = None THEN people ELSE u
    BY Zenon DEF Update, u
  <2> QED
    BY <2>1, <2>2
<1> QED
  BY <1>1, <1>2, <1>3, <1>4, <1>5, <1>6

LEMMA ExecuteKeeps ==
  ASSUME DeskInv, NEW c \in Desk, Execute(c)
  PROVE  DeskInv'
<1>1. desk[c] # None /\ desk[c].op \in {"toggle", "save", "delete", "delete all", "clear bibs"}
  BY DEF Execute, At
<1>2. desk[c] \in DeskCall /\ CallHolds(desk[c], people, lastPerson)
  BY <1>1, CallIs
<1>3. CASE Told(c, None) /\ UNCHANGED people
  BY <1>3, AnsweredKeeps DEF Execute, table
<1>4. CASE Write(c, Statement(c), Written(c))
  <2>1. Statement(c) \in People /\ Behind(Statement(c), lastPerson)
    BY <1>1, StatementIs
  <2>2. Written(c) \in DeskCall /\ CallHolds(Written(c), Statement(c), lastPerson)
    BY <1>1, <1>2, WrittenHolds DEF Written
  <2>3. lastPerson \in 0 .. MaxId /\ lastPerson <= lastPerson
    BY DeskIs
  <2>4. lastPerson' = lastPerson /\ UNCHANGED <<shown, page, steps>>
    BY DEF Execute
  <2> QED
    BY <2>1, <2>2, <2>3, <2>4, <1>4, WrittenKeeps
<1> QED
  BY <1>3, <1>4 DEF Execute

(* A row is inserted behind all there were.                                *)
LEMMA InsertedIs ==
  ASSUME DeskInv, lastPerson < MaxId, NEW row \in Person
  PROVE  LET t == [people EXCEPT ![lastPerson + 1] = row]
         IN /\ t \in People /\ Behind(t, lastPerson + 1)
            /\ Present(t) = Present(people) \cup {lastPerson + 1}
            /\ t[lastPerson + 1] = row
            /\ \A i \in Present(people) : t[i] = people[i]
            /\ lastPerson + 1 \in 0 .. MaxId /\ lastPerson <= lastPerson + 1
<1>1. people \in People /\ lastPerson \in Nat /\ MaxId \in Nat /\ Behind(people, lastPerson)
  BY DeskIs, ParticipantAssumption
<1> DEFINE n == lastPerson + 1
           t == [people EXCEPT ![n] = row]
<1>2. n \in PersonId /\ people[n] = None /\ n \in 0 .. MaxId /\ lastPerson <= n
  BY <1>1 DEF PersonId, Behind
<1>3. t \in People /\ Present(t) = Present(people) \cup {n}
  <2> HIDE DEF n
  <2> QED
    BY <1>1, <1>2, NewRowsBib
<1>4. t[n] = row /\ \A i \in PersonId : i # n => t[i] = people[i]
  BY <1>1, <1>2 DEF People
<1>5. Behind(t, n)
  BY <1>1, <1>4 DEF Behind, PersonId
<1>6. \A i \in Present(people) : t[i] = people[i]
  BY <1>2, <1>4 DEF Present
<1> QED
  BY <1>2, <1>3, <1>4, <1>5, <1>6

LEMMA AddKeeps ==
  ASSUME DeskInv, NEW c \in Desk, AddParticipant(c)
  PROVE  DeskInv'
<1>1. desk[c] # None /\ desk[c].op = "add" /\ lastPerson < MaxId
  BY DEF AddParticipant, At
<1>2. desk[c] \in DeskCall /\ CallHolds(desk[c], people, lastPerson) /\ desk[c].row \in Person
  BY <1>1, CallIs
<1>3. CASE Told(c, None) /\ UNCHANGED table
  BY <1>3, AnsweredKeeps DEF AddParticipant
<1>4. CASE /\ Write(c, [people EXCEPT ![lastPerson + 1] = desk[c].row], Written(c))
           /\ lastPerson' = lastPerson + 1
  <2> DEFINE t == [people EXCEPT ![lastPerson + 1] = desk[c].row]
             n == lastPerson + 1
  <2>1. t \in People /\ Behind(t, n) /\ n \in 0 .. MaxId /\ lastPerson <= n
    BY <1>1, <1>2, InsertedIs
  <2>2. Written(c) \in DeskCall /\ CallHolds(Written(c), t, n)
    BY <1>1, <1>2, WrittenHolds DEF Written
  <2>3. UNCHANGED <<shown, page, steps>> /\ Write(c, t, Written(c)) /\ lastPerson' = n
    BY <1>4 DEF AddParticipant
  <2> HIDE DEF t, n
  <2> QED
    BY <2>1, <2>2, <2>3, WrittenKeeps
<1> QED
  BY <1>3, <1>4 DEF AddParticipant

LEMMA ReadKeeps ==
  ASSUME DeskInv, NEW c \in Desk, Read(c)
  PROVE  DeskInv'
<1> DEFINE r == desk[c]
<1>1. r # None /\ r.op \in {"toggle", "bulk", "csv"} /\ r.phase = "sent"
  BY DEF Read, At
<1>2. r \in DeskCall /\ CallHolds(r, people, lastPerson) /\ people \in People
  BY <1>1, CallIs, DeskIs
<1>3. CASE Told(c, None)
  BY <1>3, AnsweredKeeps DEF Read
<1>4. CASE /\ ~(r.op = "toggle" /\ people[r.id] = None)
           /\ Told(c, [r EXCEPT !.phase = "held", !.list = people, !.clean = TRUE,
                         !.row = IF r.op = "toggle" THEN [people[r.id] EXCEPT !.in = ~@] ELSE Blank])
  <2> DEFINE row == IF r.op = "toggle" THEN [people[r.id] EXCEPT !.in = ~@] ELSE Blank
             q == [r EXCEPT !.phase = "held", !.list = people, !.clean = TRUE, !.row = row]
  <2>1. row \in Person
    <3>1. CASE r.op = "toggle"
      <4>1. r.id \in PersonId
        BY <3>1, <1>2 DEF CallHolds
      <4>2. people[r.id] \in Person
        BY <4>1, <3>1, <1>2, <1>4 DEF People
      <4>3. [people[r.id] EXCEPT !.in = ~@] \in Person
        BY <4>2 DEF Person
      <4> QED
        BY <4>3, <3>1
    <3>2. CASE r.op # "toggle"
      BY <3>2, ParticipantAssumption DEF Blank, Person, Bib
    <3> QED
      BY <3>1, <3>2
  <2>2. Told(c, q)
    BY <1>4
  <2> HIDE DEF row
  <2>3. /\ q \in DeskCall /\ q.op = r.op /\ q.id = r.id /\ q.phase = "held" /\ q.list = people
        /\ q.next = r.next
    BY <2>1, <1>2 DEF DeskCall, DeskPhase
  <2> HIDE DEF q
  <2>4. CallHolds(q, people, lastPerson)
    BY <2>3, <1>1, <1>2 DEF CallHolds
  <2>5. UNCHANGED <<table, shown, page, steps>>
    BY DEF Read
  <2> QED
    BY <2>2, <2>3, <2>4, <2>5, AnsweredKeeps
<1> QED
  BY <1>3, <1>4 DEF Read

LEMMA ReassignKeeps ==
  ASSUME DeskInv, NEW c \in Desk, ReassignBibs(c)
  PROVE  DeskInv'
<1> DEFINE r == desk[c]
           ids == Present(r.list) \cap Present(people)
           t == [i \in PersonId |-> IF i \in ids THEN [people[i] EXCEPT !.bib = Numbered(r, i)]
                                    ELSE people[i]]
<1>1. r # None /\ r.op = "bulk" /\ r.phase = "held"
  BY DEF ReassignBibs, At
<1>2. r \in DeskCall /\ CallHolds(r, people, lastPerson) /\ people \in People /\ r.next \in Bib
      /\ Behind(people, lastPerson)
  BY <1>1, CallIs, DeskIs
<1>3. CASE Told(c, None) /\ UNCHANGED people
  BY <1>3, AnsweredKeeps DEF ReassignBibs, table
<1>4. CASE Write(c, t, Written(c))
  <2>1. ASSUME NEW i \in PersonId PROVE Numbered(r, i) \in Bib
    <3> DEFINE S == {j \in Present(r.list) : j < i}
    <3>1. S \in SUBSET (1 .. MaxId)
      BY DEF Present, PersonId
    <3>2. /\ MaxId \in Nat /\ MaxBib \in Nat /\ r.next \in Nat /\ r.next + 2 * MaxId <= MaxBib
      BY <1>1, <1>2, ParticipantAssumption DEF CallHolds, Bib
    <3>3. IsFiniteSet(1 .. MaxId) /\ Cardinality(1 .. MaxId) = IF 1 > MaxId THEN 0 ELSE MaxId - 1 + 1
      BY <3>2, FS_Interval, 1 \in Int, MaxId \in Int, Zenon
    <3> HIDE DEF S
    <3>4. IsFiniteSet(S) /\ Cardinality(S) <= Cardinality(1 .. MaxId)
      BY <3>1, <3>3, FS_Subset, Zenon
    <3>5. Cardinality(S) \in Nat
      BY <3>4, FS_CardinalityType
    <3>6. r.next + Cardinality(S) \in Bib
      BY <3>2, <3>3, <3>4, <3>5 DEF Bib
    <3> QED
      BY <3>6 DEF Numbered, S
  <2>2. ASSUME NEW i \in PersonId, i \in ids PROVE [people[i] EXCEPT !.bib = Numbered(r, i)] \in Person
    <3>1. people[i] \in Person /\ Numbered(r, i) \in Bib
      BY <2>1, <2>2, <1>2 DEF People, Present
    <3> QED
      BY <3>1 DEF Person
  <2>3. t \in People
    BY <2>2, <1>2 DEF People
  <2>4. Behind(t, lastPerson)
    BY <1>2 DEF Behind, Present
  <2>5. Written(c) \in DeskCall /\ CallHolds(Written(c), t, lastPerson)
    BY <1>1, <1>2, WrittenHolds DEF Written
  <2>6. lastPerson \in 0 .. MaxId /\ lastPerson <= lastPerson
    BY DeskIs
  <2>7. lastPerson' = lastPerson /\ UNCHANGED <<shown, page, steps>>
    BY DEF ReassignBibs
  <2> HIDE DEF t
  <2> QED
    BY <2>3, <2>4, <2>5, <2>6, <2>7, <1>4, WrittenKeeps
<1> QED
  BY <1>3, <1>4, Zenon DEF ReassignBibs

(* What the import of a file starts from.                                  *)
Before(c) ==
  [people |-> IF desk[c].replace THEN Nobody ELSE people, last |-> lastPerson,
   next |-> desk[c].next, taken |-> IF desk[c].replace THEN {} ELSE Bibs(desk[c].list)]
Done(c) == Imported(Before(c), desk[c].todo)[Len(desk[c].todo)]

LEMMA ImportStarts ==
  ASSUME DeskInv, NEW c \in Desk, ImportParticipants(c)
  PROVE  /\ Before(c).taken \in SUBSET Bib /\ IsFiniteSet(Before(c).taken)
         /\ Cardinality(Before(c).taken) <= MaxId
         /\ desk[c].next \in Bib /\ (desk[c].next > 0 => desk[c].next + 2 * MaxId <= MaxBib)
         /\ ImportInv(Before(c).taken, desk[c].next, Before(c))
         /\ Before(c).last = lastPerson /\ desk[c].todo \in Seq(Entry)
         /\ lastPerson + Len(desk[c].todo) <= MaxId /\ lastPerson \in 0 .. MaxId
<1> DEFINE r == desk[c]
           p == IF r.replace THEN Nobody ELSE people
           t == IF r.replace THEN {} ELSE Bibs(r.list)
<1>1. r # None /\ r.op = "csv" /\ (r.phase = "held" \/ r.replace)
      /\ lastPerson + Len(desk[c].todo) <= MaxId
  BY DEF ImportParticipants, At
<1>2. /\ r \in DeskCall /\ CallHolds(r, people, lastPerson) /\ people \in People
      /\ r.next \in Bib /\ Behind(people, lastPerson) /\ lastPerson \in 0 .. MaxId
      /\ r.todo \in Seq(Entry)
  BY <1>1, CallIs, DeskIs
<1>3. p \in People /\ Behind(p, lastPerson)
  BY <1>2 DEF People, Behind, Nobody
<1>4. t \in SUBSET Bib /\ IsFiniteSet(t) /\ Cardinality(t) <= MaxId
  <2>1. CASE r.replace
    <3>1. IsFiniteSet({}) /\ Cardinality({}) = 0 /\ 0 <= MaxId
      BY FS_EmptySet, ParticipantAssumption
    <3>2. t = {}
      BY <2>1
    <3> HIDE DEF t
    <3> QED
      BY <3>1, <3>2
  <2>2. CASE ~r.replace
    <3>1. r.list \in People
      BY <2>2, <1>1, <1>2 DEF CallHolds
    <3>2. t = Bibs(r.list)
      BY <2>2
    <3> HIDE DEF t
    <3> QED
      BY <3>1, <3>2, BibsAreFew
  <2> QED
    BY <2>1, <2>2
<1>5. r.next > 0 => r.next + 2 * MaxId <= MaxBib
  BY <1>1, <1>2 DEF CallHolds
<1> HIDE DEF p, t
<1>6. Before(c) = [people |-> p, last |-> lastPerson, next |-> r.next, taken |-> t]
  BY DEF Before, p, t
<1>7. /\ Before(c).people = p /\ Before(c).last = lastPerson /\ Before(c).next = r.next
      /\ Before(c).taken = t /\ Before(c) \in Acc
  BY <1>2, <1>3, <1>4, <1>6 DEF Acc
<1>8. r.next \in Nat /\ \A b : b \notin r.next .. r.next - 1
  BY <1>2, ParticipantAssumption DEF Bib
<1>9. ImportInv(t, r.next, Before(c))
  BY <1>3, <1>7, <1>8 DEF ImportInv
<1> QED
  BY <1>1, <1>2, <1>4, <1>5, <1>7, <1>9

LEMMA ImportKeeps ==
  ASSUME DeskInv, NEW c \in Desk, ImportParticipants(c)
  PROVE  DeskInv'
<1> DEFINE r == desk[c]
           d == Done(c)
           t == Before(c).taken
<1>1. r # None /\ r.op = "csv"
  BY DEF ImportParticipants, At
<1>2. r \in DeskCall /\ CallHolds(r, people, lastPerson)
  BY <1>1, CallIs
<1>3. Write(c, d.people, Written(c)) /\ lastPerson' = d.last /\ UNCHANGED <<shown, page, steps>>
  BY Zenon DEF ImportParticipants, Done, Before
<1>4. /\ ImportInv(t, r.next, d) /\ d.last >= lastPerson
  <2>1. Len(r.todo) \in 0 .. Len(r.todo) /\ Before(c).last = lastPerson
    BY ImportStarts
  <2>2. Before(c).last + Len(r.todo) <= MaxId
    BY ImportStarts
  <2> QED
    BY <2>1, <2>2, ImportStarts, ImportedSteps DEF Done
<1> HIDE DEF d, t
<1>5. d.people \in People /\ d.last \in 0 .. MaxId /\ Behind(d.people, d.last) /\ lastPerson <= d.last
  <2>1. d.people \in People /\ d.last \in 0 .. MaxId /\ Behind(d.people, d.last)
    BY <1>4 DEF ImportInv, Acc
  <2>2. lastPerson \in Nat /\ d.last \in Nat
    BY <2>1, DeskIs, ParticipantAssumption
  <2> QED
    BY <2>1, <2>2, <1>4
<1>6. Written(c) \in DeskCall /\ CallHolds(Written(c), d.people, d.last)
  BY <1>1, <1>2, WrittenHolds DEF Written
<1> QED
  BY <1>3, <1>5, <1>6, WrittenKeeps

LEMMA DeleteFirstKeeps ==
  ASSUME DeskInv, NEW c \in Desk, DeleteFirst(c)
  PROVE  DeskInv'
<1> DEFINE r == desk[c]
           q == [r EXCEPT !.replace = FALSE, !.clean = TRUE]
<1>1. r # None /\ r.op = "rsu" /\ r.phase = "sent"
  BY DEF DeleteFirst, At
<1>2. r \in DeskCall /\ CallHolds(r, people, lastPerson)
  BY <1>1, CallIs
<1>3. q \in DeskCall /\ q.op = "rsu" /\ q.phase = "sent" /\ q.next = r.next
  BY <1>1, <1>2 DEF DeskCall
<1>4. Write(c, Nobody, q) /\ lastPerson' = lastPerson /\ UNCHANGED <<shown, page, steps>>
  BY DEF DeleteFirst
<1> HIDE DEF q
<1>5. Nobody \in People /\ Behind(Nobody, lastPerson) /\ Present(Nobody) = {}
  BY DEF People, Behind, Nobody, Present
<1>6. CallHolds(q, Nobody, lastPerson)
  BY <1>1, <1>2, <1>3, <1>5 DEF CallHolds
<1>7. lastPerson \in 0 .. MaxId /\ lastPerson <= lastPerson
  BY DeskIs
<1> QED
  BY <1>3, <1>4, <1>5, <1>6, <1>7, WrittenKeeps

LEMMA SyncKeeps ==
  ASSUME DeskInv, NEW c \in Desk, SyncParticipant(c)
  PROVE  DeskInv'
<1> DEFINE r == desk[c]
           e == Head(r.todo)
           bib == Assigned(r, e)
           on == [r EXCEPT !.todo = Tail(@)]
<1>1. r # None /\ r.op = "rsu" /\ r.phase = "sent" /\ ~r.replace /\ r.todo # <<>> /\ lastPerson < MaxId
  BY DEF SyncParticipant, At
<1>2. /\ r \in DeskCall /\ CallHolds(r, people, lastPerson) /\ r.todo \in Seq(Entry)
      /\ r.next \in Bib /\ r.known \in SUBSET Entry
  BY <1>1, CallIs
<1>3. e \in Entry /\ Tail(r.todo) \in Seq(Entry) /\ e.bib \in Bib /\ e.name \in Name \cup {None}
  <2>1. e \in Entry /\ Tail(r.todo) \in Seq(Entry)
    BY <1>1, <1>2
  <2> QED
    BY <2>1 DEF Entry
<1>4. /\ on \in DeskCall /\ on.op = "rsu" /\ on.phase = "sent" /\ on.next = r.next /\ on.known = r.known
      /\ on.replace = r.replace /\ on.clean = r.clean
  BY <1>1, <1>2, <1>3 DEF DeskCall
<1>5. CallHolds(on, people, lastPerson)
  <2> HIDE DEF on
  <2> QED
    BY <1>1, <1>2, <1>4 DEF CallHolds
<1>6. CASE Told(c, on) /\ UNCHANGED table
  <2> HIDE DEF on
  <2>1. UNCHANGED <<table, shown, page, steps>>
    BY <1>6 DEF SyncParticipant
  <2> QED
    BY <2>1, <1>4, <1>5, <1>6, AnsweredKeeps
<1>7. CASE Told(c, None) /\ UNCHANGED table
  BY <1>7, AnsweredKeeps DEF SyncParticipant
<1> DEFINE n2 == IF bib = e.bib THEN r.next ELSE r.next + 1
           k2 == Pushed(r.known, e.name, bib)
           row == [name |-> e.name, bib |-> bib, in |-> FALSE]
           t == [people EXCEPT ![lastPerson + 1] = row]
           n == lastPerson + 1
           q == [on EXCEPT !.known = k2, !.next = n2]
<1>8. CASE /\ Write(c, t, [on EXCEPT !.known = Pushed(@, e.name, bib),
                                     !.next = IF bib = e.bib THEN @ ELSE @ + 1])
           /\ lastPerson' = n
  <2>1. bib \in Bib /\ n2 \in Bib /\ (r.next > 0 => n2 + (MaxId - n) <= MaxBib) /\ (r.next = 0 => n2 = 0)
    <3>1. /\ r.next \in Nat /\ MaxId \in Nat /\ MaxBib \in Nat /\ lastPerson \in Nat /\ lastPerson < MaxId
          /\ r.next <= MaxBib
      BY <1>1, <1>2, DeskIs, ParticipantAssumption DEF Bib
    <3>2. r.next > 0 => r.next + (MaxId - lastPerson) <= MaxBib
      BY <1>1, <1>2 DEF CallHolds
    <3>3. bib = IF e.bib = 0 /\ r.next > 0 THEN r.next ELSE e.bib
      BY DEF Assigned
    <3>4. bib \in Bib
      BY <3>3, <1>2, <1>3
    <3> HIDE DEF bib
    <3>5. r.next = 0 => n2 = 0
      BY <3>1, <3>3
    <3>6. n2 \in {r.next, r.next + 1}
      OBVIOUS
    <3> HIDE DEF n2
    <3>7. (r.next > 0 => n2 + (MaxId - n) <= MaxBib) /\ n2 \in 0 .. MaxBib
      BY <3>1, <3>2, <3>5, <3>6
    <3> QED
      BY <3>4, <3>5, <3>7 DEF Bib
  <2> HIDE DEF bib
  <2>2. k2 \in SUBSET Entry /\ row \in Person
    BY <2>1, <1>2, <1>3 DEF Pushed, Entry, Person
  <2>3. /\ t \in People /\ Behind(t, n) /\ Present(t) = Present(people) \cup {n} /\ t[n] = row
        /\ \A i \in Present(people) : t[i] = people[i]
        /\ n \in 0 .. MaxId /\ lastPerson <= n
    <3> HIDE DEF row
    <3> QED
      BY <2>2, <1>1, InsertedIs
  <2>4. Write(c, t, q) /\ UNCHANGED <<shown, page, steps>>
    <3>1. on.known = r.known /\ on.next = r.next
      BY <1>4
    <3>2. Write(c, t, [on EXCEPT !.known = Pushed(on.known, e.name, bib),
                                 !.next = IF bib = e.bib THEN on.next ELSE on.next + 1])
      BY <1>8
    <3> HIDE DEF on, t, row
    <3> QED
      BY <3>1, <3>2, Zenon DEF SyncParticipant
  <2>5. ~r.replace /\ r.clean =>
          \A i \in Present(t) : [name |-> t[i].name, bib |-> t[i].bib] \in k2
    <3> SUFFICES ASSUME r.clean, NEW i \in Present(t)
                 PROVE  [name |-> t[i].name, bib |-> t[i].bib] \in k2
      OBVIOUS
    <3>1. k2 = r.known \cup {[name |-> e.name, bib |-> bib]}
      BY DEF Pushed
    <3>2. CASE i \in Present(people)
      <4>1. [name |-> people[i].name, bib |-> people[i].bib] \in r.known
        BY <3>2, <1>1, <1>2 DEF CallHolds
      <4> HIDE DEF t, k2
      <4> QED
        BY <4>1, <3>1, <3>2, <2>3
    <3>3. CASE i = n
      <4>1. t[i] = row /\ row.name = e.name /\ row.bib = bib
        BY <3>3, <2>3
      <4> HIDE DEF t, k2, row
      <4> QED
        BY <4>1, <3>1
    <3> QED
      BY <3>2, <3>3, <2>3
  <2> HIDE DEF t, k2, n2, row, n, on
  <2>6. /\ q \in DeskCall /\ q.op = "rsu" /\ q.phase = "sent" /\ q.next = n2 /\ q.known = k2
        /\ q.replace = r.replace /\ q.clean = r.clean
    BY <1>4, <2>1, <2>2 DEF DeskCall
  <2> HIDE DEF q
  <2>7. n2 > 0 => r.next > 0
    BY <2>1, <1>2, ParticipantAssumption DEF Bib
  <2>8. CallHolds(q, t, n)
    BY <2>1, <2>5, <2>6, <2>7 DEF CallHolds
  <2>9. lastPerson' = n
    BY <1>8
  <2> QED
    BY <2>3, <2>4, <2>6, <2>8, <2>9, WrittenKeeps
<1> QED
  <2>1. \/ Told(c, on) /\ UNCHANGED table
        \/ Told(c, None) /\ UNCHANGED table
        \/ /\ Write(c, t, [on EXCEPT !.known = Pushed(@, e.name, bib),
                                     !.next = IF bib = e.bib THEN @ ELSE @ + 1])
           /\ lastPerson' = n
    BY DEF SyncParticipant
  <2> QED
    BY <2>1, <1>6, <1>7, <1>8

LEMMA AnswersEnd ==
  ASSUME DeskInv, NEW c \in Desk,
         BeginSync(c) \/ EndSync(c) \/ CallFails(c) \/ Refresh(c)
  PROVE  DeskInv'
<1> DEFINE r == desk[c]
<1>1. r # None
  BY DEF BeginSync, EndSync, CallFails, Refresh, Answer, ListParticipants, SetParticipants, At
<1>2. /\ r \in DeskCall /\ CallHolds(r, people, lastPerson) /\ people \in People
      /\ CallsHold(desk, people, lastPerson)
  BY <1>1, CallIs, DeskIs
<1>3. CASE BeginSync(c)
  <2>1. [r EXCEPT !.phase = "sent"] \in DeskCall
        /\ CallHolds([r EXCEPT !.phase = "sent"], people, lastPerson)
    BY <1>2, <1>3, PhaseHolds DEF BeginSync, At
  <2> QED
    BY <2>1, <1>3, AnsweredKeeps DEF BeginSync
<1>4. CASE EndSync(c)
  <2>1. Written(c) \in DeskCall /\ CallHolds(Written(c), people, lastPerson)
    BY <1>2, PhaseHolds DEF Written
  <2> QED
    BY <2>1, <1>4, AnsweredKeeps DEF EndSync
<1>5. CASE CallFails(c)
  <2>1. CallsHold(desk', people, lastPerson) /\ steps' \in 0 .. MaxSteps
    BY <1>2, <1>5, ToldKeeps, StepCounts DEF CallFails
  <2>2. /\ UNCHANGED table /\ shown' = shown /\ screen' = screen /\ panel' = panel /\ edit' = edit
    BY <1>5 DEF CallFails, page
  <2> QED
    BY <2>1, <2>2, DeskIs, DeskKeeps
<1>6. CASE Answer(c)
  <2> DEFINE d == IF screen' = screen THEN desk ELSE Unmounted
  <2>1. CallsHold(d, people, lastPerson)
    BY <1>2, UnmountedHolds
  <2>2. d[c] # None => d[c] \in DeskCall /\ CallHolds(d[c], people, lastPerson)
    BY <2>1 DEF CallsHold
  <2>3. d[c] \in DeskCall /\ CallHolds(d[c], people, lastPerson)
    <3>1. CASE screen' = screen
      BY <3>1, <1>2
    <3>2. CASE screen' # screen
      <4>1. d[c] = [desk[c] EXCEPT !.here = FALSE]
        BY <3>2, <1>1 DEF Unmounted
      <4> DEFINE q == [desk[c] EXCEPT !.here = FALSE]
      <4>2. /\ q \in DeskCall /\ q.op = r.op /\ q.id = r.id /\ q.phase = r.phase /\ q.list = r.list
            /\ q.next = r.next /\ q.replace = r.replace /\ q.known = r.known /\ q.clean = r.clean
        BY <1>2 DEF DeskCall
      <4> HIDE DEF q
      <4>3. CallHolds(q, people, lastPerson)
        BY <4>2, <1>2 DEF CallHolds
      <4> QED
        BY <4>1, <4>2, <4>3 DEF q
    <3> QED
      BY <3>1, <3>2
  <2>4. desk' = [d EXCEPT ![c].phase = "refresh"]
    BY <1>6, Zenon DEF Answer
  <2> HIDE DEF d
  <2>5. [d[c] EXCEPT !.phase = "refresh"] \in DeskCall
        /\ CallHolds([d[c] EXCEPT !.phase = "refresh"], people, lastPerson)
    BY <2>3, PhaseHolds
  <2> DEFINE q == [d[c] EXCEPT !.phase = "refresh"]
  <2>6. desk' = [d EXCEPT ![c] = q]
    BY <2>4
  <2> HIDE DEF q
  <2>7. CallsHold(desk', people, lastPerson)
    <3>1. /\ d \in [Desk -> DeskCall \cup {None}] /\ q \in DeskCall
          /\ CallHolds(q, people, lastPerson)
          /\ \A x \in Desk : d[x] # None => CallHolds(d[x], people, lastPerson)
      BY <2>1, <2>5 DEF CallsHold, q
    <3>2. desk' \in [Desk -> DeskCall \cup {None}] /\ desk'[c] = q
          /\ \A x \in Desk : x # c => desk'[x] = d[x]
      BY <3>1, <2>6
    <3> QED
      BY <3>1, <3>2 DEF CallsHold
  <2>8. UNCHANGED table /\ shown' = shown /\ steps' = steps /\ screen' \in {"list", "csv"}
        /\ panel' \in BOOLEAN
    <3>1. screen' \in {screen, "list"}
      BY <1>6 DEF Answer
    <3> QED
      BY <3>1, <1>6, DeskIs DEF Answer
  <2>9. edit' \in [id : 0 .. MaxId, now : Person] \cup {None}
    <3>1. edit \in [id : 0 .. MaxId, now : Person] \cup {None} /\ Blank \in Person
      BY DeskIs, ParticipantAssumption DEF Blank, Person, Bib
    <3>2. edit # None => [edit EXCEPT !.now = Blank] \in [id : 0 .. MaxId, now : Person]
      BY <3>1
    <3>3. edit' \in {None, edit} \/ (edit # None /\ edit' = [edit EXCEPT !.now = Blank])
      BY <1>6 DEF Answer
    <3> QED
      BY <3>1, <3>2, <3>3
  <2> QED
    BY <2>7, <2>8, <2>9, DeskIs, DeskKeeps
<1>7. CASE ListParticipants(c)
  <2> DEFINE q == [r EXCEPT !.phase = "arriving", !.list = people]
  <2>1. Told(c, q) /\ r.phase = "refresh"
    BY <1>7 DEF ListParticipants
  <2>2. /\ q \in DeskCall /\ q.op = r.op /\ q.id = r.id /\ q.phase = "arriving" /\ q.list = people
        /\ q.next = r.next
    BY <1>2 DEF DeskCall, DeskPhase
  <2> HIDE DEF q
  <2>3. CallHolds(q, people, lastPerson)
    BY <2>2, <1>2 DEF CallHolds
  <2> QED
    BY <2>1, <2>2, <2>3, <1>7, AnsweredKeeps DEF ListParticipants
<1>8. CASE SetParticipants(c)
  <2>1. r.list \in People
    BY <1>2, <1>8 DEF SetParticipants, CallHolds
  <2>2. CallsHold(desk', people, lastPerson)
    BY <1>2, <1>8, ToldKeeps DEF SetParticipants
  <2>3. UNCHANGED table /\ shown' = r.list /\ screen' = screen /\ panel' = panel /\ edit' = edit
        /\ steps' = steps
    BY <1>8 DEF SetParticipants, page
  <2> QED
    BY <2>1, <2>2, <2>3, DeskIs, DeskKeeps
<1> QED
  BY <1>3, <1>4, <1>5, <1>6, <1>7, <1>8 DEF Refresh

LEMMA ParticipantsInitHolds == ParticipantsInit => DeskInv
<1> SUFFICES ASSUME ParticipantsInit PROVE DeskInv
  OBVIOUS
<1>1. MaxId \in Nat /\ MaxSteps \in Nat /\ Typed \subseteq Bib
  BY ParticipantAssumption
<1>2. people \in People
  <2>1. people \in [PersonId -> {None} \cup [name : Name, bib : Typed, in : {FALSE}]]
    BY DEF ParticipantsInit
  <2> QED
    BY <2>1, <1>1 DEF People, Person
<1>3. lastPerson \in 0 .. MaxId /\ Behind(people, lastPerson)
  <2>1. lastPerson \in 0 .. 2 /\ Present(people) = 1 .. lastPerson
    BY DEF ParticipantsInit
  <2>2. Present(people) \subseteq 1 .. MaxId
    BY DEF Present, PersonId
  <2>3. lastPerson > 0 => lastPerson \in 1 .. MaxId
    BY <2>1, <2>2
  <2>4. \A i \in PersonId : i > lastPerson => i \notin Present(people)
    BY <2>1 DEF PersonId
  <2> QED
    BY <1>1, <2>1, <2>3, <2>4 DEF Behind, Present
<1>4. CallsHold(desk, people, lastPerson) /\ desk \in [Desk -> DeskCall \cup {None}]
  BY DEF ParticipantsInit, CallsHold
<1>5. /\ shown \in People /\ screen \in {"list", "csv"} /\ panel \in BOOLEAN /\ edit = None
      /\ steps \in 0 .. MaxSteps
  <2>1. /\ shown = people /\ screen = "list" /\ edit = None /\ panel = FALSE /\ steps = 0
    BY DEF ParticipantsInit
  <2>2. 0 \in 0 .. MaxSteps
    BY <1>1
  <2> QED
    BY <2>1, <2>2, <1>2
<1> QED
  BY <1>2, <1>3, <1>4, <1>5 DEF DeskInv, ParticipantsTypeOK

LEMMA ParticipantsNextKeeps == DeskInv /\ [ParticipantsNext]_deskVars => DeskInv'
<1> SUFFICES ASSUME DeskInv, [ParticipantsNext]_deskVars PROVE DeskInv'
  OBVIOUS
<1>1. ASSUME UNCHANGED deskVars PROVE DeskInv'
  BY <1>1 DEF deskVars, DeskInv, ParticipantsTypeOK, Behind, CallsHold
<1>2. ASSUME NEW c \in Desk, ParticipantRow(c) PROVE DeskInv'
  BY <1>2, ButtonsKeep, FormsKeep DEF ParticipantRow
<1>3. ASSUME NEW c \in Desk, ParticipantHeader(c) PROVE DeskInv'
  <2>1. ASSUME HandleDeleteAllParticipants(c) \/ HandleClearAllBibs(c) PROVE DeskInv'
    <3>1. \E i \in PersonId : i \in Present(shown)
      BY <2>1 DEF HandleDeleteAllParticipants, HandleClearAllBibs, Present, Bibs
    <3> QED
      BY <3>1, <2>1, ButtonsKeep
  <2> QED
    BY <1>3, <2>1, BulkKeeps, FormsKeep, ViewsKeep DEF ParticipantHeader
<1>4. ASSUME NEW c \in Desk, Imports(c) PROVE DeskInv'
  BY <1>4, FileCallKeeps, RosterCallKeeps DEF Imports
<1>5. ASSUME NEW c \in Desk, Service(c) PROVE DeskInv'
  BY <1>5, ExecuteKeeps, AddKeeps, ReadKeeps, ReassignKeeps, ImportKeeps DEF Service
<1>6. ASSUME NEW c \in Desk, Sync(c) PROVE DeskInv'
  BY <1>6, AnswersEnd, DeleteFirstKeeps, SyncKeeps DEF Sync
<1> QED
  BY <1>1, <1>2, <1>3, <1>4, <1>5, <1>6, FormsKeep, AnswersEnd DEF ParticipantsNext

(* The table, the screens over it and every call under way keep their      *)
(* shape: a bib is free for every entry of a file, a list that is shown    *)
(* was read, and no row is written where one was.                          *)
THEOREM ParticipantsAreWellFormed == ParticipantsSpec => []ParticipantsTypeOK
<1>1. DeskInv => ParticipantsTypeOK
  BY DEF DeskInv
<1> QED
  BY <1>1, ParticipantsInitHolds, ParticipantsNextKeeps, PTL DEF ParticipantsSpec

-----------------------------------------------------------------------------
(* Nobody is imported twice *)

(* Who writes the table, and how.                                          *)
LEMMA WritersAre ==
  ASSUME ParticipantsNext, people' # people
  PROVE  \E d \in Desk : /\ Service(d) \/ DeleteFirst(d) \/ SyncParticipant(d)
                         /\ \E t, r : Write(d, t, r)
<1>1. PICK d \in Desk :
        \/ ParticipantRow(d) \/ ParticipantForm(d) \/ ParticipantHeader(d) \/ Imports(d)
        \/ Service(d) \/ Sync(d) \/ Refresh(d) \/ CallFails(d)
  BY DEF ParticipantsNext
<1>2. ~ParticipantRow(d)
  BY DEF ParticipantRow, HandleToggleCheckIn, HandleDeletePerson, HandleEdit, Call, table
<1>3. ~ParticipantForm(d)
  BY DEF ParticipantForm, HandleStartAddParticipant, HandleCancelForm, FillForm,
         HandleSubmitForm, Call, table
<1>4. ~ParticipantHeader(d)
  BY DEF ParticipantHeader, HandleDeleteAllParticipants, HandleClearAllBibs, BulkBibs,
         ToggleRSUImport, SetView, Call, table
<1>5. ~Imports(d)
  BY DEF Imports, HandleImport, HandleRSUImportAction, Call, table
<1>6. ~Refresh(d) /\ ~CallFails(d) /\ ~BeginSync(d) /\ ~EndSync(d) /\ ~Read(d)
  BY DEF Refresh, Answer, ListParticipants, SetParticipants, CallFails, BeginSync, EndSync, Read, table
<1>7. Service(d) \/ DeleteFirst(d) \/ SyncParticipant(d)
  BY <1>1, <1>2, <1>3, <1>4, <1>5, <1>6 DEF Sync
<1>8. ASSUME Execute(d) PROVE \E t, r : Write(d, t, r)
  BY <1>8, Zenon DEF Execute
<1>9. ASSUME AddParticipant(d) PROVE \E t, r : Write(d, t, r)
  BY <1>9, Zenon DEF AddParticipant, table
<1>10. ASSUME ReassignBibs(d) PROVE \E t, r : Write(d, t, r)
  BY <1>10, Zenon DEF ReassignBibs
<1>11. ASSUME ImportParticipants(d) PROVE \E t, r : Write(d, t, r)
  BY <1>11, Zenon DEF ImportParticipants
<1>12. ASSUME DeleteFirst(d) PROVE \E t, r : Write(d, t, r)
  BY <1>12, Zenon DEF DeleteFirst
<1>13. ASSUME SyncParticipant(d) PROVE \E t, r : Write(d, t, r)
  BY <1>13, Zenon DEF SyncParticipant, table
<1> QED
  BY <1>6, <1>7, <1>8, <1>9, <1>10, <1>11, <1>12, <1>13 DEF Service

LEMMA OthersAreOnlyStale ==
  ASSUME DeskInv, NEW c \in Desk, desk[c] # None, NEW d \in Desk, d # c,
         NEW t, NEW r, Write(d, t, r)
  PROVE  desk'[c] = [desk[c] EXCEPT !.clean = @ /\ t = people]
  BY DEF Write

LEMMA SyncAddsOnce ==
  ASSUME DeskInv, [ParticipantsNext]_deskVars, NEW c \in Desk,
         At(c, "rsu", "sent"), desk[c].clean, people' # people,
         desk[c].todo # <<>>, desk'[c] # None, desk'[c].todo = Tail(desk[c].todo),
         NEW i \in Present(people)
  PROVE  IF Head(desk[c].todo).bib # 0
         THEN people[i].bib # Head(desk[c].todo).bib
         ELSE people[i].name # Head(desk[c].todo).name
<1> DEFINE x == desk[c]
           e == Head(x.todo)
<1>1. x # None /\ x.op = "rsu" /\ x.phase = "sent"
  BY DEF At
<1>2. x \in DeskCall /\ CallHolds(x, people, lastPerson) /\ x.todo \in Seq(Entry)
  BY <1>1, CallIs
<1>3. Tail(x.todo) # x.todo
  <2> DEFINE y == Tail(x.todo)
             z == x.todo
  <2>1. Len(y) = Len(z) - 1 /\ Len(z) \in Nat
    BY <1>2
  <2> HIDE DEF y, z
  <2>2. y # z
    BY <2>1
  <2> QED
    BY <2>2 DEF y, z
<1>4. ParticipantsNext
  BY DEF deskVars
<1>5. PICK d \in Desk : /\ Service(d) \/ DeleteFirst(d) \/ SyncParticipant(d)
                        /\ \E t, r : Write(d, t, r)
  BY <1>4, WritersAre
<1>6. d = c
  <2> SUFFICES ASSUME d # c PROVE FALSE
    OBVIOUS
  <2>1. PICK t, r : Write(d, t, r)
    BY <1>5
  <2>2. desk'[c] = [x EXCEPT !.clean = @ /\ t = people]
    BY <1>1, <2>1, OthersAreOnlyStale
  <2>3. desk'[c].todo = x.todo
    BY <2>2, <1>2 DEF DeskCall
  <2> QED
    BY <2>3, <1>3
<1>7. ~Service(c)
  BY <1>1 DEF Service, Execute, AddParticipant, Read, ReassignBibs, ImportParticipants, At
<1>8. ~DeleteFirst(c)
  <2> SUFFICES ASSUME DeleteFirst(c) PROVE FALSE
    OBVIOUS
  <2>1. desk'[c] = [x EXCEPT !.replace = FALSE, !.clean = TRUE]
    BY DEF DeleteFirst, Write
  <2>2. desk'[c].todo = x.todo
    BY <2>1, <1>2 DEF DeskCall
  <2> QED
    BY <2>2, <1>3
<1>9. SyncParticipant(c)
  BY <1>5, <1>6, <1>7, <1>8
<1>10. ~x.replace /\ ~IsDup(e, x.known)
  BY <1>9, Zenon DEF SyncParticipant, table
<1>11. [name |-> people[i].name, bib |-> people[i].bib] \in x.known
  BY <1>1, <1>2, <1>10 DEF CallHolds
<1> QED
  BY <1>10, <1>11 DEF IsDup

(* Whatever else the operator does meanwhile, an import from RunSignUp     *)
(* adds nobody who is there, and nobody its own roster lists twice.        *)
THEOREM ImportsAddOnce == ParticipantsSpec => ImportOnce
<1>1. DeskInv /\ [ParticipantsNext]_deskVars =>
        [\A c \in Desk :
           At(c, "rsu", "sent") /\ desk[c].clean /\ people' # people
             /\ desk[c].todo # <<>> /\ desk'[c] # None /\ desk'[c].todo = Tail(desk[c].todo)
           => \A i \in Present(people) :
                IF Head(desk[c].todo).bib # 0
                THEN people[i].bib # Head(desk[c].todo).bib
                ELSE people[i].name # Head(desk[c].todo).name]_deskVars
  BY SyncAddsOnce
<1> QED
  BY <1>1, ParticipantsInitHolds, ParticipantsNextKeeps, PTL DEF ParticipantsSpec, ImportOnce

-----------------------------------------------------------------------------
(* The office *)

LEMMA OfficeNext ==
  [MCNext]_mcVars => [ParticipantsNext]_deskVars /\ [ResultsNext]_resultsVars
<1>1. MCNext => [ParticipantsNext]_deskVars /\ [ResultsNext]_resultsVars
  BY DEF MCNext
<1>2. UNCHANGED mcVars => UNCHANGED deskVars /\ UNCHANGED resultsVars
  BY DEF mcVars
<1> QED
  BY <1>1, <1>2

(* Participants and results side by side are well formed.                  *)
THEOREM OfficeIsWellFormed == MCSpec => []OfficeTypeOK
<1> DEFINE Inv == DeskInv /\ ResultsInv
<1>1. MCInit => Inv
  BY ParticipantsInitHolds, ResultsInitHolds DEF MCInit
<1>2. Inv /\ [MCNext]_mcVars => Inv'
  BY OfficeNext, ParticipantsNextKeeps, ResultsNextKeeps
<1>3. Inv => OfficeTypeOK
  BY DEF OfficeTypeOK, DeskInv, ResultsInv
<1> QED
  BY <1>1, <1>2, <1>3, PTL DEF MCSpec

(* App.tsx:248-268: side by side they are what each is alone, so what is   *)
(* proved of the participants and of the boards holds of the office.       *)
THEOREM OfficeKeepsApart ==
  MCSpec => ParticipantsSpec /\ ResultsInit /\ [][ResultsNext]_resultsVars
<1>1. MCInit => ParticipantsInit /\ ResultsInit
  BY DEF MCInit
<1> QED
  BY <1>1, OfficeNext, PTL DEF MCSpec, ParticipantsSpec

-----------------------------------------------------------------------------
(* A file is imported whole *)

(* An entry with a name whose bib nobody has gets a row of its own.        *)
LEMMA EntryGetsRow ==
  ASSUME NEW t \in SUBSET Bib, IsFiniteSet(t), Cardinality(t) <= MaxId,
         NEW s \in Bib, s > 0 => s + 2 * MaxId <= MaxBib,
         NEW a, ImportInv(t, s, a), a.last < MaxId, NEW e \in Entry,
         a.taken = Bibs(a.people), e.name # None, e.bib # 0 => e.bib \notin a.taken
  PROVE  /\ ImportEntry(a, e).people = [a.people EXCEPT ![a.last + 1] = RowFor(a, e)]
         /\ ImportEntry(a, e).last = a.last + 1
         /\ ImportEntry(a, e).taken = Bibs(ImportEntry(a, e).people)
         /\ ImportEntry(a, e).taken = a.taken \cup ({BibFor(a, e)} \ {0})
         /\ RowFor(a, e) \in Person
         /\ e.bib # 0 \/ s = 0 => BibFor(a, e) = e.bib
         /\ e.bib = 0 /\ s > 0 => BibFor(a, e) >= s
<1> DEFINE bib == BibFor(a, e)
           row == RowFor(a, e)
           n2 == IF GetsNumber(a, e) THEN bib + 1 ELSE a.next
           l2 == a.last + 1
           t2 == a.taken \cup ({bib} \ {0})
           q == [a.people EXCEPT ![a.last + 1] = row]
           on == [a EXCEPT !.next = IF GetsNumber(a, e) THEN bib + 1 ELSE @]
           added == [on EXCEPT !.people = [@ EXCEPT ![a.last + 1] = row],
                               !.last = @ + 1, !.taken = @ \cup ({bib} \ {0})]
<1>1. /\ MaxId \in Nat /\ MaxBib \in Nat /\ s \in Nat
      /\ a \in Acc /\ a.people \in People /\ a.last \in Nat /\ a.next \in Nat
      /\ e.bib \in Bib /\ e.name \in Name \cup {None}
  BY ParticipantAssumption DEF ImportInv, Acc, Bib, Entry
<1>2. /\ bib \in Bib /\ bib \in Nat
      /\ GetsNumber(a, e) => s > 0 /\ s <= a.next /\ bib \in a.next .. MaxBib /\ bib \notin a.taken
  BY ChosenBib
<1>3. bib # 0 => bib \notin a.taken
  BY <1>2 DEF BibFor
<1>4. ~Refused(a.people, 0, bib)
  <2>1. Refused(a.people, 0, bib) => bib # 0 /\ bib \in Bibs(a.people)
    BY DEF Refused, Bibs
  <2> HIDE DEF bib
  <2> QED
    BY <2>1, <1>3
<1>5. ImportEntry(a, e) = added
  <2>1. ImportEntry(a, e) = IF e.name = None \/ (e.bib # 0 /\ e.bib \in a.taken) THEN a
                           ELSE IF Refused(a.people, 0, bib) THEN on ELSE added
    BY Zenon DEF ImportEntry, RowFor, BibFor, GetsNumber
  <2> HIDE DEF on, added, bib
  <2> QED
    BY <2>1, <1>4, Zenon
<1> HIDE DEF bib
<1>6. on.people = a.people /\ on.last = a.last /\ on.next = n2 /\ on.taken = a.taken
      /\ on = [people |-> a.people, last |-> a.last, next |-> n2, taken |-> a.taken]
  BY <1>1 DEF Acc
<1>7. added = [on EXCEPT !.people = q, !.last = l2, !.taken = t2]
  <2> HIDE DEF on, n2
  <2> QED
    BY <1>6, Zenon
<1> HIDE DEF on, added, row
<1>8. added.people = q /\ added.last = a.last + 1 /\ added.taken = t2
  <2> HIDE DEF n2, q, t2
  <2>1. added.people = q /\ added.last = l2 /\ added.taken = t2
    <3> HIDE DEF l2
    <3> QED
      BY <1>6, <1>7
  <2> QED
    BY <2>1
<1>9. row \in Person /\ row.bib = bib
  BY <1>1, <1>2 DEF row, RowFor, Person, bib
<1>10. Bibs(q) = Bibs(a.people) \cup ({bib} \ {0})
  <2>1. a.last + 1 \in PersonId /\ a.people[a.last + 1] = None
    BY <1>1 DEF PersonId, ImportInv, Behind
  <2> QED
    BY <2>1, <1>1, <1>9, NewRowsBib
<1>11. e.bib # 0 \/ s = 0 => bib = e.bib
  <2>1. s = 0 => a.next = 0
    BY DEF ImportInv
  <2> QED
    BY <2>1, <1>1 DEF bib, BibFor, GetsNumber
<1>12. e.bib = 0 /\ s > 0 => bib >= s
  <2>1. e.bib = 0 /\ s > 0 => GetsNumber(a, e)
    BY <1>1 DEF ImportInv, GetsNumber
  <2> QED
    BY <2>1, <1>1, <1>2
<1> QED
  BY <1>5, <1>8, <1>9, <1>10, <1>11, <1>12 DEF bib, row

LEMMA EntryIsSkipped ==
  ASSUME NEW a, NEW e, e.name = None \/ (e.bib # 0 /\ e.bib \in a.taken)
  PROVE  ImportEntry(a, e) = a
  BY Zenon DEF ImportEntry

(* The entries that are to be there afterwards, and that one is.           *)
Wanted(file, old) ==
  {k \in DOMAIN file :
     /\ file[k].name # None
     /\ file[k].bib # 0 => /\ file[k].bib \notin Bibs(old)
                           /\ \A j \in 1 .. k - 1 : file[j].name # None =>
                                file[j].bib # file[k].bib}
UpTo(w, k) == {j \in w : j <= k}
Entered(p, e, s) ==
  /\ p # None /\ p.name = e.name
  /\ e.bib # 0 \/ s = 0 => p.bib = e.bib
  /\ e.bib = 0 /\ s > 0 => p.bib >= s

(* What the import has done after k entries, from a table old whose last   *)
(* row was l: it has the wanted ones in their order, and knows as taken    *)
(* the bibs of the table, of the named entries, and those it assigned.     *)
FileInv(file, old, s, l, k, a) ==
  /\ a.last = l + Cardinality(UpTo(Wanted(file, old), k))
  /\ \A i \in 1 .. l : a.people[i] = old[i]
  /\ \A j \in UpTo(Wanted(file, old), k) :
       Entered(a.people[l + Cardinality(UpTo(Wanted(file, old), j))], file[j], s)
  /\ a.taken = Bibs(a.people) /\ Bibs(old) \subseteq a.taken
  /\ \A j \in 1 .. k : file[j].name # None /\ file[j].bib # 0 => file[j].bib \in a.taken
  /\ \A b \in a.taken : \/ b \in Bibs(old) \/ (s > 0 /\ b >= s)
                        \/ \E j \in 1 .. k : file[j].name # None /\ file[j].bib = b

LEMMA WantedCounts ==
  ASSUME NEW file \in Seq(Entry), NEW old, NEW k \in 0 .. Len(file)
  PROVE  LET w == Wanted(file, old)
         IN /\ IsFiniteSet(UpTo(w, k)) /\ Cardinality(UpTo(w, k)) \in Nat
            /\ k = 0 => Cardinality(UpTo(w, k)) = 0
            /\ k > 0 /\ k \notin w => UpTo(w, k) = UpTo(w, k - 1)
            /\ k \in w => /\ UpTo(w, k) = UpTo(w, k - 1) \cup {k}
                          /\ Cardinality(UpTo(w, k)) = Cardinality(UpTo(w, k - 1)) + 1
            /\ \A j \in UpTo(w, k) : Cardinality(UpTo(w, j)) <= Cardinality(UpTo(w, k))
<1> DEFINE w == Wanted(file, old)
<1>1. /\ w \subseteq 1 .. Len(file) /\ Len(file) \in Nat /\ k \in Nat
      /\ \A j \in w : j \in Nat /\ j >= 1
  <2>1. w \subseteq 1 .. Len(file) /\ Len(file) \in Nat
    BY DEF Wanted
  <2> HIDE DEF w
  <2> QED
    BY <2>1
<1> HIDE DEF w
<1>0. /\ \A j \in w : j <= 0 => FALSE
      /\ \A j \in w : j <= k <=> j <= k - 1 \/ j = k
      /\ ~(k <= k - 1)
  BY <1>1
<1>2. IsFiniteSet(1 .. Len(file))
  BY <1>1, FS_Interval, 1 \in Int, Len(file) \in Int
<1>3. IsFiniteSet(w)
  BY <1>1, <1>2, FS_Subset
<1>4. ASSUME NEW j \in Int PROVE IsFiniteSet(UpTo(w, j)) /\ Cardinality(UpTo(w, j)) \in Nat
  <2>1. UpTo(w, j) \in SUBSET w
    BY DEF UpTo
  <2> QED
    BY <2>1, <1>3, FS_Subset, FS_CardinalityType
<1>5. k = 0 => Cardinality(UpTo(w, k)) = 0
  <2>1. k = 0 => UpTo(w, k) = {}
    BY <1>0, Zenon DEF UpTo
  <2> QED
    BY <2>1, FS_EmptySet
<1>6. k > 0 /\ k \notin w => UpTo(w, k) = UpTo(w, k - 1)
  <2>1. k \notin w => \A j : j \in UpTo(w, k) <=> j \in UpTo(w, k - 1)
    BY <1>0, Zenon DEF UpTo
  <2> QED
    BY <2>1, Zenon
<1>7. k \in w => UpTo(w, k) = UpTo(w, k - 1) \cup {k} /\ k \notin UpTo(w, k - 1)
  <2>1. k \notin UpTo(w, k - 1)
    BY <1>0, Zenon DEF UpTo
  <2>2. k \in w => \A j : j \in UpTo(w, k) <=> j \in UpTo(w, k - 1) \cup {k}
    BY <1>0, Zenon DEF UpTo
  <2> QED
    BY <2>1, <2>2, Zenon
<1>8. k \in w => Cardinality(UpTo(w, k)) = Cardinality(UpTo(w, k - 1)) + 1
  <2>1. IsFiniteSet(UpTo(w, k - 1))
    BY <1>1, <1>4
  <2> QED
    BY <2>1, <1>7, FS_AddElement
<1>9. ASSUME NEW j \in UpTo(w, k) PROVE Cardinality(UpTo(w, j)) <= Cardinality(UpTo(w, k))
  <2>1. j \in Nat /\ j <= k
    BY <1>1 DEF UpTo
  <2>2. UpTo(w, j) \in SUBSET UpTo(w, k)
    <3>1. \A x \in w : x <= j => x <= k
      BY <1>1, <2>1
    <3> QED
      BY <3>1, Zenon DEF UpTo
  <2>3. IsFiniteSet(UpTo(w, k))
    BY <1>1, <1>4
  <2> QED
    BY <2>2, <2>3, FS_Subset
<1> QED
  BY <1>1, <1>4, <1>5, <1>6, <1>7, <1>8, <1>9 DEF w

LEMMA FileInvSteps ==
  ASSUME NEW t \in SUBSET Bib, IsFiniteSet(t), Cardinality(t) <= MaxId,
         NEW s \in Bib, s > 0 => s + 2 * MaxId <= MaxBib,
         NEW file \in Seq(Entry), s > 0 => \A j \in DOMAIN file : file[j].bib < s,
         NEW old, NEW l \in Nat, NEW k \in 1 .. Len(file),
         NEW a, ImportInv(t, s, a), a.last < MaxId, FileInv(file, old, s, l, k - 1, a)
  PROVE  FileInv(file, old, s, l, k, ImportEntry(a, file[k]))
<1> DEFINE e == file[k]
           w == Wanted(file, old)
           C(j) == Cardinality(UpTo(w, j))
           d == ImportEntry(a, e)
<1>1. /\ e \in Entry /\ k \in DOMAIN file /\ k \in 0 .. Len(file) /\ k - 1 \in 0 .. Len(file) /\ k \in Nat
      /\ e.bib \in Nat /\ s \in Nat /\ \A j \in 1 .. k - 1 : j \in DOMAIN file /\ j \in 1 .. k
  <2>1. e \in Entry /\ MaxBib \in Nat
    BY ParticipantAssumption
  <2>2. e.bib \in Nat /\ s \in Nat
    BY <2>1 DEF Entry, Bib
  <2> QED
    BY <2>1, <2>2
<1>2. /\ C(k) \in Nat /\ C(k - 1) \in Nat
      /\ k \notin w => UpTo(w, k) = UpTo(w, k - 1)
      /\ k \in w => UpTo(w, k) = UpTo(w, k - 1) \cup {k} /\ C(k) = C(k - 1) + 1
      /\ \A j \in UpTo(w, k - 1) : C(j) <= C(k - 1)
  BY <1>1, WantedCounts
<1>3. /\ a.last = l + C(k - 1) /\ a.last \in Nat
      /\ \A i \in 1 .. l : a.people[i] = old[i]
      /\ \A j \in UpTo(w, k - 1) : Entered(a.people[l + C(j)], file[j], s)
      /\ a.taken = Bibs(a.people) /\ Bibs(old) \subseteq a.taken
      /\ \A j \in 1 .. k - 1 : file[j].name # None /\ file[j].bib # 0 => file[j].bib \in a.taken
      /\ \A b \in a.taken : \/ b \in Bibs(old) \/ (s > 0 /\ b >= s)
                            \/ \E j \in 1 .. k - 1 : file[j].name # None /\ file[j].bib = b
  BY <1>2 DEF FileInv
<1>4. k \in w <=> e.name # None /\ (e.bib # 0 => e.bib \notin a.taken)
  <2>1. k \in w <=> /\ e.name # None
                    /\ e.bib # 0 => /\ e.bib \notin Bibs(old)
                                    /\ \A j \in 1 .. k - 1 : file[j].name # None => file[j].bib # e.bib
    BY <1>1 DEF Wanted
  <2>2. ASSUME e.bib # 0, e.bib \in a.taken, e.bib \notin Bibs(old)
        PROVE  \E j \in 1 .. k - 1 : file[j].name # None /\ file[j].bib = e.bib
    <3>1. ~(s > 0 /\ e.bib >= s)
      BY <1>1
    <3> QED
      BY <3>1, <2>2, <1>3
  <2>3. ASSUME e.bib # 0, e.bib \notin a.taken
        PROVE  /\ e.bib \notin Bibs(old)
               /\ \A j \in 1 .. k - 1 : file[j].name # None => file[j].bib # e.bib
    BY <2>3, <1>3
  <2> QED
    BY <2>1, <2>2, <2>3
<1> HIDE DEF w
<1>5. CASE k \notin w
  <2>1. d = a
    BY <1>4, <1>5, EntryIsSkipped
  <2>2. C(k) = C(k - 1) /\ UpTo(w, k) = UpTo(w, k - 1)
    BY <1>2, <1>5
  <2>3. \A j \in 1 .. k : file[j].name # None /\ file[j].bib # 0 => file[j].bib \in a.taken
    <3> TAKE j \in 1 .. k
    <3>1. j \in 1 .. k - 1 \/ j = k
      BY <1>1
    <3> QED
      BY <3>1, <1>3, <1>4, <1>5
  <2>4. \A b \in a.taken : \/ b \in Bibs(old) \/ (s > 0 /\ b >= s)
                           \/ \E j \in 1 .. k : file[j].name # None /\ file[j].bib = b
    BY <1>1, <1>3
  <2> HIDE DEF d
  <2> QED
    BY <2>1, <2>2, <2>3, <2>4, <1>3, Zenon DEF FileInv, w, d
<1>6. CASE k \in w
  <2> DEFINE bib == BibFor(a, e)
             row == RowFor(a, e)
             n == a.last + 1
  <2>1. /\ d.people = [a.people EXCEPT ![n] = row] /\ d.last = n
        /\ d.taken = Bibs(d.people) /\ d.taken = a.taken \cup ({bib} \ {0})
        /\ row \in Person
        /\ e.bib # 0 \/ s = 0 => bib = e.bib
        /\ e.bib = 0 /\ s > 0 => bib >= s
    BY <1>1, <1>3, <1>4, <1>6, EntryGetsRow
  <2>2. row.name = e.name /\ row.bib = bib /\ row # None
    BY <2>1, ParticipantAssumption DEF RowFor
  <2> HIDE DEF bib, row, d
  <2>3. n = l + C(k)
    BY <1>2, <1>3, <1>6
  <2>4. a.people \in People /\ n \in PersonId /\ MaxId \in Nat
    BY <1>3, ParticipantAssumption DEF ImportInv, Acc, PersonId
  <2>5. d.people[n] = row /\ \A i : i \in PersonId /\ i # n => d.people[i] = a.people[i]
    BY <2>1, <2>4 DEF People
  <2>6. \A i \in 1 .. l : d.people[i] = old[i]
    <3> TAKE i \in 1 .. l
    <3>1. i \in PersonId /\ i # n
      BY <2>4, <1>2, <1>3 DEF PersonId
    <3> QED
      BY <3>1, <2>5, <1>3
  <2>7. ASSUME NEW j \in UpTo(w, k) PROVE Entered(d.people[l + C(j)], file[j], s)
    <3>1. CASE j = k
      <4>1. d.people[l + C(j)] = row
        BY <3>1, <2>3, <2>5
      <4>2. Entered(row, e, s)
        BY <2>1, <2>2 DEF Entered
      <4> QED
        BY <4>1, <4>2, <3>1
    <3>2. CASE j # k
      <4>1. j \in UpTo(w, k - 1)
        BY <3>2, <2>7, <1>2, <1>6
      <4>2. j \in 0 .. Len(file) /\ j \in w
        BY <4>1 DEF UpTo, w, Wanted
      <4>3. C(j) \in Nat /\ C(j) >= 1
        <5>1. C(j) \in Nat /\ C(j) = C(j - 1) + 1
          BY <4>2, WantedCounts DEF w
        <5>2. j - 1 \in 0 .. Len(file)
          BY <4>2 DEF w, Wanted
        <5>3. C(j - 1) \in Nat
          BY <5>2, WantedCounts DEF w
        <5> HIDE DEF C
        <5> QED
          BY <5>1, <5>3
      <4>4. C(j) <= C(k - 1)
        BY <4>1, <1>2
      <4> HIDE DEF C
      <4>5. l + C(j) \in PersonId /\ l + C(j) # n
        BY <4>3, <4>4, <1>2, <1>3, <2>4 DEF PersonId
      <4>6. d.people[l + C(j)] = a.people[l + C(j)]
        BY <4>5, <2>5
      <4> QED
        BY <4>1, <4>6, <1>3
    <3> QED
      BY <3>1, <3>2
  <2>8. d.last = l + C(k) /\ d.taken = Bibs(d.people) /\ Bibs(old) \subseteq d.taken
    BY <2>1, <2>3, <1>3
  <2>9. \A j \in 1 .. k : file[j].name # None /\ file[j].bib # 0 => file[j].bib \in d.taken
    <3> TAKE j \in 1 .. k
    <3>1. j \in 1 .. k - 1 \/ j = k
      BY <1>1
    <3>2. e.bib # 0 => e.bib \in d.taken
      BY <2>1
    <3> QED
      BY <3>1, <3>2, <2>1, <1>3
  <2>10. \A b \in d.taken : \/ b \in Bibs(old) \/ (s > 0 /\ b >= s)
                            \/ \E j \in 1 .. k : file[j].name # None /\ file[j].bib = b
    <3> TAKE b \in d.taken
    <3>1. b \in a.taken \/ (b = bib /\ b # 0)
      BY <2>1
    <3>2. ASSUME b \in a.taken
          PROVE  \/ b \in Bibs(old) \/ (s > 0 /\ b >= s)
                 \/ \E j \in 1 .. k : file[j].name # None /\ file[j].bib = b
      BY <3>2, <1>1, <1>3
    <3>3. ASSUME b = bib, b # 0
          PROVE  (s > 0 /\ b >= s) \/ (e.name # None /\ e.bib = b)
      BY <3>3, <2>1, <1>1, <1>4, <1>6
    <3>4. k \in 1 .. k
      BY <1>1
    <3> QED
      BY <3>1, <3>2, <3>3, <3>4, Zenon
  <2> QED
    BY <2>6, <2>7, <2>8, <2>9, <2>10, Zenon DEF FileInv, w, d
<1> QED
  BY <1>5, <1>6

LEMMA WholeFile ==
  ASSUME NEW t \in SUBSET Bib, IsFiniteSet(t), Cardinality(t) <= MaxId,
         NEW s \in Bib, s > 0 => s + 2 * MaxId <= MaxBib,
         NEW file \in Seq(Entry), s > 0 => \A j \in DOMAIN file : file[j].bib < s,
         NEW old, NEW l \in Nat, NEW first, ImportInv(t, s, first),
         first.people = old, first.last = l, first.taken = Bibs(old), l + Len(file) <= MaxId
  PROVE  FileInv(file, old, s, l, Len(file), Imported(first, file)[Len(file)])
<1> DEFINE N == Len(file)
           A(k) == Imported(first, file)[k]
           I == {k \in 0 .. N : FileInv(file, old, s, l, k, A(k))}
<1>1. N \in Nat /\ MaxId \in Nat /\ s \in Nat
  BY ParticipantAssumption DEF Bib
<1>2. /\ \A k \in 0 .. N : ImportInv(t, s, A(k)) /\ A(k).last >= l /\ A(k).last <= l + k
      /\ A(0) = first
      /\ \A k \in 1 .. N : A(k) = ImportEntry(A(k - 1), file[k])
  BY ImportedSteps
<1> HIDE DEF A
<1>3. \A j : j \in I <=> j \in 0 .. N /\ FileInv(file, old, s, l, j, A(j))
  BY Zenon
<1>4. FileInv(file, old, s, l, 0, first)
  <2>1. 0 \in 0 .. N
    BY <1>1
  <2>2. Cardinality(UpTo(Wanted(file, old), 0)) = 0
    BY <2>1, WantedCounts
  <2>3. UpTo(Wanted(file, old), 0) = {}
    <3>1. \A j \in Wanted(file, old) : ~(j <= 0)
      BY DEF Wanted
    <3> QED
      BY <3>1, Zenon DEF UpTo
  <2>4. l + 0 = l /\ 1 .. 0 = {}
    OBVIOUS
  <2>5. first.last = l + Cardinality(UpTo(Wanted(file, old), 0))
    BY <2>2, <2>4
  <2> QED
    BY <2>3, <2>4, <2>5, Zenon DEF FileInv
<1> HIDE DEF I, N
<1>5. 0 \in I
  BY <1>1, <1>2, <1>3, <1>4
<1>6. ASSUME NEW k \in 1 .. N, k - 1 \in I PROVE k \in I
  <2>1. k \in 0 .. N /\ k - 1 \in 0 .. N /\ FileInv(file, old, s, l, k - 1, A(k - 1))
    BY <1>1, <1>3, <1>6
  <2>2. ImportInv(t, s, A(k - 1)) /\ A(k - 1).last < MaxId
    <3>1. A(k - 1).last \in Nat /\ A(k - 1).last <= l + (k - 1)
      BY <2>1, <1>1, <1>2 DEF ImportInv, Acc
    <3>2. l + (k - 1) < MaxId
      BY <1>1 DEF N
    <3> QED
      BY <3>1, <3>2, <2>1, <1>1, <1>2
  <2>3. FileInv(file, old, s, l, k, ImportEntry(A(k - 1), file[k]))
    BY <2>1, <2>2, FileInvSteps DEF N
  <2> QED
    BY <2>1, <2>3, <1>2, <1>3
<1>7. \A k \in 0 .. N : k \in I
  BY <1>1, <1>5, <1>6, LoopInduction
<1>8. N \in 0 .. N
  BY <1>1
<1> QED
  BY <1>3, <1>7, <1>8 DEF N, A

(* Only the import itself answers a call that was to import a file.        *)
LEMMA ToldLeaves ==
  ASSUME DeskInv, NEW c \in Desk, NEW d \in Desk, d # c, NEW r, Told(d, r)
  PROVE  desk'[c] = desk[c]
<1>1. desk \in [Desk -> DeskCall \cup {None}]
  BY DeskIs
<1> QED
  BY <1>1 DEF Told

LEMMA WriteLeaves ==
  ASSUME DeskInv, NEW c \in Desk, desk[c] # None, NEW d \in Desk, d # c, NEW t, NEW r, Write(d, t, r)
  PROVE  desk'[c].phase = desk[c].phase
<1>1. desk'[c] = [desk[c] EXCEPT !.clean = @ /\ t = people] /\ desk[c] \in DeskCall
  BY OthersAreOnlyStale, CallIs
<1> QED
  BY <1>1 DEF DeskCall

LEMMA UnmountedLeaves ==
  ASSUME DeskInv, NEW c \in Desk, desk[c] # None
  PROVE  Unmounted[c].phase = desk[c].phase
<1>1. Unmounted[c] = [desk[c] EXCEPT !.here = FALSE] /\ desk[c] \in DeskCall
  BY CallIs DEF Unmounted
<1> QED
  BY <1>1 DEF DeskCall

LEMMA FilesAreAnsweredByImport ==
  ASSUME DeskInv, ParticipantsNext, NEW c \in Desk, desk[c] # None, desk[c].op = "csv",
         desk[c].phase # "written", desk'[c] # None, desk'[c].phase = "written"
  PROVE  ImportParticipants(c)
<1> DEFINE x == desk[c]
<1>1. x \in DeskCall /\ desk \in [Desk -> DeskCall \cup {None}]
  BY CallIs, DeskIs
<1>2. PICK d \in Desk :
        \/ ParticipantRow(d) \/ ParticipantForm(d) \/ ParticipantHeader(d) \/ Imports(d)
        \/ Service(d) \/ Sync(d) \/ Refresh(d) \/ CallFails(d)
  BY DEF ParticipantsNext
<1>3. desk' # desk
  OBVIOUS
<1>4. ASSUME NEW r, Call(d, r) PROVE FALSE
  <2>1. d # c /\ Told(d, r)
    BY <1>4 DEF Call
  <2> QED
    BY <2>1, ToldLeaves
<1>5. ASSUME SetView PROVE FALSE
  BY <1>5, UnmountedLeaves DEF SetView
<1>6. ~ParticipantRow(d)
  BY <1>3, <1>4 DEF ParticipantRow, HandleToggleCheckIn, HandleDeletePerson, HandleEdit
<1>7. ~ParticipantForm(d)
  BY <1>3, <1>4, Zenon DEF ParticipantForm, HandleStartAddParticipant, HandleCancelForm, FillForm,
         HandleSubmitForm
<1>8. ~ParticipantHeader(d)
  BY <1>3, <1>4, <1>5, Zenon DEF ParticipantHeader, HandleDeleteAllParticipants, HandleClearAllBibs, BulkBibs,
         ToggleRSUImport
<1>9. ~Imports(d)
  BY <1>4, Zenon DEF Imports, HandleImport, HandleRSUImportAction
<1>10. ASSUME NEW r, Told(d, r) PROVE d = c
  BY <1>10, ToldLeaves
<1>11. ASSUME NEW t, NEW r, Write(d, t, r) PROVE d = c
  BY <1>11, WriteLeaves
<1>12. ~Answer(d)
  <2> SUFFICES ASSUME Answer(d) PROVE FALSE
    OBVIOUS
  <2> DEFINE u == IF screen' = screen THEN desk ELSE Unmounted
  <2>1. d # c
    BY DEF Answer
  <2>2. desk' = [u EXCEPT ![d].phase = "refresh"]
    BY Zenon DEF Answer
  <2>3. u[c].phase = x.phase
    BY UnmountedLeaves
  <2> HIDE DEF u
  <2>4. desk'[c] = u[c]
    <3>1. c \in DOMAIN u
      BY <1>1 DEF u, Unmounted
    <3> QED
      BY <3>1, <2>1, <2>2
  <2> QED
    BY <2>3, <2>4
<1>13. ~Refresh(d)
  <2>1. ASSUME ListParticipants(d) PROVE FALSE
    <3>1. d = c
      BY <2>1, <1>10 DEF ListParticipants
    <3>2. desk'[c] = [x EXCEPT !.phase = "arriving", !.list = people]
      BY <3>1, <2>1, <1>1 DEF ListParticipants, Told
    <3>3. desk'[c].phase = "arriving"
      BY <3>2, <1>1 DEF DeskCall
    <3> QED
      BY <3>3
  <2>2. ASSUME SetParticipants(d) PROVE FALSE
    <3>1. d = c
      BY <2>2, <1>10 DEF SetParticipants
    <3> QED
      BY <3>1, <2>2, <1>1 DEF SetParticipants, Told
  <2> QED
    BY <2>1, <2>2, <1>12 DEF Refresh
<1>14. ~CallFails(d)
  <2> SUFFICES ASSUME CallFails(d) PROVE FALSE
    OBVIOUS
  <2>1. d = c
    BY <1>10 DEF CallFails
  <2> QED
    BY <2>1, <1>1 DEF CallFails, Told
<1>15. ~Sync(d)
  <2> SUFFICES ASSUME Sync(d) PROVE FALSE
    OBVIOUS
  <2>1. At(d, "rsu", "asking") \/ At(d, "rsu", "sent")
    BY DEF Sync, BeginSync, DeleteFirst, SyncParticipant, EndSync
  <2>2. d # c
    BY <2>1 DEF At
  <2>3. (\E r : Told(d, r)) \/ (\E t, r : Write(d, t, r))
    <3>1. BeginSync(d) => \E r : Told(d, r)
      BY Zenon DEF BeginSync
    <3>2. DeleteFirst(d) => \E t, r : Write(d, t, r)
      BY Zenon DEF DeleteFirst
    <3>3. SyncParticipant(d) => (\E r : Told(d, r)) \/ (\E t, r : Write(d, t, r))
      BY Zenon DEF SyncParticipant
    <3>4. EndSync(d) => \E r : Told(d, r)
      BY Zenon DEF EndSync
    <3> QED
      BY <3>1, <3>2, <3>3, <3>4 DEF Sync
  <2> QED
    BY <2>2, <2>3, <1>10, <1>11
<1>16. Service(d)
  BY <1>2, <1>6, <1>7, <1>8, <1>9, <1>13, <1>14, <1>15
<1>17. d = c
  <2>1. (\E r : Told(d, r)) \/ (\E t, r : Write(d, t, r))
    <3>1. Execute(d) => (\E r : Told(d, r)) \/ (\E t, r : Write(d, t, r))
      BY Zenon DEF Execute
    <3>2. AddParticipant(d) => (\E r : Told(d, r)) \/ (\E t, r : Write(d, t, r))
      BY Zenon DEF AddParticipant
    <3>3. Read(d) => \E r : Told(d, r)
      BY Zenon DEF Read
    <3>4. ReassignBibs(d) => (\E r : Told(d, r)) \/ (\E t, r : Write(d, t, r))
      BY Zenon DEF ReassignBibs
    <3>5. ImportParticipants(d) => \E t, r : Write(d, t, r)
      BY Zenon DEF ImportParticipants
    <3> QED
      BY <3>1, <3>2, <3>3, <3>4, <3>5, <1>16 DEF Service
  <2> QED
    BY <2>1, <1>10, <1>11
<1>18. ~Execute(c) /\ ~AddParticipant(c) /\ ~ReassignBibs(c)
  BY DEF Execute, AddParticipant, ReassignBibs, At
<1>19. ~Read(c)
  <2> SUFFICES ASSUME Read(c) PROVE FALSE
    OBVIOUS
  <2> DEFINE row == IF x.op = "toggle" THEN [people[x.id] EXCEPT !.in = ~@] ELSE Blank
             q == [x EXCEPT !.phase = "held", !.list = people, !.clean = TRUE, !.row = row]
  <2>1. Told(c, q)
    BY Zenon DEF Read
  <2> HIDE DEF row
  <2>2. q.phase = "held"
    BY <1>1 DEF DeskCall
  <2> HIDE DEF q
  <2>3. desk'[c] = q
    BY <2>1, <1>1 DEF Told
  <2> QED
    BY <2>2, <2>3
<1> QED
  BY <1>16, <1>17, <1>18, <1>19 DEF Service

LEMMA ImportIsWhole ==
  ASSUME DeskInv, [ParticipantsNext]_deskVars, NEW c \in Desk, desk[c] # None, desk[c].op = "csv",
         desk[c].phase # "written", desk'[c] # None, desk'[c].phase = "written", desk[c].clean,
         desk[c].next > 0 => \A k \in DOMAIN desk[c].todo : desk[c].todo[k].bib < desk[c].next
  PROVE  LET r == desk[c]
             old == IF r.replace THEN Nobody ELSE people
             w == Wanted(r.todo, old)
             at(k) == people'[lastPerson + Cardinality({j \in w : j <= k})]
         IN /\ \A k \in w : /\ at(k) # None /\ at(k).name = r.todo[k].name
                            /\ r.todo[k].bib # 0 \/ r.next = 0 => at(k).bib = r.todo[k].bib
                            /\ r.todo[k].bib = 0 /\ r.next > 0 => at(k).bib >= r.next
            /\ lastPerson' = lastPerson + Cardinality(w)
            /\ \A i \in 1 .. lastPerson : people'[i] = old[i]
<1> DEFINE r == desk[c]
           old == IF r.replace THEN Nobody ELSE people
           w == Wanted(r.todo, old)
           N == Len(r.todo)
<1>1. ParticipantsNext
  BY DEF deskVars
<1>2. ImportParticipants(c)
  BY <1>1, FilesAreAnsweredByImport
<1>3. people' = Done(c).people /\ lastPerson' = Done(c).last
  BY <1>2, Zenon DEF ImportParticipants, Done, Before, Write
<1>4. /\ Before(c).people = old /\ Before(c).last = lastPerson /\ Before(c).taken = Bibs(old)
      /\ r.next \in Nat
  <2>1. CallHolds(r, people, lastPerson) /\ r.next \in Nat
    BY CallIs, ParticipantAssumption DEF Bib
  <2>2. ~r.replace => r.list = people
    BY <2>1, <1>2 DEF ImportParticipants, At, CallHolds
  <2>3. Bibs(Nobody) = {}
    <3>1. Present(Nobody) = {}
      BY DEF Present, Nobody
    <3> QED
      BY <3>1 DEF Bibs
  <2> QED
    BY <2>1, <2>2, <2>3 DEF Before
<1>5. FileInv(r.todo, old, r.next, lastPerson, N, Done(c))
  <2>1. /\ lastPerson \in Nat /\ lastPerson + N <= MaxId
        /\ Bibs(old) \in SUBSET Bib /\ IsFiniteSet(Bibs(old)) /\ Cardinality(Bibs(old)) <= MaxId
        /\ r.next \in Bib /\ (r.next > 0 => r.next + 2 * MaxId <= MaxBib)
        /\ ImportInv(Bibs(old), r.next, Before(c)) /\ r.todo \in Seq(Entry)
    BY <1>2, <1>4, ImportStarts, DeskIs
  <2> HIDE DEF old
  <2> QED
    BY <2>1, <1>4, WholeFile DEF Done
<1>6. r.todo \in Seq(Entry) /\ w \subseteq 1 .. N
  BY CallIs DEF Wanted
<1> HIDE DEF old, w
<1>7. UpTo(w, N) = w
  <2>1. \A j \in w : j <= N
    BY <1>6
  <2> QED
    BY <2>1, Zenon DEF UpTo
<1>8. /\ lastPerson' = lastPerson + Cardinality(UpTo(w, N))
      /\ \A i \in 1 .. lastPerson : people'[i] = old[i]
      /\ \A k \in UpTo(w, N) : Entered(people'[lastPerson + Cardinality(UpTo(w, k))], r.todo[k], r.next)
  BY <1>3, <1>5, Zenon DEF FileInv, w
<1>9. ASSUME NEW k \in w
      PROVE  LET p == people'[lastPerson + Cardinality({j \in w : j <= k})]
             IN /\ p # None /\ p.name = r.todo[k].name
                /\ r.todo[k].bib # 0 \/ r.next = 0 => p.bib = r.todo[k].bib
                /\ r.todo[k].bib = 0 /\ r.next > 0 => p.bib >= r.next
  BY <1>7, <1>8, Zenon DEF Entered, UpTo
<1> QED
  BY <1>7, <1>8, <1>9, Zenon DEF old, w

(* Every named entry whose bib nobody had is there after an import, in the *)
(* order of the file, and the others are as they were.                     *)
THEOREM FilesAreImportedWhole == ParticipantsSpec => FileIsImported
<1>1. DeskInv /\ [ParticipantsNext]_deskVars =>
        [\A c \in Desk :
           LET r == desk[c]
               old == IF r.replace THEN Nobody ELSE people
               wanted == {k \in DOMAIN r.todo :
                 /\ r.todo[k].name # None
                 /\ r.todo[k].bib # 0 => /\ r.todo[k].bib \notin Bibs(old)
                                         /\ \A j \in 1 .. k - 1 : r.todo[j].name # None =>
                                              r.todo[j].bib # r.todo[k].bib}
               at(k) == people'[lastPerson + Cardinality({j \in wanted : j <= k})]
           IN /\ desk[c] # None /\ r.op = "csv" /\ r.phase # "written" /\ desk'[c] # None
              /\ desk'[c].phase = "written" /\ r.clean
              /\ r.next > 0 => \A k \in DOMAIN r.todo : r.todo[k].bib < r.next
              => /\ \A k \in wanted : /\ at(k) # None /\ at(k).name = r.todo[k].name
                                      /\ r.todo[k].bib # 0 \/ r.next = 0 => at(k).bib = r.todo[k].bib
                                      /\ r.todo[k].bib = 0 /\ r.next > 0 => at(k).bib >= r.next
                 /\ lastPerson' = lastPerson + Cardinality(wanted)
                 /\ \A i \in 1 .. lastPerson : people'[i] = old[i]]_deskVars
  BY ImportIsWhole, Zenon DEF Wanted
<1> QED
  BY <1>1, ParticipantsInitHolds, ParticipantsNextKeeps, PTL DEF ParticipantsSpec, FileIsImported
=============================================================================
