------------------------------- MODULE Induction -------------------------------
(***************************************************************************)
(* Induction over the natural numbers, stated for a set of numbers, and    *)
(* what follows for FlattenSeq, the fold the schema is built with, and for *)
(* finite sets in an order.                                                *)
(***************************************************************************)
EXTENDS Naturals, Sequences, SequencesExt, FiniteSets, FiniteSetTheorems,
        WellFoundedInduction, TLAPS

(* Every set of natural numbers has a least member.                        *)
LEMMA LeastNumber ==
  ASSUME NEW T \in SUBSET Nat, T # {}
  PROVE  \E m \in T : \A k \in T : m <= k
<1>1. PICK n \in T : TRUE  OBVIOUS
<1>. DEFINE U == {0 .. m : m \in {k \in T : k <= n}}
<1>2. IsWellFoundedOn(StrictSubsetOrdering(0 .. n), SUBSET (0 .. n))
  <2>1. IsFiniteSet(0 .. n)  BY FS_Interval
  <2>. QED  BY <2>1, FS_StrictSubsetOrderingWellFounded, FS_FiniteSubsetsOfFinite
<1>3. U \subseteq SUBSET (0 .. n) /\ U # {}
  <2>1. \A m \in T : m <= n => 0 .. m \in SUBSET (0 .. n)  OBVIOUS
  <2>2. 0 .. n \in U  OBVIOUS
  <2>. QED  BY <2>1, <2>2
<1>4. PICK x \in U : \A y \in U : ~(<<y, x>> \in StrictSubsetOrdering(0 .. n))
  <2>. HIDE DEF U
  <2>. QED  BY <1>2, <1>3, WFMin
<1>5. PICK m \in T : m <= n /\ x = 0 .. m  OBVIOUS
<1>6. ASSUME NEW k \in T, k < m PROVE FALSE
  <2>1. k <= n /\ 0 .. k \in U  BY <1>5, <1>6
  <2>2. 0 .. k \subseteq 0 .. m /\ 0 .. k # 0 .. m  BY <1>6
  <2>3. 0 .. k \in SUBSET (0 .. n) /\ 0 .. m \in SUBSET (0 .. n)  BY <1>3, <1>5, <2>1
  <2>4. <<0 .. k, 0 .. m>> \in StrictSubsetOrdering(0 .. n)
    BY <2>2, <2>3 DEF StrictSubsetOrdering
  <2>. QED  BY <1>4, <1>5, <2>1, <2>4
<1>. QED  BY <1>5, <1>6

LEMMA NatSetInduction ==
  ASSUME NEW S, 0 \in S, \A n \in Nat : n \in S => n + 1 \in S
  PROVE  Nat \subseteq S
<1> SUFFICES ASSUME NEW j \in Nat \ S PROVE FALSE  OBVIOUS
<1>1. PICK m \in Nat \ S : \A k \in Nat \ S : m <= k  BY LeastNumber
<1>2. m # 0 /\ m - 1 \in Nat /\ m - 1 \in S  BY <1>1
<1>. QED  BY <1>1, <1>2

(* The values of a loop: a state, and at each turn n the state that the    *)
(* turn makes of the last one.                                             *)
IsLoop(f, N, a, turn) ==
  f[0] = a /\ \A n \in 1 .. N : f[n] = turn[n][f[n - 1]]

LEMMA LoopValues ==
  ASSUME NEW X, NEW N \in Nat, NEW a \in X, NEW turn \in [1 .. N -> [X -> X]]
  PROVE  \E f \in [0 .. N -> X] : IsLoop(f, N, a, turn)
<1>. DEFINE Loop(f, m) == /\ f \in [0 .. m -> X] /\ f[0] = a
                          /\ \A n \in 1 .. m : f[n] = turn[n][f[n - 1]]
            S == {m \in Nat : m <= N => \E f : Loop(f, m)}
<1>1. 0 \in S
  <2>1. Loop([n \in 0 .. 0 |-> a], 0)  OBVIOUS
  <2>. QED  BY <2>1
<1>2. ASSUME NEW m \in Nat, m \in S PROVE m + 1 \in S
  <2> SUFFICES ASSUME m + 1 <= N PROVE \E f : Loop(f, m + 1)  OBVIOUS
  <2>1. PICK f : Loop(f, m)  BY <1>2
  <2>. DEFINE g == [n \in 0 .. m + 1 |-> IF n = m + 1 THEN turn[n][f[m]] ELSE f[n]]
  <2>2. turn[m + 1] \in [X -> X] /\ f[m] \in X  BY <2>1
  <2>3. g \in [0 .. m + 1 -> X] /\ g[0] = a  BY <2>1, <2>2
  <2>4. ASSUME NEW n \in 1 .. m + 1 PROVE g[n] = turn[n][g[n - 1]]
    <3>1. CASE n = m + 1
      <4>1. n - 1 = m /\ m \in 0 .. m + 1 /\ m # m + 1 /\ n \in 0 .. m + 1  BY <3>1
      <4>2. g[n] = turn[n][f[m]] /\ g[m] = f[m]  BY <3>1, <4>1
      <4>. HIDE DEF g
      <4>. QED  BY <4>1, <4>2
    <3>2. CASE n # m + 1
      <4>1. n \in 1 .. m /\ n - 1 \in 0 .. m + 1 /\ n - 1 # m + 1 /\ n \in 0 .. m + 1  BY <3>2
      <4>2. g[n] = f[n] /\ g[n - 1] = f[n - 1]  BY <3>2, <4>1
      <4>. HIDE DEF g
      <4>. QED  BY <2>1, <4>1, <4>2
    <3>. QED  BY <3>1, <3>2
  <2>. HIDE DEF g
  <2>5. Loop(g, m + 1)  BY <2>3, <2>4
  <2>. QED  BY <2>5
<1>. HIDE DEF S
<1>3. N \in S  BY <1>1, <1>2, NatSetInduction
<1>. QED  BY <1>3 DEF S, IsLoop

-------------------------------------------------------------------------------
(* FlattenSeq.                                                             *)

(* The partial concatenations that FlattenSeq computes.                    *)
Flattens(f, ss, n) ==
  f = [i \in 1 .. n |-> IF i = 1 THEN ss[i] ELSE f[i - 1] \o ss[i]]

LEMMA FlattenStages ==
  ASSUME NEW ss, NEW n \in Nat
  PROVE  \E f : Flattens(f, ss, n)
<1>. DEFINE S == {m \in Nat : \E f : Flattens(f, ss, m)}
<1>1. 0 \in S
  <2>1. Flattens([i \in 1 .. 0 |-> ss], ss, 0)  BY DEF Flattens
  <2>. QED  BY <2>1
<1>2. ASSUME NEW m \in Nat, m \in S PROVE m + 1 \in S
  <2>1. PICK f : Flattens(f, ss, m)  BY <1>2
  <2>. DEFINE last == IF m = 0 THEN ss[1] ELSE f[m] \o ss[m + 1]
              g == [i \in 1 .. m + 1 |-> IF i = m + 1 THEN last ELSE f[i]]
  <2>2. ASSUME NEW i \in 1 .. m + 1
        PROVE  g[i] = IF i = 1 THEN ss[i] ELSE g[i - 1] \o ss[i]
    <3>1. CASE i = m + 1 /\ m = 0  BY <3>1
    <3>2. CASE i = m + 1 /\ m # 0
      <4>1. m \in 1 .. m + 1 /\ m # m + 1 /\ i - 1 = m /\ i # 1  BY <3>2
      <4>2. g[i] = f[m] \o ss[i] /\ g[m] = f[m]  BY <3>2, <4>1
      <4>. HIDE DEF g
      <4>. QED  BY <4>1, <4>2
    <3>3. CASE i # m + 1
      <4>1. i \in 1 .. m  BY <3>3
      <4>2. f[i] = IF i = 1 THEN ss[i] ELSE f[i - 1] \o ss[i]
        BY <2>1, <4>1 DEF Flattens
      <4>3. g[i] = f[i]  BY <3>3
      <4>4. i # 1 => g[i - 1] = f[i - 1]  BY <4>1
      <4>. HIDE DEF g
      <4>. QED  BY <4>2, <4>3, <4>4
    <3>. QED  BY <3>1, <3>2, <3>3
  <2>3. Flattens(g, ss, m + 1)
    <3>1. g = [i \in 1 .. m + 1 |-> g[i]]  OBVIOUS
    <3>. HIDE DEF g
    <3>. QED  BY <2>2, <3>1 DEF Flattens
  <2>. HIDE DEF g
  <2>. QED  BY <2>3
<1>. HIDE DEF S
<1>3. n \in S  BY <1>1, <1>2, NatSetInduction
<1>. QED  BY <1>3 DEF S

LEMMA FlattenSeqDef ==
  ASSUME NEW ss, Len(ss) \in Nat, Len(ss) # 0
  PROVE  \E f : Flattens(f, ss, Len(ss)) /\ FlattenSeq(ss) = f[Len(ss)]
<1>. DEFINE g == CHOOSE f : Flattens(f, ss, Len(ss))
<1>1. Flattens(g, ss, Len(ss))  BY FlattenStages
<1>2. FlattenSeq(ss) = g[Len(ss)]  BY DEF FlattenSeq, Flattens
<1>. QED  BY <1>1, <1>2

(* Nothing is in the whole but what is in the parts.                       *)
LEMMA FlattenSeqType ==
  ASSUME NEW S, NEW ss \in Seq(Seq(S))
  PROVE  FlattenSeq(ss) \in Seq(S)
<1>1. CASE Len(ss) = 0
  <2>1. ss = <<>>  BY <1>1
  <2>. QED  BY <1>1, <2>1 DEF FlattenSeq
<1>2. CASE Len(ss) # 0
  <2>1. PICK f : Flattens(f, ss, Len(ss)) /\ FlattenSeq(ss) = f[Len(ss)]
    BY <1>2, FlattenSeqDef
  <2>. DEFINE T == {n \in Nat : n \in 1 .. Len(ss) => f[n] \in Seq(S)}
  <2>2. 0 \in T  OBVIOUS
  <2>3. ASSUME NEW n \in Nat, n \in T PROVE n + 1 \in T
    <3>1. SUFFICES ASSUME n + 1 \in 1 .. Len(ss) PROVE f[n + 1] \in Seq(S)  OBVIOUS
    <3>2. f[n + 1] = IF n = 0 THEN ss[n + 1] ELSE f[n] \o ss[n + 1]
      <4>1. n + 1 - 1 = n /\ (n + 1 = 1 <=> n = 0)  OBVIOUS
      <4>2. \A i \in 1 .. Len(ss) : f[i] = IF i = 1 THEN ss[i] ELSE f[i - 1] \o ss[i]
        BY <2>1 DEF Flattens
      <4>3. f[n + 1] = IF n + 1 = 1 THEN ss[n + 1] ELSE f[n + 1 - 1] \o ss[n + 1]
        BY <3>1, <4>2
      <4>. QED  BY <4>1, <4>3
    <3>3. ss[n + 1] \in Seq(S)  BY <3>1
    <3>4. n # 0 => f[n] \in Seq(S)  BY <2>3, <3>1
    <3>. QED  BY <3>2, <3>3, <3>4
  <2>. HIDE DEF T
  <2>4. Len(ss) \in T  BY <2>2, <2>3, NatSetInduction
  <2>. QED  BY <1>2, <2>1, <2>4 DEF T
<1>. QED  BY <1>1, <1>2

LEMMA ConcatHas ==
  ASSUME NEW S, NEW s \in Seq(S), NEW t \in Seq(S)
  PROVE  ToSet(s) \subseteq ToSet(s \o t) /\ ToSet(t) \subseteq ToSet(s \o t)
<1>1. /\ Len(s) \in Nat /\ Len(t) \in Nat /\ Len(s \o t) = Len(s) + Len(t)
      /\ DOMAIN s = 1 .. Len(s) /\ DOMAIN t = 1 .. Len(t)
      /\ DOMAIN (s \o t) = 1 .. Len(s) + Len(t)
  OBVIOUS
<1>2. ASSUME NEW k \in 1 .. Len(s) PROVE s[k] \in ToSet(s \o t)
  <2>1. k \in DOMAIN (s \o t) /\ (s \o t)[k] = s[k]  BY <1>1
  <2>. QED  BY <2>1 DEF ToSet
<1>3. ASSUME NEW k \in 1 .. Len(t) PROVE t[k] \in ToSet(s \o t)
  <2>1. (Len(s) + k) - Len(s) = k /\ Len(s) + k > Len(s)  BY <1>1
  <2>2. (s \o t)[Len(s) + k] = t[(Len(s) + k) - Len(s)]  BY <1>1
  <2>3. Len(s) + k \in DOMAIN (s \o t)  BY <1>1
  <2>. QED  BY <2>1, <2>2, <2>3 DEF ToSet
<1>. QED  BY <1>1, <1>2, <1>3 DEF ToSet

(* ... and all of that.                                                    *)
LEMMA FlattenSeqHas ==
  ASSUME NEW S, NEW ss \in Seq(Seq(S)), NEW i \in 1 .. Len(ss)
  PROVE  ToSet(ss[i]) \subseteq ToSet(FlattenSeq(ss))
<1>1. Len(ss) \in Nat /\ Len(ss) # 0  OBVIOUS
<1>2. PICK f : Flattens(f, ss, Len(ss)) /\ FlattenSeq(ss) = f[Len(ss)]
  BY <1>1, FlattenSeqDef
<1>. DEFINE Has(n) == f[n] \in Seq(S) /\ \A j \in 1 .. n : ToSet(ss[j]) \subseteq ToSet(f[n])
            T == {n \in Nat : n \in 1 .. Len(ss) => Has(n)}
<1>3. 0 \in T  OBVIOUS
<1>4. ASSUME NEW n \in Nat, n \in T PROVE n + 1 \in T
  <2> SUFFICES ASSUME n + 1 \in 1 .. Len(ss) PROVE Has(n + 1)  OBVIOUS
  <2>1. f[n + 1] = IF n = 0 THEN ss[n + 1] ELSE f[n] \o ss[n + 1]
    <3>1. n + 1 - 1 = n /\ (n + 1 = 1 <=> n = 0)  OBVIOUS
    <3>2. \A j \in 1 .. Len(ss) : f[j] = IF j = 1 THEN ss[j] ELSE f[j - 1] \o ss[j]
      BY <1>2 DEF Flattens
    <3>3. f[n + 1] = IF n + 1 = 1 THEN ss[n + 1] ELSE f[n + 1 - 1] \o ss[n + 1]
      BY <3>2
    <3>. QED  BY <3>1, <3>3
  <2>2. ss[n + 1] \in Seq(S)  OBVIOUS
  <2>3. CASE n = 0  BY <2>1, <2>2, <2>3
  <2>4. CASE n # 0
    <3>1. Has(n)  BY <1>4, <2>4
    <3>2. f[n + 1] = f[n] \o ss[n + 1]  BY <2>1, <2>4
    <3>3. ToSet(f[n]) \subseteq ToSet(f[n + 1]) /\ ToSet(ss[n + 1]) \subseteq ToSet(f[n + 1])
      BY <2>2, <3>1, <3>2, ConcatHas
    <3>4. f[n + 1] \in Seq(S)  BY <2>2, <3>1, <3>2
    <3>5. \A j \in 1 .. n + 1 : j \in 1 .. n \/ j = n + 1  OBVIOUS
    <3>. QED  BY <3>1, <3>3, <3>4, <3>5
  <2>. QED  BY <2>3, <2>4
<1>. HIDE DEF T
<1>5. Len(ss) \in T  BY <1>1, <1>3, <1>4, NatSetInduction
<1>. QED  BY <1>1, <1>2, <1>5 DEF T

-------------------------------------------------------------------------------
(* Finite sets in an order: a set of pairs.                                *)

IsOrder(R, S) ==
  \A x, y, z \in S :
    /\ <<x, x>> \notin R
    /\ <<x, y>> \in R /\ <<y, z>> \in R => <<x, z>> \in R
    /\ x # y => <<x, y>> \in R \/ <<y, x>> \in R

Under(R, S, x) == {y \in S : <<y, x>> \in R}

(* The first n of S.                                                       *)
FirstIn(R, S, n) == {x \in S : Cardinality(Under(R, S, x)) < n}

LEMMA UnderOrder ==
  ASSUME NEW S, IsFiniteSet(S), NEW R, IsOrder(R, S), NEW x \in S, NEW y \in S
  PROVE  /\ IsFiniteSet(Under(R, S, x)) /\ Cardinality(Under(R, S, x)) \in Nat
         /\ <<x, y>> \in R => Cardinality(Under(R, S, x)) < Cardinality(Under(R, S, y))
         /\ Cardinality(Under(R, S, x)) = Cardinality(Under(R, S, y)) => x = y
<1>1. \A z \in S : IsFiniteSet(Under(R, S, z)) /\ Cardinality(Under(R, S, z)) \in Nat
  BY FS_Subset, FS_CardinalityType DEF Under
<1>2. ASSUME NEW v \in S, NEW w \in S, <<v, w>> \in R
      PROVE  Cardinality(Under(R, S, v)) < Cardinality(Under(R, S, w))
  <2>1. Under(R, S, v) \subseteq Under(R, S, w) /\ v \in Under(R, S, w) /\ v \notin Under(R, S, v)
    BY <1>2 DEF Under, IsOrder
  <2>2. Cardinality(Under(R, S, v)) <= Cardinality(Under(R, S, w))
        /\ Cardinality(Under(R, S, v)) # Cardinality(Under(R, S, w))
    BY <1>1, <2>1, FS_Subset
  <2>. QED  BY <1>1, <2>2
<1>3. x # y => Cardinality(Under(R, S, x)) # Cardinality(Under(R, S, y))
  <2>1. x # y => <<x, y>> \in R \/ <<y, x>> \in R  BY DEF IsOrder
  <2>. QED  BY <1>1, <1>2, <2>1
<1>. QED  BY <1>1, <1>2, <1>3

(* A part that is not empty has a first member.                            *)
LEMMA LeastInOrder ==
  ASSUME NEW S, IsFiniteSet(S), NEW R, IsOrder(R, S), NEW T \in SUBSET S, T # {}
  PROVE  \E x \in T : \A y \in T \ {x} : <<x, y>> \in R
<1> DEFINE N == {Cardinality(Under(R, S, x)) : x \in T}
<1>1. N \in SUBSET Nat /\ N # {}  BY UnderOrder
<1>2. PICK m \in N : \A k \in N : m <= k  BY <1>1, LeastNumber
<1>3. PICK x \in T : m = Cardinality(Under(R, S, x))  BY <1>2
<1>4. ASSUME NEW y \in T \ {x}, <<x, y>> \notin R PROVE FALSE
  <2>1. <<y, x>> \in R  BY <1>4 DEF IsOrder
  <2>2. Cardinality(Under(R, S, y)) < Cardinality(Under(R, S, x))  BY <2>1, UnderOrder
  <2>3. m <= Cardinality(Under(R, S, y))  BY <1>2
  <2>4. Cardinality(Under(R, S, y)) \in Nat /\ Cardinality(Under(R, S, x)) \in Nat  BY UnderOrder
  <2>. QED  BY <1>3, <2>2, <2>3, <2>4
<1>. QED  BY <1>4

(* The first n are n, or all there are.                                    *)
LEMMA FirstSize ==
  ASSUME NEW S, IsFiniteSet(S), NEW R, IsOrder(R, S), NEW n \in Nat
  PROVE  LET first == FirstIn(R, S, n) IN
         /\ first \subseteq S /\ IsFiniteSet(first)
         /\ Cardinality(first) = (IF Cardinality(S) > n THEN n ELSE Cardinality(S))
<1> DEFINE F(k) == FirstIn(R, S, k)
           Right(k) == Cardinality(F(k)) = (IF Cardinality(S) > k THEN k ELSE Cardinality(S))
           T == {k \in Nat : Right(k)}
<1>0. /\ Cardinality(S) \in Nat
      /\ \A k : F(k) \subseteq S /\ IsFiniteSet(F(k)) /\ Cardinality(F(k)) \in Nat
  BY FS_Subset, FS_CardinalityType DEF FirstIn
<1>1. 0 \in T
  <2>1. \A x \in S : Cardinality(Under(R, S, x)) \in Nat  BY UnderOrder
  <2>2. F(0) = {}  BY <2>1 DEF FirstIn
  <2>3. Cardinality(F(0)) = 0  BY <2>2, FS_EmptySet
  <2>. HIDE DEF F
  <2>. QED  BY <1>0, <2>3
<1>2. ASSUME NEW k \in Nat, k \in T PROVE k + 1 \in T
  <2>0. \A x \in S : Cardinality(Under(R, S, x)) \in Nat  BY UnderOrder
  <2>1. F(k) \subseteq F(k + 1)
    BY <2>0 DEF FirstIn
  <2>2. CASE F(k) = S
    <3>1. F(k + 1) = S  BY <1>0, <2>1, <2>2
    <3>2. Cardinality(F(k)) = Cardinality(S) /\ Cardinality(F(k + 1)) = Cardinality(S)
      BY <2>2, <3>1
    <3>. HIDE DEF F
    <3>3. Right(k)  BY <1>2
    <3>4. Right(k + 1)  BY <1>0, <3>2, <3>3
    <3>. QED  BY <3>4
  <2>3. CASE F(k) # S
    <3> DEFINE Rest == S \ F(k)
    <3>1. Rest \in SUBSET S /\ Rest # {}  BY <1>0, <2>3
    <3>2. PICK m \in Rest : \A y \in Rest \ {m} : <<m, y>> \in R
      <4>. HIDE DEF Rest
      <4>. QED  BY <3>1, LeastInOrder
    <3>3. Under(R, S, m) = F(k)
      <4>1. ASSUME NEW y \in Under(R, S, m) PROVE y \in F(k)
        <5>1. y \in S /\ <<y, m>> \in R /\ m \in S  BY DEF Under
        <5>2. <<m, y>> \notin R /\ y # m  BY <5>1 DEF IsOrder
        <5>. QED  BY <3>2, <5>1, <5>2
      <4>2. ASSUME NEW y \in F(k), y \notin Under(R, S, m) PROVE FALSE
        <5>1. y \in S /\ m \in S /\ y # m  BY <1>0
        <5>2. <<m, y>> \in R  BY <4>2, <5>1 DEF Under, IsOrder
        <5>3. Cardinality(Under(R, S, m)) < Cardinality(Under(R, S, y))  BY <5>1, <5>2, UnderOrder
        <5>4. Cardinality(Under(R, S, y)) < k  BY DEF FirstIn
        <5>5. ~(Cardinality(Under(R, S, m)) < k)  BY <5>1 DEF FirstIn
        <5>. QED  BY <2>0, <5>1, <5>3, <5>4, <5>5
      <4>. QED  BY <4>1, <4>2
    <3>4. m \in S /\ m \notin F(k)  OBVIOUS
    <3>5. Cardinality(Under(R, S, m)) = Cardinality(F(k))  BY <3>3
    <3>6. Cardinality(F(k)) = k /\ Cardinality(S) > k
      <4>1. ~(Cardinality(Under(R, S, m)) < k)  BY <3>4 DEF FirstIn
      <4>2. Right(k)  BY <1>2
      <4>3. Cardinality(S) # Cardinality(F(k))  BY <1>0, <2>3, FS_Subset
      <4>. HIDE DEF F
      <4>. QED  BY <1>0, <3>5, <4>1, <4>2, <4>3
    <3>7. F(k + 1) = F(k) \cup {m}
      <4>1. m \in F(k + 1)  BY <3>4, <3>5, <3>6 DEF FirstIn
      <4>2. ASSUME NEW y \in F(k + 1), y \notin F(k) PROVE y = m
        <5>1. y \in S /\ Cardinality(Under(R, S, y)) < k + 1 /\ ~(Cardinality(Under(R, S, y)) < k)
          BY <4>2 DEF FirstIn
        <5>2. Cardinality(Under(R, S, y)) = k  BY <2>0, <5>1
        <5>. QED  BY <3>4, <3>5, <3>6, <5>1, <5>2, UnderOrder
      <4>. QED  BY <2>1, <4>1, <4>2
    <3>8. Cardinality(F(k + 1)) = k + 1
      <4>1. Cardinality(F(k) \cup {m}) = Cardinality(F(k)) + 1  BY <1>0, <3>4, FS_AddElement
      <4>. QED  BY <3>6, <3>7, <4>1
    <3>. HIDE DEF F
    <3>9. Cardinality(F(k + 1)) <= Cardinality(S)  BY <1>0, FS_Subset
    <3>10. Right(k + 1)  BY <1>0, <3>8, <3>9
    <3>. QED  BY <3>10
  <2>. QED  BY <2>2, <2>3
<1>. HIDE DEF T
<1>3. n \in T  BY <1>1, <1>2, NatSetInduction
<1>. QED  BY <1>0, <1>3 DEF T

(* An order but for ties, and an order that breaks them.                   *)
IsRanking(R, S) ==
  \A x, y, z \in S :
    /\ <<x, x>> \notin R
    /\ <<x, y>> \in R /\ <<y, z>> \in R => <<x, z>> \in R
    /\ <<x, z>> \in R => <<x, y>> \in R \/ <<y, z>> \in R

AheadOf(R, Q, x, y) ==
  \/ <<x, y>> \in R
  \/ <<x, y>> \notin R /\ <<y, x>> \notin R /\ <<x, y>> \in Q

TiesBroken(R, Q, S) == {p \in S \X S : AheadOf(R, Q, p[1], p[2])}

LEMMA TiesBrokenOrder ==
  ASSUME NEW S, NEW R, IsRanking(R, S), NEW Q, IsOrder(Q, S)
  PROVE  IsOrder(TiesBroken(R, Q, S), S)
<1>1. ASSUME NEW x \in S, NEW y \in S
      PROVE  <<x, y>> \in TiesBroken(R, Q, S) <=> AheadOf(R, Q, x, y)
  BY DEF TiesBroken
<1>2. ASSUME NEW x \in S, NEW y \in S, NEW z \in S
      PROVE  /\ ~AheadOf(R, Q, x, x)
             /\ AheadOf(R, Q, x, y) /\ AheadOf(R, Q, y, z) => AheadOf(R, Q, x, z)
             /\ x # y => AheadOf(R, Q, x, y) \/ AheadOf(R, Q, y, x)
  BY DEF IsRanking, IsOrder, AheadOf
<1>. QED  BY <1>1, <1>2 DEF IsOrder
=============================================================================
