--------------------------- MODULE PlacementProofs ---------------------------
(***************************************************************************)
(* What ElementsDistribution computes, for any number of volumes, replicas *)
(* and shards, and from it the theorems about PlacementCheck: every member *)
(* gets a volume of its own, the sides carry the same load, and within a   *)
(* side the load is even.                                                  *)
(*                                                                         *)
(* The loops of the code are recursive functions of their counters.  What  *)
(* they compute is shown by induction; the induction is over a SET of      *)
(* numbers (the counters for which the claim holds), which the library's   *)
(* theorem about least elements gives.                                     *)
(***************************************************************************)
EXTENDS PlacementCheck, FiniteSetTheorems, TLAPS

-----------------------------------------------------------------------------
(* Induction. *)

\* A nonempty set of numbers has a least one.
LEMMA LeastNatural ==
    ASSUME NEW T \in SUBSET Nat, T # {}
    PROVE  \E x \in T : \A y \in T : x <= y
<1>1. PICK x \in T : \A y \in T : ~(<<y, x>> \in OpToRel(<, Nat))
  BY NatLessThanWellFounded, WFMin
<1>2. \A y \in T : <<y, x>> \in Nat \X Nat
  OBVIOUS
<1>3. \A y \in T : ~(y < x)
  BY <1>1, <1>2 DEF OpToRel
<1> QED BY <1>3

\* A set that has 0 and with every number the next one has all of them.
LEMMA Induction ==
    ASSUME NEW P \in SUBSET Nat, 0 \in P, \A n \in Nat : n \in P => n + 1 \in P
    PROVE  P = Nat
<1> SUFFICES ASSUME Nat \ P # {} PROVE FALSE
  OBVIOUS
<1>1. PICK x \in Nat \ P : \A y \in Nat \ P : x <= y
  BY LeastNatural
<1>2. x # 0 /\ x - 1 \in Nat
  BY <1>1
<1>3. x - 1 \in P
  BY <1>1, <1>2
<1>4. x = (x - 1) + 1
  BY <1>1
<1> QED BY <1>1, <1>2, <1>3, <1>4

-----------------------------------------------------------------------------
(* Sides. *)

Lower(pv) == 0..(Side(pv) - 1)

LEMMA SideFacts ==
    ASSUME NEW n \in Nat \ {0}
    PROVE  /\ Side(n) \in Nat /\ 2 * Side(n) < n
           /\ n % 2 = 1 => n = 2 * Side(n) + 1
  BY DEF Side

LEMMA ExtraFacts ==
    ASSUME NEW pv \in Nat \ {0}, NEW repl \in 1..pv
    PROVE  /\ Extra(pv, repl) \in 0..Side(pv)
           /\ Side(pv) - Extra(pv, repl) = Side(repl) /\ Side(repl) < repl
<1>1. Side(pv) \in Nat /\ Side(repl) \in Nat /\ Side(repl) <= Side(pv) /\ Side(repl) < repl
  BY DEF Side
<1> QED BY <1>1 DEF Extra

\* A nonempty set of numbers up to n has a greatest one.
LEMMA GreatestNatural ==
    ASSUME NEW n \in Nat, NEW T \in SUBSET (0..n), T # {}
    PROVE  \E x \in T : \A y \in T : y <= x
<1> DEFINE M == {n - x : x \in T}
<1>0. \A x \in T : n - x \in Nat
  OBVIOUS
<1>1. M \in SUBSET Nat /\ M # {}
  BY <1>0
<1>2. PICK m \in M : \A y \in M : m <= y
  BY <1>1, LeastNatural
<1>3. PICK x \in T : m = n - x
  BY <1>2
<1>4. ASSUME NEW y \in T PROVE y <= x
  <2>1. n - x <= n - y
    BY <1>2, <1>3
  <2>2. x \in Int /\ y \in Int
    OBVIOUS
  <2> QED BY <2>1, <2>2
<1> QED BY <1>4

\* __max returns a heaviest pair that is not popped yet.
LEMMA HeaviestFacts ==
    ASSUME NEW side \in Nat, NEW M \in Nat, NEW w \in [0..(side - 1) -> 0..M], NEW shs,
           NEW gone \in SUBSET (0..(side - 1)), gone # 0..(side - 1)
    PROVE  /\ Heaviest(w, gone, side, shs) \in (0..(side - 1)) \ gone
           /\ \A y \in (0..(side - 1)) \ gone : w[y] <= w[Heaviest(w, gone, side, shs)]
<1> DEFINE free == (0..(side - 1)) \ gone
           top == {x \in free : \A y \in free : w[y] <= w[x]}
           h == Heaviest(w, gone, side, shs)
<1>1. free # {} /\ \A x \in free : w[x] \in 0..M
  <2>1. free # {}
    OBVIOUS
  <2>2. \A x \in free : w[x] \in 0..M
    OBVIOUS
  <2> QED BY <2>1, <2>2
<1>2. top # {}
  <2> DEFINE V == {w[x] : x \in free}
  <2>1. V \in SUBSET (0..M) /\ V # {}
    BY <1>1
  <2> HIDE DEF free
  <2>2. PICK v \in V : \A y \in V : y <= v
    BY <2>1, GreatestNatural
  <2>3. PICK x \in free : w[x] = v
    BY <2>2
  <2>4. \A y \in free : w[y] <= w[x]
    BY <2>2, <2>3
  <2> QED BY <2>4
<1>3. top \in SUBSET Nat /\ top \in SUBSET (0..side)
  OBVIOUS
<1>4. h = IF shs # 1 THEN CHOOSE x \in top : \A y \in top : x <= y
                     ELSE CHOOSE x \in top : \A y \in top : y <= x
  BY DEF Heaviest
<1> HIDE DEF h, free
<1>5. h \in top
  <2> HIDE DEF top
  <2>1. \E x \in top : \A y \in top : x <= y
    BY <1>2, <1>3, LeastNatural
  <2>2. \E x \in top : \A y \in top : y <= x
    BY <1>2, <1>3, GreatestNatural
  <2> QED BY <1>4, <2>1, <2>2
<1>6. h \in free /\ \A y \in free : w[y] <= w[h]
  BY <1>5
<1> QED BY <1>6 DEF free, h

-----------------------------------------------------------------------------
(* The indexes popped for a shard. *)

\* n rounds of the loop that pops, of which f holds the results.
PopLoop(w, side, shs, n, f) ==
    [k \in 0..n |-> IF k = 0 THEN {} ELSE f[k - 1] \cup {Heaviest(w, f[k - 1], side, shs)}]

\* The loop has a result after any number of rounds.
LEMMA PopExists ==
    ASSUME NEW w, NEW side, NEW shs, NEW n \in Nat
    PROVE  \E g : g = PopLoop(w, side, shs, n, g)
<1> DEFINE D(g, m) == [k \in 0..m |-> IF k = 0 THEN {}
                                     ELSE g[k - 1] \cup {Heaviest(w, g[k - 1], side, shs)}]
           P == {m \in Nat : \E g : g = D(g, m)}
<1>1. 0 \in P
  <2> DEFINE g == [k \in 0..0 |-> {}]
  <2>1. g = D(g, 0)
    OBVIOUS
  <2> QED BY <2>1
<1>2. ASSUME NEW m \in Nat, m \in P PROVE m + 1 \in P
  <2>1. PICK g : g = D(g, m)
    BY <1>2
  <2> DEFINE h == [k \in 0..(m + 1) |->
                     IF k = m + 1 THEN g[m] \cup {Heaviest(w, g[m], side, shs)} ELSE g[k]]
  <2>2. ASSUME NEW k \in 0..(m + 1) PROVE h[k] = D(h, m + 1)[k]
    <3>1. CASE k = m + 1
      <4>1. k # 0 /\ k - 1 = m /\ h[k - 1] = g[m] /\ h[k] = g[m] \cup {Heaviest(w, g[m], side, shs)}
        BY <3>1
      <4>2. D(h, m + 1)[k] = h[k - 1] \cup {Heaviest(w, h[k - 1], side, shs)}
        BY <4>1
      <4> QED BY <4>1, <4>2
    <3>2. CASE k # m + 1 /\ k # 0
      <4>1. k \in 0..m /\ k - 1 \in 0..m /\ h[k] = g[k] /\ h[k - 1] = g[k - 1]
        BY <3>2
      <4>2. g[k] = g[k - 1] \cup {Heaviest(w, g[k - 1], side, shs)}
        BY <2>1, <3>2, <4>1
      <4>3. D(h, m + 1)[k] = h[k - 1] \cup {Heaviest(w, h[k - 1], side, shs)}
        BY <3>2
      <4> QED BY <4>1, <4>2, <4>3
    <3>3. CASE k = 0
      <4>1. 0 \in 0..m /\ k # m + 1
        BY <3>3
      <4>2. h[k] = g[0] /\ g[0] = {}
        BY <2>1, <3>3, <4>1
      <4> QED BY <3>3, <4>2
    <3> QED BY <3>1, <3>2, <3>3
  <2>3. h = D(h, m + 1)
    <3>1. h = [k \in 0..(m + 1) |-> h[k]] /\ D(h, m + 1) = [k \in 0..(m + 1) |-> D(h, m + 1)[k]]
      OBVIOUS
    <3> HIDE DEF h, D
    <3>2. [k \in 0..(m + 1) |-> h[k]] = [k \in 0..(m + 1) |-> D(h, m + 1)[k]]
      BY <2>2
    <3> QED BY <3>1, <3>2
  <2> HIDE DEF h, D
  <2> QED BY <2>3
<1>3. P = Nat
  <2> HIDE DEF P
  <2>1. P \in SUBSET Nat
    BY DEF P
  <2> QED BY <1>1, <1>2, <2>1, Induction
<1>4. \E g : g = D(g, n)
  BY <1>3
<1> QED BY <1>4 DEF PopLoop

\* A shard leaves out as many pairs as there are too many, and the most used
\* ones.
LEMMA PoppedFacts ==
    ASSUME NEW pv \in Nat \ {0}, NEW repl \in 1..pv, NEW M \in Nat,
           NEW w \in [Lower(pv) -> 0..M], NEW shs
    PROVE  /\ Popped(w, pv, repl, shs) \in SUBSET Lower(pv)
           /\ IsFiniteSet(Popped(w, pv, repl, shs))
           /\ Cardinality(Popped(w, pv, repl, shs)) = Extra(pv, repl)
           /\ \A x \in Popped(w, pv, repl, shs) :
                 \A y \in Lower(pv) \ Popped(w, pv, repl, shs) : w[y] <= w[x]
<1> DEFINE S == Side(pv)
           n == Extra(pv, repl)
           D(f) == PopLoop(w, S, shs, n, f)
           pop == CHOOSE f : f = D(f)
<1>0. S \in Nat /\ n \in 0..S /\ Lower(pv) = 0..(S - 1)
  BY SideFacts, ExtraFacts DEF Lower
<1>1. Popped(w, pv, repl, shs) = pop[n]
  BY DEF Popped, PopLoop
<1>2. pop = D(pop)
  <2>1. n \in Nat
    BY <1>0
  <2> HIDE DEF n, S
  <2>2. \E f : f = D(f)
    BY <2>1, PopExists
  <2> HIDE DEF D
  <2> QED BY <2>2
<1> HIDE DEF pop, n, S
<1>3. pop[0] = {} /\ \A k \in 1..n : pop[k] = pop[k - 1] \cup {Heaviest(w, pop[k - 1], S, shs)}
  <2>1. ASSUME NEW k \in 0..n
        PROVE  D(pop)[k] = IF k = 0 THEN {}
                           ELSE pop[k - 1] \cup {Heaviest(w, pop[k - 1], S, shs)}
    BY DEF PopLoop
  <2> HIDE DEF D
  <2>2. \A k \in 0..n : pop[k] = IF k = 0 THEN {}
                                 ELSE pop[k - 1] \cup {Heaviest(w, pop[k - 1], S, shs)}
    BY <1>2, <2>1
  <2>3. 0 \in 0..n /\ \A k \in 1..n : k \in 0..n /\ k # 0
    BY <1>0
  <2> QED BY <2>2, <2>3
<1> HIDE DEF D
<1> DEFINE Good(g, k) ==
             /\ g \in SUBSET (0..(S - 1)) /\ IsFiniteSet(g) /\ Cardinality(g) = k
             /\ \A x \in g : \A y \in (0..(S - 1)) \ g : w[y] <= w[x]
           P == {k \in Nat : k <= n => Good(pop[k], k)}
<1>4. 0 \in P
  BY <1>3, FS_EmptySet
<1>5. ASSUME NEW k \in Nat, k \in P PROVE k + 1 \in P
  <2> SUFFICES ASSUME k + 1 <= n PROVE Good(pop[k + 1], k + 1)
    OBVIOUS
  <2> DEFINE g == pop[k]
             h == Heaviest(w, g, S, shs)
  <2>1. Good(g, k) /\ k + 1 \in 1..n /\ (k + 1) - 1 = k
    BY <1>0, <1>5
  <2>2. pop[k + 1] = g \cup {h}
    BY <1>3, <2>1
  <2>3. g # 0..(S - 1)
    <3>1. Cardinality(0..(S - 1)) = S
      <4>1. 0 \in Int /\ S - 1 \in Int /\ (IF 0 > S - 1 THEN 0 ELSE (S - 1) - 0 + 1) = S
        BY <1>0
      <4> QED BY <4>1, FS_Interval
    <3>2. k # S
      BY <1>0
    <3> QED BY <2>1, <3>1, <3>2
  <2> HIDE DEF g
  <2>4. h \in (0..(S - 1)) \ g /\ \A y \in (0..(S - 1)) \ g : w[y] <= w[h]
    BY <1>0, <2>1, <2>3, HeaviestFacts
  <2> HIDE DEF h
  <2>5. IsFiniteSet(g \cup {h}) /\ Cardinality(g \cup {h}) = k + 1
    BY <2>1, <2>4, FS_AddElement
  <2>6. Good(g \cup {h}, k + 1)
    BY <2>1, <2>4, <2>5
  <2> QED BY <2>2, <2>6
<1>6. P = Nat
  <2>1. P \in SUBSET Nat
    OBVIOUS
  <2> HIDE DEF P
  <2> QED BY <1>4, <1>5, <2>1, Induction
<1>7. Good(pop[n], n)
  BY <1>0, <1>6
<1> QED BY <1>0, <1>1, <1>7 DEF n

-----------------------------------------------------------------------------
(* The weights. *)

\* The weights after a shard that left out the pairs in gone.
Heavier(pv, w, gone) == [i \in Lower(pv) |-> IF i \in gone THEN w[i] ELSE w[i] + 1]

\* The loop over n shards, of which f holds the results.
WeightLoop(pv, repl, shs, n, f) ==
    [k \in 0..n |->
       IF k = 0 THEN [i \in Lower(pv) |-> 0]
       ELSE Heavier(pv, f[k - 1], Popped(f[k - 1], pv, repl, shs))]

LEMMA WeightsExist ==
    ASSUME NEW pv, NEW repl, NEW shs, NEW n \in Nat
    PROVE  \E g : g = WeightLoop(pv, repl, shs, n, g)
<1> DEFINE Z == [i \in Lower(pv) |-> 0]
           St(w) == Heavier(pv, w, Popped(w, pv, repl, shs))
           D(g, m) == [k \in 0..m |-> IF k = 0 THEN Z ELSE St(g[k - 1])]
           P == {m \in Nat : \E g : g = D(g, m)}
<1>0. \A g : WeightLoop(pv, repl, shs, n, g) = D(g, n)
  BY DEF WeightLoop
<1> HIDE DEF Z, St
<1>1. 0 \in P
  <2> DEFINE g == [k \in 0..0 |-> Z]
  <2>1. g = D(g, 0)
    OBVIOUS
  <2> QED BY <2>1
<1>2. ASSUME NEW m \in Nat, m \in P PROVE m + 1 \in P
  <2>1. PICK g : g = D(g, m)
    BY <1>2
  <2> DEFINE h == [k \in 0..(m + 1) |-> IF k = m + 1 THEN St(g[m]) ELSE g[k]]
  <2>2. ASSUME NEW k \in 0..(m + 1) PROVE h[k] = D(h, m + 1)[k]
    <3>1. CASE k = m + 1
      <4>1. k # 0 /\ k - 1 = m /\ h[k - 1] = g[m] /\ h[k] = St(g[m])
        BY <3>1
      <4>2. D(h, m + 1)[k] = St(h[k - 1])
        BY <4>1
      <4> QED BY <4>1, <4>2
    <3>2. CASE k # m + 1 /\ k # 0
      <4>1. k \in 0..m /\ k - 1 \in 0..m /\ h[k] = g[k] /\ h[k - 1] = g[k - 1]
        BY <3>2
      <4>2. g[k] = St(g[k - 1])
        BY <2>1, <3>2, <4>1
      <4>3. D(h, m + 1)[k] = St(h[k - 1])
        BY <3>2
      <4> QED BY <4>1, <4>2, <4>3
    <3>3. CASE k = 0
      <4>1. 0 \in 0..m /\ k # m + 1
        BY <3>3
      <4>2. h[k] = g[0] /\ g[0] = Z
        BY <2>1, <3>3, <4>1
      <4> QED BY <3>3, <4>2
    <3> QED BY <3>1, <3>2, <3>3
  <2>3. h = D(h, m + 1)
    <3>1. h = [k \in 0..(m + 1) |-> h[k]] /\ D(h, m + 1) = [k \in 0..(m + 1) |-> D(h, m + 1)[k]]
      OBVIOUS
    <3> HIDE DEF h, D
    <3>2. [k \in 0..(m + 1) |-> h[k]] = [k \in 0..(m + 1) |-> D(h, m + 1)[k]]
      BY <2>2
    <3> QED BY <3>1, <3>2
  <2> HIDE DEF h, D
  <2> QED BY <2>3
<1>3. P = Nat
  <2> HIDE DEF P
  <2>1. P \in SUBSET Nat
    BY DEF P
  <2> QED BY <1>1, <1>2, <2>1, Induction
<1>4. \E g : g = D(g, n)
  BY <1>3
<1> QED BY <1>0, <1>4

\* The weights before a shard follow from those before its predecessor.
LEMMA WeightsStep ==
    ASSUME NEW pv, NEW repl, NEW shs \in Nat
    PROVE  /\ Weights(pv, repl, shs, 0) = [i \in Lower(pv) |-> 0]
           /\ \A s \in 1..shs :
                 Weights(pv, repl, shs, s) =
                    Heavier(pv, Weights(pv, repl, shs, s - 1),
                            Popped(Weights(pv, repl, shs, s - 1), pv, repl, shs))
<1> DEFINE D(f) == WeightLoop(pv, repl, shs, shs, f)
           w == CHOOSE f : f = D(f)
<1>1. \A s : Weights(pv, repl, shs, s) = w[s]
  BY DEF Weights, WeightLoop, Heavier, Lower
<1>2. w = D(w)
  <2>1. \E f : f = D(f)
    BY WeightsExist
  <2> HIDE DEF D
  <2> QED BY <2>1
<1> HIDE DEF w
<1>3. ASSUME NEW k \in 0..shs
      PROVE  D(w)[k] = IF k = 0 THEN [i \in Lower(pv) |-> 0]
                       ELSE Heavier(pv, w[k - 1], Popped(w[k - 1], pv, repl, shs))
  BY DEF WeightLoop
<1> HIDE DEF D
<1>4. \A k \in 0..shs : w[k] = IF k = 0 THEN [i \in Lower(pv) |-> 0]
                               ELSE Heavier(pv, w[k - 1], Popped(w[k - 1], pv, repl, shs))
  BY <1>2, <1>3
<1>5. 0 \in 0..shs /\ \A k \in 1..shs : k \in 0..shs /\ k # 0
  OBVIOUS
<1> QED BY <1>1, <1>4, <1>5

\* No weight is ahead of the shards placed, and no two differ by more than one.
WeightsOK(pv, w, n) ==
    w \in [Lower(pv) -> 0..n] /\ \A x, y \in Lower(pv) : w[x] - w[y] <= 1

LEMMA WeightsFacts ==
    ASSUME NEW pv \in Nat \ {0}, NEW repl \in 1..pv, NEW shs \in Nat, NEW s \in 0..shs
    PROVE  WeightsOK(pv, Weights(pv, repl, shs, s), s)
<1> DEFINE W(k) == Weights(pv, repl, shs, k)
           P == {k \in Nat : k <= shs => WeightsOK(pv, W(k), k)}
<1>1. 0 \in P
  BY WeightsStep DEF WeightsOK
<1>2. ASSUME NEW k \in Nat, k \in P PROVE k + 1 \in P
  <2> SUFFICES ASSUME k + 1 <= shs PROVE WeightsOK(pv, W(k + 1), k + 1)
    OBVIOUS
  <2> DEFINE w == W(k)
             gone == Popped(w, pv, repl, shs)
  <2>1. WeightsOK(pv, w, k) /\ k + 1 \in 1..shs /\ (k + 1) - 1 = k
    BY <1>2
  <2>2. W(k + 1) = Heavier(pv, w, gone)
    <3>1. \A j \in 1..shs : W(j) = Heavier(pv, W(j - 1), Popped(W(j - 1), pv, repl, shs))
      BY WeightsStep
    <3> HIDE DEF W
    <3>2. W(k + 1) = Heavier(pv, W((k + 1) - 1), Popped(W((k + 1) - 1), pv, repl, shs))
      BY <2>1, <3>1
    <3> QED BY <2>1, <3>2
  <2> HIDE DEF W, w
  <2>3. \A x \in gone : \A y \in Lower(pv) \ gone : w[y] <= w[x]
    BY <2>1, PoppedFacts DEF WeightsOK
  <2> HIDE DEF gone
  <2>4. \A x \in Lower(pv) : w[x] \in 0..k
    BY <2>1 DEF WeightsOK
  <2>5. Heavier(pv, w, gone) \in [Lower(pv) -> 0..(k + 1)]
    BY <2>4 DEF Heavier
  <2>6. ASSUME NEW x \in Lower(pv), NEW y \in Lower(pv)
        PROVE  Heavier(pv, w, gone)[x] - Heavier(pv, w, gone)[y] <= 1
    <3>1. w[x] \in Int /\ w[y] \in Int /\ w[x] - w[y] <= 1
      BY <2>1, <2>4 DEF WeightsOK
    <3>2. (y \in gone /\ x \notin gone) => w[x] <= w[y]
      BY <2>3
    <3>3. /\ Heavier(pv, w, gone)[x] = IF x \in gone THEN w[x] ELSE w[x] + 1
          /\ Heavier(pv, w, gone)[y] = IF y \in gone THEN w[y] ELSE w[y] + 1
      BY DEF Heavier
    <3> QED BY <3>1, <3>2, <3>3
  <2> QED BY <2>2, <2>5, <2>6 DEF WeightsOK
<1>3. P = Nat
  <2> HIDE DEF P
  <2>1. P \in SUBSET Nat
    BY DEF P
  <2> QED BY <1>1, <1>2, <2>1, Induction
<1> QED BY <1>3

-----------------------------------------------------------------------------
(* The volumes a shard keeps, and the one a replica gets. *)

\* What shard s leaves out on the lower side.
Gone(pv, repl, shs, s) == Popped(Weights(pv, repl, shs, s), pv, repl, shs)

LEMMA GoneFacts ==
    ASSUME NEW pv \in Nat \ {0}, NEW repl \in 1..pv, NEW shs \in Nat, NEW s \in 0..shs
    PROVE  /\ Gone(pv, repl, shs, s) \in SUBSET Lower(pv)
           /\ IsFiniteSet(Gone(pv, repl, shs, s))
           /\ Cardinality(Gone(pv, repl, shs, s)) = Extra(pv, repl)
<1>1. s \in Nat /\ Weights(pv, repl, shs, s) \in [Lower(pv) -> 0..s]
  BY WeightsFacts DEF WeightsOK
<1> QED BY <1>1, PoppedFacts DEF Gone

\* The volumes kept are the same on both sides, and on the lower side they are
\* those not left out.
LEMMA KeptFacts ==
    ASSUME NEW pv \in Nat \ {0}, NEW repl \in 1..pv, NEW shs \in Nat, NEW s \in 0..shs
    PROVE  /\ Kept(pv, repl, shs, s) \in SUBSET (0..(pv - 1))
           /\ IsFiniteSet(Kept(pv, repl, shs, s))
           /\ Cardinality(Kept(pv, repl, shs, s)) = pv - 2 * Extra(pv, repl)
           /\ \A v \in 0..(pv - 1) : v \in Kept(pv, repl, shs, s)
                                       <=> pv - 1 - v \in Kept(pv, repl, shs, s)
           /\ \A v \in Lower(pv) : v \in Kept(pv, repl, shs, s)
                                       <=> v \notin Gone(pv, repl, shs, s)
<1> DEFINE gone == Gone(pv, repl, shs, s)
           mirror == {pv - 1 - x : x \in gone}
           all == 0..(pv - 1)
           kept == Kept(pv, repl, shs, s)
           S == Side(pv)
<1>1. kept = all \ (gone \cup mirror)
  BY DEF Kept, Gone
<1>2. gone \in SUBSET (0..(S - 1)) /\ IsFiniteSet(gone) /\ Cardinality(gone) = Extra(pv, repl)
  BY GoneFacts DEF Lower
<1>3. S \in Nat /\ 2 * S < pv /\ Lower(pv) = 0..(S - 1) /\ Extra(pv, repl) \in Nat
  BY SideFacts, ExtraFacts DEF Lower
<1> HIDE DEF gone, kept, S
<1>4. \A x \in gone : x \in Int /\ 0 <= x /\ x < S
  BY <1>2, <1>3
<1>5. \A v \in mirror : v \in Int /\ S <= v /\ v < pv
  BY <1>3, <1>4
<1>6. gone \cap mirror = {} /\ gone \subseteq all /\ mirror \subseteq all
  <2>1. \A v \in mirror : v \notin gone /\ v \in all
    BY <1>3, <1>4, <1>5
  <2>2. \A v \in gone : v \in all
    BY <1>3, <1>4
  <2> HIDE DEF mirror, all
  <2> QED BY <2>1, <2>2
<1>7. IsFiniteSet(mirror) /\ Cardinality(mirror) = Cardinality(gone)
  <2> DEFINE f == [x \in gone |-> pv - 1 - x]
  <2>1. f \in Bijection(gone, mirror)
    <3>1. f \in [gone -> mirror]
      OBVIOUS
    <3>2. \A x, y \in gone : f[x] = f[y] => x = y
      BY <1>3, <1>4
    <3>3. \A v \in mirror : \E x \in gone : f[x] = v
      OBVIOUS
    <3> HIDE DEF mirror, f
    <3> QED BY <3>1, <3>2, <3>3 DEF Bijection, Injection, Surjection, IsInjective
  <2>2. ExistsBijection(gone, mirror)
    BY <2>1 DEF ExistsBijection
  <2> HIDE DEF mirror
  <2> QED BY <1>2, <2>2, FS_Bijection
<1>8. IsFiniteSet(all) /\ Cardinality(all) = pv
  <2>1. 0 \in Int /\ pv - 1 \in Int /\ ~(0 > pv - 1) /\ (pv - 1) - 0 + 1 = pv
    OBVIOUS
  <2> QED BY <2>1, FS_Interval
<1>9. IsFiniteSet(kept) /\ Cardinality(kept) = pv - 2 * Extra(pv, repl)
  <2> HIDE DEF mirror, all
  <2>1. /\ IsFiniteSet(gone \cup mirror)
        /\ Cardinality(gone \cup mirror) = Cardinality(gone) + Cardinality(mirror) - 0
    <3>1. Cardinality(gone \cap mirror) = 0
      BY <1>6, FS_EmptySet
    <3> QED BY <1>2, <1>7, <3>1, FS_Union
  <2>2. all \cap (gone \cup mirror) = gone \cup mirror
    BY <1>6
  <2>3. IsFiniteSet(kept) /\ Cardinality(kept) = Cardinality(all) - Cardinality(gone \cup mirror)
    BY <1>1, <1>8, <2>2, FS_Difference
  <2>4. Cardinality(gone \cup mirror) = 2 * Extra(pv, repl)
    BY <1>2, <1>3, <1>7, <2>1
  <2> QED BY <1>8, <2>3, <2>4
<1>10. ASSUME NEW v \in all PROVE v \in kept <=> pv - 1 - v \in kept
  <2>1. v \in Int /\ pv - 1 - v \in all /\ pv - 1 - (pv - 1 - v) = v
    OBVIOUS
  <2>2. ASSUME NEW u \in all, pv - 1 - u \in gone PROVE u \in mirror
    <3>1. u = pv - 1 - (pv - 1 - u)
      OBVIOUS
    <3> QED BY <2>2, <3>1
  <2>3. ASSUME NEW u \in mirror PROVE pv - 1 - u \in gone
    <3>1. PICK x \in gone : u = pv - 1 - x
      BY <2>3
    <3>2. x = pv - 1 - u
      BY <1>4, <3>1
    <3> QED BY <3>2
  <2>4. \A u \in all : u \in mirror <=> pv - 1 - u \in gone
    BY <2>2, <2>3
  <2> HIDE DEF mirror, all
  <2> QED BY <1>1, <2>1, <2>4
<1>11. ASSUME NEW v \in Lower(pv) PROVE v \in kept <=> v \notin gone
  <2>1. v \in all /\ v \notin mirror
    BY <1>3, <1>5
  <2> HIDE DEF mirror, all
  <2> QED BY <1>1, <2>1
<1>12. kept \in SUBSET all
  BY <1>1
<1> QED BY <1>9, <1>10, <1>11, <1>12 DEF kept, gone

\* The place of x in the set of numbers K.
Rank(K, x) == Cardinality({y \in K : y < x})

\* The numbers of a set are ranked 0, 1, ... without gaps.
LEMMA RankFacts ==
    ASSUME NEW n \in Nat, NEW K \in SUBSET (0..n), IsFiniteSet(K)
    PROVE  /\ \A x \in K : Rank(K, x) \in 0..(Cardinality(K) - 1)
           /\ \A x, y \in K : Rank(K, x) = Rank(K, y) => x = y
           /\ \A i \in 0..(Cardinality(K) - 1) : \E x \in K : Rank(K, x) = i
<1> DEFINE c == Cardinality(K)
           below(x) == {y \in K : y < x}
<1>0. c \in Nat
  BY FS_CardinalityType
<1>1. ASSUME NEW x \in K PROVE IsFiniteSet(below(x)) /\ Rank(K, x) \in Nat
  <2>1. below(x) \in SUBSET K
    OBVIOUS
  <2>2. IsFiniteSet(below(x))
    BY <2>1, FS_Subset
  <2> QED BY <2>2, FS_CardinalityType DEF Rank
<1>2. ASSUME NEW x \in K PROVE Rank(K, x) \in 0..(c - 1)
  <2>1. below(x) \in SUBSET K /\ below(x) # K
    <3>1. x \notin below(x)
      OBVIOUS
    <3> QED BY <3>1
  <2> DEFINE b == below(x)
  <2>2. Rank(K, x) = Cardinality(b)
    BY DEF Rank
  <2> HIDE DEF b
  <2>3. Cardinality(b) <= c /\ Cardinality(b) # c
    BY <2>1, FS_Subset DEF b
  <2>4. Rank(K, x) \in Nat /\ Rank(K, x) <= c /\ Rank(K, x) # c
    BY <1>1, <2>2, <2>3
  <2> HIDE DEF c
  <2> QED BY <1>0, <2>4
<1>3. ASSUME NEW x \in K, NEW y \in K, x < y PROVE Rank(K, x) # Rank(K, y)
  <2> DEFINE bx == below(x)
             by == below(y)
  <2>1. bx \in SUBSET by /\ bx # by
    <3>1. x \in Int /\ y \in Int /\ \A z \in K : z \in Int
      OBVIOUS
    <3>2. x \in by /\ x \notin bx
      BY <1>3, <3>1
    <3>3. \A z \in K : z < x => z < y
      BY <1>3, <3>1
    <3> QED BY <3>2, <3>3
  <2>2. IsFiniteSet(by) /\ Rank(K, x) = Cardinality(bx) /\ Rank(K, y) = Cardinality(by)
    BY <1>1 DEF Rank
  <2> HIDE DEF bx, by
  <2> QED BY <2>1, <2>2, FS_Subset
<1>4. \A x, y \in K : Rank(K, x) = Rank(K, y) => x = y
  <2>1. \A x, y \in K : x < y \/ y < x \/ x = y
    OBVIOUS
  <2> QED BY <1>3, <2>1
<1> DEFINE f == [x \in K |-> Rank(K, x)]
           T == 0..(c - 1)
<1>5. IsFiniteSet(T) /\ Cardinality(T) = c
  <2>1. 0 \in Int /\ c - 1 \in Int /\ (IF 0 > c - 1 THEN 0 ELSE (c - 1) - 0 + 1) = c
    BY <1>0
  <2> QED BY <2>1, FS_Interval
<1> HIDE DEF T
<1>6. f \in Injection(K, T)
  <2>1. f \in [K -> T]
    BY <1>2 DEF T
  <2>2. \A x, y \in K : f[x] = f[y] => x = y
    BY <1>4
  <2> HIDE DEF f
  <2> QED BY <2>1, <2>2 DEF Injection, IsInjective
<1>7. \A i \in T : \E x \in K : f[x] = i
  <2> HIDE DEF f
  <2>1. f \in Surjection(K, T)
    BY <1>5, <1>6, FS_Injection
  <2> QED BY <2>1 DEF Surjection
<1>8. \A i \in T : \E x \in K : Rank(K, x) = i
  BY <1>7
<1> QED BY <1>2, <1>4, <1>8 DEF T

\* Replica i of a shard gets the volume of its rank, and the replicas that
\* get volume v are the one of v's rank, if the shard keeps v.
LEMMA DistributionFacts ==
    ASSUME NEW pv \in Nat \ {0}, NEW repl \in 1..pv, NEW shs \in Nat, NEW s \in 0..shs
    PROVE  /\ \A i \in 0..(repl - 1) : \A v \in 0..(pv - 1) :
                 ElementsDistribution(pv, repl, i, shs, s) = v
                    <=> v \in Kept(pv, repl, shs, s) /\ Rank(Kept(pv, repl, shs, s), v) = i
           /\ \A i \in 0..(Cardinality(Kept(pv, repl, shs, s)) - 1) :
                 ElementsDistribution(pv, repl, i, shs, s) \in 0..(pv - 1)
<1> DEFINE K == Kept(pv, repl, shs, s)
           c == Cardinality(K)
           E(i) == ElementsDistribution(pv, repl, i, shs, s)
<1>1. K \in SUBSET (0..(pv - 1)) /\ IsFiniteSet(K) /\ pv - 1 \in Nat
  BY KeptFacts
<1>2. \A i : E(i) = IF i >= c THEN OutOfRange ELSE CHOOSE x \in K : Rank(K, x) = i
  BY DEF ElementsDistribution, Rank
<1> HIDE DEF K, E
<1>3. c \in Nat
  BY <1>1, FS_CardinalityType
<1>4. /\ \A x \in K : Rank(K, x) \in 0..(c - 1)
      /\ \A x, y \in K : Rank(K, x) = Rank(K, y) => x = y
      /\ \A i \in 0..(c - 1) : \E x \in K : Rank(K, x) = i
  BY <1>1, RankFacts
<1> HIDE DEF c
<1>5. ASSUME NEW i \in 0..(c - 1) PROVE E(i) \in K /\ Rank(K, E(i)) = i
  <2>1. ~(i >= c)
    BY <1>3
  <2>2. E(i) = CHOOSE x \in K : Rank(K, x) = i
    BY <1>2, <2>1
  <2> QED BY <1>4, <2>2
<1>6. ASSUME NEW i \in 0..(repl - 1), NEW v \in 0..(pv - 1)
      PROVE  E(i) = v <=> v \in K /\ Rank(K, v) = i
  <2>1. CASE i \in 0..(c - 1)
    BY <1>4, <1>5, <2>1
  <2>2. CASE i \notin 0..(c - 1)
    <3>1. i >= c
      BY <1>3, <2>2
    <3>2. E(i) # v
      BY <1>2, <3>1 DEF OutOfRange
    <3>3. ~(v \in K /\ Rank(K, v) = i)
      BY <1>4, <2>2
    <3> QED BY <3>2, <3>3
  <2> QED BY <2>1, <2>2
<1>7. \A i \in 0..(c - 1) : E(i) \in 0..(pv - 1)
  BY <1>1, <1>5
<1> QED BY <1>6, <1>7 DEF K, E, c

\* Replicas of a shard on volume v.
Load(pv, repl, shs, s, v) ==
    Cardinality({i \in 0..(repl - 1) : ElementsDistribution(pv, repl, i, shs, s) = v})

\* A volume carries at most one replica of a shard; on the lower side exactly
\* the volumes not left out carry one, and in sets of odd size over an odd
\* number of volumes a volume does when its counterpart does.
LEMMA LoadFacts ==
    ASSUME NEW pv \in Nat \ {0}, NEW repl \in 1..pv, NEW shs \in Nat, NEW s \in 0..shs
    PROVE  /\ \A v \in 0..(pv - 1) : Load(pv, repl, shs, s, v) \in {0, 1}
           /\ \A v \in Lower(pv) : Load(pv, repl, shs, s, v) =
                                     IF v \in Gone(pv, repl, shs, s) THEN 0 ELSE 1
           /\ (pv % 2 = 1 /\ repl % 2 = 1) =>
                 /\ Cardinality(Kept(pv, repl, shs, s)) = repl
                 /\ \A v \in 0..(pv - 1) :
                      Load(pv, repl, shs, s, v) = Load(pv, repl, shs, s, pv - 1 - v)
<1> DEFINE K == Kept(pv, repl, shs, s)
           c == Cardinality(K)
           L(v) == Load(pv, repl, shs, s, v)
           A(v) == {i \in 0..(repl - 1) : ElementsDistribution(pv, repl, i, shs, s) = v}
<1>1. /\ K \in SUBSET (0..(pv - 1)) /\ IsFiniteSet(K) /\ c = pv - 2 * Extra(pv, repl)
      /\ \A v \in 0..(pv - 1) : v \in K <=> pv - 1 - v \in K
      /\ \A v \in Lower(pv) : v \in K <=> v \notin Gone(pv, repl, shs, s)
  BY KeptFacts
<1>2. \A v \in 0..(pv - 1) : A(v) = {i \in 0..(repl - 1) : v \in K /\ Rank(K, v) = i}
  BY DistributionFacts
<1>3. \A v : L(v) = Cardinality(A(v))
  BY DEF Load
<1>0. pv - 1 \in Nat
  OBVIOUS
<1> HIDE DEF K, A, L
<1>4. \A x \in K : Rank(K, x) \in 0..(c - 1)
  BY <1>0, <1>1, RankFacts
<1>5. ASSUME NEW v \in 0..(pv - 1)
      PROVE  L(v) = IF v \in K /\ Rank(K, v) < repl THEN 1 ELSE 0
  <2>1. CASE v \in K /\ Rank(K, v) < repl
    <3>1. Rank(K, v) \in 0..(repl - 1)
      <4>1. c \in Int
        BY <1>1, FS_CardinalityType
      <4> QED BY <1>4, <2>1, <4>1
    <3>2. A(v) = {Rank(K, v)}
      BY <1>2, <2>1, <3>1
    <3> QED BY <1>3, <2>1, <3>2, FS_Singleton
  <2>2. CASE ~(v \in K /\ Rank(K, v) < repl)
    <3>1. A(v) = {}
      BY <1>2, <2>2
    <3> QED BY <1>3, <2>2, <3>1, FS_EmptySet
  <2> QED BY <2>1, <2>2
<1>6. ASSUME NEW v \in Lower(pv), v \in K PROVE Rank(K, v) < repl
  <2> DEFINE b == {y \in K : y < v}
             gone == Gone(pv, repl, shs, s)
             low == Lower(pv) \ gone
             S == Side(pv)
  <2>1. /\ S \in Nat /\ 2 * S < pv /\ Lower(pv) = 0..(S - 1)
        /\ S - Extra(pv, repl) = Side(repl) /\ Side(repl) < repl /\ Side(repl) \in Int
    <3>1. repl \in Nat \ {0}
      OBVIOUS
    <3>2. /\ S \in Nat /\ 2 * S < pv /\ Side(repl) \in Int
      BY <3>1, SideFacts
    <3> QED BY <3>2, ExtraFacts DEF Lower
  <2>2. gone \in SUBSET Lower(pv) /\ IsFiniteSet(gone) /\ Cardinality(gone) = Extra(pv, repl)
    BY GoneFacts
  <2>3. IsFiniteSet(Lower(pv)) /\ Cardinality(Lower(pv)) = S
    <3>1. 0 \in Int /\ S - 1 \in Int /\ (IF 0 > S - 1 THEN 0 ELSE (S - 1) - 0 + 1) = S
      BY <2>1
    <3> QED BY <2>1, <3>1, FS_Interval
  <2> HIDE DEF gone, S
  <2>4. IsFiniteSet(low) /\ Cardinality(low) = Side(repl)
    <3>1. Lower(pv) \cap gone = gone
      BY <2>2
    <3> QED BY <2>1, <2>2, <2>3, <3>1, FS_Difference
  <2>5. b \in SUBSET low
    <3>1. ASSUME NEW y \in K, y < v PROVE y \in Lower(pv) /\ y \notin gone
      <4>1. y \in 0..(pv - 1) /\ v \in 0..(S - 1)
        BY <1>1, <1>6, <2>1
      <4>2. y \in Lower(pv)
        BY <2>1, <3>1, <4>1
      <4> QED BY <1>1, <3>1, <4>2 DEF gone
    <3> QED BY <3>1
  <2> HIDE DEF low
  <2>6. Cardinality(b) <= Side(repl) /\ Cardinality(b) \in Nat
    BY <2>4, <2>5, FS_Subset, FS_CardinalityType
  <2>7. Rank(K, v) = Cardinality(b)
    BY DEF Rank
  <2> HIDE DEF b
  <2> QED BY <2>1, <2>6, <2>7
<1>7. \A v \in Lower(pv) : v \in 0..(pv - 1)
  BY SideFacts DEF Lower
<1>8. \A v \in Lower(pv) : L(v) = IF v \in Gone(pv, repl, shs, s) THEN 0 ELSE 1
  BY <1>1, <1>5, <1>6, <1>7
<1>9. ASSUME pv % 2 = 1, repl % 2 = 1
      PROVE  c = repl /\ \A v \in 0..(pv - 1) : L(v) = L(pv - 1 - v)
  <2>1. c = repl
    <3>1. /\ pv = 2 * Side(pv) + 1 /\ repl = 2 * Side(repl) + 1
          /\ Side(pv) \in Int /\ Side(repl) \in Int
      <4>1. repl \in Nat \ {0}
        OBVIOUS
      <4>2. /\ Side(pv) \in Nat /\ (pv % 2 = 1 => pv = 2 * Side(pv) + 1)
            /\ Side(repl) \in Nat /\ (repl % 2 = 1 => repl = 2 * Side(repl) + 1)
        BY <4>1, SideFacts
      <4>3. Side(pv) \in Int /\ Side(repl) \in Int
        BY <4>2
      <4> QED BY <1>9, <4>2, <4>3, Zenon
    <3> QED BY <1>1, <3>1 DEF Extra
  <2>2. \A v \in K : Rank(K, v) < repl
    <3> HIDE DEF c
    <3> QED BY <1>4, <2>1
  <2>3. ASSUME NEW v \in 0..(pv - 1) PROVE L(v) = L(pv - 1 - v)
    <3>1. pv - 1 - v \in 0..(pv - 1)
      OBVIOUS
    <3>2. v \in K <=> pv - 1 - v \in K
      BY <1>1
    <3> QED BY <1>5, <2>2, <3>1, <3>2
  <2> QED BY <2>1, <2>3
<1>10. \A v \in 0..(pv - 1) : L(v) \in {0, 1}
  BY <1>5
<1> QED BY <1>8, <1>9, <1>10 DEF L, K

-----------------------------------------------------------------------------
(* The loop over the shards. *)

\* The volumes carry what the weights count: on the lower side the load of a
\* volume is its weight.
LoadsAreWeights ==
    \A v \in Lower(MaxPVCCount(cnfSize, dataSize)) :
        used[v] = Weights(MaxPVCCount(cnfSize, dataSize), dataSize, shards, placed)[v]

PInv ==
    /\ cnfSize \in 1..MaxSize /\ dataSize \in 1..MaxSize /\ shards \in 1..MaxShards
    /\ ValidSizes(DR, cnfSize, dataSize, shards)
    /\ placed \in 0..shards
    /\ used \in [Volumes -> 0..placed]
    /\ LoadsAreWeights
    /\ ~DR => SidesAreEqual

LEMMA SizeFacts ==
    ASSUME PInv
    PROVE  /\ MaxPVCCount(cnfSize, dataSize) \in Nat \ {0}
           /\ cnfSize \in 1..MaxPVCCount(cnfSize, dataSize)
           /\ dataSize \in 1..MaxPVCCount(cnfSize, dataSize)
           /\ ~DR => /\ MaxPVCCount(cnfSize, dataSize) % 2 = 1
                     /\ cnfSize % 2 = 1 /\ dataSize % 2 = 1
           /\ shards \in Nat /\ placed \in 0..shards
<1>1. /\ MaxPVCCount(cnfSize, dataSize) \in {cnfSize, dataSize}
      /\ cnfSize <= MaxPVCCount(cnfSize, dataSize) /\ dataSize <= MaxPVCCount(cnfSize, dataSize)
      /\ cnfSize \in Nat \ {0} /\ dataSize \in Nat \ {0}
  BY PlacementAssumption DEF PInv, MaxPVCCount
<1>2. ~DR => cnfSize % 2 = 1 /\ dataSize % 2 = 1
  BY DEF PInv, ValidSizes
<1>3. shards \in Nat /\ placed \in 0..shards
  BY PlacementAssumption DEF PInv
<1> QED BY <1>1, <1>2, <1>3

LEMMA PlaceInit == Init => PInv
<1> SUFFICES ASSUME Init PROVE PInv
  OBVIOUS
<1> DEFINE pv == MaxPVCCount(cnfSize, dataSize)
<1>1. /\ cnfSize \in 1..MaxSize /\ dataSize \in 1..MaxSize /\ shards \in 1..MaxShards
      /\ ValidSizes(DR, cnfSize, dataSize, shards) /\ placed = 0
      /\ used = [v \in Volumes |-> 0]
  BY DEF Init
<1>2. shards \in Nat /\ pv \in Nat \ {0} /\ Volumes = 0..(pv - 1)
  BY <1>1, PlacementAssumption DEF MaxPVCCount, Volumes
<1> HIDE DEF pv
<1>3. used \in [Volumes -> 0..placed] /\ placed \in 0..shards
  BY <1>1, <1>2
<1>4. \A v \in Lower(pv) : v \in 0..(pv - 1)
  BY <1>2, SideFacts DEF Lower
<1>5. LoadsAreWeights
  <2>1. Weights(pv, dataSize, shards, 0) = [i \in Lower(pv) |-> 0]
    BY <1>2, WeightsStep
  <2>2. \A v \in Lower(pv) : used[v] = Weights(pv, dataSize, shards, placed)[v]
    BY <1>1, <1>2, <1>4, <2>1
  <2> QED BY <2>2 DEF LoadsAreWeights, pv
<1>6. SidesAreEqual
  <2>1. \A v \in Volumes : used[v] = used[pv - 1 - v]
    BY <1>1, <1>2
  <2> QED BY <2>1 DEF SidesAreEqual, pv
<1> QED BY <1>1, <1>3, <1>5, <1>6 DEF PInv

LEMMA PlaceStep == PInv /\ [Next]_vars => PInv'
<1> SUFFICES ASSUME PInv, [Next]_vars PROVE PInv'
  OBVIOUS
<1>1. CASE UNCHANGED vars
  <2>1. /\ cnfSize' = cnfSize /\ dataSize' = dataSize /\ shards' = shards
        /\ placed' = placed /\ used' = used
    BY <1>1 DEF vars
  <2> QED BY <2>1 DEF PInv, LoadsAreWeights, SidesAreEqual, Volumes
<1>2. CASE PlaceShard
  <2> DEFINE pv == MaxPVCCount(cnfSize, dataSize)
             w == Weights(pv, dataSize, shards, placed)
             gone == Gone(pv, dataSize, shards, placed)
             L(v) == Load(pv, dataSize, shards, placed, v)
  <2>1. /\ cnfSize' = cnfSize /\ dataSize' = dataSize /\ shards' = shards
        /\ placed' = placed + 1 /\ placed < shards
        /\ used' = [v \in Volumes |-> used[v] + L(v)]
    BY <1>2 DEF PlaceShard, DataVolume, Members, Load
  <2>2. /\ pv \in Nat \ {0} /\ dataSize \in 1..pv /\ shards \in Nat /\ placed \in 0..shards
        /\ ~DR => pv % 2 = 1 /\ dataSize % 2 = 1
    BY SizeFacts
  <2>3. Volumes = 0..(pv - 1) /\ Volumes' = Volumes /\ pv' = pv
    BY <2>1 DEF Volumes
  <2>4. used \in [Volumes -> 0..placed] /\ \A v \in Lower(pv) : used[v] = w[v]
    BY DEF PInv, LoadsAreWeights
  <2> HIDE DEF pv
  <2>5. /\ \A v \in 0..(pv - 1) : L(v) \in {0, 1}
        /\ \A v \in Lower(pv) : L(v) = IF v \in gone THEN 0 ELSE 1
        /\ (pv % 2 = 1 /\ dataSize % 2 = 1) => \A v \in 0..(pv - 1) : L(v) = L(pv - 1 - v)
    BY <2>2, LoadFacts
  <2> HIDE DEF L
  <2>6. used' \in [Volumes -> 0..(placed + 1)] /\ placed + 1 \in 0..shards
    <3>1. \A v \in Volumes : used[v] + L(v) \in 0..(placed + 1)
      BY <2>2, <2>3, <2>4, <2>5
    <3> QED BY <2>1, <2>2, <3>1
  <2>7. Weights(pv, dataSize, shards, placed + 1) = Heavier(pv, w, gone)
    <3> DEFINE W(k) == Weights(pv, dataSize, shards, k)
    <3>1. \A j \in 1..shards :
             W(j) = Heavier(pv, W(j - 1), Popped(W(j - 1), pv, dataSize, shards))
      BY <2>2, WeightsStep
    <3>2. placed + 1 \in 1..shards /\ (placed + 1) - 1 = placed
      BY <2>1, <2>2
    <3> HIDE DEF W
    <3>3. W(placed + 1) = Heavier(pv, W((placed + 1) - 1),
                                  Popped(W((placed + 1) - 1), pv, dataSize, shards))
      BY <3>1, <3>2
    <3>4. W(placed + 1) = Heavier(pv, W(placed), Popped(W(placed), pv, dataSize, shards))
      BY <3>2, <3>3
    <3> QED BY <3>4 DEF W, Gone
  <2>8. LoadsAreWeights'
    <3>1. \A v \in Lower(pv) : w[v] \in 0..placed /\ v \in Volumes
      <4>1. \A v \in Lower(pv) : v \in 0..(pv - 1)
        BY <2>2, SideFacts DEF Lower
      <4> QED BY <2>3, <2>4, <4>1
    <3>2. ASSUME NEW v \in Lower(pv)
          PROVE  used'[v] = Heavier(pv, w, gone)[v]
      <4>1. used'[v] = used[v] + L(v)
        BY <2>1, <3>1
      <4>2. Heavier(pv, w, gone)[v] = IF v \in gone THEN w[v] ELSE w[v] + 1
        BY DEF Heavier
      <4>3. w[v] \in Int /\ used[v] = w[v] /\ L(v) = IF v \in gone THEN 0 ELSE 1
        BY <2>4, <2>5, <3>1
      <4> QED BY <4>1, <4>2, <4>3
    <3>3. \A v \in Lower(pv) : used'[v] = Weights(pv, dataSize, shards, placed')[v]
      BY <2>1, <2>7, <3>2
    <3> QED BY <2>1, <2>3, <3>3 DEF LoadsAreWeights, pv
  <2>9. ASSUME ~DR PROVE SidesAreEqual'
    <3>1. \A v \in 0..(pv - 1) : L(v) = L(pv - 1 - v) /\ pv - 1 - v \in 0..(pv - 1)
      BY <2>2, <2>5, <2>9
    <3>2. \A v \in 0..(pv - 1) : used[v] = used[pv - 1 - v]
      BY <2>3, <2>9 DEF PInv, SidesAreEqual, pv
    <3>3. \A v \in 0..(pv - 1) : used'[v] = used'[pv - 1 - v]
      BY <2>1, <2>3, <3>1, <3>2
    <3> QED BY <2>1, <2>3, <3>3 DEF SidesAreEqual, pv
  <2>10. /\ (cnfSize \in 1..MaxSize)' /\ (dataSize \in 1..MaxSize)' /\ (shards \in 1..MaxShards)'
         /\ ValidSizes(DR, cnfSize, dataSize, shards)'
    BY <2>1 DEF PInv, ValidSizes
  <2> QED BY <2>1, <2>3, <2>6, <2>8, <2>9, <2>10 DEF PInv
<1> QED BY <1>1, <1>2 DEF Next

LEMMA PlaceAlways == Spec => []PInv
  BY PlaceInit, PlaceStep, PTL DEF Spec

\* Types of the variables: no volume gets more members than there are shards
\* placed, for any sizes, validated or not.
THEOREM PlacementTypeCorrect == Spec => []TypeOK
<1>1. PInv => TypeOK
  <2> SUFFICES ASSUME PInv PROVE TypeOK
    OBVIOUS
  <2>1. used \in [Volumes -> 0..placed] /\ placed \in 0..shards /\ shards \in Nat
    BY SizeFacts DEF PInv
  <2>2. \A v \in Volumes : used[v] \in 0..shards
    BY <2>1
  <2>3. used \in [Volumes -> 0..shards]
    BY <2>1, <2>2
  <2> QED BY <2>1, <2>3 DEF PInv, TypeOK
<1> QED BY <1>1, PlaceAlways, PTL

\* ElementsDistribution gives every member of the config set and of each shard
\* a volume of its own, for any odd sizes and any number of shards (the sizes
\* the validation lets through outside dr).
THEOREM EveryMemberPlacedAlways ==
    ASSUME ~DR
    PROVE  Spec => []EveryMemberPlaced
<1>1. PInv => EveryMemberPlaced
  <2> SUFFICES ASSUME PInv PROVE EveryMemberPlaced
    OBVIOUS
  <2> DEFINE pv == MaxPVCCount(cnfSize, dataSize)
  <2>0. /\ pv \in Nat \ {0} /\ cnfSize \in 1..pv /\ dataSize \in 1..pv
        /\ shards \in Nat /\ placed \in 0..shards
    BY SizeFacts
  <2>1. pv % 2 = 1 /\ cnfSize % 2 = 1 /\ dataSize % 2 = 1
    BY SizeFacts
  <2> HIDE DEF pv
  <2>2. ASSUME NEW repl \in 1..pv, repl % 2 = 1, NEW shs \in Nat, NEW s \in 0..shs
        PROVE  LET E(i) == ElementsDistribution(pv, repl, i, shs, s)
               IN /\ \A i \in 0..(repl - 1) : E(i) \in 0..(pv - 1)
                  /\ \A i, j \in 0..(repl - 1) : i # j => E(i) # E(j)
    <3> DEFINE E(i) == ElementsDistribution(pv, repl, i, shs, s)
               K == Kept(pv, repl, shs, s)
    <3>1. Cardinality(K) = repl
      <4>1. (pv % 2 = 1 /\ repl % 2 = 1) => Cardinality(K) = repl
        BY <2>0, LoadFacts, ZenonT(30)
      <4> QED BY <2>1, <2>2, <4>1, Zenon
    <3>2. ASSUME NEW i \in 0..(repl - 1)
          PROVE  E(i) \in 0..(pv - 1)
      <4>1. i \in 0..(Cardinality(K) - 1)
        BY <3>1
      <4> QED BY <2>0, <4>1, DistributionFacts
    <3>3. \A i \in 0..(repl - 1) : \A v \in 0..(pv - 1) : E(i) = v => v \in K /\ Rank(K, v) = i
      BY <2>0, <3>1, DistributionFacts
    <3> HIDE DEF E, K
    <3>4. \A i \in 0..(repl - 1) : Rank(K, E(i)) = i
      BY <3>2, <3>3
    <3>5. \A i, j \in 0..(repl - 1) : i # j => E(i) # E(j)
      BY <3>4
    <3> QED BY <3>2, <3>5 DEF E
  <2>3. Volumes = 0..(pv - 1)
    BY DEF Volumes, pv
  <2>4. /\ \A i \in 0..(cnfSize - 1) : CnfVolume(cnfSize, dataSize, i) \in Volumes
        /\ \A i, j \in 0..(cnfSize - 1) : i # j =>
              CnfVolume(cnfSize, dataSize, i) # CnfVolume(cnfSize, dataSize, j)
    <3>1. 1 \in Nat /\ 0 \in 0..1
      OBVIOUS
    <3> DEFINE C(i) == ElementsDistribution(pv, cnfSize, i, 1, 0)
    <3>2. /\ \A i \in 0..(cnfSize - 1) : C(i) \in 0..(pv - 1)
          /\ \A i, j \in 0..(cnfSize - 1) : i # j => C(i) # C(j)
      BY <2>0, <2>1, <2>2, <3>1
    <3>3. \A i : CnfVolume(cnfSize, dataSize, i) = C(i)
      BY DEF CnfVolume, pv
    <3> HIDE DEF C
    <3> QED BY <2>3, <3>2, <3>3
  <2>5. /\ \A i \in Members : DataVolume(cnfSize, dataSize, shards, placed, i) \in Volumes
        /\ \A i, j \in Members : i # j =>
              DataVolume(cnfSize, dataSize, shards, placed, i)
                # DataVolume(cnfSize, dataSize, shards, placed, j)
    <3> DEFINE E(i) == ElementsDistribution(pv, dataSize, i, shards, placed)
    <3>1. /\ \A i \in 0..(dataSize - 1) : E(i) \in 0..(pv - 1)
          /\ \A i, j \in 0..(dataSize - 1) : i # j => E(i) # E(j)
      BY <2>0, <2>1, <2>2
    <3>2. \A i : DataVolume(cnfSize, dataSize, shards, placed, i) = E(i)
      BY DEF DataVolume, pv
    <3> HIDE DEF E
    <3> QED BY <2>3, <3>1, <3>2 DEF Members
  <2> QED BY <2>4, <2>5 DEF EveryMemberPlaced
<1> QED BY <1>1, PlaceAlways, PTL

\* Either side of the deployment carries the same load, for any odd sizes and
\* any number of shards.
THEOREM SidesAreEqualAlways ==
    ASSUME ~DR
    PROVE  Spec => []SidesAreEqual
<1>1. PInv => SidesAreEqual
  BY DEF PInv
<1> QED BY <1>1, PlaceAlways, PTL

\* No volume of a side carries more than one shard more than another, for any
\* sizes and any number of shards, in dr as well.
THEOREM SidesAreEvenAlways == Spec => []SidesAreEven
<1>1. PInv => SidesAreEven
  <2> SUFFICES ASSUME PInv PROVE SidesAreEven
    OBVIOUS
  <2> DEFINE pv == MaxPVCCount(cnfSize, dataSize)
             w == Weights(pv, dataSize, shards, placed)
  <2>1. WeightsOK(pv, w, placed)
    BY SizeFacts, WeightsFacts
  <2>2. \A v \in Lower(pv) : used[v] = w[v]
    BY DEF PInv, LoadsAreWeights
  <2>3. Lower(pv) = 0..(Side(pv) - 1)
    BY DEF Lower
  <2> HIDE DEF w
  <2>4. \A v, u \in Lower(pv) : used[v] - used[u] <= 1
    BY <2>1, <2>2 DEF WeightsOK
  <2> QED BY <2>3, <2>4 DEF SidesAreEven
<1> QED BY <1>1, PlaceAlways, PTL

=============================================================================
