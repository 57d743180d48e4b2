--------------------------- MODULE CollectorProofs ---------------------------
(***************************************************************************)
(* What a collection of the VM keeps: the roots, and all that what it      *)
(* keeps refers to.                                                        *)
(***************************************************************************)
EXTENDS VM, ValuesProofs, FiniteSetTheorems

(* What a set of cells and the cells they refer to come to.                *)
Referred(s, h, u) == (UNION {RefsOf(h[k], u) : k \in s}) \cap DOMAIN h
Spreads(f, h, u, roots) ==
  f = [n \in 0 .. Cardinality(DOMAIN h) |->
         IF n = 0 THEN roots \cap DOMAIN h ELSE f[n - 1] \cup Referred(f[n - 1], h, u)]
Spreading(h, u, roots) == CHOOSE f : Spreads(f, h, u, roots)

LEMMA ReferredIsThere ==
  ASSUME NEW s, NEW h, NEW u
  PROVE  Referred(s, h, u) \subseteq DOMAIN h
BY Zenon DEF Referred

LEMMA SpreadingIsRecursive ==
  ASSUME NEW h, NEW u, NEW roots, IsFiniteSet(DOMAIN h)
  PROVE  /\ ReachedFrom(h, u, roots) = Spreading(h, u, roots)[Cardinality(DOMAIN h)]
         /\ Spreads(Spreading(h, u, roots), h, u, roots)
<1>1. Cardinality(DOMAIN h) \in Nat
  BY FS_CardinalityType
<1> DEFINE D == DOMAIN h
           N == Cardinality(D)
           F == [n \in 1 .. N |-> [s \in SUBSET D |-> s \cup Referred(s, h, u)]]
           base == roots \cap D
<1>2. ASSUME NEW n \in 1 .. N, NEW s \in SUBSET D
      PROVE  F[n][s] = s \cup Referred(s, h, u) /\ F[n][s] \in SUBSET D
  <2>1. Referred(s, h, u) \subseteq D
    BY ReferredIsThere
  <2> QED
    BY <2>1
<1>3. base \in SUBSET D
  OBVIOUS
<1> N \in Nat
  BY <1>1
<1> HIDE DEF D, N, F, base
<1>4. StaysIn(F, N, SUBSET D)
  BY <1>2 DEF StaysIn
<1>5. PICK f : Follows(f, F, N, SUBSET D, base)
  BY <1>1, <1>3, <1>4, Recursion
<1>6. f \in [0 .. N -> SUBSET D] /\ f[0] = base /\ \A n \in 1 .. N : f[n] = F[n][f[n - 1]]
  BY <1>5 DEF Follows
<1>7. ASSUME NEW n \in 1 .. N PROVE f[n] = f[n - 1] \cup Referred(f[n - 1], h, u)
  <2>1. f[n - 1] \in SUBSET D
    BY <1>1, <1>6
  <2> QED
    BY <1>2, <1>6, <2>1
<1>8. f = [n \in 0 .. N |-> IF n = 0 THEN base ELSE f[n - 1] \cup Referred(f[n - 1], h, u)]
  BY <1>1, <1>6, <1>7
<1>9. Spreads(f, h, u, roots)
  BY <1>8 DEF Spreads, N, D, base
<1>10. Spreads(Spreading(h, u, roots), h, u, roots)
  BY <1>9 DEF Spreading
<1>11. ReachedFrom(h, u, roots) = Spreading(h, u, roots)[Cardinality(DOMAIN h)]
  BY DEF ReachedFrom, Spreading, Spreads, Referred
<1> QED
  BY <1>10, <1>11

(* A collection keeps the roots that have a cell, no cell that was not     *)
(* there, and with a cell all it refers to.  Each round adds a cell until  *)
(* one adds none, and there are as many rounds as cells.                   *)
THEOREM ReachedFromIsClosed ==
  ASSUME NEW h, NEW u, NEW roots, IsFiniteSet(DOMAIN h)
  PROVE  /\ ReachedFrom(h, u, roots) \subseteq DOMAIN h
         /\ roots \cap DOMAIN h \subseteq ReachedFrom(h, u, roots)
         /\ Referred(ReachedFrom(h, u, roots), h, u) \subseteq ReachedFrom(h, u, roots)
<1>1. Cardinality(DOMAIN h) \in Nat
  BY FS_CardinalityType
<1> DEFINE D == DOMAIN h
           N == Cardinality(D)
           f == Spreading(h, u, roots)
           base == roots \cap D
<1>2. f[0] = base /\ \A n \in 1 .. N : f[n] = f[n - 1] \cup Referred(f[n - 1], h, u)
  BY <1>1, SpreadingIsRecursive DEF Spreads
<1>3. ReachedFrom(h, u, roots) = f[N]
  BY SpreadingIsRecursive
<1>4. base \in SUBSET D /\ IsFiniteSet(D)
  OBVIOUS
<1>5. \A s : Referred(s, h, u) \subseteq D
  BY ReferredIsThere
<1> DEFINE Closed(s) == Referred(s, h, u) \subseteq s
           Q == {n \in 0 .. N : /\ f[n] \in SUBSET D /\ base \subseteq f[n]
                                /\ Closed(f[n]) \/ Cardinality(f[n]) >= n}
<1> N \in Nat
  BY <1>1
<1> HIDE DEF D, N, f, base
<1>6. 0 \in Q
  <2>1. IsFiniteSet(base) /\ Cardinality(base) \in Nat
    BY <1>4, FS_Subset, FS_CardinalityType
  <2> QED
    BY <1>1, <1>2, <1>4, <2>1
<1>7. ASSUME NEW n \in 1 .. N, n - 1 \in Q PROVE n \in Q
  <2> DEFINE s == f[n - 1]
             t == Referred(s, h, u)
  <2>1. f[n] = s \cup t /\ s \in SUBSET D /\ base \subseteq s /\ t \subseteq D
    BY <1>2, <1>5, <1>7
  <2>2. f[n] \in SUBSET D /\ base \subseteq f[n]
    BY <2>1
  <2>3. CASE Closed(s)
    <3>1. f[n] = s
      BY <2>1, <2>3
    <3> QED
      BY <1>1, <2>2, <2>3, <3>1
  <2>4. CASE ~Closed(s)
    <3>1. Cardinality(s) >= n - 1
      BY <1>7, <2>4
    <3>2. IsFiniteSet(f[n]) /\ s \subseteq f[n] /\ s # f[n]
      BY <1>4, <2>1, <2>2, <2>4, FS_Subset
    <3>3. Cardinality(s) <= Cardinality(f[n]) /\ Cardinality(s) # Cardinality(f[n])
      BY <3>2, FS_Subset
    <3>4. Cardinality(s) \in Nat /\ Cardinality(f[n]) \in Nat
      BY <3>2, FS_Subset, FS_CardinalityType
    <3> HIDE DEF s
    <3>5. Cardinality(f[n]) >= n
      BY <1>1, <3>1, <3>3, <3>4
    <3> QED
      BY <1>1, <2>2, <3>5
  <2> QED
    BY <2>3, <2>4
<1>8. N \in Q
  <2> HIDE DEF Q
  <2> QED
    BY <1>1, <1>6, <1>7, BoundedInduction
<1>9. f[N] \in SUBSET D /\ base \subseteq f[N]
  BY <1>8
<1>10. Closed(f[N])
  <2>1. CASE Cardinality(f[N]) >= N
    <3>1. Cardinality(f[N]) <= N /\ Cardinality(f[N]) \in Nat
      BY <1>4, <1>9, FS_Subset, FS_CardinalityType DEF N
    <3>2. Cardinality(f[N]) = Cardinality(D)
      BY <1>1, <2>1, <3>1 DEF N
    <3>3. f[N] = D
      BY <1>4, <1>9, <3>2, FS_Subset
    <3> QED
      BY <1>5, <3>3
  <2> QED
    BY <1>8, <2>1
<1> QED
  BY <1>3, <1>9, <1>10 DEF D, base

-----------------------------------------------------------------------------
(* What maybe_gc leaves: everything, or the cells that the roots lead to.  *)
LEMMA MaybeGCLeaves ==
  ASSUME NEW m, IsMachine(m), NEW st, NEW fr, NEW u, threshold \in Nat \ {0},
         MaybeGC(m, st, fr, u)
  PROVE  /\ nextKey' = m.next /\ added' \in Nat /\ threshold' \in Nat \ {0}
         /\ \/ heap' = m.heap
            \/ heap' = [k \in ReachedFrom(m.heap, u, RootKeys(st, fr, u)) |-> m.heap[k]]
<1> DEFINE live == ReachedFrom(m.heap, u, RootKeys(st, fr, u))
<1>1. IsFiniteSet(DOMAIN m.heap)
  <2>1. DOMAIN m.heap \subseteq 0 .. m.next - 1 /\ m.next \in Nat
    BY DEF IsMachine
  <2>2. IsFiniteSet(0 .. m.next - 1)
    BY <2>1, FS_Interval
  <2> QED
    BY <2>1, <2>2, FS_Subset
<1>2. IsFiniteSet(live)
  BY <1>1, ReachedFromIsClosed, FS_Subset
<1>3. Cardinality(live) \in Nat
  BY <1>2, FS_CardinalityType
<1>4. NextThreshold(Cardinality(live)) \in Nat \ {0}
  BY <1>3, VMAssumption DEF NextThreshold
<1>5. m.added \in Nat
  BY DEF IsMachine
<1> HIDE DEF live
<1>6. \/ heap' = m.heap /\ added' = m.added /\ threshold' = threshold
      \/ heap' = [k \in live |-> m.heap[k]] /\ added' = 0
         /\ threshold' = NextThreshold(Cardinality(live))
  BY DEF MaybeGC, live
<1>7. nextKey' = m.next
  BY DEF MaybeGC
<1> QED
  BY <1>4, <1>5, <1>6, <1>7 DEF live
=============================================================================
