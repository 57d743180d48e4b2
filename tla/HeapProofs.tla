----------------------------- MODULE HeapProofs -----------------------------
(***************************************************************************)
(* What the heap guarantees for every set of keys, slots and upvalue cells *)
(* and every threshold: TLAPS proofs about module Heap.                    *)
(***************************************************************************)
EXTENDS Heap, FiniteSetTheorems, TLAPS

(* The type invariant as it is inductive: only finitely many keys were     *)
(* ever handed out, so the number of survivors of a sweep is a number.     *)
TypeInv == TypeOK /\ IsFiniteSet(used)

-----------------------------------------------------------------------------
(* Reach (what marking computes): it holds the live members of R,          *)
LEMMA ReachContains ==
  ASSUME NEW graph, NEW R
  PROVE  R \cap DOMAIN graph \subseteq Reach(graph, R)
BY DEF Reach, ClosedSets

(* ... it is closed,                                                       *)
LEMMA ReachClosed ==
  ASSUME NEW graph, NEW R
  PROVE  ClosedIn(graph, Reach(graph, R))
BY DEF Reach, ClosedSets, ClosedIn

(* ... and every closed set with the live members of R contains it.        *)
LEMMA ReachLeast ==
  ASSUME NEW graph, NEW R, NEW S \in SUBSET DOMAIN graph,
         R \cap DOMAIN graph \subseteq S, ClosedIn(graph, S)
  PROVE  Reach(graph, R) \subseteq S
BY DEF Reach, ClosedSets

-----------------------------------------------------------------------------
(* A new VM's heap, with its builtins and constants (VM::new), is typed.   *)
LEMMA InitTypeInv == Init => TypeInv
<1> SUFFICES ASSUME Init PROVE TypeInv
  OBVIOUS
<1> USE HeapAssumption DEF Init
<1>1. Pinned \subseteq Keys
  BY DEF Pinned
<1>2. IsFiniteSet(Builtins) /\ added \in Nat
  BY FS_Subset, FS_CardinalityType DEF Pinned
<1>3. cells \in [Live -> HeapCell] /\ Live = Pinned
  BY DEF Live, HeapCell
<1> QED
  BY <1>1, <1>2, <1>3 DEF TypeInv, TypeOK, Value

(* Every instruction, every call of mark and the sweep keep the types.     *)
LEMMA StepTypeInv == TypeInv /\ [Next]_vars => TypeInv'
<1> SUFFICES ASSUME TypeInv, [Next]_vars PROVE TypeInv'
  OBVIOUS
<1> USE HeapAssumption DEF TypeInv, TypeOK, Live, Value, collector, mutable
<1>1. ASSUME NEW k \in Keys, NEW refs \in SUBSET Readable,
             NEW ups \in SUBSET ReadableCells, Alloc(k, refs, ups)
      PROVE  TypeInv'
  <2>1. Readable \subseteq Keys
    BY DEF Readable, Roots, Through, Edges, HeapCell, Pinned
  <2>2. ReadableCells \subseteq Cells
    BY DEF ReadableCells, HeapCell
  <2>3. cells' \in [DOMAIN cells' -> HeapCell] /\ DOMAIN cells' = DOMAIN cells \cup {k}
    BY <1>1, <2>1, <2>2 DEF Alloc, HeapCell
  <2>4. IsFiniteSet(used')
    BY <1>1, FS_AddElement DEF Alloc
  <2> QED
    BY <1>1, <2>3, <2>4 DEF Alloc
<1>2. ASSUME NEW s \in Slots, NEW v \in Value, SetSlot(s, v)
      PROVE  TypeInv'
  BY <1>2 DEF SetSlot
<1>3. CASE DropHand
  BY <1>3 DEF DropHand
<1>4. ASSUME NEW k \in Live, NEW old \in Value, NEW v \in Value, Mutate(k, old, v)
      PROVE  TypeInv'
  <2>1. cells' \in [DOMAIN cells' -> HeapCell] /\ DOMAIN cells' = DOMAIN cells
    BY <1>4 DEF Mutate, HeapCell
  <2> QED
    BY <1>4, <2>1 DEF Mutate
<1>5. ASSUME NEW c \in Cells, NEW v \in Value, Capture(c, v) \/ SetCell(c, v)
      PROVE  TypeInv'
  BY <1>5 DEF Capture, SetCell
<1>6. ASSUME NEW k \in Live, Enter(k)
      PROVE  TypeInv'
  <2>1. cells[k].ups \subseteq Cells
    BY DEF HeapCell
  <2> QED
    BY <1>6, <2>1 DEF Enter
<1>7. ASSUME NEW dropped \in SUBSET held, Leave(dropped)
      PROVE  TypeInv'
  BY <1>7 DEF Leave
<1>8. CASE StartCollection
  <2>1. Roots \subseteq Keys
    BY DEF Roots, Through, Pinned
  <2> QED
    BY <1>8, <2>1 DEF StartCollection, CollectFrom
<1>9. ASSUME NEW k \in Keys, Mark(k)
      PROVE  TypeInv'
  <2>1. k \in Live => Edges(k) \subseteq Keys
    BY DEF Edges, Through, HeapCell
  <2> QED
    BY <1>9, <2>1 DEF Mark, Visit
<1>10. CASE Sweep
  <2>1. IsFiniteSet(marked)
    BY FS_Subset
  <2>2. Cardinality(marked) \in Nat
    BY <2>1, FS_CardinalityType
  <2>3. NextThreshold(Cardinality(marked)) \in Nat \ {0}
    BY <2>2 DEF NextThreshold
  <2>4. cells' \in [DOMAIN cells' -> HeapCell] /\ DOMAIN cells' = marked
    BY <1>10 DEF Sweep, SweepLeaving
  <2> QED
    BY <1>10, <2>3, <2>4 DEF Sweep, SweepLeaving
<1>11. CASE UNCHANGED vars
  BY <1>11 DEF vars
<1> QED
  BY <1>1, <1>2, <1>3, <1>4, <1>5, <1>6, <1>7, <1>8, <1>9, <1>10, <1>11
     DEF Next, Mutator, Collector

(* Every variable of the heap keeps its type: only live cells carry a      *)
(* mark, and the threshold never falls to zero (Heap::alloc, Heap::sweep,  *)
(* HeapCell::mark).                                                        *)
THEOREM TypeCorrect == Spec => []TypeOK
<1>1. TypeInv => TypeOK
  BY DEF TypeInv
<1> QED
  BY InitTypeInv, StepTypeInv, <1>1, PTL DEF Spec

-----------------------------------------------------------------------------
(* The inductive invariant.  A sweep must not break NoDangling, so the     *)
(* traversal must have marked everything by then (Tricolor); and a result  *)
(* can only be lost by a collection that runs with it in hand.             *)
OnlyResultsLost ==
  IndirectCalls \/ (lost = {} /\ (phase = "mark" => hand = {}))

IInv == TypeInv /\ NoDangling /\ Tricolor /\ PinnedLive /\ OnlyResultsLost

(* What an instruction can read is live or lost, and so is everything that *)
(* sits in an upvalue cell it can capture.                                 *)
LEMMA ReadableLive ==
  NoDangling => /\ Readable \subseteq Live \cup lost
                /\ Through(ReadableCells) \subseteq Live \cup lost
<1> SUFFICES ASSUME NoDangling
             PROVE  /\ Readable \subseteq Live \cup lost
                    /\ Through(ReadableCells) \subseteq Live \cup lost
  OBVIOUS
<1>1. Readable \subseteq Live \cup lost
  BY DEF NoDangling, Readable
<1>2. ASSUME NEW x \in Through(ReadableCells) PROVE x \in Live \cup lost
  <2>1. PICK c \in ReadableCells : x = cellval[c] /\ x # Inline
    BY <1>2 DEF Through
  <2>2. CASE c \in held
    BY <2>1, <2>2 DEF NoDangling, Roots, Through
  <2>3. CASE c \notin held
    <3>1. PICK k \in Live : c \in cells[k].ups
      BY <2>3 DEF ReadableCells
    <3>2. x \in Edges(k)
      BY <2>1, <3>1 DEF Edges, Through
    <3> QED
      BY <3>2 DEF NoDangling
  <2> QED
    BY <2>2, <2>3
<1> QED
  BY <1>1, <1>2

(* In a new VM only the pinned cells exist, and all of them do.            *)
LEMMA InitIInv == Init => IInv
<1> SUFFICES ASSUME Init PROVE IInv
  OBVIOUS
<1> USE HeapAssumption DEF Init
<1>1. Live = Pinned /\ Through(held) = {}
  BY DEF Live, Through
<1>2. \A k \in Live : Edges(k) = {}
  BY <1>1 DEF Edges, Through
<1>3. Roots = Pinned
  BY <1>1 DEF Roots
<1> QED
  BY <1>1, <1>2, <1>3, InitTypeInv
     DEF IInv, NoDangling, Tricolor, PinnedLive, OnlyResultsLost

-----------------------------------------------------------------------------
(* No step creates a reference to a cell that is neither live nor lost; the *)
(* sweep does not because marking has covered all the roots reach.         *)
LEMMA StepNoDangling == IInv /\ [Next]_vars => NoDangling'
<1> SUFFICES ASSUME IInv, [Next]_vars PROVE NoDangling'
  OBVIOUS
<1> USE HeapAssumption DEF IInv, TypeInv, TypeOK, Live, Value, collector, mutable
<1>0. /\ Readable \subseteq Live \cup lost
      /\ Through(ReadableCells) \subseteq Live \cup lost
      /\ {slots[s] : s \in Slots} \subseteq Live \cup lost \cup {Inline}
  BY ReadableLive DEF NoDangling, Roots
<1>1. ASSUME NEW k \in Keys, NEW refs \in SUBSET Readable,
             NEW ups \in SUBSET ReadableCells, Alloc(k, refs, ups)
      PROVE  NoDangling'
  <2>1. Roots' = Roots
    BY <1>1 DEF Alloc, Roots, Through
  <2>2. Live' = Live \cup {k}
    BY <1>1 DEF Alloc
  <2>3. \A x \in Live : Edges(x)' = Edges(x)
    BY <1>1 DEF Alloc, Edges, Through
  <2>4. Edges(k)' = refs \cup Through(ups)
    BY <1>1 DEF Alloc, Edges, Through
  <2>5. Through(ups) \subseteq Through(ReadableCells)
    BY DEF Through
  <2> QED
    BY <1>0, <1>1, <2>1, <2>2, <2>3, <2>4, <2>5 DEF Alloc, NoDangling
<1>2. ASSUME NEW s \in Slots, NEW v \in Value, SetSlot(s, v)
      PROVE  NoDangling'
  <2>1. Roots' \subseteq Roots \cup ({v} \ {Inline})
    BY <1>2 DEF SetSlot, Roots, Through
  <2>2. \A x \in Live : Edges(x)' = Edges(x)
    BY <1>2 DEF SetSlot, Edges, Through
  <2> QED
    BY <1>0, <1>2, <2>1, <2>2 DEF SetSlot, NoDangling
<1>3. CASE DropHand
  <2>1. Roots' = Roots /\ \A x \in Live : Edges(x)' = Edges(x)
    BY <1>3 DEF DropHand, Roots, Edges, Through
  <2> QED
    BY <1>3, <2>1 DEF DropHand, NoDangling
<1>4. ASSUME NEW k \in Live, NEW old \in Value, NEW v \in Value, Mutate(k, old, v)
      PROVE  NoDangling'
  <2>1. Roots' = Roots /\ Live' = Live
    BY <1>4 DEF Mutate, Roots, Through
  <2>2. \A x \in Live : Edges(x)' \subseteq Edges(x) \cup ({v} \ {Inline})
    BY <1>4 DEF Mutate, Edges, Through, HeapCell
  <2> QED
    BY <1>0, <1>4, <2>1, <2>2 DEF Mutate, NoDangling
<1>5. ASSUME NEW c \in Cells, NEW v \in Value, Capture(c, v) \/ SetCell(c, v)
      PROVE  NoDangling'
  <2>1. v \in Live \cup lost \cup {Inline}
    BY <1>0, <1>5 DEF Capture, SetCell
  <2>2. Roots' \subseteq Roots \cup ({v} \ {Inline})
    BY <1>5 DEF Capture, SetCell, Roots, Through
  <2>3. \A x \in Live : Edges(x)' \subseteq Edges(x) \cup ({v} \ {Inline})
    BY <1>5 DEF Capture, SetCell, Edges, Through, HeapCell
  <2> QED
    BY <1>5, <2>1, <2>2, <2>3 DEF Capture, SetCell, NoDangling
<1>6. ASSUME NEW k \in Live, Enter(k)
      PROVE  NoDangling'
  <2>1. Roots' \subseteq Roots \cup Edges(k)
    BY <1>6 DEF Enter, Roots, Edges, Through
  <2>2. \A x \in Live : Edges(x)' = Edges(x)
    BY <1>6 DEF Enter, Edges, Through
  <2> QED
    BY <1>6, <2>1, <2>2 DEF Enter, NoDangling
<1>7. ASSUME NEW dropped \in SUBSET held, Leave(dropped)
      PROVE  NoDangling'
  <2>1. Roots' \subseteq Roots /\ \A x \in Live : Edges(x)' = Edges(x)
    BY <1>7 DEF Leave, Roots, Edges, Through
  <2> QED
    BY <1>7, <2>1 DEF Leave, NoDangling
<1>8. CASE StartCollection \/ \E k \in Keys : Mark(k)
  <2>1. /\ Roots' = Roots /\ Live' = Live /\ hand' = hand /\ lost' = lost
        /\ \A x \in Live : Edges(x)' = Edges(x)
    BY <1>8 DEF StartCollection, CollectFrom, Mark, Visit, Roots, Edges, Through
  <2> QED
    BY <2>1 DEF NoDangling
<1>9. CASE Sweep
  <2>1. Roots' = Roots /\ Live' = marked
    BY <1>9 DEF Sweep, SweepLeaving, Roots, Through
  <2>2. \A x \in marked : Edges(x)' = Edges(x)
    BY <1>9 DEF Sweep, SweepLeaving, Edges, Through
  <2>3. Roots \cap Live \subseteq marked /\ \A x \in marked : Edges(x) \cap Live \subseteq marked
    BY <1>9 DEF Sweep, SweepLeaving, Tricolor
  <2> QED
    BY <1>9, <2>1, <2>2, <2>3 DEF Sweep, SweepLeaving, NoDangling
<1>10. CASE UNCHANGED vars
  <2>1. Roots' = Roots /\ \A x \in Live : Edges(x)' = Edges(x)
    BY <1>10 DEF vars, Roots, Edges, Through
  <2> QED
    BY <1>10, <2>1 DEF vars, NoDangling
<1> QED
  BY <1>1, <1>2, <1>3, <1>4, <1>5, <1>6, <1>7, <1>8, <1>9, <1>10
     DEF Next, Mutator, Collector

-----------------------------------------------------------------------------
(* While the mutator runs there is nothing to show but that the traversal  *)
(* is at rest; while it marks, neither the graph nor the roots change.     *)
LEMMA MutatorAtRest ==
  IInv /\ Mutator => phase' = "run" /\ phase = "run" /\ marked' = {} /\ pending' = {}
BY DEF IInv, Tricolor, Mutator, Alloc, SetSlot, DropHand, Mutate, Capture, SetCell,
       Enter, Leave, collector

(* One call of mark keeps the tricolor invariant.                          *)
LEMMA StepTricolor == IInv /\ [Next]_vars => Tricolor'
<1> SUFFICES ASSUME IInv, [Next]_vars PROVE Tricolor'
  OBVIOUS
<1> USE HeapAssumption
<1>1. CASE Mutator
  BY <1>1, MutatorAtRest DEF Tricolor
<1>2. CASE StartCollection
  <2>1. Graph' = Graph /\ Roots' = Roots /\ Live' = Live
    BY <1>2 DEF StartCollection, CollectFrom, mutable, Graph, Roots, Edges, Through, Live
  <2>2. marked' = {} /\ pending' = Roots /\ phase' = "mark"
    BY <1>2 DEF StartCollection, CollectFrom, IInv, Tricolor
  <2>3. Roots \cap Live \subseteq Reach(Graph, Roots)
    BY ReachContains DEF Graph, Live
  <2> QED
    BY <2>1, <2>2, <2>3 DEF Tricolor
<1>3. ASSUME NEW k \in Keys, Mark(k)
      PROVE  Tricolor'
  <2>1. Graph' = Graph /\ Roots' = Roots /\ Live' = Live /\ phase' = "mark"
    BY <1>3 DEF Mark, Visit, mutable, Graph, Roots, Edges, Through, Live
  <2>2. \A x \in Live : Edges(x)' = Edges(x)
    BY <1>3 DEF Mark, Visit, mutable, Edges, Through
  <2>3. /\ marked \cup (pending \cap Live) \subseteq Reach(Graph, Roots)
        /\ Roots \cap Live \subseteq marked \cup pending
        /\ \A x \in marked : Edges(x) \cap Live \subseteq marked \cup pending
        /\ marked \subseteq Live
    BY <1>3 DEF IInv, TypeInv, TypeOK, Tricolor, Mark, Visit
  <2>4. CASE k \in Live \ marked
    <3>1. marked' = marked \cup {k} /\ pending' = (pending \ {k}) \cup Edges(k)
      BY <1>3, <2>4 DEF Mark, Visit
    <3>2. k \in Reach(Graph, Roots)
      BY <1>3, <2>3, <2>4 DEF Mark, Visit
    <3>3. Edges(k) \cap Live \subseteq Reach(Graph, Roots)
      BY <2>4, <3>2, ReachClosed DEF ClosedIn, Graph, Live
    <3> QED
      BY <2>1, <2>2, <2>3, <2>4, <3>1, <3>2, <3>3 DEF Tricolor
  <2>5. CASE k \notin Live \ marked
    <3>1. marked' = marked /\ pending' = pending \ {k} /\ (k \in marked \/ k \notin Live)
      BY <1>3, <2>5 DEF Mark, Visit
    <3> QED
      BY <2>1, <2>2, <2>3, <3>1 DEF Tricolor
  <2> QED
    BY <2>4, <2>5
<1>4. CASE Sweep
  BY <1>4 DEF Sweep, SweepLeaving, Tricolor
<1>5. CASE UNCHANGED vars
  <2>1. Graph' = Graph /\ Roots' = Roots /\ Live' = Live
    BY <1>5 DEF vars, Graph, Roots, Edges, Through, Live
  <2>2. \A x \in Live : Edges(x)' = Edges(x)
    BY <1>5 DEF vars, Edges, Through
  <2> QED
    BY <1>5, <2>1, <2>2 DEF vars, IInv, TypeInv, TypeOK, Tricolor
<1> QED
  BY <1>1, <1>2, <1>3, <1>4, <1>5 DEF Next, Collector

(* No step removes a builtin or a constant.                                *)
LEMMA StepPinned == IInv /\ [Next]_vars => PinnedLive'
<1> SUFFICES ASSUME IInv, [Next]_vars PROVE PinnedLive'
  OBVIOUS
<1>1. CASE Mutator
  BY <1>1 DEF IInv, PinnedLive, Mutator, Alloc, SetSlot, DropHand, Mutate, Capture,
              SetCell, Enter, Leave, mutable, Live
<1>2. CASE StartCollection \/ \E k \in Keys : Mark(k)
  BY <1>2 DEF IInv, PinnedLive, StartCollection, CollectFrom, Mark, Visit, mutable, Live
<1>3. CASE Sweep
  BY <1>3 DEF IInv, PinnedLive, Sweep, SweepLeaving, Tricolor, Roots, Live
<1>4. CASE UNCHANGED vars
  BY <1>4 DEF IInv, PinnedLive, vars, Live
<1> QED
  BY <1>1, <1>2, <1>3, <1>4 DEF Next, Collector

(* A cell is lost only in a collection that call_function runs.            *)
LEMMA StepOnlyResultsLost == IInv /\ [Next]_vars => OnlyResultsLost'
<1> SUFFICES ASSUME IInv, [Next]_vars PROVE OnlyResultsLost'
  OBVIOUS
<1> USE DEF IInv, OnlyResultsLost
<1>1. CASE Mutator
  <2>1. lost' = lost
    BY <1>1 DEF Mutator, Alloc, SetSlot, DropHand, Mutate, Capture, SetCell, Enter, Leave
  <2> QED
    BY <1>1, <2>1, MutatorAtRest
<1>2. CASE StartCollection
  BY <1>2 DEF StartCollection, CollectFrom
<1>3. CASE \E k \in Keys : Mark(k)
  BY <1>3 DEF Mark, Visit
<1>4. CASE Sweep
  BY <1>4 DEF Sweep, SweepLeaving
<1>5. CASE UNCHANGED vars
  BY <1>5 DEF vars
<1> QED
  BY <1>1, <1>2, <1>3, <1>4, <1>5 DEF Next, Collector

(* The inductive invariant of the heap under the collector.                *)
LEMMA HeapInvariant == Spec => []IInv
<1>1. IInv /\ [Next]_vars => IInv'
  BY StepTypeInv, StepNoDangling, StepTricolor, StepPinned, StepOnlyResultsLost DEF IInv
<1> QED
  BY InitIInv, <1>1, PTL DEF Spec

-----------------------------------------------------------------------------
(* No program, however it allocates, aliases and mutates, and wherever the *)
(* safe points fall, follows a reference to a freed cell, except to a call *)
(* result that call_function let a collection take.                        *)
THEOREM NoUseAfterFree == Spec => []NoDangling
BY HeapInvariant, PTL DEF IInv

(* A program that calls builtins by name and functions with all their      *)
(* arguments never meets a freed cell at all.                              *)
THEOREM RootedProgramsSafe ==
  ASSUME IndirectCalls = FALSE
  PROVE  Spec => []EveryReferenceLive
<1>1. IInv => EveryReferenceLive
  BY DEF IInv, OnlyResultsLost, NoDangling, EveryReferenceLive
<1> QED
  BY HeapInvariant, <1>1, PTL

(* The builtins and the constants of the program are never collected.      *)
THEOREM PinnedSurvive == Spec => []PinnedLive
BY HeapInvariant, PTL DEF IInv

(* The traversal of gc_mark_roots and HeapCell::mark keeps the tricolor    *)
(* invariant at every call.                                                *)
THEOREM MarkingSound == Spec => []Tricolor
BY HeapInvariant, PTL DEF IInv

(* When marking is done, what is marked is what the roots reach.           *)
LEMMA SweepFrees ==
  ASSUME IInv, Sweep
  PROVE  marked = Reach(Graph, Roots)
<1>1. DOMAIN Graph = Live /\ marked \subseteq Live
  BY DEF Graph, IInv, TypeInv, TypeOK
<1>2. Roots \cap Live \subseteq marked /\ ClosedIn(Graph, marked)
  BY <1>1 DEF IInv, Tricolor, Sweep, SweepLeaving, ClosedIn, Graph
<1>3. Reach(Graph, Roots) \subseteq marked
  BY <1>1, <1>2, ReachLeast
<1>4. marked \subseteq Reach(Graph, Roots)
  BY DEF IInv, Tricolor, Sweep, SweepLeaving
<1> QED
  BY <1>3, <1>4

(* Heap::sweep frees exactly the unreachable cells.                        *)
THEOREM CollectionExact == Spec => SweepExact
<1>1. IInv => [Sweep => DOMAIN cells' = Reach(Graph, Roots)]_vars
  BY SweepFrees DEF Sweep, SweepLeaving
<1> QED
  BY HeapInvariant, <1>1, PTL DEF SweepExact

-----------------------------------------------------------------------------
(* The number of cells: a cell is live since before the last sweep, and    *)
(* then the threshold is twice as high as their number, or was allocated   *)
(* since; the constants of the program are not counted by alloc.           *)
LEMMA InitBounded == Init => HeapBounded
<1> SUFFICES ASSUME Init PROVE HeapBounded
  OBVIOUS
<1>1. IsFiniteSet(Builtins) /\ IsFiniteSet(Constants)
  BY HeapAssumption, FS_Subset DEF Pinned
<1>2. /\ Cardinality(Pinned) = Cardinality(Builtins) + Cardinality(Constants) - Cardinality({})
      /\ Cardinality(Builtins) \in Nat /\ Cardinality(Constants) \in Nat
  BY <1>1, HeapAssumption, FS_Union, FS_CardinalityType DEF Pinned
<1>3. Cardinality({}) = 0
  BY FS_EmptySet
<1>4. Live = Pinned /\ added = Cardinality(Builtins) /\ threshold = BaseThreshold
  BY DEF Init, Live
<1> QED
  BY <1>2, <1>3, <1>4, HeapAssumption DEF HeapBounded

LEMMA StepBounded == TypeInv /\ HeapBounded /\ [Next]_vars => HeapBounded'
<1> SUFFICES ASSUME TypeInv, HeapBounded, [Next]_vars PROVE HeapBounded'
  OBVIOUS
<1>1. /\ IsFiniteSet(Live) /\ Cardinality(Live) \in Nat
      /\ Cardinality(Constants) \in Nat
      /\ added \in Nat /\ threshold \in Nat
  <2>1. IsFiniteSet(Constants)
    BY HeapAssumption, FS_Subset DEF Pinned
  <2> QED
    BY <2>1, FS_Subset, FS_CardinalityType DEF TypeInv, TypeOK
<1>2. ASSUME NEW k \in Keys, NEW refs, NEW ups, Alloc(k, refs, ups)
      PROVE  HeapBounded'
  <2>1. Live' = Live \cup {k} /\ added' = added + 1 /\ threshold' = threshold
    BY <1>2 DEF Alloc, Live
  <2>2. Cardinality(Live') = Cardinality(Live) + 1
    <3>1. k \notin Live
      BY <1>2 DEF Alloc, TypeInv, TypeOK
    <3> QED
      BY <1>1, <2>1, <3>1, FS_AddElement
  <2>3. 2 * Cardinality(Live') <= threshold' + 2 * added' + 2 * Cardinality(Constants)
    BY <1>1, <2>1, <2>2 DEF HeapBounded
  <2>4. threshold' = BaseThreshold \/ threshold' + 2 * added' <= 2 * Cardinality(Live')
    BY <1>1, <2>1, <2>2 DEF HeapBounded
  <2> QED
    BY <2>3, <2>4 DEF HeapBounded
<1>3. CASE Sweep
  <2>1. Live' = marked /\ added' = 0 /\ threshold' = NextThreshold(Cardinality(marked))
    BY <1>3 DEF Sweep, SweepLeaving, Live
  <2>2. Cardinality(marked) \in Nat
    BY <1>1, FS_Subset, FS_CardinalityType DEF TypeInv, TypeOK
  <2>3. /\ threshold' >= 2 * Cardinality(marked)
        /\ threshold' = BaseThreshold \/ threshold' = 2 * Cardinality(marked)
    BY <2>1, <2>2, HeapAssumption DEF NextThreshold
  <2>4. threshold' \in Nat
    BY <2>1, <2>2, HeapAssumption DEF NextThreshold
  <2> QED
    BY <1>1, <2>1, <2>2, <2>3, <2>4, HeapAssumption DEF HeapBounded
<1>4. ASSUME \/ \E s \in Slots, v \in Value : SetSlot(s, v)
             \/ DropHand
             \/ \E k \in Live, old \in Value, v \in Value : Mutate(k, old, v)
             \/ \E c \in Cells, v \in Value : Capture(c, v) \/ SetCell(c, v)
             \/ \E k \in Live : Enter(k)
             \/ \E dropped \in SUBSET held : Leave(dropped)
             \/ StartCollection
             \/ \E k \in Keys : Mark(k)
             \/ UNCHANGED vars
      PROVE  HeapBounded'
  <2>1. Live' = Live /\ added' = added /\ threshold' = threshold
    BY <1>4 DEF SetSlot, DropHand, Mutate, Capture, SetCell, Enter, Leave, StartCollection,
                CollectFrom, Mark, Visit, mutable, vars, Live
  <2> QED
    BY <2>1 DEF HeapBounded
<1> QED
  BY <1>2, <1>3, <1>4 DEF Next, Mutator, Collector

(* The heap is bounded by the threshold and by what was allocated since    *)
(* the last sweep, and the threshold by what survived it (Heap::alloc,     *)
(* Heap::sweep, next_gc_threshold).                                        *)
THEOREM MemoryBounded == Spec => []HeapBounded
BY InitTypeInv, StepTypeInv, InitBounded, StepBounded, PTL DEF Spec
=============================================================================
