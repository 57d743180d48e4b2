--------------------------- MODULE HeapRefinement ---------------------------
(***************************************************************************)
(* The heap implements the memory without a collector: for every set of    *)
(* keys, slots and upvalue cells and every threshold, TLAPS proofs.        *)
(***************************************************************************)
EXTENDS HeapProofs

(* What the program can reach.                                             *)
Reachable == Reach(Graph, Roots \cup hand)

-----------------------------------------------------------------------------
(* A part of a graph that holds the roots and that no edge leaves reaches  *)
(* as far as the whole.                                                    *)
LEMMA ReachInPart ==
  ASSUME NEW graph, NEW part, NEW R,
         DOMAIN part \subseteq DOMAIN graph,
         \A k \in DOMAIN part : part[k] = graph[k],
         R \cap DOMAIN graph \subseteq DOMAIN part,
         ClosedIn(graph, DOMAIN part)
  PROVE  Reach(part, R) = Reach(graph, R)
<1>1. Reach(graph, R) \subseteq DOMAIN part
  BY ReachLeast
<1>2. Reach(part, R) \subseteq Reach(graph, R)
  <2>1. R \cap DOMAIN part \subseteq Reach(graph, R)
    BY ReachContains
  <2>2. ClosedIn(graph, Reach(graph, R))
    BY ReachClosed
  <2>3. ClosedIn(part, Reach(graph, R))
    BY <1>1, <2>2 DEF ClosedIn
  <2> QED
    BY <1>1, <2>1, <2>3, ReachLeast
<1>3. Reach(graph, R) \subseteq Reach(part, R)
  <2>1. Reach(part, R) \subseteq DOMAIN part
    BY DEF Reach
  <2>2. R \cap DOMAIN graph \subseteq Reach(part, R)
    BY ReachContains
  <2>3. ClosedIn(part, Reach(part, R))
    BY ReachClosed
  <2>4. ClosedIn(graph, Reach(part, R))
    BY <2>1, <2>3 DEF ClosedIn
  <2> QED
    BY <2>1, <2>2, <2>4, ReachLeast
<1> QED
  BY <1>2, <1>3

(* The abstract memory means the same by reachable.                        *)
LEMMA SameReach ==
  ASSUME NEW graph, NEW R
  PROVE  Ideal!Reach(graph, R) = Reach(graph, R)
BY DEF Ideal!Reach, Ideal!ClosedSets, Ideal!ClosedIn, Reach, ClosedSets, ClosedIn

(* In the graph of the heap, what is reachable holds the roots and what is *)
(* in hand, and no edge leaves it.                                         *)
LEMMA ReachableClosed ==
  /\ (Roots \cup hand) \cap Live \subseteq Reachable
  /\ \A k \in Reachable : Edges(k) \cap Live \subseteq Reachable
  /\ Reachable \subseteq Live
<1>1. DOMAIN Graph = Live /\ \A k \in Live : Graph[k] = Edges(k)
  BY DEF Graph
<1>2. Reachable \subseteq Live
  BY <1>1 DEF Reachable, Reach
<1>3. (Roots \cup hand) \cap Live \subseteq Reachable
  BY <1>1, ReachContains DEF Reachable
<1>4. ClosedIn(Graph, Reachable)
  BY ReachClosed DEF Reachable
<1> QED
  BY <1>1, <1>2, <1>3, <1>4 DEF ClosedIn

(* What an instruction can read is reachable.                              *)
LEMMA ReadableReachable ==
  ASSUME EveryReferenceLive
  PROVE  /\ Readable \subseteq Reachable
         /\ Through(ReadableCells) \subseteq Reachable
<1>1. Roots \cup hand \subseteq Reachable
  BY ReachableClosed DEF EveryReferenceLive
<1>2. \A k \in Reachable : Edges(k) \subseteq Reachable
  BY ReachableClosed DEF EveryReferenceLive
<1>3. Readable \subseteq Reachable
  BY <1>1, <1>2 DEF Readable
<1>4. ASSUME NEW x \in Through(ReadableCells) PROVE x \in Reachable
  <2>1. PICK c \in ReadableCells : x = cellval[c] /\ x # Inline
    BY <1>4 DEF Through
  <2>2. CASE c \in held
    BY <1>1, <2>1, <2>2 DEF Roots, Through
  <2>3. CASE c \notin held
    <3>1. PICK k \in Readable \cap Live : c \in cells[k].ups
      BY <2>3 DEF ReadableCells
    <3>2. x \in Edges(k)
      BY <2>1, <3>1 DEF Edges, Through
    <3> QED
      BY <1>2, <1>3, <3>1, <3>2
  <2> QED
    BY <2>2, <2>3
<1> QED
  BY <1>3, <1>4

(* A step after which no edge and no root leads from a part of the heap to *)
(* the rest of it is one in which the memory becomes that part.            *)
LEMMA HeapBecomes ==
  ASSUME NEW store, NEW s, NEW cv, NEW h, NEW hd,
         slots' = s, cellval' = cv, held' = h, hand' = hd,
         DOMAIN store \subseteq Live',
         \A k \in DOMAIN store : store[k] = cells'[k],
         (Roots \cup hand)' \cap Live' \subseteq DOMAIN store,
         ClosedIn(Graph', DOMAIN store)
  PROVE  [k \in Reach(Graph, Roots \cup hand) |-> cells[k]]' = Ideal!Reached(store, s, cv, h, hd)
<1> DEFINE graph == [k \in DOMAIN store |->
                       store[k].refs \cup Ideal!Objects(store[k].ups, cv)]
           roots == Pinned \cup ({s[x] : x \in Slots} \ {Inline}) \cup Ideal!Objects(h, cv)
<1>1. roots = Roots'
  BY DEF Roots, Through, Ideal!Objects
<1>2. \A k \in DOMAIN store : graph[k] = Edges(k)'
  BY DEF Edges, Through, Ideal!Objects
<1>3. DOMAIN Graph' = Live' /\ \A k \in Live' : Graph'[k] = Edges(k)'
  BY DEF Graph
<1>4. ClosedIn(Graph', DOMAIN graph)
  OBVIOUS
<1>5. Reach(graph, roots \cup hd) = Reach(Graph', (Roots \cup hand)')
  <2> HIDE DEF graph, roots
  <2>1. roots \cup hd = (Roots \cup hand)'
    BY <1>1
  <2>2. DOMAIN graph = DOMAIN store
    BY DEF graph
  <2> QED
    BY <1>2, <1>3, <1>4, <2>1, <2>2, ReachInPart
<1>6. Reach(graph, roots \cup hd) \subseteq DOMAIN store
  BY DEF Reach
<1>7. Ideal!Reach(graph, roots \cup hd) = Reach(graph, roots \cup hd)
  BY SameReach
<1>8. [k \in Reach(Graph', (Roots \cup hand)') |-> cells'[k]]
        = [k \in Ideal!Reach(graph, roots \cup hd) |-> store[k]]
  BY <1>5, <1>6, <1>7
<1> QED
  BY <1>8 DEF Ideal!Reached

-----------------------------------------------------------------------------
(* The memory of the refinement, and what is in it.                        *)
LEMMA MemoryIsReachable ==
  /\ [k \in Reach(Graph, Roots \cup hand) |-> cells[k]] = [k \in Reachable |-> cells[k]]
  /\ DOMAIN [k \in Reach(Graph, Roots \cup hand) |-> cells[k]] = Reachable
BY DEF Reachable

(* A new heap holds its pinned cells, and they refer to nothing.           *)
LEMMA InitRefines == Init => Ideal!Init
<1> SUFFICES ASSUME Init PROVE Ideal!Init
  OBVIOUS
<1> USE HeapAssumption DEF Init
<1>1. Live = Pinned /\ Pinned \subseteq Roots
  BY DEF Live, Roots
<1>2. Reach(Graph, Roots \cup hand) = Pinned
  BY <1>1, ReachableClosed DEF Reachable
<1>3. [k \in Reach(Graph, Roots \cup hand) |-> cells[k]] = [k \in Pinned |-> [refs |-> {}, ups |-> {}]]
  BY <1>2
<1> QED
  BY <1>3 DEF Ideal!Init

-----------------------------------------------------------------------------
(* One step of the VM, for programs without indirect calls: every cell a   *)
(* program can reach is live (RefInv), before and after.                   *)
RefInv == IInv /\ EveryReferenceLive

(* What the steps rely on.                                                 *)
LEMMA RefFacts ==
  ASSUME RefInv
  PROVE  /\ Reachable \subseteq Live
         /\ Roots \cup hand \subseteq Reachable
         /\ \A x \in Reachable : Edges(x) \subseteq Reachable
         /\ Readable \subseteq Reachable
         /\ Through(ReadableCells) \subseteq Reachable
BY ReadableReachable, ReachableClosed DEF RefInv, EveryReferenceLive

(* A step that makes no cell, frees none and changes none, and after which *)
(* what was reachable is still closed, leaves the objects as they are.     *)
LEMMA ObjectsKept ==
  ASSUME RefInv, NEW s, NEW cv, NEW h, NEW hd,
         slots' = s, cellval' = cv, held' = h, hand' = hd, cells' = cells,
         (Roots \cup hand)' \subseteq Reachable,
         ClosedIn(Graph', Reachable)
  PROVE  [k \in Reach(Graph, Roots \cup hand) |-> cells[k]]'
           = Ideal!Reached([k \in Reach(Graph, Roots \cup hand) |-> cells[k]], s, cv, h, hd)
<1> DEFINE mem == [k \in Reach(Graph, Roots \cup hand) |-> cells[k]]
<1>1. DOMAIN mem = Reachable
  BY MemoryIsReachable
<1>2. Reachable \subseteq Live /\ Live' = Live
  BY RefFacts DEF Live
<1>3. \A k \in DOMAIN mem : mem[k] = cells'[k]
  OBVIOUS
<1> HIDE DEF mem
<1>4. mem' = Ideal!Reached(mem, s, cv, h, hd)
  <2>1. DOMAIN mem \subseteq Live'
    BY <1>1, <1>2
  <2>2. (Roots \cup hand)' \cap Live' \subseteq DOMAIN mem
    BY <1>1
  <2>3. ClosedIn(Graph', DOMAIN mem)
    BY <1>1
  <2> QED
    BY <1>3, <2>1, <2>2, <2>3, HeapBecomes DEF mem
<1> QED
  BY <1>4 DEF mem

(* An allocation makes an object of reachable objects.                     *)
LEMMA AllocRefines ==
  ASSUME RefInv,
         NEW k \in Keys, NEW refs \in SUBSET Readable, NEW ups \in SUBSET ReadableCells,
         Alloc(k, refs, ups)
  PROVE  Ideal!Next
<1> USE HeapAssumption DEF RefInv
<1> DEFINE mem   == [x \in Reach(Graph, Roots \cup hand) |-> cells[x]]
           store == [x \in DOMAIN mem \cup {k} |->
                       IF x = k THEN [refs |-> refs, ups |-> ups] ELSE mem[x]]
<1>1. /\ DOMAIN mem = Reachable
      /\ DOMAIN store = Reachable \cup {k}
  BY MemoryIsReachable
<1>2. /\ Readable \subseteq Reachable
      /\ Through(ReadableCells) \subseteq Reachable
      /\ Reachable \subseteq Live
      /\ \A x \in Reachable : Edges(x) \subseteq Reachable
      /\ Roots \cup hand \subseteq Reachable
  BY RefFacts
<1>3. /\ Live' = Live \cup {k} /\ k \notin Live
      /\ cells'[k] = [refs |-> refs, ups |-> ups]
      /\ \A x \in Live : cells'[x] = cells[x]
  BY DEF Alloc, Live, IInv, TypeInv, TypeOK
<1>4. \A x \in DOMAIN store : store[x] = cells'[x]
  BY <1>1, <1>2, <1>3, MemoryIsReachable
<1>5. Roots' = Roots /\ hand' = (hand \ refs) \cup {k}
  BY DEF Alloc, Roots, Through
<1>6. \A x \in Reachable : Edges(x)' = Edges(x)
  BY <1>2, <1>3 DEF Alloc, Edges, Through
<1>7. Edges(k)' \subseteq Reachable
  <2>1. Edges(k)' = refs \cup Through(ups)
    BY <1>3 DEF Alloc, Edges, Through
  <2>2. Through(ups) \subseteq Through(ReadableCells)
    BY DEF Through
  <2> QED
    BY <1>2, <2>1, <2>2
<1>8. Ideal!Becomes(store, slots, cellval, held, (hand \ refs) \cup {k})
  <2> HIDE DEF store
  <2>1. slots' = slots /\ cellval' = cellval /\ held' = held /\ hand' = (hand \ refs) \cup {k}
    BY DEF Alloc
  <2>2. DOMAIN store \subseteq Live'
    BY <1>1, <1>2, <1>3
  <2>3. (Roots \cup hand)' \cap Live' \subseteq DOMAIN store
    BY <1>1, <1>2, <1>5
  <2>4. ClosedIn(Graph', DOMAIN store)
    BY <1>1, <1>2, <1>3, <1>6, <1>7 DEF ClosedIn, Graph
  <2> QED
    BY <1>4, <2>1, <2>2, <2>3, <2>4, HeapBecomes DEF Ideal!Becomes
<1>9. Ideal!New(k, refs, ups)
  BY <1>8 DEF Ideal!New, Alloc
<1>10. k \in Keys \ used /\ refs \in SUBSET DOMAIN mem /\ ups \in SUBSET Cells
  BY <1>1, <1>2 DEF Alloc, ReadableCells, IInv, TypeInv, TypeOK, HeapCell, Live
<1> QED
  BY <1>9, <1>10 DEF Ideal!Next
(* A store into a slot: the value was reachable.                           *)
LEMMA SetSlotRefines ==
  ASSUME RefInv, NEW s \in Slots, NEW v \in Value, SetSlot(s, v)
  PROVE  Ideal!Next
<1> DEFINE mem == [x \in Reach(Graph, Roots \cup hand) |-> cells[x]]
<1>1. v \in Reachable \cup {Inline}
  BY RefFacts DEF SetSlot
<1>2. (Roots \cup hand)' \subseteq Reachable
  <2>1. (Roots \cup hand)' \subseteq Roots \cup hand \cup ({v} \ {Inline})
    BY DEF SetSlot, Roots, Through, RefInv, IInv, TypeInv, TypeOK
  <2> QED
    BY <1>1, <2>1, RefFacts
<1>3. ClosedIn(Graph', Reachable)
  <2>1. Graph' = Graph
    BY DEF SetSlot, Graph, Edges, Through, Live
  <2> QED
    BY <2>1, ReachClosed DEF Reachable
<1>4. mem' = Ideal!Reached(mem, [slots EXCEPT ![s] = v], cellval, held, hand \ {v})
  <2> DEFINE new == [slots EXCEPT ![s] = v]
  <2>1. /\ slots' = new /\ hand' = hand \ {v}
        /\ cellval' = cellval /\ held' = held /\ cells' = cells
    BY DEF SetSlot
  <2> HIDE DEF new
  <2>2. mem' = Ideal!Reached(mem, new, cellval, held, hand \ {v})
    BY <1>2, <1>3, <2>1, ObjectsKept
  <2> QED
    BY <2>2 DEF new
<1>5. Ideal!Assign(s, v) /\ UNCHANGED used
  BY <1>4 DEF Ideal!Assign, Ideal!Becomes, SetSlot
<1>6. v \in Ideal!Values
  BY <1>1, MemoryIsReachable DEF Ideal!Values
<1> QED
  BY <1>5, <1>6 DEF Ideal!Next

(* A captured local, or an assignment to one: the value came out of a slot. *)
LEMMA CellRefines ==
  ASSUME RefInv, NEW c \in Cells, NEW v \in Value, Capture(c, v) \/ SetCell(c, v)
  PROVE  Ideal!Next
<1> DEFINE mem == [x \in Reach(Graph, Roots \cup hand) |-> cells[x]]
<1>1. v \in Reachable \cup {Inline}
  BY RefFacts DEF Capture, SetCell, Roots
<1>2. (Roots \cup hand)' \subseteq Reachable
  <2>1. (Roots \cup hand)' \subseteq Roots \cup hand \cup ({v} \ {Inline})
    BY DEF Capture, SetCell, Roots, Through, RefInv, IInv, TypeInv, TypeOK
  <2> QED
    BY <1>1, <2>1, RefFacts
<1>3. ClosedIn(Graph', Reachable)
  <2>1. \A x \in Live : Edges(x)' \subseteq Edges(x) \cup ({v} \ {Inline})
    BY DEF Capture, SetCell, Edges, Through, RefInv, IInv, TypeInv, TypeOK, HeapCell
  <2>2. Live' = Live /\ DOMAIN Graph' = Live /\ \A x \in Live : Graph'[x] = Edges(x)'
    BY DEF Capture, SetCell, Live, Graph
  <2> QED
    BY <1>1, <2>1, <2>2, RefFacts DEF ClosedIn
<1>4. PICK h \in SUBSET Cells : held' = h
  BY DEF Capture, SetCell, RefInv, IInv, TypeInv, TypeOK
<1>5. mem' = Ideal!Reached(mem, slots, [cellval EXCEPT ![c] = v], h, hand)
  BY <1>2, <1>3, <1>4, ObjectsKept DEF Capture, SetCell
<1>6. Ideal!AssignCell(c, v, h) /\ UNCHANGED used
  BY <1>4, <1>5 DEF Ideal!AssignCell, Ideal!Becomes, Capture, SetCell
<1>7. v \in Ideal!Values
  BY <1>1, MemoryIsReachable DEF Ideal!Values
<1> QED
  BY <1>4, <1>6, <1>7 DEF Ideal!Next

(* Entering and leaving a call, and dropping a result.                     *)
LEMMA CallRefines ==
  ASSUME RefInv,
         \/ \E k \in Live : Enter(k)
         \/ \E dropped \in SUBSET held : Leave(dropped)
         \/ DropHand
  PROVE  Ideal!Next
<1> DEFINE mem == [x \in Reach(Graph, Roots \cup hand) |-> cells[x]]
<1>1. (Roots \cup hand)' \subseteq Reachable
  <2>1. ASSUME NEW k \in Live, Enter(k) PROVE (Roots \cup hand)' \subseteq Reachable
    <3>1. (Roots \cup hand)' \subseteq Roots \cup hand \cup Edges(k)
      BY <2>1 DEF Enter, Roots, Edges, Through
    <3> QED
      BY <2>1, <3>1, RefFacts DEF Enter
  <2>2. ASSUME NEW dropped \in SUBSET held, Leave(dropped)
        PROVE  (Roots \cup hand)' \subseteq Reachable
    <3>1. (Roots \cup hand)' \subseteq Roots \cup hand
      BY <2>2 DEF Leave, Roots, Through
    <3> QED
      BY <3>1, RefFacts
  <2>3. CASE DropHand
    <3>1. (Roots \cup hand)' \subseteq Roots \cup hand
      BY <2>3 DEF DropHand, mutable, Roots, Through
    <3> QED
      BY <3>1, RefFacts
  <2> QED
    BY <2>1, <2>2, <2>3
<1>2. /\ cells' = cells /\ slots' = slots /\ cellval' = cellval /\ used' = used
      /\ (hand' = hand \/ (hand' = {} /\ held' = held))
  BY DEF Enter, Leave, DropHand, mutable
<1>3. ClosedIn(Graph', Reachable)
  <2>1. Graph' = Graph
    BY <1>2 DEF Graph, Edges, Through, Live
  <2> QED
    BY <2>1, ReachClosed DEF Reachable
<1>4. PICK h \in SUBSET Cells : held' = h
  BY DEF Enter, Leave, DropHand, mutable, RefInv, IInv, TypeInv, TypeOK, HeapCell, Live
<1>5. CASE hand' = hand
  <2>1. mem' = Ideal!Reached(mem, slots, cellval, h, hand)
    BY <1>1, <1>2, <1>3, <1>4, <1>5, ObjectsKept
  <2>2. Ideal!Call(h) /\ UNCHANGED used
    BY <1>2, <1>4, <1>5, <2>1 DEF Ideal!Call, Ideal!Becomes
  <2> QED
    BY <1>4, <2>2 DEF Ideal!Next
<1>6. CASE hand' = {} /\ held' = held
  <2>1. mem' = Ideal!Reached(mem, slots, cellval, held, {})
    BY <1>1, <1>2, <1>3, <1>6, ObjectsKept
  <2>2. Ideal!Discard /\ UNCHANGED used
    BY <1>2, <1>6, <2>1 DEF Ideal!Discard, Ideal!Becomes
  <2> QED
    BY <2>2 DEF Ideal!Next
<1> QED
  BY <1>2, <1>5, <1>6
(* SetIndex and VectorAppend: what goes was an element or there was        *)
(* nothing to go; what comes was reachable.                                *)
LEMMA MutateRefines ==
  ASSUME RefInv, NEW k \in Live, NEW old \in Value, NEW v \in Value, Mutate(k, old, v)
  PROVE  Ideal!Next
<1> USE HeapAssumption
<1> DEFINE mem   == [x \in Reach(Graph, Roots \cup hand) |-> cells[x]]
<1>0. PICK gone \in {old, Inline} : gone = IF old \in cells[k].refs THEN old ELSE Inline
  OBVIOUS
<1> DEFINE store == [mem EXCEPT ![k].refs = (@ \ {gone}) \cup ({v} \ {Inline})]
<1>1. k \in Reachable \ Pinned /\ v \in Reachable \cup {Inline}
  BY RefFacts DEF Mutate
<1>2. DOMAIN mem = Reachable /\ DOMAIN store = Reachable
  BY MemoryIsReachable
<1>3. \A x \in Live : cells[x] \in HeapCell
  BY DEF RefInv, IInv, TypeInv, TypeOK
<1>4. /\ Live' = Live
      /\ cells' = [cells EXCEPT ![k].refs = (@ \ {gone}) \cup ({v} \ {Inline})]
  <2>1. cells[k].refs \ {old} = cells[k].refs \ {gone}
    BY <1>0, <1>3 DEF HeapCell
  <2> QED
    BY <2>1 DEF Mutate, Live
<1>5. \A x \in DOMAIN store : store[x] = cells'[x]
  BY <1>2, <1>4, RefFacts, MemoryIsReachable DEF Live
<1>6. (Roots \cup hand)' \subseteq Reachable
  <2>1. (Roots \cup hand)' \subseteq Roots \cup hand
    BY DEF Mutate, Roots, Through
  <2> QED
    BY <2>1, RefFacts
<1>7. ClosedIn(Graph', Reachable)
  <2>1. \A x \in Live : Edges(x)' \subseteq Edges(x) \cup ({v} \ {Inline})
    BY <1>3 DEF Mutate, Edges, Through, Live, HeapCell
  <2>2. DOMAIN Graph' = Live /\ \A x \in Live : Graph'[x] = Edges(x)'
    BY <1>4 DEF Graph
  <2> QED
    BY <1>1, <2>1, <2>2, RefFacts DEF ClosedIn
<1>8. mem' = Ideal!Reached(store, slots, cellval, held, hand \ {v})
  <2> HIDE DEF store
  <2>1. DOMAIN store \subseteq Live'
    BY <1>2, <1>4, RefFacts
  <2>2. (Roots \cup hand)' \cap Live' \subseteq DOMAIN store /\ ClosedIn(Graph', DOMAIN store)
    BY <1>2, <1>6, <1>7
  <2>3. slots' = slots /\ cellval' = cellval /\ held' = held /\ hand' = hand \ {v}
    BY DEF Mutate
  <2> QED
    BY <1>5, <2>1, <2>2, <2>3, HeapBecomes
<1>9. Ideal!Replace(k, gone, v) /\ UNCHANGED used
  BY <1>8 DEF Ideal!Replace, Ideal!Becomes, Mutate
<1>10. k \in DOMAIN mem \ Pinned /\ v \in Ideal!Values /\ gone \in mem[k].refs \cup {Inline}
  BY <1>0, <1>1, <1>2 DEF Ideal!Values
<1> QED
  BY <1>9, <1>10 DEF Ideal!Next

(* The collector changes nothing a program can see: marking does not touch *)
(* the objects, and the sweep removes what was not reachable.              *)
LEMMA CollectorRefines ==
  ASSUME RefInv, IndirectCalls = FALSE,
         StartCollection \/ Collector \/ UNCHANGED vars
  PROVE  UNCHANGED Ideal!vars
<1> DEFINE mem == [x \in Reach(Graph, Roots \cup hand) |-> cells[x]]
<1>1. UNCHANGED <<used, slots, cellval, held, hand>>
  BY DEF StartCollection, CollectFrom, Collector, Mark, Visit, Sweep, SweepLeaving,
         mutable, vars
<1>2. CASE StartCollection \/ (\E k \in Keys : Mark(k)) \/ UNCHANGED vars
  <2>1. cells' = cells
    BY <1>2 DEF StartCollection, CollectFrom, Mark, Visit, mutable, vars
  <2>2. Graph' = Graph /\ Roots' = Roots
    BY <1>1, <2>1 DEF Graph, Roots, Edges, Through, Live
  <2>3. mem' = mem
    BY <1>1, <2>1, <2>2
  <2> QED
    BY <1>1, <2>3 DEF Ideal!vars
<1>3. CASE Sweep
  <2>1. hand = {} /\ Roots' = Roots
    BY <1>1, <1>3 DEF Sweep, SweepLeaving, RefInv, IInv, OnlyResultsLost, Roots, Through
  <2>2. marked = Reach(Graph, Roots)
    BY <1>3, SweepFrees DEF RefInv
  <2>3. Live' = marked /\ marked \subseteq Live /\ \A x \in marked : cells'[x] = cells[x]
    BY <1>3 DEF Sweep, SweepLeaving, Live, RefInv, IInv, TypeInv, TypeOK
  <2>4. \A x \in marked : Edges(x)' = Edges(x)
    BY <1>1, <2>3 DEF Edges, Through
  <2>5. /\ DOMAIN Graph = Live /\ DOMAIN Graph' = marked
        /\ \A x \in marked : Graph'[x] = Graph[x]
    BY <2>3, <2>4 DEF Graph
  <2>6. Roots \cap DOMAIN Graph \subseteq marked /\ ClosedIn(Graph, marked)
    BY <2>2, ReachContains, ReachClosed
  <2>7. Reach(Graph', Roots) = Reach(Graph, Roots)
    BY <2>3, <2>5, <2>6, ReachInPart
  <2>8. Reach(Graph', (Roots \cup hand)') = marked /\ Reach(Graph, Roots \cup hand) = marked
    BY <1>1, <2>1, <2>2, <2>7
  <2>9. mem' = mem
    BY <2>3, <2>8
  <2> QED
    BY <1>1, <2>9 DEF Ideal!vars
<1> QED
  BY <1>2, <1>3 DEF Collector

(* The collector is invisible: a program without indirect calls sees the   *)
(* memory of IdealHeap, in which an object it can reach never goes away    *)
(* and nothing else is kept (Heap::alloc, HeapCell::mark, Heap::sweep and  *)
(* VM::gc_mark_roots together).                                            *)
THEOREM CollectorInvisible ==
  ASSUME IndirectCalls = FALSE
  PROVE  Spec => ImplementsIdealHeap
<1>1. IInv => RefInv
  BY DEF RefInv, IInv, OnlyResultsLost, NoDangling, EveryReferenceLive
<1>2. RefInv /\ [Next]_vars => [Ideal!Next]_(Ideal!vars)
  <2> SUFFICES ASSUME RefInv, [Next]_vars PROVE [Ideal!Next]_(Ideal!vars)
    OBVIOUS
  <2>1. CASE Mutator
    BY <2>1, AllocRefines, SetSlotRefines, CellRefines, CallRefines, MutateRefines DEF Mutator
  <2>2. CASE StartCollection \/ Collector \/ UNCHANGED vars
    BY <2>2, CollectorRefines
  <2> QED
    BY <2>1, <2>2 DEF Next
<1> QED
  BY <1>1, <1>2, InitRefines, HeapInvariant, PTL DEF Spec, ImplementsIdealHeap, Ideal!Spec
=============================================================================
