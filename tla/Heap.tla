-------------------------------- MODULE Heap --------------------------------
(***************************************************************************)
(* The garbage-collected heap (l3_runtime/src/heap.rs) together with the   *)
(* collection the VM runs over it (l3_vm/src/lib.rs, maybe_gc, run_gc and  *)
(* gc_mark_roots).  The recursive HeapCell::mark is taken one call at a    *)
(* time: `pending' holds the keys on which a call is still to be made.     *)
(*                                                                         *)
(* The mutator is the VM: what an instruction may do to the heap and to    *)
(* the places gc_mark_roots visits.  `hand' is what a Rust local of the    *)
(* running instruction holds and no root does.                             *)
(***************************************************************************)
EXTENDS ObjectGraph, Integers, FiniteSets

CONSTANTS
  Keys,           (* slotmap keys; a key carries a version, so none returns *)
  Cells,          (* the Rc<RefCell<UpvalueCell>> a program creates         *)
  Slots,          (* stack slots, globals and frames' closure_info          *)
  Inline,         (* a value without a heap cell: nil or a primitive        *)
  Builtins,       (* keys of builtin_values                                 *)
  Constants,      (* keys of constant_keys                                  *)
  BaseThreshold,  (* 1024 in the code                                       *)
  IndirectCalls   (* does the program call builtins through a value, or
                     call a function with fewer arguments than its arity?   *)

Pinned == Builtins \cup Constants

ASSUME HeapAssumption ==
  /\ Builtins \subseteq Keys
  /\ Constants \subseteq Keys
  /\ Builtins \cap Constants = {}
  /\ IsFiniteSet(Pinned)
  /\ Inline \notin Keys
  /\ BaseThreshold \in Nat \ {0}
  /\ IndirectCalls \in BOOLEAN

VARIABLES
  cells,      (* live cells: the keys each refers to, the upvalues it captured *)
  used,       (* every key ever handed out                                     *)
  slots,      (* what the slots hold                                           *)
  cellval,    (* UpvalueCell.value                                             *)
  held,       (* the upvalue cells a frame on the call stack holds             *)
  hand,       (* keys only the running instruction holds                       *)
  phase,      (* "run", or "mark" between gc_mark_roots' start and the sweep   *)
  marked,     (* HeapCell.marked                                               *)
  pending,    (* keys with a call to mark outstanding                          *)
  added,      (* added_since_last_sweep                                        *)
  threshold,  (* next_gc_threshold                                             *)
  lost        (* history: results a collection freed while in hand             *)

mutable == <<cells, slots, cellval, held>>
collector == <<phase, marked, pending>>
vars == <<cells, used, slots, cellval, held, hand, phase, marked, pending,
          added, threshold, lost>>

Value == Keys \cup {Inline}
HeapCell == [refs : SUBSET Keys, ups : SUBSET Cells]
Live == DOMAIN cells

TypeOK ==
  /\ cells \in [Live -> HeapCell] /\ Live \subseteq used
  /\ used \subseteq Keys
  /\ slots \in [Slots -> Value]
  /\ cellval \in [Cells -> Value]
  /\ held \subseteq Cells
  /\ hand \subseteq used
  /\ phase \in {"run", "mark"}
  /\ marked \subseteq Live
  /\ pending \subseteq Keys
  /\ added \in Nat
  /\ threshold \in Nat \ {0}
  /\ lost \subseteq used

Init ==
  /\ cells = [k \in Pinned |-> [refs |-> {}, ups |-> {}]]
  /\ used = Pinned
  /\ slots = [s \in Slots |-> Inline]
  /\ cellval = [c \in Cells |-> Inline]
  /\ held = {}
  /\ hand = {}
  /\ phase = "run"
  /\ marked = {}
  /\ pending = {}
  /\ added = Cardinality(Builtins)
  /\ threshold = BaseThreshold
  /\ lost = {}

-----------------------------------------------------------------------------
(* Keys of the cells behind a set of upvalue cells.                        *)
Through(ups) == {cellval[c] : c \in ups} \ {Inline}

(* What mark follows out of a cell.                                        *)
Edges(k) == cells[k].refs \cup Through(cells[k].ups)
Graph == [k \in Live |-> Edges(k)]

(* What gc_mark_roots starts from.                                         *)
Roots == Pinned \cup ({slots[s] : s \in Slots} \ {Inline}) \cup Through(held)

(* What an instruction can lay hands on: a root, a result in hand, and the *)
(* contents of either.                                                     *)
Readable ==
  LET near == Roots \cup hand
  IN  near \cup UNION {Edges(k) : k \in near \cap Live}

(* Upvalue cells an instruction can capture or copy.                       *)
ReadableCells == held \cup UNION {cells[k].ups : k \in Readable \cap Live}

-----------------------------------------------------------------------------
(* Heap::alloc; the elements move into the new cell.                       *)
Alloc(k, refs, ups) ==
  /\ phase = "run"
  /\ k \in Keys \ used
  /\ refs \subseteq Readable
  /\ ups \subseteq ReadableCells
  /\ used' = used \cup {k}
  /\ cells' = [x \in Live \cup {k} |->
                 IF x = k THEN [refs |-> refs, ups |-> ups] ELSE cells[x]]
  /\ hand' = (hand \ refs) \cup {k}
  /\ added' = added + 1
  /\ UNCHANGED <<slots, cellval, held, collector, threshold, lost>>

(* A push, a SetLocal, a SetGlobal; with Inline also a pop or a truncate.  *)
SetSlot(s, v) ==
  /\ phase = "run"
  /\ v \in Readable \cup {Inline}
  /\ slots' = [slots EXCEPT ![s] = v]
  /\ hand' = hand \ {v}
  /\ UNCHANGED <<cells, used, cellval, held, collector, added, threshold, lost>>

(* keep_return_value is false, or the instruction fails: nothing is kept.  *)
DropHand ==
  /\ phase = "run"
  /\ hand # {}
  /\ hand' = {}
  /\ UNCHANGED <<mutable, used, collector, added, threshold, lost>>

(* SetIndex and VectorAppend: one reference may go, one may come.  The      *)
(* pinned cells are functions and strings, which neither accepts.          *)
Mutate(k, old, v) ==
  /\ phase = "run"
  /\ k \in (Readable \cap Live) \ Pinned
  /\ v \in Readable \cup {Inline}
  /\ cells' = [cells EXCEPT ![k].refs = (@ \ {old}) \cup ({v} \ {Inline})]
  /\ hand' = hand \ {v}
  /\ UNCHANGED <<used, slots, cellval, held, collector, added, threshold, lost>>

(* The Closure instruction captures a local of the running frame.          *)
Capture(c, v) ==
  /\ phase = "run"
  /\ c \notin held \cup UNION {cells[k].ups : k \in Live}
  /\ v \in {slots[s] : s \in Slots}
  /\ held' = held \cup {c}
  /\ cellval' = [cellval EXCEPT ![c] = v]
  /\ UNCHANGED <<cells, used, slots, hand, collector, added, threshold, lost>>

(* SetUpvalue, or SetLocal on a captured local.                            *)
SetCell(c, v) ==
  /\ phase = "run"
  /\ c \in held
  /\ v \in {slots[s] : s \in Slots}
  /\ cellval' = [cellval EXCEPT ![c] = v]
  /\ UNCHANGED <<cells, used, slots, held, hand, collector, added, threshold, lost>>

(* A call makes the callee's upvalues part of a frame; a return drops the  *)
(* cells only that frame held.                                             *)
Enter(k) ==
  /\ phase = "run"
  /\ k \in Roots \cap Live
  /\ held' = held \cup cells[k].ups
  /\ UNCHANGED <<cells, used, slots, cellval, hand, collector, added, threshold, lost>>

Leave(dropped) ==
  /\ phase = "run"
  /\ held' = held \ dropped
  /\ UNCHANGED <<cells, used, slots, cellval, hand, collector, added, threshold, lost>>

-----------------------------------------------------------------------------
CollectFrom(roots) ==
  /\ phase = "run"
  /\ added >= threshold
  /\ hand = {} \/ (IndirectCalls /\ \E k \in hand : hand = {k})
  /\ phase' = "mark"
  /\ pending' = roots
  /\ UNCHANGED <<mutable, used, hand, marked, added, threshold, lost>>

(* Slips, for the mutants of the runs: roots forgotten.                    *)
ForgettingFrames    == CollectFrom(Pinned \cup ({slots[s] : s \in Slots} \ {Inline}))
ForgettingSlots     == CollectFrom(Pinned \cup Through(held))
ForgettingConstants == CollectFrom(Roots \ Constants)

(* maybe_gc at a safe point.  MakeArray, Closure, CallBuiltin and Return   *)
(* push the result first; call_function collects with it still in hand.    *)
StartCollection == CollectFrom(Roots)

(* One call of mark: a cell it has not seen is marked, and what it refers  *)
(* to is visited next.                                                     *)
Visit(k, fresh, edges) ==
  /\ phase = "mark"
  /\ k \in pending
  /\ marked' = IF fresh THEN marked \cup {k} ELSE marked
  /\ pending' = (pending \ {k}) \cup (IF fresh THEN edges ELSE {})
  /\ UNCHANGED <<mutable, used, hand, phase, added, threshold, lost>>

(* Slips: contents not followed, marked cells visited again, a mark left   *)
(* on a key whose cell is gone.                                            *)
MarkShallow(k) == Visit(k, k \in Live \ marked, {})
MarkAgain(k)   == Visit(k, k \in Live, Edges(k))
MarkDead(k)    == Visit(k, k \notin marked, IF k \in Live THEN Edges(k) ELSE {})

(* mark returns at once on a marked cell, and the lookup that precedes it  *)
(* skips a key whose cell is gone.                                         *)
Mark(k) == Visit(k, k \in Live \ marked, Edges(k))

(* Slips: no room to grow; the threshold never falls.                      *)
ThresholdOfSurvivors(len) == IF len > BaseThreshold THEN len ELSE BaseThreshold
ThresholdRising(len) == IF 2 * len > threshold THEN 2 * len ELSE threshold

NextThreshold(len) == IF 2 * len > BaseThreshold THEN 2 * len ELSE BaseThreshold

(* Heap::sweep keeps the marked cells, and leaves them with these marks.   *)
SweepLeaving(marks) ==
  /\ phase = "mark"
  /\ pending = {}
  /\ cells' = [k \in marked |-> cells[k]]
  /\ marked' = marks
  /\ added' = 0
  /\ threshold' = NextThreshold(Cardinality(marked))
  /\ phase' = "run"
  /\ lost' = lost \cup (hand \ marked)
  /\ UNCHANGED <<slots, cellval, held, used, hand, pending>>

(* Slip: the marks stay.                                                   *)
SweepKeepingMarks == SweepLeaving(marked)

Sweep == SweepLeaving({})

Mutator ==
  \/ \E k \in Keys, refs \in SUBSET Readable, ups \in SUBSET ReadableCells :
        Alloc(k, refs, ups)
  \/ \E s \in Slots, v \in Value : SetSlot(s, v)
  \/ DropHand
  \/ \E k \in Live, old \in Value, v \in Value : Mutate(k, old, v)
  \/ \E c \in Cells, v \in Value : Capture(c, v) \/ SetCell(c, v)
  \/ \E k \in Live : Enter(k)
  \/ \E dropped \in SUBSET held \ {{}} : Leave(dropped)

Collector == (\E k \in Keys : Mark(k)) \/ Sweep

Next == Mutator \/ StartCollection \/ Collector

Spec == Init /\ [][Next]_vars

(* The VM is one thread: once run_gc has begun nothing else runs until the *)
(* sweep returns.                                                          *)
FairSpec == Spec /\ WF_vars(Collector)

-----------------------------------------------------------------------------
(* No use after free: every reference a program can follow - out of a      *)
(* root, out of a result in hand, out of any live cell - leads to a live   *)
(* cell, unless the cell was freed by a collection that ran while          *)
(* call_function still had the result in a local.                          *)
NoDangling ==
  Roots \cup hand \cup UNION {Edges(k) : k \in Live} \subseteq Live \cup lost

(* What the code is written against: every lookup of a key a program can  *)
(* follow finds its cell (`the heap reference is valid' in the builtins).  *)
EveryReferenceLive ==
  Roots \cup hand \cup UNION {Edges(k) : k \in Live} \subseteq Live

(* The builtins and the constants of the program outlive every collection: *)
(* the Closure instruction expects its constant to be in the heap.         *)
PinnedLive == Pinned \subseteq Live

(* A sweep frees exactly what the roots do not reach: no live object goes, *)
(* and no garbage stays, not even a cycle of vectors or a vector that      *)
(* holds a closure over itself.                                            *)
SweepExact == [][Sweep => DOMAIN cells' = Reach(Graph, Roots)]_vars

(* Marking never runs ahead of the roots, and never loses a cell it still  *)
(* has to visit: the tricolor invariant of the traversal.                  *)
Tricolor ==
  IF phase = "run"
  THEN marked = {} /\ pending = {}
  ELSE /\ marked \cup (pending \cap Live) \subseteq Reach(Graph, Roots)
       /\ Roots \cap Live \subseteq marked \cup pending
       /\ \A k \in marked : Edges(k) \cap Live \subseteq marked \cup pending

(* The heap never holds more than half a threshold of survivors plus what  *)
(* was allocated since the last sweep plus the constants of the program;   *)
(* and the next collection waits for no more than twice the survivors of   *)
(* the last one: the threshold falls with them.                            *)
HeapBounded ==
  /\ 2 * Cardinality(Live) <= threshold + 2 * added + 2 * Cardinality(Constants)
  /\ threshold = BaseThreshold \/ threshold + 2 * added <= 2 * Cardinality(Live)

(* The collector is invisible: seen through what the program can reach,   *)
(* the heap is a memory that never collects.                               *)
Ideal == INSTANCE IdealHeap
           WITH mem <- [k \in Reach(Graph, Roots \cup hand) |-> cells[k]]
ImplementsIdealHeap == Ideal!Spec

(* A collection that begins ends, whatever cycles the heap holds.          *)
CollectionEnds == phase = "mark" ~> phase = "run"
=============================================================================
