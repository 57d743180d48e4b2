----------------------------- MODULE IdealHeap -----------------------------
(***************************************************************************)
(* What the heap promises the VM: a memory without a collector, in which   *)
(* an object exists exactly as long as the program can reach it.  There is *)
(* no threshold, no mark and no sweep here, and no step in which an object *)
(* the program can still reach goes away.                                  *)
(***************************************************************************)
EXTENDS ObjectGraph

CONSTANTS Keys, Cells, Slots, Inline, Pinned

VARIABLES mem, used, slots, cellval, held, hand

vars == <<mem, used, slots, cellval, held, hand>>

Objects(ups, cv) == {cv[c] : c \in ups} \ {Inline}

(* Of the objects in a store, those that variables s, cells cv, of which   *)
(* frames hold h, and results hd reach.                                    *)
Reached(store, s, cv, h, hd) ==
  LET graph == [k \in DOMAIN store |-> store[k].refs \cup Objects(store[k].ups, cv)]
      roots == Pinned \cup ({s[x] : x \in Slots} \ {Inline}) \cup Objects(h, cv)
  IN  [k \in Reach(graph, roots \cup hd) |-> store[k]]

(* The memory after a step that leaves `store', with what the new roots do *)
(* not reach gone in the same instant.                                     *)
Becomes(store, s, cv, h, hd) ==
  /\ slots' = s
  /\ cellval' = cv
  /\ held' = h
  /\ hand' = hd
  /\ mem' = Reached(store, s, cv, h, hd)

Init ==
  /\ mem = [k \in Pinned |-> [refs |-> {}, ups |-> {}]]
  /\ used = Pinned
  /\ slots = [s \in Slots |-> Inline]
  /\ cellval = [c \in Cells |-> Inline]
  /\ held = {}
  /\ hand = {}

(* A program makes objects out of objects it can reach,                    *)
New(k, refs, ups) ==
  /\ used' = used \cup {k}
  /\ Becomes([x \in DOMAIN mem \cup {k} |->
                IF x = k THEN [refs |-> refs, ups |-> ups] ELSE mem[x]],
             slots, cellval, held, (hand \ refs) \cup {k})

(* moves values it can reach into its variables,                           *)
Assign(s, v) == Becomes(mem, [slots EXCEPT ![s] = v], cellval, held, hand \ {v})

AssignCell(c, v, h) == Becomes(mem, slots, [cellval EXCEPT ![c] = v], h, hand)

(* replaces what its objects refer to,                                     *)
Replace(k, old, v) ==
  Becomes([mem EXCEPT ![k].refs = (@ \ {old}) \cup ({v} \ {Inline})],
          slots, cellval, held, hand \ {v})

(* enters and leaves calls, and drops results.                             *)
Call(h) == Becomes(mem, slots, cellval, h, hand)

Discard == Becomes(mem, slots, cellval, held, {})

Values == DOMAIN mem \cup {Inline}

Next ==
  \/ \E k \in Keys \ used, refs \in SUBSET DOMAIN mem, ups \in SUBSET Cells :
        New(k, refs, ups)
  \/ /\ UNCHANGED used
     /\ \/ \E s \in Slots, v \in Values : Assign(s, v)
        \/ \E c \in Cells, v \in Values, h \in SUBSET Cells : AssignCell(c, v, h)
        \/ \E k \in DOMAIN mem \ Pinned, v \in Values :
              \E old \in mem[k].refs \cup {Inline} : Replace(k, old, v)
        \/ \E h \in SUBSET Cells : Call(h)
        \/ Discard

Spec == Init /\ [][Next]_vars
=============================================================================
