---------------------------- MODULE ObjectGraph ----------------------------
(***************************************************************************)
(* The shape of the heap as the collector sees it: a graph is a function   *)
(* from the keys of the live cells to the set of keys each cell refers to. *)
(* Edges may lead out of the graph: a key whose slot was freed is still a  *)
(* value a program can hold, and slotmap answers None for it.              *)
(***************************************************************************)

(* S is closed when following a live edge never leaves it.                 *)
ClosedIn(graph, S) ==
  \A k \in S : graph[k] \cap DOMAIN graph \subseteq S

(* The closed sets of live cells that hold the live members of R.          *)
ClosedSets(graph, R) ==
  {S \in SUBSET DOMAIN graph : R \cap DOMAIN graph \subseteq S /\ ClosedIn(graph, S)}

(* The live cells reachable from R: those in every such set.               *)
Reach(graph, R) ==
  LET closed == ClosedSets(graph, R)
  IN  {k \in DOMAIN graph : \A S \in closed : k \in S}
=============================================================================
