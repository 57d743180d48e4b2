------------------------------ MODULE Pipeline ------------------------------
(***************************************************************************)
(* The stages in a row (l3/src/lib.rs): syntax trees are compiled,         *)
(* optimized when asked to, and executed.                                  *)
(***************************************************************************)
EXTENDS VM, Optimizer

Built(block, optimize) == IF optimize THEN Optimize(Compile(block)) ELSE Compile(block)
=============================================================================
