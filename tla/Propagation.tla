----------------------------- MODULE Propagation -----------------------------
(***************************************************************************)
(* Constant propagation (l3_compiler/src/optimizer.rs), one instruction at *)
(* a time: what the optimizer takes for known before an instruction, what  *)
(* of it the instruction hands on, and what the instruction becomes.       *)
(***************************************************************************)
EXTENDS Bytecode

(* The same sequence; TLC computes its elements here, once.                *)
Written(s) == s \o <<>>

(* The abstract stack of a frame holds for each entry the index of the     *)
(* constant it is known to be, or Unknown.                                 *)
Unknown == -1

Cut(s, n) == SubSeq(s, 1, Len(s) - n)
Known(s, slot) == IF slot \in 0 .. Len(s) - 1 THEN s[slot + 1] ELSE Unknown
SetKnown(s, slot, k) == IF slot \in 0 .. Len(s) - 1 THEN [s EXCEPT ![slot + 1] = k] ELSE s
Unknowns(n) == [j \in 1 .. n |-> Unknown]

(* What the other instructions take off the stack and put there.           *)
Takes(i) ==
  CASE i.op = "MakeArray"   -> i.count
    [] i.op = "CallBuiltin" -> i.argc
    [] i.op \in {"Negate", "Not", "SetGlobal", "SetUpvalue"} -> 1
    [] i.op \in {"Jump", "JumpIf", "Return", "GetGlobal", "GetUpvalue", "GetBuiltin",
                 "Closure"} -> 0
    [] i.op = "SetIndex" -> 3
    [] OTHER -> 2
Gives(i) ==
  CASE i.op \in {"SetGlobal", "SetUpvalue", "SetIndex", "Jump", "JumpIf", "Return"} -> 0
    [] i.op = "CallBuiltin" -> IF i.keep THEN 1 ELSE 0
    [] i.op = "Compare"     -> IF i.keepRhs THEN 2 ELSE 1
    [] OTHER -> 1

(* A call may change captured locals through their cells: nothing is known *)
(* of any entry afterwards.  The slip is to know them still.               *)
AfterCallKnowing(s, i) == Cut(s, i.argc + 1) \o Unknowns(IF i.keep THEN 1 ELSE 0)
AfterCall(s, i) == Unknowns(Len(Cut(s, i.argc + 1)) + (IF i.keep THEN 1 ELSE 0))

TransferInstruction(s, i) ==
  CASE i.op = "Constant"  -> Append(s, i.index)
    [] i.op = "Pop"       -> Cut(s, i.count)
    [] i.op = "Duplicate" -> Append(s, Known(s, Len(s) - i.index - 1))
    [] i.op = "GetLocal"  -> Append(s, Known(s, i.index))
    [] i.op = "SetLocal"  -> SetKnown(Cut(s, 1), i.index, Known(s, Len(s) - 1))
    [] i.op = "ForLoop"   -> SetKnown(s, i.control, Unknown)
    [] i.op = "Call"      -> AfterCall(s, i)
    [] i.op = "VectorAppend" ->
         LET r == Cut(s, i.count) IN SetKnown(r, Len(r) - 1, Unknown)
    [] OTHER -> Cut(s, Takes(i)) \o Unknowns(Gives(i))

(* transfer, of the last instruction of a block: the stack each successor  *)
(* is handed.                                                              *)
Handed(i, pc, before) ==
  LET s == TransferInstruction(before, i)
      rest(keeps) == Cut(s, 1) \o (IF keeps THEN <<Known(s, Len(s) - 1)>> ELSE <<>>)
  IN  CASE i.op = "Return"  -> <<>>
        [] i.op = "Jump"    -> << <<i.offset, s>> >>
        [] i.op = "JumpIf"  -> << <<i.offset, rest(i.keepJump)>>, <<pc + 1, rest(i.keepStay)>> >>
        [] i.op = "ForLoop" -> << <<i.body, s>>, <<pc + 1, s>> >>
        [] OTHER            -> << <<pc + 1, s>> >>

(* propagate_constants: a GetLocal of a known constant becomes its push.   *)
Propagated(i, s) ==
  IF i.op = "GetLocal" /\ Known(s, i.index) # Unknown
  THEN [op |-> "Constant", index |-> Known(s, i.index)] ELSE i
=============================================================================
