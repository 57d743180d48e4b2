--------------------------- MODULE KnownConstants ---------------------------
(***************************************************************************)
(* What the optimizer takes for known about the stack, compared with the   *)
(* stack, and the VM on propagated bytecode compared with the VM.          *)
(***************************************************************************)
EXTENDS VM, Propagation

CONSTANT StacksKnown(_)   (* for the chunks of a program, the abstract stack
                             before each instruction; <<>> for a chunk that
                             is left alone                                 *)

(* The same function; TLC computes its values here, once.                  *)
Tabulated(f) == CHOOSE g \in {f} : g = f

KnownStacks == Tabulated([p \in DOMAIN Programs |-> StacksKnown(Programs[p])])

(* At every instruction the optimizer's stack is as high as the frame's,   *)
(* and an entry taken for a constant reads as that constant: on every      *)
(* path that leads there, after every call that may have changed a         *)
(* captured local, in every round of a loop (`provably the constant at     *)
(* that pool index').                                                      *)
ConstantData(k) ==
  IF NeedsCell(bytecode.consts[k + 1]) THEN RefV(ConstantKey(k)) ELSE bytecode.consts[k + 1]
FrameAgrees(known) ==
  /\ Len(known) = Len(stack) - Top.fp
  /\ \A j \in DOMAIN known : known[j] # Unknown => LocalValue(j - 1) = ConstantData(known[j])
AgreesHere(table) == table # <<>> => FrameAgrees(table[ip + 1])
AbstractStackSound == status = "run" => AgreesHere(KnownStacks[program][Top.chunk + 1])

(* The same for bytecode that assigns to no element (run OptimizerStack    *)
(* shows what happens to the rest).                                        *)
StoresNoElement(b) ==
  \A c \in DOMAIN b.chunks : \A j \in DOMAIN b.chunks[c].code : b.chunks[c].code[j].op # "SetIndex"
KnownConstantsHold == StoresNoElement(bytecode) => AbstractStackSound

-----------------------------------------------------------------------------
(* The optimizer's tables are a fixpoint: before each instruction they     *)
(* claim no more than each instruction that leads there hands on, and      *)
(* nothing of the parameters.                                              *)
ClaimsNoMore(s, t) == Len(s) = Len(t) /\ \A j \in DOMAIN s : s[j] \in {Unknown, t[j]}

TableOK(code, arities, table) ==
  /\ Len(table) = Len(code) /\ \A j \in DOMAIN code : table[j] \in Seq(Nat \cup {Unknown})
  /\ \A n \in arities : ClaimsNoMore(table[1], Unknowns(n))
  /\ \A j \in DOMAIN code : \A o \in Range(Handed(code[j], j - 1, table[j])) :
       ClaimsNoMore(table[o[1] + 1], o[2])

TablesOK(b, tables) ==
  \A c \in DOMAIN b.chunks :
    tables[c] # <<>> => TableOK(b.chunks[c].code, {e[2] : e \in Entries(b, c)}, tables[c])

(* The work list of propagate_constants ends in a fixpoint, whatever the   *)
(* order of its queue, and merging never leaves more than a path knows.    *)
TablesStable ==
  ip = 0 /\ StoresNoElement(bytecode) => TablesOK(bytecode, KnownStacks[program])

(* No value is put in the slot of a captured local that is gone: the cell  *)
(* of that local would be read instead (`captured_locals' is never         *)
(* cleared).  The one way to a wrong constant, for bytecode that assigns   *)
(* to no element.                                                          *)
CapturedSlotsRest ==
  status = "run" /\ Current.op \in {"Constant", "Duplicate", "GetLocal"}
    => ~IsCaptured(Len(stack) - Top.fp)

-----------------------------------------------------------------------------
(* The program after propagate_constants, and the VM that executes it.     *)
PropagatedCode(code, table) ==
  IF table = <<>> THEN code ELSE Written([j \in DOMAIN code |-> Propagated(code[j], table[j])])
AfterPropagation(b, tables) ==
  [chunks |-> Written([c \in DOMAIN b.chunks |->
                 [code |-> IF StoresNoElement(b) THEN PropagatedCode(b.chunks[c].code, tables[c])
                           ELSE b.chunks[c].code]]),
   consts |-> b.consts]
PropagatedPrograms ==
  Tabulated([p \in DOMAIN Programs |-> AfterPropagation(Programs[p], KnownStacks[p])])
PropagatedBytecode == PropagatedPrograms[program]

Optimized == INSTANCE VM WITH Programs <- PropagatedPrograms, bytecode <- PropagatedBytecode

(* Constant propagation is invisible: every behaviour of a program is one  *)
(* of the propagated program, step by step, collections, captures and      *)
(* errors included.                                                        *)
PropagationInvisible == Optimized!Spec
=============================================================================
