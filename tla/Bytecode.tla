------------------------------ MODULE Bytecode ------------------------------
(***************************************************************************)
(* The bytecode the compiler hands to the VM (l3_bytecode/src): its        *)
(* instructions, its constants, and what the VM takes for granted of them. *)
(* Offsets, slots and constants count from 0.                              *)
(***************************************************************************)
EXTENDS Values, Functions

Operators   == {"Add", "Subtract", "Multiply", "Divide", "Modulo", "Power"}
Comparisons == {"Equal", "NotEqual", "Less", "LessEqual", "Greater", "GreaterEqual"}

AtMostOne == {s \in SUBSET Nat : \A x, y \in s : x = y}

UpvalueDesc == [isLocal : BOOLEAN, index : Nat]

Instruction ==
  [op : Operators \cup {"Negate", "Not", "GetIndex", "SetIndex", "Return"}]
  \cup [op : {"Constant", "Duplicate", "GetLocal", "SetLocal", "GetUpvalue", "SetUpvalue"},
        index : Nat]
  \cup [op : {"Pop", "MakeArray", "VectorAppend"}, count : Nat]
  \cup [op : {"GetGlobal", "SetGlobal"}, name : STRING]
  \cup [op : {"GetBuiltin"}, builtin : STRING]
  \cup [op : {"Compare"}, which : Comparisons, keepRhs : BOOLEAN]
  \cup [op : {"Jump"}, offset : Nat]
  \cup [op : {"JumpIf"}, offset : Nat, expected : BOOLEAN, keepStay : BOOLEAN,
        keepJump : BOOLEAN]
  \cup [op : {"ForLoop"}, control : Nat, limit : Nat, step : AtMostOne,
        inclusive : BOOLEAN, body : Nat]
  \cup [op : {"Call"}, argc : Nat, keep : BOOLEAN]
  \cup [op : {"CallBuiltin"}, builtin : STRING, argc : Nat, keep : BOOLEAN]
  \cup [op : {"Closure"}, index : Nat, upvalues : Seq(UpvalueDesc)]

(* A constant is a value or what goes into a cell of its own: a string, a  *)
(* name or a function with nothing bound yet.                              *)
Datum(chunks) ==
  {v \in Value : v.t # "ref"}
  \cup [t : {"str"}, s : Seq(Nat)] \cup [t : {"name"}, name : STRING]
  \cup [t : {"fun"}, chunk : 0 .. chunks - 1, arity : Nat, curried : {<<>>}, ups : {<<>>}]

-----------------------------------------------------------------------------
(* Where the instruction at pc may lead to in its chunk.                   *)
GoesTo(i, pc) ==
  CASE i.op = "Return"  -> {}
    [] i.op = "Jump"    -> {i.offset}
    [] i.op = "JumpIf"  -> {i.offset, pc + 1}
    [] i.op = "ForLoop" -> {i.body, pc + 1}
    [] OTHER            -> {pc + 1}

(* What `compiler invariant' and `typed index is within bounds by          *)
(* construction' promise of the instruction at pc of a chunk.              *)
InBounds(i, pc, size, consts, builtins) ==
  /\ GoesTo(i, pc) \subseteq 0 .. size - 1
  /\ i.op \in {"Constant", "Closure"} => i.index < Len(consts)
  /\ i.op = "Closure" => consts[i.index + 1].t = "fun"
  /\ i.op = "GetBuiltin" => i.builtin \in builtins

CodeOK(code, consts, builtins) ==
  /\ code \in Seq(Instruction) /\ code # <<>>
  /\ \A j \in DOMAIN code : InBounds(code[j], j - 1, Len(code), consts, builtins)

WellFormed(b, builtins) ==
  /\ Len(b.chunks) \in Nat \ {0} /\ DOMAIN b.chunks = 1 .. Len(b.chunks)
  /\ b.consts \in Seq(Datum(Len(b.chunks)))
  /\ \A c \in DOMAIN b.chunks : CodeOK(b.chunks[c].code, b.consts, builtins)

-----------------------------------------------------------------------------
(* The stack of a frame, counted from where the frame begins.  What an     *)
(* instruction takes off, and what it puts there before it falls through.  *)
OneIf(b) == IF b THEN 1 ELSE 0

Pops(i) ==
  CASE i.op \in Operators \cup {"Compare", "GetIndex", "SetIndex"} -> 2
    [] i.op \in {"Negate", "Not", "SetGlobal", "SetLocal", "SetUpvalue"} -> 1
    [] i.op \in {"Pop", "MakeArray", "VectorAppend"} -> i.count
    [] i.op = "Call"        -> i.argc + 1
    [] i.op = "CallBuiltin" -> i.argc
    [] OTHER                -> 0

Pushes(i) ==
  CASE i.op \in {"Pop", "VectorAppend", "SetIndex", "SetGlobal", "SetLocal", "SetUpvalue"} -> 0
    [] i.op = "Compare"                 -> 1 + OneIf(i.keepRhs)
    [] i.op \in {"Call", "CallBuiltin"} -> OneIf(i.keep)
    [] OTHER                            -> 1

(* What it must find there: what it takes off, what it reads or writes     *)
(* under that, and the slots of the locals it names.                       *)
Reads(i) ==
  CASE i.op = "SetIndex"     -> 3
    [] i.op = "VectorAppend" -> i.count + 1
    [] i.op = "Duplicate"    -> i.index + 1
    [] i.op \in {"JumpIf", "Return"} -> 1
    [] OTHER                 -> Pops(i)

SlotsNamed(i) ==
  CASE i.op \in {"GetLocal", "SetLocal"} -> {i.index}
    [] i.op = "ForLoop" -> {i.control, i.limit} \cup i.step
    [] i.op = "Closure" -> {u.index : u \in {w \in Range(i.upvalues) : w.isLocal}}
    [] OTHER            -> {}

Suffices(i, h) == Reads(i) <= h /\ \A s \in SlotsNamed(i) : s < h - Pops(i)

(* Where the instruction at pc leads to from height h, and at which height *)
(* it arrives.                                                             *)
Exits(i, pc, h) ==
  CASE i.op = "Return"  -> {}
    [] i.op = "Jump"    -> {<<i.offset, h>>}
    [] i.op = "JumpIf"  -> {<<i.offset, h - 1 + OneIf(i.keepJump)>>,
                            <<pc + 1, h - 1 + OneIf(i.keepStay)>>}
    [] i.op = "ForLoop" -> {<<i.body, h>>, <<pc + 1, h>>}
    [] OTHER            -> {<<pc + 1, h - Pops(i) + Pushes(i)>>}

(* The compiler's bookkeeping of the stack.  Heights is, for each chunk, a  *)
(* set of offsets with the height the instruction there is executed at.    *)
(* Every path comes to an instruction at one height, and finds what it     *)
(* takes, reads and names; a function returns with a result on its stack,  *)
(* the program with none.                                                  *)
FunctionsIn(b) == {f \in Range(b.consts) : f.t = "fun"}
Entries(b, c) ==
  {<<0, f.arity>> : f \in {g \in FunctionsIn(b) : g.chunk + 1 = c}}
  \cup (IF c = 1 THEN {<<0, 0>>} ELSE {})

Matches(code, main, heights) ==
  /\ \A p \in heights :
       /\ p[1] \in 0 .. Len(code) - 1 /\ p[2] \in Nat
       /\ Exits(code[p[1] + 1], p[1], p[2]) \subseteq heights
       /\ IF main /\ code[p[1] + 1].op = "Return" THEN p[2] = 0
          ELSE Suffices(code[p[1] + 1], p[2])
  /\ \A p, q \in heights : p[1] = q[1] => p[2] = q[2]

StacksMatch(b, heights) ==
  /\ \A f \in FunctionsIn(b) : f.chunk # 0
  /\ \A c \in DOMAIN b.chunks :
       Entries(b, c) \subseteq heights[c] /\ Matches(b.chunks[c].code, c = 1, heights[c])

(* These heights, by following all paths for as many steps as the chunk    *)
(* has instructions: enough when no path comes to one at two heights.      *)
HeightsFrom(code, entries) ==
  LET steps[n \in 0 .. Len(code)] ==
        IF n = 0 THEN [seen |-> entries, last |-> entries]
        ELSE LET before == steps[n - 1]
                 from   == {p \in before.last : p[1] < Len(code)}
                 next   == UNION {Exits(code[p[1] + 1], p[1], p[2]) : p \in from}
             IN  [seen |-> before.seen \cup next, last |-> next \ before.seen]
  IN  steps[Len(code)].seen
Heights(b) ==
  [c \in DOMAIN b.chunks |-> HeightsFrom(b.chunks[c].code, Entries(b, c))]

-----------------------------------------------------------------------------
(* The upvalues of its function an instruction names, and those that a     *)
(* chunk names.                                                            *)
UpvaluesUsed(i) ==
  CASE i.op \in {"GetUpvalue", "SetUpvalue"} -> {i.index}
    [] i.op = "Closure" -> {u.index : u \in {w \in Range(i.upvalues) : ~w.isLocal}}
    [] OTHER -> {}

Named(b, chunk) == UNION {UpvaluesUsed(i) : i \in Range(b.chunks[chunk + 1].code)}

(* A closure is made with as many upvalues as its chunk names.  Main and   *)
(* the functions that are constants as they are name none.                 *)
UpvaluesMatch(b) ==
  /\ Named(b, 0) = {}
  /\ \A c \in DOMAIN b.chunks : \A i \in Range(b.chunks[c].code) :
       /\ i.op = "Closure"
            => \A u \in Named(b, b.consts[i.index + 1].chunk) : u < Len(i.upvalues)
       /\ i.op = "Constant" /\ b.consts[i.index + 1].t = "fun"
            => Named(b, b.consts[i.index + 1].chunk) = {}

Verified(b) == StacksMatch(b, Heights(b)) /\ UpvaluesMatch(b)
=============================================================================
