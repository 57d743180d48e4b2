------------------------------ MODULE Optimizer ------------------------------
(***************************************************************************)
(* The bytecode optimizer (l3_compiler/src/optimizer.rs): per chunk, dead  *)
(* code, constant propagation through the stack slots, folding of windows  *)
(* of constants; four rounds at most.  Offsets count from 0.               *)
(***************************************************************************)
EXTENDS Compiler, Propagation

Offsets(code) == 0 .. Len(code) - 1
InOrder(code) == [j \in DOMAIN code |-> j - 1]

(* remap_offsets: a jump is moved to where its target went; a target past  *)
(* the end of the code stays.                                              *)
Remapped(code, old, new) ==
  LET to(o) == IF o \in Offsets(old) THEN new[o + 1] ELSE o
      Remap(i) == CASE i.op \in {"Jump", "JumpIf"} -> [i EXCEPT !.offset = to(@)]
                    [] i.op = "ForLoop" -> [i EXCEPT !.body = to(@)]
                    [] OTHER -> i
  IN  Written([j \in DOMAIN code |-> Remap(code[j])])

-----------------------------------------------------------------------------
(* Dead code: what no path from the entry leads to goes.                   *)
Successors(code, i) == GoesTo(code[i + 1], i)

RECURSIVE Spread(_, _, _)
Spread(code, found, recent) ==
  LET next == (Offsets(code) \cap UNION {Successors(code, i) : i \in recent}) \ found
  IN  IF next = {} THEN found ELSE Spread(code, found \cup next, next)

RemoveDeadCode(code) ==
  LET live == Spread(code, {0} \cap Offsets(code), {0} \cap Offsets(code))
      kept == SelectSeq(InOrder(code), LAMBDA i : i \in live)
      new  == [j \in DOMAIN code |->
                 IF j - 1 \in live THEN Cardinality({i \in live : i < j - 1}) ELSE 0]
  IN  IF live = Offsets(code) THEN code
      ELSE Remapped([j \in DOMAIN kept |-> code[kept[j] + 1]], code, new)

-----------------------------------------------------------------------------
(* Constant propagation, block by block (module Propagation has what one  *)
(* instruction does).                                                      *)

(* Blocks, named by their first offset: the entry, what a jump leads to,   *)
(* and what follows a conditional jump or a return.                        *)
Starts(code) ==
  LET of(ops) == {i \in Offsets(code) : code[i + 1].op \in ops}
      targets == UNION {Successors(code, i) : i \in of({"Jump", "JumpIf", "ForLoop"})}
      after   == {i + 1 : i \in of({"Return"})}
  IN  Offsets(code) \cap ({0} \cup targets \cup after)
Blocks(code) ==
  LET starts == Starts(code)
  IN  [s \in starts |-> Min({t \in starts : t > s} \cup {Len(code)})]
BlockCode(code, start, end) == SubSeq(code, start + 1, end)

(* transfer: the stack at the end of a block, handed to each successor.    *)
Transfer(code, start, end, in) ==
  SelectSeq(Handed(code[end], end - 1,
                   FoldLeft(TransferInstruction, in, BlockCode(code, start, end - 1))),
            LAMBDA o : o[1] \in Offsets(code))

(* merge_stack: where paths meet, only what all of them know is known.     *)
MergeKeeping(dst, src) == dst   (* a slip: the first path to get there wins *)
MergeStack(dst, src) ==
  Written([j \in 1 .. Min({Len(dst), Len(src)}) |->
             IF dst[j] = src[j] THEN dst[j] ELSE Unknown])

(* A stack handed to a successor: a block whose stack changes is queued.   *)
Meet(acc, out) ==
  LET succ   == out[1]
      merged == IF succ \in DOMAIN acc.ins THEN MergeStack(acc.ins[succ], out[2]) ELSE out[2]
      fresh  == succ \notin DOMAIN acc.ins \/ merged # acc.ins[succ]
  IN  [ins   |-> Plus(acc.ins, succ, merged),
       queue |-> IF fresh /\ succ \notin Range(acc.queue) THEN Append(acc.queue, succ)
                 ELSE acc.queue]
Visit(code, blocks, acc) ==
  LET start == Head(acc.queue)
  IN  FoldLeft(Meet, [acc EXCEPT !.queue = Tail(@)],
               Transfer(code, start, blocks[start], acc.ins[start]))

(* The stacks at the beginning of the blocks, when the queue is empty.     *)
RECURSIVE Fixpoint(_, _, _)
Fixpoint(code, blocks, acc) ==
  IF acc.queue = <<>> THEN acc.ins ELSE Fixpoint(code, blocks, Visit(code, blocks, acc))

InStacks(code, arity) ==
  IF code = <<>> THEN <<>>
  ELSE Fixpoint(code, Blocks(code), [ins |-> Plus(<<>>, 0, Unknowns(arity)), queue |-> <<0>>])

(* The abstract stack before each instruction; every block is reached, for *)
(* dead code has gone.                                                     *)
StacksInBlock(in, code) ==
  FoldLeft(LAMBDA stacks, i : Append(stacks, TransferInstruction(Last(stacks), i)), <<in>>, code)
KnownIn(code, blocks, starts, ins) ==
  FlattenSeq([j \in DOMAIN starts |->
    StacksInBlock(ins[starts[j]], BlockCode(code, starts[j], blocks[starts[j]] - 1))])
KnownAt(code, arity) ==
  KnownIn(code, Blocks(code), SelectSeq(InOrder(code), LAMBDA i : i \in Starts(code)),
          InStacks(code, arity))

Pairwise(code, known) == Written([j \in DOMAIN code |-> Propagated(code[j], known[j])])
PropagateConstants(code, arity) == Pairwise(code, KnownAt(code, arity))

-----------------------------------------------------------------------------
(* Folding.  A constant that needs a cell is compared as itself.           *)
CompareData(l, r) ==
  LET v(k, d) == IF d.t \in {"str", "name", "fun"} THEN RefV(k) ELSE d
  IN  Compare(v(1, l), v(2, r), <<l, r>>)

FoldBinary(i, l, r) ==
  CASE i.op = "Compare" /\ ~i.keepRhs -> {BoolV(CompareData(l, r) \in Accepts(i.which))}
    [] i.op = "Add" /\ l.t = "str" /\ r.t = "str" -> {Str(l.s \o r.s)}
    [] /\ i.op \in {"Add", "Subtract", "Multiply", "Divide", "Modulo", "Power"}
       /\ IsPrimitive(l) /\ IsPrimitive(r) ->
         {c.v : c \in {x \in {ArithPrimitive(i.op, l, r)} : x.kind = "value"}}
    [] OTHER -> {}

FoldUnary(i, d) ==
  CASE i.op = "Negate" /\ IsPrimitive(d) -> {Negative(d, <<>>).v}
    [] i.op = "Not" -> {BoolV(~IsTruthy(d, <<>>))}
    [] OTHER -> {}

(* fold_window: what the instructions from i on can be replaced by, and    *)
(* how many there are; whether a jump leads between them is not asked.     *)
FoldWindow(code, i, consts) ==
  LET IsConst(j) == j < Len(code) /\ code[j + 1].op = "Constant"
      data(j)    == consts[code[j + 1].index + 1]
      binary == IF IsConst(i) /\ IsConst(i + 1) /\ i + 2 < Len(code)
                THEN FoldBinary(code[i + 3], data(i), data(i + 1)) ELSE {}
      unary  == IF IsConst(i) /\ i + 1 < Len(code) THEN FoldUnary(code[i + 2], data(i)) ELSE {}
  IN  IF binary # {} THEN {[data |-> d, count |-> 3] : d \in binary}
      ELSE {[data |-> d, count |-> 2] : d \in unary}

(* What was folded so far: the bytecode b with the constants that took, the *)
(* code, and where each instruction went.                                  *)
Kept(acc, ins) ==
  [acc EXCEPT !.new = Append(@, Len(acc.code)), !.code = Append(@, ins)]
Shortened(acc, b, w) ==
  [b    |-> b,
   new  |-> acc.new \o [j \in 1 .. w.count |-> Len(acc.code)],
   code |-> Append(acc.code, At("Constant", ConstIndex(b, w.data)))]
Replaced(acc, w) == Shortened(acc, WithConst(acc.b, w.data), w)

(* fold_constants on a chunk: one pass from left to right.                 *)
RECURSIVE Fold(_, _, _)
Fold(code, i, acc) ==
  LET window == FoldWindow(code, i, acc.b.consts)
  IN  CASE i = Len(code) -> acc
        [] i < Len(code) /\ window = {} -> Fold(code, i + 1, Kept(acc, code[i + 1]))
        [] OTHER -> LET w == CHOOSE x \in window : TRUE
                    IN  Fold(code, i + w.count, Replaced(acc, w))

(* Slip: the jumps are not moved.                                          *)
FoldingKeeping(chunk, code, done) == [done.b EXCEPT !.chunks[chunk].code = done.code]
Folding(chunk, code, done) ==
  [done.b EXCEPT !.chunks[chunk].code = Remapped(done.code, code, done.new)]
FoldConstants(b, chunk) ==
  Folding(chunk, b.chunks[chunk].code,
          Fold(b.chunks[chunk].code, 0, [b |-> b, code |-> <<>>, new |-> <<>>]))

-----------------------------------------------------------------------------
(* chunk_arities: the parameters of the function a chunk is the body of.   *)
Arity(b, chunk) ==
  LET mine == {d \in Range(b.consts) : d.t = "fun" /\ d.chunk = chunk - 1}
  IN  IF mine = {} THEN 0 ELSE (CHOOSE f \in mine : TRUE).arity

OptimizeChunk(b, chunk) ==
  LET code == PropagateConstants(RemoveDeadCode(b.chunks[chunk].code), Arity(b, chunk))
  IN  FoldConstants([b EXCEPT !.chunks[chunk].code = code], chunk)

Round(b) == FoldLeft(OptimizeChunk, b, [j \in DOMAIN b.chunks |-> j])

(* The tables of all chunks of b; none for a chunk with dead code, which   *)
(* goes before the stacks are computed.                                    *)
TableOfChunk(code, arity) == IF RemoveDeadCode(code) = code THEN KnownAt(code, arity) ELSE <<>>
TablesOf(b) == Written([j \in DOMAIN b.chunks |-> TableOfChunk(b.chunks[j].code, Arity(b, j))])

(* Four rounds at most, until one changes nothing.                         *)
RECURSIVE RoundsOf(_, _, _)
RoundsOf(b, next, n) ==
  IF n = 0 \/ next = b THEN b ELSE RoundsOf(next, Round(next), n - 1)
Optimize(b) == RoundsOf(b, Round(b), 4)
=============================================================================
