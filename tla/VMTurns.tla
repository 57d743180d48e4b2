------------------------------- MODULE VMTurns -------------------------------
(***************************************************************************)
(* One step of the VM, whatever the instruction: what it leaves is made of *)
(* what it found, of the program's constants and of the cells it           *)
(* allocates.  Both theorems of VMProofs rest on this.                     *)
(***************************************************************************)
EXTENDS CollectorProofs

(* Frames and cells whose references are among the keys K and whose upvalue *)
(* cells are among U, in bytecode of n chunks.                             *)
Captures(U) == UNION {[D -> U] : D \in SUBSET Nat}
FrameOver(n, K, U) ==
  [chunk : 0 .. n - 1, ip : Nat, fp : Nat, closure : ValuesOver(K), ups : Seq(U),
   captured : Captures(U), discard : BOOLEAN]
(* A function has the chunk and the arity of a constant.                   *)
Signed(f) == \E g \in FunctionsIn(bytecode) : f.chunk = g.chunk /\ f.arity = g.arity
FunctionOver(n, K, U) ==
  {f \in [t : {"fun"}, chunk : 0 .. n - 1, arity : Nat, curried : Seq(ValuesOver(K)),
           ups : Seq(U)] : Signed(f)}
CellOver(n, K, U) ==
  DataOver(K) \cup [t : {"name"}, name : STRING] \cup [t : {"builtin"}, id : Range(BuiltinIds)]
  \cup FunctionOver(n, K, U)

GlobalsOver(g, K)       == \A id \in DOMAIN g : g[id] \in ValuesOver(K)
UpvaluesOver(u, K, U)   == u \in Seq(Value) /\ U \subseteq DOMAIN u /\ \A c \in U : u[c] \in ValuesOver(K)
CellsOver(cells, n, K, U) == \A k \in DOMAIN cells : cells[k] \in CellOver(n, K, U)

Chunks == Len(bytecode.chunks)
Held(K, U) ==
  /\ stack \in Seq(ValuesOver(K))
  /\ GlobalsOver(globals, K)
  /\ frames \in Seq(FrameOver(Chunks, K, U))
  /\ UpvaluesOver(upv, K, U)
  /\ CellsOver(heap, Chunks, K, U)

(* The instructions still to be executed are in their chunks.              *)
InCode(f, pc) == pc \in 0 .. Len(bytecode.chunks[f.chunk + 1].code) - 1
ReadyAt(fr, i) ==
  /\ fr # <<>> /\ InCode(Last(fr), i)
  /\ \A n \in 1 .. Len(fr) - 1 : InCode(fr[n], fr[n].ip)
Ready == status = "run" => ReadyAt(frames, ip)

(* The cells of the builtins and the constants are there, as they were     *)
(* made.                                                                   *)
PinnedCell(k) ==
  IF k <= Len(BuiltinIds) THEN Builtin(BuiltinIds[k]) ELSE bytecode.consts[k - Len(BuiltinIds)]
Pinned(cells) == \A k \in PinnedKeys : k \in DOMAIN cells /\ cells[k] = PinnedCell(k)

(* Those that instructions put on the stack; that of a function only       *)
(* closures are made of is not among them.                                 *)
KeysPushed ==
  {k \in PinnedKeys :
     \/ k \in DOMAIN BuiltinIds
     \/ \E c \in DOMAIN bytecode.chunks : \E i \in Range(bytecode.chunks[c].code) :
          i.op = "Constant" /\ k = ConstantKey(i.index)}

Basics ==
  /\ WellFormed(bytecode, Range(BuiltinIds))
  /\ ip \in Nat /\ nextKey \in Nat /\ added \in Nat /\ threshold \in Nat \ {0}
  /\ \A k \in DOMAIN heap : k \in Nat /\ k < nextKey
  /\ Pinned(heap)
  /\ Ready
  /\ status \in {"run", "done", "error", "invalid", "endless"}
  /\ saved \in Seq(Seq(Value)) /\ Len(saved) = Len(frames)

VMInv == Basics /\ Held(Nat, DOMAIN upv)

-----------------------------------------------------------------------------
(* A step that leaves st on the stack and h in memory, or h collected with *)
(* st on the stack and, after that, st with the result of a call.          *)
NewKeys  == nextKey .. nextKey' - 1
NewCells == Len(upv) + 1 .. Len(upv')

Over(K, U, h, st) ==
  /\ st \in Seq(ValuesOver(K))
  /\ GlobalsOver(globals', K)
  /\ frames' \in Seq(FrameOver(Chunks, K, U))
  /\ UpvaluesOver(upv', K, U)
  /\ CellsOver(h, Chunks, K, U)

Turn(K, U, h, st) ==
  /\ bytecode' = bytecode
  /\ nextKey' \in Nat /\ nextKey' >= nextKey /\ added' \in Nat /\ threshold' \in Nat \ {0}
  /\ Len(upv') \in Nat /\ Len(upv') >= Len(upv)
  /\ DOMAIN h = DOMAIN heap \cup NewKeys
  /\ Pinned(h)
  /\ Over(K \cup NewKeys, U \cup NewCells, h, st)
  /\ \/ heap' = h
     \/ /\ globals' = globals
        /\ heap' = [k \in ReachedFrom(h, upv', RootKeys(st, frames', upv')) |-> h[k]]
  /\ \/ stack' = st
     \/ HandsBack /\ \E v \in ValuesOver(K \cup NewKeys) : stack' = Append(st, v)

Turns(K, U) == \E h, st : Turn(K, U, h, st)
-----------------------------------------------------------------------------
(* What the sets above consist of.                                         *)
LEMMA CapturedCells ==
  ASSUME NEW U, NEW c
  PROVE  c \in Captures(U) <=> /\ DOMAIN c \subseteq Nat /\ c = [i \in DOMAIN c |-> c[i]]
                               /\ \A i \in DOMAIN c : c[i] \in U
<1>1. c \in Captures(U) => \E D \in SUBSET Nat : c \in [D -> U]
  BY Zenon DEF Captures
<1>2. (\E D \in SUBSET Nat : c \in [D -> U]) => c \in Captures(U)
  BY Zenon DEF Captures
<1>3. DOMAIN c \subseteq Nat /\ c = [i \in DOMAIN c |-> c[i]] /\ (\A i \in DOMAIN c : c[i] \in U)
        => c \in [DOMAIN c -> U]
  OBVIOUS
<1> QED
  BY <1>1, <1>2, <1>3

LEMMA FrameFields ==
  ASSUME NEW n, NEW K, NEW U, NEW f \in FrameOver(n, K, U)
  PROVE  /\ f = [chunk |-> f.chunk, ip |-> f.ip, fp |-> f.fp, closure |-> f.closure,
                 ups |-> f.ups, captured |-> f.captured, discard |-> f.discard]
         /\ f.chunk \in 0 .. n - 1 /\ f.ip \in Nat /\ f.fp \in Nat
         /\ f.closure \in ValuesOver(K) /\ f.ups \in Seq(U)
         /\ f.captured \in Captures(U) /\ f.discard \in BOOLEAN
BY DEF FrameOver

LEMMA MakeFrame ==
  ASSUME NEW n, NEW K, NEW U, NEW chunk \in 0 .. n - 1, NEW i \in Nat, NEW fp \in Nat,
         NEW closure \in ValuesOver(K), NEW ups \in Seq(U), NEW captured \in Captures(U),
         NEW discard \in BOOLEAN
  PROVE  [chunk |-> chunk, ip |-> i, fp |-> fp, closure |-> closure, ups |-> ups,
          captured |-> captured, discard |-> discard] \in FrameOver(n, K, U)
BY DEF FrameOver

LEMMA CellFields ==
  ASSUME NEW n, NEW K, NEW U, NEW o \in CellOver(n, K, U)
  PROVE  /\ o.t \in {"vec", "str", "name", "builtin", "fun"}
         /\ o.t \in {"vec", "str"} => o \in DataOver(K)
         /\ o.t = "builtin" => o.id \in Range(BuiltinIds)
         /\ o.t = "fun" => /\ o \in FunctionOver(n, K, U)
                           /\ o.chunk \in 0 .. n - 1 /\ o.arity \in Nat
                           /\ o.curried \in Seq(ValuesOver(K)) /\ o.ups \in Seq(U)
<1>1. CASE o \in DataOver(K)
  BY <1>1, DataKinds
<1>2. CASE o \in FunctionOver(n, K, U)
  BY <1>2 DEF FunctionOver
<1>3. CASE o \in [t : {"name"}, name : STRING]
  BY <1>3
<1>4. CASE o \in [t : {"builtin"}, id : Range(BuiltinIds)]
  BY <1>4
<1> QED
  BY <1>1, <1>2, <1>3, <1>4 DEF CellOver

LEMMA BuiltinsModelled == Range(BuiltinIds) \subseteq Modelled
BY VMAssumption DEF Range

LEMMA CellsResolve ==
  ASSUME NEW cells, NEW n, NEW K, NEW U, CellsOver(cells, n, K, U)
  PROVE  HeapOver(cells, K)
<1> SUFFICES ASSUME NEW k \in DOMAIN cells PROVE ObjectOver(cells[k], K)
  BY DEF HeapOver
<1>1. cells[k] \in CellOver(n, K, U)
  BY DEF CellsOver
<1> QED
  BY <1>1, CellFields, BuiltinsModelled DEF ObjectOver

LEMMA DataAreCells ==
  ASSUME NEW n, NEW K, NEW U
  PROVE  /\ DataOver(K) \subseteq CellOver(n, K, U)
         /\ FunctionOver(n, K, U) \subseteq CellOver(n, K, U)
BY DEF CellOver

(* More keys and more cells do no harm.                                    *)
LEMMA SeqMore ==
  ASSUME NEW S, NEW T, S \subseteq T
  PROVE  Seq(S) \subseteq Seq(T)
OBVIOUS

LEMMA CapturesMore ==
  ASSUME NEW U, NEW U2, U \subseteq U2
  PROVE  Captures(U) \subseteq Captures(U2)
BY CapturedCells

LEMMA FrameMore ==
  ASSUME NEW n, NEW K, NEW U, NEW K2, NEW U2, K \subseteq K2, U \subseteq U2
  PROVE  FrameOver(n, K, U) \subseteq FrameOver(n, K2, U2)
<1>1. Captures(U) \subseteq Captures(U2)
  BY CapturesMore
<1>2. ValuesOver(K) \subseteq ValuesOver(K2) /\ Seq(U) \subseteq Seq(U2)
  BY OverMore, SeqMore
<1> SUFFICES ASSUME NEW f \in FrameOver(n, K, U) PROVE f \in FrameOver(n, K2, U2)
  BY <1>1
<1> QED
  BY <1>1, <1>2 DEF FrameOver

LEMMA CellMore ==
  ASSUME NEW n, NEW K, NEW U, NEW K2, NEW U2, K \subseteq K2, U \subseteq U2
  PROVE  CellOver(n, K, U) \subseteq CellOver(n, K2, U2)
<1>1. DataOver(K) \subseteq DataOver(K2)
  BY OverMore
<1>2. Seq(ValuesOver(K)) \subseteq Seq(ValuesOver(K2)) /\ Seq(U) \subseteq Seq(U2)
  BY OverMore, SeqMore
<1>3. FunctionOver(n, K, U) \subseteq FunctionOver(n, K2, U2)
  BY <1>2 DEF FunctionOver
<1> QED
  BY <1>1, <1>3 DEF CellOver
-----------------------------------------------------------------------------
(* The instruction to be executed is one of its chunk, in its bounds.      *)
LEMMA InstructionFields ==
  ASSUME NEW i \in Instruction
  PROVE  /\ i.op \in {"Constant", "Duplicate", "GetLocal", "SetLocal", "GetUpvalue", "SetUpvalue"}
              => i.index \in Nat
         /\ i.op \in {"Pop", "MakeArray", "VectorAppend"} => i.count \in Nat
         /\ i.op = "Jump" => i.offset \in Nat
         /\ i.op = "JumpIf" => i.offset \in Nat
         /\ i.op = "ForLoop" => /\ i.control \in Nat /\ i.limit \in Nat /\ i.body \in Nat
                                /\ i.step \in SUBSET Nat /\ \A x, y \in i.step : x = y
         /\ i.op = "Call" => i.argc \in Nat /\ i.keep \in BOOLEAN
         /\ i.op = "CallBuiltin" => i.argc \in Nat /\ i.keep \in BOOLEAN
         /\ i.op = "Closure" => i.index \in Nat /\ i.upvalues \in Seq(UpvalueDesc)
         /\ i.op = "Compare" => i.keepRhs \in BOOLEAN
BY DEF Instruction, Operators, AtMostOne

LEMMA TopOver ==
  ASSUME NEW K, NEW U, Held(K, U), frames # <<>>
  PROVE  /\ Len(frames) \in Nat \ {0} /\ Top = frames[Len(frames)]
         /\ Top \in FrameOver(Chunks, K, U)
<1>1. frames \in Seq(FrameOver(Chunks, K, U))
  BY DEF Held
<1>2. Len(frames) \in Nat \ {0} /\ frames[Len(frames)] \in FrameOver(Chunks, K, U)
  BY <1>1
<1> QED
  BY <1>2 DEF Top, Last

LEMMA InChunk ==
  ASSUME NEW K, NEW U, NEW f \in FrameOver(Chunks, K, U), Basics
  PROVE  /\ f.chunk + 1 \in DOMAIN bytecode.chunks
         /\ CodeOK(bytecode.chunks[f.chunk + 1].code, bytecode.consts, Range(BuiltinIds))
         /\ InCode(f, 0)
<1>1. f.chunk \in 0 .. Chunks - 1
  BY FrameFields
<1>2. /\ Len(bytecode.chunks) \in Nat \ {0} /\ DOMAIN bytecode.chunks = 1 .. Len(bytecode.chunks)
      /\ \A c \in DOMAIN bytecode.chunks :
           CodeOK(bytecode.chunks[c].code, bytecode.consts, Range(BuiltinIds))
  BY DEF Basics, WellFormed
<1>3. f.chunk + 1 \in DOMAIN bytecode.chunks
  BY <1>1, <1>2 DEF Chunks
<1>4. CodeOK(bytecode.chunks[f.chunk + 1].code, bytecode.consts, Range(BuiltinIds))
  BY <1>2, <1>3
<1>5. /\ bytecode.chunks[f.chunk + 1].code \in Seq(Instruction)
      /\ bytecode.chunks[f.chunk + 1].code # <<>>
  BY <1>4 DEF CodeOK
<1>6. InCode(f, 0)
  BY <1>5 DEF InCode
<1> QED
  BY <1>3, <1>4, <1>6

LEMMA CurrentInBounds ==
  ASSUME NEW K, NEW U, Basics, Held(K, U), status = "run"
  PROVE  /\ frames # <<>> /\ Len(frames) \in Nat \ {0} /\ Top = frames[Len(frames)]
         /\ Top \in FrameOver(Chunks, K, U)
         /\ Current \in Instruction
         /\ InBounds(Current, ip, Len(Code), bytecode.consts, Range(BuiltinIds))
         /\ \A pc \in GoesTo(Current, ip) : pc \in Nat /\ InCode(Top, pc)
         /\ bytecode.consts \in Seq(Datum(Chunks))
<1>1. frames # <<>> /\ InCode(Top, ip)
  BY DEF Basics, Ready, ReadyAt, Top
<1>2. Len(frames) \in Nat \ {0} /\ Top = frames[Len(frames)] /\ Top \in FrameOver(Chunks, K, U)
  BY <1>1, TopOver
<1>3. CodeOK(Code, bytecode.consts, Range(BuiltinIds))
  BY <1>2, InChunk DEF Code
<1>4. Code \in Seq(Instruction)
      /\ \A j \in DOMAIN Code : InBounds(Code[j], j - 1, Len(Code), bytecode.consts, Range(BuiltinIds))
  BY <1>3 DEF CodeOK
<1>5. ip \in 0 .. Len(Code) - 1
  BY <1>1 DEF InCode, Code
<1>6. ip + 1 \in DOMAIN Code /\ (ip + 1) - 1 = ip
  BY <1>4, <1>5
<1>7. Current \in Instruction
  BY <1>4, <1>6 DEF Current
<1>8. InBounds(Current, ip, Len(Code), bytecode.consts, Range(BuiltinIds))
  BY <1>4, <1>6 DEF Current
<1>9. GoesTo(Current, ip) \subseteq 0 .. Len(Code) - 1
  BY <1>8 DEF InBounds
<1>10. \A pc \in GoesTo(Current, ip) : pc \in Nat /\ InCode(Top, pc)
  BY <1>9 DEF InCode, Code
<1>11. bytecode.consts \in Seq(Datum(Chunks))
  BY DEF Basics, WellFormed, Chunks
<1> QED
  BY <1>1, <1>2, <1>7, <1>8, <1>10, <1>11

LEMMA CurrentInChunk ==
  ASSUME NEW K, NEW U, Basics, Held(K, U), status = "run"
  PROVE  /\ Top.chunk + 1 \in DOMAIN bytecode.chunks
         /\ Current \in Range(bytecode.chunks[Top.chunk + 1].code)
<1>1. Top \in FrameOver(Chunks, K, U) /\ InCode(Top, ip)
  BY CurrentInBounds DEF Basics, Ready, ReadyAt, Top
<1>2. Top.chunk + 1 \in DOMAIN bytecode.chunks /\ Code \in Seq(Instruction)
  BY <1>1, InChunk DEF CodeOK, Code
<1>3. ip + 1 \in DOMAIN Code
  BY <1>1, <1>2 DEF InCode, Code
<1>4. Current \in Range(Code)
  BY <1>3 DEF Current, Range
<1> QED
  BY <1>2, <1>4 DEF Code

LEMMA GoesOn ==
  ASSUME NEW i, NEW pc, i.op \notin {"Return", "Jump", "JumpIf", "ForLoop"}
  PROVE  GoesTo(i, pc) = {pc + 1}
BY DEF GoesTo

(* The constants and the builtins, and their cells.                        *)
LEMMA DatumFields ==
  ASSUME NEW n, NEW d \in Datum(n), d \in Range(bytecode.consts)
  PROVE  /\ ~NeedsCell(d) => \A K : d \in ValuesOver(K)
         /\ NeedsCell(d) => d.t # "vec" /\ \A K, U : d \in CellOver(n, K, U)
         /\ d.t = "fun" => d.chunk \in 0 .. n - 1
<1>1. CASE d \in {v \in Value : v.t # "ref"}
  <2>1. d.t \in {"int", "bool", "nil", "dbl"}
    BY <1>1 DEF Value, NilV, DblV
  <2> QED
    BY <1>1, <2>1 DEF ValuesOver, NeedsCell
<1>2. CASE d \in [t : {"str"}, s : Seq(Nat)]
  BY <1>2 DEF CellOver, DataOver, NeedsCell
<1>3. CASE d \in [t : {"name"}, name : STRING]
  BY <1>3 DEF CellOver, NeedsCell
<1>4. CASE d \in [t : {"fun"}, chunk : 0 .. n - 1, arity : Nat, curried : {<<>>}, ups : {<<>>}]
  <2>1. d.t = "fun" /\ d.chunk \in 0 .. n - 1
    BY <1>4
  <2>2. ASSUME NEW K, NEW U PROVE d \in CellOver(n, K, U)
    <3>1. <<>> \in Seq(ValuesOver(K)) /\ <<>> \in Seq(U)
      OBVIOUS
    <3>2. Signed(d)
      BY <2>1 DEF Signed, FunctionsIn
    <3>3. d \in FunctionOver(n, K, U)
      BY <1>4, <3>1, <3>2 DEF FunctionOver
    <3> QED
      BY <3>3 DEF CellOver
  <2> QED
    BY <2>1, <2>2 DEF NeedsCell
<1> QED
  BY <1>1, <1>2, <1>3, <1>4 DEF Datum

LEMMA BuiltinKeys ==
  ASSUME NEW id \in Range(BuiltinIds)
  PROVE  BuiltinKey(id) \in DOMAIN BuiltinIds /\ BuiltinKey(id) \in Nat
<1>1. \E k \in DOMAIN BuiltinIds : BuiltinIds[k] = id
  BY DEF Range
<1>2. BuiltinKey(id) \in DOMAIN BuiltinIds
  BY <1>1 DEF BuiltinKey
<1> QED
  BY <1>2, VMAssumption

LEMMA PinnedCells ==
  ASSUME bytecode.consts \in Seq(Datum(Chunks)), NEW k \in PinnedKeys
  PROVE  /\ k \in Nat /\ k >= 1 /\ k <= Len(BuiltinIds) + Len(bytecode.consts)
         /\ PinnedCell(k).t # "vec"
         /\ \A K, U : PinnedCell(k) \in CellOver(Chunks, K, U)
<1>1. BuiltinIds \in Seq(Modelled) /\ Len(BuiltinIds) \in Nat /\ Len(bytecode.consts) \in Nat
  BY VMAssumption
<1>2. CASE k \in DOMAIN BuiltinIds
  <2>1. k \in Nat /\ k >= 1 /\ k <= Len(BuiltinIds)
    BY <1>1, <1>2
  <2>2. PinnedCell(k) = [t |-> "builtin", id |-> BuiltinIds[k]] /\ BuiltinIds[k] \in Range(BuiltinIds)
    BY <1>2, <2>1 DEF PinnedCell, Builtin, Range
  <2> QED
    BY <1>1, <2>1, <2>2 DEF CellOver
<1>3. CASE k \notin DOMAIN BuiltinIds
  <2>1. PICK j \in DOMAIN bytecode.consts :
          k = ConstantKey(j - 1) /\ NeedsCell(bytecode.consts[j])
    BY <1>3 DEF PinnedKeys
  <2>2. j \in 1 .. Len(bytecode.consts) /\ k = Len(BuiltinIds) + j
    BY <1>1, <2>1 DEF ConstantKey
  <2>3. k \in Nat /\ k >= 1 /\ k <= Len(BuiltinIds) + Len(bytecode.consts) /\ k - Len(BuiltinIds) = j
        /\ ~(k <= Len(BuiltinIds))
    BY <1>1, <2>2
  <2>4. PinnedCell(k) = bytecode.consts[j]
    BY <2>3 DEF PinnedCell
  <2>5. bytecode.consts[j] \in Datum(Chunks) /\ bytecode.consts[j] \in Range(bytecode.consts)
    BY <2>1 DEF Range
  <2> QED
    BY <2>1, <2>3, <2>4, <2>5, DatumFields
<1> QED
  BY <1>2, <1>3
-----------------------------------------------------------------------------
(* Steps that leave the memory as it is, and those after which the cells   *)
(* are the same.                                                           *)
LEMMA HeldParts ==
  ASSUME NEW K, NEW U, Held(K, U)
  PROVE  /\ stack \in Seq(ValuesOver(K)) /\ Len(stack) \in Nat
         /\ GlobalsOver(globals, K)
         /\ frames \in Seq(FrameOver(Chunks, K, U)) /\ Len(frames) \in Nat
         /\ UpvaluesOver(upv, K, U) /\ Len(upv) \in Nat
         /\ CellsOver(heap, Chunks, K, U)
         /\ HeapOver(heap, K)
<1>1. stack \in Seq(ValuesOver(K)) /\ GlobalsOver(globals, K) /\ UpvaluesOver(upv, K, U)
      /\ frames \in Seq(FrameOver(Chunks, K, U)) /\ CellsOver(heap, Chunks, K, U)
  BY DEF Held
<1>2. upv \in Seq(Value)
  BY <1>1 DEF UpvaluesOver
<1>3. HeapOver(heap, K)
  BY <1>1, CellsResolve
<1> QED
  BY <1>1, <1>2, <1>3

LEMMA BasicParts ==
  ASSUME Basics
  PROVE  /\ ip \in Nat /\ nextKey \in Nat /\ added \in Nat /\ threshold \in Nat \ {0}
         /\ \A k \in DOMAIN heap : k \in Nat /\ k < nextKey
         /\ Pinned(heap)
         /\ bytecode.consts \in Seq(Datum(Chunks))
BY DEF Basics, WellFormed, Chunks

LEMMA CellsTurn ==
  ASSUME NEW K, NEW U, Basics, Held(K, U),
         bytecode' = bytecode, frames' = frames, nextKey' = nextKey, added' = added,
         threshold' = threshold, DOMAIN heap' = DOMAIN heap, Pinned(heap'),
         CellsOver(heap', Chunks, K, U), stack' \in Seq(ValuesOver(K)),
         GlobalsOver(globals', K), UpvaluesOver(upv', K, U), Len(upv') = Len(upv)
  PROVE  Turns(K, U)
<1>1. nextKey \in Nat /\ added \in Nat /\ threshold \in Nat \ {0}
  BY BasicParts
<1>2. Len(upv) \in Nat /\ frames \in Seq(FrameOver(Chunks, K, U))
  BY HeldParts
<1>3. NewKeys = {} /\ NewCells = {}
  BY <1>1, <1>2 DEF NewKeys, NewCells
<1>4. Over(K, U, heap', stack')
  BY <1>2 DEF Over
<1>5. K \cup NewKeys = K /\ U \cup NewCells = U /\ DOMAIN heap' = DOMAIN heap \cup NewKeys
  BY <1>3
<1>6. nextKey' >= nextKey /\ Len(upv') >= Len(upv)
  BY <1>1, <1>2
<1>7. Turn(K, U, heap', stack')
  BY <1>1, <1>2, <1>4, <1>5, <1>6 DEF Turn
<1> QED
  BY <1>7 DEF Turns

LEMMA QuietTurn ==
  ASSUME NEW K, NEW U, Basics, Held(K, U),
         bytecode' = bytecode, frames' = frames, UNCHANGED memory,
         stack' \in Seq(ValuesOver(K)), GlobalsOver(globals', K), UpvaluesOver(upv', K, U),
         Len(upv') = Len(upv)
  PROVE  Turns(K, U)
<1>1. heap' = heap /\ nextKey' = nextKey /\ added' = added /\ threshold' = threshold
  BY DEF memory
<1>2. Pinned(heap) /\ CellsOver(heap, Chunks, K, U)
  BY BasicParts, HeldParts
<1>3. Pinned(heap') /\ CellsOver(heap', Chunks, K, U) /\ DOMAIN heap' = DOMAIN heap
  BY <1>1, <1>2 DEF Pinned
<1> QED
  BY <1>1, <1>3, CellsTurn

(* The same with the globals and the upvalues as they were.                *)
LEMMA StackTurn ==
  ASSUME NEW K, NEW U, Basics, Held(K, U),
         UNCHANGED <<bytecode, frames, globals, upv, memory>>, stack' \in Seq(ValuesOver(K))
  PROVE  Turns(K, U)
<1>1. GlobalsOver(globals', K) /\ UpvaluesOver(upv', K, U) /\ Len(upv') = Len(upv)
  BY HeldParts
<1> QED
  BY <1>1, QuietTurn

LEMMA SameTurn ==
  ASSUME NEW K, NEW U, Basics, Held(K, U),
         UNCHANGED <<bytecode, frames, globals, upv, memory, stack>>
  PROVE  Turns(K, U)
BY HeldParts, StackTurn

-----------------------------------------------------------------------------
(* Steps that allocate: m is the runtime they leave, before a collection.  *)
Allocated(m) == nextKey .. m.next - 1
Adds(m, K, U) ==
  /\ IsMachine(m) /\ m.next >= nextKey
  /\ DOMAIN m.heap = DOMAIN heap \cup Allocated(m)
  /\ \A k \in DOMAIN heap : m.heap[k] = heap[k]
  /\ \A k \in Allocated(m) : m.heap[k] \in CellOver(Chunks, K \cup Allocated(m), U)

LEMMA RuntimeIsMachine ==
  ASSUME Basics
  PROVE  /\ IsMachine(Runtime)
         /\ Runtime.heap = heap /\ Runtime.next = nextKey /\ Runtime.added = added
         /\ Runtime.out = out
BY BasicParts DEF Runtime, IsMachine

LEMMA RuntimeAdds ==
  ASSUME NEW K, NEW U, Basics
  PROVE  Adds(Runtime, K, U) /\ K \cup Allocated(Runtime) = K
<1>1. IsMachine(Runtime) /\ Runtime.heap = heap /\ Runtime.next = nextKey /\ nextKey \in Nat
  BY RuntimeIsMachine, BasicParts
<1>2. Allocated(Runtime) = {}
  BY <1>1 DEF Allocated
<1> QED
  BY <1>1, <1>2 DEF Adds

LEMMA GrownAdds ==
  ASSUME NEW K, NEW U, NEW m, Basics, Grown(Runtime, m, K)
  PROVE  Adds(m, K, U) /\ Fresh(Runtime, m) = Allocated(m)
<1>1. Runtime.heap = heap /\ Runtime.next = nextKey
  BY RuntimeIsMachine
<1>2. Fresh(Runtime, m) = Allocated(m)
  BY <1>1 DEF Fresh, Allocated
<1>3. DataOver(K \cup Allocated(m)) \subseteq CellOver(Chunks, K \cup Allocated(m), U)
  BY DataAreCells
<1> QED
  BY <1>1, <1>2, <1>3 DEF Adds, Grown

LEMMA AllocatesOne ==
  ASSUME NEW o, Basics
  PROVE  LET a == Allocate(Runtime, o)
         IN  /\ IsMachine(a) /\ a.next = nextKey + 1 /\ nextKey \in Nat
             /\ DOMAIN a.heap = DOMAIN heap \cup {nextKey} /\ a.heap[nextKey] = o
             /\ \A k \in DOMAIN heap : a.heap[k] = heap[k]
<1> DEFINE a == Allocate(Runtime, o)
<1>1. nextKey \in Nat /\ added \in Nat /\ \A k \in DOMAIN heap : k \in Nat /\ k < nextKey
  BY BasicParts
<1>2. Runtime = [heap |-> heap, next |-> nextKey, added |-> added, out |-> out]
  BY DEF Runtime
<1>3. a = [Runtime EXCEPT !.heap = Plus(heap, nextKey, o), !.next = nextKey + 1, !.added = added + 1]
  BY <1>2 DEF Allocate
<1>4. a = [heap |-> Plus(heap, nextKey, o), next |-> nextKey + 1, added |-> added + 1, out |-> out]
  BY <1>2, <1>3, ThreeParts
<1> HIDE DEF a
<1>5. /\ a.heap = Plus(heap, nextKey, o) /\ a.next = nextKey + 1 /\ a.added = added + 1
      /\ a = [heap |-> a.heap, next |-> a.next, added |-> a.added, out |-> a.out]
  BY <1>4
<1>6. /\ DOMAIN a.heap = DOMAIN heap \cup {nextKey} /\ a.heap[nextKey] = o
      /\ \A k \in DOMAIN heap : a.heap[k] = heap[k]
  BY <1>1, <1>5 DEF Plus
<1>7. IsMachine(a)
  BY <1>1, <1>5, <1>6 DEF IsMachine
<1> QED
  BY <1>1, <1>5, <1>6, <1>7 DEF a

LEMMA AllocateAdds ==
  ASSUME NEW K, NEW U, NEW o \in CellOver(Chunks, K, U), Basics
  PROVE  /\ Adds(Allocate(Runtime, o), K, U)
         /\ nextKey \in Allocated(Allocate(Runtime, o)) /\ nextKey \in Nat
<1> DEFINE a == Allocate(Runtime, o)
<1>1. /\ IsMachine(a) /\ a.next = nextKey + 1 /\ nextKey \in Nat
      /\ DOMAIN a.heap = DOMAIN heap \cup {nextKey} /\ a.heap[nextKey] = o
      /\ \A k \in DOMAIN heap : a.heap[k] = heap[k]
  BY AllocatesOne
<1> HIDE DEF a
<1>2. Allocated(a) = {nextKey}
  BY <1>1 DEF Allocated
<1>3. CellOver(Chunks, K, U) \subseteq CellOver(Chunks, K \cup {nextKey}, U)
  BY CellMore
<1>4. a.next >= nextKey /\ DOMAIN a.heap = DOMAIN heap \cup Allocated(a)
  BY <1>1, <1>2
<1>5. \A k \in Allocated(a) : a.heap[k] \in CellOver(Chunks, K \cup Allocated(a), U)
  BY <1>1, <1>2, <1>3
<1>6. Adds(a, K, U)
  BY <1>1, <1>4, <1>5 DEF Adds
<1> QED
  BY <1>1, <1>2, <1>6 DEF a

LEMMA AddsCells ==
  ASSUME NEW K, NEW U, NEW U2, U \subseteq U2, NEW m, Basics, Held(K, U), Adds(m, K, U2)
  PROVE  /\ CellsOver(m.heap, Chunks, K \cup Allocated(m), U2)
         /\ Pinned(m.heap)
<1>1. CellOver(Chunks, K, U) \subseteq CellOver(Chunks, K \cup Allocated(m), U2)
  BY CellMore
<1>2. CellsOver(heap, Chunks, K, U) /\ Pinned(heap)
  BY HeldParts, BasicParts
<1>3. ASSUME NEW k \in DOMAIN m.heap
      PROVE  m.heap[k] \in CellOver(Chunks, K \cup Allocated(m), U2)
  <2>1. CASE k \in DOMAIN heap
    <3>1. m.heap[k] = heap[k] /\ heap[k] \in CellOver(Chunks, K, U)
      BY <1>2, <2>1 DEF Adds, CellsOver
    <3> QED
      BY <1>1, <3>1
  <2>2. CASE k \notin DOMAIN heap
    BY <2>2 DEF Adds
  <2> QED
    BY <2>1, <2>2
<1>4. Pinned(m.heap)
  BY <1>2 DEF Adds, Pinned
<1> QED
  BY <1>3, <1>4 DEF CellsOver

(* The step has m, then perhaps a collection with st on the stack, then st *)
(* on the stack or st with the result it hands back.                       *)
MachineTurns(m, st, K, U) ==
  /\ nextKey' = m.next /\ added' \in Nat /\ threshold' \in Nat \ {0}
  /\ \/ heap' = m.heap
     \/ heap' = [k \in ReachedFrom(m.heap, upv', RootKeys(st, frames', upv')) |-> m.heap[k]]
  /\ st \in Seq(ValuesOver(K \cup Allocated(m)))
  /\ frames' \in Seq(FrameOver(Chunks, K \cup Allocated(m), U))
  /\ UpvaluesOver(upv', K \cup Allocated(m), U)
  /\ \/ stack' = st
     \/ HandsBack /\ \E v \in ValuesOver(K \cup Allocated(m)) : stack' = Append(st, v)

LEMMA GlobalsMore ==
  ASSUME NEW g, NEW K, NEW K2, K \subseteq K2, GlobalsOver(g, K)
  PROVE  GlobalsOver(g, K2)
BY OverMore DEF GlobalsOver

LEMMA MachineTurn ==
  ASSUME NEW K, NEW U, NEW m, NEW st, Basics, Held(K, U),
         bytecode' = bytecode, globals' = globals,
         Len(upv') \in Nat, Len(upv') >= Len(upv),
         Adds(m, K, U \cup NewCells), MachineTurns(m, st, K, U \cup NewCells)
  PROVE  Turns(K, U)
<1> DEFINE K2 == K \cup Allocated(m)
           U2 == U \cup NewCells
<1>1. IsMachine(m) /\ m.next >= nextKey /\ DOMAIN m.heap = DOMAIN heap \cup Allocated(m)
  BY DEF Adds
<1>2. nextKey' \in Nat /\ nextKey' >= nextKey /\ NewKeys = Allocated(m)
  BY <1>1 DEF IsMachine, MachineTurns, NewKeys, Allocated
<1>3. GlobalsOver(globals', K2)
  BY HeldParts, GlobalsMore
<1>4. CellsOver(m.heap, Chunks, K2, U2) /\ Pinned(m.heap)
  BY AddsCells
<1>5. Over(K2, U2, m.heap, st)
  BY <1>3, <1>4 DEF MachineTurns, Over
<1>6. K \cup NewKeys = K2 /\ U \cup NewCells = U2
  BY <1>2
<1>7. Turn(K, U, m.heap, st)
  BY <1>1, <1>2, <1>4, <1>5, <1>6 DEF Turn, MachineTurns
<1> QED
  BY <1>7 DEF Turns
-----------------------------------------------------------------------------
(* What the guards of an instruction give.                                 *)
Sound(K, U) == Basics /\ Held(K, U) /\ KeysPushed \subseteq K

LEMMA RunsHere ==
  ASSUME NEW K, NEW U, Sound(K, U), NEW names, Runs(names)
  PROVE  /\ Basics /\ Held(K, U) /\ status = "run"
         /\ Current.op \in names /\ Current \in Instruction
         /\ Len(stack) >= Checked(Current) /\ Len(stack) >= Operands(Current)
         /\ Current.op # "SetLocal" => \A s \in SlotsUsed(Current) : Slot(s) <= Len(stack)
         /\ Current.op = "SetLocal" => \A s \in SlotsUsed(Current) : Slot(s) <= Len(stack) - 1
         /\ \A u \in UpvaluesUsed(Current) : u < Len(Top.ups)
         /\ frames # <<>> /\ Len(frames) \in Nat \ {0} /\ Top = frames[Len(frames)]
         /\ Top \in FrameOver(Chunks, K, U)
         /\ InBounds(Current, ip, Len(Code), bytecode.consts, Range(BuiltinIds))
         /\ stack \in Seq(ValuesOver(K)) /\ Len(stack) \in Nat
<1>1. Basics /\ Held(K, U) /\ status = "run" /\ Current.op \in names
      /\ Len(stack) >= Checked(Current) /\ Valid(Current)
  BY DEF Sound, Runs
<1>2. Len(stack) >= Operands(Current) /\ \A u \in UpvaluesUsed(Current) : u < Len(Top.ups)
  BY <1>1 DEF Valid
<1>3. Current.op # "SetLocal" => \A s \in SlotsUsed(Current) : Slot(s) <= Len(stack)
  BY <1>1 DEF Valid
<1>4. Current.op = "SetLocal" => \A s \in SlotsUsed(Current) : Slot(s) <= Len(stack) - 1
  BY <1>1 DEF Valid
<1>5. stack \in Seq(ValuesOver(K)) /\ Len(stack) \in Nat
  BY <1>1, HeldParts
<1> QED
  BY <1>1, <1>2, <1>3, <1>4, <1>5, CurrentInBounds

LEMMA StackParts ==
  ASSUME NEW S, stack \in Seq(S), NEW n \in Nat, n <= Len(stack)
  PROVE  /\ Drop(n) \in Seq(S) /\ Len(Drop(n)) = Len(stack) - n
         /\ \A i \in 1 .. Len(stack) - n : Drop(n)[i] = stack[i]
         /\ SubSeq(stack, Len(stack) - n + 1, Len(stack)) \in Seq(S)
         /\ Len(SubSeq(stack, Len(stack) - n + 1, Len(stack))) = n
<1>1. Len(stack) \in Nat /\ 1 \in 1 .. Len(stack) + 1 /\ Len(stack) - n \in 1 - 1 .. Len(stack)
  OBVIOUS
<1>2. Drop(n) \in Seq(S) /\ Len(Drop(n)) = (Len(stack) - n) - 1 + 1
      /\ \A i \in 1 .. (Len(stack) - n) - 1 + 1 : Drop(n)[i] = stack[1 + i - 1]
  BY <1>1, SubSeqProperties DEF Drop
<1>3. Len(stack) - n + 1 \in 1 .. Len(stack) + 1
      /\ Len(stack) \in (Len(stack) - n + 1) - 1 .. Len(stack)
  BY <1>1
<1>4. SubSeq(stack, Len(stack) - n + 1, Len(stack)) \in Seq(S)
      /\ Len(SubSeq(stack, Len(stack) - n + 1, Len(stack))) = Len(stack) - (Len(stack) - n + 1) + 1
  BY <1>3, SubSeqProperties
<1>5. (Len(stack) - n) - 1 + 1 = Len(stack) - n /\ Len(stack) - (Len(stack) - n + 1) + 1 = n
  BY <1>1
<1>6. ASSUME NEW i \in 1 .. Len(stack) - n PROVE Drop(n)[i] = stack[i]
  <2>1. 1 + i - 1 = i
    OBVIOUS
  <2> QED
    BY <1>2, <1>5, <2>1
<1> QED
  BY <1>2, <1>4, <1>5, <1>6

LEMMA PeekOver ==
  ASSUME NEW S, stack \in Seq(S), NEW n \in Nat, n < Len(stack)
  PROVE  Peek(n) \in S
BY DEF Peek

LEMMA Pushed ==
  ASSUME NEW S, NEW s \in Seq(S), NEW v \in S
  PROVE  Append(s, v) \in Seq(S)
OBVIOUS

LEMMA FaultTurn ==
  ASSUME NEW K, NEW U, Sound(K, U), NEW e, NEW r, Fault(e, r), UNCHANGED memory,
         stack' \in Seq(ValuesOver(K))
  PROVE  Turns(K, U)
<1>1. UNCHANGED <<bytecode, frames, globals, upv, memory>>
  BY DEF Fault
<1> QED
  BY <1>1, StackTurn DEF Sound

LEMMA FailSyncedTurn ==
  ASSUME NEW K, NEW U, Sound(K, U), NEW e, FailSynced(e)
  PROVE  Turns(K, U)
<1>1. Fault(e, ip) /\ UNCHANGED memory /\ stack' = stack
  BY DEF FailSynced
<1>2. stack' \in Seq(ValuesOver(K))
  BY <1>1, HeldParts DEF Sound
<1> QED
  BY <1>1, <1>2, FaultTurn

LEMMA FailEarlyTurn ==
  ASSUME NEW K, NEW U, Sound(K, U), NEW e, NEW st \in Seq(ValuesOver(K)), FailEarly(e, st)
  PROVE  Turns(K, U)
<1>1. Fault(e, Top.ip) /\ UNCHANGED memory /\ stack' = st
  BY DEF FailEarly
<1> QED
  BY <1>1, FaultTurn

LEMMA BreaksTurn ==
  ASSUME NEW K, NEW U, Sound(K, U), Breaks \/ Hangs
  PROVE  Turns(K, U)
BY SameTurn DEF Sound, Breaks, Hangs

-----------------------------------------------------------------------------
(* The instructions one by one.  First those that move values.             *)
LEMMA ConstantTurn ==
  ASSUME NEW K, NEW U, Sound(K, U), Constant
  PROVE  Turns(K, U)
<1> DEFINE data == bytecode.consts[Current.index + 1]
           v == IF NeedsCell(data) THEN RefV(ConstantKey(Current.index)) ELSE data
<1>1. Runs({"Constant"}) /\ stack' = Append(stack, v)
      /\ UNCHANGED <<bytecode, frames, globals, upv, memory>>
  BY DEF Constant, Leaves, Quiet
<1>2. Current.op = "Constant" /\ Current.index \in Nat /\ stack \in Seq(ValuesOver(K))
      /\ Current.index < Len(bytecode.consts) /\ bytecode.consts \in Seq(Datum(Chunks))
  BY <1>1, RunsHere, InstructionFields, BasicParts DEF InBounds
<1>3. data \in Datum(Chunks) /\ Current.index + 1 \in DOMAIN bytecode.consts
  BY <1>2
<1>4. CASE NeedsCell(data)
  <2>1. ConstantKey((Current.index + 1) - 1) \in PinnedKeys /\ (Current.index + 1) - 1 = Current.index
    BY <1>2, <1>3, <1>4 DEF PinnedKeys
  <2>2. ConstantKey(Current.index) \in PinnedKeys /\ ConstantKey(Current.index) \in Nat
    BY <1>2, <2>1, PinnedCells
  <2> DEFINE k == ConstantKey(Current.index)
             c == Top.chunk + 1
  <2>3. k \in KeysPushed
    <3>1. c \in DOMAIN bytecode.chunks /\ Current \in Range(bytecode.chunks[c].code)
      BY <1>1, RunsHere, CurrentInChunk
    <3>2. k \in PinnedKeys /\ Current.op = "Constant" /\ k = ConstantKey(Current.index)
      BY <1>2, <2>2
    <3> HIDE DEF k, c
    <3> QED
      BY <3>1, <3>2 DEF KeysPushed
  <2>4. ConstantKey(Current.index) \in K
    BY <2>3 DEF Sound
  <2>5. v \in ValuesOver(K)
    BY <1>4, <2>2, <2>4, Primitives
  <2> QED
    BY <1>1, <1>2, <2>5, StackTurn DEF Sound
<1>5. CASE ~NeedsCell(data)
  <2>1. v \in ValuesOver(K)
    BY <1>3, <1>5, DatumFields DEF Range
  <2> QED
    BY <1>1, <1>2, <2>1, StackTurn DEF Sound
<1> QED
  BY <1>4, <1>5

LEMMA PopTurn ==
  ASSUME NEW K, NEW U, Sound(K, U), Pop
  PROVE  Turns(K, U)
<1>1. Runs({"Pop"}) /\ stack' = Drop(Current.count)
      /\ UNCHANGED <<bytecode, frames, globals, upv, memory>>
  BY DEF Pop, Leaves, Quiet
<1>2. Current.op = "Pop" /\ Current.count \in Nat /\ Len(stack) >= Current.count
      /\ stack \in Seq(ValuesOver(K))
  BY <1>1, RunsHere, InstructionFields DEF Checked
<1>3. stack' \in Seq(ValuesOver(K))
  BY <1>1, <1>2, StackParts
<1> QED
  BY <1>1, <1>3, StackTurn DEF Sound

LEMMA DuplicateTurn ==
  ASSUME NEW K, NEW U, Sound(K, U), Duplicate
  PROVE  Turns(K, U)
<1>1. Runs({"Duplicate"}) /\ stack' = Append(stack, Peek(Current.index))
      /\ UNCHANGED <<bytecode, frames, globals, upv, memory>>
  BY DEF Duplicate, Leaves, Quiet
<1>2. Current.op = "Duplicate" /\ Current.index \in Nat /\ Len(stack) >= Current.index + 1
      /\ stack \in Seq(ValuesOver(K)) /\ Len(stack) \in Nat
  BY <1>1, RunsHere, InstructionFields DEF Checked
<1>3. stack' \in Seq(ValuesOver(K))
  BY <1>1, <1>2, PeekOver
<1> QED
  BY <1>1, <1>3, StackTurn DEF Sound

LEMMA GetGlobalTurn ==
  ASSUME NEW K, NEW U, Sound(K, U), GetGlobal
  PROVE  Turns(K, U)
<1>1. stack \in Seq(ValuesOver(K)) /\ GlobalsOver(globals, K)
  BY HeldParts DEF Sound
<1>2. CASE /\ Current.name \in DOMAIN globals /\ Leaves(Append(stack, globals[Current.name]))
           /\ Quiet /\ UNCHANGED <<globals, upv, memory, out>>
  <2>1. stack' \in Seq(ValuesOver(K)) /\ UNCHANGED <<bytecode, frames, globals, upv, memory>>
    BY <1>1, <1>2 DEF GlobalsOver, Leaves, Quiet
  <2> QED
    BY <2>1, StackTurn DEF Sound
<1>3. CASE FailSynced("UndefinedVariable")
  BY <1>3, FailSyncedTurn
<1> QED
  BY <1>2, <1>3 DEF GetGlobal

LEMMA SetGlobalTurn ==
  ASSUME NEW K, NEW U, Sound(K, U), SetGlobal
  PROVE  Turns(K, U)
<1>1. Runs({"SetGlobal"}) /\ globals' = Plus(globals, Current.name, Peek(0)) /\ stack' = Drop(1)
      /\ UNCHANGED <<bytecode, frames, upv, memory>>
  BY DEF SetGlobal, Leaves, Quiet
<1>2. Current.op = "SetGlobal" /\ Len(stack) >= 1 /\ stack \in Seq(ValuesOver(K))
      /\ Len(stack) \in Nat /\ GlobalsOver(globals, K)
  BY <1>1, RunsHere, HeldParts DEF Operands, Sound, Operators
<1>3. stack' \in Seq(ValuesOver(K)) /\ Peek(0) \in ValuesOver(K)
  BY <1>1, <1>2, StackParts, PeekOver
<1>4. GlobalsOver(globals', K)
  BY <1>1, <1>2, <1>3 DEF GlobalsOver, Plus
<1>5. UpvaluesOver(upv', K, U) /\ Len(upv') = Len(upv)
  BY <1>1, HeldParts DEF Sound
<1> QED
  BY <1>1, <1>3, <1>4, <1>5, QuietTurn DEF Sound

LEMMA ReplacedOver ==
  ASSUME NEW S, NEW s \in Seq(S), NEW i \in DOMAIN s, NEW v \in S
  PROVE  /\ [s EXCEPT ![i] = v] \in Seq(S) /\ Len([s EXCEPT ![i] = v]) = Len(s)
         /\ \A j \in DOMAIN s : [s EXCEPT ![i] = v][j] = IF j = i THEN v ELSE s[j]
OBVIOUS

LEMMA UpvalueReplaced ==
  ASSUME NEW u, NEW K, NEW U, UpvaluesOver(u, K, U), NEW c \in U, NEW v \in ValuesOver(K),
         NEW w, w = [u EXCEPT ![c] = v]
  PROVE  UpvaluesOver(w, K, U) /\ Len(w) = Len(u)
<1>1. u \in Seq(Value) /\ U \subseteq DOMAIN u /\ v \in Value /\ c \in DOMAIN u
  BY DEF UpvaluesOver, ValuesOver
<1>2. [u EXCEPT ![c] = v] \in Seq(Value) /\ Len([u EXCEPT ![c] = v]) = Len(u)
      /\ \A j \in DOMAIN u : [u EXCEPT ![c] = v][j] = IF j = c THEN v ELSE u[j]
  BY <1>1, ReplacedOver
<1>3. U \subseteq DOMAIN w
  BY <1>1
<1> QED
  BY <1>1, <1>2, <1>3 DEF UpvaluesOver

LEMMA TopCells ==
  ASSUME NEW K, NEW U, NEW f \in FrameOver(Chunks, K, U)
  PROVE  /\ f.fp \in Nat /\ f.ip \in Nat
         /\ \A i \in DOMAIN f.captured : i \in Nat /\ f.captured[i] \in U
         /\ \A i \in Nat : i < Len(f.ups) => f.ups[i + 1] \in U
         /\ f.ups \in Seq(U) /\ Len(f.ups) \in Nat
<1>1. f.fp \in Nat /\ f.ip \in Nat /\ f.ups \in Seq(U) /\ f.captured \in Captures(U)
  BY FrameFields
<1>2. \A i \in DOMAIN f.captured : i \in Nat /\ f.captured[i] \in U
  BY <1>1, CapturedCells
<1> QED
  BY <1>1, <1>2

LEMMA SlotOver ==
  ASSUME NEW S, stack \in Seq(S), Top.fp \in Nat, NEW i \in Nat, Slot(i) <= Len(stack)
  PROVE  Slot(i) \in DOMAIN stack /\ stack[Slot(i)] \in S /\ Slot(i) \in Nat
BY DEF Slot

LEMMA GetLocalTurn ==
  ASSUME NEW K, NEW U, Sound(K, U), GetLocal
  PROVE  Turns(K, U)
<1>1. Runs({"GetLocal"}) /\ stack' = Append(stack, LocalValue(Current.index))
      /\ UNCHANGED <<bytecode, frames, globals, upv, memory>>
  BY DEF GetLocal, Leaves, Quiet
<1>2. Current.op = "GetLocal" /\ Current.index \in Nat /\ stack \in Seq(ValuesOver(K))
      /\ Top \in FrameOver(Chunks, K, U) /\ \A s \in SlotsUsed(Current) : Slot(s) <= Len(stack)
  BY <1>1, RunsHere, InstructionFields
<1>3. UpvaluesOver(upv, K, U)
  BY HeldParts DEF Sound
<1>4. LocalValue(Current.index) \in ValuesOver(K)
  <2>1. CASE IsCaptured(Current.index)
    <3>1. Top.captured[Current.index] \in U
      BY <1>2, <2>1, TopCells DEF IsCaptured
    <3> QED
      BY <1>3, <2>1, <3>1 DEF LocalValue, UpvaluesOver
  <2>2. CASE ~IsCaptured(Current.index)
    <3>1. Slot(Current.index) <= Len(stack)
      BY <1>2, <2>2 DEF SlotsUsed
    <3>2. stack[Slot(Current.index)] \in ValuesOver(K)
      BY <1>2, <3>1, TopCells, SlotOver
    <3> QED
      BY <2>2, <3>2 DEF LocalValue
  <2> QED
    BY <2>1, <2>2
<1>5. stack' \in Seq(ValuesOver(K))
  BY <1>1, <1>2, <1>4
<1> QED
  BY <1>1, <1>5, StackTurn DEF Sound

LEMMA SetLocalTurn ==
  ASSUME NEW K, NEW U, Sound(K, U), SetLocal
  PROVE  Turns(K, U)
<1> DEFINE i == Current.index
<1>1. /\ Runs({"SetLocal"}) /\ stack' = [Drop(1) EXCEPT ![Slot(i)] = Peek(0)]
      /\ upv' = IF IsCaptured(i) THEN [upv EXCEPT ![Top.captured[i]] = Peek(0)] ELSE upv
      /\ UNCHANGED <<bytecode, frames, globals, memory>>
  BY DEF SetLocal, Leaves, Quiet
<1>2. /\ Current.op = "SetLocal" /\ i \in Nat /\ stack \in Seq(ValuesOver(K)) /\ Len(stack) \in Nat
      /\ Top \in FrameOver(Chunks, K, U) /\ \A s \in SlotsUsed(Current) : Slot(s) <= Len(stack) - 1
      /\ Len(stack) >= Operands(Current)
  BY <1>1, RunsHere, InstructionFields
<1>3. Len(stack) >= 1
  BY <1>2 DEF Operands, Operators
<1>4. Slot(i) <= Len(stack) - 1
  BY <1>2 DEF SlotsUsed
<1>5. Peek(0) \in ValuesOver(K) /\ Drop(1) \in Seq(ValuesOver(K)) /\ Len(Drop(1)) = Len(stack) - 1
  BY <1>2, <1>3, PeekOver, StackParts
<1>6. Slot(i) \in Nat /\ Slot(i) >= 1
  BY <1>2, TopCells DEF Slot
<1>7. Slot(i) \in DOMAIN Drop(1)
  BY <1>2, <1>3, <1>4, <1>5, <1>6
<1>8. stack' \in Seq(ValuesOver(K))
  BY <1>1, <1>5, <1>7, ReplacedOver
<1>9. UpvaluesOver(upv, K, U) /\ GlobalsOver(globals', K)
  BY <1>1, HeldParts DEF Sound
<1>10. UpvaluesOver(upv', K, U) /\ Len(upv') = Len(upv)
  <2>1. CASE IsCaptured(i)
    <3>1. Top.captured[i] \in U
      BY <1>2, <2>1, TopCells DEF IsCaptured
    <3>2. UpvaluesOver(upv', K, U)
      BY <1>1, <1>5, <1>9, <2>1, <3>1, UpvalueReplaced
    <3>3. Len(upv') = Len(upv)
      BY <1>1, <1>5, <1>9, <2>1, <3>1, UpvalueReplaced
    <3> QED
      BY <3>2, <3>3
  <2> QED
    BY <1>1, <1>9, <2>1
<1> QED
  BY <1>1, <1>8, <1>9, <1>10, QuietTurn DEF Sound

LEMMA GetBuiltinTurn ==
  ASSUME NEW K, NEW U, Sound(K, U), GetBuiltin
  PROVE  Turns(K, U)
<1>1. Runs({"GetBuiltin"}) /\ stack' = Append(stack, RefV(BuiltinKey(Current.builtin)))
      /\ UNCHANGED <<bytecode, frames, globals, upv, memory>>
  BY DEF GetBuiltin, Leaves, Quiet
<1>2. Current.builtin \in Range(BuiltinIds) /\ stack \in Seq(ValuesOver(K))
  BY <1>1, RunsHere DEF InBounds
<1>3. BuiltinKey(Current.builtin) \in K /\ BuiltinKey(Current.builtin) \in Nat
  BY <1>2, BuiltinKeys DEF Sound, KeysPushed, PinnedKeys
<1>4. RefV(BuiltinKey(Current.builtin)) \in ValuesOver(K)
  BY <1>3, Primitives
<1>5. stack' \in Seq(ValuesOver(K))
  BY <1>1, <1>2, <1>4
<1> QED
  BY <1>1, <1>5, StackTurn DEF Sound

LEMMA GetUpvalueTurn ==
  ASSUME NEW K, NEW U, Sound(K, U), GetUpvalue
  PROVE  Turns(K, U)
<1>1. Runs({"GetUpvalue"}) /\ stack' = Append(stack, upv[Top.ups[Current.index + 1]])
      /\ UNCHANGED <<bytecode, frames, globals, upv, memory>>
  BY DEF GetUpvalue, Leaves, Quiet
<1>2. Current.op = "GetUpvalue" /\ Current.index \in Nat /\ stack \in Seq(ValuesOver(K))
      /\ Top \in FrameOver(Chunks, K, U) /\ \A u \in UpvaluesUsed(Current) : u < Len(Top.ups)
  BY <1>1, RunsHere, InstructionFields
<1>3. Current.index < Len(Top.ups)
  BY <1>2 DEF UpvaluesUsed
<1>4. Top.ups[Current.index + 1] \in U
  BY <1>2, <1>3, TopCells
<1>5. upv[Top.ups[Current.index + 1]] \in ValuesOver(K)
  BY <1>4, HeldParts DEF Sound, UpvaluesOver
<1>6. stack' \in Seq(ValuesOver(K))
  BY <1>1, <1>2, <1>5
<1> QED
  BY <1>1, <1>6, StackTurn DEF Sound

LEMMA SetUpvalueTurn ==
  ASSUME NEW K, NEW U, Sound(K, U), SetUpvalue
  PROVE  Turns(K, U)
<1>1. Runs({"SetUpvalue"}) /\ upv' = [upv EXCEPT ![Top.ups[Current.index + 1]] = Peek(0)]
      /\ stack' = Drop(1) /\ UNCHANGED <<bytecode, frames, globals, memory>>
  BY DEF SetUpvalue, Leaves, Quiet
<1>2. /\ Current.op = "SetUpvalue" /\ Current.index \in Nat /\ stack \in Seq(ValuesOver(K))
      /\ Len(stack) \in Nat /\ Len(stack) >= Operands(Current)
      /\ Top \in FrameOver(Chunks, K, U) /\ \A u \in UpvaluesUsed(Current) : u < Len(Top.ups)
  BY <1>1, RunsHere, InstructionFields
<1>3. Len(stack) >= 1 /\ Current.index < Len(Top.ups)
  BY <1>2 DEF UpvaluesUsed, Operands, Operators
<1>4. Top.ups[Current.index + 1] \in U
  BY <1>2, <1>3, TopCells
<1>5. stack' \in Seq(ValuesOver(K)) /\ Peek(0) \in ValuesOver(K)
  BY <1>1, <1>2, <1>3, StackParts, PeekOver
<1>6. UpvaluesOver(upv, K, U) /\ GlobalsOver(globals', K)
  BY <1>1, HeldParts DEF Sound
<1>7. UpvaluesOver(upv', K, U) /\ Len(upv') = Len(upv)
  <2>1. UpvaluesOver(upv', K, U)
    BY <1>1, <1>4, <1>5, <1>6, UpvalueReplaced
  <2>2. Len(upv') = Len(upv)
    BY <1>1, <1>4, <1>5, <1>6, UpvalueReplaced
  <2> QED
    BY <2>1, <2>2
<1> QED
  BY <1>1, <1>5, <1>6, <1>7, QuietTurn DEF Sound

-----------------------------------------------------------------------------
(* Steps that allocate and make no upvalue cell.                           *)
LEMMA AllocTurn ==
  ASSUME NEW K, NEW U, Sound(K, U), NEW m, NEW st, Adds(m, K, U),
         bytecode' = bytecode, globals' = globals, upv' = upv,
         nextKey' = m.next, added' \in Nat, threshold' \in Nat \ {0},
         \/ heap' = m.heap
         \/ heap' = [k \in ReachedFrom(m.heap, upv, RootKeys(st, frames', upv)) |-> m.heap[k]],
         st \in Seq(ValuesOver(K \cup Allocated(m))),
         frames' \in Seq(FrameOver(Chunks, K \cup Allocated(m), U)),
         \/ stack' = st
         \/ HandsBack /\ \E v \in ValuesOver(K \cup Allocated(m)) : stack' = Append(st, v)
  PROVE  Turns(K, U)
<1>1. Basics /\ Held(K, U)
  BY DEF Sound
<1>2. Len(upv) \in Nat /\ UpvaluesOver(upv, K, U)
  BY <1>1, HeldParts
<1>3. Len(upv') \in Nat /\ Len(upv') >= Len(upv)
  BY <1>2
<1>4. NewCells = {}
  BY <1>2 DEF NewCells
<1>5. U \cup NewCells = U
  BY <1>4
<1>6. UpvaluesOver(upv', K \cup Allocated(m), U)
  <2>1. ValuesOver(K) \subseteq ValuesOver(K \cup Allocated(m))
    BY OverMore
  <2> QED
    BY <1>2, <2>1 DEF UpvaluesOver
<1>7. MachineTurns(m, st, K, U)
  BY <1>6 DEF MachineTurns
<1> QED
  BY <1>1, <1>3, <1>5, <1>7, MachineTurn

LEMMA FramesMore ==
  ASSUME NEW K, NEW U, NEW M, Held(K, U)
  PROVE  frames \in Seq(FrameOver(Chunks, K \cup M, U))
<1>1. FrameOver(Chunks, K, U) \subseteq FrameOver(Chunks, K \cup M, U)
  BY FrameMore
<1>2. frames \in Seq(FrameOver(Chunks, K, U))
  BY HeldParts
<1> QED
  BY <1>1, <1>2, SeqMore

LEMMA StackMore ==
  ASSUME NEW K, NEW M
  PROVE  Seq(ValuesOver(K)) \subseteq Seq(ValuesOver(K \cup M))
         /\ ValuesOver(K) \subseteq ValuesOver(K \cup M)
BY OverMore

LEMMA SettledTurn ==
  ASSUME NEW K, NEW U, Sound(K, U), NEW c, CallOver(Runtime, c, K),
         NEW s \in Seq(ValuesOver(K)), stack' = Append(s, c.r.v), c.r.kind = "value",
         Settled(c.m), UNCHANGED <<bytecode, frames, globals, upv>>
  PROVE  Turns(K, U)
<1>1. Basics /\ Held(K, U)
  BY DEF Sound
<1>2. Grown(Runtime, c.m, K) /\ ResultOver(c.r, K \cup Fresh(Runtime, c.m))
  BY DEF CallOver
<1>3. Adds(c.m, K, U) /\ Fresh(Runtime, c.m) = Allocated(c.m)
  BY <1>1, <1>2, GrownAdds
<1>4. c.r.v \in ValuesOver(K \cup Allocated(c.m))
  BY <1>2, <1>3 DEF ResultOver
<1>5. s \in Seq(ValuesOver(K \cup Allocated(c.m)))
  BY StackMore
<1>6. stack' \in Seq(ValuesOver(K \cup Allocated(c.m)))
  BY <1>4, <1>5
<1>7. frames' \in Seq(FrameOver(Chunks, K \cup Allocated(c.m), U))
  BY <1>1, FramesMore
<1>8. c.m.added \in Nat /\ threshold \in Nat \ {0}
  BY <1>1, <1>3, BasicParts DEF Adds, IsMachine
<1>9. heap' = c.m.heap /\ nextKey' = c.m.next /\ added' = c.m.added /\ threshold' = threshold
  BY DEF Settled
<1> QED
  BY <1>3, <1>6, <1>7, <1>8, <1>9, AllocTurn

-----------------------------------------------------------------------------
(* Operators.                                                              *)
LEMMA TwoOperands ==
  ASSUME NEW K, NEW U, Sound(K, U), NEW names, Runs(names),
         names \subseteq Operators \cup {"Compare", "GetIndex"}
  PROVE  /\ Current.op \in names /\ stack \in Seq(ValuesOver(K)) /\ Len(stack) >= 2
         /\ Peek(0) \in ValuesOver(K) /\ Peek(1) \in ValuesOver(K)
         /\ Drop(1) \in Seq(ValuesOver(K)) /\ Drop(2) \in Seq(ValuesOver(K))
         /\ HeapOver(heap, K) /\ IsMachine(Runtime) /\ Runtime.heap = heap
<1>1. Current.op \in names /\ stack \in Seq(ValuesOver(K)) /\ Len(stack) \in Nat
      /\ Len(stack) >= Operands(Current)
  BY RunsHere
<1>2. Len(stack) >= 2
  BY <1>1 DEF Operands, Operators
<1>3. HeapOver(heap, K) /\ IsMachine(Runtime) /\ Runtime.heap = heap
  BY HeldParts, RuntimeIsMachine DEF Sound
<1>4. Peek(0) \in ValuesOver(K) /\ Peek(1) \in ValuesOver(K)
  BY <1>1, <1>2, PeekOver
<1>5. Drop(1) \in Seq(ValuesOver(K)) /\ Drop(2) \in Seq(ValuesOver(K))
  BY <1>1, <1>2, StackParts
<1> QED
  BY <1>1, <1>2, <1>3, <1>4, <1>5

LEMMA OneOperand ==
  ASSUME NEW K, NEW U, Sound(K, U), NEW names, Runs(names),
         names \subseteq {"Negate", "Not", "JumpIf"}
  PROVE  /\ Current.op \in names /\ stack \in Seq(ValuesOver(K)) /\ Len(stack) >= 1
         /\ Peek(0) \in ValuesOver(K) /\ Drop(1) \in Seq(ValuesOver(K)) /\ HeapOver(heap, K)
<1>1. Current.op \in names /\ stack \in Seq(ValuesOver(K)) /\ Len(stack) \in Nat
      /\ Len(stack) >= Operands(Current)
  BY RunsHere
<1>2. Len(stack) >= 1
  BY <1>1 DEF Operands, Operators
<1> QED
  BY <1>1, <1>2, PeekOver, StackParts, HeldParts DEF Sound

LEMMA ArithmeticTurn ==
  ASSUME NEW K, NEW U, Sound(K, U), Arithmetic
  PROVE  Turns(K, U)
<1> DEFINE c == Settle(Runtime, Arith(Current.op, Peek(1), Peek(0), heap))
<1>1. Runs(Operators)
      /\ \/ /\ c.r.kind = "value"
            /\ Leaves(Append(Drop(2), c.r.v)) /\ Settled(c.m)
            /\ Quiet /\ UNCHANGED <<globals, upv, out>>
         \/ c.r.kind = "error" /\ FailEarly(c.r.e, Drop(1))
  BY DEF Arithmetic
<1>2. /\ Current.op \in Operators
      /\ Peek(0) \in ValuesOver(K) /\ Peek(1) \in ValuesOver(K)
      /\ Drop(1) \in Seq(ValuesOver(K)) /\ Drop(2) \in Seq(ValuesOver(K))
      /\ HeapOver(heap, K) /\ IsMachine(Runtime)
  BY <1>1, TwoOperands
<1>3. ResultOver(Arith(Current.op, Peek(1), Peek(0), heap), K)
  BY <1>2, ArithOver
<1>4. CallOver(Runtime, c, K)
  BY <1>2, <1>3, SettleOver
<1> HIDE DEF c
<1>5. CASE /\ c.r.kind = "value" /\ Leaves(Append(Drop(2), c.r.v)) /\ Settled(c.m)
           /\ Quiet /\ UNCHANGED <<globals, upv, out>>
  <2>1. stack' = Append(Drop(2), c.r.v) /\ UNCHANGED <<bytecode, frames, globals, upv>>
    BY <1>5 DEF Leaves, Quiet
  <2> QED
    BY <1>2, <1>4, <1>5, <2>1, SettledTurn
<1>6. CASE FailEarly(c.r.e, Drop(1))
  BY <1>2, <1>6, FailEarlyTurn
<1> QED
  BY <1>1, <1>5, <1>6

LEMMA GetIndexTurn ==
  ASSUME NEW K, NEW U, Sound(K, U), GetIndex
  PROVE  Turns(K, U)
<1> DEFINE c == Settle(Runtime, Index(Peek(1), Peek(0), heap))
<1>1. Runs({"GetIndex"})
      /\ \/ /\ c.r.kind = "value"
            /\ Leaves(Append(Drop(2), c.r.v)) /\ Settled(c.m)
            /\ Quiet /\ UNCHANGED <<globals, upv, out>>
         \/ c.r.kind = "error" /\ FailSynced(c.r.e)
  BY DEF GetIndex
<1>2. /\ Peek(0) \in ValuesOver(K) /\ Peek(1) \in ValuesOver(K)
      /\ Drop(2) \in Seq(ValuesOver(K)) /\ HeapOver(heap, K) /\ IsMachine(Runtime)
  BY <1>1, TwoOperands
<1>3. ResultOver(Index(Peek(1), Peek(0), heap), K)
  BY <1>2, IndexOver
<1>4. CallOver(Runtime, c, K)
  BY <1>2, <1>3, SettleOver
<1> HIDE DEF c
<1>5. CASE /\ c.r.kind = "value" /\ Leaves(Append(Drop(2), c.r.v)) /\ Settled(c.m)
           /\ Quiet /\ UNCHANGED <<globals, upv, out>>
  <2>1. stack' = Append(Drop(2), c.r.v) /\ UNCHANGED <<bytecode, frames, globals, upv>>
    BY <1>5 DEF Leaves, Quiet
  <2> QED
    BY <1>2, <1>4, <1>5, <2>1, SettledTurn
<1>6. CASE FailSynced(c.r.e)
  BY <1>6, FailSyncedTurn
<1> QED
  BY <1>1, <1>5, <1>6

LEMMA NegateTurn ==
  ASSUME NEW K, NEW U, Sound(K, U), Negate
  PROVE  Turns(K, U)
<1> DEFINE r == Negative(Peek(0), heap)
<1>1. Runs({"Negate"})
      /\ \/ r.kind = "value" /\ Leaves(Append(Drop(1), r.v)) /\ Quiet
            /\ UNCHANGED <<globals, upv, memory, out>>
         \/ r.kind = "error" /\ FailSynced(r.e)
  BY DEF Negate
<1>2. Peek(0) \in ValuesOver(K) /\ Drop(1) \in Seq(ValuesOver(K)) /\ HeapOver(heap, K)
  BY <1>1, OneOperand
<1>3. ResultOver(r, K)
  BY <1>2, NegativeOver
<1> HIDE DEF r
<1>4. CASE r.kind = "value" /\ Leaves(Append(Drop(1), r.v)) /\ Quiet
           /\ UNCHANGED <<globals, upv, memory, out>>
  <2>1. r.v \in ValuesOver(K)
    BY <1>3, <1>4 DEF ResultOver
  <2>2. stack' \in Seq(ValuesOver(K)) /\ UNCHANGED <<bytecode, frames, globals, upv, memory>>
    BY <1>2, <1>4, <2>1 DEF Leaves, Quiet
  <2> QED
    BY <2>2, StackTurn DEF Sound
<1>5. CASE FailSynced(r.e)
  BY <1>5, FailSyncedTurn
<1> QED
  BY <1>1, <1>4, <1>5

LEMMA NotTurn ==
  ASSUME NEW K, NEW U, Sound(K, U), Not
  PROVE  Turns(K, U)
<1>1. Runs({"Not"}) /\ stack' = Append(Drop(1), BoolV(~IsTruthy(Peek(0), heap)))
      /\ UNCHANGED <<bytecode, frames, globals, upv, memory>>
  BY DEF Not, Leaves, Quiet
<1>2. Drop(1) \in Seq(ValuesOver(K))
  BY <1>1, OneOperand
<1>3. BoolV(~IsTruthy(Peek(0), heap)) \in ValuesOver(K)
  <2>1. (~IsTruthy(Peek(0), heap)) \in BOOLEAN
    OBVIOUS
  <2> QED
    BY <2>1, Primitives
<1>4. stack' \in Seq(ValuesOver(K))
  BY <1>1, <1>2, <1>3
<1> QED
  BY <1>1, <1>4, StackTurn DEF Sound

LEMMA CompareTurn ==
  ASSUME NEW K, NEW U, Sound(K, U), CompareOp
  PROVE  Turns(K, U)
<1> DEFINE r == BoolV(Compare(Peek(1), Peek(0), heap) \in Accepts(Current.which))
<1>1. /\ Runs({"Compare"})
      /\ stack' = IF Current.keepRhs THEN Drop(2) \o <<Peek(0), r>> ELSE Append(Drop(2), r)
      /\ UNCHANGED <<bytecode, frames, globals, upv, memory>>
  BY DEF CompareOp, Leaves, Quiet
<1>2. Peek(0) \in ValuesOver(K) /\ Drop(2) \in Seq(ValuesOver(K))
  BY <1>1, TwoOperands
<1>3. r \in ValuesOver(K)
  <2>1. (Compare(Peek(1), Peek(0), heap) \in Accepts(Current.which)) \in BOOLEAN
    OBVIOUS
  <2> QED
    BY <2>1, Primitives
<1> HIDE DEF r
<1>4. <<Peek(0), r>> \in Seq(ValuesOver(K))
  BY <1>2, <1>3
<1>5. Drop(2) \o <<Peek(0), r>> \in Seq(ValuesOver(K)) /\ Append(Drop(2), r) \in Seq(ValuesOver(K))
  BY <1>2, <1>3, <1>4
<1>6. stack' \in Seq(ValuesOver(K))
  BY <1>1, <1>5
<1> QED
  BY <1>1, <1>6, StackTurn DEF Sound

-----------------------------------------------------------------------------
(* Control flow.                                                           *)
LEMMA JumpTurn ==
  ASSUME NEW K, NEW U, Sound(K, U), Jump
  PROVE  Turns(K, U)
<1>1. UNCHANGED <<bytecode, frames, globals, upv, memory, stack>>
  BY DEF Jump, Quiet
<1> QED
  BY <1>1, SameTurn DEF Sound

LEMMA JumpIfTurn ==
  ASSUME NEW K, NEW U, Sound(K, U), JumpIf
  PROVE  Turns(K, U)
<1>1. Runs({"JumpIf"}) /\ stack' \in {stack, Drop(1)}
      /\ UNCHANGED <<bytecode, frames, globals, upv, memory>>
  BY DEF JumpIf, Quiet
<1>2. stack \in Seq(ValuesOver(K)) /\ Drop(1) \in Seq(ValuesOver(K))
  BY <1>1, OneOperand
<1>3. stack' \in Seq(ValuesOver(K))
  BY <1>1, <1>2
<1> QED
  BY <1>1, <1>3, StackTurn DEF Sound

(* What ForLoop reads: its slots, as it finds them.                        *)
LEMMA ForLoopReads ==
  ASSUME NEW K, NEW U, Sound(K, U), Runs({"ForLoop"})
  PROVE  /\ Slot(Current.control) \in DOMAIN stack
         /\ stack[Slot(Current.control)] \in ValuesOver(K)
         /\ stack[Slot(Current.limit)] \in ValuesOver(K)
         /\ \A i \in Current.step : stack[Slot(i)] \in ValuesOver(K)
         /\ \A i, j \in Current.step : i = j
         /\ stack \in Seq(ValuesOver(K))
<1>1. /\ Current.op = "ForLoop" /\ Current \in Instruction /\ Top \in FrameOver(Chunks, K, U)
      /\ \A s \in SlotsUsed(Current) : Slot(s) <= Len(stack)
      /\ stack \in Seq(ValuesOver(K))
  BY RunsHere
<1>2. /\ Current.control \in Nat /\ Current.limit \in Nat
      /\ \A i \in Current.step : i \in Nat
      /\ \A i, j \in Current.step : i = j
  BY <1>1, InstructionFields
<1>3. SlotsUsed(Current) = {Current.control, Current.limit} \cup Current.step
  BY <1>1 DEF SlotsUsed
<1>4. Top.fp \in Nat
  BY <1>1, TopCells
<1>5. \A i \in SlotsUsed(Current) : Slot(i) \in DOMAIN stack /\ stack[Slot(i)] \in ValuesOver(K)
  BY <1>1, <1>2, <1>3, <1>4, SlotOver
<1> QED
  BY <1>1, <1>2, <1>3, <1>5

LEMMA ForLoopTurn ==
  ASSUME NEW K, NEW U, Sound(K, U), ForLoop
  PROVE  Turns(K, U)
<1> DEFINE current == stack[Slot(Current.control)]
           limit   == stack[Slot(Current.limit)]
           steps   == {stack[Slot(i)] : i \in Current.step}
           by      == IF \E v \in steps : v.t = "int" THEN (CHOOSE v \in steps : TRUE).i ELSE 1
           next    == Wrap(current.i + by)
<1>1. Runs({"ForLoop"})
      /\ \/ /\ current.t = "int"
            /\ stack' = [stack EXCEPT ![Slot(Current.control)] = IntV(next)]
            /\ UNCHANGED <<bytecode, frames, globals, upv, memory>>
         \/ Breaks
         \/ FailSynced("TypeError")
  BY DEF ForLoop, Quiet
<1>2. /\ Slot(Current.control) \in DOMAIN stack /\ current \in ValuesOver(K)
      /\ \A v \in steps : v \in ValuesOver(K)
      /\ \A v, w \in steps : v = w
      /\ stack \in Seq(ValuesOver(K))
  BY <1>1, ForLoopReads
<1>3. by \in Int
  <2>1. CASE \E v \in steps : v.t = "int"
    <3>1. PICK v \in steps : v.t = "int"
      BY <2>1
    <3>2. (CHOOSE w \in steps : TRUE) = v
      BY <1>2, <3>1
    <3>3. v.i \in Int
      BY <1>2, <3>1, ValueKinds
    <3> QED
      BY <2>1, <3>2, <3>3
  <2> QED
    BY <2>1
<1> HIDE DEF by
<1>4. CASE /\ current.t = "int"
           /\ stack' = [stack EXCEPT ![Slot(Current.control)] = IntV(next)]
           /\ UNCHANGED <<bytecode, frames, globals, upv, memory>>
  <2>1. current.i \in Int
    BY <1>2, <1>4, ValueKinds
  <2>2. next \in Int
    BY <1>3, <2>1, WrapInt
  <2>3. IntV(next) \in ValuesOver(K)
    BY <2>2, Primitives
  <2> HIDE DEF next
  <2>4. stack' \in Seq(ValuesOver(K))
    BY <1>2, <1>4, <2>3, ReplacedOver
  <2> QED
    BY <1>4, <2>4, StackTurn DEF Sound
<1>5. CASE Breaks
  BY <1>5, BreaksTurn
<1>6. CASE FailSynced("TypeError")
  BY <1>6, FailSyncedTurn
<1> QED
  BY <1>1, <1>4, <1>5, <1>6

(* The instructions that cannot run.                                       *)
LEMMA StuckTurn ==
  ASSUME NEW K, NEW U, Sound(K, U), Underflow \/ Broken \/ UNCHANGED vars
  PROVE  Turns(K, U)
<1>1. CASE Underflow
  BY <1>1, SameTurn DEF Sound, Underflow, Fault
<1>2. CASE Broken
  BY <1>2, BreaksTurn DEF Broken
<1>3. CASE UNCHANGED vars
  BY <1>3, SameTurn DEF Sound, vars, memory
<1> QED
  BY <1>1, <1>2, <1>3

-----------------------------------------------------------------------------
(* Vectors.                                                                *)
LEMMA MakeArrayTurn ==
  ASSUME NEW K, NEW U, Sound(K, U), MakeArray
  PROVE  Turns(K, U)
<1> DEFINE es == SubSeq(stack, Len(stack) - Current.count + 1, Len(stack))
           st == Append(Drop(Current.count), RefV(nextKey))
           m == Allocate(Runtime, Vec(es))
<1>1. Runs({"MakeArray"}) /\ stack' = st /\ MaybeGC(m, st, frames, upv)
      /\ UNCHANGED <<bytecode, frames, globals, upv>>
  BY DEF MakeArray, Leaves, Quiet
<1>2. Current.op = "MakeArray" /\ Current.count \in Nat /\ Len(stack) >= Current.count
      /\ stack \in Seq(ValuesOver(K)) /\ Basics /\ Held(K, U)
  BY <1>1, RunsHere, InstructionFields DEF Checked
<1>3. es \in Seq(ValuesOver(K)) /\ Drop(Current.count) \in Seq(ValuesOver(K))
  BY <1>2, StackParts
<1>4. Vec(es) \in CellOver(Chunks, K, U)
  BY <1>3, MakeData, DataAreCells
<1>5. Adds(m, K, U) /\ nextKey \in Allocated(m) /\ nextKey \in Nat
  BY <1>2, <1>4, AllocateAdds
<1>6. RefV(nextKey) \in ValuesOver(K \cup Allocated(m))
  BY <1>5, Primitives
<1>7. Drop(Current.count) \in Seq(ValuesOver(K \cup Allocated(m)))
  BY <1>3, StackMore
<1> HIDE DEF m, es
<1>8. st \in Seq(ValuesOver(K \cup Allocated(m)))
  BY <1>6, <1>7
<1>9. IsMachine(m) /\ threshold \in Nat \ {0}
  BY <1>2, <1>5, BasicParts DEF Adds
<1> HIDE DEF st
<1>10. /\ nextKey' = m.next /\ added' \in Nat /\ threshold' \in Nat \ {0}
       /\ \/ heap' = m.heap
          \/ heap' = [k \in ReachedFrom(m.heap, upv, RootKeys(st, frames, upv)) |-> m.heap[k]]
  BY <1>1, <1>9, MaybeGCLeaves
<1>11. frames' \in Seq(FrameOver(Chunks, K \cup Allocated(m), U)) /\ frames' = frames
  BY <1>1, <1>2, FramesMore
<1> QED
  BY <1>1, <1>5, <1>8, <1>10, <1>11, AllocTurn

LEMMA ElementsReplaced ==
  ASSUME NEW K, NEW U, Sound(K, U), NEW k \in DOMAIN heap, heap[k].t = "vec",
         NEW es \in Seq(ValuesOver(K)),
         heap' = [heap EXCEPT ![k] = [heap[k] EXCEPT !.es = es]]
  PROVE  /\ DOMAIN heap' = DOMAIN heap /\ Pinned(heap') /\ CellsOver(heap', Chunks, K, U)
         /\ \A j \in DOMAIN heap : heap'[j] = IF j = k THEN Vec(es) ELSE heap[j]
<1>1. CellsOver(heap, Chunks, K, U) /\ Pinned(heap) /\ bytecode.consts \in Seq(Datum(Chunks))
  BY HeldParts, BasicParts DEF Sound
<1>2. heap[k] \in CellOver(Chunks, K, U)
  BY <1>1 DEF CellsOver
<1>3. heap[k] \in DataOver(K)
  BY <1>2, CellFields
<1>4. heap[k] = [t |-> "vec", es |-> heap[k].es]
  BY <1>3 DEF DataOver
<1>5. [heap[k] EXCEPT !.es = es] = Vec(es)
  BY <1>4 DEF Vec
<1>6. Vec(es) \in CellOver(Chunks, K, U)
  BY MakeData, DataAreCells
<1>7. /\ DOMAIN heap' = DOMAIN heap
      /\ \A j \in DOMAIN heap : heap'[j] = IF j = k THEN Vec(es) ELSE heap[j]
  BY <1>5
<1>8. CellsOver(heap', Chunks, K, U)
  BY <1>1, <1>6, <1>7 DEF CellsOver
<1>9. ASSUME NEW j \in PinnedKeys PROVE j \in DOMAIN heap' /\ heap'[j] = PinnedCell(j)
  <2>1. j \in DOMAIN heap /\ heap[j] = PinnedCell(j) /\ PinnedCell(j).t # "vec"
    BY <1>1, PinnedCells DEF Pinned
  <2>2. j # k
    BY <2>1
  <2> QED
    BY <1>7, <2>1, <2>2
<1>10. Pinned(heap')
  BY <1>9 DEF Pinned
<1> QED
  BY <1>7, <1>8, <1>10

LEMMA ElementsTurn ==
  ASSUME NEW K, NEW U, Sound(K, U), NEW k \in DOMAIN heap, heap[k].t = "vec",
         NEW es \in Seq(ValuesOver(K)),
         heap' = [heap EXCEPT ![k] = [heap[k] EXCEPT !.es = es]],
         stack' \in Seq(ValuesOver(K)),
         UNCHANGED <<bytecode, frames, globals, upv, nextKey, added, threshold>>
  PROVE  Turns(K, U)
<1>1. DOMAIN heap' = DOMAIN heap /\ Pinned(heap') /\ CellsOver(heap', Chunks, K, U)
  BY ElementsReplaced
<1>2. GlobalsOver(globals', K) /\ UpvaluesOver(upv', K, U) /\ Len(upv') = Len(upv)
  BY HeldParts DEF Sound
<1> QED
  BY <1>1, <1>2, CellsTurn DEF Sound

LEMMA VectorAppendTurn ==
  ASSUME NEW K, NEW U, Sound(K, U), VectorAppend
  PROVE  Turns(K, U)
<1> DEFINE n == Current.count
           v == Peek(n)
           more == SubSeq(stack, Len(stack) - n + 1, Len(stack))
<1>1. Runs({"VectorAppend"})
      /\ \/ /\ Resolve(v, heap).t = "vec"
            /\ heap' = [heap EXCEPT ![v.k].es = @ \o more]
            /\ stack' = Drop(n)
            /\ UNCHANGED <<bytecode, frames, globals, upv, nextKey, added, threshold>>
         \/ FailEarly("TypeError", stack)
  BY DEF VectorAppend, Leaves, Quiet
<1>2. Current.op = "VectorAppend" /\ n \in Nat /\ Len(stack) >= n + 1
      /\ stack \in Seq(ValuesOver(K)) /\ Len(stack) \in Nat /\ HeapOver(heap, K)
  BY <1>1, RunsHere, InstructionFields, HeldParts DEF Checked
<1>3. v \in ValuesOver(K) /\ more \in Seq(ValuesOver(K)) /\ Drop(n) \in Seq(ValuesOver(K))
  BY <1>2, PeekOver, StackParts
<1> HIDE DEF n, v, more
<1>4. CASE /\ Resolve(v, heap).t = "vec" /\ heap' = [heap EXCEPT ![v.k].es = @ \o more]
           /\ stack' = Drop(n)
           /\ UNCHANGED <<bytecode, frames, globals, upv, nextKey, added, threshold>>
  <2>1. /\ v.k \in DOMAIN heap /\ heap[v.k].t = "vec"
        /\ heap[v.k].es \in Seq(ValuesOver(K))
    BY <1>2, <1>3, <1>4, Resolved
  <2>2. heap[v.k].es \o more \in Seq(ValuesOver(K))
    BY <1>3, <2>1
  <2>3. heap' = [heap EXCEPT ![v.k] = [heap[v.k] EXCEPT !.es = heap[v.k].es \o more]]
    BY <1>4, <2>1
  <2> QED
    BY <1>3, <1>4, <2>1, <2>2, <2>3, ElementsTurn
<1>5. CASE FailEarly("TypeError", stack)
  BY <1>2, <1>5, FailEarlyTurn
<1> QED
  BY <1>1, <1>4, <1>5

(* Nothing wrong with an index: it is one of a vector's elements.          *)
LEMMA NoIndexMutError ==
  ASSUME NEW K, NEW cells, HeapOver(cells, K), NEW c \in ValuesOver(K), NEW idx \in ValuesOver(K),
         IndexMutErrors(c, idx, cells) = {}
  PROVE  /\ c.k \in DOMAIN cells /\ cells[c.k].t = "vec"
         /\ cells[c.k].es \in Seq(ValuesOver(K)) /\ idx.i + 1 \in DOMAIN cells[c.k].es
<1> DEFINE x == Resolve(c, cells)
           i == Resolve(idx, cells)
           early == IndexError(MaxInt + 1, idx, cells)
<1>1. IndexMutErrors(c, idx, cells) = IF early # {} THEN early
      ELSE IF c.t # "ref" THEN {"TypeError"}
      ELSE IF x.t = "nil" THEN {"ValueError"}
      ELSE IF x.t # "vec" THEN {"TypeError"}
      ELSE IndexError(Len(x.es), idx, cells)
  BY DEF IndexMutErrors
<1> HIDE DEF x, early
<1>2. c.t = "ref" /\ x.t = "vec" /\ IndexError(Len(x.es), idx, cells) = {}
  BY <1>1
<1>3. i.t = "int" /\ ~(i.i < 0 \/ i.i >= Len(x.es))
  BY <1>2 DEF IndexError
<1>4. c.k \in DOMAIN cells /\ x = cells[c.k] /\ x.es \in Seq(ValuesOver(K))
  BY <1>2, Resolved DEF x
<1>5. idx = i /\ i.i \in Int
  BY <1>3, Resolved
<1> QED
  BY <1>2, <1>3, <1>4, <1>5

LEMMA SetIndexTurn ==
  ASSUME NEW K, NEW U, Sound(K, U), SetIndex
  PROVE  Turns(K, U)
<1> DEFINE c == Peek(2)
           idx == Peek(1)
           v == Peek(0)
           errors == IndexMutErrors(c, idx, heap)
<1>1. Runs({"SetIndex"})
      /\ \/ /\ errors = {} /\ heap' = [heap EXCEPT ![c.k].es[idx.i + 1] = v] /\ stack' = Drop(2)
            /\ UNCHANGED <<bytecode, frames, globals, upv, nextKey, added, threshold>>
         \/ \E e \in errors : FailSynced(e)
  BY DEF SetIndex, Leaves, Quiet
<1>2. Current.op = "SetIndex" /\ Len(stack) >= Operands(Current)
      /\ stack \in Seq(ValuesOver(K)) /\ Len(stack) \in Nat /\ HeapOver(heap, K)
  BY <1>1, RunsHere, HeldParts
<1>3. Len(stack) >= 3
  BY <1>2 DEF Operands, Operators
<1>4. c \in ValuesOver(K) /\ idx \in ValuesOver(K) /\ v \in ValuesOver(K)
      /\ Drop(2) \in Seq(ValuesOver(K))
  BY <1>2, <1>3, PeekOver, StackParts
<1> HIDE DEF c, idx, v
<1>5. CASE /\ errors = {} /\ heap' = [heap EXCEPT ![c.k].es[idx.i + 1] = v] /\ stack' = Drop(2)
           /\ UNCHANGED <<bytecode, frames, globals, upv, nextKey, added, threshold>>
  <2>1. /\ c.k \in DOMAIN heap /\ heap[c.k].t = "vec"
        /\ heap[c.k].es \in Seq(ValuesOver(K)) /\ idx.i + 1 \in DOMAIN heap[c.k].es
    BY <1>2, <1>4, <1>5, NoIndexMutError
  <2>2. [heap[c.k].es EXCEPT ![idx.i + 1] = v] \in Seq(ValuesOver(K))
    BY <1>4, <2>1, ReplacedOver
  <2>3. heap' = [heap EXCEPT ![c.k] =
                  [heap[c.k] EXCEPT !.es = [heap[c.k].es EXCEPT ![idx.i + 1] = v]]]
    BY <1>5
  <2> HIDE DEF errors
  <2> QED
    BY <1>4, <1>5, <2>1, <2>2, <2>3, ElementsTurn
<1>6. CASE \E e \in errors : FailSynced(e)
  BY <1>6, FailSyncedTurn
<1> QED
  BY <1>1, <1>5, <1>6

-----------------------------------------------------------------------------
(* Calls.  The frame of the caller, with the ip to return to, has the same *)
(* references.                                                             *)
LEMMA SyncedOver ==
  ASSUME NEW n, NEW K, NEW U, frames \in Seq(FrameOver(n, K, U)), frames # <<>>, ip \in Nat
  PROVE  /\ Synced \in Seq(FrameOver(n, K, U)) /\ Len(Synced) = Len(frames)
         /\ Len(frames) \in Nat \ {0}
         /\ \A j \in 1 .. Len(frames) - 1 : Synced[j] = frames[j]
         /\ Synced[Len(frames)] = [frames[Len(frames)] EXCEPT !.ip = ip + 1]
         /\ Synced[Len(frames)].ip = ip + 1
         /\ \A j \in 1 .. Len(frames) :
              /\ Synced[j].chunk = frames[j].chunk /\ Synced[j].closure = frames[j].closure
              /\ Synced[j].ups = frames[j].ups /\ Synced[j].captured = frames[j].captured
<1> DEFINE last == Len(frames)
           f == frames[last]
           g == [f EXCEPT !.ip = ip + 1]
<1>1. last \in Nat \ {0} /\ last \in DOMAIN frames /\ f \in FrameOver(n, K, U)
      /\ DOMAIN frames = 1 .. last
  OBVIOUS
<1>2. /\ f = [chunk |-> f.chunk, ip |-> f.ip, fp |-> f.fp, closure |-> f.closure,
              ups |-> f.ups, captured |-> f.captured, discard |-> f.discard]
      /\ f.chunk \in 0 .. n - 1 /\ f.fp \in Nat /\ f.closure \in ValuesOver(K)
      /\ f.ups \in Seq(U) /\ f.captured \in Captures(U) /\ f.discard \in BOOLEAN
  BY <1>1, FrameFields
<1> HIDE DEF f
<1>3. g = [chunk |-> f.chunk, ip |-> ip + 1, fp |-> f.fp, closure |-> f.closure,
           ups |-> f.ups, captured |-> f.captured, discard |-> f.discard]
  BY <1>2
<1>4. ip + 1 \in Nat
  OBVIOUS
<1> HIDE DEF g
<1>5. g \in FrameOver(n, K, U)
  BY <1>2, <1>3, <1>4, MakeFrame
<1>6. Synced = [frames EXCEPT ![last] = g]
  BY DEF Synced, g, f
<1>7. Synced \in Seq(FrameOver(n, K, U)) /\ Len(Synced) = last
      /\ \A j \in 1 .. last : Synced[j] = IF j = last THEN g ELSE frames[j]
  <2>1. Synced \in Seq(FrameOver(n, K, U))
    BY <1>1, <1>5, <1>6, ReplacedOver
  <2>2. Len(Synced) = last
    BY <1>1, <1>5, <1>6, ReplacedOver
  <2>3. \A j \in 1 .. last : Synced[j] = IF j = last THEN g ELSE frames[j]
    BY <1>1, <1>6
  <2> QED
    BY <2>1, <2>2, <2>3
<1>8. \A j \in 1 .. last - 1 : Synced[j] = frames[j]
  <2>1. last \in Nat
    BY <1>1
  <2> HIDE DEF last
  <2>2. \A j \in 1 .. last - 1 : j \in 1 .. last /\ j # last
    BY <2>1
  <2> QED
    BY <1>7, <2>2
<1>9. Synced[last] = g /\ g.ip = ip + 1 /\ g.chunk = f.chunk /\ g.closure = f.closure
      /\ g.ups = f.ups /\ g.captured = f.captured
  BY <1>1, <1>3, <1>7
<1> QED
  BY <1>1, <1>7, <1>8, <1>9 DEF f, g

LEMMA RootsSame ==
  ASSUME NEW st, NEW u, NEW n, NEW K, NEW U, frames \in Seq(FrameOver(n, K, U)),
         frames # <<>>, ip \in Nat
  PROVE  RootKeys(st, Synced, u) = RootKeys(st, frames, u)
<1> DEFINE Part(f) == {f.closure} \cup {u[c] : c \in Range(f.ups) \cup Range(f.captured)}
<1>1. Synced \in Seq(FrameOver(n, K, U)) /\ Len(Synced) = Len(frames)
      /\ \A j \in 1 .. Len(frames) :
           /\ Synced[j].closure = frames[j].closure
           /\ Synced[j].ups = frames[j].ups /\ Synced[j].captured = frames[j].captured
  BY SyncedOver
<1>2. DOMAIN Synced = 1 .. Len(frames) /\ DOMAIN frames = 1 .. Len(frames)
  BY <1>1
<1>3. \A j \in 1 .. Len(frames) : Part(Synced[j]) = Part(frames[j])
  BY <1>1
<1>4. Range(Synced) = {Synced[j] : j \in 1 .. Len(frames)}
      /\ Range(frames) = {frames[j] : j \in 1 .. Len(frames)}
  BY <1>2 DEF Range
<1> HIDE DEF Part
<1>5. {Part(f) : f \in Range(Synced)} = {Part(f) : f \in Range(frames)}
  BY <1>3, <1>4
<1>6. UNION {Part(f) : f \in Range(Synced)} = UNION {Part(f) : f \in Range(frames)}
  BY <1>5
<1> QED
  BY <1>6 DEF RootKeys, Part

LEMMA CallParts ==
  ASSUME NEW K, NEW U, Sound(K, U), Runs({"Call"})
  PROVE  /\ Basics /\ Held(K, U) /\ status = "run"
         /\ Current.op = "Call" /\ Current.argc \in Nat /\ Current.keep \in BOOLEAN
         /\ Len(stack) >= Current.argc + 1 /\ Len(stack) \in Nat
         /\ stack \in Seq(ValuesOver(K)) /\ Args \in Seq(ValuesOver(K)) /\ Len(Args) = Current.argc
         /\ Drop(Current.argc + 1) \in Seq(ValuesOver(K))
         /\ frames # <<>> /\ frames \in Seq(FrameOver(Chunks, K, U))
         /\ ip \in Nat /\ ip + 1 \in Nat /\ InCode(Top, ip + 1)
         /\ Callee.t = "fun" => /\ Callee \in FunctionOver(Chunks, K, U)
                                /\ Callee.curried \in Seq(ValuesOver(K))
<1>1. /\ Basics /\ Held(K, U) /\ status = "run"
      /\ Current.op = "Call" /\ Current.argc \in Nat /\ Current.keep \in BOOLEAN
      /\ Len(stack) >= Current.argc + 1 /\ stack \in Seq(ValuesOver(K)) /\ Len(stack) \in Nat
      /\ frames # <<>>
  BY RunsHere, InstructionFields DEF Checked
<1>2. frames \in Seq(FrameOver(Chunks, K, U)) /\ ip \in Nat
  BY <1>1, HeldParts, BasicParts
<1>3. GoesTo(Current, ip) = {ip + 1}
  BY <1>1, GoesOn
<1>4. ip + 1 \in Nat /\ InCode(Top, ip + 1)
  BY <1>1, <1>3, CurrentInBounds
<1>5. Args \in Seq(ValuesOver(K)) /\ Len(Args) = Current.argc
  BY <1>1, StackParts DEF Args
<1>6. Drop(Current.argc + 1) \in Seq(ValuesOver(K))
  BY <1>1, StackParts
<1>7. ASSUME Callee.t = "fun" PROVE Callee \in FunctionOver(Chunks, K, U)
                                    /\ Callee.curried \in Seq(ValuesOver(K))
  <2>1. Peek(Current.argc) \in ValuesOver(K) /\ HeapOver(heap, K) /\ CellsOver(heap, Chunks, K, U)
    BY <1>1, PeekOver, HeldParts
  <2>2. Peek(Current.argc).k \in DOMAIN heap /\ Callee = heap[Peek(Current.argc).k]
    BY <1>7, <2>1, Resolved DEF Callee
  <2>3. Callee \in CellOver(Chunks, K, U)
    BY <2>1, <2>2 DEF CellsOver
  <2> QED
    BY <1>7, <2>3, CellFields
<1> QED
  BY <1>1, <1>2, <1>4, <1>5, <1>6, <1>7

LEMMA CallAdds ==
  ASSUME NEW K, NEW U, Sound(K, U), NEW id, NEW args \in Seq(ValuesOver(K)),
         NEW c \in CallOutcomes(id, args, Runtime)
  PROVE  /\ CallOver(Runtime, c, K) /\ Adds(c.m, K, U)
         /\ c.r.kind = "value" => c.r.v \in ValuesOver(K \cup Allocated(c.m))
<1>1. Basics /\ HeapOver(heap, K)
  BY HeldParts DEF Sound
<1>2. IsMachine(Runtime) /\ Runtime.heap = heap
  BY <1>1, RuntimeIsMachine
<1>3. CallOver(Runtime, c, K)
  BY <1>1, <1>2, CallsOver
<1>4. Grown(Runtime, c.m, K) /\ ResultOver(c.r, K \cup Fresh(Runtime, c.m))
  BY <1>3 DEF CallOver
<1>5. Adds(c.m, K, U) /\ Fresh(Runtime, c.m) = Allocated(c.m)
  BY <1>1, <1>4, GrownAdds
<1>6. c.r.kind = "value" => c.r.v \in ValuesOver(K \cup Allocated(c.m))
  BY <1>4, <1>5 DEF ResultOver
<1> QED
  BY <1>3, <1>5, <1>6

LEMMA HandedTurn ==
  ASSUME NEW K, NEW U, Sound(K, U), Runs({"Call"}), CallValueBuiltin \/ Curry,
         NEW m, Adds(m, K, U), NEW v \in ValuesOver(K \cup Allocated(m)), ReturnsInHand(m, v)
  PROVE  Turns(K, U)
<1> DEFINE st == Drop(Current.argc + 1)
<1>1. /\ stack' = IF Current.keep THEN Append(st, v) ELSE st
      /\ MaybeGC(m, st, frames, upv) /\ frames' = Synced /\ status' = status
      /\ UNCHANGED <<bytecode, globals, upv>>
  BY DEF ReturnsInHand, Leaves
<1>2. /\ Basics /\ Held(K, U) /\ status = "run" /\ st \in Seq(ValuesOver(K))
      /\ frames # <<>> /\ frames \in Seq(FrameOver(Chunks, K, U)) /\ ip \in Nat
  BY CallParts
<1>3. st \in Seq(ValuesOver(K \cup Allocated(m)))
  BY <1>2, StackMore
<1>4. frames \in Seq(FrameOver(Chunks, K \cup Allocated(m), U))
  BY <1>2, FramesMore
<1>5. frames' \in Seq(FrameOver(Chunks, K \cup Allocated(m), U))
  BY <1>1, <1>2, <1>4, SyncedOver
<1> HIDE DEF st
<1>6. IsMachine(m) /\ threshold \in Nat \ {0}
  BY <1>2, BasicParts DEF Adds
<1>7. /\ nextKey' = m.next /\ added' \in Nat /\ threshold' \in Nat \ {0}
      /\ \/ heap' = m.heap
         \/ heap' = [k \in ReachedFrom(m.heap, upv, RootKeys(st, frames, upv)) |-> m.heap[k]]
  BY <1>1, <1>6, MaybeGCLeaves
<1>8. RootKeys(st, frames', upv) = RootKeys(st, frames, upv)
  BY <1>1, <1>2, RootsSame
<1>9. \/ heap' = m.heap
      \/ heap' = [k \in ReachedFrom(m.heap, upv, RootKeys(st, frames', upv)) |-> m.heap[k]]
  BY <1>7, <1>8
<1>10. \/ stack' = st
       \/ HandsBack /\ \E w \in ValuesOver(K \cup Allocated(m)) : stack' = Append(st, w)
  <2>1. CASE Current.keep
    <3>1. HandsBack
      BY <1>1, <1>2, <2>1 DEF HandsBack
    <3> QED
      BY <1>1, <2>1, <3>1
  <2> QED
    BY <1>1, <2>1
<1> QED
  BY <1>1, <1>3, <1>5, <1>7, <1>9, <1>10, AllocTurn

LEMMA CallValueBuiltinTurn ==
  ASSUME NEW K, NEW U, Sound(K, U), CallValueBuiltin
  PROVE  Turns(K, U)
<1> DEFINE st == Drop(Current.argc + 1)
<1>0. Runs({"Call"})
  BY DEF CallValueBuiltin
<1>1. PICK c \in CallOutcomes(Callee.id, Args, Runtime) :
         \/ c.r.kind = "value" /\ ReturnsInHand(c.m, c.r.v)
         \/ Fault("TypeError", ip) /\ stack' = st /\ MaybeGC(c.m, st, frames, upv)
         \/ Breaks \/ Hangs
  BY DEF CallValueBuiltin
<1>2. /\ Basics /\ Held(K, U) /\ st \in Seq(ValuesOver(K)) /\ Args \in Seq(ValuesOver(K))
  BY <1>0, CallParts
<1>3. Adds(c.m, K, U) /\ c.r.kind = "value" => c.r.v \in ValuesOver(K \cup Allocated(c.m))
  BY <1>2, CallAdds
<1>4. Adds(c.m, K, U)
  BY <1>2, CallAdds
<1> HIDE DEF st
<1>5. CASE c.r.kind = "value" /\ ReturnsInHand(c.m, c.r.v)
  BY <1>0, <1>3, <1>4, <1>5, HandedTurn
<1>6. CASE Fault("TypeError", ip) /\ stack' = st /\ MaybeGC(c.m, st, frames, upv)
  <2>1. UNCHANGED <<bytecode, frames, globals, upv>>
    BY <1>6 DEF Fault
  <2>2. IsMachine(c.m) /\ threshold \in Nat \ {0}
    BY <1>2, <1>4, BasicParts DEF Adds
  <2>3. /\ nextKey' = c.m.next /\ added' \in Nat /\ threshold' \in Nat \ {0}
        /\ \/ heap' = c.m.heap
           \/ heap' = [k \in ReachedFrom(c.m.heap, upv, RootKeys(st, frames, upv)) |-> c.m.heap[k]]
    BY <1>6, <2>2, MaybeGCLeaves
  <2>4. st \in Seq(ValuesOver(K \cup Allocated(c.m)))
    BY <1>2, StackMore
  <2>5. frames' \in Seq(FrameOver(Chunks, K \cup Allocated(c.m), U)) /\ frames' = frames
    BY <1>2, <2>1, FramesMore
  <2> QED
    BY <1>4, <1>6, <2>1, <2>3, <2>4, <2>5, AllocTurn
<1>7. CASE Breaks \/ Hangs
  BY <1>7, BreaksTurn
<1> QED
  BY <1>1, <1>5, <1>6, <1>7

LEMMA CurryTurn ==
  ASSUME NEW K, NEW U, Sound(K, U), Curry
  PROVE  Turns(K, U)
<1> DEFINE o == [Callee EXCEPT !.curried = @ \o Args]
           m == Allocate(Runtime, o)
<1>1. Runs({"Call"}) /\ Callee.t = "fun" /\ ReturnsInHand(m, RefV(nextKey))
  BY DEF Curry
<1>2. /\ Basics /\ Callee \in FunctionOver(Chunks, K, U)
      /\ Callee.curried \in Seq(ValuesOver(K)) /\ Args \in Seq(ValuesOver(K))
  BY <1>1, CallParts
<1>3. Callee.curried \o Args \in Seq(ValuesOver(K))
  BY <1>2
<1>4. o \in FunctionOver(Chunks, K, U)
  <2>1. Signed(o)
    BY <1>2 DEF FunctionOver, Signed
  <2> QED
    BY <1>2, <1>3, <2>1 DEF FunctionOver
<1>5. o \in CellOver(Chunks, K, U)
  BY <1>4, DataAreCells
<1> HIDE DEF o
<1>6. Adds(m, K, U) /\ nextKey \in Allocated(m) /\ nextKey \in Nat
  BY <1>2, <1>5, AllocateAdds
<1>7. RefV(nextKey) \in ValuesOver(K \cup Allocated(m))
  BY <1>6, Primitives
<1> HIDE DEF m
<1> QED
  BY <1>1, <1>6, <1>7, HandedTurn

LEMMA NothingCaptured ==
  ASSUME NEW U
  PROVE  <<>> \in Captures(U) /\ <<>> \in Seq(U)
<1> DEFINE none == <<>>
<1>1. DOMAIN none = {} /\ none = [i \in DOMAIN none |-> none[i]]
  OBVIOUS
<1>2. none \in Seq(U)
  OBVIOUS
<1> HIDE DEF none
<1>3. none \in Captures(U)
  BY <1>1, CapturedCells
<1> QED
  BY <1>2, <1>3 DEF none

LEMMA EnteredFrame ==
  ASSUME NEW K, NEW U, Sound(K, U), Runs({"Call"}), Callee.t = "fun"
  PROVE  LET base == Len(stack) - Current.argc
         IN  /\ SubSeq(stack, 1, base) \in Seq(ValuesOver(K))
             /\ SubSeq(stack, 1, base) \o AllArgs \in Seq(ValuesOver(K))
             /\ [chunk |-> Callee.chunk, ip |-> 0, fp |-> base - 0, closure |-> stack[base],
                 ups |-> Callee.ups, captured |-> <<>>, discard |-> ~Current.keep]
                  \in FrameOver(Chunks, K, U)
<1> DEFINE base == Len(stack) - Current.argc
<1>1. /\ Current.argc \in Nat /\ Current.keep \in BOOLEAN
      /\ Len(stack) >= Current.argc + 1 /\ Len(stack) \in Nat
      /\ stack \in Seq(ValuesOver(K)) /\ Args \in Seq(ValuesOver(K))
      /\ Callee \in FunctionOver(Chunks, K, U) /\ Callee.curried \in Seq(ValuesOver(K))
  BY CallParts
<1>2. base \in Nat /\ base \in 1 .. Len(stack) /\ base - 0 = base
  BY <1>1
<1>3. Drop(Current.argc) \in Seq(ValuesOver(K))
  BY <1>1, StackParts
<1>4. SubSeq(stack, 1, base) \in Seq(ValuesOver(K))
  BY <1>3 DEF Drop
<1>5. AllArgs \in Seq(ValuesOver(K))
  BY <1>1 DEF AllArgs
<1>6. stack[base] \in ValuesOver(K)
  BY <1>1, <1>2
<1>7. Callee.chunk \in 0 .. Chunks - 1 /\ Callee.ups \in Seq(U)
  BY <1>1 DEF FunctionOver
<1>8. (~Current.keep) \in BOOLEAN
  OBVIOUS
<1> HIDE DEF base
<1>9. [chunk |-> Callee.chunk, ip |-> 0, fp |-> base - 0, closure |-> stack[base],
       ups |-> Callee.ups, captured |-> <<>>, discard |-> ~Current.keep]
        \in FrameOver(Chunks, K, U)
  BY <1>2, <1>6, <1>7, <1>8, NothingCaptured, MakeFrame
<1>10. SubSeq(stack, 1, base) \o AllArgs \in Seq(ValuesOver(K))
  BY <1>4, <1>5
<1> QED
  BY <1>4, <1>9, <1>10 DEF base

(* Steps that allocate nothing, but may collect.                           *)
LEMMA CollectTurn ==
  ASSUME NEW K, NEW U, Sound(K, U), NEW st \in Seq(ValuesOver(K)), stack' = st,
         frames' \in Seq(FrameOver(Chunks, K, U)), MaybeGC(Runtime, st, frames', upv),
         UNCHANGED <<bytecode, globals, upv>>
  PROVE  Turns(K, U)
<1>1. Basics
  BY DEF Sound
<1>2. Adds(Runtime, K, U) /\ K \cup Allocated(Runtime) = K
  BY <1>1, RuntimeAdds
<1>3. IsMachine(Runtime) /\ threshold \in Nat \ {0}
  BY <1>1, RuntimeIsMachine, BasicParts
<1>4. /\ nextKey' = Runtime.next /\ added' \in Nat /\ threshold' \in Nat \ {0}
      /\ \/ heap' = Runtime.heap
         \/ heap' = [k \in ReachedFrom(Runtime.heap, upv, RootKeys(st, frames', upv))
                       |-> Runtime.heap[k]]
  BY <1>3, MaybeGCLeaves
<1> QED
  BY <1>2, <1>4, AllocTurn

LEMMA CallFunctionTurn ==
  ASSUME NEW K, NEW U, Sound(K, U), CallFunction
  PROVE  Turns(K, U)
<1> DEFINE base  == Len(stack) - Current.argc
           st    == SubSeq(stack, 1, base) \o AllArgs
           frame == [chunk |-> Callee.chunk, ip |-> 0, fp |-> base - 0, closure |-> stack[base],
                     ups |-> Callee.ups, captured |-> <<>>, discard |-> ~Current.keep]
           fr    == Append(Synced, frame)
<1>1. /\ Runs({"Call"}) /\ Callee.t = "fun" /\ stack' = st /\ frames' = fr
      /\ MaybeGC(Runtime, st, fr, upv) /\ UNCHANGED <<bytecode, globals, upv>>
  BY DEF CallFunction, EnterFrame
<1>2. st \in Seq(ValuesOver(K)) /\ frame \in FrameOver(Chunks, K, U)
  BY <1>1, EnteredFrame
<1>3. frames # <<>> /\ frames \in Seq(FrameOver(Chunks, K, U)) /\ ip \in Nat
  BY <1>1, CallParts
<1>4. Synced \in Seq(FrameOver(Chunks, K, U))
  BY <1>3, SyncedOver
<1> HIDE DEF st, frame
<1>5. fr \in Seq(FrameOver(Chunks, K, U))
  BY <1>2, <1>4
<1> HIDE DEF fr
<1> QED
  BY <1>1, <1>2, <1>5, CollectTurn

LEMMA CallFailsTurn ==
  ASSUME NEW K, NEW U, Sound(K, U), CallFails
  PROVE  Turns(K, U)
<1>1. FailSynced("TypeError")
  BY DEF CallFails
<1> QED
  BY <1>1, FailSyncedTurn

LEMMA FrontOver ==
  ASSUME NEW S, NEW s \in Seq(S), s # <<>>
  PROVE  /\ Front(s) \in Seq(S) /\ Len(Front(s)) = Len(s) - 1
         /\ \A j \in 1 .. Len(s) - 1 : Front(s)[j] = s[j]
<1>1. Len(s) \in Nat /\ Len(s) >= 1
  OBVIOUS
<1>2. 1 \in 1 .. Len(s) + 1 /\ Len(s) - 1 \in 1 - 1 .. Len(s)
  BY <1>1
<1> DEFINE f == SubSeq(s, 1, Len(s) - 1)
<1>3. f \in Seq(S)
  BY <1>2, SubSeqProperties
<1>4. Len(f) = Len(s) - 1
  BY <1>1
<1>5. \A j \in 1 .. Len(s) - 1 : f[j] = s[j]
  BY <1>1
<1>6. Front(s) = f
  BY DEF Front
<1> HIDE DEF f
<1> QED
  BY <1>3, <1>4, <1>5, <1>6

LEMMA ReturnTurn ==
  ASSUME NEW K, NEW U, Sound(K, U), Return
  PROVE  Turns(K, U)
<1> DEFINE rest == Front(frames)
           st   == IF rest = <<>> THEN stack
                   ELSE UpTo(stack, Top.fp - 1) \o (IF Top.discard THEN <<>> ELSE <<Peek(0)>>)
<1>1. /\ Runs({"Return"}) /\ frames' = rest /\ stack' = st /\ MaybeGC(Runtime, st, rest, upv)
      /\ UNCHANGED <<bytecode, globals, upv>>
  BY DEF Return
<1>2. /\ Current.op = "Return" /\ Len(stack) >= Operands(Current) /\ Len(stack) \in Nat
      /\ frames # <<>> /\ Top \in FrameOver(Chunks, K, U) /\ stack \in Seq(ValuesOver(K))
      /\ Held(K, U)
  BY <1>1, RunsHere
<1>3. frames \in Seq(FrameOver(Chunks, K, U)) /\ Len(frames) \in Nat
  BY <1>2, HeldParts
<1>4. rest \in Seq(FrameOver(Chunks, K, U)) /\ Len(rest) = Len(frames) - 1
  BY <1>2, <1>3, FrontOver
<1> HIDE DEF rest
<1>5. st \in Seq(ValuesOver(K))
  <2>1. CASE rest = <<>>
    BY <1>2, <2>1
  <2>2. CASE rest # <<>>
    <3>1. Len(frames) > 1
      BY <1>3, <1>4, <2>2
    <3>2. Len(stack) >= 1
      BY <1>2, <3>1 DEF Operands, Operators
    <3>3. Peek(0) \in ValuesOver(K)
      BY <1>2, <3>2, PeekOver
    <3>4. Top.fp \in Nat
      BY <1>2, TopCells
    <3>5. UpTo(stack, Top.fp - 1) \in Seq(ValuesOver(K))
      <4>1. CASE Top.fp = 0
        <5>1. UpTo(stack, -1) = <<>>
          BY <1>2, <3>2 DEF UpTo
        <5>2. Top.fp - 1 = -1
          BY <4>1
        <5>3. <<>> \in Seq(ValuesOver(K))
          OBVIOUS
        <5> QED
          BY <5>1, <5>2, <5>3
      <4>2. CASE Top.fp # 0
        <5>1. Top.fp - 1 \in Nat
          BY <3>4, <4>2
        <5> QED
          BY <1>2, <5>1, Parts
      <4> QED
        BY <4>1, <4>2
    <3>6. <<Peek(0)>> \in Seq(ValuesOver(K)) /\ <<>> \in Seq(ValuesOver(K))
      BY <3>3
    <3> QED
      BY <2>2, <3>5, <3>6
  <2> QED
    BY <2>1, <2>2
<1> HIDE DEF st
<1> QED
  BY <1>1, <1>4, <1>5, CollectTurn

LEMMA CallBuiltinTurn ==
  ASSUME NEW K, NEW U, Sound(K, U), CallBuiltin
  PROVE  Turns(K, U)
<1> DEFINE rest == Drop(Current.argc)
           With(v) == IF Current.keep THEN Append(rest, v) ELSE rest
<1>0. Runs({"CallBuiltin"})
  BY DEF CallBuiltin
<1>1. PICK c \in CallOutcomes(Current.builtin, Args, Runtime) :
         \/ /\ c.r.kind = "value" /\ stack' = With(c.r.v)
            /\ MaybeGC(c.m, With(c.r.v), frames, upv)
            /\ UNCHANGED <<bytecode, frames, globals, upv>>
         \/ Fault("TypeError", ip) /\ Settled(c.m) /\ UNCHANGED stack
         \/ Breaks \/ Hangs
  BY DEF CallBuiltin, Leaves, Quiet
<1> DEFINE st == With(c.r.v)
<1>2. /\ Basics /\ Held(K, U) /\ Current.op = "CallBuiltin" /\ Current.argc \in Nat
      /\ Current.keep \in BOOLEAN
      /\ Len(stack) >= Current.argc /\ stack \in Seq(ValuesOver(K))
  BY <1>0, RunsHere, InstructionFields DEF Checked
<1>3. Args \in Seq(ValuesOver(K)) /\ rest \in Seq(ValuesOver(K))
  BY <1>2, StackParts DEF Args
<1>4. Adds(c.m, K, U) /\ (c.r.kind = "value" => c.r.v \in ValuesOver(K \cup Allocated(c.m)))
  BY <1>3, CallAdds
<1>5. IsMachine(c.m) /\ threshold \in Nat \ {0} /\ c.m.added \in Nat
  BY <1>2, <1>4, BasicParts DEF Adds, IsMachine
<1>6. rest \in Seq(ValuesOver(K \cup Allocated(c.m)))
      /\ stack \in Seq(ValuesOver(K \cup Allocated(c.m)))
  BY <1>2, <1>3, StackMore
<1>7. frames \in Seq(FrameOver(Chunks, K \cup Allocated(c.m), U))
  BY <1>2, FramesMore
<1> HIDE DEF rest
<1>8. CASE /\ c.r.kind = "value" /\ stack' = st /\ MaybeGC(c.m, st, frames, upv)
           /\ UNCHANGED <<bytecode, frames, globals, upv>>
  <2>1. st \in Seq(ValuesOver(K \cup Allocated(c.m)))
    BY <1>4, <1>6, <1>8
  <2> HIDE DEF st
  <2>2. /\ nextKey' = c.m.next /\ added' \in Nat /\ threshold' \in Nat \ {0}
        /\ \/ heap' = c.m.heap
           \/ heap' = [k \in ReachedFrom(c.m.heap, upv, RootKeys(st, frames, upv)) |-> c.m.heap[k]]
    BY <1>5, <1>8, MaybeGCLeaves
  <2>3. frames' \in Seq(FrameOver(Chunks, K \cup Allocated(c.m), U)) /\ frames' = frames
    BY <1>7, <1>8
  <2> QED
    BY <1>4, <1>8, <2>1, <2>2, <2>3, AllocTurn
<1>9. CASE Fault("TypeError", ip) /\ Settled(c.m) /\ UNCHANGED stack
  <2>1. UNCHANGED <<bytecode, frames, globals, upv>> /\ stack' = stack
    BY <1>9 DEF Fault
  <2>2. heap' = c.m.heap /\ nextKey' = c.m.next /\ added' = c.m.added /\ threshold' = threshold
    BY <1>9 DEF Settled
  <2>3. frames' \in Seq(FrameOver(Chunks, K \cup Allocated(c.m), U))
    BY <1>7, <2>1
  <2> QED
    BY <1>4, <1>5, <1>6, <2>1, <2>2, <2>3, AllocTurn
<1>10. CASE Breaks \/ Hangs
  BY <1>10, BreaksTurn
<1> QED
  BY <1>1, <1>8, <1>9, <1>10

-----------------------------------------------------------------------------
(* Closures: the cells captured one by one.                                *)
Capturing(acc, K, U) ==
  LET cells == U \cup (Len(upv) + 1 .. Len(acc.upv))
  IN  /\ acc = [upv |-> acc.upv, captured |-> acc.captured, ups |-> acc.ups]
      /\ acc.upv \in Seq(Value) /\ Len(acc.upv) >= Len(upv)
      /\ UpvaluesOver(acc.upv, K, cells)
      /\ acc.captured \in Captures(cells)
      /\ acc.ups \in Seq(cells)

LEMMA UpvalueAppended ==
  ASSUME NEW u, NEW K, NEW U, UpvaluesOver(u, K, U), NEW v \in ValuesOver(K)
  PROVE  UpvaluesOver(Append(u, v), K, U \cup {Len(u) + 1})
<1>1. u \in Seq(Value) /\ Len(u) \in Nat /\ U \subseteq 1 .. Len(u) /\ v \in Value
      /\ \A c \in U : u[c] \in ValuesOver(K)
  BY DEF UpvaluesOver, ValuesOver
<1> DEFINE w == Append(u, v)
<1>2. w \in Seq(Value) /\ Len(w) = Len(u) + 1 /\ w[Len(u) + 1] = v
  BY <1>1
<1>3. \A c \in 1 .. Len(u) : w[c] = u[c]
  BY <1>1
<1>4. DOMAIN w = 1 .. Len(u) + 1
  BY <1>1
<1> HIDE DEF w
<1>5. U \cup {Len(u) + 1} \subseteq DOMAIN w
  <2>1. \A c \in 1 .. Len(u) : c \in 1 .. Len(u) + 1
    BY <1>1
  <2>2. Len(u) + 1 \in 1 .. Len(u) + 1
    BY <1>1
  <2> QED
    BY <1>1, <1>4, <2>1, <2>2
<1>6. \A c \in U \cup {Len(u) + 1} : w[c] \in ValuesOver(K)
  BY <1>1, <1>2, <1>3
<1> QED
  BY <1>2, <1>5, <1>6 DEF UpvaluesOver, w

LEMMA CapturedPlus ==
  ASSUME NEW U, NEW captured \in Captures(U), NEW i \in Nat, NEW c \in U
  PROVE  Plus(captured, i, c) \in Captures(U)
<1> DEFINE p == Plus(captured, i, c)
<1>1. DOMAIN captured \subseteq Nat /\ \A j \in DOMAIN captured : captured[j] \in U
  BY CapturedCells
<1>2. DOMAIN p \subseteq Nat /\ (\A j \in DOMAIN p : p[j] \in U)
  BY <1>1 DEF Plus
<1>3. p = [j \in DOMAIN p |-> p[j]]
  BY DEF Plus
<1> HIDE DEF p
<1>4. p \in Captures(U)
  BY <1>2, <1>3, CapturedCells
<1> QED
  BY <1>4 DEF p

LEMMA CapturedMore ==
  ASSUME NEW acc, NEW K, NEW U, Len(upv) \in Nat, Capturing(acc, K, U)
  PROVE  /\ Len(acc.upv) \in Nat
         /\ (U \cup (Len(upv) + 1 .. Len(acc.upv))) \cup {Len(acc.upv) + 1}
              = U \cup (Len(upv) + 1 .. Len(acc.upv) + 1)
<1>1. Len(acc.upv) \in Nat /\ Len(acc.upv) >= Len(upv)
  BY DEF Capturing
<1>2. (Len(upv) + 1 .. Len(acc.upv)) \cup {Len(acc.upv) + 1} = Len(upv) + 1 .. Len(acc.upv) + 1
  BY <1>1
<1> QED
  BY <1>1, <1>2

LEMMA CaptureOneOver ==
  ASSUME NEW K, NEW U, Sound(K, U), NEW acc, Capturing(acc, K, U), NEW d \in UpvalueDesc,
         Top \in FrameOver(Chunks, K, U),
         d.isLocal => Slot(d.index) <= Len(stack),
         ~d.isLocal => d.index < Len(Top.ups)
  PROVE  Capturing(CaptureOne(acc, d), K, U)
<1> DEFINE cells == U \cup (Len(upv) + 1 .. Len(acc.upv))
<1>1. d.isLocal \in BOOLEAN /\ d.index \in Nat
  BY DEF UpvalueDesc
<1>2. /\ acc = [upv |-> acc.upv, captured |-> acc.captured, ups |-> acc.ups]
      /\ acc.upv \in Seq(Value) /\ Len(acc.upv) >= Len(upv)
      /\ UpvaluesOver(acc.upv, K, cells) /\ acc.captured \in Captures(cells)
      /\ acc.ups \in Seq(cells)
  BY DEF Capturing
<1>3. stack \in Seq(ValuesOver(K)) /\ Len(upv) \in Nat
  BY HeldParts DEF Sound
<1> HIDE DEF cells
<1>4. ASSUME NEW c \in cells, CaptureOne(acc, d) = [acc EXCEPT !.ups = Append(acc.ups, c)]
      PROVE  Capturing(CaptureOne(acc, d), K, U)
  <2>1. Append(acc.ups, c) \in Seq(cells)
    BY <1>2, <1>4
  <2>2. CaptureOne(acc, d) = [upv |-> acc.upv, captured |-> acc.captured, ups |-> Append(acc.ups, c)]
    BY <1>2, <1>4
  <2> DEFINE b == CaptureOne(acc, d)
  <2>3. b = [upv |-> b.upv, captured |-> b.captured, ups |-> b.ups]
        /\ b.upv = acc.upv /\ b.captured = acc.captured /\ b.ups = Append(acc.ups, c)
    BY <2>2
  <2> HIDE DEF b
  <2>4. Capturing(b, K, U)
    BY <1>2, <2>1, <2>3 DEF Capturing, cells
  <2> QED
    BY <2>4 DEF b
<1>5. CASE ~d.isLocal
  <2>1. CaptureOne(acc, d) = [acc EXCEPT !.ups = Append(acc.ups, Top.ups[d.index + 1])]
    BY <1>5 DEF CaptureOne
  <2>2. Top.ups[d.index + 1] \in U
    BY <1>1, <1>5, TopCells
  <2>3. Top.ups[d.index + 1] \in cells
    BY <2>2 DEF cells
  <2> QED
    BY <1>4, <2>1, <2>3
<1>6. CASE d.isLocal /\ d.index \in DOMAIN acc.captured
  <2>1. CaptureOne(acc, d) = [acc EXCEPT !.ups = Append(acc.ups, acc.captured[d.index])]
    BY <1>6 DEF CaptureOne
  <2>2. acc.captured[d.index] \in cells
    BY <1>2, <1>6, CapturedCells
  <2> QED
    BY <1>4, <2>1, <2>2
<1>7. CASE d.isLocal /\ d.index \notin DOMAIN acc.captured
  <2> DEFINE c == Len(acc.upv) + 1
             v == stack[Slot(d.index)]
             b == CaptureOne(acc, d)
             more == U \cup (Len(upv) + 1 .. c)
  <2>1. b = [upv |-> Append(acc.upv, v), captured |-> Plus(acc.captured, d.index, c),
             ups |-> Append(acc.ups, c)]
    BY <1>7 DEF CaptureOne
  <2>2. b = [upv |-> b.upv, captured |-> b.captured, ups |-> b.ups]
        /\ b.upv = Append(acc.upv, v) /\ b.captured = Plus(acc.captured, d.index, c)
        /\ b.ups = Append(acc.ups, c)
    BY <2>1
  <2>3. Top.fp \in Nat
    BY TopCells
  <2>4. v \in ValuesOver(K)
    BY <1>1, <1>3, <1>7, <2>3, SlotOver
  <2>5. v \in Value
    BY <2>4 DEF ValuesOver
  <2>6. Len(acc.upv) \in Nat /\ cells \cup {c} = more
    BY <1>3, CapturedMore DEF cells
  <2>7. UpvaluesOver(b.upv, K, more)
    BY <1>2, <2>2, <2>4, <2>6, UpvalueAppended
  <2>8. cells \subseteq more /\ c \in more
    BY <2>6
  <2>9. acc.captured \in Captures(more) /\ acc.ups \in Seq(more)
    BY <1>2, <2>8, CapturesMore, SeqMore
  <2> HIDE DEF b, v, more
  <2>10. b.captured \in Captures(more)
    BY <1>1, <2>2, <2>8, <2>9, CapturedPlus
  <2>11. b.ups \in Seq(more)
    BY <2>2, <2>8, <2>9
  <2>12. b.upv \in Seq(Value) /\ Len(b.upv) = c /\ c >= Len(upv)
    BY <1>2, <1>3, <2>2, <2>5, <2>6
  <2>13. Capturing(b, K, U)
    BY <2>2, <2>7, <2>10, <2>11, <2>12 DEF Capturing, more
  <2> QED
    BY <2>13 DEF b
<1> QED
  BY <1>1, <1>5, <1>6, <1>7

(* CaptureAll, as a function of how many descriptors have been seen to.    *)
Start == [upv |-> upv, captured |-> Top.captured, ups |-> <<>>]
CapturedInTurn(f, descs) ==
  f = [n \in 0 .. Len(descs) |-> IF n = 0 THEN Start ELSE CaptureOne(f[n - 1], descs[n])]

(* What the frame and the stack have to offer to the descriptors.          *)
Offered(descs) ==
  \A n \in 1 .. Len(descs) :
    /\ descs[n] \in UpvalueDesc
    /\ descs[n].isLocal => Slot(descs[n].index) <= Len(stack)
    /\ ~descs[n].isLocal => descs[n].index < Len(Top.ups)

LEMMA StartCaptures ==
  ASSUME NEW K, NEW U, Sound(K, U), Top \in FrameOver(Chunks, K, U)
  PROVE  Capturing(Start, K, U)
<1>1. UpvaluesOver(upv, K, U) /\ Len(upv) \in Nat /\ Top.captured \in Captures(U)
  BY HeldParts, FrameFields DEF Sound
<1>2. upv \in Seq(Value) /\ U \cup (Len(upv) + 1 .. Len(upv)) = U
  BY <1>1 DEF UpvaluesOver
<1>3. Start = [upv |-> Start.upv, captured |-> Start.captured, ups |-> Start.ups]
      /\ Start.upv = upv /\ Start.captured = Top.captured /\ Start.ups = <<>>
  BY DEF Start
<1>4. <<>> \in Seq(U)
  OBVIOUS
<1> DEFINE cells == U \cup (Len(upv) + 1 .. Len(Start.upv))
<1>5. cells = U
  BY <1>2, <1>3
<1> HIDE DEF cells
<1>6. /\ UpvaluesOver(Start.upv, K, cells) /\ Start.captured \in Captures(cells)
      /\ Start.ups \in Seq(cells)
  BY <1>1, <1>3, <1>4, <1>5
<1>7. Start.upv \in Seq(Value) /\ Len(Start.upv) >= Len(upv)
  BY <1>1, <1>2, <1>3
<1> QED
  BY <1>3, <1>6, <1>7 DEF Capturing, cells

LEMMA CapturedInTurnExists ==
  ASSUME NEW K, NEW U, Sound(K, U), Top \in FrameOver(Chunks, K, U),
         NEW descs, Len(descs) \in Nat, Offered(descs)
  PROVE  \E f : CapturedInTurn(f, descs)
<1> DEFINE S == {a \in [upv : Seq(Value), captured : Captures(Nat), ups : Seq(Nat)] :
                   Capturing(a, K, U)}
           N == Len(descs)
           F == [n \in 1 .. N |-> [a \in S |-> CaptureOne(a, descs[n])]]
<1>1. ASSUME NEW a, Capturing(a, K, U) PROVE a \in S
  <2> DEFINE cells == U \cup (Len(upv) + 1 .. Len(a.upv))
  <2>1. UpvaluesOver(upv, K, U) /\ Len(upv) \in Nat
    BY HeldParts DEF Sound
  <2>2. upv \in Seq(Value) /\ U \subseteq DOMAIN upv
    BY <2>1 DEF UpvaluesOver
  <2>3. U \subseteq Nat
    BY <2>2
  <2>4. a.upv \in Seq(Value) /\ a.captured \in Captures(cells) /\ a.ups \in Seq(cells)
        /\ a = [upv |-> a.upv, captured |-> a.captured, ups |-> a.ups]
    BY <1>1 DEF Capturing
  <2>5. Len(a.upv) \in Nat
    BY <2>4
  <2>6. cells \subseteq Nat
    <3>1. \A c \in Len(upv) + 1 .. Len(a.upv) : c \in Nat
      BY <2>1, <2>5
    <3> QED
      BY <2>3, <3>1
  <2> HIDE DEF cells
  <2>7. a.captured \in Captures(Nat) /\ a.ups \in Seq(Nat)
    BY <2>4, <2>6, CapturesMore, SeqMore
  <2>8. a \in [upv : Seq(Value), captured : Captures(Nat), ups : Seq(Nat)]
    BY <2>4, <2>7
  <2> QED
    BY <1>1, <2>8
<1>2. \A a \in S : Capturing(a, K, U)
  OBVIOUS
<1>3. Start \in S
  BY <1>1, StartCaptures
<1> HIDE DEF S
<1>4. ASSUME NEW n \in 1 .. N, NEW a \in S
      PROVE  F[n][a] = CaptureOne(a, descs[n]) /\ F[n][a] \in S
  <2>1. Capturing(CaptureOne(a, descs[n]), K, U)
    BY <1>2, <1>4, CaptureOneOver DEF Offered
  <2> QED
    BY <1>1, <1>4, <2>1
<1> N \in Nat
  OBVIOUS
<1> HIDE DEF F, N
<1>5. StaysIn(F, N, S)
  BY <1>4 DEF StaysIn
<1>6. PICK f : Follows(f, F, N, S, Start)
  BY <1>3, <1>5, Recursion
<1>7. f \in [0 .. N -> S] /\ f[0] = Start /\ \A n \in 1 .. N : f[n] = F[n][f[n - 1]]
  BY <1>6 DEF Follows
<1>8. ASSUME NEW n \in 1 .. N PROVE f[n] = CaptureOne(f[n - 1], descs[n])
  <2>1. n - 1 \in 0 .. N
    BY <1>8
  <2>2. f[n - 1] \in S
    BY <1>7, <2>1
  <2> QED
    BY <1>4, <1>7, <1>8, <2>2
<1>9. f = [n \in 0 .. N |-> IF n = 0 THEN Start ELSE CaptureOne(f[n - 1], descs[n])]
  BY <1>7, <1>8
<1>10. CapturedInTurn(f, descs)
  BY <1>9 DEF CapturedInTurn, N
<1> QED
  BY <1>10

LEMMA CaptureAllOver ==
  ASSUME NEW K, NEW U, Sound(K, U), Top \in FrameOver(Chunks, K, U),
         NEW descs, Len(descs) \in Nat, Offered(descs)
  PROVE  Capturing(CaptureAll(descs), K, U)
<1> DEFINE f == CHOOSE g : CapturedInTurn(g, descs)
           N == Len(descs)
<1>1. CaptureAll(descs) = f[Len(descs)]
  BY DEF CaptureAll, CapturedInTurn, Start
<1>2. CapturedInTurn(f, descs)
  <2>1. \E g : CapturedInTurn(g, descs)
    BY CapturedInTurnExists
  <2> QED
    BY <2>1
<1> HIDE DEF f
<1>3. f[0] = Start /\ \A n \in 1 .. N : f[n] = CaptureOne(f[n - 1], descs[n])
  BY <1>2 DEF CapturedInTurn
<1> DEFINE Q == {n \in 0 .. N : Capturing(f[n], K, U)}
<1> N \in Nat
  OBVIOUS
<1>4. 0 \in Q
  BY <1>3, StartCaptures
<1>5. ASSUME NEW n \in 1 .. N, n - 1 \in Q PROVE n \in Q
  <2>1. Capturing(f[n - 1], K, U)
    BY <1>5
  <2>2. Capturing(CaptureOne(f[n - 1], descs[n]), K, U)
    BY <1>5, <2>1, CaptureOneOver DEF Offered
  <2> QED
    BY <1>3, <2>2
<1> HIDE DEF N, Q
<1>6. N \in Q
  BY <1>4, <1>5, BoundedInduction
<1> QED
  BY <1>1, <1>6 DEF N, Q

LEMMA ClosureOffers ==
  ASSUME NEW K, NEW U, Sound(K, U), Runs({"Closure"})
  PROVE  Offered(Current.upvalues) /\ Len(Current.upvalues) \in Nat
<1>1. /\ Current.op = "Closure" /\ Current.upvalues \in Seq(UpvalueDesc)
      /\ \A s \in SlotsUsed(Current) : Slot(s) <= Len(stack)
      /\ \A u \in UpvaluesUsed(Current) : u < Len(Top.ups)
  BY RunsHere, InstructionFields
<1> DEFINE descs == Current.upvalues
<1>2. /\ SlotsUsed(Current) = {u.index : u \in {w \in Range(descs) : w.isLocal}}
      /\ UpvaluesUsed(Current) = {u.index : u \in {w \in Range(descs) : ~w.isLocal}}
  BY <1>1 DEF SlotsUsed, UpvaluesUsed
<1> HIDE DEF descs
<1>3. descs \in Seq(UpvalueDesc)
  BY <1>1 DEF descs
<1>4. ASSUME NEW n \in 1 .. Len(descs)
      PROVE  /\ descs[n] \in UpvalueDesc
             /\ descs[n].isLocal => Slot(descs[n].index) <= Len(stack)
             /\ ~descs[n].isLocal => descs[n].index < Len(Top.ups)
  <2>1. descs[n] \in Range(descs) /\ descs[n] \in UpvalueDesc
    BY <1>3, <1>4 DEF Range
  <2>2. descs[n].isLocal => descs[n].index \in SlotsUsed(Current)
    BY <1>2, <2>1
  <2>3. ~descs[n].isLocal => descs[n].index \in UpvaluesUsed(Current)
    BY <1>2, <2>1
  <2> QED
    BY <1>1, <2>1, <2>2, <2>3
<1>5. Offered(descs) /\ Len(descs) \in Nat
  BY <1>3, <1>4 DEF Offered
<1> QED
  BY <1>5 DEF descs

LEMMA ClosureCaptures ==
  ASSUME NEW K, NEW U, Sound(K, U), Runs({"Closure"})
  PROVE  Capturing(CaptureAll(Current.upvalues), K, U)
<1>1. Top \in FrameOver(Chunks, K, U)
  BY RunsHere
<1> QED
  BY <1>1, ClosureOffers, CaptureAllOver

LEMMA ClosureTurn ==
  ASSUME NEW K, NEW U, Sound(K, U), Closure
  PROVE  Turns(K, U)
<1> DEFINE c  == CaptureAll(Current.upvalues)
           fr == [frames EXCEPT ![Len(frames)].captured = c.captured]
           st == Append(stack, RefV(nextKey))
           f  == [heap[ConstantKey(Current.index)] EXCEPT !.ups = c.ups]
           m  == Allocate(Runtime, f)
           U2 == U \cup NewCells
<1>1. /\ Runs({"Closure"}) /\ stack' = st /\ frames' = fr /\ upv' = c.upv
      /\ MaybeGC(m, st, fr, c.upv) /\ UNCHANGED <<bytecode, globals>>
  BY DEF Closure, Leaves
<1>2. /\ Basics /\ Held(K, U) /\ Current.op = "Closure" /\ Current.index \in Nat
      /\ Current.index < Len(bytecode.consts) /\ bytecode.consts[Current.index + 1].t = "fun"
      /\ bytecode.consts \in Seq(Datum(Chunks))
      /\ frames # <<>> /\ Len(frames) \in Nat \ {0} /\ Top = frames[Len(frames)]
      /\ Top \in FrameOver(Chunks, K, U) /\ stack \in Seq(ValuesOver(K))
  BY <1>1, RunsHere, InstructionFields, BasicParts DEF InBounds
<1>3. frames \in Seq(FrameOver(Chunks, K, U)) /\ Len(upv) \in Nat /\ CellsOver(heap, Chunks, K, U)
      /\ Pinned(heap)
  BY <1>2, HeldParts, BasicParts
<1>4. Capturing(c, K, U)
  BY <1>1, ClosureCaptures
<1> HIDE DEF c
<1>5. /\ c.upv \in Seq(Value) /\ Len(c.upv) >= Len(upv)
      /\ UpvaluesOver(c.upv, K, U \cup (Len(upv) + 1 .. Len(c.upv)))
      /\ c.captured \in Captures(U \cup (Len(upv) + 1 .. Len(c.upv)))
      /\ c.ups \in Seq(U \cup (Len(upv) + 1 .. Len(c.upv)))
  BY <1>4 DEF Capturing
<1>6. U2 = U \cup (Len(upv) + 1 .. Len(c.upv))
  BY <1>1 DEF NewCells
<1>7. U \subseteq U2
  OBVIOUS
<1> HIDE DEF U2
<1>8. UpvaluesOver(upv', K, U2) /\ c.captured \in Captures(U2) /\ c.ups \in Seq(U2)
      /\ Len(upv') \in Nat /\ Len(upv') >= Len(upv)
  BY <1>1, <1>5, <1>6
<1>9. f \in CellOver(Chunks, K, U2)
  <2> DEFINE k == ConstantKey(Current.index)
  <2>1. Current.index + 1 \in DOMAIN bytecode.consts /\ (Current.index + 1) - 1 = Current.index
    BY <1>2
  <2>2. k \in PinnedKeys
    BY <1>2, <2>1 DEF PinnedKeys, NeedsCell
  <2>3. k = Len(BuiltinIds) + Current.index + 1 /\ Len(BuiltinIds) \in Nat
    BY VMAssumption DEF ConstantKey
  <2>4. ~(k <= Len(BuiltinIds)) /\ k - Len(BuiltinIds) = Current.index + 1
    BY <1>2, <2>3
  <2>5. PinnedCell(k) = bytecode.consts[Current.index + 1]
    BY <2>4 DEF PinnedCell
  <2>6. k \in DOMAIN heap /\ heap[k].t = "fun"
    BY <1>2, <1>3, <2>2, <2>5 DEF Pinned
  <2>7. heap[k] \in CellOver(Chunks, K, U)
    BY <1>3, <2>6 DEF CellsOver
  <2>8. heap[k] \in FunctionOver(Chunks, K, U)
    BY <2>6, <2>7, CellFields
  <2> HIDE DEF k
  <2>9. [heap[k] EXCEPT !.ups = c.ups] \in FunctionOver(Chunks, K, U2)
    <3>1. Signed([heap[k] EXCEPT !.ups = c.ups])
      BY <2>8 DEF FunctionOver, Signed
    <3> QED
      BY <1>8, <2>8, <3>1 DEF FunctionOver
  <2> QED
    BY <2>9, DataAreCells DEF k
<1> HIDE DEF f
<1>10. Adds(m, K, U2) /\ nextKey \in Allocated(m) /\ nextKey \in Nat
  BY <1>2, <1>9, AllocateAdds
<1>11. RefV(nextKey) \in ValuesOver(K \cup Allocated(m))
  BY <1>10, Primitives
<1>12. stack \in Seq(ValuesOver(K \cup Allocated(m)))
  BY <1>2, StackMore
<1> HIDE DEF m
<1>13. st \in Seq(ValuesOver(K \cup Allocated(m)))
  BY <1>11, <1>12
<1> HIDE DEF st
<1>14. fr \in Seq(FrameOver(Chunks, K \cup Allocated(m), U2))
  <2> DEFINE t == frames[Len(frames)]
             g == [t EXCEPT !.captured = c.captured]
             S == FrameOver(Chunks, K \cup Allocated(m), U2)
  <2>1. FrameOver(Chunks, K, U) \subseteq S
    BY <1>7, FrameMore
  <2>2. frames \in Seq(S) /\ Len(frames) \in DOMAIN frames
    <3>1. Len(frames) \in DOMAIN frames
      BY <1>2, <1>3
    <3> HIDE DEF S
    <3>2. frames \in Seq(S)
      BY <1>3, <2>1, SeqMore
    <3> QED
      BY <3>1, <3>2
  <2>3. t \in S
    BY <1>2, <2>1
  <2>4. /\ t = [chunk |-> t.chunk, ip |-> t.ip, fp |-> t.fp, closure |-> t.closure,
                ups |-> t.ups, captured |-> t.captured, discard |-> t.discard]
        /\ t.chunk \in 0 .. Chunks - 1 /\ t.ip \in Nat /\ t.fp \in Nat
        /\ t.closure \in ValuesOver(K \cup Allocated(m)) /\ t.ups \in Seq(U2)
        /\ t.discard \in BOOLEAN
    BY <2>3, FrameFields
  <2> HIDE DEF t, S
  <2>5. g = [chunk |-> t.chunk, ip |-> t.ip, fp |-> t.fp, closure |-> t.closure,
             ups |-> t.ups, captured |-> c.captured, discard |-> t.discard]
    BY <2>4
  <2> HIDE DEF g
  <2>6. g \in S
    BY <1>8, <2>4, <2>5, MakeFrame DEF S
  <2>7. fr = [frames EXCEPT ![Len(frames)] = g]
    BY DEF g, t
  <2> HIDE DEF fr
  <2>8. fr \in Seq(S)
    BY <2>2, <2>6, <2>7, ReplacedOver
  <2> QED
    BY <2>8 DEF S
<1> HIDE DEF fr
<1>15. IsMachine(m) /\ threshold \in Nat \ {0}
  BY <1>2, <1>10, BasicParts DEF Adds
<1>16. /\ nextKey' = m.next /\ added' \in Nat /\ threshold' \in Nat \ {0}
       /\ \/ heap' = m.heap
          \/ heap' = [k \in ReachedFrom(m.heap, c.upv, RootKeys(st, fr, c.upv)) |-> m.heap[k]]
  BY <1>1, <1>15, MaybeGCLeaves
<1>17. UpvaluesOver(upv', K \cup Allocated(m), U2)
  <2>1. ValuesOver(K) \subseteq ValuesOver(K \cup Allocated(m))
    BY OverMore
  <2> QED
    BY <1>8, <2>1 DEF UpvaluesOver
<1>18. MachineTurns(m, st, K, U2)
  BY <1>1, <1>13, <1>14, <1>16, <1>17 DEF MachineTurns
<1> QED
  BY <1>1, <1>2, <1>8, <1>10, <1>18, MachineTurn DEF U2

(* Whatever the instruction.                                               *)
THEOREM NextTurns ==
  ASSUME NEW K, NEW U, Sound(K, U), [Next]_vars
  PROVE  Turns(K, U)
<1>1. CASE \/ Constant \/ Pop \/ Duplicate \/ GetGlobal \/ SetGlobal \/ GetLocal \/ SetLocal
           \/ GetBuiltin \/ GetUpvalue \/ SetUpvalue
  BY <1>1, ConstantTurn, PopTurn, DuplicateTurn, GetGlobalTurn, SetGlobalTurn, GetLocalTurn,
     SetLocalTurn, GetBuiltinTurn, GetUpvalueTurn, SetUpvalueTurn
<1>2. CASE Arithmetic \/ Negate \/ Not \/ CompareOp \/ Jump \/ JumpIf \/ ForLoop
  BY <1>2, ArithmeticTurn, NegateTurn, NotTurn, CompareTurn, JumpTurn, JumpIfTurn, ForLoopTurn
<1>3. CASE \/ CallValueBuiltin \/ Curry \/ CallFunction \/ CallFails \/ Return \/ CallBuiltin
  BY <1>3, CallValueBuiltinTurn, CurryTurn, CallFunctionTurn, CallFailsTurn, ReturnTurn,
     CallBuiltinTurn
<1>4. CASE MakeArray \/ VectorAppend \/ GetIndex \/ SetIndex \/ Closure
  BY <1>4, MakeArrayTurn, VectorAppendTurn, GetIndexTurn, SetIndexTurn, ClosureTurn
<1>5. CASE Underflow \/ Broken \/ Halted \/ UNCHANGED vars
  BY <1>5, StuckTurn DEF Halted
<1> QED
  BY <1>1, <1>2, <1>3, <1>4, <1>5 DEF Next
=============================================================================
