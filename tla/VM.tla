--------------------------------- MODULE VM ---------------------------------
(***************************************************************************)
(* The bytecode virtual machine: l3_vm/src/lib.rs over stack.rs.           *)
(*                                                                         *)
(* One action per instruction.  `ip' is the local variable of              *)
(* execute_loop, which runs ahead of the `ip' kept in the frame.  Offsets, *)
(* slots and constants count from 0, as in the code.                       *)
(***************************************************************************)
EXTENDS Builtins, Bytecode

CONSTANTS
  Programs,       (* named bytecode: chunks and constants                   *)
  BuiltinIds,     (* the builtins of the VM, in a sequence                  *)
  BaseThreshold,  (* 1024 in the code                                       *)
  Prior           (* allocations an earlier part of the program may have
                     made and dropped: they bring the next collection near  *)

ASSUME VMAssumption ==
  /\ BaseThreshold \in Nat \ {0}
  /\ Prior \subseteq Nat
  /\ BuiltinIds \in Seq(Modelled)

VARIABLES
  program,    (* the name of the program being run                          *)
  bytecode,   (* its chunks and constants                                   *)
  ip,         (* the instruction pointer of execute_loop                    *)
  frames,     (* the call stack                                             *)
  stack,      (* the value stack                                            *)
  globals,    (* global_symbols                                             *)
  upv,        (* values of the upvalue cells, in order of creation          *)
  heap,       (* live cells                                                 *)
  nextKey,    (* keys from here on were never handed out                    *)
  added,      (* added_since_last_sweep                                     *)
  threshold,  (* next_gc_threshold                                          *)
  out,        (* what the program printed                                   *)
  status,     (* "run", "done", "error", "endless": in a builtin that never
                 returns, or "invalid": an index of the bytecode was out of
                 range, a panic in a debug build and undefined behaviour in
                 a release build                                            *)
  fault,      (* of an error: its kind, where it happened, where it is
                 reported                                                   *)
  saved       (* history: for each frame, the caller's stack under the call *)

memory == <<heap, nextKey, added, threshold>>
vars == <<program, bytecode, ip, frames, stack, globals, upv, heap, nextKey, added,
          threshold, out, status, fault, saved>>

-----------------------------------------------------------------------------
RefsIn(values) == {v.k : v \in {w \in values : w.t = "ref"}}

(* The keys mark visits from an object; u holds the upvalue cells.         *)
RefsOf(o, u) ==
  CASE o.t = "vec" -> RefsIn(Range(o.es))
    [] o.t = "fun" -> RefsIn(Range(o.curried) \cup {u[c] : c \in Range(o.ups)})
    [] OTHER       -> {}

(* builtin_values and constant_keys: builtins get the first keys, and the  *)
(* constants of the program that need a cell the keys after them.          *)
BuiltinKey(id) == CHOOSE k \in DOMAIN BuiltinIds : BuiltinIds[k] = id
ConstantKey(j) == Len(BuiltinIds) + j + 1
NeedsCell(data) == data.t \in {"str", "name", "fun"}
PinnedKeys ==
  DOMAIN BuiltinIds \cup
  {ConstantKey(j - 1) : j \in {i \in DOMAIN bytecode.consts : NeedsCell(bytecode.consts[i])}}

(* gc_mark_roots                                                           *)
RootKeys(st, fr, u) ==
  PinnedKeys \cup RefsIn(
     Range(st) \cup Range(globals)
     \cup UNION {{f.closure} \cup {u[c] : c \in Range(f.ups) \cup Range(f.captured)}
                   : f \in Range(fr)})

(* Slip: what the roots refer to is not followed.                          *)
RootsAlone(h, u, roots) == roots \cap DOMAIN h

ReachedFrom(h, u, roots) ==
  LET step[n \in 0 .. Cardinality(DOMAIN h)] ==
        IF n = 0 THEN roots \cap DOMAIN h
        ELSE LET seen == step[n - 1]
             IN  seen \cup ((UNION {RefsOf(h[k], u) : k \in seen}) \cap DOMAIN h)
  IN  step[Cardinality(DOMAIN h)]

NextThreshold(len) == IF 2 * len > BaseThreshold THEN 2 * len ELSE BaseThreshold

(* maybe_gc on the runtime m, with the stack, the frames and the upvalue   *)
(* cells as the instruction has left them by then.                         *)
MaybeGC(m, st, fr, u) ==
  /\ nextKey' = m.next
  /\ out' = m.out
  /\ IF m.added >= threshold
     THEN LET live == ReachedFrom(m.heap, u, RootKeys(st, fr, u))
          IN  /\ heap' = [k \in live |-> m.heap[k]]
              /\ added' = 0
              /\ threshold' = NextThreshold(Cardinality(live))
     ELSE heap' = m.heap /\ added' = m.added /\ UNCHANGED threshold

-----------------------------------------------------------------------------
Top == Last(frames)
Code == bytecode.chunks[Top.chunk + 1].code
Current == Code[ip + 1]
Runtime == [heap |-> heap, next |-> nextKey, added |-> added, out |-> out]

Peek(n) == stack[Len(stack) - n]
Drop(n) == SubSeq(stack, 1, Len(stack) - n)
Slot(i) == Top.fp + i + 1
IsCaptured(i) == i \in DOMAIN Top.captured

(* GetLocal: the cell of a captured local, else its stack slot.            *)
LocalValue(i) == IF IsCaptured(i) THEN upv[Top.captured[i]] ELSE stack[Slot(i)]

(* Slip: Pop takes the stack for granted.                                  *)
CheckedExceptPop(i) ==
  CASE i.op = "MakeArray" -> i.count
    [] i.op = "VectorAppend" -> i.count + 1
    [] i.op = "Duplicate"    -> i.index + 1
    [] i.op = "CallBuiltin"  -> i.argc
    [] i.op = "Call"         -> i.argc + 1
    [] OTHER                 -> 0

(* The stack an instruction checks for, with an error when it is not       *)
(* there...                                                                *)
Checked(i) ==
  CASE i.op \in {"Pop", "MakeArray"} -> i.count
    [] i.op = "VectorAppend" -> i.count + 1
    [] i.op = "Duplicate"    -> i.index + 1
    [] i.op = "CallBuiltin"  -> i.argc
    [] i.op = "Call"         -> i.argc + 1
    [] OTHER                 -> 0

(* ... and what it takes for granted, panicking without: pop and top on an *)
(* empty stack, slice_get out of range.                                    *)
Operands(i) ==
  CASE i.op \in Operators \cup {"Compare", "GetIndex"} -> 2
    [] i.op = "SetIndex" -> 3
    [] i.op \in {"Negate", "Not", "SetGlobal", "SetLocal", "SetUpvalue", "JumpIf"} -> 1
    [] i.op = "Return" /\ Len(frames) > 1 -> 1
    [] OTHER -> 0

SlotsUsed(i) ==
  CASE i.op = "GetLocal" -> IF IsCaptured(i.index) THEN {} ELSE {i.index}
    [] i.op = "SetLocal" -> {i.index}
    [] i.op = "ForLoop"  -> {i.control, i.limit} \cup i.step
    [] i.op = "Closure"  -> {u.index : u \in {w \in Range(i.upvalues) : w.isLocal}}
    [] OTHER             -> {}

Valid(i) ==
  LET height == IF i.op = "SetLocal" THEN Len(stack) - 1 ELSE Len(stack)
  IN  /\ Len(stack) >= Operands(i)
      /\ \A s \in SlotsUsed(i) : Slot(s) <= height
      /\ \A u \in UpvaluesUsed(i) : u < Len(Top.ups)

Runs(names) ==
  /\ status = "run"
  /\ Current.op \in names
  /\ Len(stack) >= Checked(Current)
  /\ Valid(Current)

-----------------------------------------------------------------------------
(* Errors.  execute_loop writes ip back into the frame on its error path;  *)
(* an early return leaves the frame's ip as the last call left it.         *)
Fault(e, reported) ==
  /\ status' = "error"
  /\ fault' = [kind |-> e, at |-> ip, reported |-> reported]
  /\ UNCHANGED <<program, bytecode, ip, frames, globals, upv, saved>>

FailSynced(e) == Fault(e, ip) /\ UNCHANGED <<stack, memory, out>>
FailEarly(e, st) == Fault(e, Top.ip) /\ stack' = st /\ UNCHANGED <<memory, out>>

(* A panic, or an index out of range.                                      *)
Breaks ==
  /\ status' = "invalid"
  /\ UNCHANGED <<program, bytecode, ip, frames, stack, globals, upv, memory, out, fault, saved>>

(* A builtin that does not come back.                                      *)
Hangs ==
  /\ status' = "endless"
  /\ UNCHANGED <<program, bytecode, ip, frames, stack, globals, upv, memory, out, fault, saved>>

(* The instruction leaves st on the stack and falls through.               *)
Leaves(st) == stack' = st /\ ip' = ip + 1
Quiet == UNCHANGED <<program, bytecode, frames, status, fault, saved>>
Settled(m) == heap' = m.heap /\ nextKey' = m.next /\ added' = m.added /\ UNCHANGED threshold

Init ==
  /\ program \in DOMAIN Programs
  /\ bytecode = [part \in {"chunks", "consts"} |-> Programs[program][part]]
  /\ ip = 0
  /\ frames = <<[chunk |-> 0, ip |-> 0, fp |-> 0, closure |-> NilV, ups |-> <<>>,
                 captured |-> <<>>, discard |-> FALSE]>>
  /\ stack = <<>>
  /\ globals = [id \in Range(BuiltinIds) |-> RefV(BuiltinKey(id))]
  /\ upv = <<>>
  /\ heap = [k \in PinnedKeys |->
               IF k <= Len(BuiltinIds) THEN Builtin(BuiltinIds[k])
               ELSE bytecode.consts[k - Len(BuiltinIds)]]
  /\ nextKey = Len(BuiltinIds) + Len(bytecode.consts) + 1
  /\ added \in Prior
  /\ threshold = BaseThreshold
  /\ out = <<>>
  /\ status = "run"
  /\ fault = [kind |-> "none", at |-> 0, reported |-> 0]
  /\ saved = <<<<>>>>

-----------------------------------------------------------------------------
(* Instructions that only move values.                                     *)
Constant ==
  /\ Runs({"Constant"})
  /\ LET data == bytecode.consts[Current.index + 1]
     IN  Leaves(Append(stack, IF NeedsCell(data) THEN RefV(ConstantKey(Current.index))
                              ELSE data))
  /\ Quiet /\ UNCHANGED <<globals, upv, memory, out>>

Pop ==
  /\ Runs({"Pop"})
  /\ Leaves(Drop(Current.count))
  /\ Quiet /\ UNCHANGED <<globals, upv, memory, out>>

Duplicate ==
  /\ Runs({"Duplicate"})
  /\ Leaves(Append(stack, Peek(Current.index)))
  /\ Quiet /\ UNCHANGED <<globals, upv, memory, out>>

GetGlobal ==
  /\ Runs({"GetGlobal"})
  /\ \/ Current.name \in DOMAIN globals /\ Leaves(Append(stack, globals[Current.name])) /\ Quiet
        /\ UNCHANGED <<globals, upv, memory, out>>
     \/ Current.name \notin DOMAIN globals /\ FailSynced("UndefinedVariable")

SetGlobal ==
  /\ Runs({"SetGlobal"})
  /\ globals' = Plus(globals, Current.name, Peek(0))
  /\ Leaves(Drop(1)) /\ Quiet /\ UNCHANGED <<upv, memory, out>>

GetLocal ==
  /\ Runs({"GetLocal"})
  /\ Leaves(Append(stack, LocalValue(Current.index)))
  /\ Quiet /\ UNCHANGED <<globals, upv, memory, out>>

SetLocal ==
  /\ Runs({"SetLocal"})
  /\ LET i == Current.index
     IN  /\ Leaves([Drop(1) EXCEPT ![Slot(i)] = Peek(0)])
         /\ upv' = IF IsCaptured(i) THEN [upv EXCEPT ![Top.captured[i]] = Peek(0)] ELSE upv
  /\ Quiet /\ UNCHANGED <<globals, memory, out>>

GetBuiltin ==
  /\ Runs({"GetBuiltin"})
  /\ Leaves(Append(stack, RefV(BuiltinKey(Current.builtin))))
  /\ Quiet /\ UNCHANGED <<globals, upv, memory, out>>

GetUpvalue ==
  /\ Runs({"GetUpvalue"})
  /\ Leaves(Append(stack, upv[Top.ups[Current.index + 1]]))
  /\ Quiet /\ UNCHANGED <<globals, upv, memory, out>>

SetUpvalue ==
  /\ Runs({"SetUpvalue"})
  /\ upv' = [upv EXCEPT ![Top.ups[Current.index + 1]] = Peek(0)]
  /\ Leaves(Drop(1)) /\ Quiet /\ UNCHANGED <<globals, memory, out>>

-----------------------------------------------------------------------------
(* Operators.  The early return of `?' leaves the left operand on the      *)
(* stack; an allocation made here does not collect.                        *)
Arithmetic ==
  /\ Runs(Operators)
  /\ \E c \in {Settle(Runtime, Arith(Current.op, Peek(1), Peek(0), heap))} :
       \/ /\ c.r.kind = "value"
          /\ Leaves(Append(Drop(2), c.r.v)) /\ Settled(c.m)
          /\ Quiet /\ UNCHANGED <<globals, upv, out>>
       \/ c.r.kind = "error" /\ FailEarly(c.r.e, Drop(1))

Negate ==
  /\ Runs({"Negate"})
  /\ \E r \in {Negative(Peek(0), heap)} :
       \/ r.kind = "value" /\ Leaves(Append(Drop(1), r.v)) /\ Quiet
          /\ UNCHANGED <<globals, upv, memory, out>>
       \/ r.kind = "error" /\ FailSynced(r.e)

Not ==
  /\ Runs({"Not"})
  /\ Leaves(Append(Drop(1), BoolV(~IsTruthy(Peek(0), heap))))
  /\ Quiet /\ UNCHANGED <<globals, upv, memory, out>>

(* compare_op; keep_rhs leaves the right operand for the next comparison   *)
(* of a chain.                                                             *)
CompareOp ==
  /\ Runs({"Compare"})
  /\ LET r == BoolV(Compare(Peek(1), Peek(0), heap) \in Accepts(Current.which))
     IN  Leaves(IF Current.keepRhs THEN Drop(2) \o <<Peek(0), r>> ELSE Append(Drop(2), r))
  /\ Quiet /\ UNCHANGED <<globals, upv, memory, out>>

-----------------------------------------------------------------------------
(* Control flow.                                                           *)
Jump ==
  /\ Runs({"Jump"})
  /\ ip' = Current.offset
  /\ Quiet /\ UNCHANGED <<stack, globals, upv, memory, out>>

JumpIf ==
  /\ Runs({"JumpIf"})
  /\ LET jumps == IsTruthy(Peek(0), heap) = Current.expected
         keeps == IF jumps THEN Current.keepJump ELSE Current.keepStay
     IN  /\ ip' = IF jumps THEN Current.offset ELSE ip + 1
         /\ stack' = IF keeps THEN stack ELSE Drop(1)
  /\ Quiet /\ UNCHANGED <<globals, upv, memory, out>>

(* The counter is read and written on the stack, whether or not a closure  *)
(* has captured it.  A step that is no integer counts as 1.  Past the end  *)
(* of the integers a debug build panics and a release build wraps.         *)
ForLoop ==
  /\ Runs({"ForLoop"})
  /\ LET current == stack[Slot(Current.control)]
         limit   == stack[Slot(Current.limit)]
         steps   == {stack[Slot(i)] : i \in Current.step}
         by      == IF \E v \in steps : v.t = "int" THEN (CHOOSE v \in steps : TRUE).i ELSE 1
         next    == Wrap(current.i + by)
         again   == IF Current.inclusive THEN next <= limit.i ELSE next < limit.i
     IN  \/ /\ current.t = "int" /\ limit.t = "int"
            /\ stack' = [stack EXCEPT ![Slot(Current.control)] = IntV(next)]
            /\ ip' = IF again THEN Current.body ELSE ip + 1
            /\ Quiet /\ UNCHANGED <<globals, upv, memory, out>>
         \/ /\ current.t = "int" /\ limit.t = "int"
            /\ next # current.i + by
            /\ Breaks
         \/ (current.t # "int" \/ limit.t # "int") /\ FailSynced("TypeError")

-----------------------------------------------------------------------------
(* Calls.                                                                  *)
Callee == Resolve(Peek(Current.argc), heap)
Args == SubSeq(stack, Len(stack) - Current.argc + 1, Len(stack))
TotalArgs == Len(Callee.curried) + Current.argc

(* The curried arguments go below those of the call.                       *)
AllArgs == Callee.curried \o Args
Synced == [frames EXCEPT ![Len(frames)].ip = ip + 1]

(* call_function returns a result which no root holds while it collects.   *)
ReturnsInHand(m, v) ==
  /\ LET st == Drop(Current.argc + 1)
     IN  /\ Leaves(IF Current.keep THEN Append(st, v) ELSE st)
         /\ MaybeGC(m, st, frames, upv)
  /\ frames' = Synced
  /\ UNCHANGED <<program, bytecode, status, fault, saved, globals, upv>>

CallValueBuiltin ==
  /\ Runs({"Call"})
  /\ Callee.t = "builtin"
  /\ \E c \in CallOutcomes(Callee.id, Args, Runtime) :
       \/ c.r.kind = "value" /\ ReturnsInHand(c.m, c.r.v)
       \/ /\ c.r.kind = "error" /\ c.r.e \notin {"Panic", "Endless"}
          /\ Fault("TypeError", ip)
          /\ stack' = Drop(Current.argc + 1)
          /\ MaybeGC(c.m, Drop(Current.argc + 1), frames, upv)
       \/ c.r.kind = "error" /\ c.r.e = "Panic" /\ Breaks
       \/ c.r.kind = "error" /\ c.r.e = "Endless" /\ Hangs

(* Fewer arguments than the arity: a new function that holds them.         *)
Curry ==
  /\ Runs({"Call"})
  /\ Callee.t = "fun"
  /\ TotalArgs < Callee.arity
  /\ ReturnsInHand(Allocate(Runtime, [Callee EXCEPT !.curried = @ \o Args]), RefV(nextKey))

(* The arguments are the first locals of the new frame, and none of them   *)
(* is captured; the slips are to begin it one below, at the callee, and    *)
(* to keep what the caller has captured.                                   *)
EnterFrame(below, captured) ==
  /\ Runs({"Call"})
  /\ Callee.t = "fun"
  /\ TotalArgs = Callee.arity
  /\ LET base  == Len(stack) - Current.argc
         st    == SubSeq(stack, 1, base) \o AllArgs
         frame == [chunk |-> Callee.chunk, ip |-> 0, fp |-> base - below, closure |-> stack[base],
                   ups |-> Callee.ups, captured |-> captured, discard |-> ~Current.keep]
         fr    == Append(Synced, frame)
     IN  /\ stack' = st
         /\ frames' = fr
         /\ saved' = Append(saved, SubSeq(stack, 1, base))
         /\ MaybeGC(Runtime, st, fr, upv)
  /\ ip' = 0
  /\ UNCHANGED <<program, bytecode, status, fault, globals, upv>>

CallFunctionAtCallee == EnterFrame(1, <<>>)
CallFunctionKeeping  == EnterFrame(0, Top.captured)
CallFunction         == EnterFrame(0, <<>>)

CallFails ==
  /\ Runs({"Call"})
  /\ \/ Callee.t \notin {"fun", "builtin"} /\ FailSynced("TypeError")
     \/ Callee.t = "fun" /\ TotalArgs > Callee.arity /\ FailSynced("TypeError")

Return ==
  /\ Runs({"Return"})
  /\ LET rest == Front(frames)
         st   == IF rest = <<>> THEN stack
                 ELSE UpTo(stack, Top.fp - 1) \o (IF Top.discard THEN <<>> ELSE <<Peek(0)>>)
     IN  /\ frames' = rest
         /\ stack' = st
         /\ saved' = Front(saved)
         /\ IF rest = <<>> THEN status' = "done" /\ UNCHANGED ip
            ELSE ip' = Last(rest).ip /\ UNCHANGED status
         /\ MaybeGC(Runtime, st, rest, upv)
  /\ UNCHANGED <<program, bytecode, fault, globals, upv>>

CallBuiltin ==
  /\ Runs({"CallBuiltin"})
  /\ \E c \in CallOutcomes(Current.builtin, Args, Runtime) :
       \/ /\ c.r.kind = "value"
          /\ LET rest == Drop(Current.argc)
                 st   == IF Current.keep THEN Append(rest, c.r.v) ELSE rest
             IN  Leaves(st) /\ MaybeGC(c.m, st, frames, upv)
          /\ Quiet /\ UNCHANGED <<globals, upv>>
       \/ /\ c.r.kind = "error" /\ c.r.e \notin {"Panic", "Endless"}
          /\ Fault("TypeError", ip)
          /\ Settled(c.m) /\ out' = c.m.out /\ UNCHANGED stack
       \/ c.r.kind = "error" /\ c.r.e = "Panic" /\ Breaks
       \/ c.r.kind = "error" /\ c.r.e = "Endless" /\ Hangs

-----------------------------------------------------------------------------
(* Vectors.                                                                *)
MakeArray ==
  /\ Runs({"MakeArray"})
  /\ LET es == SubSeq(stack, Len(stack) - Current.count + 1, Len(stack))
         st == Append(Drop(Current.count), RefV(nextKey))
     IN  Leaves(st) /\ MaybeGC(Allocate(Runtime, Vec(es)), st, frames, upv)
  /\ Quiet /\ UNCHANGED <<globals, upv>>

(* In place, and without counting towards the next collection.             *)
VectorAppend ==
  /\ Runs({"VectorAppend"})
  /\ LET n == Current.count
         v == Peek(n)
     IN  \/ /\ Resolve(v, heap).t = "vec"
            /\ heap' = [heap EXCEPT ![v.k].es =
                          @ \o SubSeq(stack, Len(stack) - n + 1, Len(stack))]
            /\ Leaves(Drop(n)) /\ Quiet
            /\ UNCHANGED <<globals, upv, nextKey, added, threshold, out>>
         \/ Resolve(v, heap).t # "vec" /\ FailEarly("TypeError", stack)

GetIndex ==
  /\ Runs({"GetIndex"})
  /\ \E c \in {Settle(Runtime, Index(Peek(1), Peek(0), heap))} :
       \/ /\ c.r.kind = "value"
          /\ Leaves(Append(Drop(2), c.r.v)) /\ Settled(c.m)
          /\ Quiet /\ UNCHANGED <<globals, upv, out>>
       \/ c.r.kind = "error" /\ FailSynced(c.r.e)

(* The container stays on the stack.                                       *)
SetIndex ==
  /\ Runs({"SetIndex"})
  /\ LET errors == IndexMutErrors(Peek(2), Peek(1), heap)
     IN  \/ /\ errors = {}
            /\ heap' = [heap EXCEPT ![Peek(2).k].es[Peek(1).i + 1] = Peek(0)]
            /\ Leaves(Drop(2)) /\ Quiet
            /\ UNCHANGED <<globals, upv, nextKey, added, threshold, out>>
         \/ \E e \in errors : FailSynced(e)

-----------------------------------------------------------------------------
(* The cells of the upvalue descriptors in turn: the frame's cell of a     *)
(* local, made when the local is captured for the first time in the frame, *)
(* or a cell of the running function.  Slip: only a new cell is handed on. *)
CaptureOneOnce(acc, d) ==
  CASE ~d.isLocal -> [acc EXCEPT !.ups = Append(@, Top.ups[d.index + 1])]
    [] d.isLocal /\ d.index \in DOMAIN acc.captured -> acc
    [] OTHER ->
         LET c == Len(acc.upv) + 1
         IN  [upv |-> Append(acc.upv, stack[Slot(d.index)]),
              captured |-> Plus(acc.captured, d.index, c),
              ups |-> Append(acc.ups, c)]

CaptureOne(acc, d) ==
  CASE ~d.isLocal -> [acc EXCEPT !.ups = Append(@, Top.ups[d.index + 1])]
    [] d.isLocal /\ d.index \in DOMAIN acc.captured ->
         [acc EXCEPT !.ups = Append(@, acc.captured[d.index])]
    [] OTHER ->
         LET c == Len(acc.upv) + 1
         IN  [upv |-> Append(acc.upv, stack[Slot(d.index)]),
              captured |-> Plus(acc.captured, d.index, c),
              ups |-> Append(acc.ups, c)]

CaptureAll(descs) ==
  LET after[n \in 0 .. Len(descs)] ==
        IF n = 0 THEN [upv |-> upv, captured |-> Top.captured, ups |-> <<>>]
        ELSE CaptureOne(after[n - 1], descs[n])
  IN  after[Len(descs)]

(* The function constant is pinned, so that its lookup succeeds.           *)
Closure ==
  /\ Runs({"Closure"})
  /\ LET c  == CaptureAll(Current.upvalues)
         fr == [frames EXCEPT ![Len(frames)].captured = c.captured]
         st == Append(stack, RefV(nextKey))
         f  == [heap[ConstantKey(Current.index)] EXCEPT !.ups = c.ups]
     IN  /\ Leaves(st)
         /\ frames' = fr
         /\ upv' = c.upv
         /\ MaybeGC(Allocate(Runtime, f), st, fr, c.upv)
  /\ UNCHANGED <<program, bytecode, status, fault, saved, globals>>

-----------------------------------------------------------------------------
(* The instructions that cannot run: with too little on the stack.  Only   *)
(* VectorAppend returns without writing ip back.                           *)
Underflow ==
  /\ status = "run"
  /\ Len(stack) < Checked(Current)
  /\ Fault("Internal", IF Current.op = "VectorAppend" THEN Top.ip ELSE ip)
  /\ UNCHANGED <<stack, memory, out>>

Broken ==
  /\ status = "run"
  /\ Len(stack) >= Checked(Current)
  /\ ~Valid(Current)
  /\ Breaks

Halted == status # "run" /\ UNCHANGED vars

Next ==
  \/ Constant \/ Pop \/ Duplicate \/ GetGlobal \/ SetGlobal \/ GetLocal \/ SetLocal
  \/ GetBuiltin \/ GetUpvalue \/ SetUpvalue
  \/ Arithmetic \/ Negate \/ Not \/ CompareOp
  \/ Jump \/ JumpIf \/ ForLoop
  \/ CallValueBuiltin \/ Curry \/ CallFunction \/ CallFails \/ Return \/ CallBuiltin
  \/ MakeArray \/ VectorAppend \/ GetIndex \/ SetIndex \/ Closure
  \/ Underflow \/ Broken \/ Halted

Spec == Init /\ [][Next]_vars

(* One thread: while the program runs, the next instruction is executed.   *)
(* This is WF_vars(Next), with ENABLED Next written out: some instruction  *)
(* can be executed exactly while the program runs.                         *)
FairSpec == Spec /\ (<>[](status # "run") \/ []<><<Next>>_vars)

-----------------------------------------------------------------------------
Object ==
  [t : {"vec"}, es : Seq(Value)] \cup [t : {"str"}, s : Seq(Nat)]
  \cup [t : {"name"}, name : STRING] \cup [t : {"builtin"}, id : Range(BuiltinIds)]
  \cup [t : {"fun"}, chunk : Nat, arity : Nat, curried : Seq(Value),
        ups : Seq(DOMAIN upv)]

TypeOK ==
  /\ ip \in Nat /\ nextKey \in Nat /\ added \in Nat /\ threshold \in Nat \ {0}
  /\ \A f \in Range(frames) :
       /\ f.chunk \in Nat /\ f.ip \in Nat /\ f.fp \in Nat
       /\ f.closure \in Value /\ f.ups \in Seq(DOMAIN upv) /\ Range(f.captured) \subseteq DOMAIN upv
  /\ stack \in Seq(Value) /\ upv \in Seq(Value)
  /\ Range(globals) \subseteq Value
  /\ \A k \in DOMAIN heap : k \in Nat /\ k < nextKey /\ heap[k] \in Object
  /\ status \in {"run", "done", "error", "endless", "invalid"}
  /\ Len(saved) = Len(frames)

(* What the compiler and the optimizer hand over is well-formed: every     *)
(* jump leads into its chunk, no path runs off the end of one, and every   *)
(* constant and builtin an instruction names is there (`compiler           *)
(* invariant', `typed index is within bounds by construction').            *)
ProgramWellFormed == WellFormed(bytecode, Range(BuiltinIds))

(* What the compiler reckons of the stack is so on every path: one height  *)
(* at each instruction, enough of it for what the instruction takes, reads *)
(* and names, a result when a function returns, nothing left when the      *)
(* program does; and a closure is made with the upvalues that its code     *)
(* names (`All indices come from the compiler that is considered           *)
(* infallible by the VM').  Bytecode does not change: it is looked at when *)
(* a chunk begins.                                                         *)
ProgramVerified == ip = 0 => Verified(bytecode)

(* No instruction reaches below the frame it belongs to, for an operand, a *)
(* slot or the value it returns.                                           *)
WithinFrame ==
  status = "run" /\ ~(Current.op = "Return" /\ Len(frames) = 1)
    => Suffices(Current, Len(stack) - Top.fp)

(* The function that runs carries every upvalue its instruction names,     *)
(* however it came to be called: made by a closure in a frame long gone,   *)
(* stored, handed on, applied in part (`upvalue index is within the        *)
(* captured upvalues').                                                    *)
UpvaluesInRange == status = "run" => \A u \in UpvaluesUsed(Current) : u < Len(Top.ups)

(* A call leaves everything below it on the stack as it was, through every *)
(* return, error, collection and nested call: a callee that pops too much  *)
(* or writes a slot of its caller would show here.                         *)
CallerStackIntact ==
  status \in {"run", "done"} =>
    \A n \in DOMAIN saved : IsPrefix(saved[n], stack)

(* No use after free in a running program: what the roots or a live cell   *)
(* refer to is live.  Not so once a call through a value has lost its      *)
(* result (run HeapLostResult).                                            *)
EveryReferenceLive ==
  RootKeys(stack, frames, upv) \cup UNION {RefsOf(heap[k], upv) : k \in DOMAIN heap}
    \subseteq DOMAIN heap

(* A call through a value hands back a result that is live: nothing roots  *)
(* the result while the call collects.  The one way to a dangling          *)
(* reference (THEOREM EveryReferenceStaysLive).                            *)
HandsBack == (CallValueBuiltin \/ Curry) /\ status' = "run" /\ Current.keep
LosesResult == HandsBack /\ Last(stack').t = "ref" /\ Last(stack').k \notin DOMAIN heap'
ResultsHandedBack == [][~LosesResult]_vars

(* A program that ends has taken everything it put on the stack.           *)
BalancedAtEnd == status = "done" => stack = <<>>

(* The compiler emits no index that is out of range when it is used, and   *)
(* no builtin is handed a dead reference (`All indices come from the       *)
(* compiler that is considered infallible by the VM').                     *)
NeverInvalid == status # "invalid"

(* An error is reported at the instruction that failed.                    *)
ErrorLocated == status = "error" => fault.reported = fault.at

(* After a ForLoop step the counter's cell, if a closure captured it,      *)
(* holds the value the stack slot holds: GetLocal takes the cell for the   *)
(* authoritative value.                                                    *)
CellFollowsCounter ==
  [][ForLoop /\ status' = "run" /\ IsCaptured(Current.control)
       => upv'[Top.captured[Current.control]] = stack'[Slot(Current.control)]]_vars

(* In-place append is for a vector nobody else holds: its key is in the    *)
(* local's slot and just pushed from there, and nowhere else.              *)
Inside(o) ==
  CASE o.t = "vec" -> Range(o.es) [] o.t = "fun" -> Range(o.curried) [] OTHER -> {}
Holders(v) ==
  Cardinality({j \in DOMAIN stack : stack[j] = v}) + Cardinality({j \in DOMAIN upv : upv[j] = v})
  + Cardinality({g \in DOMAIN globals : globals[g] = v})
  + Cardinality({k \in DOMAIN heap : v \in Inside(heap[k])})
AppendExclusive ==
  [][VectorAppend /\ status' = "run" => Holders(Peek(Current.count)) <= 2]_vars
=============================================================================
