------------------------------ MODULE Compiler ------------------------------
(***************************************************************************)
(* The compiler from syntax trees to bytecode (l3_compiler/src: lib.rs,    *)
(* compile.rs, context.rs, alias.rs and fold.rs).                          *)
(*                                                                         *)
(* A syntax tree is a record with its kind in `k' (l3_ast).  The compiler  *)
(* state is a record                                                       *)
(*   c = [chunks, consts, contexts, loops, error]                          *)
(* and each compile_ function of the code is an operator that takes one    *)
(* and gives the next.  A compile error stays in `error', and ends the     *)
(* compilation.  Source locations are left out.                            *)
(***************************************************************************)
EXTENDS Builtins

(* Syntax trees.                                                           *)
Lit(v)             == [k |-> "lit", v |-> v]
Num(n)             == Lit(IntV(n))
Arr(es)            == [k |-> "arr", es |-> es]
Var(name)          == [k |-> "var", name |-> name]
Idx(base, index)   == [k |-> "idx", base |-> base, index |-> index]
CallE(name, args)  == [k |-> "call", name |-> name, args |-> args]
Bin(op, l, r)      == [k |-> "bin", op |-> op, l |-> l, r |-> r]
Un(op, e)          == [k |-> "un", op |-> op, e |-> e]
Log(op, l, r)      == [k |-> "log", op |-> op, l |-> l, r |-> r]
Cmp(start, rest)   == [k |-> "cmp", start |-> start, rest |-> rest]
ElIf(cond, then)   == [cond |-> cond, then |-> then]
If(cond, then, elifs, els) ==
  [k |-> "if", cond |-> cond, then |-> then, elifs |-> elifs, els |-> els]
Fn(params, body)   == [k |-> "fn", params |-> params, body |-> body]
None               == [k |-> "none"]

Let(names, mutable, init) == [k |-> "let", names |-> names, mutable |-> mutable, init |-> init]
FnDef(name, params, body) == [k |-> "fndef", name |-> name, params |-> params, body |-> body]
While(cond, body) == [k |-> "while", cond |-> cond, body |-> body]
For(var, coll, body) == [k |-> "for", var |-> var, mutable |-> FALSE, coll |-> coll, body |-> body]
ForRange(var, from, to, step, inclusive, body) ==
  [k |-> "range", var |-> var, mutable |-> FALSE, from |-> from, to |-> to, step |-> step,
   inclusive |-> inclusive, body |-> body]
Assign(name, e) == [k |-> "assign", name |-> name, e |-> e]
OpAssign(target, op, e) == [k |-> "opassign", target |-> target, op |-> op, e |-> e]

Ret(e)    == [k |-> "return", e |-> e]
Break     == [k |-> "break"]
Continue  == [k |-> "continue"]
Block(body) == [k |-> "block", body |-> body, last |-> None]
BlockEnd(body, last) == [k |-> "block", body |-> body, last |-> last]

AllBuiltins ==
  {"print", "println", "assert", "error", "int", "str", "len", "head", "tail", "drop",
   "take", "range", "id", "map", "count", "random", "input", "sleep", "sum"}

-----------------------------------------------------------------------------
(* Emission.                                                               *)
Ctx(c) == Last(c.contexts)
Here(c) == Len(c.chunks[Ctx(c).chunk + 1].code)
EmitAll(c, is) == [c EXCEPT !.chunks[Ctx(c).chunk + 1].code = @ \o is]
Emit(c, i) == EmitAll(c, <<i>>)
Patch(c, at, offset) == [c EXCEPT !.chunks[Ctx(c).chunk + 1].code[at + 1].offset = offset]
PatchEach(c, ats, offset) == FoldLeft(LAMBDA d, at : Patch(d, at, offset), c, ats)

Ins(op)           == [op |-> op]
At(op, index)     == [op |-> op, index |-> index]
Many(op, count)   == [op |-> op, count |-> count]
JumpTo(offset)    == [op |-> "Jump", offset |-> offset]
Branch(expected, keepStay, keepJump) ==
  [op |-> "JumpIf", offset |-> 0, expected |-> expected, keepStay |-> keepStay,
   keepJump |-> keepJump]
Comparing(which, keepRhs) == [op |-> "Compare", which |-> which, keepRhs |-> keepRhs]

(* make_constant: equal data share an entry.  A name the bytecode refers   *)
(* to is a string constant of the program.                                 *)
Name(n) == [t |-> "name", name |-> n]
WithConst(c, data) ==
  IF \E j \in DOMAIN c.consts : c.consts[j] = data THEN c
  ELSE [c EXCEPT !.consts = Append(@, data)]
ConstIndex(c, data) == (CHOOSE j \in DOMAIN c.consts : c.consts[j] = data) - 1
PushConst(c, data) ==
  LET d == WithConst(c, data) IN Emit(d, At("Constant", ConstIndex(d, data)))

-----------------------------------------------------------------------------
(* Scopes and names.  Slots count from 0; NoSlot when there is no such     *)
(* local.                                                                  *)
NoSlot == -1
SlotsOf(ctx, name) == {j - 1 : j \in {i \in DOMAIN ctx.locals : ctx.locals[i].name = name}}
LastSlot(ctx, name)  == IF SlotsOf(ctx, name) = {} THEN NoSlot ELSE Max(SlotsOf(ctx, name))
FirstSlot(ctx, name) == IF SlotsOf(ctx, name) = {} THEN NoSlot ELSE Min(SlotsOf(ctx, name))

AddLocal(c, name, mutable, aliased) ==
  [c EXCEPT !.contexts[Len(c.contexts)].locals =
     Append(@, [name |-> name, depth |-> Ctx(c).depth, mutable |-> mutable,
                aliased |-> aliased])]
NextSlot(c) == Len(Ctx(c).locals)

PushContext(c) ==
  [c EXCEPT !.chunks = Append(@, [code |-> <<>>]),
            !.contexts = Append(@, [locals |-> <<>>, ups |-> <<>>,
                                    chunk |-> Len(c.chunks), depth |-> 0])]
PopContext(c) == [c EXCEPT !.contexts = Front(@)]

BeginScope(c) == [c EXCEPT !.contexts[Len(c.contexts)].depth = @ + 1]

(* The trailing locals deeper than the scope that is left go, on the stack *)
(* `short' fewer than in the scope.                                        *)
LeaveScope(c, short) ==
  LET n     == Len(c.contexts)
      depth == Ctx(c).depth - 1
      kept  == Max({0} \cup {j \in DOMAIN Ctx(c).locals : Ctx(c).locals[j].depth <= depth})
      count == Len(Ctx(c).locals) - kept - short
      d     == [c EXCEPT !.contexts[n].depth = depth,
                         !.contexts[n].locals = SubSeq(@, 1, kept)]
  IN  IF count > 0 THEN Emit(d, Many("Pop", count)) ELSE d

EndScopeShort(c) == LeaveScope(c, 1)   (* a slip *)
EndScope(c) == LeaveScope(c, 0)

(* resolve_variable: a local of this context, the last of that name; else  *)
(* a local of the enclosing context, the first of that name, as an         *)
(* upvalue; else a global.                                                 *)
Outer(c) == c.contexts[Len(c.contexts) - 1]
Nested(c) == Len(c.contexts) >= 2

ResolveVariable(c, name) ==
  LET n     == Len(c.contexts)
      ups   == Ctx(c).ups
      taken == {j \in DOMAIN ups : /\ ups[j].isLocal
                                   /\ ups[j].index < Len(Outer(c).locals)
                                   /\ Outer(c).locals[ups[j].index + 1].name = name}
      outer == FirstSlot(Outer(c), name)
  IN  CASE LastSlot(Ctx(c), name) # NoSlot ->
             [c |-> c, kind |-> "Local", index |-> LastSlot(Ctx(c), name)]
        [] LastSlot(Ctx(c), name) = NoSlot /\ ~Nested(c) -> [c |-> c, kind |-> "Global"]
        [] OTHER ->
             IF taken # {} THEN [c |-> c, kind |-> "Upvalue", index |-> Min(taken) - 1]
             ELSE IF outer = NoSlot THEN [c |-> c, kind |-> "Global"]
             ELSE [c |-> [c EXCEPT !.contexts[n - 1].locals[outer + 1].aliased = TRUE,
                                   !.contexts[n].ups =
                                      Append(@, [isLocal |-> TRUE, index |-> outer])],
                   kind |-> "Upvalue", index |-> Len(ups)]

(* binding_mutability, as the set of its answers: none for a global.       *)
BindingMutability(c, name) ==
  LET bound == {n \in DOMAIN c.contexts : LastSlot(c.contexts[n], name) # NoSlot}
  IN  IF bound = {} THEN {}
      ELSE LET ctx == c.contexts[Max(bound)] IN {ctx.locals[LastSlot(ctx, name) + 1].mutable}

EnsureMutable(c, name) ==
  IF BindingMutability(c, name) = {FALSE} THEN [c EXCEPT !.error = "immutable"] ELSE c

EmitAccess(c, name, access) ==
  LET r == ResolveVariable(c, name)
      d == WithConst(r.c, Name(name))
  IN  CASE r.kind # "Global" -> Emit(r.c, At(access \o r.kind, r.index))
        [] access = "Get" /\ name \in AllBuiltins ->
             Emit(r.c, [op |-> "GetBuiltin", builtin |-> name])
        [] OTHER -> Emit(d, [op |-> access \o "Global", name |-> name])

EmitGet(c, name) == EmitAccess(c, name, "Get")
EmitSet(c, name) == EmitAccess(c, name, "Set")

-----------------------------------------------------------------------------
(* Alias tracking.  The names whose values an expression may share, and    *)
(* whether a name occurs in one.                                           *)
RECURSIVE Mentions(_), MentionsInBlock(_)

MentionsInAll(es) == UNION {Mentions(es[j]) : j \in DOMAIN es}
MentionsIfSome(x) == IF x = None THEN {} ELSE Mentions(x)

Mentions(x) ==
  CASE x.k = "var"  -> {x.name}
    [] x.k = "idx"  -> Mentions(x.base) \cup Mentions(x.index)
    [] x.k = "call" -> {x.name} \cup MentionsInAll(x.args)
    [] x.k \in {"bin", "log"} -> Mentions(x.l) \cup Mentions(x.r)
    [] x.k = "un"   -> Mentions(x.e)
    [] x.k = "cmp"  -> Mentions(x.start) \cup MentionsInAll([j \in DOMAIN x.rest |-> x.rest[j].e])
    [] x.k = "if"   -> Mentions(x.cond) \cup MentionsInBlock(x.then) \cup MentionsInBlock(x.els)
                       \cup UNION {Mentions(x.elifs[j].cond) \cup MentionsInBlock(x.elifs[j].then)
                                    : j \in DOMAIN x.elifs}
    [] x.k = "arr"  -> MentionsInAll(x.es)
    [] OTHER        -> {}

MentionsInStatement(s) ==
  CASE s.k = "let"    -> MentionsIfSome(s.init)
    [] s.k = "call"   -> MentionsInAll(s.args)
    [] s.k = "if"     -> Mentions(s)
    [] s.k = "while"  -> Mentions(s.cond) \cup MentionsInBlock(s.body)
    [] s.k = "for"    -> Mentions(s.coll) \cup MentionsInBlock(s.body)
    [] s.k = "range"  -> Mentions(s.from) \cup Mentions(s.to) \cup MentionsIfSome(s.step)
                         \cup MentionsInBlock(s.body)
    [] s.k \in {"assign", "opassign"} -> Mentions(s.e)
    [] OTHER          -> {}

MentionsInBlock(b) ==
  IF b = None THEN {}
  ELSE UNION {MentionsInStatement(b.body[j]) : j \in DOMAIN b.body}
       \cup (IF b.last.k = "return" THEN MentionsIfSome(b.last.e) ELSE {})

(* mark_referenced_aliased for each of the names: the local of this        *)
(* context, or the first one of the enclosing context.                     *)
Marked(c, names) ==
  LET n     == Len(c.contexts)
      here  == {LastSlot(Ctx(c), x) : x \in names}
      there == {FirstSlot(Outer(c), x) : x \in {y \in names : LastSlot(Ctx(c), y) = NoSlot}}
      Mark(locals, slots) ==
        [j \in DOMAIN locals |-> [locals[j] EXCEPT !.aliased = @ \/ (j - 1) \in slots]]
      d     == [c EXCEPT !.contexts[n].locals = Mark(@, here)]
  IN  IF Nested(c) THEN [d EXCEPT !.contexts[n - 1].locals = Mark(@, there)] ELSE d

MarkedIn(c, e) == Marked(c, Mentions(e))

(* set_local_aliased(name, true)                                           *)
SetAliased(c, name) ==
  LET s == LastSlot(Ctx(c), name)
  IN  IF s = NoSlot THEN c ELSE [c EXCEPT !.contexts[Len(c.contexts)].locals[s + 1].aliased = TRUE]

RECURSIVE RefersTo(_, _)
RefersTo(e, name) ==
  CASE e.k = "var"  -> e.name = name
    [] e.k = "idx"  -> RefersTo(e.base, name) \/ RefersTo(e.index, name)
    [] e.k = "call" -> e.name = name \/ \E j \in DOMAIN e.args : RefersTo(e.args[j], name)
    [] e.k \in {"bin", "log"} -> RefersTo(e.l, name) \/ RefersTo(e.r, name)
    [] e.k = "un"   -> RefersTo(e.e, name)
    [] e.k = "cmp"  -> RefersTo(e.start, name) \/ \E j \in DOMAIN e.rest : RefersTo(e.rest[j].e, name)
    [] e.k = "arr"  -> \E j \in DOMAIN e.es : RefersTo(e.es[j], name)
    [] e.k \in {"if", "fn"} -> TRUE
    [] OTHER        -> FALSE

-----------------------------------------------------------------------------
(* Constant folding: the constant an expression stands for, in a set, or   *)
(* none.                                                                   *)
IsPrimitive(d) == d.t \in {"int", "bool", "dbl"}

RECURSIVE Folded(_)
Folded(e) ==
  CASE e.k = "lit" -> {e.v}
    [] e.k = "un" /\ e.op = "Plus" -> Folded(e.e)
    [] e.k = "un" /\ e.op = "Negate" ->
         {Negative(d, <<>>).v : d \in {x \in Folded(e.e) : IsPrimitive(x)}}
    [] e.k = "un" /\ e.op = "Not" ->
         {BoolV(~IsTruthy(d, <<>>)) : d \in {x \in Folded(e.e) : IsPrimitive(x) \/ x = NilV}}
    [] e.k = "bin" ->
         {r.v : r \in {x \in {ArithPrimitive(e.op, p[1], p[2]) :
                                p \in {q \in Folded(e.l) \X Folded(e.r) :
                                         IsPrimitive(q[1]) /\ IsPrimitive(q[2])}} :
                         x.kind = "value"}}
         \cup {Str(p[1].s \o p[2].s) :
                 p \in {q \in Folded(e.l) \X Folded(e.r) :
                          e.op = "Add" /\ q[1].t = "str" /\ q[2].t = "str"}}
    [] OTHER -> {}

-----------------------------------------------------------------------------
(* An expression, a statement or a block.                                  *)
RECURSIVE CompileNode(_, _)

CompileAll(c, es) == FoldLeft(LAMBDA d, e : CompileNode(d, e), c, es)
CompileShared(c, es) == FoldLeft(LAMBDA d, e : CompileNode(MarkedIn(d, e), e), c, es)

(* if_statement and if_expr: the elif branches are parsed, not compiled.   *)
CompileIf(c, x) ==
  LET tested  == CompileNode(c, x.cond)
      toElse  == Here(tested)
      inThen  == CompileNode(Emit(Emit(tested, Branch(FALSE, TRUE, FALSE)), Many("Pop", 1)),
                              x.then)
      toEnd   == Here(inThen)
      atElse  == Patch(Emit(inThen, JumpTo(0)), toElse, toEnd + 1)
      atEnd   == IF x.els = None THEN atElse ELSE CompileNode(atElse, x.els)
  IN  Patch(atEnd, toEnd, Here(atEnd))

(* A function body in a chunk of its own, then the function's constant or  *)
(* a closure over it.                                                      *)
CompileFunction(c, params, body) ==
  LET begun == FoldLeft(LAMBDA d, p : SetAliased(AddLocal(d, p, TRUE, FALSE), p),
                        PushContext(c), params)
      block == CompileNode(begun, body)
      ended == Emit(IF body.last.k = "return" THEN block ELSE PushConst(block, NilV),
                    Ins("Return"))
      ups   == Ctx(ended).ups
      f     == Fun(Ctx(ended).chunk, Len(params), <<>>, <<>>)
      back  == WithConst(PopContext(ended), f)
  IN  IF ups = <<>> THEN Emit(back, At("Constant", ConstIndex(back, f)))
      ELSE Emit(back, [op |-> "Closure", index |-> ConstIndex(back, f), upvalues |-> ups])

(* A builtin name nothing in scope shadows is called without a lookup.     *)
CompileCall(c, x, keep) ==
  IF x.name \in AllBuiltins /\ BindingMutability(c, x.name) = {}
  THEN Emit(CompileShared(c, x.args),
            [op |-> "CallBuiltin", builtin |-> x.name, argc |-> Len(x.args), keep |-> keep])
  ELSE Emit(CompileShared(EmitGet(c, x.name), x.args),
            [op |-> "Call", argc |-> Len(x.args), keep |-> keep])

CompileLogical(c, x) ==
  LET left  == CompileNode(c, x.l)
      right == CompileNode(Emit(left, Branch(x.op = "or", FALSE, TRUE)), x.r)
  IN  Patch(right, Here(left), Here(right))

(* A chain of comparisons: each but the last keeps its right operand, and  *)
(* leaves by a jump to the clean-up when it is false.                      *)
CompileComparison(c, x) ==
  LET Link(acc, j) ==
        LET last == j = Len(x.rest)
            d    == Emit(CompileNode(acc.c, x.rest[j].e), Comparing(x.rest[j].op, ~last))
        IN  IF last THEN [acc EXCEPT !.c = d]
            ELSE [c |-> Emit(d, Branch(FALSE, FALSE, TRUE)), exits |-> Append(acc.exits, Here(d))]
      chain   == FoldLeft(Link, [c |-> CompileNode(c, x.start), exits |-> <<>>],
                          [j \in DOMAIN x.rest |-> j])
      toEnd   == Here(chain.c)
      cleanup == Emit(PatchEach(Emit(chain.c, JumpTo(0)), chain.exits, toEnd + 1),
                      Many("Pop", 2))
      end     == PushConst(cleanup, BoolV(FALSE))
  IN  Patch(end, toEnd, Here(end))

-----------------------------------------------------------------------------
(* Loops.                                                                  *)
PushLoop(c) ==
  [c EXCEPT !.loops = Append(@, [breaks |-> <<>>, continues |-> <<>>,
                                 locals |-> NextSlot(c), chunk |-> Ctx(c).chunk])]
PopLoop(c, exit, again) ==
  LET loop == Last(c.loops)
  IN  [PatchEach(PatchEach(c, loop.breaks, exit), loop.continues, again)
         EXCEPT !.loops = Front(@)]

CompileWhile(c, s) ==
  LET start  == Here(c)
      tested == CompileNode(PushLoop(c), s.cond)
      body   == CompileNode(Emit(Emit(tested, Branch(FALSE, TRUE, FALSE)), Many("Pop", 1)),
                             s.body)
      end    == Emit(body, JumpTo(start))
  IN  PopLoop(Patch(end, Here(tested), Here(end)), Here(end), start)

(* The index of a loop over a collection goes up by one; the slip is to    *)
(* store the one.                                                          *)
AdvanceToOne(c, slot) == Emit(PushConst(c, IntV(1)), At("SetLocal", slot))
Advance(c, slot) ==
  EmitAll(PushConst(Emit(c, At("GetLocal", slot)), IntV(1)),
           <<Ins("Add"), At("SetLocal", slot)>>)

(* The loop over a collection; its variables stay until the enclosing      *)
(* scope ends.                                                             *)
CompileFor(c, s) ==
  LET var    == NextSlot(c)
      opened == CompileNode(
                  MarkedIn(AddLocal(PushConst(c, NilV), s.var, s.mutable, TRUE), s.coll), s.coll)
      zeroed == PushConst(AddLocal(opened, "__collection__", TRUE, TRUE), IntV(0))
      sized  == Emit(Emit(AddLocal(zeroed, "__index__", TRUE, FALSE), At("GetLocal", var + 1)),
                     [op |-> "CallBuiltin", builtin |-> "len", argc |-> 1, keep |-> TRUE])
      begun  == PushLoop(AddLocal(sized, "__length__", TRUE, FALSE))
      bound  == EmitAll(begun,
                  <<At("GetLocal", var + 2), At("GetLocal", var + 3), Comparing("Less", FALSE),
                    Branch(FALSE, FALSE, FALSE),
                    At("GetLocal", var + 1), At("GetLocal", var + 2), Ins("GetIndex"),
                    At("SetLocal", var)>>)
      body   == CompileNode(bound, s.body)
      next   == Emit(Advance(body, var + 2), JumpTo(Here(begun)))
  IN  PopLoop(Patch(next, Here(begun) + 3, Here(next)), Here(next), Here(body))

(* The loop over a range; the step expression is compiled twice.           *)
CompileRange(c, s) ==
  LET var     == NextSlot(c)
      Step(d) == IF s.step = None THEN PushConst(d, IntV(1)) ELSE CompileNode(d, s.step)
      from    == CompileNode(AddLocal(PushConst(c, NilV), s.var, s.mutable, TRUE), s.from)
      set     == Emit(Emit(Step(from), Ins("Subtract")), At("SetLocal", var))
      limited == AddLocal(CompileNode(set, s.to), "__limit__", TRUE, TRUE)
      begun   == PushLoop(AddLocal(Step(limited), "__step__", TRUE, TRUE))
      loop    == Here(begun)
      looped  == Emit(begun, [op |-> "ForLoop", control |-> var, limit |-> var + 1,
                              step |-> {var + 2}, inclusive |-> s.inclusive, body |-> loop + 2])
      end     == Emit(CompileNode(Emit(looped, JumpTo(0)), s.body), JumpTo(loop))
  IN  PopLoop(Patch(end, loop + 1, Here(end)), Here(end), loop)

(* break and continue drop the locals of the body and jump; the innermost  *)
(* loop of the same chunk patches the jump when it is done.                *)
LeaveBody(c, keyword, drops) ==
  LET mine  == {j \in DOMAIN c.loops : c.loops[j].chunk = Ctx(c).chunk}
      j     == Max(mine)
      count == NextSlot(c) - c.loops[j].locals
      d     == IF drops /\ count > 0 THEN Emit(c, Many("Pop", count)) ELSE c
      e     == Emit(d, JumpTo(0))
  IN  CASE mine = {} -> [c EXCEPT !.error = keyword]
        [] mine # {} /\ keyword = "break"    -> [e EXCEPT !.loops[j].breaks = Append(@, Here(d))]
        [] mine # {} /\ keyword = "continue" -> [e EXCEPT !.loops[j].continues = Append(@, Here(d))]

LoopControlKeeping(c, keyword) == LeaveBody(c, keyword, FALSE)   (* a slip *)
CompileLoopControl(c, keyword) == LeaveBody(c, keyword, TRUE)

-----------------------------------------------------------------------------
(* Declarations and assignments.                                           *)
CompileLet(c, s) ==
  LET value  == IF s.init = None THEN PushConst(c, NilV)
                ELSE CompileNode(MarkedIn(c, s.init), s.init)
      source == NextSlot(value)
      hidden == AddLocal(value, "<destructure>", FALSE, TRUE)
      Extract(d, j) ==
        AddLocal(Emit(PushConst(Emit(d, At("GetLocal", source)), IntV(j - 1)), Ins("GetIndex")),
                 s.names[j], s.mutable, TRUE)
      fresh  == s.init.k \in {"lit", "arr"}
  IN  IF Len(s.names) > 1 THEN FoldLeft(Extract, hidden, [j \in DOMAIN s.names |-> j])
      ELSE AddLocal(value, s.names[1], s.mutable, ~fresh)

(* A function at top level is a global as well.                            *)
CompileNamedFunction(c, s) ==
  LET slot == NextSlot(c)
      d    == CompileFunction(AddLocal(PushConst(c, NilV), s.name, FALSE, FALSE),
                              s.params, s.body)
      set  == Emit(d, At("SetLocal", slot))
  IN  IF Nested(c) THEN set
      ELSE Emit(Emit(WithConst(set, Name(s.name)), At("GetLocal", slot)),
                [op |-> "SetGlobal", name |-> s.name])

(* v = v + [es] and v += [es] append in place when v is a local no other   *)
(* reference is known to share and es do not mention v; the slip is not to *)
(* ask whether it is shared.                                               *)
CanAppendShared(c, name, e) ==
  /\ e.k = "arr"
  /\ LastSlot(Ctx(c), name) # NoSlot
  /\ \A j \in DOMAIN e.es : ~RefersTo(e.es[j], name)
CanAppend(c, name, e) ==
  /\ CanAppendShared(c, name, e)
  /\ ~Ctx(c).locals[LastSlot(Ctx(c), name) + 1].aliased

CompileAppend(c, name, es) ==
  LET s == LastSlot(Ctx(c), name)
  IN  Emit(Emit(CompileShared(Emit(c, At("GetLocal", s)), es), Many("VectorAppend", Len(es))),
           At("SetLocal", s))

CompileAssign(c, s) ==
  LET d      == EnsureMutable(c, s.name)
      fresh  == s.e.k \in {"lit", "arr"}
      value  == CompileNode(MarkedIn(d, s.e), s.e)
  IN  IF s.e.k = "bin" /\ s.e.op = "Add" /\ s.e.l = Var(s.name) /\ CanAppend(d, s.name, s.e.r)
      THEN CompileAppend(d, s.name, s.e.r.es)
      ELSE EmitSet(IF fresh THEN value ELSE SetAliased(value, s.name), s.name)

CompileOpAssign(c, s) ==
  LET name  == s.target.name
      d     == EnsureMutable(c, name)
      value == CompileNode(EmitGet(MarkedIn(d, s.e), name), s.e)
  IN  IF s.op = "Add" /\ CanAppend(d, name, s.e) THEN CompileAppend(d, name, s.e.es)
      ELSE EmitSet(Emit(value, Ins(s.op)), name)

CompileIndexAssign(c, s) ==
  LET place == CompileAll(MarkedIn(c, s.e), <<s.target.base, s.target.index>>)
      old   == EmitAll(place, <<At("Duplicate", 1), At("Duplicate", 1), Ins("GetIndex")>>)
      value == IF s.op = "Assign" THEN CompileNode(place, s.e)
               ELSE Emit(CompileNode(old, s.e), Ins(s.op))
  IN  Emit(Emit(value, Ins("SetIndex")), Many("Pop", 1))

(* At top level a return leaves its value and goes on.                     *)
CompileLast(c, last) ==
  LET value == IF last.e = None THEN PushConst(c, NilV) ELSE CompileNode(c, last.e)
  IN  CASE last.k = "none"   -> c
        [] last.k = "return" -> IF Nested(c) THEN Emit(value, Ins("Return")) ELSE value
        [] OTHER             -> CompileLoopControl(c, last.k)

(* A block that ends in a return does not leave its scope.                 *)
CompileBlock(c, b) ==
  LET Statement(d, s) == IF s.k = "call" THEN CompileCall(d, s, FALSE) ELSE CompileNode(d, s)
      body == FoldLeft(Statement, BeginScope(c), b.body)
      end  == CompileLast(body, b.last)
  IN  IF b.last.k = "return" THEN end ELSE EndScope(end)

(* An error ends the compilation.                                          *)
CompileNode(c, x) ==
  CASE c.error # "none" -> c
    [] x.k = "lit"  -> PushConst(c, x.v)
    [] x.k = "arr"  -> Emit(CompileShared(c, x.es), Many("MakeArray", Len(x.es)))
    [] x.k = "var"  -> EmitGet(c, x.name)
    [] x.k = "idx"  -> Emit(CompileAll(c, <<x.base, x.index>>), Ins("GetIndex"))
    [] x.k = "call" -> CompileCall(c, x, TRUE)
    [] x.k \in {"bin", "un"} /\ Folded(x) # {} -> PushConst(c, CHOOSE d \in Folded(x) : TRUE)
    [] x.k = "bin" /\ Folded(x) = {} -> Emit(CompileAll(c, <<x.l, x.r>>), Ins(x.op))
    [] x.k = "un" /\ Folded(x) = {} ->
         IF x.op = "Plus" THEN CompileNode(c, x.e)
         ELSE Emit(CompileNode(c, x.e), Ins(x.op))
    [] x.k = "log"  -> CompileLogical(c, x)
    [] x.k = "cmp"  -> CompileComparison(c, x)
    [] x.k = "if"   -> CompileIf(c, x)
    [] x.k = "fn"   -> CompileFunction(c, x.params, x.body)
    [] x.k = "block"  -> CompileBlock(c, x)
    [] x.k = "let"    -> CompileLet(c, x)
    [] x.k = "fndef"  -> CompileNamedFunction(c, x)
    [] x.k = "while"  -> CompileWhile(c, x)
    [] x.k = "for"    -> CompileFor(c, x)
    [] x.k = "range"  -> CompileRange(c, x)
    [] x.k = "assign" -> CompileAssign(c, x)
    [] x.k = "opassign" /\ x.target.k = "var" -> CompileOpAssign(c, x)
    [] x.k = "opassign" /\ x.target.k = "idx" -> CompileIndexAssign(c, x)

Compile(block) ==
  LET empty == [chunks |-> <<>>, consts |-> <<>>, contexts |-> <<>>, loops |-> <<>>,
                error |-> "none"]
  IN  Emit(CompileNode(PushContext(empty), block), Ins("Return"))
=============================================================================
