------------------------------ MODULE Semantics ------------------------------
(***************************************************************************)
(* What a program means, without stack, slots, cells or collector: an      *)
(* evaluator over syntax trees with lexical scopes.  It is the abstract    *)
(* specification of the compiler, the optimizer and the VM together.       *)
(*                                                                         *)
(* The state of an evaluation is a record: the scope (names to places),    *)
(* the values in the places, the objects, the global functions, what was   *)
(* printed, the value of what was evaluated last, and how control goes on: *)
(* "go", "break", "continue", "return", or the kind of an error.           *)
(***************************************************************************)
EXTENDS Compiler

Empty == [env |-> <<>>, places |-> <<>>, objects |-> <<>>, globals |-> <<>>, calls |-> 0,
          out |-> <<>>, v |-> NilV, go |-> "go"]

Give(s, v)  == [s EXCEPT !.v = v]
Fail(s, e)  == [s EXCEPT !.go = e]
Make(s, o)  == [s EXCEPT !.objects = Append(@, o), !.v = RefV(Len(s.objects) + 1)]
Result(s, r) ==
  CASE r.kind = "value"  -> Give(s, r.v)
    [] r.kind = "object" -> Make(s, r.o)
    [] r.kind = "error"  -> Fail(s, r.e)

Declare(s, name, v) ==
  [s EXCEPT !.places = Append(@, v), !.env = Plus(@, name, Len(s.places) + 1)]
Store(s, name, v) == [s EXCEPT !.places[s.env[name]] = v]
LookUp(s, name) ==
  CASE name \in DOMAIN s.env     -> Give(s, s.places[s.env[name]])
    [] name \in DOMAIN s.globals -> Give(s, s.globals[name])
    [] OTHER                     -> Fail(s, "UndefinedVariable")

Truthy(s) == IsTruthy(s.v, s.objects)
Leave(s, outer) == [s EXCEPT !.env = outer.env]

RECURSIVE Eval(_, _), Whiles(_, _), Rounds(_, _, _, _, _)

(* Expressions from left to right, until one fails.                        *)
EvalEach(s, es) ==
  FoldLeft(LAMBDA acc, e : LET t == Eval(acc.s, e) IN [s |-> t, vs |-> Append(acc.vs, t.v)],
           [s |-> s, vs |-> <<>>], es)

(* The links of a chain of comparisons, until one does not hold.           *)
EvalChain(s, links) ==
  LET Link(t, c) ==
        LET u == Eval(t, c.e)
        IN  IF t.go # "go" \/ ~t.holds THEN t
            ELSE [u EXCEPT !.holds = Compare(t.v, u.v, u.objects) \in Accepts(c.op)]
      start == [x \in DOMAIN s \cup {"holds"} |-> IF x = "holds" THEN TRUE ELSE s[x]]
      end == FoldLeft(Link, start, links)
  IN  Give([x \in DOMAIN s |-> end[x]], BoolV(end.holds))

(* Fewer arguments than parameters make a function that waits for the      *)
(* rest; parameters and locals live in the scope of the definition.        *)
Apply(s, f, args) ==
  LET all   == f.curried \o args
      begun == FoldLeft(LAMBDA t, j : Declare(t, f.params[j], all[j]),
                        [s EXCEPT !.env = f.env, !.calls = @ + 1], [j \in DOMAIN all |-> j])
      end   == Eval(begun, f.body)
      value == IF end.go = "return" THEN end.v ELSE NilV
  IN  CASE f.t # "fun" -> Fail(s, "TypeError")
        [] Len(all) > Len(f.params) -> Fail(s, "TypeError")
        [] Len(all) < Len(f.params) -> Make(s, [f EXCEPT !.curried = all])
        [] OTHER -> [end EXCEPT !.env = s.env, !.calls = s.calls, !.v = value,
                                !.go = IF @ = "return" THEN "go" ELSE @]

EvalCall(s, x) ==
  LET bound == x.name \in DOMAIN s.env \cup DOMAIN s.globals
      f     == LookUp(s, x.name)
      given == EvalEach(IF bound THEN f ELSE s, x.args)
      shown == [j \in DOMAIN given.vs |-> Shown(given.vs[j], given.s.objects)]
  IN  CASE ~bound /\ x.name \notin {"println", "len"} -> Fail(s, "UndefinedVariable")
        [] given.s.go # "go" -> given.s
        [] bound -> Apply(given.s, Resolve(f.v, given.s.objects), given.vs)
        [] x.name = "println" -> Give([given.s EXCEPT !.out = Append(@, shown)], NilV)
        [] x.name = "len" ->
             LET o == Resolve(given.vs[1], given.s.objects)
             IN  Result(given.s, IF o.t = "vec" THEN Ok(IntV(Len(o.es))) ELSE Err("TypeError"))

Operator(op, s, l, r) == Result(s, Arith(op, l, r, s.objects))

(* A chosen branch, if there is one.                                       *)
EvalIf(s, x) ==
  LET c == Eval(s, x.cond)
  IN  CASE c.go # "go" -> c
        [] c.go = "go" /\ Truthy(c) -> Eval(c, x.then)
        [] OTHER -> IF x.els = None THEN c ELSE Eval(c, x.els)

(* A round of a loop has ended with u: Again goes on from it.              *)
Ended(u) == [u EXCEPT !.go = IF @ = "break" THEN "go" ELSE @]
GoesOn(u) == u.go \in {"go", "continue"}
Again(u) == [u EXCEPT !.go = "go"]

Whiles(s, x) ==
  LET c == Eval(s, x.cond)
      u == Eval(c, x.body)
  IN  IF c.go # "go" \/ ~Truthy(c) THEN c
      ELSE IF GoesOn(u) THEN Whiles(Again(u), x) ELSE Ended(u)

(* The rounds of a loop from the j-th on: over the elements the vector has *)
(* by then, or over the integers of a range.  The loop has one variable.   *)
Rounds(s, x, of, n, j) ==
  LET element == IF x.k = "for" THEN s.objects[of.k].es[j] ELSE of[j]
      u == Eval(Store(s, x.var, element), x.body)
  IN  IF j > n THEN s
      ELSE IF GoesOn(u) THEN Rounds(Again(u), x, of, n, j + 1) ELSE Ended(u)

EvalFor(s, x) ==
  LET c == Eval(Declare(s, x.var, NilV), x.coll)
      n == Len(c.objects[c.v.k].es)
  IN  IF c.go # "go" THEN c ELSE Leave(Rounds(c, x, c.v, n, 1), s)

EvalRange(s, x) ==
  LET ends == EvalEach(Declare(s, x.var, NilV), <<x.from, x.to>>)
      to   == ends.vs[2].i + (IF x.inclusive THEN 1 ELSE 0)
      ints == Steps(ends.vs[1].i, to, 1)
  IN  IF ends.s.go # "go" THEN ends.s ELSE Leave(Rounds(ends.s, x, ints, Len(ints), 1), s)

(* A function knows itself; at top level it is a global as well.           *)
Closed(s, params, body) ==
  Make(s, [t |-> "fun", params |-> params, body |-> body, env |-> s.env, curried |-> <<>>])
EvalDefinition(s, x) ==
  LET f == Closed(Declare(s, x.name, NilV), x.params, x.body)
      d == Store(f, x.name, f.v)
  IN  IF s.calls > 0 THEN d ELSE [d EXCEPT !.globals = Plus(@, x.name, f.v)]

(* base[index] op= e                                                       *)
EvalStore(s, x) ==
  LET place == EvalEach(s, <<x.target.base, x.target.index>>)
      b == place.vs[1]
      i == place.vs[2]
      old == Result(place.s, Index(b, i, place.s.objects))
      r == Eval(IF x.op = "Assign" THEN place.s ELSE old, x.e)
      new == IF x.op = "Assign" THEN r ELSE Operator(x.op, r, old.v, r.v)
      errors == IndexMutErrors(b, i, new.objects)
  IN  CASE new.go # "go" -> new
        [] errors # {} -> Fail(new, CHOOSE e \in errors : TRUE)
        [] OTHER -> [new EXCEPT !.objects[b.k].es[i.i + 1] = new.v]

(* name op= e                                                              *)
EvalUpdate(s, x) ==
  LET old == LookUp(s, x.target.name)
      r   == Eval(old, x.e)
      new == Operator(x.op, r, old.v, r.v)
  IN  IF r.go # "go" THEN r ELSE IF new.go # "go" THEN new ELSE Store(new, x.target.name, new.v)

EvalBlock(s, b) ==
  LET body  == FoldLeft(LAMBDA t, x : Eval(t, x), s, b.body)
      value == IF b.last.k # "return" \/ b.last.e = None THEN body ELSE Eval(body, b.last.e)
      end   == IF value.go = "go" /\ b.last # None THEN [value EXCEPT !.go = b.last.k] ELSE value
  IN  Leave(IF body.go = "go" THEN end ELSE body, s)

Eval(s, x) ==
  CASE s.go # "go" -> s
    [] x.k = "lit" -> IF x.v.t = "str" THEN Make(s, x.v) ELSE Give(s, x.v)
    [] x.k = "arr" -> LET es == EvalEach(s, x.es)
                      IN  IF es.s.go # "go" THEN es.s ELSE Make(es.s, Vec(es.vs))
    [] x.k = "var" -> LookUp(s, x.name)
    [] x.k = "fn"  -> Closed(s, x.params, x.body)
    [] x.k = "call" -> EvalCall(s, x)
    [] x.k = "idx" -> LET p == EvalEach(s, <<x.base, x.index>>)
                      IN  IF p.s.go # "go" THEN p.s
                          ELSE Result(p.s, Index(p.vs[1], p.vs[2], p.s.objects))
    [] x.k = "bin" -> LET p == EvalEach(s, <<x.l, x.r>>)
                      IN  IF p.s.go # "go" THEN p.s ELSE Operator(x.op, p.s, p.vs[1], p.vs[2])
    [] x.k = "un"  -> LET t == Eval(s, x.e)
                      IN  IF t.go # "go" THEN t
                          ELSE IF x.op = "Not" THEN Give(t, BoolV(~Truthy(t)))
                          ELSE Result(t, Negative(t.v, t.objects))
    [] x.k = "log" -> LET l == Eval(s, x.l)
                      IN  IF Truthy(l) = (x.op = "or") THEN l ELSE Eval(l, x.r)
    [] x.k = "cmp" -> EvalChain(Eval(s, x.start), x.rest)
    [] x.k = "if"  -> EvalIf(s, x)
    [] x.k = "let" -> LET t == Eval(s, x.init)
                      IN  IF t.go # "go" THEN t ELSE Declare(t, x.names[1], t.v)
    [] x.k = "assign" -> LET t == Eval(s, x.e)
                         IN  IF t.go # "go" THEN t ELSE Store(t, x.name, t.v)
    [] x.k = "opassign" -> IF x.target.k = "var" THEN EvalUpdate(s, x) ELSE EvalStore(s, x)
    [] x.k = "fndef" -> EvalDefinition(s, x)
    [] x.k = "while" -> Whiles(s, x)
    [] x.k = "for"   -> EvalFor(s, x)
    [] x.k = "range" -> EvalRange(s, x)
    [] x.k = "block" -> EvalBlock(s, x)

(* How a program ends and what it prints.                                  *)
Meaning(block) ==
  LET end == Eval(Empty, block)
  IN  [status |-> IF end.go = "go" THEN "done" ELSE "error", kind |-> end.go, out |-> end.out]
=============================================================================
