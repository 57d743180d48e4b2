------------------------------- MODULE Values -------------------------------
(***************************************************************************)
(* Values and the operations on them: l3_runtime/src/stack_value.rs,       *)
(* primitive.rs, heap_data.rs and conv.rs.                                 *)
(*                                                                         *)
(* A heap is a function from live keys to objects.  A string is a sequence *)
(* of characters, and characters are numbers.  A double is one opaque      *)
(* value: no modelled program branches on one or compares one.             *)
(***************************************************************************)
EXTENDS Integers, Sequences

CONSTANT MaxInt         (* i64::MAX; arithmetic wraps at it *)
ASSUME MaxIntAssumption == MaxInt \in Nat \ {0}

MinInt == -MaxInt - 1

IntV(n)  == [t |-> "int", i |-> n]
BoolV(b) == [t |-> "bool", b |-> b]
RefV(k)  == [t |-> "ref", k |-> k]
NilV     == [t |-> "nil"]
DblV     == [t |-> "dbl"]

Value == [t : {"int"}, i : Int] \cup [t : {"bool"}, b : BOOLEAN]
         \cup [t : {"ref"}, k : Nat] \cup {NilV, DblV}

Vec(es)  == [t |-> "vec", es |-> es]
Str(s)   == [t |-> "str", s |-> s]
Fun(chunk, arity, curried, ups) ==
  [t |-> "fun", chunk |-> chunk, arity |-> arity, curried |-> curried, ups |-> ups]
Builtin(id) == [t |-> "builtin", id |-> id]

(* A result is a value, a new object to allocate, or an error.             *)
Ok(v)   == [kind |-> "value", v |-> v]
New(o)  == [kind |-> "object", o |-> o]
Err(e)  == [kind |-> "error", e |-> e]

-----------------------------------------------------------------------------
(* What a value resolves to: itself, the object behind it, or nothing that *)
(* an operator accepts - nil and a key whose cell is gone.                 *)
Resolve(v, cells) ==
  IF v.t = "ref" THEN (IF v.k \in DOMAIN cells THEN cells[v.k] ELSE NilV) ELSE v

IsTruthy(v, cells) ==
  LET r == Resolve(v, cells)
  IN  CASE r.t = "nil"  -> FALSE
        [] r.t = "bool" -> r.b
        [] r.t = "int"  -> r.i # 0
        [] r.t = "vec"  -> r.es # <<>>
        [] r.t = "str"  -> r.s # <<>>
        [] OTHER        -> TRUE

-----------------------------------------------------------------------------
(* Two's complement arithmetic of the width MaxInt gives.                  *)
Wrap(n) == ((n - MinInt) % (2 * (MaxInt + 1))) + MinInt

Quot(a, b) ==
  LET q == (IF a < 0 THEN -a ELSE a) \div (IF b < 0 THEN -b ELSE b)
  IN  IF (a < 0) = (b < 0) THEN q ELSE -q

IntPow(a, n) ==
  LET f[m \in 0 .. n] == IF m = 0 THEN 1 ELSE Wrap(a * f[m - 1])
  IN  f[n]

Numeric == {"int", "dbl", "bool"}

(* impl Add, Sub, Mul, Div, Rem for Primitive and Primitive::pow.  Left    *)
(* out is the error for an exponent of more than 32 bits.                  *)
ArithInt(op, a, b) ==
  CASE op = "Add"      -> Ok(IntV(Wrap(a + b)))
    [] op = "Subtract" -> Ok(IntV(Wrap(a - b)))
    [] op = "Multiply" -> Ok(IntV(Wrap(a * b)))
    [] op = "Power"    -> IF b < 0 THEN Ok(DblV) ELSE Ok(IntV(IntPow(a, b)))
    [] op = "Divide"   -> IF b = 0 THEN Err("TypeError") ELSE Ok(IntV(Wrap(Quot(a, b))))
    [] op = "Modulo"   -> IF b = 0 THEN Err("TypeError") ELSE Ok(IntV(a - b * Quot(a, b)))

ArithPrimitive(op, a, b) ==
  IF a.t = "bool" \/ b.t = "bool" THEN Err("TypeError")
  ELSE IF a.t = "dbl" \/ b.t = "dbl" THEN Ok(DblV)
  ELSE ArithInt(op, a.i, b.i)

(* repeat_str and repeat_vec: a count of zero or less gives an empty one.  *)
Repeat(s, n) == [j \in 1 .. (IF n <= 0 THEN 0 ELSE n * Len(s)) |-> s[((j - 1) % Len(s)) + 1]]

(* add, sub, mul, div, modulo and pow on stack values                      *)
Arith(op, a, b, cells) ==
  LET x == Resolve(a, cells)
      y == Resolve(b, cells)
      ts == <<x.t, y.t>>
  IN  CASE x.t \in Numeric /\ y.t \in Numeric -> ArithPrimitive(op, x, y)
        [] op = "Add" /\ ts = <<"str", "str">> -> New(Str(x.s \o y.s))
        [] op = "Add" /\ ts = <<"vec", "vec">> -> New(Vec(x.es \o y.es))
        [] op = "Multiply" /\ ts = <<"str", "int">> -> New(Str(Repeat(x.s, y.i)))
        [] op = "Multiply" /\ ts = <<"int", "str">> -> New(Str(Repeat(y.s, x.i)))
        [] op = "Multiply" /\ ts = <<"vec", "int">> -> New(Vec(Repeat(x.es, y.i)))
        [] OTHER -> Err("TypeError")

Negative(v, cells) ==
  LET r == Resolve(v, cells)
  IN  CASE r.t = "int"  -> Ok(IntV(Wrap(-r.i)))
        [] r.t = "bool" -> Ok(IntV(IF r.b THEN -1 ELSE 0))
        [] r.t = "dbl"  -> Ok(DblV)
        [] OTHER        -> Err("TypeError")

-----------------------------------------------------------------------------
(* Three-way comparison; "none" when the values are not comparable.        *)
Order(x, y) == IF x < y THEN "lt" ELSE IF x > y THEN "gt" ELSE "eq"

AsNumber(v) == IF v.t = "bool" THEN (IF v.b THEN 1 ELSE 0) ELSE v.i

(* Strings compare character by character, then by length; so do vectors,  *)
(* element by element, unless an element pair is not comparable.  A pair   *)
(* of elements met again while it is being compared counts as equal; the   *)
(* pair the comparison began with (at the top) is not one.                 *)
Compare(left, right, cells) ==
  LET firstDiff(orders, m, n) ==
        LET diffs == {j \in DOMAIN orders : orders[j] # "eq"}
        IN  IF diffs = {} THEN Order(m, n)
            ELSE orders[CHOOSE j \in diffs : \A i \in diffs : j <= i]
      Shorter(s, u) == 1 .. (IF Len(s) < Len(u) THEN Len(s) ELSE Len(u))
      cmp[top \in BOOLEAN, seen \in SUBSET (Nat \X Nat), a \in Value, b \in Value] ==
        LET x == Resolve(a, cells)
            y == Resolve(b, cells)
            in == IF top THEN {} ELSE seen \cup {<<a.k, b.k>>}
        IN  IF a.t \in {"int", "bool"} /\ b.t \in {"int", "bool"}
            THEN Order(AsNumber(a), AsNumber(b))
            ELSE IF a.t = "nil" /\ b.t = "nil" THEN "eq"
            ELSE IF a.t # "ref" \/ b.t # "ref" THEN "none"
            ELSE IF a = b \/ <<a.k, b.k>> \in seen THEN "eq"
            ELSE CASE x.t = "str" /\ y.t = "str" ->
                        firstDiff([j \in Shorter(x.s, y.s) |-> Order(x.s[j], y.s[j])],
                                  Len(x.s), Len(y.s))
                   [] x.t = "vec" /\ y.t = "vec" ->
                        firstDiff([j \in Shorter(x.es, y.es) |-> cmp[FALSE, in, x.es[j], y.es[j]]],
                                  Len(x.es), Len(y.es))
                   [] OTHER -> "none"
  IN  cmp[TRUE, {}, left, right]

(* The outcomes for which each comparison instruction answers true.        *)
Accepts(op) ==
  CASE op = "Equal"        -> {"eq"}
    [] op = "NotEqual"     -> {"lt", "gt", "none"}
    [] op = "Less"         -> {"lt"}
    [] op = "LessEqual"    -> {"lt", "eq"}
    [] op = "Greater"      -> {"gt"}
    [] op = "GreaterEqual" -> {"gt", "eq"}

-----------------------------------------------------------------------------
(* index and index_mut: an integer no smaller than zero, then the bounds.  *)
IndexError(len, idx, cells) ==
  LET i == Resolve(idx, cells)
  IN  IF i.t # "int" THEN {"TypeError"}
      ELSE IF i.i < 0 \/ i.i >= len THEN {"ValueError"} ELSE {}

(* The characters of a string or the elements of a vector.                 *)
Items(x) == IF x.t = "str" THEN x.s ELSE x.es

Index(c, idx, cells) ==
  LET x == Resolve(c, cells)
      early == IndexError(MaxInt + 1, idx, cells)
  IN  IF early # {} THEN Err(CHOOSE e \in early : TRUE)
      ELSE IF x.t \notin {"str", "vec"} THEN Err("TypeError")
      ELSE IF IndexError(Len(Items(x)), idx, cells) # {} THEN Err("ValueError")
      ELSE IF x.t = "str" THEN New(Str(<<x.s[idx.i + 1]>>)) ELSE Ok(x.es[idx.i + 1])

(* The error of index_mut, if any: {} when the element can be replaced.    *)
IndexMutErrors(c, idx, cells) ==
  LET x == Resolve(c, cells)
      early == IndexError(MaxInt + 1, idx, cells)
  IN  IF early # {} THEN early
      ELSE IF c.t # "ref" THEN {"TypeError"}
      ELSE IF x.t = "nil" THEN {"ValueError"}
      ELSE IF x.t # "vec" THEN {"TypeError"}
      ELSE IndexError(Len(x.es), idx, cells)
=============================================================================
