------------------------------ MODULE Builtins ------------------------------
(***************************************************************************)
(* The builtin functions (l3_vm/src/builtins.rs) as operators on the part  *)
(* of the runtime they may touch:                                          *)
(*     m = [heap, next, added, out]                                        *)
(* the live cells, the next fresh key, added_since_last_sweep and what was *)
(* printed.  A call yields [m, r]: the runtime after it and its result.    *)
(* Left out: str and int of strings (text), random, input and sleep        *)
(* (nothing of the program's own).                                         *)
(***************************************************************************)
EXTENDS Values, FiniteSetsExt, SequencesExt

(* The builtins that are modelled.                                         *)
Modelled ==
  {"print", "println", "error", "range", "id", "assert", "sum", "len", "head", "tail", "drop",
   "take", "map", "count"}

Plus(h, k, o) == [x \in DOMAIN h \cup {k} |-> IF x = k THEN o ELSE h[x]]

(* Slip: the next cell gets the same key.                                  *)
AllocateSameKey(m, o) == [m EXCEPT !.heap = Plus(@, m.next, o), !.added = @ + 1]

(* Heap::alloc                                                             *)
Allocate(m, o) ==
  [m EXCEPT !.heap = Plus(@, m.next, o), !.next = @ + 1, !.added = @ + 1]

(* A result settled: an object gets its cell, the rest stays as it is.     *)
Settle(m, r) ==
  IF r.kind = "object"
  THEN [m |-> Allocate(m, r.o), r |-> Ok(RefV(m.next))]
  ELSE [m |-> m, r |-> r]

(* heap_data expects a reference to lead to a cell.                        *)
IsDead(v, cells) == v.t = "ref" /\ v.k \notin DOMAIN cells

(* stringify_stack_value: references resolved all the way down.  It keeps  *)
(* no record of where it has been, so on a vector inside itself it never   *)
(* comes back ("endless"): deeper than there are cells, it is in a cycle.  *)
Shown(v, cells) ==
  LET show[d \in Nat, x \in Value] ==
        LET r == Resolve(x, cells)
        IN  IF d = 0 THEN [t |-> "endless"]
            ELSE IF IsDead(x, cells) THEN [t |-> "dead"]
            ELSE CASE r.t = "vec" -> Vec([j \in DOMAIN r.es |-> show[d - 1, r.es[j]]])
                   [] r.t = "fun" -> [t |-> "fn", chunk |-> r.chunk]
                   [] OTHER -> r
  IN  show[Cardinality(DOMAIN cells) + 1, v]

IsEndless(v, cells) ==
  LET inside[d \in Nat, x \in Value] ==
        LET r == Resolve(x, cells)
        IN  d = 0 \/ (r.t = "vec" /\ \E j \in DOMAIN r.es : inside[d - 1, r.es[j]])
  IN  inside[Cardinality(DOMAIN cells) + 1, v]

Printed(m, values, tail) ==
  IF \E v \in Range(values) : IsEndless(v, m.heap)
  THEN [m |-> m, r |-> Err("Panic")]
  ELSE [m |-> [m EXCEPT !.out = Append(@, [j \in DOMAIN values |-> Shown(values[j], m.heap)])],
        r |-> tail]

(* Of a sequence of elements or characters: all but the first n, the first *)
(* n, and the sequence from a to b in steps of d.                          *)
Without(s, n) == SubSeq(s, n + 1, Len(s))
UpTo(s, n) == SubSeq(s, 1, IF n < Len(s) THEN n ELSE Len(s))
Steps(a, b, d) ==
  LET span  == IF d > 0 THEN b - a ELSE a - b
      width == IF d > 0 THEN d ELSE -d
  IN  IF span <= 0 THEN <<>>
      ELSE [j \in 1 .. (span + width - 1) \div width |-> IntV(a + (j - 1) * d)]

Total(es) ==
  LET total[n \in 0 .. Len(es)] == IF n = 0 THEN 0 ELSE Wrap(total[n - 1] + es[n].i)
  IN  total[Len(es)]

(* range with the start, end and step it was given; with no end it is the  *)
(* start, and the result is empty.  The counter steps past the end: where  *)
(* that overflows, a debug build panics.                                   *)
RangeOf(args) ==
  LET arg(j, absent) == IF j > Len(args) THEN IntV(absent) ELSE args[j]
      a == arg(1, 0)
      b == IF Len(args) < 2 THEN a ELSE args[2]
      d == arg(3, 1)
      Past == a.i + Len(Steps(a.i, b.i, d.i)) * d.i
  IN  IF \E v \in {a, b, d} : v.t # "int" THEN Err("TypeError")
      ELSE IF d.i = 0 THEN Err("TypeError")
      ELSE IF Past \notin MinInt .. MaxInt THEN Err("Panic")
      ELSE New(Vec(Steps(a.i, b.i, d.i)))

(* A release build goes on with the counter wrapped: the rounds are those  *)
(* with no round before them past the end, and when no counter there is is *)
(* past the end, the loop never is.                                        *)
WrappedRange(a, b, d) ==
  LET Counters == 0 .. 2 * MaxInt + 2
      IsPast(n) == IF d > 0 THEN Wrap(a + n * d) >= b ELSE Wrap(a + n * d) <= b
      rounds == {n \in Counters : \A m \in 0 .. n : ~IsPast(m)}
  IN  IF rounds = Counters THEN Err("Endless")
      ELSE New(Vec([j \in 1 .. Cardinality(rounds) |-> IntV(Wrap(a + (j - 1) * d))]))

(* len, head, tail, drop and take: a container and a count.                *)
OfContainer(id, x, n) ==
  LET s == Items(x)
      Same(part) == New(IF x.t = "str" THEN Str(part) ELSE Vec(part))
  IN  IF x.t \notin {"str", "vec"} THEN Err("TypeError")
      ELSE IF id \in {"head", "tail"} /\ s = <<>> THEN Err("ValueError")
      ELSE CASE id = "len"  -> Ok(IntV(Len(s)))
             [] id = "head" -> IF x.t = "str" THEN New(Str(<<s[1]>>)) ELSE Ok(s[1])
             [] id = "tail" -> Same(Without(s, 1))
             [] id = "drop" -> Same(Without(s, n))
             [] id = "take" -> Same(UpTo(s, n))

(* sum, over integers and floats.                                          *)
SumOf(es) ==
  IF \E j \in DOMAIN es : es[j].t \notin {"int", "dbl"} THEN Err("TypeError")
  ELSE IF \E j \in DOMAIN es : es[j].t = "dbl" THEN Ok(DblV)
  ELSE Ok(IntV(Total(es)))

(* The arguments are checked in this order.                                *)
OnContainer(id, args, cells) ==
  LET counted == id = "take" \/ (id = "drop" /\ Len(args) >= 2)
      x == Resolve(args[1], cells)
  IN  IF args = <<>> THEN Err("TypeError")
      ELSE IF counted /\ (Len(args) < 2 \/ args[2].t # "int") THEN Err("TypeError")
      ELSE IF counted /\ args[2].i < 0 THEN Err("ValueError")
      ELSE IF IsDead(args[1], cells) THEN Err("Panic")
      ELSE IF id = "sum" THEN (IF x.t = "vec" THEN SumOf(x.es) ELSE Err("TypeError"))
      ELSE OfContainer(id, x, IF counted THEN args[2].i ELSE 1)

AssertOf(args, m) ==
  IF args = <<>> THEN Settle(m, Err("TypeError"))
  ELSE IF IsTruthy(args[1], m.heap) THEN Settle(m, Ok(NilV))
  ELSE Printed(m, UpTo(Without(args, 1), 1), Err("ValueError"))

(* The builtins that call no other.                                        *)
Simple(id, args, m) ==
  CASE id \in {"print", "println"} -> Printed(m, args, Ok(NilV))
    [] id = "error"  -> Printed(m, UpTo(args, 1), Err("ValueError"))
    [] id = "range"  -> Settle(m, RangeOf(args))
    [] id = "id"     -> Settle(m, IF args = <<>> THEN Err("TypeError") ELSE Ok(args[1]))
    [] id = "assert" -> AssertOf(args, m)
    [] id \in {"sum", "len", "head", "tail", "drop", "take"} ->
         Settle(m, OnContainer(id, args, m.heap))
    [] OTHER -> Settle(m, Err("TypeError"))

(* map and count: a builtin applied to the elements in turn, until one     *)
(* application fails.                                                      *)
Collect(id, acc, c) ==
  LET keeps == c.r.kind = "value" /\ (id = "map" \/ IsTruthy(c.r.v, c.m.heap))
  IN  [m |-> c.m, r |-> c.r, got |-> IF keeps THEN Append(acc.got, c.r.v) ELSE acc.got]

ApplyOne(id, f, acc, elem) ==
  IF acc.r.kind = "error" THEN acc ELSE Collect(id, acc, Simple(f, <<elem>>, acc.m))

AppliedTo(id, f, es, m) ==
  LET after[n \in 0 .. Len(es)] ==
        IF n = 0 THEN [m |-> m, r |-> Ok(NilV), got |-> <<>>]
        ELSE ApplyOne(id, f, after[n - 1], es[n])
  IN  after[Len(es)]

Collected(id, end) ==
  IF end.r.kind = "error" THEN [m |-> end.m, r |-> end.r]
  ELSE Settle(end.m, IF id = "map" THEN New(Vec(end.got)) ELSE Ok(IntV(Len(end.got))))

OverElements(id, args, m) ==
  LET f == IF Len(args) < 1 THEN NilV ELSE Resolve(args[1], m.heap)
      v == IF Len(args) < 2 THEN NilV ELSE Resolve(args[2], m.heap)
  IN  IF \E j \in DOMAIN UpTo(args, 2) : IsDead(args[j], m.heap) THEN Settle(m, Err("Panic"))
      ELSE IF f.t # "builtin" \/ v.t # "vec" THEN Settle(m, Err("TypeError"))
      ELSE Collected(id, AppliedTo(id, f.id, v.es, m))

Invoke(id, args, m) ==
  IF id \in {"map", "count"} THEN OverElements(id, args, m) ELSE Simple(id, args, m)

(* What a call may come to: an overflow in range is for the build to       *)
(* decide.  (It takes two arguments; map and count give it one.)           *)
CallOutcomes(id, args, m) ==
  LET d == IF Len(args) < 3 THEN 1 ELSE args[3].i
      wrapped == Settle(m, WrappedRange(args[1].i, args[2].i, d))
  IN  {Invoke(id, args, m)}
      \cup (IF id = "range" /\ RangeOf(args) = Err("Panic") THEN {wrapped} ELSE {})
=============================================================================
