---------------------------- MODULE ValuesProofs ----------------------------
(***************************************************************************)
(* What the operators and the builtins compute from: only the values they  *)
(* are given, what those hold, and the cells they allocate themselves.     *)
(***************************************************************************)
EXTENDS Builtins, Bytecode, SequenceTheorems, FiniteSetTheorems, WellFoundedInduction, TLAPS

(* Induction over the natural numbers, for a set instead of a predicate:   *)
(* no operator is passed, so that the provers can use it.                  *)

(* A set that holds 0 and, with a number, the next one holds every number. *)
LEMMA SetInduction ==
  ASSUME NEW S, 0 \in S, \A n \in Nat : n \in S => n + 1 \in S
  PROVE  Nat \subseteq S
<1> SUFFICES ASSUME NEW m \in Nat, m \notin S PROVE FALSE
  OBVIOUS
<1> DEFINE T == Nat \ S
<1>1. T \subseteq Nat /\ T # {}
  OBVIOUS
<1>2. PICK x \in T : \A y \in T : ~(<<y, x>> \in OpToRel(<, Nat))
  BY <1>1, WFMin, NatLessThanWellFounded
<1>3. \A y \in T : ~(y < x)
  BY <1>2 DEF OpToRel
<1>4. x # 0 /\ x - 1 \in Nat /\ x - 1 < x
  OBVIOUS
<1> QED
  BY <1>3, <1>4

(* The same up to a bound.                                                 *)
LEMMA BoundedInduction ==
  ASSUME NEW N \in Nat, NEW S, 0 \in S, \A n \in 1 .. N : n - 1 \in S => n \in S
  PROVE  0 .. N \subseteq S /\ N \in S
<1> DEFINE T == {n \in Nat : n <= N => n \in S}
<1>1. 0 \in T
  OBVIOUS
<1>2. ASSUME NEW n \in Nat, n \in T PROVE n + 1 \in T
  BY <1>2
<1>3. Nat \subseteq T
  <2> HIDE DEF T
  <2> QED
    BY <1>1, <1>2, SetInduction
<1> QED
  BY <1>3

(* A function defined by recursion, from a base and a step that stays in a *)
(* set, exists.  Step m is the function F[m].                              *)
StaysIn(F, N, S) == \A m \in 1 .. N : \A s \in S : F[m][s] \in S
Follows(f, F, N, S, base) ==
  /\ f \in [0 .. N -> S]
  /\ f[0] = base
  /\ \A m \in 1 .. N : f[m] = F[m][f[m - 1]]

LEMMA Recursion ==
  ASSUME NEW N \in Nat, NEW S, NEW base \in S, NEW F, StaysIn(F, N, S)
  PROVE  \E f : Follows(f, F, N, S, base)
<1> USE DEF StaysIn, Follows
<1> DEFINE Fits(f, n) == f \in [0 .. n -> S] /\ f[0] = base
                         /\ \A m \in 1 .. n : f[m] = F[m][f[m - 1]]
           P == {n \in 0 .. N : \E f : Fits(f, n)}
<1>1. 0 \in P
  <2> DEFINE g == [m \in 0 .. 0 |-> base]
  <2>1. Fits(g, 0)
    OBVIOUS
  <2> HIDE DEF g, Fits
  <2> QED
    BY <2>1
<1>2. ASSUME NEW n \in 1 .. N, n - 1 \in P PROVE n \in P
  <2>1. PICK f : Fits(f, n - 1)
    BY <1>2
  <2> DEFINE g == [m \in 0 .. n |-> IF m < n THEN f[m] ELSE F[n][f[n - 1]]]
  <2>2. g \in [0 .. n -> S] /\ g[0] = base
    BY <2>1
  <2>3. ASSUME NEW m \in 1 .. n PROVE g[m] = F[m][g[m - 1]]
    <3>1. g[m - 1] = f[m - 1]
      OBVIOUS
    <3>2. CASE m < n
      BY <2>1, <3>1, <3>2
    <3>3. CASE m = n
      BY <3>1, <3>3
    <3> QED
      BY <3>2, <3>3
  <2> HIDE DEF g
  <2>4. Fits(g, n)
    BY <2>2, <2>3
  <2> HIDE DEF Fits
  <2> QED
    BY <2>4
<1> HIDE DEF P
<1>3. N \in P
  BY <1>1, <1>2, BoundedInduction
<1> QED
  BY <1>3 DEF P

-----------------------------------------------------------------------------

(* Values whose references are among the keys K; the objects the operators *)
(* and the builtins make of them; and objects of every kind over them.     *)
ValuesOver(K) == {v \in Value : v.t = "ref" => v.k \in K}
DataOver(K) == [t : {"vec"}, es : Seq(ValuesOver(K))] \cup [t : {"str"}, s : Seq(Nat)]
ObjectOver(o, K) ==
  /\ o.t \in {"vec", "str", "name", "builtin", "fun"}
  /\ o.t \in {"vec", "str"} => o \in DataOver(K)
  /\ o.t = "builtin" => o.id \in Modelled
  /\ o.t = "fun" => o.curried \in Seq(ValuesOver(K))
HeapOver(cells, K) == \A k \in DOMAIN cells : ObjectOver(cells[k], K)

ResultOver(r, K) ==
  \/ r.kind = "value" /\ r.v \in ValuesOver(K)
  \/ r.kind = "object" /\ r.o \in DataOver(K)
  \/ r.kind = "error"

-----------------------------------------------------------------------------
(* Values and data, made and taken apart.                                  *)
LEMMA Primitives ==
  ASSUME NEW K
  PROVE  /\ \A n \in Int : IntV(n) \in ValuesOver(K)
         /\ \A b \in BOOLEAN : BoolV(b) \in ValuesOver(K)
         /\ NilV \in ValuesOver(K)
         /\ DblV \in ValuesOver(K)
         /\ \A k \in K \cap Nat : RefV(k) \in ValuesOver(K)
BY DEF ValuesOver, Value, IntV, BoolV, RefV, NilV, DblV

LEMMA ValueKinds ==
  ASSUME NEW K, NEW v \in ValuesOver(K)
  PROVE  /\ v.t \in {"int", "bool", "ref", "nil", "dbl"}
         /\ v.t = "int" => v.i \in Int
         /\ v.t = "bool" => v.b \in BOOLEAN
         /\ v.t = "ref" => v.k \in K /\ v.k \in Nat
BY DEF ValuesOver, Value, NilV, DblV

LEMMA MakeData ==
  ASSUME NEW K
  PROVE  /\ \A es \in Seq(ValuesOver(K)) : Vec(es) \in DataOver(K)
         /\ \A s \in Seq(Nat) : Str(s) \in DataOver(K)
BY DEF DataOver, Vec, Str

LEMMA DataKinds ==
  ASSUME NEW K, NEW o \in DataOver(K)
  PROVE  /\ o.t \in {"vec", "str"}
         /\ o.t = "vec" => o.es \in Seq(ValuesOver(K))
         /\ o.t = "str" => o.s \in Seq(Nat)
BY DEF DataOver

(* More keys, more values.                                                 *)
LEMMA OverMore ==
  ASSUME NEW K, NEW M, K \subseteq M
  PROVE  /\ ValuesOver(K) \subseteq ValuesOver(M)
         /\ Seq(ValuesOver(K)) \subseteq Seq(ValuesOver(M))
         /\ DataOver(K) \subseteq DataOver(M)
         /\ \A o : ObjectOver(o, K) => ObjectOver(o, M)
<1>1. ValuesOver(K) \subseteq ValuesOver(M)
  BY DEF ValuesOver
<1>2. Seq(ValuesOver(K)) \subseteq Seq(ValuesOver(M))
  BY <1>1, SeqMonotonic
<1>3. DataOver(K) \subseteq DataOver(M)
  BY <1>2 DEF DataOver
<1> QED
  BY <1>1, <1>2, <1>3 DEF ObjectOver

(* What a value resolves to.                                               *)
LEMMA Resolved ==
  ASSUME NEW K, NEW cells, HeapOver(cells, K), NEW v \in ValuesOver(K)
  PROVE  /\ Resolve(v, cells).t \in {"int", "bool", "nil", "dbl", "vec", "str", "name",
                                     "builtin", "fun"}
         /\ Resolve(v, cells).t = "int" => v = Resolve(v, cells) /\ Resolve(v, cells).i \in Int
         /\ Resolve(v, cells).t = "bool" => Resolve(v, cells).b \in BOOLEAN
         /\ Resolve(v, cells).t = "vec" => Resolve(v, cells).es \in Seq(ValuesOver(K))
         /\ Resolve(v, cells).t = "str" => Resolve(v, cells).s \in Seq(Nat)
         /\ Resolve(v, cells).t = "builtin" => Resolve(v, cells).id \in Modelled
         /\ Resolve(v, cells).t \in {"vec", "str", "name", "builtin", "fun"}
              => /\ v.t = "ref" /\ v.k \in DOMAIN cells
                 /\ Resolve(v, cells) = cells[v.k]
<1>1. CASE v.t = "ref" /\ v.k \in DOMAIN cells
  <2>1. ObjectOver(cells[v.k], K) /\ Resolve(v, cells) = cells[v.k]
    BY <1>1 DEF HeapOver, Resolve
  <2> QED
    BY <1>1, <2>1, DataKinds DEF ObjectOver
<1>2. CASE v.t = "ref" /\ v.k \notin DOMAIN cells
  BY <1>2 DEF Resolve, NilV
<1>3. CASE v.t # "ref"
  BY <1>3, ValueKinds DEF Resolve
<1> QED
  BY <1>1, <1>2, <1>3

-----------------------------------------------------------------------------
(* Arithmetic stays within the integers.                                   *)
LEMMA WrapInt ==
  ASSUME NEW n \in Int
  PROVE  Wrap(n) \in Int
BY MaxIntAssumption DEF Wrap, MinInt

LEMMA QuotInt ==
  ASSUME NEW a \in Int, NEW b \in Int, b # 0
  PROVE  Quot(a, b) \in Int
BY DEF Quot

(* A power by repeated multiplication.                                     *)
LEMMA IntPowInt ==
  ASSUME NEW a \in Int, NEW n \in Nat
  PROVE  IntPow(a, n) \in Int
<1> DEFINE Powers(f) == f = [m \in 0 .. n |-> IF m = 0 THEN 1 ELSE Wrap(a * f[m - 1])]
           g == CHOOSE f : Powers(f)
<1>1. \E f : Powers(f)
  <2> DEFINE F == [m \in 1 .. n |-> [s \in Int |-> Wrap(a * s)]]
  <2>1. ASSUME NEW m \in 1 .. n, NEW s \in Int
        PROVE  F[m][s] = Wrap(a * s) /\ F[m][s] \in Int
    <3>1. a * s \in Int
      OBVIOUS
    <3> QED
      BY <3>1, WrapInt
  <2> HIDE DEF F
  <2>2. 1 \in Int /\ StaysIn(F, n, Int)
    BY <2>1 DEF StaysIn
  <2>3. PICK f : Follows(f, F, n, Int, 1)
    BY <2>2, Recursion
  <2>4. f \in [0 .. n -> Int] /\ f[0] = 1 /\ \A m \in 1 .. n : f[m] = F[m][f[m - 1]]
    BY <2>3 DEF Follows
  <2>5. ASSUME NEW m \in 1 .. n PROVE f[m] = Wrap(a * f[m - 1])
    <3>1. f[m] = F[m][f[m - 1]] /\ f[m - 1] \in Int
      BY <2>4
    <3> QED
      BY <2>1, <3>1
  <2> QED
    BY <2>4, <2>5
<1>2. Powers(g)
  BY <1>1
<1>3. IntPow(a, n) = g[n]
  BY DEF IntPow
<1> HIDE DEF g
<1>4. g[0] = 1 /\ \A m \in 1 .. n : g[m] = Wrap(a * g[m - 1])
  BY <1>2
<1> DEFINE Q == {m \in 0 .. n : g[m] \in Int}
<1>5. 0 \in Q
  BY <1>4
<1>6. ASSUME NEW m \in 1 .. n, m - 1 \in Q PROVE m \in Q
  <2>1. a * g[m - 1] \in Int
    BY <1>6
  <2> QED
    BY <1>4, <2>1, WrapInt
<1> HIDE DEF Q
<1>7. n \in Q
  BY <1>5, <1>6, BoundedInduction
<1> QED
  BY <1>3, <1>7 DEF Q

(* The sum of integer elements, wrapping.                                  *)
LEMMA TotalInt ==
  ASSUME NEW es, NEW n \in Nat, Len(es) = n, \A m \in 1 .. n : es[m].i \in Int
  PROVE  Total(es) \in Int
<1> DEFINE Sums(f) == f = [m \in 0 .. n |-> IF m = 0 THEN 0 ELSE Wrap(f[m - 1] + es[m].i)]
           g == CHOOSE f : Sums(f)
<1>1. \A m \in 1 .. n : es[m].i \in Int
  OBVIOUS
<1>2. Total(es) = g[n]
  BY DEF Total
<1>3. \E f : Sums(f)
  <2> DEFINE F == [m \in 1 .. n |-> [s \in Int |-> Wrap(s + es[m].i)]]
  <2>1. ASSUME NEW m \in 1 .. n, NEW s \in Int
        PROVE  F[m][s] = Wrap(s + es[m].i) /\ F[m][s] \in Int
    <3>1. s + es[m].i \in Int
      BY <1>1
    <3> QED
      BY <3>1, WrapInt
  <2> HIDE DEF F
  <2>2. 0 \in Int /\ StaysIn(F, n, Int)
    BY <2>1 DEF StaysIn
  <2>3. PICK f : Follows(f, F, n, Int, 0)
    BY <1>1, <2>2, Recursion
  <2>4. f \in [0 .. n -> Int] /\ f[0] = 0 /\ \A m \in 1 .. n : f[m] = F[m][f[m - 1]]
    BY <2>3 DEF Follows
  <2>5. ASSUME NEW m \in 1 .. n PROVE f[m] = Wrap(f[m - 1] + es[m].i)
    <3>1. f[m] = F[m][f[m - 1]] /\ f[m - 1] \in Int
      BY <1>1, <2>4
    <3> QED
      BY <2>1, <3>1
  <2> QED
    BY <1>1, <2>4, <2>5
<1>4. Sums(g)
  BY <1>3
<1> HIDE DEF g
<1>5. g[0] = 0 /\ \A m \in 1 .. n : g[m] = Wrap(g[m - 1] + es[m].i)
  BY <1>1, <1>4
<1> DEFINE Q == {m \in 0 .. n : g[m] \in Int}
<1>6. 0 \in Q
  BY <1>1, <1>5
<1>7. ASSUME NEW m \in 1 .. n, m - 1 \in Q PROVE m \in Q
  <2>1. g[m - 1] + es[m].i \in Int
    BY <1>1, <1>7
  <2>2. g[m] = Wrap(g[m - 1] + es[m].i)
    BY <1>5
  <2>3. g[m] \in Int
    BY <2>1, <2>2, WrapInt
  <2> QED
    BY <2>3
<1> HIDE DEF Q
<1>8. 0 .. n \subseteq Q
  BY <1>6, <1>7, BoundedInduction
<1>9. n \in Q
  BY <1>8
<1> QED
  BY <1>2, <1>9 DEF Q

-----------------------------------------------------------------------------
(* Parts of a sequence hold what it holds.                                 *)
LEMMA RepeatSeq ==
  ASSUME NEW S, NEW s \in Seq(S), NEW n \in Int
  PROVE  Repeat(s, n) \in Seq(S)
<1>1. CASE n <= 0
  BY <1>1 DEF Repeat
<1>2. CASE n > 0 /\ s = <<>>
  BY <1>2 DEF Repeat
<1>3. CASE n > 0 /\ s # <<>>
  <2>1. Len(s) \in Nat \ {0} /\ n * Len(s) \in Nat
    BY <1>3
  <2>2. \A j \in 1 .. n * Len(s) : s[((j - 1) % Len(s)) + 1] \in S
    BY <2>1
  <2> QED
    BY <1>3, <2>1, <2>2 DEF Repeat
<1> QED
  BY <1>1, <1>2, <1>3

LEMMA Parts ==
  ASSUME NEW S, NEW s \in Seq(S), NEW n \in Nat
  PROVE  /\ Without(s, n) \in Seq(S)
         /\ UpTo(s, n) \in Seq(S)
BY DEF Without, UpTo

LEMMA StepsSeq ==
  ASSUME NEW K, NEW a \in Int, NEW b \in Int, NEW d \in Int, d # 0
  PROVE  Steps(a, b, d) \in Seq(ValuesOver(K))
<1> DEFINE span  == IF d > 0 THEN b - a ELSE a - b
           width == IF d > 0 THEN d ELSE -d
<1>1. width \in Nat \ {0} /\ span \in Int
  OBVIOUS
<1>2. CASE span <= 0
  BY <1>2 DEF Steps
<1>3. CASE span > 0
  <2>1. (span + width - 1) \div width \in Nat
    BY <1>1, <1>3
  <2>2. \A j \in 1 .. (span + width - 1) \div width : IntV(a + (j - 1) * d) \in ValuesOver(K)
    BY <2>1, Primitives
  <2>3. Steps(a, b, d) = [j \in 1 .. (span + width - 1) \div width |-> IntV(a + (j - 1) * d)]
    BY <1>3 DEF Steps
  <2> HIDE DEF span, width
  <2> QED
    BY <2>1, <2>2, <2>3
<1> QED
  BY <1>1, <1>2, <1>3

-----------------------------------------------------------------------------
(* Results over a set of keys.                                             *)
LEMMA Results ==
  ASSUME NEW K
  PROVE  /\ \A v \in ValuesOver(K) : ResultOver(Ok(v), K)
         /\ \A o \in DataOver(K) : ResultOver(New(o), K)
         /\ \A e : ResultOver(Err(e), K)
         /\ \A n \in Int : ResultOver(Ok(IntV(n)), K)
         /\ ResultOver(Ok(NilV), K)
         /\ ResultOver(Ok(DblV), K)
         /\ \A es \in Seq(ValuesOver(K)) : ResultOver(New(Vec(es)), K)
         /\ \A s \in Seq(Nat) : ResultOver(New(Str(s)), K)
<1>1. \A v \in ValuesOver(K) : ResultOver(Ok(v), K)
  BY DEF ResultOver, Ok
<1>2. \A o \in DataOver(K) : ResultOver(New(o), K)
  BY DEF ResultOver, New
<1>3. \A e : ResultOver(Err(e), K)
  BY DEF ResultOver, Err
<1> QED
  BY <1>1, <1>2, <1>3, Primitives, MakeData

-----------------------------------------------------------------------------
(* The operators on values.                                                *)
LEMMA ArithIntOver ==
  ASSUME NEW K, NEW op \in Operators, NEW a \in Int, NEW b \in Int
  PROVE  ResultOver(ArithInt(op, a, b), K)
<1>1. /\ Wrap(a + b) \in Int
      /\ Wrap(a - b) \in Int
  BY WrapInt
<1>2. Wrap(a * b) \in Int
  <2>1. a * b \in Int
    OBVIOUS
  <2> QED
    BY <2>1, WrapInt
<1>3. ~(b < 0) => IntPow(a, b) \in Int
  BY IntPowInt
<1>4. b # 0 => Wrap(Quot(a, b)) \in Int
  BY QuotInt, WrapInt
<1>5. b # 0 => a - b * Quot(a, b) \in Int
  BY QuotInt
<1>6. CASE op = "Add"
  BY <1>1, <1>6, Results DEF ArithInt
<1>7. CASE op = "Subtract"
  BY <1>1, <1>7, Results DEF ArithInt
<1>8. CASE op = "Multiply"
  <2>1. ArithInt(op, a, b) = Ok(IntV(Wrap(a * b)))
    BY <1>8 DEF ArithInt
  <2> QED
    BY <1>2, <2>1, Results
<1>9. CASE op = "Power"
  <2>1. ArithInt(op, a, b) = IF b < 0 THEN Ok(DblV) ELSE Ok(IntV(IntPow(a, b)))
    BY <1>9 DEF ArithInt
  <2> QED
    BY <1>3, <2>1, Results
<1>10. CASE op = "Divide"
  <2>1. ArithInt(op, a, b) = IF b = 0 THEN Err("TypeError") ELSE Ok(IntV(Wrap(Quot(a, b))))
    BY <1>10 DEF ArithInt
  <2> QED
    BY <1>4, <2>1, Results
<1>11. CASE op = "Modulo"
  <2>1. ArithInt(op, a, b) = IF b = 0 THEN Err("TypeError") ELSE Ok(IntV(a - b * Quot(a, b)))
    BY <1>11 DEF ArithInt
  <2>2. CASE b = 0
    BY <2>1, <2>2, Results
  <2>3. CASE b # 0
    BY <1>5, <2>1, <2>3, Results
  <2> QED
    BY <2>2, <2>3
<1> QED
  BY <1>6, <1>7, <1>8, <1>9, <1>10, <1>11 DEF Operators

LEMMA ArithPrimitiveOver ==
  ASSUME NEW K, NEW op \in Operators, NEW a, NEW b, a.t \in Numeric, b.t \in Numeric,
         a.t = "int" => a.i \in Int, b.t = "int" => b.i \in Int
  PROVE  ResultOver(ArithPrimitive(op, a, b), K)
BY ArithIntOver, Results DEF ArithPrimitive, Numeric

(* An operator makes its result of its operands and of what they hold.     *)
LEMMA ArithOver ==
  ASSUME NEW K, NEW cells, HeapOver(cells, K), NEW op \in Operators,
         NEW a \in ValuesOver(K), NEW b \in ValuesOver(K)
  PROVE  ResultOver(Arith(op, a, b, cells), K)
<1> DEFINE x == Resolve(a, cells)
           y == Resolve(b, cells)
           r == Arith(op, a, b, cells)
<1>1. /\ x.t = "int" => x.i \in Int
      /\ y.t = "int" => y.i \in Int
      /\ x.t = "vec" => x.es \in Seq(ValuesOver(K))
      /\ y.t = "vec" => y.es \in Seq(ValuesOver(K))
      /\ x.t = "str" => x.s \in Seq(Nat)
      /\ y.t = "str" => y.s \in Seq(Nat)
  BY Resolved
<1>2. \/ x.t \in Numeric /\ y.t \in Numeric /\ r = ArithPrimitive(op, x, y)
      \/ x.t = "str" /\ y.t = "str" /\ r = New(Str(x.s \o y.s))
      \/ x.t = "vec" /\ y.t = "vec" /\ r = New(Vec(x.es \o y.es))
      \/ x.t = "str" /\ y.t = "int" /\ r = New(Str(Repeat(x.s, y.i)))
      \/ x.t = "int" /\ y.t = "str" /\ r = New(Str(Repeat(y.s, x.i)))
      \/ x.t = "vec" /\ y.t = "int" /\ r = New(Vec(Repeat(x.es, y.i)))
      \/ r = Err("TypeError")
  <2> HIDE DEF x, y
  <2>1. r = CASE x.t \in Numeric /\ y.t \in Numeric -> ArithPrimitive(op, x, y)
              [] op = "Add" /\ <<x.t, y.t>> = <<"str", "str">> -> New(Str(x.s \o y.s))
              [] op = "Add" /\ <<x.t, y.t>> = <<"vec", "vec">> -> New(Vec(x.es \o y.es))
              [] op = "Multiply" /\ <<x.t, y.t>> = <<"str", "int">> -> New(Str(Repeat(x.s, y.i)))
              [] op = "Multiply" /\ <<x.t, y.t>> = <<"int", "str">> -> New(Str(Repeat(y.s, x.i)))
              [] op = "Multiply" /\ <<x.t, y.t>> = <<"vec", "int">> -> New(Vec(Repeat(x.es, y.i)))
              [] OTHER -> Err("TypeError")
    BY Zenon DEF Arith, x, y
  <2> HIDE DEF r
  <2> QED
    BY <2>1
<1> SUFFICES ResultOver(r, K)
  OBVIOUS
<1> HIDE DEF x, y, r
<1>3. CASE x.t \in Numeric /\ y.t \in Numeric /\ r = ArithPrimitive(op, x, y)
  BY <1>1, <1>3, ArithPrimitiveOver
<1>4. CASE x.t = "str" /\ y.t = "str" /\ r = New(Str(x.s \o y.s))
  <2>1. x.s \o y.s \in Seq(Nat)
    BY <1>1, <1>4
  <2> QED
    BY <1>4, <2>1, Results
<1>5. CASE x.t = "vec" /\ y.t = "vec" /\ r = New(Vec(x.es \o y.es))
  <2>1. x.es \o y.es \in Seq(ValuesOver(K))
    BY <1>1, <1>5
  <2> QED
    BY <1>5, <2>1, Results
<1>6. CASE x.t = "str" /\ y.t = "int" /\ r = New(Str(Repeat(x.s, y.i)))
  BY <1>1, <1>6, RepeatSeq, Results
<1>7. CASE x.t = "int" /\ y.t = "str" /\ r = New(Str(Repeat(y.s, x.i)))
  BY <1>1, <1>7, RepeatSeq, Results
<1>8. CASE x.t = "vec" /\ y.t = "int" /\ r = New(Vec(Repeat(x.es, y.i)))
  BY <1>1, <1>8, RepeatSeq, Results
<1>9. CASE r = Err("TypeError")
  BY <1>9, Results
<1> QED
  BY <1>2, <1>3, <1>4, <1>5, <1>6, <1>7, <1>8, <1>9

LEMMA NegativeOver ==
  ASSUME NEW K, NEW cells, HeapOver(cells, K), NEW v \in ValuesOver(K)
  PROVE  ResultOver(Negative(v, cells), K) /\ Negative(v, cells).kind # "object"
<1> DEFINE r == Resolve(v, cells)
<1>1. r.t = "int" => r.i \in Int
  BY Resolved
<1>2. \/ r.t = "int" /\ Negative(v, cells) = Ok(IntV(Wrap(-r.i)))
      \/ \E n \in Int : Negative(v, cells) = Ok(IntV(n))
      \/ Negative(v, cells) = Ok(DblV)
      \/ Negative(v, cells) = Err("TypeError")
  BY DEF Negative
<1>3. r.t = "int" => Wrap(-r.i) \in Int
  BY <1>1, WrapInt
<1>4. \/ \E n \in Int : Negative(v, cells) = Ok(IntV(n))
      \/ Negative(v, cells) = Ok(DblV)
      \/ Negative(v, cells) = Err("TypeError")
  BY <1>2, <1>3
<1>5. ResultOver(Negative(v, cells), K)
  BY <1>4, Results
<1> QED
  BY <1>4, <1>5 DEF Ok, Err

LEMMA IndexOver ==
  ASSUME NEW K, NEW cells, HeapOver(cells, K), NEW c \in ValuesOver(K), NEW idx \in ValuesOver(K)
  PROVE  ResultOver(Index(c, idx, cells), K)
<1> DEFINE x == Resolve(c, cells)
           i == Resolve(idx, cells)
           early == IndexError(MaxInt + 1, idx, cells)
           errs == IndexError(Len(Items(x)), idx, cells)
<1>1. Index(c, idx, cells) =
        IF early # {} THEN Err(CHOOSE e \in early : TRUE)
        ELSE IF x.t \notin {"str", "vec"} THEN Err("TypeError")
        ELSE IF errs # {} THEN Err("ValueError")
        ELSE IF x.t = "str" THEN New(Str(<<x.s[idx.i + 1]>>)) ELSE Ok(x.es[idx.i + 1])
  BY DEF Index
<1>2. /\ x.t = "vec" => x.es \in Seq(ValuesOver(K))
      /\ x.t = "str" => x.s \in Seq(Nat)
      /\ i.t = "int" => idx = i /\ i.i \in Int
  BY Resolved
<1>3. errs = {} => i.t = "int" /\ ~(i.i < 0) /\ ~(i.i >= Len(Items(x)))
  BY DEF IndexError
<1> HIDE DEF x, i, early, errs
<1>4. CASE errs = {} /\ x.t = "str"
  <2>1. idx.i + 1 \in 1 .. Len(x.s) /\ x.s \in Seq(Nat)
    BY <1>2, <1>3, <1>4 DEF Items
  <2>2. <<x.s[idx.i + 1]>> \in Seq(Nat)
    BY <2>1
  <2> QED
    BY <1>1, <1>4, <2>2, Results
<1>5. CASE errs = {} /\ x.t = "vec"
  <2>1. idx.i + 1 \in 1 .. Len(x.es) /\ x.es \in Seq(ValuesOver(K))
    BY <1>2, <1>3, <1>5 DEF Items
  <2>2. x.es[idx.i + 1] \in ValuesOver(K)
    BY <2>1, ElementOfSeq
  <2> QED
    BY <1>1, <1>5, <2>2, Results
<1> QED
  BY <1>1, <1>4, <1>5, Results

-----------------------------------------------------------------------------
(* The results of the builtins that only look at a container.              *)
LEMMA RangeOver ==
  ASSUME NEW K, NEW args \in Seq(ValuesOver(K))
  PROVE  ResultOver(RangeOf(args), K)
<1> DEFINE arg(j, absent) == IF j > Len(args) THEN IntV(absent) ELSE args[j]
           a == arg(1, 0)
           b == IF Len(args) < 2 THEN a ELSE args[2]
           d == arg(3, 1)
           steps == Steps(a.i, b.i, d.i)
<1>1. a \in ValuesOver(K) /\ b \in ValuesOver(K) /\ d \in ValuesOver(K)
  <2>1. ASSUME NEW j \in 1 .. 3, NEW n \in Int PROVE arg(j, n) \in ValuesOver(K)
    BY Primitives, ElementOfSeq
  <2>2. a \in ValuesOver(K) /\ d \in ValuesOver(K)
    BY <2>1
  <2>3. Len(args) >= 2 => args[2] \in ValuesOver(K)
    BY ElementOfSeq
  <2> HIDE DEF arg
  <2> QED
    BY <2>2, <2>3
<1>2. \/ RangeOf(args) = Err("TypeError")
      \/ RangeOf(args) = Err("Panic")
      \/ /\ a.t = "int" /\ b.t = "int" /\ d.t = "int" /\ d.i # 0
         /\ RangeOf(args) = New(Vec(steps))
  <2>1. RangeOf(args) =
          IF \E v \in {a, b, d} : v.t # "int" THEN Err("TypeError")
          ELSE IF d.i = 0 THEN Err("TypeError")
          ELSE IF a.i + Len(steps) * d.i \notin MinInt .. MaxInt THEN Err("Panic")
          ELSE New(Vec(steps))
    BY DEF RangeOf
  <2> HIDE DEF a, b, d, steps
  <2> QED
    BY <2>1
<1>3. a.t = "int" /\ b.t = "int" /\ d.t = "int" => a.i \in Int /\ b.i \in Int /\ d.i \in Int
  <2> HIDE DEF a, b, d
  <2> QED
    BY <1>1, ValueKinds
<1> HIDE DEF a, b, d
<1>4. CASE /\ a.t = "int" /\ b.t = "int" /\ d.t = "int" /\ d.i # 0
           /\ RangeOf(args) = New(Vec(steps))
  <2>1. steps \in Seq(ValuesOver(K))
    BY <1>3, <1>4, StepsSeq
  <2> HIDE DEF steps
  <2> QED
    BY <1>4, <2>1, Results
<1> QED
  BY <1>2, <1>4, Results

(* Only a counter that moves, from integers and to one, can overflow.      *)
LEMMA PanicOfRange ==
  ASSUME NEW K, NEW args \in Seq(ValuesOver(K)), RangeOf(args) = Err("Panic")
  PROVE  /\ Len(args) >= 1 /\ args[1].t = "int"
         /\ Len(args) >= 3 => args[3].t = "int"
<1> DEFINE arg(j, absent) == IF j > Len(args) THEN IntV(absent) ELSE args[j]
           a == arg(1, 0)
           b == IF Len(args) < 2 THEN a ELSE args[2]
           d == arg(3, 1)
           steps == Steps(a.i, b.i, d.i)
<1>1. Err("Panic") # Err("TypeError") /\ Err("Panic") # New(Vec(steps))
  BY DEF Err, New
<1>2. /\ \A v \in {a, b, d} : v.t = "int"
      /\ a.i + Len(steps) * d.i \notin MinInt .. MaxInt
  <2>1. RangeOf(args) =
          IF \E v \in {a, b, d} : v.t # "int" THEN Err("TypeError")
          ELSE IF d.i = 0 THEN Err("TypeError")
          ELSE IF a.i + Len(steps) * d.i \notin MinInt .. MaxInt THEN Err("Panic")
          ELSE New(Vec(steps))
    BY DEF RangeOf
  <2> HIDE DEF a, b, d, steps
  <2> QED
    BY <1>1, <2>1
<1>3. ASSUME Len(args) = 0 PROVE FALSE
  <2>1. a.i = 0 /\ b.i = 0 /\ d.i = 1
    BY <1>3 DEF IntV
  <2>2. Steps(0, 0, 1) = <<>>
    BY DEF Steps
  <2>3. steps = <<>>
    BY <2>1, <2>2
  <2> HIDE DEF a, b, d, steps
  <2> QED
    BY <1>2, <2>1, <2>3, MaxIntAssumption DEF MinInt
<1>4. Len(args) >= 1
  BY <1>3
<1>5. args[1].t = "int"
  BY <1>2, <1>4
<1>6. ASSUME Len(args) >= 3 PROVE args[3].t = "int"
  <2>1. d = args[3]
    BY <1>6
  <2> HIDE DEF d
  <2> QED
    BY <1>2, <2>1
<1> QED
  BY <1>4, <1>5, <1>6

(* What an object holds that may be taken from it.                         *)
ItemsOver(x, K) ==
  /\ x.t = "vec" => x.es \in Seq(ValuesOver(K))
  /\ x.t = "str" => x.s \in Seq(Nat)

LEMMA OfContainerOver ==
  ASSUME NEW K, NEW x, ItemsOver(x, K), NEW n \in Nat,
         NEW id \in {"len", "head", "tail", "drop", "take"}
  PROVE  ResultOver(OfContainer(id, x, n), K)
<1> DEFINE r == OfContainer(id, x, n)
<1>1. CASE x.t = "str"
  <2>1. x.s \in Seq(Nat) /\ Items(x) = x.s
    BY <1>1 DEF ItemsOver, Items
  <2>2. \/ \E e : r = Err(e)
        \/ r = Ok(IntV(Len(x.s)))
        \/ x.s # <<>> /\ r = New(Str(<<x.s[1]>>))
        \/ r = New(Str(Without(x.s, 1)))
        \/ r = New(Str(Without(x.s, n)))
        \/ r = New(Str(UpTo(x.s, n)))
    BY <1>1, <2>1 DEF OfContainer
  <2>3. x.s # <<>> => <<x.s[1]>> \in Seq(Nat)
    BY <2>1
  <2>4. Without(x.s, 1) \in Seq(Nat) /\ Without(x.s, n) \in Seq(Nat) /\ UpTo(x.s, n) \in Seq(Nat)
    BY <2>1, Parts
  <2>5. Len(x.s) \in Int
    BY <2>1
  <2> HIDE DEF r
  <2> QED
    BY <2>2, <2>3, <2>4, <2>5, Results DEF r
<1>2. CASE x.t = "vec"
  <2>1. x.es \in Seq(ValuesOver(K)) /\ Items(x) = x.es
    BY <1>2 DEF ItemsOver, Items
  <2>2. \/ \E e : r = Err(e)
        \/ r = Ok(IntV(Len(x.es)))
        \/ x.es # <<>> /\ r = Ok(x.es[1])
        \/ r = New(Vec(Without(x.es, 1)))
        \/ r = New(Vec(Without(x.es, n)))
        \/ r = New(Vec(UpTo(x.es, n)))
    BY <1>2, <2>1 DEF OfContainer
  <2>3. x.es # <<>> => x.es[1] \in ValuesOver(K)
    BY <2>1, ElementOfSeq
  <2>4. /\ Without(x.es, 1) \in Seq(ValuesOver(K)) /\ Without(x.es, n) \in Seq(ValuesOver(K))
        /\ UpTo(x.es, n) \in Seq(ValuesOver(K))
    BY <2>1, Parts
  <2>5. Len(x.es) \in Int
    BY <2>1
  <2> HIDE DEF r
  <2> QED
    BY <2>2, <2>3, <2>4, <2>5, Results DEF r
<1>3. CASE x.t \notin {"str", "vec"}
  BY <1>3, Results DEF OfContainer
<1> QED
  BY <1>1, <1>2, <1>3

LEMMA SumOver ==
  ASSUME NEW K, NEW es \in Seq(ValuesOver(K))
  PROVE  ResultOver(SumOf(es), K)
<1>1. CASE \E j \in DOMAIN es : es[j].t \notin {"int", "dbl"}
  BY <1>1, Results DEF SumOf
<1>2. CASE \E j \in DOMAIN es : es[j].t = "dbl"
  BY <1>2, Results DEF SumOf
<1>3. CASE \A j \in DOMAIN es : es[j].t = "int"
  <2>1. SumOf(es) = Ok(IntV(Total(es)))
    BY <1>3 DEF SumOf
  <2>2. Len(es) \in Nat /\ \A m \in 1 .. Len(es) : es[m].i \in Int
    BY <1>3, ElementOfSeq, ValueKinds
  <2>3. Total(es) \in Int
    BY <2>2, TotalInt
  <2> QED
    BY <2>1, <2>3, Results
<1> QED
  BY <1>1, <1>2, <1>3

LEMMA OnContainerOver ==
  ASSUME NEW K, NEW cells, HeapOver(cells, K), NEW args \in Seq(ValuesOver(K)),
         NEW id \in {"sum", "len", "head", "tail", "drop", "take"}
  PROVE  ResultOver(OnContainer(id, args, cells), K)
<1> DEFINE counted == id = "take" \/ (id = "drop" /\ Len(args) >= 2)
           x == Resolve(args[1], cells)
           n == IF counted THEN args[2].i ELSE 1
           r == OnContainer(id, args, cells)
<1>1. r = IF args = <<>> THEN Err("TypeError")
          ELSE IF counted /\ (Len(args) < 2 \/ args[2].t # "int") THEN Err("TypeError")
          ELSE IF counted /\ args[2].i < 0 THEN Err("ValueError")
          ELSE IF IsDead(args[1], cells) THEN Err("Panic")
          ELSE IF id = "sum" THEN (IF x.t = "vec" THEN SumOf(x.es) ELSE Err("TypeError"))
          ELSE OfContainer(id, x, n)
  BY DEF OnContainer
<1>2. args # <<>> => ItemsOver(x, K)
  <2>1. SUFFICES ASSUME args # <<>> PROVE ItemsOver(x, K)
    OBVIOUS
  <2>2. args[1] \in ValuesOver(K)
    BY <2>1, ElementOfSeq
  <2> QED
    BY <2>2, Resolved DEF ItemsOver
<1>3. counted /\ ~(Len(args) < 2 \/ args[2].t # "int") /\ ~(args[2].i < 0) => n \in Nat
  <2>1. SUFFICES ASSUME ~(Len(args) < 2), args[2].t = "int", ~(args[2].i < 0)
                 PROVE  args[2].i \in Nat
    OBVIOUS
  <2>2. args[2] \in ValuesOver(K)
    BY <2>1, ElementOfSeq
  <2> QED
    BY <2>1, <2>2, ValueKinds
<1>4. ~counted => n \in Nat
  OBVIOUS
<1> SUFFICES ResultOver(r, K)
  OBVIOUS
<1> HIDE DEF r, n, x, counted
<1>5. \/ \E e : r = Err(e)
      \/ args # <<>> /\ id = "sum" /\ x.t = "vec" /\ r = SumOf(x.es)
      \/ args # <<>> /\ id # "sum" /\ n \in Nat /\ r = OfContainer(id, x, n)
  BY <1>1, <1>3, <1>4
<1>6. CASE \E e : r = Err(e)
  BY <1>6, Results
<1>7. CASE args # <<>> /\ id = "sum" /\ x.t = "vec" /\ r = SumOf(x.es)
  BY <1>2, <1>7, SumOver DEF ItemsOver
<1>8. CASE args # <<>> /\ id # "sum" /\ n \in Nat /\ r = OfContainer(id, x, n)
  BY <1>2, <1>8, OfContainerOver
<1> QED
  BY <1>5, <1>6, <1>7, <1>8

-----------------------------------------------------------------------------
(* The part of the runtime the builtins touch, and what a call makes of    *)
(* it: new cells of data, under the keys from the next one on.             *)
IsMachine(m) ==
  /\ m = [heap |-> m.heap, next |-> m.next, added |-> m.added, out |-> m.out]
  /\ m.next \in Nat /\ m.added \in Nat
  /\ \A k \in DOMAIN m.heap : k \in Nat /\ k < m.next

Fresh(m, m2) == m.next .. m2.next - 1

Grown(m, m2, K) ==
  /\ IsMachine(m2)
  /\ m2.next >= m.next
  /\ DOMAIN m2.heap = DOMAIN m.heap \cup Fresh(m, m2)
  /\ \A k \in DOMAIN m.heap : m2.heap[k] = m.heap[k]
  /\ \A k \in Fresh(m, m2) : m2.heap[k] \in DataOver(K \cup Fresh(m, m2))

CallOver(m, c, K) ==
  /\ Grown(m, c.m, K)
  /\ ResultOver(c.r, K \cup Fresh(m, c.m))
  /\ c.r.kind # "object"

(* What a machine grows into is over the keys it was over and the new ones. *)
LEMMA GrownHeap ==
  ASSUME NEW K, NEW m, NEW m2, HeapOver(m.heap, K), Grown(m, m2, K)
  PROVE  HeapOver(m2.heap, K \cup Fresh(m, m2))
<1> SUFFICES ASSUME NEW k \in DOMAIN m2.heap
             PROVE  ObjectOver(m2.heap[k], K \cup Fresh(m, m2))
  BY DEF HeapOver
<1> DEFINE M == K \cup Fresh(m, m2)
<1>1. k \in DOMAIN m.heap \/ k \in Fresh(m, m2)
  BY DEF Grown
<1>2. CASE k \in DOMAIN m.heap
  <2>1. m2.heap[k] = m.heap[k] /\ ObjectOver(m.heap[k], K)
    BY <1>2 DEF Grown, HeapOver
  <2>2. K \subseteq M
    OBVIOUS
  <2> HIDE DEF M
  <2>3. ObjectOver(m2.heap[k], M)
    BY <2>1, <2>2, OverMore
  <2> QED
    BY <2>3 DEF M
<1>3. CASE k \in Fresh(m, m2)
  <2>1. m2.heap[k] \in DataOver(M)
    BY <1>3 DEF Grown
  <2>2. m2.heap[k].t \in {"vec", "str"}
    BY <2>1, DataKinds
  <2> QED
    BY <2>1, <2>2 DEF ObjectOver
<1> QED
  BY <1>1, <1>2, <1>3

LEMMA GrownTrans ==
  ASSUME NEW K, NEW m, NEW m2, NEW m3, IsMachine(m),
         Grown(m, m2, K), Grown(m2, m3, K \cup Fresh(m, m2))
  PROVE  /\ Grown(m, m3, K)
         /\ (K \cup Fresh(m, m2)) \cup Fresh(m2, m3) = K \cup Fresh(m, m3)
<1>1. m.next \in Nat /\ m2.next \in Nat /\ m3.next \in Nat
  BY DEF Grown, IsMachine
<1>2. m.next <= m2.next /\ m2.next <= m3.next
  BY <1>1 DEF Grown
<1>3. Fresh(m, m3) = Fresh(m, m2) \cup Fresh(m2, m3)
  BY <1>1, <1>2 DEF Fresh
<1>4. (K \cup Fresh(m, m2)) \cup Fresh(m2, m3) = K \cup Fresh(m, m3)
  BY <1>3
<1> DEFINE M == K \cup Fresh(m, m2)
           N == K \cup Fresh(m, m3)
<1>5. M \subseteq N
  BY <1>3
<1>6. /\ DOMAIN m3.heap = DOMAIN m.heap \cup Fresh(m, m3)
      /\ \A k \in DOMAIN m.heap : m3.heap[k] = m.heap[k]
  BY <1>3 DEF Grown
<1>7. ASSUME NEW k \in Fresh(m, m3) PROVE m3.heap[k] \in DataOver(N)
  <2>1. CASE k \in Fresh(m2, m3)
    BY <1>4, <2>1 DEF Grown
  <2>2. CASE k \in Fresh(m, m2)
    <3>1. k \in DOMAIN m2.heap
      BY <2>2 DEF Grown
    <3>2. m3.heap[k] = m2.heap[k]
      BY <3>1 DEF Grown
    <3>3. m2.heap[k] \in DataOver(M)
      BY <2>2 DEF Grown
    <3> HIDE DEF M, N
    <3>4. DataOver(M) \subseteq DataOver(N)
      BY <1>5, OverMore
    <3> QED
      BY <3>2, <3>3, <3>4
  <2> QED
    BY <1>3, <2>1, <2>2
<1>8. IsMachine(m3) /\ m3.next >= m.next
  BY <1>1, <1>2 DEF Grown
<1> QED
  BY <1>4, <1>6, <1>7, <1>8 DEF Grown

(* A machine the call leaves alone, but for the output.                    *)
LEMMA GrownSame ==
  ASSUME NEW K, NEW m, NEW m2, IsMachine(m), IsMachine(m2), m2.heap = m.heap, m2.next = m.next
  PROVE  Grown(m, m2, K) /\ K \cup Fresh(m, m2) = K
<1>1. Fresh(m, m2) = {}
  BY DEF Fresh, IsMachine
<1> QED
  BY <1>1 DEF Grown, IsMachine

LEMMA ThreeParts ==
  ASSUME NEW h, NEW n, NEW d, NEW u, NEW x, NEW y, NEW z, NEW m,
         m = [heap |-> h, next |-> n, added |-> d, out |-> u]
  PROVE  [m EXCEPT !.heap = x, !.next = y, !.added = z]
           = [heap |-> x, next |-> y, added |-> z, out |-> u]
<1> DEFINE p == [m EXCEPT !.heap = x]
           q == [p EXCEPT !.next = y]
           r == [q EXCEPT !.added = z]
<1>1. p = [heap |-> x, next |-> n, added |-> d, out |-> u]
  OBVIOUS
<1> HIDE DEF p
<1>2. q = [heap |-> x, next |-> y, added |-> d, out |-> u]
  BY <1>1
<1> HIDE DEF q
<1>3. r = [heap |-> x, next |-> y, added |-> z, out |-> u]
  BY <1>2
<1> QED
  BY <1>3 DEF p, q, r

(* A new cell of data.                                                     *)
LEMMA GrownOne ==
  ASSUME NEW K, NEW m, IsMachine(m), NEW o \in DataOver(K)
  PROVE  /\ Grown(m, Allocate(m, o), K)
         /\ m.next \in Fresh(m, Allocate(m, o))
<1> DEFINE a == Allocate(m, o)
<1>1. a = [heap |-> Plus(m.heap, m.next, o), next |-> m.next + 1, added |-> m.added + 1,
           out |-> m.out]
  <2>1. PICK h, n, d, u : m = [heap |-> h, next |-> n, added |-> d, out |-> u]
    BY DEF IsMachine
  <2>2. m.heap = h /\ m.next = n /\ m.added = d /\ m.out = u
    BY <2>1
  <2>3. a = [heap |-> Plus(h, n, o), next |-> n + 1, added |-> d + 1, out |-> u]
    <3> DEFINE x == Plus(h, n, o)
               y == n + 1
               z == d + 1
    <3>1. a = [m EXCEPT !.heap = x, !.next = y, !.added = z]
      BY <2>1, <2>2 DEF Allocate
    <3> HIDE DEF a, x, y, z
    <3>2. a = [heap |-> x, next |-> y, added |-> z, out |-> u]
      BY <2>1, <3>1, ThreeParts, Zenon
    <3> QED
      BY <3>2 DEF x, y, z
  <2> QED
    BY <2>2, <2>3
<1>2. a.heap = Plus(m.heap, m.next, o) /\ a.next = m.next + 1
  BY <1>1
<1>3. m.next \in Nat /\ \A k \in DOMAIN m.heap : k \in Nat /\ k < m.next
  BY DEF IsMachine
<1>4. Fresh(m, a) = {m.next}
  BY <1>2, <1>3 DEF Fresh
<1>5. /\ DOMAIN a.heap = DOMAIN m.heap \cup {m.next}
      /\ a.heap[m.next] = o
      /\ \A k \in DOMAIN m.heap : a.heap[k] = m.heap[k]
  BY <1>2, <1>3 DEF Plus
<1>6. IsMachine(a)
  <2>1. m.added + 1 \in Nat
    BY DEF IsMachine
  <2> HIDE DEF a
  <2> QED
    BY <1>1, <1>3, <1>5, <2>1 DEF IsMachine
<1>7. o \in DataOver(K \cup Fresh(m, a))
  <2>1. K \subseteq K \cup Fresh(m, a)
    OBVIOUS
  <2> QED
    BY <2>1, OverMore
<1> HIDE DEF a
<1>8. Grown(m, a, K)
  <2>1. a.next >= m.next
    BY <1>2, <1>3
  <2> QED
    BY <1>4, <1>5, <1>6, <1>7, <2>1 DEF Grown
<1> QED
  BY <1>4, <1>8 DEF a

LEMMA SettleOver ==
  ASSUME NEW K, NEW m, IsMachine(m), NEW r, ResultOver(r, K)
  PROVE  CallOver(m, Settle(m, r), K)
<1>1. CASE r.kind = "object"
  <2>1. r.o \in DataOver(K)
    BY <1>1 DEF ResultOver
  <2> DEFINE a == Allocate(m, r.o)
  <2>2. Settle(m, r) = [m |-> a, r |-> Ok(RefV(m.next))]
    BY <1>1 DEF Settle
  <2>3. Grown(m, a, K) /\ m.next \in Fresh(m, a) /\ m.next \in Nat
    BY <2>1, GrownOne DEF IsMachine
  <2> HIDE DEF a
  <2> DEFINE M == K \cup Fresh(m, a)
  <2>4. m.next \in M \cap Nat
    BY <2>3
  <2> HIDE DEF M
  <2>5. ResultOver(Ok(RefV(m.next)), M)
    BY <2>4, Primitives, Results
  <2>6. Ok(RefV(m.next)).kind # "object"
    BY DEF Ok
  <2> QED
    BY <2>2, <2>3, <2>5, <2>6 DEF CallOver, M
<1>2. CASE r.kind # "object"
  <2>1. Settle(m, r) = [m |-> m, r |-> r]
    BY <1>2 DEF Settle
  <2>2. Grown(m, m, K) /\ K \cup Fresh(m, m) = K
    BY GrownSame
  <2>3. Settle(m, r).m = m /\ Settle(m, r).r = r
    BY <2>1
  <2> QED
    BY <1>2, <2>2, <2>3 DEF CallOver
<1> QED
  BY <1>1, <1>2

LEMMA PrintedOver ==
  ASSUME NEW K, NEW m, IsMachine(m), NEW values, NEW tail, ResultOver(tail, K),
         tail.kind # "object"
  PROVE  CallOver(m, Printed(m, values, tail), K)
<1> DEFINE c == Printed(m, values, tail)
<1>1. CASE \E v \in Range(values) : IsEndless(v, m.heap)
  <2>1. c = Settle(m, Err("Panic"))
    BY <1>1 DEF Printed, Settle, Err
  <2> HIDE DEF c
  <2>2. CallOver(m, c, K)
    BY <2>1, Results, SettleOver
  <2> QED
    BY <2>2 DEF c
<1>2. CASE ~ \E v \in Range(values) : IsEndless(v, m.heap)
  <2> DEFINE shown == [j \in DOMAIN values |-> Shown(values[j], m.heap)]
             m2 == [m EXCEPT !.out = Append(@, shown)]
  <2>1. c = [m |-> m2, r |-> tail]
    BY <1>2 DEF Printed
  <2>2. PICK h, n, d, u : m = [heap |-> h, next |-> n, added |-> d, out |-> u]
    BY DEF IsMachine
  <2> HIDE DEF shown, c
  <2> DEFINE x == Append(m.out, shown)
  <2>3. m2 = [m EXCEPT !.out = x]
    OBVIOUS
  <2> HIDE DEF x, m2
  <2>4. m2 = [heap |-> h, next |-> n, added |-> d, out |-> x]
    BY <2>2, <2>3
  <2>5. m2.heap = m.heap /\ m2.next = m.next /\ m2.added = m.added /\ m2.out = x
    BY <2>2, <2>4
  <2>6. m.heap = h /\ m.next = n /\ m.added = d
    BY <2>2
  <2>7. IsMachine(m2)
    <3>1. m2 = [heap |-> m2.heap, next |-> m2.next, added |-> m2.added, out |-> m2.out]
      BY <2>4, <2>5, <2>6
    <3> QED
      BY <2>5, <3>1 DEF IsMachine
  <2>8. Grown(m, m2, K) /\ K \cup Fresh(m, m2) = K
    BY <2>5, <2>7, GrownSame
  <2>9. c.m = m2 /\ c.r = tail
    BY <2>1
  <2>10. CallOver(m, c, K)
    BY <2>8, <2>9 DEF CallOver
  <2> QED
    BY <2>10 DEF c
<1> QED
  BY <1>1, <1>2

(* A builtin that calls no other makes its result of its arguments, of     *)
(* what they hold and of the cell it allocates.                            *)
LEMMA SimpleOver ==
  ASSUME NEW K, NEW m, IsMachine(m), HeapOver(m.heap, K),
         NEW args \in Seq(ValuesOver(K)), NEW id
  PROVE  CallOver(m, Simple(id, args, m), K)
<1>1. CASE id \in {"print", "println"}
  <2>1. Simple(id, args, m) = Printed(m, args, Ok(NilV))
    BY <1>1 DEF Simple
  <2>2. ResultOver(Ok(NilV), K) /\ Ok(NilV).kind # "object"
    BY Results DEF Ok
  <2> QED
    BY <2>1, <2>2, PrintedOver
<1>2. CASE id = "error"
  <2>1. Simple(id, args, m) = Printed(m, UpTo(args, 1), Err("ValueError"))
    BY <1>2 DEF Simple
  <2>2. ResultOver(Err("ValueError"), K) /\ Err("ValueError").kind # "object"
    BY Results DEF Err
  <2> QED
    BY <2>1, <2>2, PrintedOver
<1>3. CASE id = "range"
  <2>1. Simple(id, args, m) = Settle(m, RangeOf(args))
    BY <1>3 DEF Simple
  <2> QED
    BY <2>1, RangeOver, SettleOver
<1>4. CASE id = "id"
  <2>1. Simple(id, args, m) = Settle(m, IF args = <<>> THEN Err("TypeError") ELSE Ok(args[1]))
    BY <1>4 DEF Simple
  <2>2. args # <<>> => ResultOver(Ok(args[1]), K)
    <3>1. args # <<>> => args[1] \in ValuesOver(K)
      BY ElementOfSeq
    <3> QED
      BY <3>1, Results
  <2>3. ResultOver(Err("TypeError"), K)
    BY Results
  <2> QED
    BY <2>1, <2>2, <2>3, SettleOver
<1>5. CASE id = "assert"
  <2>1. Simple(id, args, m) = AssertOf(args, m)
    BY <1>5 DEF Simple
  <2>2. ResultOver(Err("ValueError"), K) /\ Err("ValueError").kind # "object"
        /\ ResultOver(Err("TypeError"), K) /\ ResultOver(Ok(NilV), K)
    BY Results DEF Err
  <2>3. \/ AssertOf(args, m) = Settle(m, Err("TypeError"))
        \/ AssertOf(args, m) = Settle(m, Ok(NilV))
        \/ AssertOf(args, m) = Printed(m, UpTo(Without(args, 1), 1), Err("ValueError"))
    BY DEF AssertOf
  <2> QED
    BY <2>1, <2>2, <2>3, SettleOver, PrintedOver
<1>6. CASE id \in {"sum", "len", "head", "tail", "drop", "take"}
  <2>1. Simple(id, args, m) = Settle(m, OnContainer(id, args, m.heap))
    BY <1>6 DEF Simple
  <2> QED
    BY <1>6, <2>1, OnContainerOver, SettleOver
<1>7. CASE id \notin {"print", "println", "error", "range", "id", "assert",
                      "sum", "len", "head", "tail", "drop", "take"}
  <2>1. Simple(id, args, m) = Settle(m, Err("TypeError"))
    BY <1>7 DEF Simple
  <2> QED
    BY <2>1, Results, SettleOver
<1> QED
  BY <1>1, <1>2, <1>3, <1>4, <1>5, <1>6, <1>7

-----------------------------------------------------------------------------
(* A builtin applied to elements in turn: what it has made so far is over  *)
(* the keys it began with and those of the cells it has allocated.         *)
AppliedOver(m, acc, K) ==
  /\ Grown(m, acc.m, K)
  /\ ResultOver(acc.r, K \cup Fresh(m, acc.m))
  /\ acc.r.kind # "object"
  /\ acc.got \in Seq(ValuesOver(K \cup Fresh(m, acc.m)))

LEMMA ApplyOneOver ==
  ASSUME NEW K, NEW m, IsMachine(m), HeapOver(m.heap, K), NEW acc, AppliedOver(m, acc, K),
         NEW elem \in ValuesOver(K), NEW id, NEW f
  PROVE  AppliedOver(m, ApplyOne(id, f, acc, elem), K)
<1>1. CASE acc.r.kind = "error"
  BY <1>1 DEF ApplyOne
<1>2. CASE acc.r.kind # "error"
  <2> DEFINE M == K \cup Fresh(m, acc.m)
             c == Simple(f, <<elem>>, acc.m)
             next == Collect(id, acc, c)
             N == K \cup Fresh(m, c.m)
  <2>1. HeapOver(acc.m.heap, M) /\ IsMachine(acc.m)
    BY GrownHeap DEF AppliedOver, Grown
  <2>2. <<elem>> \in Seq(ValuesOver(M))
    <3>1. K \subseteq M
      OBVIOUS
    <3> HIDE DEF M
    <3>2. elem \in ValuesOver(M)
      BY <3>1, OverMore
    <3> QED
      BY <3>2
  <2> HIDE DEF M
  <2>3. CallOver(acc.m, c, M)
    BY <2>1, <2>2, SimpleOver
  <2> HIDE DEF c
  <2>4. Grown(acc.m, c.m, M) /\ ResultOver(c.r, M \cup Fresh(acc.m, c.m)) /\ c.r.kind # "object"
    BY <2>3 DEF CallOver
  <2>5. Grown(m, c.m, K) /\ M \cup Fresh(acc.m, c.m) = N
    BY <2>4, GrownTrans DEF AppliedOver, M
  <2>6. acc.got \in Seq(ValuesOver(N))
    <3>1. acc.got \in Seq(ValuesOver(M)) /\ M \subseteq N
      BY <2>5 DEF AppliedOver, M
    <3> HIDE DEF N
    <3> QED
      BY <3>1, OverMore
  <2> HIDE DEF N
  <2>7. ResultOver(c.r, N)
    BY <2>4, <2>5
  <2>8. c.r.kind = "value" => Append(acc.got, c.r.v) \in Seq(ValuesOver(N))
    <3>1. c.r.kind = "value" => c.r.v \in ValuesOver(N)
      BY <2>7 DEF ResultOver
    <3> QED
      BY <2>6, <3>1
  <2>9. next.m = c.m /\ next.r = c.r
    BY DEF Collect
  <2>10. next.got \in Seq(ValuesOver(N))
    <3>1. \/ next.got = acc.got
          \/ c.r.kind = "value" /\ next.got = Append(acc.got, c.r.v)
      BY DEF Collect
    <3> HIDE DEF next
    <3> QED
      BY <2>6, <2>8, <3>1
  <2>11. ApplyOne(id, f, acc, elem) = next
    BY <1>2 DEF ApplyOne, c
  <2> HIDE DEF next
  <2> QED
    BY <2>4, <2>5, <2>7, <2>9, <2>10, <2>11 DEF AppliedOver, N
<1> QED
  BY <1>1, <1>2

(* The function that AppliedTo chooses: it is defined by recursion.        *)
Applications(g, id, f, es, m) ==
  g = [n \in 0 .. Len(es) |->
         IF n = 0 THEN [m |-> m, r |-> Ok(NilV), got |-> <<>>]
         ELSE ApplyOne(id, f, g[n - 1], es[n])]

LEMMA ApplicationsExist ==
  ASSUME NEW id, NEW f, NEW es, Len(es) \in Nat, NEW m
  PROVE  \E g : Applications(g, id, f, es, m)
<1> DEFINE base == [m |-> m, r |-> Ok(NilV), got |-> <<>>]
           Fits(g, n) == /\ DOMAIN g = 0 .. n
                         /\ g[0] = base
                         /\ \A k \in 1 .. n : g[k] = ApplyOne(id, f, g[k - 1], es[k])
           N == Len(es)
           P == {n \in 0 .. N : \E g : Fits(g, n)}
<1> HIDE DEF base, N
<1> N \in Nat
  BY DEF N
<1>1. 0 \in P
  <2> DEFINE g == [k \in 0 .. 0 |-> base]
  <2>1. Fits(g, 0)
    OBVIOUS
  <2> HIDE DEF g, Fits
  <2> QED
    BY <2>1
<1>2. ASSUME NEW n \in 1 .. N, n - 1 \in P PROVE n \in P
  <2>1. PICK g : Fits(g, n - 1)
    BY <1>2
  <2> DEFINE h == [k \in 0 .. n |-> IF k < n THEN g[k] ELSE ApplyOne(id, f, g[n - 1], es[n])]
  <2>2. DOMAIN h = 0 .. n /\ h[0] = base
    BY <2>1
  <2>3. ASSUME NEW k \in 1 .. n PROVE h[k] = ApplyOne(id, f, h[k - 1], es[k])
    <3>1. h[k - 1] = g[k - 1]
      OBVIOUS
    <3>2. CASE k < n
      <4>1. h[k] = g[k] /\ g[k] = ApplyOne(id, f, g[k - 1], es[k])
        BY <2>1, <3>2
      <4> HIDE DEF h
      <4> QED
        BY <3>1, <4>1
    <3>3. CASE k = n
      <4>1. h[k] = ApplyOne(id, f, g[n - 1], es[n])
        BY <3>3
      <4> HIDE DEF h
      <4> QED
        BY <3>1, <3>3, <4>1
    <3> QED
      BY <3>2, <3>3
  <2> HIDE DEF h
  <2>4. Fits(h, n)
    BY <2>2, <2>3
  <2> HIDE DEF Fits
  <2> QED
    BY <2>4
<1> HIDE DEF P
<1>3. N \in P
  BY <1>1, <1>2, BoundedInduction
<1>4. PICK g : Fits(g, N)
  BY <1>3 DEF P
<1> DEFINE h == [n \in 0 .. N |-> IF n = 0 THEN base ELSE ApplyOne(id, f, g[n - 1], es[n])]
<1>5. ASSUME NEW n \in 0 .. N PROVE h[n] = g[n]
  BY <1>4
<1>6. h = [n \in 0 .. N |-> IF n = 0 THEN base ELSE ApplyOne(id, f, h[n - 1], es[n])]
  <2>1. ASSUME NEW n \in 0 .. N, n # 0 PROVE h[n - 1] = g[n - 1]
    BY <1>5, <2>1
  <2> QED
    BY <2>1
<1> HIDE DEF h
<1> QED
  BY <1>6 DEF Applications, base, N

LEMMA AppliedToOver ==
  ASSUME NEW K, NEW m, IsMachine(m), HeapOver(m.heap, K), NEW es \in Seq(ValuesOver(K)),
         NEW id, NEW f
  PROVE  AppliedOver(m, AppliedTo(id, f, es, m), K)
<1> DEFINE g == CHOOSE h : Applications(h, id, f, es, m)
           N == Len(es)
<1>1. AppliedTo(id, f, es, m) = g[Len(es)]
  BY DEF AppliedTo, Applications
<1>2. Applications(g, id, f, es, m)
  <2>1. Len(es) \in Nat
    OBVIOUS
  <2>2. \E h : Applications(h, id, f, es, m)
    BY <2>1, ApplicationsExist
  <2> QED
    BY <2>2
<1> HIDE DEF g
<1>3. /\ g[0] = [m |-> m, r |-> Ok(NilV), got |-> <<>>]
      /\ \A n \in 1 .. N : g[n] = ApplyOne(id, f, g[n - 1], es[n])
  BY <1>2 DEF Applications
<1> DEFINE Q == {n \in 0 .. N : AppliedOver(m, g[n], K)}
<1> N \in Nat
  OBVIOUS
<1>4. 0 \in Q
  <2>1. g[0].m = m /\ g[0].r = Ok(NilV) /\ g[0].got = <<>>
    BY <1>3
  <2>2. Grown(m, m, K) /\ K \cup Fresh(m, m) = K
    BY GrownSame
  <2>3. ResultOver(Ok(NilV), K) /\ Ok(NilV).kind # "object"
    BY Results DEF Ok
  <2>4. <<>> \in Seq(ValuesOver(K))
    OBVIOUS
  <2>5. AppliedOver(m, g[0], K)
    BY <2>1, <2>2, <2>3, <2>4 DEF AppliedOver
  <2> QED
    BY <2>5
<1>5. ASSUME NEW n \in 1 .. N, n - 1 \in Q PROVE n \in Q
  <2>1. es[n] \in ValuesOver(K)
    BY ElementOfSeq
  <2>2. AppliedOver(m, g[n - 1], K)
    BY <1>5
  <2>3. AppliedOver(m, ApplyOne(id, f, g[n - 1], es[n]), K)
    BY <2>1, <2>2, ApplyOneOver
  <2>4. AppliedOver(m, g[n], K)
    BY <1>3, <2>3
  <2> QED
    BY <2>4
<1> HIDE DEF N, Q
<1>6. N \in Q
  BY <1>4, <1>5, BoundedInduction
<1> QED
  BY <1>1, <1>6 DEF N, Q

(* No builtin makes a value of anything but its arguments, what they lead  *)
(* to and the cells it allocates itself; no builtin changes a cell.        *)
THEOREM InvokeOver ==
  ASSUME NEW K, NEW m, IsMachine(m), HeapOver(m.heap, K),
         NEW args \in Seq(ValuesOver(K)), NEW id
  PROVE  CallOver(m, Invoke(id, args, m), K)
<1> DEFINE f == IF Len(args) < 1 THEN NilV ELSE Resolve(args[1], m.heap)
           v == IF Len(args) < 2 THEN NilV ELSE Resolve(args[2], m.heap)
           end == AppliedTo(id, f.id, v.es, m)
<1>1. CASE id \notin {"map", "count"}
  BY <1>1, SimpleOver DEF Invoke
<1>2. CASE id \in {"map", "count"}
  <2>1. Invoke(id, args, m) = OverElements(id, args, m)
    BY <1>2 DEF Invoke
  <2>2. \/ \E e : OverElements(id, args, m) = Settle(m, Err(e))
        \/ v.t = "vec" /\ OverElements(id, args, m) = Collected(id, end)
    BY DEF OverElements
  <2>3. v.t = "vec" => v.es \in Seq(ValuesOver(K))
    <3>1. CASE Len(args) < 2
      BY <3>1 DEF NilV
    <3>2. CASE ~(Len(args) < 2)
      <4>1. args[2] \in ValuesOver(K)
        BY <3>2, ElementOfSeq
      <4>2. v = Resolve(args[2], m.heap)
        BY <3>2
      <4> HIDE DEF v
      <4> QED
        BY <4>1, <4>2, Resolved
    <3> QED
      BY <3>1, <3>2
  <2> HIDE DEF v, f
  <2>4. CASE \E e : OverElements(id, args, m) = Settle(m, Err(e))
    BY <2>1, <2>4, Results, SettleOver
  <2>5. CASE v.t = "vec" /\ OverElements(id, args, m) = Collected(id, end)
    <3>1. AppliedOver(m, end, K)
      BY <2>3, <2>5, AppliedToOver
    <3> HIDE DEF end
    <3> DEFINE M == K \cup Fresh(m, end.m)
               r == IF id = "map" THEN New(Vec(end.got)) ELSE Ok(IntV(Len(end.got)))
               c == Collected(id, end)
    <3>2. CASE end.r.kind = "error"
      <4>1. c = [m |-> end.m, r |-> end.r]
        BY <3>2 DEF Collected
      <4>2. c.m = end.m /\ c.r = end.r
        BY <4>1
      <4> HIDE DEF c
      <4>3. CallOver(m, c, K)
        BY <3>1, <4>2 DEF CallOver, AppliedOver
      <4> QED
        BY <2>1, <2>5, <4>3 DEF c
    <3>3. CASE end.r.kind # "error"
      <4>1. c = Settle(end.m, r)
        BY <3>3 DEF Collected
      <4>2. end.got \in Seq(ValuesOver(M)) /\ Grown(m, end.m, K) /\ IsMachine(end.m)
        BY <3>1 DEF AppliedOver, Grown
      <4> HIDE DEF M
      <4>3. ResultOver(r, M)
        <5>1. Len(end.got) \in Int
          BY <4>2
        <5> QED
          BY <4>2, <5>1, Results
      <4> HIDE DEF r, c
      <4>4. CallOver(end.m, c, M)
        BY <4>1, <4>2, <4>3, SettleOver
      <4>5. Grown(end.m, c.m, M) /\ ResultOver(c.r, M \cup Fresh(end.m, c.m)) /\ c.r.kind # "object"
        BY <4>4 DEF CallOver
      <4>6. Grown(m, c.m, K) /\ M \cup Fresh(end.m, c.m) = K \cup Fresh(m, c.m)
        BY <4>2, <4>5, GrownTrans DEF M
      <4>7. CallOver(m, c, K)
        BY <4>5, <4>6 DEF CallOver
      <4> QED
        BY <2>1, <2>5, <4>7 DEF c
    <3> QED
      BY <3>2, <3>3
  <2> QED
    BY <2>2, <2>4, <2>5
<1> QED
  BY <1>1, <1>2
(* The range of a release build holds integers.                            *)
LEMMA WrappedOver ==
  ASSUME NEW K, NEW a \in Int, NEW b, NEW d \in Int
  PROVE  ResultOver(WrappedRange(a, b, d), K)
<1> DEFINE Counters == 0 .. 2 * MaxInt + 2
           IsPast(n) == IF d > 0 THEN Wrap(a + n * d) >= b ELSE Wrap(a + n * d) <= b
           rounds == {n \in Counters : \A m \in 0 .. n : ~IsPast(m)}
           got == [j \in 1 .. Cardinality(rounds) |-> IntV(Wrap(a + (j - 1) * d))]
<1>1. \/ WrappedRange(a, b, d) = Err("Endless")
      \/ WrappedRange(a, b, d) = New(Vec(got))
  BY DEF WrappedRange
<1>2. IsFiniteSet(Counters) /\ rounds \subseteq Counters
  BY MaxIntAssumption, FS_Interval
<1> HIDE DEF rounds, Counters
<1>3. Cardinality(rounds) \in Nat
  BY <1>2, FS_Subset, FS_CardinalityType
<1>4. \A j \in 1 .. Cardinality(rounds) : IntV(Wrap(a + (j - 1) * d)) \in ValuesOver(K)
  <2>1. ASSUME NEW j \in 1 .. Cardinality(rounds)
        PROVE  IntV(Wrap(a + (j - 1) * d)) \in ValuesOver(K)
    <3>1. a + (j - 1) * d \in Int
      BY <1>3
    <3> DEFINE n == a + (j - 1) * d
    <3>2. n \in Int
      BY <3>1
    <3> HIDE DEF n
    <3>3. IntV(Wrap(n)) \in ValuesOver(K)
      BY <3>2, WrapInt, Primitives
    <3> QED
      BY <3>3 DEF n
  <2> QED
    BY <2>1
<1>5. got \in Seq(ValuesOver(K))
  BY <1>3, <1>4
<1> HIDE DEF got
<1> QED
  BY <1>1, <1>5, Results

(* No call of a builtin, in either build, makes a value of anything but its *)
(* arguments, what they lead to and the cells it allocates itself.          *)
THEOREM CallsOver ==
  ASSUME NEW K, NEW m, IsMachine(m), HeapOver(m.heap, K),
         NEW args \in Seq(ValuesOver(K)), NEW id, NEW c \in CallOutcomes(id, args, m)
  PROVE  CallOver(m, c, K)
<1> DEFINE step == IF Len(args) < 3 THEN 1 ELSE args[3].i
           wrapped == WrappedRange(args[1].i, args[2].i, step)
<1>1. \/ c = Invoke(id, args, m)
      \/ RangeOf(args) = Err("Panic") /\ c = Settle(m, wrapped)
  BY DEF CallOutcomes
<1>2. CASE c = Invoke(id, args, m)
  BY <1>2, InvokeOver
<1>3. CASE RangeOf(args) = Err("Panic") /\ c = Settle(m, wrapped)
  <2>1. ResultOver(wrapped, K)
    <3>1. /\ Len(args) >= 1 /\ args[1].t = "int"
          /\ Len(args) >= 3 => args[3].t = "int"
      BY <1>3, PanicOfRange
    <3>2. \A j \in 1 .. Len(args) : args[j] \in ValuesOver(K)
      BY ElementOfSeq
    <3>3. args[1].i \in Int /\ step \in Int
      BY <3>1, <3>2, ValueKinds
    <3> HIDE DEF step
    <3> QED
      BY <3>3, WrappedOver
  <2> HIDE DEF wrapped
  <2> QED
    BY <1>3, <2>1, SettleOver
<1> QED
  BY <1>1, <1>2, <1>3
=============================================================================
