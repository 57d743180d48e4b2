------------------------------- MODULE MCSmall -------------------------------
(***************************************************************************)
(* Small programs, all of a kind: two fragments in a row, in a context.    *)
(* Compiled, optimized or not, and executed, each is compared with its     *)
(* meaning.                                                                *)
(***************************************************************************)
EXTENDS Pipeline, Semantics, Sources

Fragments ==
  [bump    |-> <<OpAssign(Var("x"), "Add", Num(1))>>,
   shadow  |-> <<LetMut("x", Num(5))>>,
   local   |-> <<LetMut("y", Num(7)), Say(<<Var("y")>>)>>,
   closure |-> <<LetMut("f", Thunk(<<OpAssign(Var("x"), "Add", Num(2))>>, Var("x"))),
                 Say(<<CallE("f", <<>>), Var("x")>>)>>,
   named   |-> <<FnDef("f", <<>>, BlockEnd(<<Assign("x", Num(4))>>, Ret(Var("x"))))>>,
   call    |-> <<Say(<<CallE("f", <<>>), Var("x")>>)>>,
   partial |-> <<FnDef("k", <<"a", "b">>, BlockEnd(<<>>, Ret(Arr(<<Var("a"), Var("x"), Var("b")>>)))),
                 LetMut("h", CallE("k", <<Num(8)>>)), Say(<<CallE("h", <<Var("x")>>)>>)>>,
   early   |-> <<FnDef("f", <<>>,
                   BlockEnd(<<For("e", Var("v"), Block(<<When(Less(Num(0), Var("e")), Ret(Var("e")))>>))>>,
                            Ret(Num(6)))),
                 Say(<<CallE("f", <<>>)>>)>>,
   rec     |-> <<FnDef("down", <<"n">>,
                   BlockEnd(<<When(Less(Var("n"), Num(1)), Ret(Num(0)))>>,
                     Ret(Bin("Add", Var("x"), CallE("down", <<Bin("Subtract", Var("n"), Num(1))>>))))),
                 Say(<<CallE("down", <<Num(2)>>)>>)>>,
   nest    |-> <<For("e", Var("v"),
                   Block(<<ForRange("i", Num(0), Num(3), None, TRUE,
                             Block(<<LetMut("y", Var("i")), When(Equal(Var("y"), Var("e")), Continue),
                                     When(Equal(Var("y"), Num(2)), Break),
                                     OpAssign(Var("x"), "Add", Var("y"))>>)),
                           LetMut("z", Var("x")), Say(<<Var("z")>>)>>))>>,
   branch  |-> <<If(Less(Var("x"), Num(3)),
                    Block(<<LetMut("y", Bin("Add", Var("x"), Num(3))), Assign("x", Var("y"))>>), <<>>,
                    Block(<<Assign("v", Bin("Add", Var("v"), Arr(<<Var("x")>>)))>>))>>,
   each    |-> <<For("e", Var("v"),
                   Block(<<LetMut("y", Var("e")), When(Equal(Var("y"), Num(1)), Break),
                           OpAssign(Var("x"), "Add", Var("y"))>>))>>,
   count   |-> <<ForRange("i", Num(0), Num(2), None, FALSE,
                   Block(<<LetMut("z", Var("i")), OpAssign(Var("v"), "Add", Arr(<<Var("z")>>))>>))>>,
   loop    |-> <<While(Less(Var("x"), Num(6)),
                   Block(<<LetMut("y", Num(2)), OpAssign(Var("x"), "Add", Var("y")),
                           When(Equal(Var("x"), Num(5)), Continue)>>))>>,
   store   |-> <<OpAssign(At0("v"), "Assign", Var("x"))>>,
   append  |-> <<OpAssign(Var("v"), "Add", Arr(<<Var("x")>>))>>,
   alias   |-> <<LetMut("w", Var("v")), OpAssign(Var("v"), "Add", Arr(<<Num(9)>>)), Say(<<Var("w")>>)>>,
   chain   |-> <<Say(<<Cmp(Num(0), <<[op |-> "Less", e |-> Var("x")],
                                     [op |-> "Less", e |-> Num(3)]>>)>>)>>,
   window  |-> <<Say(<<Bin("Add", Log("or", Var("x"), Num(1)), Num(2))>>)>>]

Contexts == {"top", "body", "rounds", "inside"}

Before == <<LetMut("x", Num(1)), LetMut("v", Arr(<<Num(0)>>))>>
After  == <<Say(<<Var("x"), Var("v")>>)>>

InContext(context, body) ==
  Block(CASE context = "top"    -> Before \o body \o After
          [] context = "body"   -> <<FnDef("g", <<>>, Block(Before \o body \o After)), CallE("g", <<>>)>>
          [] context = "rounds" -> Before \o <<ForRange("r", Num(0), Num(2), None, FALSE, Block(body))>>
                                   \o After
          [] context = "inside" -> Before \o <<If(True, Block(body), <<>>, None)>> \o After)

(* Left out: the pairs that meet one of the defects whose outcome MCVM has *)
(* among its Edges.  A captured name with two locals; a slot used again    *)
(* after a captured local (here a function that names itself, in a loop);  *)
(* a partial application the collector takes; and, optimized, an element   *)
(* assigned to and a jump into a window.                                   *)
Has(p, names) == {p[2], p[3]} \cap names # {}
Regular(p) ==
  /\ ~(p[2] = "shadow" /\ p[3] \in {"closure", "partial", "rec"})
  /\ ~(p[1] = "rounds" /\ Has(p, {"partial", "rec"}))
  /\ ~(p[4] = "optimized" /\ Has(p, {"store", "window"}))

Keys ==
  LET names == DOMAIN Fragments
  IN  {p \in Contexts \X names \X names \X {"plain", "optimized"} : Regular(p)}
Tree(p) == InContext(p[1], Fragments[p[2]] \o Fragments[p[3]])
SmallPrograms == [p \in Keys |-> Built(Tree(p), p[4] = "optimized")]

SmallBuiltins == <<"println", "len">>
FromNone == {0}

(* Whatever the stages do in between, a program ends as its source says,   *)
(* and prints what it says: slots, cells, captured variables, in-place     *)
(* appends, jumps out of loops, folded constants and collections change    *)
(* nothing a reader of the source could see.                               *)
EndsAs(m) == m.status = status /\ m.out = out /\ (status = "error" => m.kind = fault.kind)
MeansItsSource == status # "run" => EndsAs(Meaning(Tree(program)))
=============================================================================
