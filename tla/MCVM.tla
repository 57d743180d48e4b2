-------------------------------- MODULE MCVM --------------------------------
(***************************************************************************)
(* Programs for the VM, compiled by the model of the compiler, plain and   *)
(* optimized, and what each must come to.  Many restate a program of       *)
(* l3/tests/snapshot.                                                      *)
(***************************************************************************)
EXTENDS KnownConstants, Pipeline, Sources

(* closures_stateful.l3: counters that share nothing.                      *)
Counters ==
  <<FnDef("make", <<"start">>,
      BlockEnd(<<LetMut("value", Var("start"))>>,
               Ret(Fn(<<"d">>, BlockEnd(<<OpAssign(Var("value"), "Add", Var("d"))>>,
                                        Ret(Var("value"))))))),
    LetIs("a", CallE("make", <<Num(0)>>)),
    LetIs("b", CallE("make", <<Num(10)>>)),
    Say(<<CallE("a", <<Num(1)>>)>>), Say(<<CallE("a", <<Num(5)>>)>>),
    Say(<<CallE("b", <<Num(2)>>)>>), Say(<<CallE("a", <<Num(3)>>)>>)>>

(* closures_recursive_factory.l3: a closure that makes closures.           *)
PowerFactory ==
  <<FnDef("make", <<"n">>,
      BlockEnd(<<FnDef("power", <<"x">>,
                  BlockEnd(<<When(Equal(Var("n"), Num(1)), Ret(Var("x"))),
                             LetIs("prev", CallE("make", <<Bin("Subtract", Var("n"), Num(1))>>))>>,
                           Ret(Bin("Multiply", Var("x"), CallE("prev", <<Var("x")>>)))))>>,
               Ret(Var("power")))),
    LetIs("cube", CallE("make", <<Num(3)>>)),
    Say(<<CallE("cube", <<Num(4)>>)>>)>>

(* recursion_indirect.l3: a function that calls one defined after it.      *)
EvenOdd ==
  LET parity(name, other, base) ==
        FnDef(name, <<"n">>,
          BlockEnd(<<When(Equal(Var("n"), Num(0)), Ret(Lit(BoolV(base))))>>,
                   Ret(CallE(other, <<Bin("Subtract", Var("n"), Num(1))>>))))
  IN  <<parity("is_even", "is_odd", TRUE), parity("is_odd", "is_even", FALSE),
        Say(<<CallE("is_even", <<Num(3)>>)>>)>>

(* loop_control_for.l3 and control_flow.l3: break and continue from inside *)
(* a block with locals of its own, in each kind of loop.                   *)
ForLoops ==
  <<For("x", Nums(<<1, 2, 3, 4>>),
        Block(<<LetIs("y", Var("x")),
                If(Equal(Var("y"), Num(2)), BlockEnd(<<LetIs("z", Num(0))>>, Continue), <<>>, None),
                If(Equal(Var("y"), Num(4)), BlockEnd(<<LetIs("z", Num(0))>>, Break), <<>>, None),
                Say(<<Var("x")>>)>>))>>
RangeLoops ==
  <<ForRange("i", Num(0), Num(6), Num(2), TRUE,
        Block(<<When(Equal(Var("i"), Num(2)), Continue), Say(<<Var("i")>>)>>)),
    ForRange("i", Num(3), Num(9), None, FALSE,
        Block(<<LetIs("y", Var("i")), When(Equal(Var("y"), Num(5)), Break), Say(<<Var("y")>>)>>))>>
WhileLoops ==
  <<LetMut("n", Num(0)),
    While(Less(Var("n"), Num(3)),
        Block(<<OpAssign(Var("n"), "Add", Num(1)),
                If(Equal(Var("n"), Num(2)), BlockEnd(<<LetIs("z", Num(0))>>, Continue), <<>>,
                   Block(<<Say(<<Var("n")>>)>>))>>))>>

(* Loops in loops: each break and continue is for the innermost.           *)
LoopsInLoops ==
  <<LetMut("n", Num(0)),
    For("x", Nums(<<1, 2, 3>>),
        Block(<<ForRange("i", Num(0), Num(2), None, FALSE,
                  Block(<<LetIs("y", Var("i")), When(Equal(Var("y"), Num(1)), Break),
                          When(Equal(Var("x"), Num(2)), Continue),
                          OpAssign(Var("n"), "Add", Num(1))>>)),
                While(Less(Var("n"), Num(5)),
                  Block(<<OpAssign(Var("n"), "Add", Var("x")),
                          When(Equal(Var("n"), Num(3)), Continue)>>)),
                When(Equal(Var("x"), Num(1)), Continue),
                LetIs("z", Var("x"))>>))>>

(* Vectors: shared, changed in place, copied by `+'.                       *)
Vectors ==
  <<LetMut("v", Nums(<<1, 2>>)),
    LetIs("w", Var("v")),
    OpAssign(At0("w"), "Assign", Arr(<<Num(7)>>)),
    OpAssign(Idx(Var("w"), Num(1)), "Add", Num(3)),
    Say(<<Var("v")>>),
    Assign("v", Bin("Add", Var("v"), Nums(<<9>>))),
    Say(<<Var("w"), CallE("len", <<Var("v")>>)>>)>>

(* A vector that grows in place while it holds the only references to     *)
(* what it grew by; each round drops a vector of its own.                  *)
Growing ==
  <<LetMut("v", Arr(<<>>)),
    ForRange("i", Num(0), Num(3), None, FALSE,
        Block(<<OpAssign(Var("v"), "Add", Arr(<<Arr(<<Var("i")>>)>>)),
                LetIs("t", Arr(<<Var("i")>>)),
                Assign("v", Bin("Add", Var("v"), Arr(<<Var("t")>>)))>>)),
    Say(<<Var("v")>>)>>

Destructured ==
  <<FnDef("bump", <<"n", "m">>,
      BlockEnd(<<Assign("n", Bin("Add", Var("m"), Num(1)))>>, Ret(Var("n")))),
    Let(<<"a", "b">>, FALSE, Arr(<<Num(1), Nums(<<2, 3>>)>>)),
    Let(<<"c", "d">>, TRUE, Var("b")),
    Assign("c", Bin("Add", Var("a"), Var("d"))),
    Say(<<Var("a"), Var("b"), Var("c"), CallE("bump", <<Var("a"), Var("d")>>), Var("d")>>)>>

(* comparisons_and_logic.l3 and chained_comparison_sideeffect.l3           *)
Logic ==
  <<FnDef("mid", <<>>, BlockEnd(<<Say(<<Num(0)>>)>>, Ret(Num(1)))),
    Say(<<Cmp(Num(0), <<[op |-> "Less", e |-> CallE("mid", <<>>)], [op |-> "LessEqual", e |-> Num(1)]>>)>>),
    Say(<<Cmp(Num(2), <<[op |-> "Less", e |-> CallE("mid", <<>>)], [op |-> "NotEqual", e |-> Num(1)]>>)>>),
    Say(<<Log("or", Un("Not", Var("mid")), Log("and", Num(3), Text(5)))>>),
    Say(<<Un("Negate", CallE("mid", <<>>)), Bin("Add", Num(1), Un("Negate", Num(3)))>>)>>

Library ==
  <<LetIs("v", Arr(<<Nums(<<1>>), Nums(<<2, 3>>), Text(4)>>)),
    Say(<<CallE("map", <<Var("len"), Var("v")>>)>>),
    Say(<<CallE("count", <<Var("id"), Arr(<<Num(0), Var("v"), Arr(<<>>)>>)>>)>>),
    Say(<<CallE("tail", <<Var("v")>>), CallE("head", <<Text(8)>>)>>),
    Say(<<CallE("sum", <<CallE("range", <<Num(5), Num(0), Un("Negate", Num(2))>>)>>)>>),
    Say(<<CallE("take", <<CallE("drop", <<Var("v")>>), Num(1)>>)>>)>>

(* A closure that changes the constant another one has captured.           *)
CapturedConstant ==
  <<LetMut("x", Num(1)),
    LetIs("f", Fn(<<>>, Block(<<Assign("x", Num(2))>>))),
    CallE("f", <<>>),
    Say(<<Bin("Add", Var("x"), Num(3))>>)>>

(* One local, its cell in two closures.                                    *)
SharedCell ==
  <<LetMut("x", Num(1)),
    LetIs("bump", Fn(<<>>, Block(<<OpAssign(Var("x"), "Add", Num(4))>>))),
    LetIs("times", Fn(<<"d">>, BlockEnd(<<>>, Ret(Bin("Multiply", Var("x"), Var("d")))))),
    CallE("bump", <<>>),
    Say(<<CallE("times", <<Num(2)>>), Var("x")>>)>>

(* A result handed back by a call that collects, held by a vector alone:   *)
(* the sum before it allocates without collecting.                         *)
HandedBack ==
  <<LetIs("v", Bin("Add", Arr(<<Nums(<<1>>)>>), Arr(<<>>))),
    LetIs("f", Var("id")),
    Say(<<CallE("f", <<At0("v")>>)>>)>>

(* Constants where paths meet: the same on each path, and different.       *)
Merged ==
  <<LetMut("a", Num(1)), LetMut("b", Num(1)), LetIs("c", CallE("len", <<Nums(<<1>>)>>)),
    If(Equal(Var("c"), Num(1)),
       Block(<<Assign("a", Num(2)), Assign("b", Num(5))>>), <<>>, Block(<<Assign("a", Num(2))>>)),
    Say(<<Bin("Multiply", Var("a"), Num(3)), Var("b")>>)>>

(* Code after a jump that nothing leads to.                                *)
DeadCode ==
  <<FnDef("f", <<"n">>,
      BlockEnd(<<While(True, BlockEnd(<<When(Less(Num(3), Var("n")), Break),
                                        OpAssign(Var("n"), "Add", Num(2))>>, Continue))>>,
               Ret(Var("n")))),
    Say(<<CallE("f", <<Num(0)>>)>>)>>

(* Vectors that hold each other.                                           *)
EachOther ==
  <<LetIs("v", Nums(<<0, 1>>)), LetIs("w", Nums(<<0, 2>>)),
    OpAssign(At0("v"), "Assign", Var("w")), OpAssign(At0("w"), "Assign", Var("v")),
    Say(<<Less(Var("v"), Var("w")), Less(Var("w"), Var("v")), Equal(Var("v"), Var("w"))>>),
    OpAssign(Idx(Var("w"), Num(1)), "Assign", Num(1)),
    Say(<<Equal(Var("v"), Var("w"))>>)>>

-----------------------------------------------------------------------------
(* Programs that fail as they should.                                      *)
Undefined  == <<Say(<<Var("nobody")>>)>>
BadOperand == <<LetIs("f", Fn(<<"x">>, BlockEnd(<<>>, Ret(Bin("Subtract", Var("x"), Num(1)))))),
                Say(<<CallE("f", <<Text(1)>>)>>)>>
BadNegate  == <<LetIs("s", Text(1)), Say(<<Un("Negate", Var("s"))>>)>>
BadLimit   == <<ForRange("i", Num(0), Text(1), None, FALSE, Block(<<Say(<<Var("i")>>)>>))>>
NotCallable == <<LetIs("f", Num(3)), CallE("f", <<>>)>>
TooMany    == <<FnDef("f", <<>>, Block(<<Say(<<Num(1)>>)>>)), CallE("f", <<>>), CallE("f", <<Num(1)>>)>>
Raised     == <<LetIs("f", Var("error")), CallE("f", <<Num(1)>>)>>
Asserted   == <<CallE("assert", <<True>>), CallE("assert", <<Arr(<<>>), Num(1)>>)>>
BadAppend  == <<LetMut("v", Num(1)), OpAssign(Var("v"), "Add", Nums(<<1>>))>>
BadIndex   == <<LetIs("v", Nums(<<1>>)), Say(<<Idx(Var("v"), Num(1))>>)>>
BadStore   == <<LetIs("v", Nums(<<1>>)), OpAssign(Idx(Var("v"), Un("Negate", Num(1))), "Assign", Num(1))>>

(* comparisons_and_logic.l3: at top level a return gives its block's value. *)
IfValue ==
  <<LetIs("m", If(Less(Num(1), Num(2)), BlockEnd(<<>>, Ret(Text(6))), <<>>,
                  BlockEnd(<<>>, Ret(Num(2))))),
    Say(<<Var("m"), At0("m")>>)>>

-----------------------------------------------------------------------------
(* Programs that come to something else than their source says.            *)

(* A block that returns keeps its locals at compile time: what follows is  *)
(* compiled as if they were on the stack.                                  *)
LeakedLocal ==
  <<FnDef("f", <<"n">>,
      BlockEnd(<<If(Equal(Var("n"), Num(0)),
                    BlockEnd(<<LetIs("a", Num(5))>>, Ret(Var("a"))), <<>>, None),
                 LetIs("b", Num(1))>>,
               Ret(Var("b")))),
    Say(<<CallE("f", <<Num(0)>>)>>),
    Say(<<CallE("f", <<Num(2)>>)>>)>>
LeakedAtTop ==
  <<If(False, BlockEnd(<<LetIs("a", Num(5))>>, Ret(Var("a"))), <<>>, None)>>

(* The same in a loop: a round that does not return leaves its local, and  *)
(* the next one reads it (6 where the source says 1).                      *)
EarlyReturn ==
  <<FnDef("positive", <<"v">>,
      BlockEnd(<<For("e", Var("v"), Block(<<LetIs("y", Var("e")),
                   When(Less(Num(0), Var("y")), Ret(Var("y")))>>))>>, Ret(Num(6)))),
    Say(<<CallE("positive", <<Nums(<<1, 2>>)>>), CallE("positive", <<Nums(<<0, 1>>)>>)>>)>>

(* An inclusive range up to the greatest integer.                          *)
ToTheEnd == <<ForRange("i", Num(MaxInt - 1), Num(MaxInt), None, TRUE, Block(<<LetIs("x", Var("i"))>>))>>

(* A step down: the loop's first test fails at once.                       *)
Downward == <<ForRange("i", Num(5), Num(0), Un("Negate", Num(2)), FALSE, Block(<<Say(<<Var("i")>>)>>))>>

(* An elif branch is not compiled.                                         *)
ElifDropped ==
  <<LetIs("x", Num(2)),
    If(Equal(Var("x"), Num(1)), Block(<<Say(<<Num(1)>>)>>),
       <<ElIf(Equal(Var("x"), Num(2)), Block(<<Say(<<Num(2)>>)>>))>>,
       Block(<<Say(<<Num(3)>>)>>))>>

(* A local of a loop body, captured: the slot keeps the cell of the first  *)
(* round (0 again in the second round, where the source says 1).           *)
FirstRound ==
  <<ForRange("i", Num(0), Num(2), None, FALSE,
      Block(<<LetIs("y", Var("i")), LetIs("k", Fn(<<>>, BlockEnd(<<>>, Ret(Var("y"))))),
              Say(<<CallE("k", <<>>), Var("y"), Var("i")>>)>>))>>

(* A vector printed from inside itself.                                    *)
PrintsItself ==
  <<LetIs("v", Nums(<<0>>)), OpAssign(At0("v"), "Assign", Var("v")), Say(<<Var("v")>>)>>

(* A result the collector may free before it is pushed.                    *)
LostResult ==
  <<LetIs("f", Var("id")), Say(<<CallE("len", <<CallE("f", <<Nums(<<1>>)>>)>>)>>)>>
LostResult2 ==
  <<LetIs("f", Var("id")), LetIs("g", Var("len")),
    Say(<<CallE("g", <<CallE("f", <<Nums(<<1>>)>>)>>)>>)>>

(* currying_partial_application.l3: arguments given in several calls keep  *)
(* their order, and a partial application can be used again.               *)
Curried ==
  <<FnDef("f", <<"a", "b", "c">>, BlockEnd(<<>>, Ret(Arr(<<Var("a"), Var("b"), Var("c")>>)))),
    LetIs("g", CallE("f", <<Num(1)>>)),
    LetIs("h", CallE("g", <<Num(2)>>)),
    Say(<<CallE("h", <<Num(3)>>), CallE("g", <<Num(4), Num(5)>>), CallE("h", <<Num(6)>>)>>)>>

(* A closure over the counter of a range loop.                             *)
CapturedCounter ==
  <<ForRange("i", Num(0), Num(2), None, FALSE,
      Block(<<LetIs("f", Fn(<<>>, BlockEnd(<<>>, Ret(Var("i"))))), Say(<<CallE("f", <<>>)>>)>>))>>

(* A vector appended to in a loop, and handed on between the rounds.       *)
HandedOn ==
  <<LetMut("v", Arr(<<>>)), LetMut("w", Arr(<<>>)),
    ForRange("i", Num(0), Num(2), None, FALSE,
        Block(<<OpAssign(Var("v"), "Add", Arr(<<Var("i")>>)), Assign("w", Var("v"))>>)),
    Say(<<Var("w")>>)>>

(* The last step of `range' passes the greatest integer.                   *)
RangeToTheEnd == <<Say(<<CallE("range", <<Num(MaxInt - 1), Num(MaxInt), Num(2)>>)>>)>>
RangeWraps    == <<Say(<<CallE("len", <<CallE("range", <<Num(0), Num(120), Num(100)>>)>>)>>)>>

(* A closure takes the first local of the name, and assigns to it although *)
(* it is immutable (the second `s' is still 2, where the source says 3).   *)
ShadowedCapture ==
  <<LetIs("s", Num(1)), LetMut("s", Num(2)),
    LetIs("h", Fn(<<>>, BlockEnd(<<Assign("s", Num(3))>>, Ret(Var("s"))))),
    Say(<<CallE("h", <<>>), Var("s")>>)>>

(* A variable two functions out is looked for among the globals.           *)
TwoOut ==
  <<LetIs("x", Num(1)),
    LetIs("f", Fn(<<>>, BlockEnd(<<LetIs("g", Fn(<<>>, BlockEnd(<<>>, Ret(Var("x")))))>>,
                                 Ret(CallE("g", <<>>))))),
    Say(<<CallE("f", <<>>)>>)>>

(* The slot of a captured local, used again: GetLocal reads the old cell   *)
(* (1 for 9).  Optimized, the constant is read from the code.              *)
ReusedSlot ==
  <<If(True, Block(<<LetIs("x", Num(1)), LetIs("f", Thunk(<<>>, Var("x")))>>), <<>>, None),
    LetIs("y", Num(9)), Say(<<Var("y")>>)>>

(* Where the optimizer goes wrong: its stack after an assignment to an     *)
(* element (twice), a window with a jump into it, functions compared.      *)
StoredElement ==
  <<LetIs("v", Nums(<<1>>)), OpAssign(At0("v"), "Assign", Num(5)), LetIs("x", Num(7)),
    Say(<<Var("v")>>)>>
HoldsItself ==
  Vectors \o <<OpAssign(At0("w"), "Assign", Var("w")), Say(<<Equal(Var("w"), At0("w"))>>)>>
IntoWindow ==
  <<FnDef("f", <<"x">>, BlockEnd(<<>>, Ret(Bin("Add", Log("or", Var("x"), Num(1)), Num(2))))),
    Say(<<CallE("f", <<Num(5)>>)>>)>>
SameFunction ==
  <<FnDef("g", <<>>, Block(<<>>)), Say(<<Equal(Var("g"), Var("g"))>>)>>

(* Five of them in a row, each of which prints a line of its own.          *)
Misread == ElifDropped \o IntoWindow \o SameFunction \o ShadowedCapture \o FirstRound

-----------------------------------------------------------------------------
(* Each program, compiled, and compiled and optimized.                     *)
Bytecodes(sources) ==
  [p \in {<<name, mode>> : name \in DOMAIN sources, mode \in {"plain", "optimized"}} |->
     Built(Block(sources[p[1]]), p[2] = "optimized")]

Everyday ==
  [counters |-> Counters, power |-> PowerFactory, evenodd |-> EvenOdd, forloops |-> ForLoops,
   rangeloops |-> RangeLoops, whileloops |-> WhileLoops,
   nested |-> LoopsInLoops \o <<Say(<<Var("n")>>)>>, ended |-> LoopsInLoops,
   vectors |-> Vectors, growing |-> Growing,
   destructured |-> Destructured, logic |-> Logic,
   library |-> Library, capturedconstant |-> CapturedConstant, sharedcell |-> SharedCell,
   merged |-> Merged, deadcode |-> DeadCode, eachother |-> EachOther, handedback |-> HandedBack,
   undefined |-> Undefined, badoperand |-> BadOperand, badnegate |-> BadNegate,
   badlimit |-> BadLimit, notcallable |-> NotCallable, toomany |-> TooMany, raised |-> Raised,
   asserted |-> Asserted, badappend |-> BadAppend, badindex |-> BadIndex, badstore |-> BadStore,
   ifvalue |-> IfValue]
Edges ==
  [leakedlocal |-> LeakedLocal, leakedattop |-> LeakedAtTop, earlyreturn |-> EarlyReturn,
   totheend |-> ToTheEnd, rangetotheend |-> RangeToTheEnd, rangewraps |-> RangeWraps,
   downward |-> Downward, elifdropped |-> ElifDropped, firstround |-> FirstRound,
   printsitself |-> PrintsItself, lostresult |-> LostResult, lostresult2 |-> LostResult2,
   curried |-> Curried, shadowedcapture |-> ShadowedCapture, twoout |-> TwoOut,
   reusedslot |-> ReusedSlot, storedelement |-> StoredElement, holdsitself |-> HoldsItself,
   intowindow |-> IntoWindow, samefunction |-> SameFunction]
EverydayPrograms == Bytecodes(Everyday)
EdgePrograms     == Bytecodes(Edges)
LeakedPrograms   == Bytecodes([leakedlocal |-> LeakedLocal])
CounterPrograms  == Bytecodes([captured |-> CapturedCounter])
StoredPrograms   == Bytecodes([storedelement |-> StoredElement])
HandedOnPrograms == Bytecodes([handedon |-> HandedOn])
LocatedPrograms  == Bytecodes([badoperand |-> BadOperand])
MisreadPrograms  == [p \in {<<"misread", "optimized">>} |-> Built(Block(Misread), TRUE)]

UsedBuiltins == <<"println", "len", "id", "error">>

FromNone == {0}
FromAny  == 0 .. BaseThreshold

-----------------------------------------------------------------------------
(* What a program may come to.                                             *)
Lines(ls)     == [j \in DOMAIN ls |-> <<ls[j]>>]
Done(ls)      == {[status |-> "done", out |-> ls]}
Failed(e, ls) == {[status |-> "error", kind |-> e, out |-> ls]}
Invalid(ls)   == {[status |-> "invalid", out |-> ls]}
Endless(ls)   == {[status |-> "endless", out |-> ls]}
Ints(s)       == [j \in DOMAIN s |-> IntV(s[j])]
VecOf(s)      == Vec(Ints(s))
T(c)          == Str(<<c>>)

ComesTo(outcomes) ==
  \E e \in outcomes : e.status = status /\ e.out = out /\ (status = "error" => e.kind = fault.kind)

(* What the source of each program means, for those that restate a test of *)
(* the repository the output the test expects.                             *)
Expected ==
  [counters     |-> Done(Lines(Ints(<<1, 6, 12, 9>>))),
   power        |-> Done(Lines(Ints(<<64>>))),
   evenodd      |-> Done(Lines(<<BoolV(FALSE)>>)),
   forloops     |-> Done(Lines(Ints(<<1, 3>>))),
   rangeloops   |-> Done(Lines(Ints(<<0, 4, 6, 3, 4>>))),
   whileloops   |-> Done(Lines(Ints(<<1, 3>>))),
   nested       |-> Done(Lines(Ints(<<6>>))),
   ended        |-> Done(<<>>),
   vectors      |-> Done(<< <<Vec(<<VecOf(<<7>>), IntV(5)>>)>>,
                            <<Vec(<<VecOf(<<7>>), IntV(5)>>), IntV(3)>> >>),
   growing      |-> Done(Lines(<<Vec([j \in 1 .. 6 |-> VecOf(<<(j - 1) \div 2>>)])>>)),
   destructured |-> Done(<< <<IntV(1), VecOf(<<2, 3>>), IntV(4), IntV(4), IntV(3)>> >>),
   logic        |-> Done(Lines(<<IntV(0), BoolV(TRUE), IntV(0), BoolV(FALSE), T(5), IntV(0)>>)
                         \o << <<IntV(-1), IntV(-2)>> >>),
   library      |-> Done(<< <<VecOf(<<1, 2, 1>>)>>, <<IntV(1)>>,
                            <<Vec(<<VecOf(<<2, 3>>), T(4)>>), T(8)>>, <<IntV(9)>>,
                            <<Vec(<<VecOf(<<2, 3>>)>>)>> >>),
   capturedconstant |-> Done(Lines(Ints(<<5>>))),
   sharedcell   |-> Done(<< Ints(<<10, 5>>) >>),
   merged       |-> Done(<< Ints(<<6, 5>>) >>),
   deadcode     |-> Done(Lines(Ints(<<4>>))),
   handedback   |-> Done(Lines(<<VecOf(<<1>>)>>)),
   eachother    |-> Done(<< <<BoolV(TRUE), BoolV(FALSE), BoolV(FALSE)>>, <<BoolV(TRUE)>> >>),
   undefined    |-> Failed("UndefinedVariable", <<>>),
   badoperand   |-> Failed("TypeError", <<>>),
   badnegate    |-> Failed("TypeError", <<>>),
   badlimit     |-> Failed("TypeError", <<>>),
   notcallable  |-> Failed("TypeError", <<>>),
   toomany      |-> Failed("TypeError", Lines(Ints(<<1>>))),
   raised       |-> Failed("TypeError", Lines(Ints(<<1>>))),
   asserted     |-> Failed("TypeError", Lines(Ints(<<1>>))),
   badappend    |-> Failed("TypeError", <<>>),
   badindex     |-> Failed("ValueError", <<>>),
   badstore     |-> Failed("ValueError", <<>>),
   ifvalue      |-> Done(<< <<T(6), T(6)>> >>),
   misread      |-> Done(Lines(<<IntV(2), IntV(7), BoolV(TRUE)>>)
                         \o <<Ints(<<3, 3>>), Ints(<<0, 0, 0>>), Ints(<<1, 1, 1>>)>>)]

(* A program comes to what its source means, plain and optimized, whenever *)
(* the collector runs: compiled and executed, it prints that and ends, or  *)
(* fails as it should.                                                     *)
ExpectedOutcome == status # "run" => ComesTo(Expected[program[1]])

(* What the programs of Edges come to instead, plain and optimized.  Where *)
(* the two differ, it is the optimized one that goes wrong, but for        *)
(* ReusedSlot.                                                             *)
Observed ==
  [leakedlocal |-> Invalid(Lines(Ints(<<5>>))),
   leakedattop |-> Failed("Internal", <<>>),
   earlyreturn |-> Done(<<Ints(<<1, 6>>)>>),
   totheend    |-> Invalid(<<>>),
   rangetotheend |-> Invalid(<<>>) \cup Endless(<<>>),
   rangewraps  |-> Invalid(<<>>) \cup Done(Lines(Ints(<<14>>))),
   downward    |-> Done(<<>>),
   elifdropped |-> Done(Lines(Ints(<<3>>))),
   firstround  |-> Done(<<Ints(<<0, 0, 0>>), Ints(<<0, 0, 1>>)>>),
   printsitself |-> Invalid(<<>>),
   lostresult  |-> Done(Lines(Ints(<<1>>))) \cup Invalid(<<>>),
   lostresult2 |-> Done(Lines(Ints(<<1>>))) \cup Invalid(<<>>),
   curried     |-> Done(<< <<VecOf(<<1, 2, 3>>), VecOf(<<1, 4, 5>>), VecOf(<<1, 2, 6>>)>> >>)
                   \cup Failed("TypeError", <<>>),
   shadowedcapture |-> Done(<<Ints(<<3, 2>>)>>),
   twoout      |-> Failed("UndefinedVariable", <<>>),
   reusedslot  |-> Done(Lines(Ints(<<1>>))),
   storedelement |-> Done(Lines(<<VecOf(<<5>>)>>)),
   holdsitself |-> {[o EXCEPT !.out = Append(@, <<BoolV(TRUE)>>)] : o \in Expected["vectors"]},
   intowindow  |-> Done(Lines(Ints(<<7>>))),
   samefunction |-> Done(Lines(<<BoolV(TRUE)>>))]
ObservedOptimized ==
  [reusedslot    |-> Done(Lines(Ints(<<9>>))),
   storedelement |-> Done(Lines(Ints(<<7>>))),
   holdsitself   |-> {[o EXCEPT !.out = Append(@, <<BoolV(FALSE)>>)] : o \in Expected["vectors"]},
   intowindow    |-> Done(Lines(Ints(<<3>>))),
   samefunction  |-> Done(Lines(<<BoolV(FALSE)>>))]

(* The programs with a defect of the code go wrong as recorded here, and   *)
(* in no other way, whenever the collector runs: a panic, an endless       *)
(* builtin or another wrong value would show.  This says what the code     *)
(* does, not what it should do.                                            *)
DeviatesAsRecorded ==
  status # "run" =>
    ComesTo(IF program[2] = "optimized" /\ program[1] \in DOMAIN ObservedOptimized
            THEN ObservedOptimized[program[1]] ELSE Observed[program[1]])

(* Every program of Everyday ends, with its result or an error: each loop  *)
(* gets closer to its exit in every round, and no builtin keeps the VM.    *)
Terminates == <>(status \in {"done", "error"})
=============================================================================
