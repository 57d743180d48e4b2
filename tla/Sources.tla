------------------------------- MODULE Sources -------------------------------
(* Abbreviations for the syntax trees of programs.                         *)
EXTENDS Compiler

Say(es)      == CallE("println", es)
SayEach(es)  == [j \in DOMAIN es |-> Say(<<es[j]>>)]
Text(c)      == Lit(Str(<<c>>))
True         == Lit(BoolV(TRUE))
False        == Lit(BoolV(FALSE))
LetIs(x, e)  == Let(<<x>>, FALSE, e)
LetMut(x, e) == Let(<<x>>, TRUE, e)
At0(x)       == Idx(Var(x), Num(0))
Less(a, b)   == Cmp(a, <<[op |-> "Less", e |-> b]>>)
Equal(a, b)  == Cmp(a, <<[op |-> "Equal", e |-> b]>>)
When(cond, last) == If(cond, BlockEnd(<<>>, last), <<>>, None)
Nums(s)      == Arr([j \in DOMAIN s |-> Num(s[j])])
Thunk(body, e) == Fn(<<>>, BlockEnd(body, Ret(e)))
=============================================================================
