----------------------------- MODULE KnownProofs -----------------------------
(***************************************************************************)
(* Constant propagation is sound: what the optimizer's tables, once they   *)
(* are a fixpoint, take for known about the stack is so on every path, and *)
(* a program behaves as it does without the propagation, step by step.     *)
(***************************************************************************)
EXTENDS StackProofs, KnownConstants

(* What the optimizer is taken to have computed; checked by the run        *)
(* VMEveryday (TablesStable).                                              *)
Unnamed(p) == [part \in {"chunks", "consts"} |-> Programs[p][part]]
TablesAreStable ==
  \A p \in DOMAIN Programs :
    StoresNoElement(Unnamed(p)) => TablesOK(Unnamed(p), KnownStacks[p])

(* The abstract stack known, when the frame f executes with the stack st   *)
(* and the upvalue cells u: an entry known is that constant on the stack,  *)
(* and in the cell of the local if it is captured.                         *)
EntryHolds(k, j, st, f, u) ==
  k # Unknown => /\ st[f.fp + j] = ConstantData(k)
                 /\ j - 1 \in DOMAIN f.captured => u[f.captured[j - 1]] = ConstantData(k)
Agree(known, st, f, u) ==
  /\ Len(known) = Len(st) - f.fp
  /\ \A j \in 1 .. Len(known) : EntryHolds(known[j], j, st, f, u)

(* A frame has each captured local in a cell of its own, which is none of  *)
(* the cells of its function.                                              *)
Apart(f) ==
  /\ \A i, j \in DOMAIN f.captured : f.captured[i] = f.captured[j] => i = j
  /\ \A i \in DOMAIN f.captured : f.captured[i] \notin Range(f.ups)

(* While a frame waits for a call to come back, nothing is known of it.    *)
TableFor(f) == KnownStacks[program][f.chunk + 1]
ForgetsAt(f, pc, size) ==
  TableFor(f) # <<>> => ClaimsNoMore(TableFor(f)[pc + 1], Unknowns(size - f.fp))
Forgetful(fr) == \A n \in 1 .. Len(fr) - 1 : ForgetsAt(fr[n], fr[n].ip, LeftBy(fr[n + 1]))
AgreesAt(f, pc, st, u) == TableFor(f) # <<>> => Agree(TableFor(f)[pc + 1], st, f, u)

KnownFits ==
  /\ \A n \in 1 .. Len(frames) : Apart(frames[n])
  /\ Forgetful(frames)
  /\ AgreesAt(Top, ip, stack, upv)

KnownInv ==
  /\ StackInv
  /\ program \in DOMAIN Programs /\ bytecode = Unnamed(program)
  /\ StoresNoElement(bytecode) => TablesOK(bytecode, KnownStacks[program])
  /\ status = "run" /\ StoresNoElement(bytecode) => KnownFits
-----------------------------------------------------------------------------
(* Abstract stacks.                                                        *)
Claims == Nat \cup {Unknown}

LEMMA CutClaims ==
  ASSUME NEW s \in Seq(Claims), NEW n \in Nat, n <= Len(s)
  PROVE  /\ Cut(s, n) \in Seq(Claims) /\ Len(Cut(s, n)) = Len(s) - n
         /\ \A j \in 1 .. Len(s) - n : Cut(s, n)[j] = s[j]
<1> DEFINE S == Claims
<1> HIDE DEF S
<1>1. s \in Seq(S) /\ Len(s) \in Nat
  BY DEF S
<1>2. 1 \in 1 .. Len(s) + 1 /\ Len(s) - n \in 1 - 1 .. Len(s)
  BY <1>1
<1>3. Cut(s, n) \in Seq(S) /\ Len(Cut(s, n)) = (Len(s) - n) - 1 + 1
      /\ \A i \in 1 .. (Len(s) - n) - 1 + 1 : Cut(s, n)[i] = s[1 + i - 1]
  BY <1>1, <1>2, SubSeqProperties DEF Cut
<1>4. (Len(s) - n) - 1 + 1 = Len(s) - n
  BY <1>1
<1>5. ASSUME NEW i \in 1 .. Len(s) - n PROVE Cut(s, n)[i] = s[i]
  <2>1. 1 + i - 1 = i
    OBVIOUS
  <2> QED
    BY <1>3, <1>4, <2>1
<1> QED
  BY <1>3, <1>4, <1>5 DEF S

LEMMA UnknownsClaims ==
  ASSUME NEW n \in Nat
  PROVE  Unknowns(n) \in Seq(Claims) /\ Len(Unknowns(n)) = n /\ \A j \in 1 .. n : Unknowns(n)[j] = Unknown
<1> DEFINE S == Claims
           k == Unknown
<1>1. k \in S
  BY DEF Claims
<1>2. Unknowns(n) = [j \in 1 .. n |-> k]
  BY DEF Unknowns
<1> HIDE DEF S, k
<1>3. [j \in 1 .. n |-> k] \in Seq(S) /\ Len([j \in 1 .. n |-> k]) = n
  BY <1>1
<1> QED
  BY <1>2, <1>3 DEF S, k

LEMMA GrownClaims ==
  ASSUME NEW s \in Seq(Claims), NEW n \in Nat, n <= Len(s), NEW k \in Nat
  PROVE  LET t == Cut(s, n) \o Unknowns(k)
         IN  /\ t \in Seq(Claims) /\ Len(t) = Len(s) - n + k
             /\ \A j \in 1 .. Len(t) : t[j] = Unknown \/ (j <= Len(s) - n /\ t[j] = s[j])
<1> DEFINE S == Claims
           a == Cut(s, n)
           b == Unknowns(k)
<1>1. /\ a \in Seq(S) /\ Len(a) = Len(s) - n /\ \A j \in 1 .. Len(s) - n : a[j] = s[j]
      /\ b \in Seq(S) /\ Len(b) = k /\ \A j \in 1 .. k : b[j] = Unknown
  BY CutClaims, UnknownsClaims
<1>2. Len(s) \in Nat
  OBVIOUS
<1> HIDE DEF S, a, b
<1>3. /\ a \o b \in Seq(S) /\ Len(a \o b) = Len(a) + Len(b)
      /\ \A j \in 1 .. Len(a) + Len(b) :
           (a \o b)[j] = IF j <= Len(a) THEN a[j] ELSE b[j - Len(a)]
  BY <1>1, ConcatProperties
<1>4. ASSUME NEW j \in 1 .. Len(a \o b)
      PROVE  (a \o b)[j] = Unknown \/ (j <= Len(s) - n /\ (a \o b)[j] = s[j])
  <2>1. CASE j <= Len(a)
    <3>1. j \in 1 .. Len(s) - n
      BY <1>1, <2>1
    <3> QED
      BY <1>1, <1>3, <2>1, <3>1
  <2>2. CASE ~(j <= Len(a))
    <3>1. j - Len(a) \in 1 .. k
      BY <1>1, <1>3, <2>2
    <3> QED
      BY <1>1, <1>3, <2>2, <3>1
  <2> QED
    BY <2>1, <2>2
<1> QED
  BY <1>1, <1>3, <1>4 DEF S, a, b

LEMMA SetClaims ==
  ASSUME NEW s \in Seq(Claims), NEW i \in Nat, i < Len(s), NEW k \in Claims
  PROVE  /\ SetKnown(s, i, k) \in Seq(Claims) /\ Len(SetKnown(s, i, k)) = Len(s)
         /\ SetKnown(s, i, k)[i + 1] = k
         /\ \A j \in 1 .. Len(s) : j # i + 1 => SetKnown(s, i, k)[j] = s[j]
<1> DEFINE S == Claims
<1>1. s \in Seq(S) /\ k \in S /\ i \in 0 .. Len(s) - 1 /\ i + 1 \in DOMAIN s
  OBVIOUS
<1> HIDE DEF S
<1>2. SetKnown(s, i, k) = [s EXCEPT ![i + 1] = k]
  BY <1>1 DEF SetKnown
<1> QED
  BY <1>1, <1>2 DEF S

LEMMA KnownClaims ==
  ASSUME NEW s \in Seq(Claims), NEW i \in Int
  PROVE  /\ Known(s, i) \in Claims
         /\ Known(s, i) # Unknown => i \in Nat /\ i < Len(s) /\ i + 1 \in 1 .. Len(s) /\ Known(s, i) = s[i + 1]
         /\ i \in Nat /\ i < Len(s) => Known(s, i) = s[i + 1]
<1>1. Len(s) \in Nat /\ Unknown \in Claims
  BY DEF Claims
<1>2. CASE i \in 0 .. Len(s) - 1
  <2>1. Known(s, i) = s[i + 1] /\ i + 1 \in 1 .. Len(s)
    BY <1>1, <1>2 DEF Known
  <2>2. s[i + 1] \in Claims
    BY <2>1
  <2> QED
    BY <1>1, <1>2, <2>1, <2>2
<1>3. CASE i \notin 0 .. Len(s) - 1
  BY <1>1, <1>3 DEF Known
<1> QED
  BY <1>2, <1>3

LEMMA AppendedClaims ==
  ASSUME NEW s \in Seq(Claims), NEW k \in Claims
  PROVE  /\ Append(s, k) \in Seq(Claims) /\ Len(Append(s, k)) = Len(s) + 1
         /\ Append(s, k)[Len(s) + 1] = k
         /\ \A j \in 1 .. Len(s) : Append(s, k)[j] = s[j]
<1> DEFINE S == Claims
<1>1. s \in Seq(S) /\ k \in S
  OBVIOUS
<1> HIDE DEF S
<1> QED
  BY <1>1 DEF S
-----------------------------------------------------------------------------
(* What is known, when less is claimed, or the stack changes.              *)
LEMMA LessClaimed ==
  ASSUME NEW s, NEW t, ClaimsNoMore(s, t), NEW st, NEW f, NEW u, Agree(t, st, f, u)
  PROVE  Agree(s, st, f, u)
<1>1. Len(s) = Len(t) /\ \A j \in DOMAIN s : s[j] \in {Unknown, t[j]}
  BY DEF ClaimsNoMore
<1> QED
  BY <1>1 DEF Agree, EntryHolds

LEMMA NothingKnown ==
  ASSUME NEW t, NEW st, NEW f, Len(t) = Len(st) - f.fp, NEW u,
         \A j \in 1 .. Len(t) : t[j] = Unknown
  PROVE  Agree(t, st, f, u)
BY DEF Agree, EntryHolds

(* The entry j is as it was: on the stack, and in the cell of the local,   *)
(* or in a cell made for it.                                               *)
CellKept(i, st, f, u, g, v) ==
  i \in DOMAIN g.captured =>
    \/ i \in DOMAIN f.captured /\ v[g.captured[i]] = u[f.captured[i]]
    \/ v[g.captured[i]] = st[f.fp + i + 1]
EntryKept(j, st, f, u, st2, g, v) ==
  g.fp = f.fp /\ st2[f.fp + j] = st[f.fp + j] /\ CellKept(j - 1, st, f, u, g, v)

LEMMA KeptHolds ==
  ASSUME NEW k, NEW j \in Nat, NEW st, NEW f, f.fp \in Nat, NEW u, EntryHolds(k, j, st, f, u),
         NEW st2, NEW g, NEW v, EntryKept(j, st, f, u, st2, g, v)
  PROVE  EntryHolds(k, j, st2, g, v)
<1>1. f.fp + (j - 1) + 1 = f.fp + j
  OBVIOUS
<1> QED
  BY <1>1 DEF EntryHolds, EntryKept, CellKept

(* Each entry is unknown, or known before and kept.                        *)
LEMMA KeptAgrees ==
  ASSUME NEW s, Len(s) \in Nat, NEW st, NEW f, f.fp \in Nat, NEW u, Agree(s, st, f, u),
         NEW t, NEW st2, NEW g, NEW v, Len(t) = Len(st2) - g.fp, Len(t) \in Nat,
         \A j \in 1 .. Len(t) :
           \/ t[j] = Unknown
           \/ j <= Len(s) /\ t[j] = s[j] /\ EntryKept(j, st, f, u, st2, g, v)
           \/ EntryHolds(t[j], j, st2, g, v)
  PROVE  Agree(t, st2, g, v)
<1>1. ASSUME NEW j \in 1 .. Len(t) PROVE EntryHolds(t[j], j, st2, g, v)
  <2>1. CASE t[j] = Unknown
    BY <2>1 DEF EntryHolds
  <2>2. CASE j <= Len(s) /\ t[j] = s[j] /\ EntryKept(j, st, f, u, st2, g, v)
    <3>1. j \in 1 .. Len(s) /\ j \in Nat
      BY <2>2
    <3>2. EntryHolds(s[j], j, st, f, u)
      BY <3>1 DEF Agree
    <3> QED
      BY <2>2, <3>1, <3>2, KeptHolds
  <2> QED
    BY <2>1, <2>2
<1> QED
  BY <1>1 DEF Agree
-----------------------------------------------------------------------------
(* The frame that executes, and what is known of it.                       *)
Now == frames'[Len(frames')]

Here(known) ==
  /\ StackInv /\ status = "run"
  /\ known \in Seq(Claims) /\ Len(known) = Height
  /\ Agree(known, stack, Top, upv) /\ Apart(Top)

(* The next instruction is handed no more than holds.                      *)
Hands(known) ==
  \E o \in Range(Handed(Current, ip, known)) : o[1] = ip' /\ Agree(o[2], stack', Now, upv')

LEMMA TopHere ==
  ASSUME StackInv, status = "run"
  PROVE  /\ Height \in Nat /\ Top.fp \in Nat /\ Len(stack) = Top.fp + Height
         /\ Current \in Instruction /\ stack \in Seq(Value) /\ upv \in Seq(Value)
         /\ \A i \in DOMAIN Top.captured : i \in Nat /\ Top.captured[i] \in DOMAIN upv
         /\ Top.ups \in Seq(DOMAIN upv) /\ Len(Top.ups) \in Nat
<1>1. /\ Sound(Nat, DOMAIN upv) /\ Top \in FrameOver(Chunks, Nat, DOMAIN upv)
      /\ stack \in Seq(ValuesOver(Nat)) /\ Current \in Instruction
  BY FramesHere
<1>2. stack \in Seq(Value)
  BY <1>1, SeqMore DEF ValuesOver
<1>3. upv \in Seq(Value)
  BY <1>1, HeldParts DEF Sound, UpvaluesOver
<1> QED
  BY <1>1, <1>2, <1>3, ReckonedHere, TopCells

LEMMA FrameAfter ==
  ASSUME StackInv, status = "run", InFrame
  PROVE  /\ Len(frames') = Len(frames) /\ SameFrame(Now, Top) /\ Now.fp = Top.fp
         /\ Current.op # "Closure" => Now.captured = Top.captured
<1>1. Len(frames) \in Nat \ {0} /\ Top = frames[Len(frames)]
  BY FramesHere
<1>2. Len(frames) \in 1 .. Len(frames)
  BY <1>1
<1> QED
  BY <1>1, <1>2 DEF InFrame, SameCalls, SameFrame, Now

LEMMA CellsUnchanged ==
  ASSUME Next, Current.op \notin {"SetLocal", "SetUpvalue", "Closure"}
  PROVE  upv' = upv
<1>1. CASE \/ Constant \/ Pop \/ Duplicate \/ GetGlobal \/ SetGlobal \/ GetLocal \/ GetBuiltin
           \/ GetUpvalue
  BY <1>1 DEF Constant, Pop, Duplicate, GetGlobal, SetGlobal, GetLocal, GetBuiltin, GetUpvalue,
     FailSynced, Fault
<1>2. CASE Arithmetic \/ Negate \/ Not \/ CompareOp \/ Jump \/ JumpIf \/ ForLoop
  BY <1>2 DEF Arithmetic, Negate, Not, CompareOp, Jump, JumpIf, ForLoop, FailSynced, FailEarly,
     Fault, Breaks
<1>3. CASE CallValueBuiltin \/ Curry \/ CallFunction \/ CallFails \/ Return \/ CallBuiltin
  BY <1>3 DEF CallValueBuiltin, Curry, CallFunction, EnterFrame, CallFails, Return, CallBuiltin,
     ReturnsInHand, FailSynced, Fault, Breaks, Hangs
<1>4. CASE MakeArray \/ VectorAppend \/ GetIndex \/ SetIndex
  BY <1>4 DEF MakeArray, VectorAppend, GetIndex, SetIndex, FailSynced, FailEarly, Fault
<1>5. CASE SetLocal \/ SetUpvalue \/ Closure
  BY <1>5 DEF SetLocal, SetUpvalue, Closure, Runs
<1>6. CASE Underflow \/ Broken \/ Halted
  BY <1>6 DEF Underflow, Broken, Fault, Breaks, Halted, vars
<1> QED
  BY <1>1, <1>2, <1>3, <1>4, <1>5, <1>6 DEF Next

(* What falls through: n entries taken off, k put in their place.          *)
LEMMA ExchangedAgrees ==
  ASSUME NEW s, Here(s), InFrame, NEW n \in Nat, NEW k \in Nat, n <= Height,
         Exchanged(stack', n, k), NEW t, Len(t) = Height - n + k,
         \A i \in Nat : i < Height - n => CellKept(i, stack, Top, upv, Now, upv'),
         \A j \in 1 .. Len(t) :
           \/ t[j] = Unknown
           \/ j <= Height - n /\ t[j] = s[j]
           \/ EntryHolds(t[j], j, stack', Now, upv')
  PROVE  Agree(t, stack', Now, upv')
<1> DEFINE h == Height
           fp == Top.fp
<1>1. /\ h \in Nat /\ fp \in Nat /\ Len(stack) = fp + h /\ Now.fp = fp
      /\ Len(s) = h /\ Agree(s, stack, Top, upv)
  BY TopHere, FrameAfter DEF Here
<1>2. /\ Len(stack') = Len(stack) - n + k
      /\ \A j \in 1 .. Len(stack) - n : stack'[j] = stack[j]
  BY DEF Exchanged
<1>3. /\ n <= h /\ Len(t) = h - n + k
      /\ \A i \in Nat : i < h - n => CellKept(i, stack, Top, upv, Now, upv')
      /\ \A j \in 1 .. Len(t) :
           \/ t[j] = Unknown
           \/ j <= h - n /\ t[j] = s[j]
           \/ EntryHolds(t[j], j, stack', Now, upv')
  OBVIOUS
<1> HIDE DEF h, fp
<1>4. Len(t) = Len(stack') - Now.fp /\ Len(t) \in Nat
  <2>1. Len(t) \in Nat
    BY <1>1, <1>3
  <2>2. Len(stack') = fp + (h - n + k)
    BY <1>1, <1>2
  <2> QED
    BY <1>1, <1>3, <2>1, <2>2
<1>5. ASSUME NEW j \in 1 .. Len(t), j <= h - n
      PROVE  j <= Len(s) /\ EntryKept(j, stack, Top, upv, stack', Now, upv')
  <2>1. fp + j \in 1 .. Len(stack) - n /\ j - 1 \in Nat /\ j - 1 < h - n /\ j <= h
    BY <1>1, <1>4, <1>5
  <2>2. stack'[fp + j] = stack[fp + j]
    BY <1>2, <2>1
  <2>3. CellKept(j - 1, stack, Top, upv, Now, upv')
    BY <1>3, <2>1
  <2> QED
    BY <1>1, <2>1, <2>2, <2>3 DEF EntryKept, fp
<1>6. \A j \in 1 .. Len(t) :
        \/ t[j] = Unknown
        \/ j <= Len(s) /\ t[j] = s[j] /\ EntryKept(j, stack, Top, upv, stack', Now, upv')
        \/ EntryHolds(t[j], j, stack', Now, upv')
  BY <1>3, <1>5
<1>7. Len(s) \in Nat /\ Top.fp \in Nat
  BY <1>1 DEF fp
<1> QED
  BY <1>1, <1>4, <1>6, <1>7, KeptAgrees
-----------------------------------------------------------------------------
(* What a closure captures: the cells there were keep their values, the    *)
(* locals captured before their cells, and each local captured now gets a  *)
(* cell of its own with its value.                                         *)
FreshCell(acc, i) ==
  /\ acc.captured[i] \in Len(upv) + 1 .. Len(acc.upv)
  /\ acc.upv[acc.captured[i]] = stack[Slot(i)]
OldCell(acc, i) == i \in DOMAIN Top.captured /\ acc.captured[i] = Top.captured[i]

KeepsCells(acc) ==
  /\ \A c \in DOMAIN upv : acc.upv[c] = upv[c]
  /\ \A i \in DOMAIN acc.captured : OldCell(acc, i) \/ FreshCell(acc, i)
  /\ \A i, j \in DOMAIN acc.captured : acc.captured[i] = acc.captured[j] => i = j

LEMMA StartKeepsCells ==
  ASSUME Apart(Top)
  PROVE  KeepsCells(Start)
<1>1. Start.upv = upv /\ Start.captured = Top.captured
  BY DEF Start
<1> QED
  BY <1>1 DEF KeepsCells, OldCell, Apart

LEMMA CaptureOneKeeps ==
  ASSUME StackInv, status = "run", NEW d \in UpvalueDesc,
         d.isLocal => Slot(d.index) <= Len(stack),
         NEW acc, Capturing(acc, Nat, DOMAIN upv), KeepsCells(acc)
  PROVE  KeepsCells(CaptureOne(acc, d))
<1>1. /\ acc = [upv |-> acc.upv, captured |-> acc.captured, ups |-> acc.ups]
      /\ acc.upv \in Seq(Value) /\ Len(acc.upv) >= Len(upv)
  BY DEF Capturing
<1>2. /\ upv \in Seq(Value) /\ stack \in Seq(Value) /\ Top.fp \in Nat
      /\ \A i \in DOMAIN Top.captured : Top.captured[i] \in DOMAIN upv
  BY TopHere
<1>3. /\ \A c \in DOMAIN upv : acc.upv[c] = upv[c]
      /\ \A i \in DOMAIN acc.captured : OldCell(acc, i) \/ FreshCell(acc, i)
      /\ \A i, j \in DOMAIN acc.captured : acc.captured[i] = acc.captured[j] => i = j
  BY DEF KeepsCells
<1>4. ASSUME NEW c, CaptureOne(acc, d) = [acc EXCEPT !.ups = Append(acc.ups, c)]
      PROVE  KeepsCells(CaptureOne(acc, d))
  <2> DEFINE b == CaptureOne(acc, d)
  <2>1. b.upv = acc.upv /\ b.captured = acc.captured
    BY <1>1, <1>4
  <2> HIDE DEF b
  <2>2. KeepsCells(b)
    BY <1>3, <2>1 DEF KeepsCells, OldCell, FreshCell
  <2> QED
    BY <2>2 DEF b
<1>5. CASE ~d.isLocal
  BY <1>4, <1>5 DEF CaptureOne
<1>6. CASE d.isLocal /\ d.index \in DOMAIN acc.captured
  BY <1>4, <1>6 DEF CaptureOne
<1>7. CASE d.isLocal /\ d.index \notin DOMAIN acc.captured
  <2> DEFINE c == Len(acc.upv) + 1
             v == stack[Slot(d.index)]
             b == CaptureOne(acc, d)
  <2>1. b = [upv |-> Append(acc.upv, v), captured |-> Plus(acc.captured, d.index, c),
             ups |-> Append(acc.ups, c)]
    BY <1>7 DEF CaptureOne
  <2>2. /\ b.upv = Append(acc.upv, v) /\ DOMAIN b.captured = DOMAIN acc.captured \cup {d.index}
        /\ b.captured[d.index] = c
        /\ \A i \in DOMAIN acc.captured : i # d.index /\ b.captured[i] = acc.captured[i]
    BY <1>7, <2>1 DEF Plus
  <2>3. v \in Value
    <3>1. d.index \in Nat
      BY DEF UpvalueDesc
    <3> QED
      BY <1>2, <1>7, <3>1, SlotOver
  <2>4. /\ Len(b.upv) = c /\ b.upv[c] = v /\ \A n \in 1 .. Len(acc.upv) : b.upv[n] = acc.upv[n]
    BY <1>1, <2>2, <2>3, Appended
  <2> HIDE DEF b, v
  <2>5. Len(acc.upv) \in Nat /\ Len(upv) \in Nat /\ DOMAIN upv = 1 .. Len(upv)
    BY <1>1, <1>2
  <2>6. \A n \in DOMAIN upv : n \in 1 .. Len(acc.upv)
    BY <1>1, <2>5
  <2>7. ASSUME NEW i \in DOMAIN acc.captured
        PROVE  acc.captured[i] \in 1 .. Len(acc.upv) /\ (OldCell(b, i) \/ FreshCell(b, i))
    <3>1. CASE OldCell(acc, i)
      <4>1. acc.captured[i] \in DOMAIN upv
        BY <1>2, <3>1 DEF OldCell
      <4> QED
        BY <2>2, <2>6, <3>1, <4>1 DEF OldCell
    <3>2. CASE FreshCell(acc, i)
      <4> DEFINE n == acc.captured[i]
      <4>1. n \in Len(upv) + 1 .. Len(acc.upv) /\ acc.upv[n] = stack[Slot(i)]
        BY <3>2 DEF FreshCell
      <4>2. b.captured[i] = n
        BY <2>2
      <4> HIDE DEF n
      <4>3. n \in 1 .. Len(acc.upv) /\ n \in Len(upv) + 1 .. Len(b.upv)
        BY <2>4, <2>5, <4>1
      <4>4. FreshCell(b, i)
        BY <2>4, <4>1, <4>2, <4>3 DEF FreshCell
      <4> QED
        BY <4>3, <4>4 DEF n
    <3> QED
      BY <1>3, <3>1, <3>2
  <2>8. FreshCell(b, d.index)
    <3>1. c \in Len(upv) + 1 .. c
      BY <1>1, <2>5
    <3> QED
      BY <2>2, <2>4, <3>1 DEF FreshCell, v
  <2>9. c \notin 1 .. Len(acc.upv)
    BY <2>5
  <2>10. \A n \in DOMAIN upv : b.upv[n] = upv[n]
    BY <1>3, <2>4, <2>6
  <2>11. \A i \in DOMAIN b.captured : OldCell(b, i) \/ FreshCell(b, i)
    BY <2>2, <2>7, <2>8
  <2>12. ASSUME NEW i \in DOMAIN b.captured, NEW j \in DOMAIN b.captured,
                b.captured[i] = b.captured[j]
         PROVE  i = j
    <3> HIDE DEF c
    <3>1. \A k \in DOMAIN acc.captured : b.captured[k] # c
      BY <2>2, <2>7, <2>9
    <3>2. CASE i \in DOMAIN acc.captured /\ j \in DOMAIN acc.captured
      BY <1>3, <2>2, <2>12, <3>2
    <3> QED
      BY <2>2, <2>12, <3>1, <3>2
  <2>13. KeepsCells(b)
    BY <2>10, <2>11, <2>12 DEF KeepsCells
  <2> QED
    BY <2>13 DEF b
<1> QED
  BY <1>5, <1>6, <1>7

LEMMA ClosureKeeps ==
  ASSUME StackInv, Runs({"Closure"}), Apart(Top)
  PROVE  KeepsCells(CaptureAll(Current.upvalues))
<1>1. /\ status = "run" /\ Sound(Nat, DOMAIN upv) /\ Top \in FrameOver(Chunks, Nat, DOMAIN upv)
  BY FramesHere DEF Runs
<1> DEFINE descs == Current.upvalues
           N == Len(descs)
           f == CHOOSE g : CapturedInTurn(g, descs)
<1>2. Offered(descs) /\ N \in Nat
  BY <1>1, ClosureOffers
<1>3. CaptureAll(descs) = f[N]
  BY DEF CaptureAll, CapturedInTurn, Start
<1>4. CapturedInTurn(f, descs)
  <2>1. \E g : CapturedInTurn(g, descs)
    BY <1>1, <1>2, CapturedInTurnExists
  <2> QED
    BY <2>1
<1> HIDE DEF f
<1>5. f[0] = Start /\ \A n \in 1 .. N : f[n] = CaptureOne(f[n - 1], descs[n])
  BY <1>2, <1>4 DEF CapturedInTurn
<1> DEFINE Q == {n \in 0 .. N : Capturing(f[n], Nat, DOMAIN upv) /\ KeepsCells(f[n])}
<1>6. 0 \in Q
  BY <1>1, <1>2, <1>5, StartCaptures, StartKeepsCells
<1> HIDE DEF descs, N
<1>7. ASSUME NEW n \in 1 .. N, n - 1 \in Q PROVE n \in Q
  <2>1. Capturing(f[n - 1], Nat, DOMAIN upv) /\ KeepsCells(f[n - 1])
    BY <1>7
  <2>2. /\ descs[n] \in UpvalueDesc
        /\ descs[n].isLocal => Slot(descs[n].index) <= Len(stack)
        /\ ~descs[n].isLocal => descs[n].index < Len(Top.ups)
    BY <1>2, <1>7 DEF Offered, N
  <2>3. Capturing(CaptureOne(f[n - 1], descs[n]), Nat, DOMAIN upv)
    BY <1>1, <2>1, <2>2, CaptureOneOver
  <2>4. KeepsCells(CaptureOne(f[n - 1], descs[n]))
    BY <1>1, <2>1, <2>2, CaptureOneKeeps
  <2>5. n \in 0 .. N
    BY <1>2, <1>7
  <2> QED
    BY <1>5, <1>7, <2>3, <2>4, <2>5
<1> HIDE DEF Q
<1>8. N \in Q
  BY <1>2, <1>6, <1>7, BoundedInduction
<1> QED
  BY <1>3, <1>8 DEF Q, descs
-----------------------------------------------------------------------------
(* The instruction that is executed, when the program runs on.             *)
LEMMA ExecutedUnbroken ==
  ASSUME Next, status = "run", ~Underflow, ~Broken
  PROVE  /\ Current.op = "Constant" => Constant
         /\ Current.op = "Pop" => Pop
         /\ Current.op = "Duplicate" => Duplicate
         /\ Current.op = "GetLocal" => GetLocal
         /\ Current.op = "SetLocal" => SetLocal
         /\ Current.op = "SetUpvalue" => SetUpvalue
         /\ Current.op = "Jump" => Jump
         /\ Current.op = "JumpIf" => JumpIf
         /\ Current.op = "ForLoop" => ForLoop
         /\ Current.op = "VectorAppend" => VectorAppend
         /\ Current.op = "Closure" => Closure
<1> DEFINE op == Current.op
<1>1. /\ Constant => op = "Constant"
      /\ Pop => op = "Pop"
      /\ Duplicate => op = "Duplicate"
      /\ GetLocal => op = "GetLocal"
      /\ SetLocal => op = "SetLocal"
      /\ SetUpvalue => op = "SetUpvalue"
  BY DEF Constant, Pop, Duplicate, GetLocal, SetLocal, SetUpvalue, Runs
<1>2. /\ Jump => op = "Jump"
      /\ JumpIf => op = "JumpIf"
      /\ ForLoop => op = "ForLoop"
      /\ VectorAppend => op = "VectorAppend"
      /\ Closure => op = "Closure"
  BY DEF Jump, JumpIf, ForLoop, VectorAppend, Closure, Runs
<1>3. /\ GetGlobal \/ SetGlobal \/ GetBuiltin \/ GetUpvalue
           => op \in {"GetGlobal", "SetGlobal", "GetBuiltin", "GetUpvalue"}
      /\ Arithmetic => op \in Operators
      /\ Negate \/ Not \/ CompareOp => op \in {"Negate", "Not", "Compare"}
  BY DEF GetGlobal, SetGlobal, GetBuiltin, GetUpvalue, Arithmetic, Negate, Not, CompareOp, Runs
<1>4. /\ CallValueBuiltin \/ Curry \/ CallFunction \/ CallFails => op = "Call"
      /\ Return \/ CallBuiltin => op \in {"Return", "CallBuiltin"}
  BY DEF CallValueBuiltin, Curry, CallFunction, EnterFrame, CallFails, Return, CallBuiltin, Runs
<1>5. MakeArray \/ GetIndex \/ SetIndex => op \in {"MakeArray", "GetIndex", "SetIndex"}
  BY DEF MakeArray, GetIndex, SetIndex, Runs
<1>6. ~Underflow /\ ~Broken /\ ~Halted
  BY DEF Halted
<1>7. {"Constant", "Pop", "Duplicate", "GetLocal", "SetLocal", "SetUpvalue", "Jump", "JumpIf",
       "ForLoop", "VectorAppend", "Closure"} \cap Operators = {}
  BY DEF Operators
<1> HIDE DEF op
<1>8. op \in {"Constant", "Pop", "Duplicate", "GetLocal", "SetLocal", "SetUpvalue", "Jump",
              "JumpIf", "ForLoop", "VectorAppend", "Closure"}
        => \/ Constant \/ Pop \/ Duplicate \/ GetLocal \/ SetLocal \/ SetUpvalue
           \/ Jump \/ JumpIf \/ ForLoop \/ VectorAppend \/ Closure
  <2>1. op \in {"Constant", "Pop", "Duplicate", "GetLocal", "SetLocal", "SetUpvalue", "Jump",
                "JumpIf", "ForLoop", "VectorAppend", "Closure"}
          => /\ ~(GetGlobal \/ SetGlobal \/ GetBuiltin \/ GetUpvalue) /\ ~Arithmetic
             /\ ~(Negate \/ Not \/ CompareOp)
             /\ ~(CallValueBuiltin \/ Curry \/ CallFunction \/ CallFails)
             /\ ~(Return \/ CallBuiltin) /\ ~(MakeArray \/ GetIndex \/ SetIndex)
    BY <1>3, <1>4, <1>5, <1>7
  <2> QED
    BY <1>6, <2>1 DEF Next
<1> QED
  BY <1>1, <1>2, <1>8 DEF op

LEMMA Executed ==
  ASSUME Next, status = "run", status' = "run"
  PROVE  /\ Current.op = "Constant" => Constant
         /\ Current.op = "Pop" => Pop
         /\ Current.op = "Duplicate" => Duplicate
         /\ Current.op = "GetLocal" => GetLocal
         /\ Current.op = "SetLocal" => SetLocal
         /\ Current.op = "SetUpvalue" => SetUpvalue
         /\ Current.op = "Jump" => Jump
         /\ Current.op = "JumpIf" => JumpIf
         /\ Current.op = "ForLoop" => ForLoop
         /\ Current.op = "VectorAppend" => VectorAppend
         /\ Current.op = "Closure" => Closure
<1>1. ~Underflow /\ ~Broken
  BY DEF Underflow, Broken, Fault, Breaks
<1> QED
  BY <1>1, ExecutedUnbroken

(* Every captured local is still in its cell, and the cell holds what it   *)
(* held; a local captured now is in a cell that holds what it is.          *)
LEMMA CapturesKept ==
  ASSUME StackInv, status = "run", Next, InFrame, Apart(Top)
  PROVE  /\ Apart(Now)
         /\ Current.op # "SetLocal"
              => \A i \in Nat : CellKept(i, stack, Top, upv, Now, upv')
<1>1. /\ Now.ups = Top.ups /\ Top.ups \in Seq(DOMAIN upv) /\ Len(Top.ups) \in Nat
      /\ Current.op # "Closure" => Now.captured = Top.captured
      /\ \A i \in DOMAIN Top.captured : i \in Nat /\ Top.captured[i] \in DOMAIN upv
      /\ upv \in Seq(Value) /\ Len(upv) \in Nat /\ DOMAIN upv = 1 .. Len(upv)
  BY FrameAfter, TopHere DEF SameFrame
<1>2. status' = "run"
  BY DEF InFrame
<1>3. CASE Current.op \notin {"SetLocal", "SetUpvalue", "Closure"}
  <2>1. upv' = upv
    BY <1>3, CellsUnchanged
  <2> QED
    BY <1>1, <1>3, <2>1 DEF Apart, CellKept
<1>4. CASE Current.op = "SetLocal"
  BY <1>1, <1>4 DEF Apart
<1>5. CASE Current.op = "SetUpvalue"
  <2>1. SetUpvalue
    BY <1>2, <1>5, Executed
  <2>2. Current.index \in Nat /\ Current.index < Len(Top.ups)
    <3>1. Runs({"SetUpvalue"}) /\ Sound(Nat, DOMAIN upv)
      BY <2>1, FramesHere DEF SetUpvalue
    <3>2. Current \in Instruction /\ \A u \in UpvaluesUsed(Current) : u < Len(Top.ups)
      BY <3>1, RunsHere
    <3>3. UpvaluesUsed(Current) = {Current.index}
      BY <1>5 DEF UpvaluesUsed
    <3> QED
      BY <1>5, <3>2, <3>3, InstructionFields
  <2> DEFINE c == Top.ups[Current.index + 1]
  <2>3. c \in Range(Top.ups)
    <3>1. Current.index + 1 \in DOMAIN Top.ups
      BY <1>1, <2>2
    <3> QED
      BY <3>1 DEF Range
  <2>4. upv' = [upv EXCEPT ![c] = Peek(0)]
    BY <2>1 DEF SetUpvalue
  <2> HIDE DEF c
  <2>5. \A i \in DOMAIN Top.captured : Top.captured[i] # c
    BY <2>3 DEF Apart
  <2>6. \A i \in DOMAIN Top.captured : upv'[Top.captured[i]] = upv[Top.captured[i]]
    BY <1>1, <2>4, <2>5
  <2> QED
    BY <1>1, <1>5, <2>6 DEF Apart, CellKept
<1>6. CASE Current.op = "Closure"
  <2> DEFINE c == CaptureAll(Current.upvalues)
             N == Len(frames)
  <2>1. Closure
    BY <1>2, <1>6, Executed
  <2>2. /\ Runs({"Closure"}) /\ upv' = c.upv
        /\ frames' = [frames EXCEPT ![N].captured = c.captured]
    BY <2>1 DEF Closure
  <2>3. KeepsCells(c)
    BY <2>2, ClosureKeeps
  <2>4. Now.captured = c.captured
    <3>1. /\ frames \in Seq(FrameOver(Chunks, Nat, DOMAIN upv)) /\ N \in Nat \ {0}
          /\ Top = frames[N] /\ Top \in FrameOver(Chunks, Nat, DOMAIN upv)
      BY FramesHere
    <3>2. N \in DOMAIN frames /\ Len(frames') = N
      BY <3>1, FrameAfter
    <3>3. Now = [frames[N] EXCEPT !.captured = c.captured]
      BY <2>2, <3>2 DEF Now
    <3>4. Top = [chunk |-> Top.chunk, ip |-> Top.ip, fp |-> Top.fp, closure |-> Top.closure,
                 ups |-> Top.ups, captured |-> Top.captured, discard |-> Top.discard]
      BY <3>1, FrameFields
    <3> QED
      BY <3>1, <3>3, <3>4
  <2> HIDE DEF c
  <2>5. /\ \A n \in DOMAIN upv : upv'[n] = upv[n]
        /\ \A i \in DOMAIN Now.captured : OldCell(c, i) \/ FreshCell(c, i)
        /\ \A i, j \in DOMAIN Now.captured : Now.captured[i] = Now.captured[j] => i = j
    BY <2>2, <2>3, <2>4 DEF KeepsCells
  <2>6. ASSUME NEW i \in DOMAIN Now.captured PROVE Now.captured[i] \notin Range(Now.ups)
    <3>1. CASE OldCell(c, i)
      BY <1>1, <2>4, <3>1 DEF OldCell, Apart
    <3>2. CASE FreshCell(c, i)
      <4>1. Now.captured[i] \in Len(upv) + 1 .. Len(c.upv)
        BY <2>4, <3>2 DEF FreshCell
      <4>2. Now.captured[i] \notin DOMAIN upv
        BY <1>1, <4>1
      <4>3. Range(Now.ups) \subseteq DOMAIN upv
        BY <1>1 DEF Range
      <4> QED
        BY <4>2, <4>3
    <3> QED
      BY <2>5, <3>1, <3>2
  <2>7. ASSUME NEW i \in Nat PROVE CellKept(i, stack, Top, upv, Now, upv')
    <3> SUFFICES ASSUME i \in DOMAIN Now.captured
                 PROVE  \/ i \in DOMAIN Top.captured
                           /\ upv'[Now.captured[i]] = upv[Top.captured[i]]
                        \/ upv'[Now.captured[i]] = stack[Top.fp + i + 1]
      BY DEF CellKept
    <3>1. CASE OldCell(c, i)
      BY <1>1, <2>4, <2>5, <3>1 DEF OldCell
    <3>2. CASE FreshCell(c, i)
      BY <2>2, <2>4, <3>2 DEF FreshCell, Slot
    <3> QED
      BY <2>5, <3>1, <3>2
  <2> QED
    BY <2>5, <2>6, <2>7 DEF Apart
<1> QED
  BY <1>3, <1>4, <1>5, <1>6
-----------------------------------------------------------------------------
(* What the transfer of each instruction hands on is so.                   *)
LEMMA HandedOne ==
  ASSUME NEW i, i.op \notin Jumps, NEW pc, NEW s
  PROVE  <<pc + 1, TransferInstruction(s, i)>> \in Range(Handed(i, pc, s))
<1> DEFINE t == TransferInstruction(s, i)
<1>1. Handed(i, pc, s) = << <<pc + 1, t>> >>
  BY DEF Handed, Jumps
<1> HIDE DEF t
<1>2. Handed(i, pc, s)[1] = <<pc + 1, t>> /\ 1 \in DOMAIN Handed(i, pc, s)
  BY <1>1
<1> QED
  BY <1>2 DEF Range, t

LEMMA FallsHands ==
  ASSUME NEW s, Here(s), InFrame, Current.op \notin Jumps,
         Agree(TransferInstruction(s, Current), stack', Now, upv')
  PROVE  Hands(s)
<1> DEFINE o == <<ip + 1, TransferInstruction(s, Current)>>
<1>1. ip' = ip + 1
  BY DEF InFrame, Exits, Jumps
<1>2. o \in Range(Handed(Current, ip, s))
  BY HandedOne
<1>3. o[1] = ip' /\ o[2] = TransferInstruction(s, Current)
  BY <1>1
<1> QED
  BY <1>2, <1>3 DEF Hands

Plain == Operators \cup
  {"Compare", "GetIndex", "Negate", "Not", "SetGlobal", "SetUpvalue", "GetGlobal", "GetUpvalue",
   "GetBuiltin", "Closure", "MakeArray", "CallBuiltin"}

LEMMA PlainTransfer ==
  ASSUME NEW i, i.op \in Plain, NEW s
  PROVE  TransferInstruction(s, i) = Cut(s, Pops(i)) \o Unknowns(Pushes(i))
<1>1. Takes(i) = Pops(i)
  <2>1. CASE i.op \in Operators
    BY <2>1 DEF Takes, Pops, Operators
  <2>2. CASE i.op \in {"Compare", "GetIndex", "Negate", "Not", "SetGlobal", "SetUpvalue"}
    BY <2>2 DEF Takes, Pops, Operators
  <2>3. CASE i.op \in {"GetGlobal", "GetUpvalue", "GetBuiltin", "Closure", "MakeArray",
                       "CallBuiltin"}
    BY <2>3 DEF Takes, Pops, Operators
  <2> QED
    BY <2>1, <2>2, <2>3 DEF Plain
<1>2. Gives(i) = Pushes(i)
  <2>1. CASE i.op \in Operators
    BY <2>1 DEF Gives, Pushes, Operators
  <2>2. CASE i.op \in {"Compare", "GetIndex", "Negate", "Not", "SetGlobal", "SetUpvalue"}
    BY <2>2 DEF Gives, Pushes, OneIf
  <2>3. CASE i.op \in {"GetGlobal", "GetUpvalue", "GetBuiltin", "Closure", "MakeArray",
                       "CallBuiltin"}
    BY <2>3 DEF Gives, Pushes, OneIf
  <2> QED
    BY <2>1, <2>2, <2>3 DEF Plain
<1>3. TransferInstruction(s, i) = Cut(s, Takes(i)) \o Unknowns(Gives(i))
  BY DEF TransferInstruction, Plain, Operators
<1> QED
  BY <1>1, <1>2, <1>3

LEMMA PlainHands ==
  ASSUME NEW s, Here(s), Next, InFrame, Current.op \in Plain
  PROVE  Hands(s)
<1> DEFINE n == Pops(Current)
           k == Pushes(Current)
           t == Cut(s, n) \o Unknowns(k)
<1>1. StackInv /\ status = "run" /\ s \in Seq(Claims) /\ Len(s) = Height /\ Apart(Top)
  BY DEF Here
<1>2. Current.op \notin Jumps /\ Current.op \notin {"SetLocal", "Return"}
  BY DEF Plain, Jumps, Operators
<1>3. n \in Nat /\ k \in Nat /\ n <= Height /\ Height \in Nat /\ Exchanged(stack', n, k)
  <2>1. /\ n \in Nat /\ k \in Nat /\ n <= Reads(Current) /\ Reads(Current) <= Height
        /\ Reads(Current) \in Nat /\ Height \in Nat
    BY <1>1, <1>2, TakesItsOwn
  <2>2. Exchanged(stack', n, k)
    BY <1>2 DEF InFrame
  <2> HIDE DEF n, k
  <2> QED
    BY <2>1, <2>2
<1>4. TransferInstruction(s, Current) = t
  BY PlainTransfer
<1> HIDE DEF n, k
<1>5. /\ Len(t) = Len(s) - n + k
      /\ \A j \in 1 .. Len(t) : t[j] = Unknown \/ (j <= Len(s) - n /\ t[j] = s[j])
  BY <1>1, <1>3, GrownClaims
<1> HIDE DEF t
<1>6. \A i \in Nat : CellKept(i, stack, Top, upv, Now, upv')
  BY <1>1, <1>2, CapturesKept
<1>7. Agree(t, stack', Now, upv')
  BY <1>1, <1>3, <1>5, <1>6, ExchangedAgrees
<1> QED
  BY <1>2, <1>4, <1>7, FallsHands

LEMMA HereParts ==
  ASSUME NEW s, Here(s)
  PROVE  /\ StackInv /\ status = "run" /\ Apart(Top) /\ s \in Seq(Claims) /\ Len(s) = Height
         /\ Height \in Nat /\ Top.fp \in Nat /\ Len(stack) = Top.fp + Height
         /\ stack \in Seq(Value) /\ Len(stack) \in Nat /\ Current \in Instruction
         /\ \A j \in 1 .. Height : EntryHolds(s[j], j, stack, Top, upv)
<1>1. /\ StackInv /\ status = "run" /\ Apart(Top) /\ s \in Seq(Claims) /\ Len(s) = Height
      /\ Agree(s, stack, Top, upv)
  BY DEF Here
<1>2. /\ Height \in Nat /\ Top.fp \in Nat /\ Len(stack) = Top.fp + Height
      /\ stack \in Seq(Value) /\ Current \in Instruction
  BY <1>1, TopHere
<1>3. \A j \in 1 .. Height : EntryHolds(s[j], j, stack, Top, upv)
  BY <1>1 DEF Agree
<1> QED
  BY <1>1, <1>2, <1>3

(* A value is pushed, and known to be the constant k or not known.         *)
LEMMA AppendHands ==
  ASSUME NEW s, Here(s), Next, InFrame, CapturedSlotsRest,
         Current.op \in {"Constant", "Duplicate", "GetLocal"},
         NEW k \in Claims, TransferInstruction(s, Current) = Append(s, k),
         NEW v \in Value, stack' = Append(stack, v), k # Unknown => v = ConstantData(k)
  PROVE  Hands(s)
<1> DEFINE h == Height
           fp == Top.fp
           t == Append(s, k)
<1>1. /\ StackInv /\ status = "run" /\ Apart(Top) /\ s \in Seq(Claims) /\ Len(s) = h
      /\ h \in Nat /\ fp \in Nat /\ Len(stack) = fp + h /\ stack \in Seq(Value)
  BY HereParts
<1>2. /\ Current.op \notin Jumps /\ Current.op \notin {"SetLocal", "Closure"}
      /\ Pops(Current) = 0 /\ Pushes(Current) = 1
  BY DEF Jumps, Pops, Pushes, Operators
<1>3. Exchanged(stack', 0, 1)
  BY <1>2 DEF InFrame
<1>4. \A i \in Nat : CellKept(i, stack, Top, upv, Now, upv')
  BY <1>1, <1>2, CapturesKept
<1>5. Now.captured = Top.captured /\ Now.fp = fp
  BY <1>1, <1>2, FrameAfter
<1>6. h \notin DOMAIN Top.captured
  BY <1>1 DEF CapturedSlotsRest, IsCaptured, Height
<1>7. stack'[fp + h + 1] = v
  BY <1>1, Appended
<1>8. /\ Len(t) = h + 1 /\ t[h + 1] = k /\ \A j \in 1 .. h : t[j] = s[j]
  BY <1>1, AppendedClaims
<1> HIDE DEF h, fp, t
<1>9. EntryHolds(k, h + 1, stack', Now, upv')
  <2>1. fp + (h + 1) = fp + h + 1 /\ (h + 1) - 1 = h
    BY <1>1
  <2> QED
    BY <1>5, <1>6, <1>7, <2>1 DEF EntryHolds
<1>10. ASSUME NEW j \in 1 .. Len(t)
       PROVE  \/ t[j] = Unknown
              \/ j <= h - 0 /\ t[j] = s[j]
              \/ EntryHolds(t[j], j, stack', Now, upv')
  <2>1. j = h + 1 \/ (j \in 1 .. h /\ j <= h - 0)
    BY <1>1, <1>8
  <2> QED
    BY <1>8, <1>9, <2>1
<1>11. Len(t) = h - 0 + 1 /\ 0 <= h /\ \A i \in Nat : i < h - 0 => CellKept(i, stack, Top, upv, Now, upv')
  BY <1>1, <1>4, <1>8
<1>12. Agree(t, stack', Now, upv')
  BY <1>3, <1>10, <1>11, ExchangedAgrees DEF h
<1> QED
  BY <1>2, <1>12, FallsHands DEF t

LEMMA ConstantHands ==
  ASSUME NEW s, Here(s), Next, InFrame, CapturedSlotsRest, Current.op = "Constant"
  PROVE  Hands(s)
<1> DEFINE k == Current.index
           v == ConstantData(k)
<1>1. StackInv /\ status = "run" /\ Current \in Instruction
  BY HereParts
<1>2. k \in Claims /\ k # Unknown
  BY <1>1, InstructionFields DEF Claims, Unknown
<1>3. Constant
  BY <1>1, Executed DEF InFrame
<1>4. stack' = Append(stack, v)
  BY <1>3 DEF Constant, Leaves, ConstantData
<1>5. v \in Value
  <2>1. /\ Sound(Nat, DOMAIN upv) /\ Runs({"Constant"})
    BY <1>1, <1>3, FramesHere DEF Constant
  <2>2. /\ InBounds(Current, ip, Len(Code), bytecode.consts, Range(BuiltinIds)) /\ Basics
    BY <2>1, RunsHere
  <2>3. bytecode.consts \in Seq(Datum(Chunks)) /\ k < Len(bytecode.consts) /\ k \in Nat
    BY <1>1, <2>2, InstructionFields DEF InBounds, Basics, WellFormed, Chunks
  <2> DEFINE d == bytecode.consts[k + 1]
             D == Datum(Chunks)
  <2> HIDE DEF D, k
  <2>4. k + 1 \in DOMAIN bytecode.consts /\ d \in D
    BY <2>3 DEF D
  <2>5. d \in Range(bytecode.consts)
    BY <2>4 DEF Range
  <2> HIDE DEF d
  <2>6. ~NeedsCell(d) => d \in ValuesOver(Nat)
    BY <2>4, <2>5, DatumFields DEF D
  <2>7. ConstantKey(k) \in Nat
    BY <2>3, VMAssumption DEF ConstantKey
  <2>8. RefV(ConstantKey(k)) \in ValuesOver(Nat)
    BY <2>7, Primitives
  <2>9. ConstantData(k) \in ValuesOver(Nat)
    BY <2>6, <2>8 DEF ConstantData, d
  <2> QED
    BY <2>9 DEF ValuesOver
<1>6. TransferInstruction(s, Current) = Append(s, k)
  BY DEF TransferInstruction
<1> QED
  BY <1>2, <1>4, <1>5, <1>6, AppendHands

LEMMA DuplicateHands ==
  ASSUME NEW s, Here(s), Next, InFrame, CapturedSlotsRest, Current.op = "Duplicate"
  PROVE  Hands(s)
<1> DEFINE n == Current.index
           k == Known(s, Len(s) - n - 1)
           h == Height
<1>1. /\ StackInv /\ status = "run" /\ s \in Seq(Claims) /\ Len(s) = h /\ Current \in Instruction
      /\ h \in Nat /\ Top.fp \in Nat /\ Len(stack) = Top.fp + h /\ stack \in Seq(Value)
      /\ \A j \in 1 .. h : EntryHolds(s[j], j, stack, Top, upv)
  BY HereParts
<1>2. n \in Nat /\ n < h
  <2>1. Reads(Current) = n + 1 /\ Reads(Current) <= h
    BY <1>1, TakesItsOwn DEF Reads
  <2>2. n \in Nat
    BY <1>1, InstructionFields
  <2> QED
    BY <1>1, <2>1, <2>2
<1>3. stack' = Append(stack, Peek(n))
  BY <1>1, Executed DEF InFrame, Duplicate, Leaves
<1>4. TransferInstruction(s, Current) = Append(s, k)
  BY DEF TransferInstruction
<1> HIDE DEF n, h
<1>5. Peek(n) = stack[Top.fp + (h - n)] /\ Peek(n) \in Value
  <2>1. Len(stack) - n = Top.fp + (h - n) /\ n < Len(stack)
    BY <1>1, <1>2
  <2> QED
    BY <1>1, <1>2, <2>1, PeekOver DEF Peek
<1>6. k \in Claims /\ k = s[h - n] /\ h - n \in 1 .. h
  <2>1. /\ Len(s) - n - 1 \in Nat /\ Len(s) - n - 1 < Len(s) /\ (Len(s) - n - 1) + 1 = h - n
        /\ h - n \in 1 .. h
    BY <1>1, <1>2
  <2> QED
    BY <1>1, <2>1, KnownClaims
<1>7. k # Unknown => Peek(n) = ConstantData(k)
  BY <1>1, <1>5, <1>6 DEF EntryHolds
<1> QED
  BY <1>3, <1>4, <1>5, <1>6, <1>7, AppendHands

LEMMA GetLocalHands ==
  ASSUME NEW s, Here(s), Next, InFrame, CapturedSlotsRest, Current.op = "GetLocal"
  PROVE  Hands(s)
<1> DEFINE i == Current.index
           k == Known(s, i)
           h == Height
<1>1. /\ StackInv /\ status = "run" /\ s \in Seq(Claims) /\ Len(s) = h /\ Current \in Instruction
      /\ h \in Nat /\ Top.fp \in Nat /\ Len(stack) = Top.fp + h /\ stack \in Seq(Value)
      /\ \A j \in 1 .. h : EntryHolds(s[j], j, stack, Top, upv)
  BY HereParts
<1>2. i \in Nat /\ i < h
  <2>1. SlotsNamed(Current) = {i} /\ Pops(Current) = 0
    BY DEF SlotsNamed, Pops, Operators
  <2>2. i < h - 0
    BY <1>1, <2>1, TakesItsOwn
  <2>3. i \in Nat
    BY <1>1, InstructionFields
  <2> QED
    BY <1>1, <2>2, <2>3
<1>3. stack' = Append(stack, LocalValue(i))
  BY <1>1, Executed DEF InFrame, GetLocal, Leaves
<1>4. TransferInstruction(s, Current) = Append(s, k)
  BY DEF TransferInstruction
<1> HIDE DEF i, h
<1>5. /\ i + 1 \in 1 .. h /\ (i + 1) - 1 = i /\ Top.fp + (i + 1) = Slot(i) /\ Slot(i) \in 1 .. Len(stack)
  BY <1>1, <1>2 DEF Slot
<1>6. k \in Claims /\ k = s[i + 1]
  BY <1>1, <1>2, KnownClaims
<1>7. LocalValue(i) \in Value
  <2>1. /\ upv \in Seq(Value) /\ \A n \in DOMAIN Top.captured : Top.captured[n] \in DOMAIN upv
    BY <1>1, TopHere
  <2>2. stack[Slot(i)] \in Value
    BY <1>1, <1>5
  <2> QED
    BY <2>1, <2>2 DEF LocalValue, IsCaptured
<1>8. k # Unknown => LocalValue(i) = ConstantData(k)
  <2>1. EntryHolds(k, i + 1, stack, Top, upv)
    BY <1>1, <1>5, <1>6
  <2> QED
    BY <1>5, <2>1 DEF EntryHolds, LocalValue, IsCaptured
<1> QED
  BY <1>3, <1>4, <1>6, <1>7, <1>8, AppendHands

(* Values are taken off, and what is left is known as before, or less of   *)
(* it.                                                                     *)
LEMMA CutHands ==
  ASSUME NEW s, Here(s), Next, InFrame, Current.op \in {"Pop", "VectorAppend"}
  PROVE  Hands(s)
<1> DEFINE n == Current.count
           r == Cut(s, n)
           t == TransferInstruction(s, Current)
           h == Height
<1>1. /\ StackInv /\ status = "run" /\ Apart(Top) /\ s \in Seq(Claims) /\ Len(s) = h
      /\ h \in Nat /\ Current \in Instruction
  BY HereParts
<1>2. /\ Current.op \notin Jumps /\ Current.op \notin {"SetLocal", "Closure"}
      /\ Pops(Current) = n /\ Pushes(Current) = 0 /\ n \in Nat
  BY <1>1, InstructionFields DEF Jumps, Pops, Pushes, Operators
<1>3. n <= h /\ (Current.op = "VectorAppend" => n < h)
  <2>1. Reads(Current) = IF Current.op = "VectorAppend" THEN n + 1 ELSE n
    BY <1>2 DEF Reads
  <2>2. Reads(Current) <= h
    BY <1>1, <1>2, TakesItsOwn DEF Jumps
  <2> QED
    BY <1>1, <1>2, <2>1, <2>2
<1>4. Exchanged(stack', n, 0)
  BY <1>2 DEF InFrame
<1>5. \A i \in Nat : CellKept(i, stack, Top, upv, Now, upv')
  BY <1>1, <1>2, CapturesKept
<1>6. /\ Current.op = "Pop" => t = r
      /\ Current.op = "VectorAppend" => t = SetKnown(r, Len(r) - 1, Unknown)
  BY DEF TransferInstruction
<1>7. r \in Seq(Claims) /\ Len(r) = h - n /\ \A j \in 1 .. h - n : r[j] = s[j]
  BY <1>1, <1>2, <1>3, CutClaims
<1> HIDE DEF n, r, t, h
<1>8. Len(t) = h - n /\ \A j \in 1 .. h - n : t[j] = Unknown \/ t[j] = s[j]
  <2>1. CASE Current.op = "Pop"
    BY <1>6, <1>7, <2>1
  <2>2. CASE Current.op = "VectorAppend"
    <3> DEFINE e == Len(r) - 1
    <3>1. e \in Nat /\ e < Len(r) /\ e + 1 = Len(r) /\ Unknown \in Claims
      BY <1>1, <1>2, <1>3, <1>7, <2>2 DEF Claims
    <3>2. t = SetKnown(r, e, Unknown)
      BY <1>6, <2>2
    <3> HIDE DEF e
    <3>3. /\ Len(t) = Len(r) /\ t[e + 1] = Unknown
          /\ \A j \in 1 .. Len(r) : j # e + 1 => t[j] = r[j]
      BY <1>7, <3>1, <3>2, SetClaims
    <3> QED
      BY <1>7, <3>3
  <2> QED
    BY <2>1, <2>2
<1>9. /\ Len(t) = h - n + 0
      /\ \A j \in 1 .. Len(t) : t[j] = Unknown \/ (j <= h - n /\ t[j] = s[j])
  BY <1>1, <1>2, <1>3, <1>8
<1>10. Agree(t, stack', Now, upv')
  BY <1>2, <1>3, <1>4, <1>5, <1>9, ExchangedAgrees DEF h
<1> QED
  BY <1>2, <1>10, FallsHands DEF t

(* An assignment is to the slot of the local and to its cell, and to no    *)
(* other local's.                                                          *)
LEMMA SetLocalHands ==
  ASSUME NEW s, Here(s), Next, InFrame, Current.op = "SetLocal"
  PROVE  Hands(s)
<1> DEFINE i == Current.index
           h == Height
           fp == Top.fp
           r == Cut(s, 1)
           k == Known(s, Len(s) - 1)
           t == TransferInstruction(s, Current)
           under == Drop(1)
           v == Peek(0)
<1>1. /\ StackInv /\ status = "run" /\ Apart(Top) /\ s \in Seq(Claims) /\ Len(s) = h
      /\ h \in Nat /\ fp \in Nat /\ Len(stack) = fp + h /\ stack \in Seq(Value)
      /\ Current \in Instruction /\ \A j \in 1 .. h : EntryHolds(s[j], j, stack, Top, upv)
  BY HereParts
<1>2. i \in Nat /\ i < h - 1
  <2>1. SlotsNamed(Current) = {i} /\ Pops(Current) = 1
    BY DEF SlotsNamed, Pops, Operators
  <2> QED
    BY <1>1, <2>1, InstructionFields, TakesItsOwn
<1>3. SetLocal
  BY <1>1, Executed DEF InFrame
<1>4. /\ stack' = [under EXCEPT ![Slot(i)] = v]
      /\ upv' = IF i \in DOMAIN Top.captured THEN [upv EXCEPT ![Top.captured[i]] = v] ELSE upv
  BY <1>3 DEF SetLocal, Leaves, IsCaptured
<1>5. t = SetKnown(r, i, k)
  BY DEF TransferInstruction
<1>6. Now.captured = Top.captured /\ Now.fp = fp
  BY <1>1, FrameAfter
<1>7. /\ upv \in Seq(Value) /\ \A n \in DOMAIN Top.captured : Top.captured[n] \in DOMAIN upv
      /\ \A m, n \in DOMAIN Top.captured : Top.captured[m] = Top.captured[n] => m = n
  BY <1>1, TopHere DEF Apart
<1>8. /\ r \in Seq(Claims) /\ Len(r) = h - 1 /\ \A j \in 1 .. h - 1 : r[j] = s[j]
  <2>1. 1 <= h
    BY <1>1, <1>2
  <2> QED
    BY <1>1, <2>1, CutClaims
<1>9. k \in Claims /\ k = s[h]
  <2> DEFINE e == Len(s) - 1
  <2>1. e \in Nat /\ e < Len(s) /\ e + 1 = h
    BY <1>1, <1>2
  <2>2. k = Known(s, e)
    OBVIOUS
  <2> HIDE DEF e, k
  <2> QED
    BY <1>1, <2>1, <2>2, KnownClaims
<1> HIDE DEF i, h, fp, r, k, t
<1>10. /\ under \in Seq(Value) /\ Len(under) = fp + (h - 1)
       /\ \A j \in 1 .. fp + (h - 1) : under[j] = stack[j]
  <2>1. 1 <= Len(stack) /\ Len(stack) - 1 = fp + (h - 1)
    BY <1>1, <1>2
  <2> QED
    BY <1>1, <2>1, StackParts
<1>11. v = stack[fp + h] /\ v \in Value
  <2>1. Len(stack) - 0 = fp + h /\ fp + h \in 1 .. Len(stack)
    BY <1>1, <1>2
  <2> QED
    BY <1>1, <2>1 DEF Peek
<1>12. Slot(i) = fp + (i + 1) /\ i + 1 \in 1 .. h - 1 /\ fp + (i + 1) \in 1 .. fp + (h - 1)
  <2>1. Slot(i) = fp + i + 1
    BY DEF Slot, fp
  <2> QED
    BY <1>1, <1>2, <2>1
<1>13. k # Unknown => v = ConstantData(k)
  <2>1. h \in 1 .. h
    BY <1>1, <1>2
  <2> QED
    BY <1>1, <1>9, <1>11, <2>1 DEF EntryHolds, fp
<1> HIDE DEF under, v
<1>14. /\ t \in Seq(Claims) /\ Len(t) = h - 1 /\ t[i + 1] = k
       /\ \A j \in 1 .. h - 1 : j # i + 1 => t[j] = s[j]
  <2>1. i < Len(r)
    BY <1>2, <1>8
  <2>2. /\ t \in Seq(Claims) /\ Len(t) = Len(r) /\ t[i + 1] = k
        /\ \A j \in 1 .. Len(r) : j # i + 1 => t[j] = r[j]
    BY <1>2, <1>5, <1>8, <1>9, <2>1, SetClaims
  <2> QED
    BY <1>8, <2>2
<1>15. /\ Len(stack') = fp + (h - 1) /\ stack'[fp + (i + 1)] = v
       /\ \A j \in 1 .. fp + (h - 1) : j # fp + (i + 1) => stack'[j] = stack[j]
  BY <1>4, <1>10, <1>11, <1>12
<1>16. /\ i \in DOMAIN Top.captured => upv'[Top.captured[i]] = v
       /\ \A n \in DOMAIN Top.captured : n # i => upv'[Top.captured[n]] = upv[Top.captured[n]]
  <2>1. CASE i \in DOMAIN Top.captured
    <3> DEFINE c == Top.captured[i]
    <3>1. /\ upv' = [upv EXCEPT ![c] = v] /\ c \in DOMAIN upv
          /\ \A n \in DOMAIN Top.captured : n # i => Top.captured[n] # c
      BY <1>4, <1>7, <2>1
    <3> HIDE DEF c
    <3>2. upv'[c] = v /\ \A d \in DOMAIN upv : d # c => upv'[d] = upv[d]
      BY <1>7, <3>1
    <3> QED
      BY <1>7, <3>1, <3>2 DEF c
  <2>2. CASE i \notin DOMAIN Top.captured
    BY <1>4, <2>2
  <2> QED
    BY <2>1, <2>2
<1>17. ASSUME NEW j \in 1 .. Len(t)
       PROVE  \/ t[j] = Unknown
              \/ j <= Len(s) /\ t[j] = s[j] /\ EntryKept(j, stack, Top, upv, stack', Now, upv')
              \/ EntryHolds(t[j], j, stack', Now, upv')
  <2>1. CASE j = i + 1
    <3>1. j - 1 = i
      BY <1>2, <2>1
    <3>2. EntryHolds(k, j, stack', Now, upv')
      BY <1>6, <1>13, <1>15, <1>16, <2>1, <3>1 DEF EntryHolds
    <3> QED
      BY <1>14, <2>1, <3>2
  <2>2. CASE j # i + 1
    <3>1. /\ j \in 1 .. h - 1 /\ j <= Len(s) /\ j - 1 # i
          /\ fp + j \in 1 .. fp + (h - 1) /\ fp + j # fp + (i + 1)
      BY <1>1, <1>2, <1>14, <2>2
    <3>2. t[j] = s[j] /\ stack'[fp + j] = stack[fp + j]
      BY <1>14, <1>15, <2>2, <3>1
    <3>3. CellKept(j - 1, stack, Top, upv, Now, upv')
      BY <1>6, <1>16, <3>1 DEF CellKept
    <3> QED
      BY <1>6, <3>1, <3>2, <3>3 DEF EntryKept, fp
  <2> QED
    BY <2>1, <2>2
<1>18. /\ Len(s) \in Nat /\ Top.fp \in Nat /\ Len(t) = Len(stack') - Now.fp /\ Len(t) \in Nat
       /\ Agree(s, stack, Top, upv)
  BY <1>1, <1>2, <1>6, <1>14, <1>15 DEF fp, Here
<1>19. Agree(t, stack', Now, upv')
  BY <1>17, <1>18, KeptAgrees
<1>20. Current.op \notin Jumps
  BY DEF Jumps
<1> QED
  BY <1>19, <1>20, FallsHands DEF t

(* Jumps leave the stack as it is but for what they take off.              *)
LEMMA JumpTransfer ==
  ASSUME NEW s \in Seq(Claims), NEW i, i.op \in {"Jump", "JumpIf"}, NEW t,
         t = TransferInstruction(s, i)
  PROVE  /\ t \in Seq(Claims) /\ Len(t) = Len(s)
         /\ \A j \in 1 .. Len(s) : t[j] = Unknown \/ t[j] = s[j]
<1>1. t = Cut(s, 0) \o Unknowns(0)
  BY DEF TransferInstruction, Takes, Gives
<1>2. /\ t \in Seq(Claims) /\ Len(t) = Len(s) - 0 + 0
      /\ \A j \in 1 .. Len(t) : t[j] = Unknown \/ (j <= Len(s) - 0 /\ t[j] = s[j])
  <2> DEFINE z == 0
             r == Cut(s, z) \o Unknowns(z)
  <2>1. z \in Nat /\ z <= Len(s) /\ t = r
    BY <1>1
  <2> HIDE DEF z
  <2>2. /\ r \in Seq(Claims) /\ Len(r) = Len(s) - z + z
        /\ \A j \in 1 .. Len(r) : r[j] = Unknown \/ (j <= Len(s) - z /\ r[j] = s[j])
    BY <2>1, GrownClaims
  <2> HIDE DEF r
  <2> QED
    BY <2>1, <2>2 DEF z
<1>3. Len(t) = Len(s)
  BY <1>2
<1> QED
  BY <1>1, <1>2, <1>3

LEMMA JumpHands ==
  ASSUME NEW s, Here(s), Next, InFrame, Current.op = "Jump"
  PROVE  Hands(s)
<1> DEFINE t == TransferInstruction(s, Current)
           h == Height
           o == <<Current.offset, t>>
<1>1. /\ StackInv /\ status = "run" /\ Apart(Top) /\ s \in Seq(Claims) /\ Len(s) = h
      /\ h \in Nat /\ Len(stack) \in Nat
  BY HereParts
<1>2. stack' = stack /\ ip' = Current.offset
  BY <1>1, Executed DEF InFrame, Jump
<1>3. \A n \in Nat : CellKept(n, stack, Top, upv, Now, upv')
  BY <1>1, CapturesKept
<1>4. Len(t) = h /\ \A j \in 1 .. h : t[j] = Unknown \/ t[j] = s[j]
  <2>1. t = TransferInstruction(s, Current)
    OBVIOUS
  <2> HIDE DEF t, h
  <2> QED
    BY <1>1, <2>1, JumpTransfer
<1>5. o \in Range(Handed(Current, ip, s)) /\ o[1] = ip' /\ o[2] = t
  <2>1. Handed(Current, ip, s) = << o >>
    BY DEF Handed
  <2> HIDE DEF o
  <2>2. Handed(Current, ip, s)[1] = o /\ 1 \in DOMAIN Handed(Current, ip, s)
    BY <2>1
  <2> QED
    BY <1>2, <2>2 DEF Range, o
<1> HIDE DEF t, h, o
<1>6. Exchanged(stack', 0, 0)
  BY <1>1, <1>2 DEF Exchanged
<1>7. /\ Len(t) = h - 0 + 0 /\ 0 <= h
      /\ \A j \in 1 .. Len(t) : t[j] = Unknown \/ (j <= h - 0 /\ t[j] = s[j])
  BY <1>1, <1>4
<1>8. Agree(t, stack', Now, upv')
  BY <1>3, <1>6, <1>7, ExchangedAgrees DEF h
<1> QED
  BY <1>5, <1>8 DEF Hands

(* JumpIf looks at the condition and, on each way, keeps it or not.        *)
Rest(t, keeps) == Cut(t, 1) \o (IF keeps THEN <<Known(t, Len(t) - 1)>> ELSE <<>>)

LEMMA RestClaims ==
  ASSUME NEW t \in Seq(Claims), Len(t) # 0, NEW keeps
  PROVE  /\ Len(Rest(t, keeps)) = Len(t) - 1 + OneIf(keeps)
         /\ \A j \in 1 .. Len(Rest(t, keeps)) : j \in 1 .. Len(t) /\ Rest(t, keeps)[j] = t[j]
<1> DEFINE a == Cut(t, 1)
           n == Len(t)
           k == Known(t, Len(t) - 1)
           b == IF keeps THEN <<k>> ELSE <<>>
<1>1. n \in Nat /\ 1 <= n /\ Rest(t, keeps) = a \o b
  BY DEF Rest
<1>2. a \in Seq(Claims) /\ Len(a) = n - 1 /\ \A j \in 1 .. n - 1 : a[j] = t[j]
  BY <1>1, CutClaims
<1>3. k \in Claims /\ k = t[n]
  <2> DEFINE e == Len(t) - 1
  <2>1. e \in Nat /\ e < Len(t) /\ e + 1 = n /\ k = Known(t, e)
    BY <1>1
  <2> HIDE DEF e, k, n
  <2> QED
    BY <2>1, KnownClaims
<1> HIDE DEF a, n, k
<1>4. CASE keeps
  <2>1. b = <<k>> /\ OneIf(keeps) = 1
    BY <1>4 DEF OneIf
  <2> DEFINE S == Claims
  <2>2. a \in Seq(S) /\ k \in S
    BY <1>2, <1>3
  <2> HIDE DEF S, b
  <2>3. /\ Len(a \o b) = n - 1 + 1 /\ \A j \in 1 .. n - 1 : (a \o b)[j] = a[j]
        /\ (a \o b)[n] = k
    BY <1>1, <1>2, <2>1, <2>2
  <2>4. \A j \in 1 .. n : j = n \/ j \in 1 .. n - 1
    BY <1>1
  <2>5. n - 1 + 1 = n
    BY <1>1
  <2> QED
    BY <1>1, <1>2, <1>3, <2>1, <2>3, <2>4, <2>5 DEF n
<1>5. CASE ~keeps
  <2>1. b = <<>> /\ OneIf(keeps) = 0
    BY <1>5 DEF OneIf
  <2> DEFINE S == Claims
  <2>2. a \in Seq(S)
    BY <1>2
  <2> HIDE DEF S, b
  <2>3. Len(a \o b) = n - 1 + 0 /\ \A j \in 1 .. n - 1 : (a \o b)[j] = a[j]
    BY <1>1, <1>2, <2>1, <2>2
  <2>4. /\ n - 1 + 0 = n - 1 /\ \A j \in 1 .. n - 1 : j \in 1 .. n
    BY <1>1
  <2> QED
    BY <1>1, <1>2, <2>1, <2>3, <2>4 DEF n
<1> QED
  BY <1>4, <1>5

LEMMA JumpIfHands ==
  ASSUME NEW s, Here(s), Next, InFrame, Current.op = "JumpIf"
  PROVE  Hands(s)
<1> DEFINE t == TransferInstruction(s, Current)
           h == Height
           jumps == IsTruthy(Peek(0), heap) = Current.expected
           keeps == IF jumps THEN Current.keepJump ELSE Current.keepStay
           r == Rest(t, keeps)
           o == <<ip', r>>
<1>1. /\ StackInv /\ status = "run" /\ Apart(Top) /\ s \in Seq(Claims) /\ Len(s) = h
      /\ h \in Nat /\ stack \in Seq(Value) /\ Len(stack) = Top.fp + h /\ Top.fp \in Nat
  BY HereParts
<1>2. /\ ip' = IF jumps THEN Current.offset ELSE ip + 1
      /\ stack' = IF keeps THEN stack ELSE Drop(1)
  BY <1>1, Executed DEF InFrame, JumpIf
<1>3. \A n \in Nat : CellKept(n, stack, Top, upv, Now, upv')
  BY <1>1, CapturesKept
<1>4. t \in Seq(Claims) /\ Len(t) = h /\ \A j \in 1 .. h : t[j] = Unknown \/ t[j] = s[j]
  <2>1. /\ t \in Seq(Claims) /\ Len(t) = Len(s)
        /\ \A j \in 1 .. Len(s) : t[j] = Unknown \/ t[j] = s[j]
    <3>1. t = TransferInstruction(s, Current)
      OBVIOUS
    <3>2. s \in Seq(Claims) /\ Current.op \in {"Jump", "JumpIf"}
      BY <1>1
    <3>3. /\ TransferInstruction(s, Current) \in Seq(Claims)
          /\ Len(TransferInstruction(s, Current)) = Len(s)
          /\ \A j \in 1 .. Len(s) : \/ TransferInstruction(s, Current)[j] = Unknown
                                   \/ TransferInstruction(s, Current)[j] = s[j]
      BY ONLY <3>2, JumpTransfer
    <3> HIDE DEF t, h
    <3> QED
      BY ONLY <3>1, <3>3
  <2> HIDE DEF t, h
  <2> QED
    BY <1>1, <2>1
<1>5. 1 <= h
  <2>1. Reads(Current) = 1 /\ Reads(Current) <= h
    BY <1>1, TakesItsOwn DEF Reads
  <2> QED
    BY <2>1
<1>6. o \in Range(Handed(Current, ip, s)) /\ o[1] = ip' /\ o[2] = r
  <2> DEFINE o1 == <<Current.offset, Rest(t, Current.keepJump)>>
             o2 == <<ip + 1, Rest(t, Current.keepStay)>>
  <2>1. Handed(Current, ip, s) = << o1, o2 >>
    BY DEF Handed, Rest
  <2>2. o = o1 \/ o = o2
    BY <1>2
  <2> HIDE DEF o1, o2
  <2>3. /\ Handed(Current, ip, s)[1] = o1 /\ 1 \in DOMAIN Handed(Current, ip, s)
        /\ Handed(Current, ip, s)[2] = o2 /\ 2 \in DOMAIN Handed(Current, ip, s)
    BY <2>1
  <2> QED
    BY <2>2, <2>3 DEF Range
<1> HIDE DEF t, h, keeps, r, o
<1>7. /\ Len(r) = h - 1 + OneIf(keeps)
      /\ \A j \in 1 .. Len(r) : j \in 1 .. h /\ r[j] = t[j]
  <2>1. Len(t) # 0
    BY <1>1, <1>4, <1>5
  <2> QED
    BY <1>4, <2>1, RestClaims DEF r
<1>8. CASE keeps
  <2>1. stack' = stack
    BY <1>2, <1>8
  <2>2. Exchanged(stack', 0, 0)
    BY <1>1, <2>1 DEF Exchanged
  <2>3. Len(r) = h - 0 + 0 /\ 0 <= h
    BY <1>1, <1>7, <1>8 DEF OneIf
  <2>4. ASSUME NEW j \in 1 .. Len(r) PROVE r[j] = Unknown \/ (j <= h - 0 /\ r[j] = s[j])
    BY <1>1, <1>4, <1>7
  <2>5. Agree(r, stack', Now, upv')
    BY <1>3, <2>2, <2>3, <2>4, ExchangedAgrees DEF h
  <2> QED
    BY <1>6, <2>5 DEF Hands
<1>9. CASE ~keeps
  <2>1. stack' = Drop(1) /\ 1 <= Len(stack)
    BY <1>1, <1>2, <1>5, <1>9
  <2>2. Exchanged(stack', 1, 0)
    BY <1>1, <2>1, Trades
  <2>3. Len(r) = h - 1 + 0
    BY <1>1, <1>7, <1>9 DEF OneIf
  <2>4. ASSUME NEW j \in 1 .. Len(r) PROVE r[j] = Unknown \/ (j <= h - 1 /\ r[j] = s[j])
    BY <1>1, <1>4, <1>7, <2>3
  <2>5. Agree(r, stack', Now, upv')
    BY <1>3, <1>5, <2>2, <2>3, <2>4, ExchangedAgrees DEF h
  <2> QED
    BY <1>6, <2>5 DEF Hands
<1> QED
  BY <1>8, <1>9

(* Of the counter nothing is known; it is written to its slot alone.       *)
LEMMA ForLoopHands ==
  ASSUME NEW s, Here(s), Next, InFrame, Current.op = "ForLoop"
  PROVE  Hands(s)
<1> DEFINE i == Current.control
           h == Height
           fp == Top.fp
           t == TransferInstruction(s, Current)
           o == <<ip', t>>
<1>1. /\ StackInv /\ status = "run" /\ Apart(Top) /\ s \in Seq(Claims) /\ Len(s) = h
      /\ h \in Nat /\ fp \in Nat /\ Len(stack) = fp + h /\ stack \in Seq(Value)
      /\ Current \in Instruction
  BY HereParts
<1>2. i \in Nat /\ i < h
  <2>1. i \in SlotsNamed(Current) /\ Pops(Current) = 0
    BY DEF SlotsNamed, Pops, Operators
  <2>2. i < h - 0
    BY <1>1, <2>1, TakesItsOwn
  <2>3. i \in Nat
    BY <1>1, InstructionFields
  <2> QED
    BY <1>1, <2>2, <2>3
<1>3. ip' \in {Current.body, ip + 1} /\ \E v : stack' = [stack EXCEPT ![Slot(i)] = v]
  <2>1. ForLoop /\ status' = "run"
    BY <1>1, Executed DEF InFrame
  <2> QED
    BY <2>1 DEF ForLoop, Breaks, FailSynced, Fault
<1>4. t = SetKnown(s, i, Unknown)
  BY DEF TransferInstruction
<1>5. o \in Range(Handed(Current, ip, s)) /\ o[1] = ip' /\ o[2] = t
  <2> DEFINE o1 == <<Current.body, t>>
             o2 == <<ip + 1, t>>
  <2>1. Handed(Current, ip, s) = << o1, o2 >>
    BY DEF Handed
  <2>2. o = o1 \/ o = o2
    BY <1>3
  <2> HIDE DEF o1, o2
  <2>3. /\ Handed(Current, ip, s)[1] = o1 /\ 1 \in DOMAIN Handed(Current, ip, s)
        /\ Handed(Current, ip, s)[2] = o2 /\ 2 \in DOMAIN Handed(Current, ip, s)
    BY <2>1
  <2> QED
    BY <2>2, <2>3 DEF Range
<1>6. \A n \in Nat : CellKept(n, stack, Top, upv, Now, upv')
  BY <1>1, CapturesKept
<1>7. Now.fp = fp
  BY <1>1, FrameAfter
<1> HIDE DEF i, h, fp, t, o
<1>8. PICK v : stack' = [stack EXCEPT ![Slot(i)] = v]
  BY <1>3
<1>9. Len(stack') = Len(stack) /\ \A j \in 1 .. Len(stack) : j # Slot(i) => stack'[j] = stack[j]
  <2> DEFINE S == Value \cup {v}
             e == Slot(i)
  <2>1. stack \in Seq(S) /\ stack' = [stack EXCEPT ![e] = v]
    BY <1>1, <1>8, SeqMore
  <2> HIDE DEF S, e
  <2>2. Len(stack') = Len(stack) /\ \A j \in 1 .. Len(stack) : j # e => stack'[j] = stack[j]
    BY <2>1
  <2> QED
    BY <2>2 DEF e
<1>10. Slot(i) = fp + (i + 1)
  BY <1>1, <1>2 DEF Slot, fp
<1>11. /\ t \in Seq(Claims) /\ Len(t) = h /\ t[i + 1] = Unknown
       /\ \A j \in 1 .. h : j # i + 1 => t[j] = s[j]
  <2>1. i < Len(s) /\ Unknown \in Claims
    BY <1>1, <1>2 DEF Claims
  <2> QED
    BY <1>1, <1>2, <1>4, <2>1, SetClaims
<1>12. ASSUME NEW j \in 1 .. Len(t)
       PROVE  \/ t[j] = Unknown
              \/ j <= Len(s) /\ t[j] = s[j] /\ EntryKept(j, stack, Top, upv, stack', Now, upv')
              \/ EntryHolds(t[j], j, stack', Now, upv')
  <2>1. CASE j = i + 1
    BY <1>11, <2>1
  <2>2. CASE j # i + 1
    <3>1. /\ j \in 1 .. h /\ j <= Len(s) /\ j - 1 \in Nat
          /\ fp + j \in 1 .. Len(stack) /\ fp + j # fp + (i + 1)
      BY <1>1, <1>2, <1>11, <2>2
    <3>2. t[j] = s[j] /\ stack'[fp + j] = stack[fp + j]
      BY <1>9, <1>10, <1>11, <2>2, <3>1
    <3>3. CellKept(j - 1, stack, Top, upv, Now, upv')
      BY <1>6, <3>1
    <3> QED
      BY <1>7, <3>1, <3>2, <3>3 DEF EntryKept, fp
  <2> QED
    BY <2>1, <2>2
<1>13. /\ Len(s) \in Nat /\ Top.fp \in Nat /\ Len(t) = Len(stack') - Now.fp /\ Len(t) \in Nat
       /\ Agree(s, stack, Top, upv)
  BY <1>1, <1>2, <1>7, <1>9, <1>11 DEF fp, Here
<1>14. Agree(t, stack', Now, upv')
  BY <1>12, <1>13, KeptAgrees
<1> QED
  BY <1>5, <1>14 DEF Hands

(* After a call nothing is known.                                          *)
LEMMA AfterCallClaims ==
  ASSUME NEW s \in Seq(Claims), NEW i, i.argc \in Nat, i.argc + 1 <= Len(s)
  PROVE  /\ AfterCall(s, i) = Unknowns(Len(s) - (i.argc + 1) + OneIf(i.keep))
         /\ Len(s) - (i.argc + 1) + OneIf(i.keep) \in Nat
<1>1. Len(Cut(s, i.argc + 1)) = Len(s) - (i.argc + 1)
  BY CutClaims
<1>2. OneIf(i.keep) \in {0, 1} /\ (IF i.keep THEN 1 ELSE 0) = OneIf(i.keep)
  BY DEF OneIf
<1>3. Len(s) \in Nat
  OBVIOUS
<1>4. AfterCall(s, i) = Unknowns(Len(Cut(s, i.argc + 1)) + OneIf(i.keep))
  BY <1>2 DEF AfterCall
<1> QED
  BY <1>1, <1>2, <1>3, <1>4

LEMMA CallHands ==
  ASSUME NEW s, Here(s), InFrame, Current.op = "Call"
  PROVE  Hands(s)
<1> DEFINE h == Height
           n == Current.argc + 1
           k == OneIf(Current.keep)
           t == TransferInstruction(s, Current)
<1>1. /\ StackInv /\ status = "run" /\ s \in Seq(Claims) /\ Len(s) = h
      /\ h \in Nat /\ Top.fp \in Nat /\ Len(stack) = Top.fp + h
      /\ Current \in Instruction
  BY HereParts
<1>2. Pops(Current) = n /\ Pushes(Current) = k /\ Current.op \notin Jumps
  BY DEF Pops, Pushes, Operators, Jumps
<1>3. n \in Nat /\ n <= h /\ k \in Nat /\ Current.argc \in Nat
  <2>1. /\ Pops(Current) \in Nat /\ Pushes(Current) \in Nat /\ Reads(Current) \in Nat
        /\ Pops(Current) <= Reads(Current) /\ Reads(Current) <= Height
    BY <1>1, TakesItsOwn
  <2>2. Current.argc \in Nat
    BY <1>1, InstructionFields
  <2> HIDE DEF n, k
  <2> QED
    BY <1>1, <1>2, <2>1, <2>2
<1>4. Exchanged(stack', n, k)
  BY <1>2 DEF InFrame
<1>5. t = Unknowns(h - n + k) /\ h - n + k \in Nat
  <2>1. t = AfterCall(s, Current)
    BY DEF TransferInstruction
  <2> QED
    BY <1>1, <1>3, <2>1, AfterCallClaims
<1> HIDE DEF h, n, k, t
<1>6. Len(t) = h - n + k /\ \A j \in 1 .. Len(t) : t[j] = Unknown
  BY <1>5, UnknownsClaims
<1>7. Now.fp = Top.fp
  BY <1>1, FrameAfter
<1>8. Len(stack') = Len(stack) - n + k
  BY <1>4 DEF Exchanged
<1>9. Len(t) = Len(stack') - Now.fp
  BY <1>1, <1>3, <1>6, <1>7, <1>8
<1>10. Agree(t, stack', Now, upv')
  BY <1>6, <1>9, NothingKnown
<1> QED
  BY <1>2, <1>10, FallsHands DEF t

LEMMA EveryHands ==
  ASSUME NEW s, Here(s), Next, InFrame, CapturedSlotsRest, Current.op # "SetIndex"
  PROVE  Hands(s)
<1>1. Current \in Instruction
  BY HereParts
<1>2. \/ Current.op \in Plain \cup {"Return", "Constant", "Duplicate", "GetLocal", "SetLocal"}
      \/ Current.op \in {"Pop", "VectorAppend", "Jump", "JumpIf", "ForLoop", "Call"}
  BY <1>1 DEF Instruction, Plain
<1>3. Current.op # "Return"
  BY DEF InFrame, Exits
<1> QED
  BY <1>2, <1>3, PlainHands, ConstantHands, DuplicateHands, GetLocalHands, SetLocalHands, CutHands,
     JumpHands, JumpIfHands, ForLoopHands, CallHands
-----------------------------------------------------------------------------
(* The tables that go with the program.                                    *)
LEMMA ProgramKept ==
  ASSUME Next
  PROVE  program' = program /\ bytecode' = bytecode
<1>1. CASE \/ Constant \/ Pop \/ Duplicate \/ GetGlobal \/ SetGlobal \/ GetLocal \/ SetLocal
           \/ GetBuiltin \/ GetUpvalue \/ SetUpvalue
  BY <1>1 DEF Constant, Pop, Duplicate, GetGlobal, SetGlobal, GetLocal, SetLocal, GetBuiltin,
     GetUpvalue, SetUpvalue, Quiet, FailSynced, Fault
<1>2. CASE Arithmetic \/ Negate \/ Not \/ CompareOp \/ Jump \/ JumpIf \/ ForLoop
  BY <1>2 DEF Arithmetic, Negate, Not, CompareOp, Jump, JumpIf, ForLoop, Quiet, FailSynced,
     FailEarly, Fault, Breaks
<1>3. CASE CallValueBuiltin \/ Curry \/ CallFunction \/ CallFails \/ Return \/ CallBuiltin
  BY <1>3 DEF CallValueBuiltin, Curry, CallFunction, EnterFrame, CallFails, Return, CallBuiltin,
     ReturnsInHand, Quiet, FailSynced, Fault, Breaks, Hangs
<1>4. CASE MakeArray \/ VectorAppend \/ GetIndex \/ SetIndex \/ Closure
  BY <1>4 DEF MakeArray, VectorAppend, GetIndex, SetIndex, Closure, Quiet, FailSynced, FailEarly,
     Fault
<1>5. CASE Underflow \/ Broken \/ Halted
  BY <1>5 DEF Underflow, Broken, Fault, Breaks, Halted, vars
<1> QED
  BY <1>1, <1>2, <1>3, <1>4, <1>5 DEF Next

(* The table of a chunk: what it says before the instruction at pc is no   *)
(* more than what the instructions that lead there hand on.                *)
Says(f, pc) == TableFor(f)[pc + 1]

LEMMA TableHere ==
  ASSUME KnownInv, status = "run", StoresNoElement(bytecode), TableFor(Top) # <<>>
  PROVE  /\ Here(Says(Top, ip)) /\ Current.op # "SetIndex"
         /\ \A o \in Range(Handed(Current, ip, Says(Top, ip))) : ClaimsNoMore(Says(Top, o[1]), o[2])
<1> DEFINE c == Top.chunk + 1
           table == TableFor(Top)
           code == bytecode.chunks[c].code
<1>1. /\ StackInv /\ KnownFits /\ TablesOK(bytecode, KnownStacks[program])
  BY DEF KnownInv
<1>2. /\ Sound(Nat, DOMAIN upv) /\ Top = frames[Len(frames)] /\ Len(frames) \in Nat \ {0}
      /\ Top \in FrameOver(Chunks, Nat, DOMAIN upv)
  BY <1>1, FramesHere
<1>3. c \in DOMAIN bytecode.chunks
  BY <1>2, InChunk DEF Sound
<1>4. ip + 1 \in DOMAIN code
  BY <1>2 DEF Sound, Basics, Ready, ReadyAt, InCode, Top
<1>5. table = KnownStacks[program][c] /\ Current = code[ip + 1]
  BY DEF TableFor, Current, Code
<1>6. TableOK(code, {e[2] : e \in Entries(bytecode, c)}, table)
  BY <1>1, <1>3, <1>5 DEF TablesOK
<1> HIDE DEF table, code, c
<1>7. /\ table[ip + 1] \in Seq(Claims)
      /\ \A o \in Range(Handed(code[ip + 1], (ip + 1) - 1, table[ip + 1])) :
           ClaimsNoMore(table[o[1] + 1], o[2])
  BY <1>4, <1>6 DEF TableOK, Claims
<1>8. (ip + 1) - 1 = ip
  <2>1. ip \in Nat
    BY <1>1, FramesHere
  <2> QED
    BY <2>1
<1>9. \A o \in Range(Handed(Current, ip, table[ip + 1])) : ClaimsNoMore(table[o[1] + 1], o[2])
  BY <1>5, <1>7, <1>8
<1>10. Agree(table[ip + 1], stack, Top, upv)
  BY <1>1 DEF KnownFits, AgreesAt, table
<1>11. Apart(Top)
  <2>1. Len(frames) \in 1 .. Len(frames)
    BY <1>2
  <2> QED
    BY <1>1, <1>2, <2>1 DEF KnownFits
<1>12. Len(table[ip + 1]) = Height
  BY <1>10 DEF Agree, Height
<1>13. Current.op # "SetIndex"
  BY <1>3, <1>4, <1>5 DEF StoresNoElement, code
<1>14. Here(table[ip + 1])
  BY <1>1, <1>7, <1>10, <1>11, <1>12 DEF Here
<1> QED
  BY <1>9, <1>13, <1>14 DEF Says, table

LEMMA NowHere ==
  ASSUME Len(frames') \in Nat
  PROVE  Top' = Now
BY DEF Top, Last, Now

LEMMA AgreesNext ==
  ASSUME Next, Top' = Now,
         TableFor(Top)' # <<>> => Agree(TableFor(Top)'[ip' + 1], stack', Now, upv')
  PROVE  AgreesAt(Top, ip, stack, upv)'
<1>1. bytecode' = bytecode
  BY ProgramKept
<1>2. ASSUME NEW k PROVE ConstantData(k)' = ConstantData(k)
  BY <1>1 DEF ConstantData, ConstantKey, NeedsCell
<1>3. ASSUME TableFor(Top)' # <<>> PROVE Agree(TableFor(Top)[ip + 1], stack, Top, upv)'
  <2> DEFINE known == TableFor(Top)[ip + 1]
  <2>1. /\ Len(known') = Len(stack') - Now.fp
        /\ \A j \in 1 .. Len(known') : EntryHolds(known'[j], j, stack', Now, upv')
    BY <1>3 DEF Agree
  <2> HIDE DEF known
  <2>2. ASSUME NEW j \in 1 .. Len(known') PROVE EntryHolds(known[j], j, stack, Top, upv)'
    BY <1>2, <2>1 DEF EntryHolds
  <2> QED
    BY <2>1, <2>2 DEF Agree, known
<1> QED
  BY <1>3 DEF AgreesAt

(* A step in the frame.                                                    *)
LEMMA InFrameKnown ==
  ASSUME KnownInv, status = "run", Next, InFrame, StoresNoElement(bytecode), CapturedSlotsRest
  PROVE  KnownFits'
<1> DEFINE N == Len(frames)
<1>1. StackInv /\ KnownFits
  BY DEF KnownInv
<1>2. /\ N \in Nat \ {0} /\ Top = frames[N] /\ N \in 1 .. N
  BY <1>1, FramesHere
<1>3. /\ Len(frames') = N
      /\ \A n \in 1 .. N :
           /\ frames'[n].chunk = frames[n].chunk /\ frames'[n].fp = frames[n].fp
           /\ frames'[n].discard = frames[n].discard /\ frames'[n].ups = frames[n].ups
           /\ n # N => frames'[n].ip = frames[n].ip /\ frames'[n].captured = frames[n].captured
  BY DEF InFrame, SameCalls, SameFrame
<1>4. program' = program
  BY ProgramKept
<1>5. Top' = Now /\ Now = frames'[N]
  BY <1>2, <1>3, NowHere DEF Now
<1> HIDE DEF N
<1>6. /\ \A n \in 1 .. N : Apart(frames[n])
      /\ \A n \in 1 .. N - 1 : ForgetsAt(frames[n], frames[n].ip, LeftBy(frames[n + 1]))
  BY <1>1 DEF KnownFits, Forgetful, N
<1>7. ASSUME NEW n \in 1 .. N PROVE Apart(frames'[n])
  <2>1. CASE n = N
    <3>1. Apart(Top)
      BY <1>2, <1>6
    <3>2. Apart(Now)
      BY <1>1, <3>1, CapturesKept
    <3> QED
      BY <1>5, <2>1, <3>2
  <2>2. CASE n # N
    BY <1>3, <1>6, <2>2 DEF Apart
  <2> QED
    BY <2>1, <2>2
<1>8. ASSUME NEW n \in 1 .. N - 1
      PROVE  ForgetsAt(frames[n], frames[n].ip, LeftBy(frames[n + 1]))'
  <2>1. n \in 1 .. N /\ n # N /\ n + 1 \in 1 .. N
    BY <1>2
  <2>2. /\ frames'[n].chunk = frames[n].chunk /\ frames'[n].fp = frames[n].fp
        /\ frames'[n].ip = frames[n].ip
        /\ frames'[n + 1].fp = frames[n + 1].fp
        /\ frames'[n + 1].discard = frames[n + 1].discard
    BY <1>3, <2>1
  <2>3. ForgetsAt(frames[n], frames[n].ip, LeftBy(frames[n + 1]))
    BY <1>6
  <2> QED
    BY <1>4, <2>2, <2>3 DEF ForgetsAt, TableFor, LeftBy
<1>9. TableFor(Top)' = TableFor(Top)
  BY <1>2, <1>3, <1>4, <1>5 DEF TableFor
<1>10. ASSUME TableFor(Top) # <<>> PROVE Agree(Says(Top, ip'), stack', Now, upv')
  <2> DEFINE s == Says(Top, ip)
  <2>1. /\ Here(s) /\ Current.op # "SetIndex"
        /\ \A o \in Range(Handed(Current, ip, s)) : ClaimsNoMore(Says(Top, o[1]), o[2])
    BY <1>10, TableHere
  <2> HIDE DEF s
  <2>2. Hands(s)
    BY <2>1, EveryHands
  <2>3. PICK o \in Range(Handed(Current, ip, s)) : o[1] = ip' /\ Agree(o[2], stack', Now, upv')
    BY <2>2 DEF Hands
  <2>4. ClaimsNoMore(Says(Top, ip'), o[2])
    BY <2>1, <2>3
  <2> QED
    BY <2>3, <2>4, LessClaimed
<1>11. AgreesAt(Top, ip, stack, upv)'
  BY <1>5, <1>9, <1>10, AgreesNext DEF Says
<1>12. \A n \in 1 .. Len(frames') : Apart(frames'[n])
  BY <1>3, <1>7
<1>13. Forgetful(frames)'
  BY <1>3, <1>8 DEF Forgetful
<1> QED
  BY <1>11, <1>12, <1>13 DEF KnownFits, Apart

(* What the chunk of the frame f claims at first is no more than that it   *)
(* has n entries.                                                          *)
LEMMA EntryClaims ==
  ASSUME TablesOK(bytecode, KnownStacks[program]), NEW f, f.chunk + 1 \in DOMAIN bytecode.chunks,
         NEW n, <<0, n>> \in Entries(bytecode, f.chunk + 1), TableFor(f) # <<>>
  PROVE  ClaimsNoMore(TableFor(f)[1], Unknowns(n))
<1> DEFINE c == f.chunk + 1
           e == <<0, n>>
<1>1. TableOK(bytecode.chunks[c].code, {d[2] : d \in Entries(bytecode, c)}, TableFor(f))
  BY DEF TablesOK, TableFor
<1>2. e \in Entries(bytecode, c) /\ e[2] = n
  OBVIOUS
<1> HIDE DEF c, e
<1>3. n \in {d[2] : d \in Entries(bytecode, c)}
  BY <1>2
<1> QED
  BY <1>1, <1>3 DEF TableOK

(* A call: the caller forgets, and of the arguments nothing is known.      *)
LEMMA CallKnown ==
  ASSUME KnownInv, CallFunction, Next, StoresNoElement(bytecode)
  PROVE  KnownFits'
<1> DEFINE N == Len(frames)
           b == Base
           f == Entered
           keep == OneIf(Current.keep)
<1>1. /\ status = "run" /\ Current.op = "Call" /\ b \in Nat /\ Top.fp \in Nat /\ Top.fp < b
      /\ Callee \in FunctionOver(Chunks, Nat, DOMAIN upv) /\ Callee.arity \in Nat
      /\ Len(stack') = b + Callee.arity
      /\ frames' = Append(Synced, f) /\ f \in FrameOver(Chunks, Nat, DOMAIN upv)
      /\ ip' = 0 /\ bytecode' = bytecode
  BY CalledStack DEF KnownInv
<1>2. StackInv /\ KnownFits /\ TablesOK(bytecode, KnownStacks[program])
  BY <1>1 DEF KnownInv
<1>3. /\ N \in Nat \ {0} /\ Top = frames[N] /\ Basics
  BY <1>1, <1>2, FramesHere DEF Sound
<1>4. /\ Len(Synced) = N /\ Synced \in Seq(FrameOver(Chunks, Nat, DOMAIN upv))
      /\ \A n \in 1 .. N :
           /\ Synced[n].chunk = frames[n].chunk /\ Synced[n].fp = frames[n].fp
           /\ Synced[n].discard = frames[n].discard /\ Synced[n].ups = frames[n].ups
           /\ Synced[n].captured = frames[n].captured
           /\ n # N => Synced[n].ip = frames[n].ip
      /\ Synced[N].ip = ip + 1
  BY <1>1, <1>2, SyncedCalls DEF SameFrame
<1>5. /\ f.fp = b /\ f.chunk = Callee.chunk /\ f.discard = ~Current.keep /\ f.captured = <<>>
  BY DEF Entered
<1>6. program' = program
  BY ProgramKept
<1>7. f.chunk + 1 \in DOMAIN bytecode.chunks
  BY <1>1, <1>3, InChunk
<1> HIDE DEF N, b, f
<1>8. /\ Len(frames') = N + 1 /\ frames'[N + 1] = f /\ \A n \in 1 .. N : frames'[n] = Synced[n]
  <2> DEFINE S == FrameOver(Chunks, Nat, DOMAIN upv)
  <2>1. Synced \in Seq(S) /\ f \in S
    BY <1>1, <1>4
  <2> HIDE DEF S
  <2>2. /\ Len(frames') = Len(Synced) + 1 /\ frames'[Len(Synced) + 1] = f
        /\ \A n \in 1 .. Len(Synced) : frames'[n] = Synced[n]
    BY <1>1, <2>1, Appended
  <2> QED
    BY <1>4, <2>2
<1>9. Top' = Now /\ Now = f
  BY <1>3, <1>8, NowHere DEF Now
<1>10. /\ \A n \in 1 .. N : Apart(frames[n])
       /\ \A n \in 1 .. N - 1 : ForgetsAt(frames[n], frames[n].ip, LeftBy(frames[n + 1]))
  BY <1>2 DEF KnownFits, Forgetful, N
<1>11. ASSUME NEW n \in 1 .. N + 1 PROVE Apart(frames'[n])
  <2>1. CASE n = N + 1
    <3>1. DOMAIN f.captured = {}
      BY <1>5
    <3> QED
      BY <1>8, <2>1, <3>1 DEF Apart
  <2>2. CASE n # N + 1
    <3>1. n \in 1 .. N
      BY <1>3, <2>2
    <3> QED
      BY <1>4, <1>8, <1>10, <3>1 DEF Apart
  <2> QED
    BY <2>1, <2>2
<1>12. ASSUME TableFor(Top) # <<>>
       PROVE  ClaimsNoMore(Says(Top, ip + 1), Unknowns(Height - (Current.argc + 1) + keep))
  <2> DEFINE s == Says(Top, ip)
             o == <<ip + 1, TransferInstruction(s, Current)>>
  <2>1. Here(s) /\ \A p \in Range(Handed(Current, ip, s)) : ClaimsNoMore(Says(Top, p[1]), p[2])
    BY <1>1, <1>12, TableHere
  <2>2. /\ s \in Seq(Claims) /\ Len(s) = Height /\ Current \in Instruction
    BY <2>1, HereParts
  <2>3. o \in Range(Handed(Current, ip, s))
    BY <1>1, HandedOne DEF Jumps
  <2>4. o[1] = ip + 1 /\ o[2] = AfterCall(s, Current)
    BY <1>1 DEF TransferInstruction
  <2>5. Current.argc \in Nat /\ Current.argc + 1 <= Len(s)
    <3>1. Pops(Current) = Current.argc + 1 /\ Pops(Current) <= Reads(Current)
          /\ Reads(Current) <= Height /\ Pops(Current) \in Nat /\ Reads(Current) \in Nat
          /\ Height \in Nat
      BY <1>1, <1>2, TakesItsOwn DEF Pops, Operators
    <3>2. Current.argc \in Nat
      BY <1>1, <2>2, InstructionFields
    <3> HIDE DEF s
    <3> QED
      BY <2>2, <3>1, <3>2
  <2> HIDE DEF s, o
  <2>6. AfterCall(s, Current) = Unknowns(Len(s) - (Current.argc + 1) + keep)
    BY <2>2, <2>5, AfterCallClaims
  <2> QED
    BY <2>1, <2>2, <2>3, <2>4, <2>6
<1>13. LeftBy(f) - Top.fp = Height - (Current.argc + 1) + keep
  <2>1. /\ Height \in Nat /\ Len(stack) = Top.fp + Height /\ Current.argc \in Nat
        /\ b = Len(stack) - Current.argc
    BY <1>1, <1>2, FramesHere, ReckonedHere, InstructionFields DEF b, Base
  <2>2. keep \in {0, 1} /\ LeftBy(f) = b - 1 + keep
    BY <1>5 DEF LeftBy, OneIf
  <2> DEFINE left == LeftBy(f)
             h == Height
             args == Current.argc
             fp == Top.fp
  <2> HIDE DEF keep, left
  <2>3. keep \in Nat /\ left = b - 1 + keep
    BY <2>2 DEF left
  <2>4. h \in Nat /\ args \in Nat /\ fp \in Nat /\ b = fp + h - args
    BY <1>1, <2>1
  <2> HIDE DEF h, args, fp
  <2>5. left - fp = h - (args + 1) + keep
    BY <2>3, <2>4
  <2> QED
    BY <2>5 DEF left, h, args, fp
<1> HIDE DEF keep
<1>14. ASSUME NEW n \in 1 .. N
       PROVE  ForgetsAt(frames[n], frames[n].ip, LeftBy(frames[n + 1]))'
  <2>1. CASE n = N
    <3>1. /\ frames'[n].chunk = Top.chunk /\ frames'[n].fp = Top.fp /\ frames'[n].ip = ip + 1
          /\ frames'[n + 1] = f
      BY <1>3, <1>4, <1>8, <2>1
    <3>2. TableFor(Top) # <<>> => ClaimsNoMore(Says(Top, ip + 1), Unknowns(LeftBy(f) - Top.fp))
      BY <1>12, <1>13
    <3> QED
      BY <1>6, <3>1, <3>2 DEF ForgetsAt, TableFor, LeftBy, Says
  <2>2. CASE n # N
    <3>1. n \in 1 .. N - 1 /\ n + 1 \in 1 .. N
      BY <1>3, <2>2
    <3>2. ForgetsAt(frames[n], frames[n].ip, LeftBy(frames[n + 1]))
      BY <1>10, <3>1
    <3>3. /\ frames'[n].chunk = frames[n].chunk /\ frames'[n].fp = frames[n].fp
          /\ frames'[n].ip = frames[n].ip
          /\ frames'[n + 1].fp = frames[n + 1].fp
          /\ frames'[n + 1].discard = frames[n + 1].discard
      BY <1>4, <1>8, <2>2, <3>1
    <3> QED
      BY <1>6, <3>2, <3>3 DEF ForgetsAt, TableFor, LeftBy
  <2> QED
    BY <2>1, <2>2
<1>15. TableFor(Top)' = TableFor(f)
  BY <1>6, <1>9 DEF TableFor
<1>16. ASSUME TableFor(f) # <<>> PROVE Agree(TableFor(f)[1], stack', f, upv')
  <2> DEFINE t == Unknowns(Callee.arity)
             c == f.chunk + 1
  <2>1. <<0, Callee.arity>> \in Entries(bytecode, c)
    <3>1. PICK g \in FunctionsIn(bytecode) : Callee.chunk = g.chunk /\ Callee.arity = g.arity
      BY <1>1 DEF FunctionOver, Signed
    <3>2. g \in {h \in FunctionsIn(bytecode) : h.chunk + 1 = c}
      BY <1>5, <3>1
    <3>3. <<0, g.arity>> \in Entries(bytecode, c)
      BY <3>2 DEF Entries
    <3> QED
      BY <3>1, <3>3
  <2>2. ClaimsNoMore(TableFor(f)[1], t)
    BY <1>2, <1>7, <1>16, <2>1, EntryClaims
  <2>3. Len(t) = Callee.arity /\ \A j \in 1 .. Len(t) : t[j] = Unknown
    BY <1>1, UnknownsClaims
  <2> HIDE DEF t
  <2>4. Len(t) = Len(stack') - f.fp
    BY <1>1, <1>5, <2>3
  <2>5. Agree(t, stack', f, upv')
    BY <2>3, <2>4, NothingKnown
  <2> QED
    BY <2>2, <2>5, LessClaimed
<1>17. AgreesAt(Top, ip, stack, upv)'
  <2>1. ip' + 1 = 1
    BY <1>1
  <2> QED
    BY <1>9, <1>15, <1>16, <2>1, AgreesNext
<1>18. \A n \in 1 .. Len(frames') : Apart(frames'[n])
  BY <1>8, <1>11
<1>19. Forgetful(frames)'
  <2>1. Len(frames') - 1 = N
    BY <1>3, <1>8
  <2> QED
    BY <1>14, <2>1 DEF Forgetful
<1> QED
  BY <1>17, <1>18, <1>19 DEF KnownFits, Apart

(* A return: the caller has forgotten.                                     *)
LEMMA ReturnKnown ==
  ASSUME KnownInv, Return, Next, Len(frames) > 1, StoresNoElement(bytecode)
  PROVE  KnownFits'
<1> DEFINE N == Len(frames)
           M == N - 1
           g == frames[M]
<1>1. status = "run"
  BY DEF Return, Runs
<1>2. StackInv /\ KnownFits
  BY <1>1 DEF KnownInv
<1>3. /\ Len(frames') = M /\ \A n \in 1 .. M : frames'[n] = frames[n]
      /\ Len(stack') = LeftBy(Top) /\ ip' = frames[M].ip /\ bytecode' = bytecode
  BY <1>2, ReturnStack
<1>4. /\ Fits /\ N \in Nat /\ N > 1 /\ Top = frames[N] /\ \A n \in 1 .. N : frames[n].fp \in Nat
      /\ Top.fp \in Nat
  BY <1>1, <1>2, FramesHere, TopHere
<1>5. program' = program
  BY ProgramKept
<1> HIDE DEF N
<1>6. M \in Nat /\ M >= 1 /\ M + 1 = N /\ M \in 1 .. M /\ M \in 1 .. N - 1
      /\ \A n \in 1 .. M : n \in 1 .. N
  BY <1>4
<1>7. /\ \A n \in 1 .. N : Apart(frames[n])
      /\ \A n \in 1 .. N - 1 : ForgetsAt(frames[n], frames[n].ip, LeftBy(frames[n + 1]))
      /\ \A n \in 1 .. N - 1 : RunsAt(frames[n], frames[n].ip, LeftBy(frames[n + 1]))
  BY <1>2, <1>4 DEF KnownFits, Forgetful, Fits, Waiting, N
<1> HIDE DEF M
<1>8. Top' = Now /\ Now = g
  BY <1>3, <1>6, NowHere DEF Now
<1>9. ForgetsAt(g, g.ip, LeftBy(Top)) /\ RunsAt(g, g.ip, LeftBy(Top)) /\ g.fp \in Nat
  BY <1>4, <1>6, <1>7
<1>10. \A n \in 1 .. Len(frames') : Apart(frames'[n])
  BY <1>3, <1>6, <1>7
<1>11. ASSUME NEW n \in 1 .. M - 1
       PROVE  ForgetsAt(frames[n], frames[n].ip, LeftBy(frames[n + 1]))'
  <2>1. n \in 1 .. N - 1 /\ n \in 1 .. M /\ n + 1 \in 1 .. M
    BY <1>4, <1>6
  <2>2. ForgetsAt(frames[n], frames[n].ip, LeftBy(frames[n + 1]))
    BY <1>7, <2>1
  <2>3. frames'[n] = frames[n] /\ frames'[n + 1] = frames[n + 1]
    BY <1>3, <2>1
  <2> QED
    BY <1>5, <2>2, <2>3 DEF ForgetsAt, TableFor, LeftBy
<1>12. Forgetful(frames)'
  BY <1>3, <1>11 DEF Forgetful
<1>13. TableFor(Top)' = TableFor(g)
  BY <1>5, <1>8 DEF TableFor
<1> HIDE DEF g
<1>14. ASSUME TableFor(g) # <<>> PROVE Agree(TableFor(g)[ip' + 1], stack', g, upv')
  <2> DEFINE left == LeftBy(Top)
             t == Unknowns(left - g.fp)
  <2>1. ClaimsNoMore(TableFor(g)[ip' + 1], t)
    BY <1>3, <1>9, <1>14 DEF ForgetsAt, g
  <2>2. left \in Nat /\ g.fp <= left
    <3>1. Len(stack') \in Nat
      BY <1>3, <1>4, <1>9 DEF LeftBy, OneIf, RunsAt
    <3> QED
      BY <1>3, <1>9, <3>1 DEF RunsAt
  <2> HIDE DEF left
  <2>3. left - g.fp \in Nat /\ Len(stack') = left
    BY <1>3, <1>9, <2>2 DEF left
  <2>4. Len(t) = left - g.fp /\ \A j \in 1 .. Len(t) : t[j] = Unknown
    BY <2>3, UnknownsClaims
  <2> HIDE DEF t
  <2>5. Agree(t, stack', g, upv')
    BY <2>3, <2>4, NothingKnown
  <2> QED
    BY <2>1, <2>5, LessClaimed
<1>15. AgreesAt(Top, ip, stack, upv)'
  BY <1>8, <1>13, <1>14, AgreesNext
<1> QED
  BY <1>10, <1>12, <1>15 DEF KnownFits, Apart
-----------------------------------------------------------------------------
LEMMA NextKnown ==
  ASSUME KnownInv, status = "run", Next, StoresNoElement(bytecode), CapturedSlotsRest,
         status' = "run"
  PROVE  KnownFits'
<1>1. StackInv
  BY DEF KnownInv
<1>2. CASE InFrame
  BY <1>2, InFrameKnown
<1>3. CASE Stops
  BY <1>3 DEF Stops
<1>4. CASE CallFunction
  BY <1>4, CallKnown
<1>5. CASE Return
  <2>1. Len(frames) \in Nat /\ Len(frames) # 0
    BY <1>1, FramesHere
  <2>2. Len(frames) # 1
    BY <1>1, <1>5, MainReturns
  <2>3. \A n \in Nat : n = 0 \/ n = 1 \/ n > 1
    OBVIOUS
  <2>4. Len(frames) > 1
    BY <2>1, <2>2, <2>3
  <2> QED
    BY <1>5, <2>4, ReturnKnown
<1> QED
  BY <1>1, <1>2, <1>3, <1>4, <1>5, NextMoves

(* A program that has stopped stays as it is.                              *)
LEMMA HaltsStill ==
  ASSUME Next, status # "run"
  PROVE  UNCHANGED vars
BY DEF Next, Runs, Constant, Pop, Duplicate, GetGlobal, SetGlobal, GetLocal, SetLocal,
   GetBuiltin, GetUpvalue, SetUpvalue, Arithmetic, Negate, Not, CompareOp, Jump, JumpIf, ForLoop,
   CallValueBuiltin, Curry, CallFunction, EnterFrame, CallFails, Return, CallBuiltin, MakeArray,
   VectorAppend, GetIndex, SetIndex, Closure, Underflow, Broken, Halted

LEMMA KnownInvKept ==
  ASSUME KnownInv, CapturedSlotsRest, [Next]_vars
  PROVE  KnownInv'
<1>1. StackInv'
  BY StackInvKept DEF KnownInv
<1>2. program' = program /\ bytecode' = bytecode
  BY ProgramKept DEF vars
<1>3. /\ program \in DOMAIN Programs /\ bytecode = Unnamed(program)
      /\ StoresNoElement(bytecode) => TablesOK(bytecode, KnownStacks[program])
  BY DEF KnownInv
<1>4. /\ (program \in DOMAIN Programs /\ bytecode = Unnamed(program))'
      /\ (StoresNoElement(bytecode) => TablesOK(bytecode, KnownStacks[program]))'
  BY <1>2, <1>3
<1>5. ASSUME Next, status # "run" PROVE UNCHANGED vars
  BY <1>5, HaltsStill
<1>6. ASSUME UNCHANGED vars, KnownFits PROVE KnownFits'
  BY <1>6 DEF vars, KnownFits, Apart, Forgetful, ForgetsAt, AgreesAt, TableFor, LeftBy, Top, Agree,
     EntryHolds, ConstantData, ConstantKey, NeedsCell
<1>7. ASSUME status' = "run", StoresNoElement(bytecode)' PROVE KnownFits'
  <2>1. StoresNoElement(bytecode)
    BY <1>2, <1>7
  <2>2. CASE UNCHANGED vars
    <3>1. KnownFits
      BY <1>7, <2>1, <2>2 DEF KnownInv, vars
    <3> QED
      BY <1>6, <2>2, <3>1
  <2>3. CASE Next /\ status = "run"
    BY <1>7, <2>1, <2>3, NextKnown
  <2> QED
    BY <1>5, <2>2, <2>3
<1> QED
  BY <1>1, <1>4, <1>7 DEF KnownInv

LEMMA KnownInvAtFirst ==
  ASSUME ProgramsWellFormed, ProgramsVerified, TablesAreStable, Init
  PROVE  KnownInv
<1> DEFINE f == [chunk |-> 0, ip |-> 0, fp |-> 0, closure |-> NilV, ups |-> <<>>,
                 captured |-> <<>>, discard |-> FALSE]
<1>1. /\ program \in DOMAIN Programs /\ bytecode = Unnamed(program)
      /\ frames = <<f>> /\ stack = <<>> /\ ip = 0 /\ status = "run"
  BY DEF Init, Unnamed
<1>2. StackInv
  BY StackInvAtFirst
<1>3. f.chunk = 0 /\ f.fp = 0 /\ DOMAIN f.captured = {}
  OBVIOUS
<1> HIDE DEF f
<1>4. /\ Len(frames) = 1 /\ frames[1] = f /\ Len(stack) = 0 /\ Top = f
      /\ \A n \in 1 .. 1 : n = 1
  BY <1>1 DEF Top, Last
<1>5. ASSUME StoresNoElement(bytecode)
      PROVE  TablesOK(bytecode, KnownStacks[program]) /\ AgreesAt(Top, ip, stack, upv)
  <2>1. TablesOK(bytecode, KnownStacks[program])
    BY <1>1, <1>5 DEF TablesAreStable
  <2>2. 1 \in DOMAIN bytecode.chunks
    BY <1>2 DEF StackInv, VMInv, Basics, WellFormed
  <2>3. <<0, 0>> \in Entries(bytecode, 1)
    BY DEF Entries
  <2>4. ASSUME TableFor(f) # <<>> PROVE Agree(TableFor(f)[1], stack, f, upv)
    <3> DEFINE z == 0
               t == Unknowns(z)
    <3>1. f.chunk + 1 = 1
      BY <1>3
    <3>2. ClaimsNoMore(TableFor(f)[1], t)
      BY <2>1, <2>2, <2>3, <2>4, <3>1, EntryClaims
    <3>3. z \in Nat
      OBVIOUS
    <3> HIDE DEF z
    <3>4. Len(t) = z /\ \A j \in 1 .. z : t[j] = Unknown
      BY <3>3, UnknownsClaims
    <3> HIDE DEF t
    <3>5. Len(t) = Len(stack) - f.fp
      BY <1>3, <1>4, <3>4 DEF z
    <3>6. Agree(t, stack, f, upv)
      BY <3>4, <3>5, NothingKnown
    <3> QED
      BY <3>2, <3>6, LessClaimed
  <2>5. AgreesAt(Top, ip, stack, upv)
    <3>1. ip + 1 = 1
      BY <1>1
    <3> QED
      BY <1>4, <2>4, <3>1 DEF AgreesAt
  <2> QED
    BY <2>1, <2>5
<1>6. Forgetful(frames)
  <2>1. \A n \in 1 .. Len(frames) - 1 : FALSE
    BY <1>4
  <2> QED
    BY <2>1 DEF Forgetful
<1>7. \A n \in 1 .. Len(frames) : Apart(frames[n])
  BY <1>3, <1>4 DEF Apart
<1> QED
  BY <1>1, <1>2, <1>5, <1>6, <1>7 DEF KnownInv, KnownFits

LEMMA KnownInvShows ==
  ASSUME KnownInv
  PROVE  KnownConstantsHold
<1> SUFFICES ASSUME StoresNoElement(bytecode), status = "run", TableFor(Top) # <<>>
             PROVE  FrameAgrees(Says(Top, ip))
  BY DEF KnownConstantsHold, AbstractStackSound, AgreesHere, TableFor, Says
<1> DEFINE s == Says(Top, ip)
<1>1. Here(s)
  BY TableHere
<1>2. /\ s \in Seq(Claims) /\ Len(s) = Height /\ Height \in Nat /\ Top.fp \in Nat
      /\ \A j \in 1 .. Height : EntryHolds(s[j], j, stack, Top, upv)
  BY <1>1, HereParts
<1> HIDE DEF s
<1>3. DOMAIN s = 1 .. Height
  BY <1>2
<1>4. ASSUME NEW j \in 1 .. Height, s[j] # Unknown PROVE LocalValue(j - 1) = ConstantData(s[j])
  <2>1. Slot(j - 1) = Top.fp + j
    BY <1>2 DEF Slot
  <2> QED
    BY <1>2, <1>4, <2>1 DEF EntryHolds, LocalValue, IsCaptured
<1> QED
  BY <1>2, <1>3, <1>4 DEF FrameAgrees, Height, s

(* What constant propagation takes for known is so on every path, at every *)
(* instruction of every program whose tables are stable, as long as no     *)
(* value is put in the slot of a captured local that is gone.              *)
THEOREM KnownConstantsAlwaysHold ==
  ASSUME ProgramsWellFormed, ProgramsVerified, TablesAreStable
  PROVE  Spec /\ []CapturedSlotsRest => []KnownConstantsHold
<1>1. Init => KnownInv
  BY KnownInvAtFirst
<1>2. KnownInv /\ CapturedSlotsRest /\ [Next]_vars => KnownInv'
  BY KnownInvKept
<1>3. KnownInv => KnownConstantsHold
  BY KnownInvShows
<1> QED
  BY <1>1, <1>2, <1>3, PTL DEF Spec
-----------------------------------------------------------------------------
(* The operators of VM that do not look at the bytecode are those of the   *)
(* VM that executes the propagated program.                                *)
LEMMA SameMakers ==
  /\ \A n : Optimized!IntV(n) = IntV(n) /\ Optimized!BoolV(n) = BoolV(n)
  /\ \A n : Optimized!RefV(n) = RefV(n) /\ Optimized!Vec(n) = Vec(n) /\ Optimized!Str(n) = Str(n)
  /\ \A n : Optimized!Ok(n) = Ok(n) /\ Optimized!New(n) = New(n) /\ Optimized!Err(n) = Err(n)
  /\ \A n : Optimized!Wrap(n) = Wrap(n) /\ Optimized!Items(n) = Items(n)
  /\ Optimized!NilV = NilV /\ Optimized!DblV = DblV /\ Optimized!MinInt = MinInt
  /\ Optimized!Value = Value
BY DEF IntV, BoolV, RefV, Vec, Str, Ok, New, Err, Wrap, Items, NilV, DblV, MinInt, Value,
   Optimized!IntV, Optimized!BoolV, Optimized!RefV, Optimized!Vec, Optimized!Str, Optimized!Ok,
   Optimized!New, Optimized!Err, Optimized!Wrap, Optimized!Items, Optimized!NilV, Optimized!DblV,
   Optimized!MinInt, Optimized!Value

LEMMA SameSequences ==
  /\ \A s : Optimized!Last(s) = Last(s) /\ Optimized!Front(s) = Front(s)
  /\ \A s : Optimized!Range(s) = Range(s)
  /\ \A S : Optimized!Cardinality(S) = Cardinality(S)
  /\ \A s, n : Optimized!Without(s, n) = Without(s, n) /\ Optimized!UpTo(s, n) = UpTo(s, n)
  /\ \A h, k, o : Optimized!Plus(h, k, o) = Plus(h, k, o)
BY DEF Last, Front, Range, Without, UpTo, Plus, Optimized!Last, Optimized!Front, Optimized!Range,
   Optimized!Without, Optimized!UpTo, Optimized!Plus, Cardinality, IsFiniteSet,
   Optimized!Cardinality, Optimized!IsFiniteSet

LEMMA SameValues ==
  /\ \A v, h : Optimized!Resolve(v, h) = Resolve(v, h) /\ Optimized!IsTruthy(v, h) = IsTruthy(v, h)
  /\ \A v, h : Optimized!Negative(v, h) = Negative(v, h)
BY DEF IsTruthy, Optimized!IsTruthy, Resolve, Optimized!Resolve, NilV, Optimized!NilV,
   Negative, Optimized!Negative, Ok, Optimized!Ok, Err, Optimized!Err, IntV, Optimized!IntV,
   DblV, Optimized!DblV, Wrap, Optimized!Wrap, MinInt, Optimized!MinInt

LEMMA SameArith == \A op, a, b, h : Optimized!Arith(op, a, b, h) = Arith(op, a, b, h)
BY DEF Arith, Resolve, Ok, Err, New, Vec, Str, Numeric, ArithPrimitive, ArithInt, IntPow, Wrap,
   MinInt, Quot, Repeat, IntV, DblV, NilV, Optimized!Arith, Optimized!Resolve, Optimized!Ok,
   Optimized!Err, Optimized!New, Optimized!Vec, Optimized!Str, Optimized!Numeric,
   Optimized!ArithPrimitive, Optimized!ArithInt, Optimized!IntPow, Optimized!Wrap,
   Optimized!MinInt, Optimized!Quot, Optimized!Repeat, Optimized!IntV, Optimized!DblV,
   Optimized!NilV

LEMMA SameCompare ==
  /\ \A a, b, h : Optimized!Compare(a, b, h) = Compare(a, b, h)
  /\ \A op : Optimized!Accepts(op) = Accepts(op)
BY DEF Compare, Resolve, Order, AsNumber, Value, NilV, DblV, Accepts, Optimized!Compare,
   Optimized!Resolve, Optimized!Order, Optimized!AsNumber, Optimized!Value, Optimized!NilV,
   Optimized!DblV, Optimized!Accepts

LEMMA SameIndex ==
  /\ \A c, i, h : Optimized!Index(c, i, h) = Index(c, i, h)
  /\ \A c, i, h : Optimized!IndexMutErrors(c, i, h) = IndexMutErrors(c, i, h)
BY DEF Index, IndexMutErrors, IndexError, Resolve, Items, Ok, Err, New, Str, NilV,
   Optimized!Index, Optimized!IndexMutErrors, Optimized!IndexError, Optimized!Resolve,
   Optimized!Items, Optimized!Ok, Optimized!Err, Optimized!New, Optimized!Str, Optimized!NilV

LEMMA SameHeaps ==
  /\ \A m, o : Optimized!Allocate(m, o) = Allocate(m, o) /\ Optimized!Settle(m, o) = Settle(m, o)
  /\ \A v, h : Optimized!IsDead(v, h) = IsDead(v, h)
BY DEF Allocate, Settle, Plus, Ok, RefV, IsDead, Optimized!Allocate, Optimized!Settle,
   Optimized!Plus, Optimized!Ok, Optimized!RefV, Optimized!IsDead

LEMMA SamePrinted == \A m, vs, r : Optimized!Printed(m, vs, r) = Printed(m, vs, r)
<1>1. \A v, h : Optimized!Shown(v, h) = Shown(v, h)
  BY DEF Shown, IsDead, Resolve, NilV, Vec, Value, RefV, DblV, Cardinality, IsFiniteSet,
     Optimized!Shown, Optimized!IsDead, Optimized!Resolve, Optimized!NilV, Optimized!Vec,
     Optimized!Value, Optimized!DblV, Optimized!Cardinality, Optimized!IsFiniteSet
<1>2. \A v, h : Optimized!IsEndless(v, h) = IsEndless(v, h)
  BY DEF IsEndless, Resolve, NilV, Vec, Value, DblV, Cardinality, IsFiniteSet,
     Optimized!IsEndless, Optimized!Resolve, Optimized!NilV, Optimized!Vec, Optimized!Value,
     Optimized!DblV, Optimized!Cardinality, Optimized!IsFiniteSet
<1> QED
  BY <1>1, <1>2, SameMakers, SameSequences DEF Printed, Optimized!Printed

LEMMA SameLists ==
  /\ \A a : Optimized!RangeOf(a) = RangeOf(a)
  /\ \A i, x, n : Optimized!OfContainer(i, x, n) = OfContainer(i, x, n)
  /\ \A s : Optimized!SumOf(s) = SumOf(s)
<1>1. \A a, b, d : Optimized!Steps(a, b, d) = Steps(a, b, d)
  BY DEF Steps, IntV, Optimized!Steps, Optimized!IntV
<1>2. \A s : Optimized!Total(s) = Total(s)
  BY DEF Total, Wrap, MinInt, Optimized!Total, Optimized!Wrap, Optimized!MinInt
<1>3. \A a : Optimized!RangeOf(a) = RangeOf(a)
  BY <1>1, SameMakers DEF RangeOf, Optimized!RangeOf
<1>4. \A i, x, n : Optimized!OfContainer(i, x, n) = OfContainer(i, x, n)
  BY DEF OfContainer, New, Str, Vec, Ok, Err, IntV, Items, Without, UpTo, Optimized!OfContainer,
     Optimized!New, Optimized!Str, Optimized!Vec, Optimized!Ok, Optimized!Err, Optimized!IntV,
     Optimized!Items, Optimized!Without, Optimized!UpTo
<1>5. \A s : Optimized!SumOf(s) = SumOf(s)
  BY <1>2, SameMakers DEF SumOf, Optimized!SumOf
<1> QED
  BY <1>3, <1>4, <1>5

LEMMA SameSimple == \A id, args, m : Optimized!Simple(id, args, m) = Simple(id, args, m)
<1>1. \A id, args, h : Optimized!OnContainer(id, args, h) = OnContainer(id, args, h)
  BY SameMakers, SameValues, SameHeaps, SameLists DEF OnContainer, Optimized!OnContainer
<1>2. \A args, m : Optimized!AssertOf(args, m) = AssertOf(args, m)
  BY SameMakers, SameSequences, SameValues, SameHeaps, SamePrinted DEF AssertOf, Optimized!AssertOf
<1> QED
  BY <1>1, <1>2, SameMakers, SameSequences, SameHeaps, SamePrinted, SameLists
     DEF Simple, Optimized!Simple

LEMMA SameInvoke == \A id, args, m : Optimized!Invoke(id, args, m) = Invoke(id, args, m)
<1>1. \A id, f, acc, e : Optimized!ApplyOne(id, f, acc, e) = ApplyOne(id, f, acc, e)
  BY SameSimple, SameValues DEF ApplyOne, Collect, Optimized!ApplyOne, Optimized!Collect
<1>2. \A id, f, es, m : Optimized!AppliedTo(id, f, es, m) = AppliedTo(id, f, es, m)
  <2> SUFFICES ASSUME NEW id, NEW f, NEW es, NEW m
               PROVE  Optimized!AppliedTo(id, f, es, m) = AppliedTo(id, f, es, m)
    OBVIOUS
  <2>1. Optimized!Ok(Optimized!NilV) = Ok(NilV)
    BY SameMakers
  <2>2. \A after :
          [n \in 0 .. Len(es) |->
             IF n = 0 THEN [m |-> m, r |-> Optimized!Ok(Optimized!NilV), got |-> <<>>]
             ELSE Optimized!ApplyOne(id, f, after[n - 1], es[n])]
          = [n \in 0 .. Len(es) |->
               IF n = 0 THEN [m |-> m, r |-> Ok(NilV), got |-> <<>>]
               ELSE ApplyOne(id, f, after[n - 1], es[n])]
    BY <1>1, <2>1
  <2> QED
    BY <2>2 DEF AppliedTo, Optimized!AppliedTo
<1>3. \A id, end : Optimized!Collected(id, end) = Collected(id, end)
  BY SameMakers, SameHeaps DEF Collected, Optimized!Collected
<1>4. \A id, args, m : Optimized!OverElements(id, args, m) = OverElements(id, args, m)
  BY <1>2, <1>3, SameMakers, SameSequences, SameValues, SameHeaps
     DEF OverElements, Optimized!OverElements
<1> QED
  BY <1>4, SameSimple DEF Invoke, Optimized!Invoke

LEMMA SameOutcomes ==
  \A id, args, m : Optimized!CallOutcomes(id, args, m) = CallOutcomes(id, args, m)
<1>1. \A a, b, d : Optimized!WrappedRange(a, b, d) = WrappedRange(a, b, d)
  BY DEF WrappedRange, Wrap, MinInt, IntV, Vec, New, Err, Cardinality, IsFiniteSet,
     Optimized!WrappedRange, Optimized!Wrap, Optimized!MinInt, Optimized!IntV, Optimized!Vec,
     Optimized!New, Optimized!Err, Optimized!Cardinality, Optimized!IsFiniteSet
<1> QED
  BY <1>1, SameInvoke, SameLists, SameHeaps, SameMakers DEF CallOutcomes, Optimized!CallOutcomes

LEMMA SameKeys ==
  /\ \A id : Optimized!BuiltinKey(id) = BuiltinKey(id)
  /\ \A j : Optimized!ConstantKey(j) = ConstantKey(j) /\ Optimized!NeedsCell(j) = NeedsCell(j)
  /\ \A S : Optimized!RefsIn(S) = RefsIn(S)
  /\ \A o, u : Optimized!RefsOf(o, u) = RefsOf(o, u)
  /\ \A n : Optimized!NextThreshold(n) = NextThreshold(n)
  /\ \A id : Optimized!Builtin(id) = Builtin(id)
BY DEF BuiltinKey, ConstantKey, NeedsCell, RefsIn, RefsOf, Range, NextThreshold, Builtin,
   Optimized!BuiltinKey, Optimized!ConstantKey, Optimized!NeedsCell, Optimized!RefsIn,
   Optimized!RefsOf, Optimized!Range, Optimized!NextThreshold, Optimized!Builtin

LEMMA SameReached == \A h, u, roots : Optimized!ReachedFrom(h, u, roots) = ReachedFrom(h, u, roots)
BY DEF ReachedFrom, RefsOf, RefsIn, Range, Cardinality, IsFiniteSet, Optimized!ReachedFrom,
   Optimized!RefsOf, Optimized!RefsIn, Optimized!Range, Optimized!Cardinality, Optimized!IsFiniteSet

LEMMA SameStack ==
  /\ Optimized!Top = Top /\ Optimized!Runtime = Runtime /\ Optimized!Synced = Synced
  /\ \A n : Optimized!Peek(n) = Peek(n) /\ Optimized!Drop(n) = Drop(n) /\ Optimized!Slot(n) = Slot(n)
  /\ \A n : Optimized!IsCaptured(n) = IsCaptured(n)
  /\ \A n : Optimized!LocalValue(n) = LocalValue(n)
BY DEF Top, Last, Runtime, Synced, Peek, Drop, Slot, IsCaptured, LocalValue, Optimized!Top,
   Optimized!Last, Optimized!Runtime, Optimized!Synced, Optimized!Peek, Optimized!Drop,
   Optimized!Slot, Optimized!IsCaptured, Optimized!LocalValue

LEMMA SameChecks ==
  \A i : Optimized!Checked(i) = Checked(i) /\ Optimized!Valid(i) = Valid(i)
<1>1. \A i : Optimized!Checked(i) = Checked(i) /\ Optimized!Operands(i) = Operands(i)
  BY DEF Checked, Operands, Operators, Optimized!Checked, Optimized!Operands, Optimized!Operators
<1>2. \A i : Optimized!SlotsUsed(i) = SlotsUsed(i) /\ Optimized!UpvaluesUsed(i) = UpvaluesUsed(i)
  BY SameStack DEF SlotsUsed, UpvaluesUsed, Range, IsCaptured,
     Optimized!IsCaptured, Optimized!SlotsUsed, Optimized!UpvaluesUsed, Optimized!Range
<1> QED
  BY <1>1, <1>2, SameStack DEF Valid, Optimized!Valid

LEMMA SameCaptures == \A ds : Optimized!CaptureAll(ds) = CaptureAll(ds)
<1>1. \A acc, d : Optimized!CaptureOne(acc, d) = CaptureOne(acc, d)
  BY SameStack, SameSequences DEF CaptureOne, Optimized!CaptureOne
<1> SUFFICES ASSUME NEW ds PROVE Optimized!CaptureAll(ds) = CaptureAll(ds)
  OBVIOUS
<1>2. \A after :
        [n \in 0 .. Len(ds) |->
           IF n = 0 THEN [upv |-> upv, captured |-> Optimized!Top.captured, ups |-> <<>>]
           ELSE Optimized!CaptureOne(after[n - 1], ds[n])]
        = [n \in 0 .. Len(ds) |->
             IF n = 0 THEN [upv |-> upv, captured |-> Top.captured, ups |-> <<>>]
             ELSE CaptureOne(after[n - 1], ds[n])]
  BY <1>1, SameStack
<1> QED
  BY <1>2 DEF CaptureAll, Optimized!CaptureAll

-----------------------------------------------------------------------------
(* The propagated program: the same constants, the instructions replaced   *)
(* where a local is known.                                                 *)
(* Written and Tabulated change nothing.                                   *)
LEMMA WrittenSame ==
  ASSUME NEW n \in Nat, NEW s, s = [j \in 1 .. n |-> s[j]]
  PROVE  Written(s) = s
<1> DEFINE S == {s[j] : j \in 1 .. n}
           e == <<>>
<1>1. \A j \in 1 .. n : s[j] \in S
  OBVIOUS
<1>2. DOMAIN s = 1 .. n
  OBVIOUS
<1> HIDE DEF S
<1>3. [j \in 1 .. n |-> s[j]] \in Seq(S)
  BY <1>1
<1>4. s \in Seq(S) /\ e \in Seq(S) /\ Len(e) = 0 /\ Len(s) \in Nat
  BY <1>3
<1>5. Len(s) = n
  BY <1>2, <1>4
<1> HIDE DEF e
<1>6. /\ s \o e \in Seq(S) /\ Len(s \o e) = Len(s) + Len(e)
      /\ \A j \in 1 .. Len(s) + Len(e) : (s \o e)[j] = IF j <= Len(s) THEN s[j] ELSE e[j - Len(s)]
  BY <1>4, ConcatProperties
<1>7. Len(s \o e) = n /\ \A j \in 1 .. n : (s \o e)[j] = s[j]
  BY <1>4, <1>5, <1>6
<1>8. s \o e = s
  BY <1>4, <1>5, <1>6, <1>7
<1> QED
  BY <1>8 DEF Written, e

LEMMA TabulatedSame == \A f : Tabulated(f) = f
BY DEF Tabulated

(* The bytecode after constant propagation, of the program that runs.      *)
LEMMA PropagatedHere ==
  ASSUME program \in DOMAIN Programs, bytecode = Unnamed(program)
  PROVE  PropagatedBytecode = AfterPropagation(bytecode, KnownStacks[program])
<1>1. PropagatedPrograms = [p \in DOMAIN Programs |-> AfterPropagation(Programs[p], KnownStacks[p])]
  BY TabulatedSame DEF PropagatedPrograms
<1>2. PropagatedBytecode = AfterPropagation(Programs[program], KnownStacks[program])
  BY <1>1 DEF PropagatedBytecode
<1>3. bytecode.chunks = Programs[program].chunks /\ bytecode.consts = Programs[program].consts
  BY DEF Unnamed
<1> QED
  BY <1>2, <1>3 DEF AfterPropagation, StoresNoElement

(* Its constants, and so what a collection spares, are the same.           *)
LEMMA ConstantsSame ==
  ASSUME PropagatedBytecode = AfterPropagation(bytecode, KnownStacks[program])
  PROVE  /\ PropagatedBytecode.consts = bytecode.consts
         /\ Optimized!PinnedKeys = PinnedKeys
         /\ \A st, fr, u : Optimized!RootKeys(st, fr, u) = RootKeys(st, fr, u)
<1>1. PropagatedBytecode.consts = bytecode.consts
  BY DEF AfterPropagation
<1>2. Optimized!PinnedKeys = PinnedKeys
  BY <1>1, SameKeys DEF PinnedKeys, Optimized!PinnedKeys
<1>3. ASSUME NEW st, NEW fr, NEW u PROVE Optimized!RootKeys(st, fr, u) = RootKeys(st, fr, u)
  BY <1>2, SameKeys, SameSequences DEF RootKeys, Optimized!RootKeys
<1> QED
  BY <1>1, <1>2, <1>3

(* What becomes of the instruction that is executed.                       *)
Becomes == IF TableFor(Top) # <<>> /\ StoresNoElement(bytecode)
           THEN Propagated(Current, Says(Top, ip)) ELSE Current

(* The instruction the propagated program is at.                           *)
LEMMA CurrentPropagated ==
  ASSUME PropagatedBytecode = AfterPropagation(bytecode, KnownStacks[program]), NEW n \in Nat,
         DOMAIN bytecode.chunks = 1 .. n, Top.chunk + 1 \in DOMAIN bytecode.chunks,
         NEW S, Code \in Seq(S), ip + 1 \in DOMAIN Code
  PROVE  Optimized!Current = Becomes
<1> DEFINE cs == bytecode.chunks
           tables == KnownStacks[program]
           Rewritten(c) ==
             [code |-> IF StoresNoElement(bytecode) THEN PropagatedCode(cs[c].code, tables[c])
                       ELSE cs[c].code]
           all == [c \in DOMAIN cs |-> Rewritten(c)]
           c0 == Top.chunk + 1
<1>1. PropagatedBytecode.chunks = Written(all)
  BY DEF AfterPropagation
<1>2. all = [c \in 1 .. n |-> all[c]]
  OBVIOUS
<1>3. all[c0] = Rewritten(c0) /\ Code = cs[c0].code /\ TableFor(Top) = tables[c0]
  BY DEF Code, TableFor
<1> HIDE DEF all
<1>4. Written(all) = all
  BY <1>2, WrittenSame
<1>5. Optimized!Code = PropagatedBytecode.chunks[c0].code
  BY SameStack DEF Optimized!Code
<1>6. Optimized!Code = Rewritten(c0).code
  BY <1>1, <1>3, <1>4, <1>5
<1>7. Rewritten(c0).code = IF StoresNoElement(bytecode) THEN PropagatedCode(Code, TableFor(Top)) ELSE Code
  BY <1>3
<1>8. Optimized!Code = IF StoresNoElement(bytecode) THEN PropagatedCode(Code, TableFor(Top)) ELSE Code
  BY <1>6, <1>7
<1> HIDE DEF Rewritten, c0, tables, cs
<1>9. ASSUME TableFor(Top) # <<>>
      PROVE  PropagatedCode(Code, TableFor(Top))[ip + 1] = Propagated(Current, Says(Top, ip))
  <2> DEFINE new == [j \in DOMAIN Code |-> Propagated(Code[j], TableFor(Top)[j])]
             m == Len(Code)
  <2>1. m \in Nat /\ DOMAIN Code = 1 .. m
    OBVIOUS
  <2>2. new[ip + 1] = Propagated(Code[ip + 1], TableFor(Top)[ip + 1])
    OBVIOUS
  <2> HIDE DEF m
  <2>3. new = [j \in 1 .. m |-> new[j]]
    BY <2>1
  <2>4. PropagatedCode(Code, TableFor(Top)) = Written(new)
    BY <1>9 DEF PropagatedCode
  <2> HIDE DEF new
  <2>5. Written(new) = new
    BY <2>1, <2>3, WrittenSame
  <2> QED
    BY <2>2, <2>4, <2>5 DEF Current, Says
<1>10. Optimized!Current = Optimized!Code[ip + 1]
  BY DEF Optimized!Current
<1>11. PropagatedCode(Code, <<>>) = Code
  BY DEF PropagatedCode
<1> QED
  BY <1>8, <1>9, <1>10, <1>11 DEF Becomes, Current

-----------------------------------------------------------------------------
(* One step, at an instruction that stays as it is.                        *)
(* The propagated program is at the same instruction.                      *)
Alike ==
  /\ Optimized!Current = Current /\ PropagatedBytecode.consts = bytecode.consts
  /\ PropagatedBytecode' = PropagatedBytecode
  /\ \A st, fr, u : Optimized!RootKeys(st, fr, u) = RootKeys(st, fr, u)

(* The same instruction can run, and what it does to each variable is the *)
(* same, collections included.                                             *)
LEMMA RunsAlike ==
  ASSUME Optimized!Current = Current, NEW names, Runs(names)
  PROVE  Optimized!Runs(names)
BY SameChecks DEF Runs, Optimized!Runs

LEMMA QuietAlike ==
  ASSUME PropagatedBytecode' = PropagatedBytecode
  PROVE  /\ \A st : Leaves(st) => Optimized!Leaves(st)
         /\ Quiet => Optimized!Quiet
         /\ \A m : Settled(m) => Optimized!Settled(m)
         /\ UNCHANGED memory => Optimized!memory' = Optimized!memory
         /\ Breaks => Optimized!Breaks
         /\ Hangs => Optimized!Hangs
         /\ \A e, r : Fault(e, r) => Optimized!Fault(e, r)
         /\ \A e : FailSynced(e) => Optimized!FailSynced(e)
         /\ \A e, st : FailEarly(e, st) => Optimized!FailEarly(e, st)
BY SameStack DEF Leaves, Quiet, Settled, memory, Breaks, Hangs, Fault, FailSynced, FailEarly,
   Optimized!Leaves, Optimized!Quiet, Optimized!Settled, Optimized!memory, Optimized!Breaks,
   Optimized!Hangs, Optimized!Fault, Optimized!FailSynced, Optimized!FailEarly

LEMMA CollectsAlike ==
  ASSUME Alike, NEW m, NEW st, NEW fr, NEW u, MaybeGC(m, st, fr, u)
  PROVE  Optimized!MaybeGC(m, st, fr, u)
<1>1. Optimized!RootKeys(st, fr, u) = RootKeys(st, fr, u)
  BY DEF Alike
<1> QED
  BY <1>1, SameReached, SameKeys, SameSequences DEF MaybeGC, Optimized!MaybeGC

(* Instruction by instruction.                                             *)
LEMMA MovesAlike ==
  ASSUME Alike
  PROVE  /\ Constant => Optimized!Constant
         /\ Pop => Optimized!Pop
         /\ Duplicate => Optimized!Duplicate
         /\ GetGlobal => Optimized!GetGlobal
         /\ SetGlobal => Optimized!SetGlobal
         /\ GetLocal => Optimized!GetLocal
         /\ SetLocal => Optimized!SetLocal
         /\ GetBuiltin => Optimized!GetBuiltin
         /\ GetUpvalue => Optimized!GetUpvalue
         /\ SetUpvalue => Optimized!SetUpvalue
<1>1. /\ Optimized!Current = Current /\ PropagatedBytecode.consts = bytecode.consts
      /\ PropagatedBytecode' = PropagatedBytecode
  BY DEF Alike
<1>2. Constant => Optimized!Constant
  BY <1>1, RunsAlike, QuietAlike, SameMakers, SameKeys DEF Constant, Optimized!Constant
<1>3. Pop => Optimized!Pop
  BY <1>1, RunsAlike, QuietAlike, SameStack DEF Pop, Optimized!Pop
<1>4. Duplicate => Optimized!Duplicate
  BY <1>1, RunsAlike, QuietAlike, SameStack DEF Duplicate, Optimized!Duplicate
<1>5. GetGlobal => Optimized!GetGlobal
  BY <1>1, RunsAlike, QuietAlike, SameStack DEF GetGlobal, Optimized!GetGlobal
<1>6. SetGlobal => Optimized!SetGlobal
  BY <1>1, RunsAlike, QuietAlike, SameStack, SameSequences DEF SetGlobal, Optimized!SetGlobal
<1>7. GetLocal => Optimized!GetLocal
  BY <1>1, RunsAlike, QuietAlike, SameStack DEF GetLocal, Optimized!GetLocal
<1>8. SetLocal => Optimized!SetLocal
  BY <1>1, RunsAlike, QuietAlike, SameStack DEF SetLocal, Optimized!SetLocal
<1>9. GetBuiltin => Optimized!GetBuiltin
  BY <1>1, RunsAlike, QuietAlike, SameMakers, SameKeys DEF GetBuiltin, Optimized!GetBuiltin
<1>10. GetUpvalue => Optimized!GetUpvalue
  BY <1>1, RunsAlike, QuietAlike, SameStack DEF GetUpvalue, Optimized!GetUpvalue
<1>11. SetUpvalue => Optimized!SetUpvalue
  BY <1>1, RunsAlike, QuietAlike, SameStack DEF SetUpvalue, Optimized!SetUpvalue
<1> QED
  BY <1>2, <1>3, <1>4, <1>5, <1>6, <1>7, <1>8, <1>9, <1>10, <1>11

LEMMA OperatorsAlike ==
  ASSUME Alike
  PROVE  /\ Arithmetic => Optimized!Arithmetic
         /\ Negate => Optimized!Negate
         /\ Not => Optimized!Not
         /\ CompareOp => Optimized!CompareOp
         /\ Jump => Optimized!Jump
         /\ JumpIf => Optimized!JumpIf
         /\ ForLoop => Optimized!ForLoop
<1>1. /\ Optimized!Current = Current /\ PropagatedBytecode.consts = bytecode.consts
      /\ PropagatedBytecode' = PropagatedBytecode
  BY DEF Alike
<1>2. Arithmetic => Optimized!Arithmetic
  BY <1>1, RunsAlike, QuietAlike, SameStack, SameArith, SameHeaps
     DEF Arithmetic, Operators, Optimized!Arithmetic, Optimized!Operators
<1>3. Negate => Optimized!Negate
  BY <1>1, RunsAlike, QuietAlike, SameStack, SameValues DEF Negate, Optimized!Negate
<1>4. Not => Optimized!Not
  BY <1>1, RunsAlike, QuietAlike, SameStack, SameValues, SameMakers DEF Not, Optimized!Not
<1>5. CompareOp => Optimized!CompareOp
  BY <1>1, RunsAlike, QuietAlike, SameStack, SameCompare, SameMakers
     DEF CompareOp, Optimized!CompareOp
<1>6. Jump => Optimized!Jump
  BY <1>1, RunsAlike, QuietAlike DEF Jump, Optimized!Jump
<1>7. JumpIf => Optimized!JumpIf
  BY <1>1, RunsAlike, QuietAlike, SameStack, SameValues DEF JumpIf, Optimized!JumpIf
<1>8. ForLoop => Optimized!ForLoop
  BY <1>1, RunsAlike, QuietAlike, SameStack, SameMakers DEF ForLoop, Optimized!ForLoop
<1> QED
  BY <1>2, <1>3, <1>4, <1>5, <1>6, <1>7, <1>8

LEMMA CallsAlike ==
  ASSUME Alike
  PROVE  /\ CallValueBuiltin => Optimized!CallValueBuiltin
         /\ Curry => Optimized!Curry
         /\ CallFunction => Optimized!CallFunction
         /\ CallFails => Optimized!CallFails
         /\ Return => Optimized!Return
         /\ CallBuiltin => Optimized!CallBuiltin
<1>1. /\ Optimized!Current = Current /\ PropagatedBytecode.consts = bytecode.consts
      /\ PropagatedBytecode' = PropagatedBytecode
  BY DEF Alike
<1>2. /\ Optimized!Callee = Callee /\ Optimized!Args = Args
      /\ Optimized!TotalArgs = TotalArgs /\ Optimized!AllArgs = AllArgs
  BY <1>1, SameStack, SameValues DEF Callee, Args, TotalArgs, AllArgs, Optimized!Callee,
     Optimized!Args, Optimized!TotalArgs, Optimized!AllArgs
<1>3. ASSUME NEW m, NEW v, ReturnsInHand(m, v) PROVE Optimized!ReturnsInHand(m, v)
  BY <1>1, <1>3, QuietAlike, CollectsAlike, SameStack DEF ReturnsInHand, Optimized!ReturnsInHand
<1>4. CallValueBuiltin => Optimized!CallValueBuiltin
  BY <1>1, <1>2, <1>3, RunsAlike, QuietAlike, CollectsAlike, SameStack, SameOutcomes
     DEF CallValueBuiltin, Optimized!CallValueBuiltin
<1>5. Curry => Optimized!Curry
  BY <1>1, <1>2, <1>3, RunsAlike, SameStack, SameHeaps, SameMakers DEF Curry, Optimized!Curry
<1>6. CallFunction => Optimized!CallFunction
  BY <1>1, <1>2, RunsAlike, CollectsAlike, SameStack DEF CallFunction, EnterFrame,
     Optimized!CallFunction, Optimized!EnterFrame
<1>7. CallFails => Optimized!CallFails
  BY <1>1, <1>2, RunsAlike, QuietAlike DEF CallFails, Optimized!CallFails
<1>8. Return => Optimized!Return
  BY <1>1, RunsAlike, CollectsAlike, SameStack, SameSequences DEF Return, Optimized!Return
<1>9. CallBuiltin => Optimized!CallBuiltin
  BY <1>1, <1>2, RunsAlike, QuietAlike, CollectsAlike, SameStack, SameOutcomes
     DEF CallBuiltin, Optimized!CallBuiltin
<1> QED
  BY <1>4, <1>5, <1>6, <1>7, <1>8, <1>9

LEMMA VectorsAlike ==
  ASSUME Alike
  PROVE  /\ MakeArray => Optimized!MakeArray
         /\ VectorAppend => Optimized!VectorAppend
         /\ GetIndex => Optimized!GetIndex
         /\ SetIndex => Optimized!SetIndex
         /\ Closure => Optimized!Closure
         /\ Underflow => Optimized!Underflow
         /\ Broken => Optimized!Broken
<1>1. /\ Optimized!Current = Current /\ PropagatedBytecode.consts = bytecode.consts
      /\ PropagatedBytecode' = PropagatedBytecode
  BY DEF Alike
<1>2. MakeArray => Optimized!MakeArray
  BY <1>1, RunsAlike, QuietAlike, CollectsAlike, SameStack, SameHeaps, SameMakers
     DEF MakeArray, Optimized!MakeArray
<1>3. VectorAppend => Optimized!VectorAppend
  BY <1>1, RunsAlike, QuietAlike, SameStack, SameValues DEF VectorAppend, Optimized!VectorAppend
<1>4. GetIndex => Optimized!GetIndex
  BY <1>1, RunsAlike, QuietAlike, SameStack, SameHeaps, SameIndex DEF GetIndex, Optimized!GetIndex
<1>5. SetIndex => Optimized!SetIndex
  BY <1>1, RunsAlike, QuietAlike, SameStack, SameIndex DEF SetIndex, Optimized!SetIndex
<1>6. Closure => Optimized!Closure
  BY <1>1, RunsAlike, QuietAlike, CollectsAlike, SameStack, SameHeaps, SameMakers, SameKeys,
     SameCaptures DEF Closure, Optimized!Closure
<1>7. Underflow => Optimized!Underflow
  BY <1>1, QuietAlike, SameStack, SameChecks DEF Underflow, Optimized!Underflow
<1>8. Broken => Optimized!Broken
  BY <1>1, QuietAlike, SameChecks DEF Broken, Optimized!Broken
<1> QED
  BY <1>2, <1>3, <1>4, <1>5, <1>6, <1>7, <1>8

(* A step at an instruction that stays is a step of the propagated program.*)
LEMMA NextAlike ==
  ASSUME Alike, Next, status = "run"
  PROVE  Optimized!Next
<1>1. CASE \/ Constant \/ Pop \/ Duplicate \/ GetGlobal \/ SetGlobal \/ GetLocal \/ SetLocal
           \/ GetBuiltin \/ GetUpvalue \/ SetUpvalue
  BY <1>1, MovesAlike DEF Optimized!Next
<1>2. CASE Arithmetic \/ Negate \/ Not \/ CompareOp \/ Jump \/ JumpIf \/ ForLoop
  BY <1>2, OperatorsAlike DEF Optimized!Next
<1>3. CASE CallValueBuiltin \/ Curry \/ CallFunction \/ CallFails \/ Return \/ CallBuiltin
  BY <1>3, CallsAlike DEF Optimized!Next
<1>4. CASE MakeArray \/ VectorAppend \/ GetIndex \/ SetIndex \/ Closure \/ Underflow \/ Broken
  BY <1>4, VectorsAlike DEF Optimized!Next
<1>5. ~Halted
  BY DEF Halted
<1> QED
  BY <1>1, <1>2, <1>3, <1>4, <1>5 DEF Next

(* Where a local is read that is known, the constant is pushed instead.    *)
LEMMA ReplacedAlike ==
  ASSUME KnownInv, status = "run", StoresNoElement(bytecode), TableFor(Top) # <<>>,
         Current.op = "GetLocal", Known(Says(Top, ip), Current.index) # Unknown, GetLocal,
         Optimized!Current = Propagated(Current, Says(Top, ip)),
         PropagatedBytecode.consts = bytecode.consts, PropagatedBytecode' = PropagatedBytecode
  PROVE  Optimized!Constant
<1> DEFINE s == Says(Top, ip)
           i == Current.index
           k == Known(s, i)
           h == Height
           new == Optimized!Current
<1>1. Here(s)
  BY TableHere
<1>2. /\ StackInv /\ s \in Seq(Claims) /\ Len(s) = h /\ Current \in Instruction
      /\ h \in Nat /\ Top.fp \in Nat /\ Len(stack) = Top.fp + h
      /\ \A j \in 1 .. h : EntryHolds(s[j], j, stack, Top, upv)
  BY <1>1, HereParts
<1>3. new.op = "Constant" /\ new.index = k
  BY DEF Propagated
<1>4. i \in Nat /\ i < Len(s)
  <2>1. i \in Nat
    BY <1>2, InstructionFields
  <2>2. i \in 0 .. Len(s) - 1
    BY DEF Known
  <2> QED
    BY <1>2, <2>1, <2>2
<1> HIDE DEF i, h, s, new
<1>5. k \in Claims /\ k = s[i + 1]
  BY <1>2, <1>4, KnownClaims
<1>6. /\ i + 1 \in 1 .. h /\ (i + 1) - 1 = i /\ Top.fp + (i + 1) = Slot(i)
  <2>1. i \in Nat /\ h \in Nat /\ i < h /\ Top.fp \in Nat
    BY <1>2, <1>4
  <2>2. i + 1 \in 1 .. h /\ (i + 1) - 1 = i
    BY ONLY <2>1
  <2>3. Top.fp + (i + 1) = Top.fp + i + 1
    BY ONLY <2>1
  <2> QED
    BY ONLY <2>2, <2>3 DEF Slot
<1>7. k # Unknown
  BY DEF s, i
<1> HIDE DEF k
<1>11. LocalValue(i) = ConstantData(k)
  <2>1. i + 1 \in 1 .. h /\ \A j \in 1 .. h : EntryHolds(s[j], j, stack, Top, upv)
    BY <1>2, <1>6
  <2>2. EntryHolds(s[i + 1], i + 1, stack, Top, upv)
    BY ONLY <2>1
  <2>3. EntryHolds(k, i + 1, stack, Top, upv)
    BY ONLY <1>5, <2>2
  <2> QED
    BY <1>6, <1>7, <2>3 DEF EntryHolds, LocalValue, IsCaptured
<1>8. /\ stack' = Append(stack, ConstantData(k)) /\ ip' = ip + 1 /\ Quiet
      /\ UNCHANGED <<globals, upv, memory, out>>
  BY <1>11 DEF GetLocal, Leaves, i
<1>9. Optimized!Runs({"Constant"})
  <2>1. Checked(new) = 0 /\ Operands(new) = 0 /\ SlotsUsed(new) = {} /\ UpvaluesUsed(new) = {}
    BY <1>3 DEF Checked, Operands, SlotsUsed, UpvaluesUsed, Operators
  <2>2. Len(stack) \in Nat
    BY <1>2
  <2>3. Len(stack) >= 0
    BY <2>2
  <2>4. Valid(new)
    BY <2>1, <2>3 DEF Valid
  <2>5. Optimized!Checked(new) = 0 /\ Optimized!Valid(new)
    BY <2>1, <2>4, SameChecks
  <2> QED
    BY <1>3, <2>3, <2>5 DEF Optimized!Runs, new
<1>10. LET data == PropagatedBytecode.consts[Optimized!Current.index + 1]
       IN  ConstantData(k) = IF Optimized!NeedsCell(data)
                             THEN Optimized!RefV(Optimized!ConstantKey(Optimized!Current.index))
                             ELSE data
  BY <1>3, SameKeys, SameMakers DEF ConstantData, new
<1> QED
  BY <1>8, <1>9, <1>10, QuietAlike DEF Optimized!Constant, Optimized!Leaves, memory, Optimized!memory

(* A local that is known can be read.                                      *)
LEMMA KnownRead ==
  ASSUME KnownInv, status = "run", StoresNoElement(bytecode), TableFor(Top) # <<>>, Next,
         Current.op = "GetLocal", Known(Says(Top, ip), Current.index) # Unknown
  PROVE  GetLocal
<1> DEFINE s == Says(Top, ip)
           i == Current.index
           h == Height
<1>1. Here(s)
  BY TableHere
<1>2. /\ Len(s) = h /\ h \in Nat /\ Top.fp \in Nat /\ Len(stack) = Top.fp + h
      /\ Current \in Instruction
  BY <1>1, HereParts
<1>3. i \in Nat /\ i < h
  <2>1. i \in Nat
    BY <1>2, InstructionFields
  <2>2. i \in 0 .. Len(s) - 1
    BY DEF Known
  <2> QED
    BY <1>2, <2>1, <2>2
<1>4. Checked(Current) = 0 /\ Operands(Current) = 0 /\ UpvaluesUsed(Current) = {}
      /\ SlotsUsed(Current) \subseteq {i}
  BY DEF Checked, Operands, SlotsUsed, UpvaluesUsed, Operators
<1> HIDE DEF s, i, h
<1>5. Slot(i) <= Len(stack) /\ Len(stack) >= 0 /\ Len(stack) \in Nat
  BY <1>2, <1>3 DEF Slot
<1>6. Valid(Current)
  BY <1>4, <1>5 DEF Valid
<1>7. ~Underflow
  BY <1>4, <1>5 DEF Underflow
<1> QED
  BY <1>6, <1>7, ExecutedUnbroken DEF Broken

(* Every step is a step of the propagated program.                         *)
LEMMA StepAlike ==
  ASSUME KnownInv, [Next]_vars
  PROVE  [Optimized!Next]_Optimized!vars
<1>1. /\ program \in DOMAIN Programs /\ bytecode = Unnamed(program)
  BY DEF KnownInv
<1>2. program' = program /\ bytecode' = bytecode
  BY ProgramKept DEF vars
<1>3. PropagatedBytecode = AfterPropagation(bytecode, KnownStacks[program])
  BY <1>1, PropagatedHere
<1>4. PropagatedBytecode' = PropagatedBytecode
  BY <1>2 DEF PropagatedBytecode
<1>5. /\ PropagatedBytecode.consts = bytecode.consts
      /\ \A st, fr, u : Optimized!RootKeys(st, fr, u) = RootKeys(st, fr, u)
  BY <1>3, ConstantsSame
<1>6. CASE UNCHANGED vars
  BY <1>4, <1>6 DEF vars, Optimized!vars
<1>7. CASE Next /\ status # "run"
  <2>1. UNCHANGED vars
    BY <1>7, HaltsStill
  <2> QED
    BY <1>4, <2>1 DEF vars, Optimized!vars
<1>8. CASE Next /\ status = "run"
  <2>1. StackInv
    BY DEF KnownInv
  <2>2. Optimized!Current = Becomes
    <3>1. /\ Sound(Nat, DOMAIN upv) /\ Top \in FrameOver(Chunks, Nat, DOMAIN upv)
      BY <1>8, <2>1, FramesHere
    <3>2. Top.chunk + 1 \in DOMAIN bytecode.chunks
      BY <3>1, InChunk DEF Sound
    <3>3. ip + 1 \in DOMAIN Code
      <4>1. ip + 1 \in DOMAIN bytecode.chunks[Top.chunk + 1].code
        BY <1>8, <3>1 DEF Sound, Basics, Ready, ReadyAt, InCode, Top
      <4> QED
        BY <4>1 DEF Code
    <3>4. Len(bytecode.chunks) \in Nat /\ DOMAIN bytecode.chunks = 1 .. Len(bytecode.chunks)
      BY <3>1 DEF Sound, Basics, WellFormed
    <3>5. Code \in Seq(Instruction)
      <4>1. CodeOK(bytecode.chunks[Top.chunk + 1].code, bytecode.consts, Range(BuiltinIds))
        BY <3>1, InChunk DEF Sound
      <4> QED
        BY <4>1 DEF CodeOK, Code
    <3> QED
      BY <1>3, <3>2, <3>3, <3>4, <3>5, CurrentPropagated
  <2>3. CASE Optimized!Current = Current
    <3>1. Alike
      BY <1>4, <1>5, <2>3 DEF Alike
    <3> QED
      BY <1>8, <3>1, NextAlike
  <2>4. CASE Optimized!Current # Current
    <3>1. /\ StoresNoElement(bytecode) /\ TableFor(Top) # <<>>
          /\ Optimized!Current = Propagated(Current, Says(Top, ip))
          /\ Current.op = "GetLocal" /\ Known(Says(Top, ip), Current.index) # Unknown
      BY <2>2, <2>4 DEF Becomes, Propagated
    <3>2. GetLocal
      BY <1>8, <3>1, KnownRead
    <3>3. Optimized!Constant
      BY <1>4, <1>5, <1>8, <3>1, <3>2, ReplacedAlike
    <3> QED
      BY <3>3 DEF Optimized!Next
  <2> QED
    BY <2>3, <2>4
<1> QED
  BY <1>6, <1>7, <1>8

(* Both programs begin alike.                                              *)
LEMMA InitAlike ==
  ASSUME Init
  PROVE  Optimized!Init
<1>1. /\ program \in DOMAIN Programs /\ bytecode = Unnamed(program)
  BY DEF Init, Unnamed
<1>2. PropagatedBytecode = AfterPropagation(bytecode, KnownStacks[program])
  BY <1>1, PropagatedHere
<1>3. PropagatedBytecode.consts = bytecode.consts /\ Optimized!PinnedKeys = PinnedKeys
  BY <1>2, ConstantsSame
<1>4. program \in DOMAIN PropagatedPrograms
  <2>1. PropagatedPrograms = [p \in DOMAIN Programs |-> AfterPropagation(Programs[p], KnownStacks[p])]
    BY TabulatedSame DEF PropagatedPrograms
  <2> QED
    BY <1>1, <2>1
<1>5. PropagatedBytecode = [part \in {"chunks", "consts"} |-> PropagatedPrograms[program][part]]
  BY <1>2 DEF PropagatedBytecode, AfterPropagation
<1>6. [id \in Range(BuiltinIds) |-> RefV(BuiltinKey(id))]
      = [id \in Optimized!Range(BuiltinIds) |-> Optimized!RefV(Optimized!BuiltinKey(id))]
  BY SameSequences, SameMakers, SameKeys
<1>7. [k \in PinnedKeys |-> IF k <= Len(BuiltinIds) THEN Builtin(BuiltinIds[k])
                            ELSE bytecode.consts[k - Len(BuiltinIds)]]
      = [k \in Optimized!PinnedKeys |->
           IF k <= Len(BuiltinIds) THEN Optimized!Builtin(BuiltinIds[k])
           ELSE PropagatedBytecode.consts[k - Len(BuiltinIds)]]
  BY <1>3, SameKeys
<1> QED
  BY <1>3, <1>4, <1>5, <1>6, <1>7, SameMakers DEF Init, Optimized!Init

(* Constant propagation is invisible: what a program does, collections,    *)
(* captures, calls and errors included, the propagated program does, step  *)
(* by step in the same states, if the optimizer's tables are stable and no *)
(* value is put in the slot of a captured local that is gone.              *)
THEOREM PropagationStaysInvisible ==
  ASSUME ProgramsWellFormed, ProgramsVerified, TablesAreStable
  PROVE  Spec /\ []CapturedSlotsRest => PropagationInvisible
<1>1. Init => KnownInv
  BY KnownInvAtFirst
<1>2. KnownInv /\ CapturedSlotsRest /\ [Next]_vars => KnownInv'
  BY KnownInvKept
<1>3. Init => Optimized!Init
  BY InitAlike
<1>4. KnownInv /\ [Next]_vars => [Optimized!Next]_Optimized!vars
  BY StepAlike
<1> QED
  BY <1>1, <1>2, <1>3, <1>4, PTL DEF Spec, PropagationInvisible, Optimized!Spec
=============================================================================
