----------------------------- MODULE StackProofs -----------------------------
(***************************************************************************)
(* The stack of the VM under bytecode that passes the reckoning of heights *)
(* (Verified): every frame executes at the heights reckoned for its chunk, *)
(* begins where its caller's stack ends, and leaves that alone.            *)
(***************************************************************************)
EXTENDS VMProofs

(* What the compiler is taken to have kept to; checked by the runs         *)
(* VMEveryday and SmallPrograms (ProgramVerified).                         *)
ProgramsVerified ==
  \A p \in DOMAIN Programs : Verified([part \in {"chunks", "consts"} |-> Programs[p][part]])

(* The frame f executes the instruction at pc when the stack holds size.   *)
HeightsOf(chunk) == Heights(bytecode)[chunk + 1]
RunsAt(f, pc, size) == f.fp <= size /\ <<pc, size - f.fp>> \in HeightsOf(f.chunk)

(* What the stack holds after the frame f has returned.                    *)
LeftBy(f) == f.fp - 1 + OneIf(~f.discard)

FirstIsMain(fr) ==
  fr[1].fp = 0 /\ \A n \in 1 .. Len(fr) : fr[n].chunk = 0 <=> n = 1
Rising(fr) == \A m, n \in 1 .. Len(fr) : m < n => fr[m].fp < fr[n].fp
Waiting(fr) == \A n \in 1 .. Len(fr) - 1 : RunsAt(fr[n], fr[n].ip, LeftBy(fr[n + 1]))
Preserved(sv, fr, st) ==
  \A n \in 1 .. Len(fr) : /\ Len(sv[n]) = fr[n].fp /\ fr[n].fp <= Len(st)
                          /\ \A j \in 1 .. fr[n].fp : sv[n][j] = st[j]

Fits ==
  /\ FirstIsMain(frames) /\ Rising(frames) /\ Waiting(frames)
  /\ Preserved(saved, frames, stack)
  /\ RunsAt(Top, ip, Len(stack))

StackInv ==
  /\ VMInv
  /\ Verified(bytecode)
  /\ status = "run" => Fits
  /\ status = "done" => frames = <<>> /\ stack = <<>>
-----------------------------------------------------------------------------
(* A running VM: its parts, and what was reckoned for its instruction.     *)
Height == Len(stack) - Top.fp

LEMMA FramesHere ==
  ASSUME StackInv, status = "run"
  PROVE  /\ Sound(Nat, DOMAIN upv) /\ Fits
         /\ frames \in Seq(FrameOver(Chunks, Nat, DOMAIN upv)) /\ frames # <<>>
         /\ Len(frames) \in Nat \ {0} /\ Top = frames[Len(frames)]
         /\ Top \in FrameOver(Chunks, Nat, DOMAIN upv)
         /\ stack \in Seq(ValuesOver(Nat)) /\ Len(stack) \in Nat
         /\ saved \in Seq(Seq(Value)) /\ Len(saved) = Len(frames)
         /\ ip \in Nat /\ Current \in Instruction
         /\ \A n \in 1 .. Len(frames) : frames[n].fp \in Nat
<1>1. Basics /\ Held(Nat, DOMAIN upv) /\ Fits /\ Sound(Nat, DOMAIN upv)
  BY PinnedAreKeys DEF StackInv, VMInv, Sound
<1>2. frames \in Seq(FrameOver(Chunks, Nat, DOMAIN upv)) /\ stack \in Seq(ValuesOver(Nat))
      /\ Len(stack) \in Nat /\ Len(frames) \in Nat /\ ip \in Nat
  BY <1>1, HeldParts, BasicParts
<1>3. saved \in Seq(Seq(Value)) /\ Len(saved) = Len(frames)
  BY <1>1 DEF Basics
<1>4. /\ frames # <<>> /\ Len(frames) \in Nat \ {0} /\ Top = frames[Len(frames)]
      /\ Top \in FrameOver(Chunks, Nat, DOMAIN upv) /\ Current \in Instruction
  BY <1>1, CurrentInBounds
<1>5. \A n \in 1 .. Len(frames) : frames[n] \in FrameOver(Chunks, Nat, DOMAIN upv)
  BY <1>2
<1>6. \A n \in 1 .. Len(frames) : frames[n].fp \in Nat
  BY <1>5, TopCells
<1> QED
  BY <1>1, <1>2, <1>3, <1>4, <1>6

(* What the reckoning says of a chunk at one offset and height.            *)
LEMMA Reckoned ==
  ASSUME StackInv, NEW c \in DOMAIN bytecode.chunks, NEW pc, NEW h, <<pc, h>> \in HeightsOf(c - 1)
  PROVE  /\ pc \in Nat /\ h \in Nat
         /\ Exits(bytecode.chunks[c].code[pc + 1], pc, h) \subseteq HeightsOf(c - 1)
         /\ IF c = 1 /\ bytecode.chunks[c].code[pc + 1].op = "Return" THEN h = 0
            ELSE Suffices(bytecode.chunks[c].code[pc + 1], h)
<1> DEFINE code == bytecode.chunks[c].code
           hs == Heights(bytecode)[c]
<1>1. Matches(code, c = 1, hs)
  BY DEF StackInv, Verified, StacksMatch
<1>2. c \in Nat /\ (c - 1) + 1 = c
  BY DEF StackInv, VMInv, Basics, WellFormed
<1>3. hs = HeightsOf(c - 1)
  BY <1>2 DEF HeightsOf
<1> HIDE DEF code, hs
<1>4. \A p \in hs :
        /\ p[1] \in 0 .. Len(code) - 1 /\ p[2] \in Nat
        /\ Exits(code[p[1] + 1], p[1], p[2]) \subseteq hs
        /\ IF c = 1 /\ code[p[1] + 1].op = "Return" THEN p[2] = 0
           ELSE Suffices(code[p[1] + 1], p[2])
  BY <1>1 DEF Matches
<1> DEFINE p == <<pc, h>>
<1>5. p \in hs /\ p[1] = pc /\ p[2] = h
  BY <1>3
<1> HIDE DEF p
<1>6. /\ pc \in 0 .. Len(code) - 1 /\ h \in Nat
      /\ Exits(code[pc + 1], pc, h) \subseteq hs
      /\ IF c = 1 /\ code[pc + 1].op = "Return" THEN h = 0 ELSE Suffices(code[pc + 1], h)
  BY <1>4, <1>5
<1>7. pc \in Nat
  BY <1>6
<1> QED
  BY <1>3, <1>6, <1>7 DEF code

LEMMA ReckonedHere ==
  ASSUME StackInv, status = "run"
  PROVE  /\ Height \in Nat /\ Len(stack) = Top.fp + Height /\ Top.fp \in Nat
         /\ Exits(Current, ip, Height) \subseteq HeightsOf(Top.chunk)
         /\ IF Len(frames) = 1 /\ Current.op = "Return" THEN Height = 0
            ELSE Suffices(Current, Height)
<1> DEFINE c == Top.chunk + 1
<1>1. /\ Fits /\ Basics /\ Top \in FrameOver(Chunks, Nat, DOMAIN upv) /\ Len(stack) \in Nat
      /\ Top = frames[Len(frames)] /\ Len(frames) \in Nat \ {0}
  BY FramesHere DEF Sound
<1>2. c \in DOMAIN bytecode.chunks
  BY <1>1, InChunk
<1>3. Top.fp \in Nat /\ Top.chunk \in Nat
  BY <1>1, FrameFields
<1>4. Top.fp <= Len(stack) /\ <<ip, Height>> \in HeightsOf(Top.chunk)
  BY <1>1 DEF Fits, RunsAt, Height
<1>5. Top.chunk = c - 1
  BY <1>3
<1>6. Code = bytecode.chunks[c].code
  BY DEF Code
<1> HIDE DEF c
<1>7. /\ Exits(Current, ip, Height) \subseteq HeightsOf(c - 1)
      /\ IF c = 1 /\ Current.op = "Return" THEN Height = 0 ELSE Suffices(Current, Height)
  BY <1>2, <1>4, <1>5, <1>6, Reckoned DEF Current
<1>8. c = 1 <=> Len(frames) = 1
  <2>1. Len(frames) \in 1 .. Len(frames) /\ FirstIsMain(frames)
    BY <1>1 DEF Fits
  <2>2. Top.chunk = 0 <=> Len(frames) = 1
    BY <1>1, <2>1 DEF FirstIsMain
  <2>3. c = Top.chunk + 1
    BY DEF c
  <2> QED
    BY <1>3, <2>2, <2>3
<1>9. Height \in Nat /\ Len(stack) = Top.fp + Height
  BY <1>1, <1>3, <1>4 DEF Height
<1> QED
  BY <1>3, <1>5, <1>7, <1>8, <1>9

LEMMA Counts ==
  ASSUME NEW i \in Instruction
  PROVE  /\ Pops(i) \in Nat /\ Pushes(i) \in Nat /\ Reads(i) \in Nat
         /\ i.op # "Return" => Pops(i) <= Reads(i)
<1>1. /\ i.op \in {"Pop", "MakeArray", "VectorAppend"} => i.count \in Nat
      /\ i.op = "Call" => i.argc \in Nat
      /\ i.op = "CallBuiltin" => i.argc \in Nat
      /\ i.op = "Duplicate" => i.index \in Nat
  BY InstructionFields
<1>2. \A b : OneIf(b) \in {0, 1}
  BY DEF OneIf
<1>3. Pops(i) \in Nat
  BY <1>1 DEF Pops, Operators
<1>4. Pushes(i) \in Nat
  BY <1>2 DEF Pushes
<1>5. Reads(i) \in Nat
  BY <1>1, <1>3 DEF Reads
<1>6. i.op # "Return" => Pops(i) <= Reads(i)
  <2>1. CASE i.op = "SetIndex"
    BY <2>1 DEF Pops, Reads
  <2>2. CASE i.op = "VectorAppend"
    BY <1>1, <2>2 DEF Pops, Reads, Operators
  <2>3. CASE i.op = "Duplicate"
    BY <1>1, <2>3 DEF Pops, Reads, Operators
  <2>4. CASE i.op = "JumpIf"
    BY <2>4 DEF Pops, Reads, Operators
  <2>5. CASE i.op \notin {"SetIndex", "VectorAppend", "Duplicate", "JumpIf", "Return"}
    <3>1. Reads(i) = Pops(i)
      BY <2>5 DEF Reads
    <3> QED
      BY <1>3, <3>1
  <2> QED
    BY <2>1, <2>2, <2>3, <2>4, <2>5
<1> QED
  BY <1>3, <1>4, <1>5, <1>6

(* What the instruction takes is in its frame.                             *)
LEMMA TakesItsOwn ==
  ASSUME StackInv, status = "run", Current.op # "Return"
  PROVE  /\ Pops(Current) \in Nat /\ Pushes(Current) \in Nat /\ Reads(Current) \in Nat
         /\ Pops(Current) <= Reads(Current) /\ Reads(Current) <= Height
         /\ \A s \in SlotsNamed(Current) : s < Height - Pops(Current)
         /\ Height \in Nat /\ Top.fp \in Nat /\ Len(stack) = Top.fp + Height
         /\ Len(stack) - Pops(Current) \in Nat /\ Top.fp <= Len(stack) - Pops(Current)
<1>1. /\ Suffices(Current, Height) /\ Height \in Nat /\ Len(stack) = Top.fp + Height
      /\ Top.fp \in Nat
  BY ReckonedHere
<1>2. Current \in Instruction
  BY FramesHere
<1>3. /\ Pops(Current) \in Nat /\ Pushes(Current) \in Nat /\ Reads(Current) \in Nat
      /\ Pops(Current) <= Reads(Current)
  BY <1>2, Counts
<1>4. Reads(Current) <= Height /\ \A s \in SlotsNamed(Current) : s < Height - Pops(Current)
  BY <1>1 DEF Suffices
<1> QED
  BY <1>1, <1>3, <1>4
-----------------------------------------------------------------------------
(* Steps that stay in their frame: the call stack keeps its shape, the     *)
(* stack is as it was under the frame, and the height is the one reckoned  *)
(* for the next instruction.                                               *)
SameFrame(g, f) ==
  g.chunk = f.chunk /\ g.fp = f.fp /\ g.discard = f.discard /\ g.ups = f.ups
SameCalls ==
  /\ Len(frames') = Len(frames)
  /\ \A n \in 1 .. Len(frames) :
       /\ SameFrame(frames'[n], frames[n])
       /\ n # Len(frames) => frames'[n].ip = frames[n].ip
       /\ n # Len(frames) \/ Current.op # "Closure" => frames'[n].captured = frames[n].captured

SameUnder(st) ==
  Len(st) \in Nat /\ Top.fp <= Len(st) /\ \A j \in 1 .. Top.fp : st[j] = stack[j]

(* st is the stack with n values taken off and k put in their place...     *)
Exchanged(st, n, k) ==
  /\ Len(st) = Len(stack) - n + k
  /\ \A j \in 1 .. Len(stack) - n : st[j] = stack[j]

(* ... or at least as it was under the frame.                              *)
Traded(st, n, k) ==
  /\ Len(st) = Len(stack) - n + k
  /\ \A j \in 1 .. Len(stack) - n : j <= Top.fp => st[j] = stack[j]

Jumps == {"Return", "Jump", "JumpIf", "ForLoop"}
InFrame ==
  /\ UNCHANGED <<bytecode, saved, status>> /\ SameCalls
  /\ SameUnder(stack') /\ <<ip', Len(stack') - Top.fp>> \in Exits(Current, ip, Height)
  /\ Current.op \notin Jumps \cup {"SetLocal"}
       => Exchanged(stack', Pops(Current), Pushes(Current))

LEMMA InFrameFits ==
  ASSUME StackInv, status = "run", InFrame
  PROVE  Fits'
<1> DEFINE N == Len(frames)
<1>1. /\ Fits /\ N \in Nat \ {0} /\ Top = frames[N] /\ N \in 1 .. N
      /\ \A n \in 1 .. N : frames[n].fp \in Nat
  BY FramesHere
<1>2. Exits(Current, ip, Height) \subseteq HeightsOf(Top.chunk)
  BY ReckonedHere
<1>3. /\ Len(frames') = N
      /\ \A n \in 1 .. N :
           /\ frames'[n].chunk = frames[n].chunk /\ frames'[n].fp = frames[n].fp
           /\ frames'[n].discard = frames[n].discard
           /\ n # N => frames'[n].ip = frames[n].ip
  BY DEF InFrame, SameCalls, SameFrame
<1>4. /\ FirstIsMain(frames) /\ Rising(frames) /\ Waiting(frames)
      /\ Preserved(saved, frames, stack)
  BY <1>1 DEF Fits
<1>5. bytecode' = bytecode /\ saved' = saved
  BY DEF InFrame
<1> HIDE DEF N
<1>6. FirstIsMain(frames')
  <2>1. 1 \in 1 .. N
    BY <1>1
  <2> QED
    BY <1>3, <1>4, <2>1 DEF FirstIsMain, N
<1>7. Rising(frames')
  BY <1>3, <1>4 DEF Rising, N
<1>8. \A c : HeightsOf(c)' = HeightsOf(c)
  BY <1>5 DEF HeightsOf
<1>10. Waiting(frames)'
  <2>1. ASSUME NEW n \in 1 .. N - 1
        PROVE  RunsAt(frames[n], frames[n].ip, LeftBy(frames[n + 1]))'
    <3>1. n \in 1 .. N /\ n + 1 \in 1 .. N /\ n # N
      BY <1>1
    <3>2. RunsAt(frames[n], frames[n].ip, LeftBy(frames[n + 1]))
      BY <1>4 DEF Waiting, N
    <3>3. /\ frames'[n].chunk = frames[n].chunk /\ frames'[n].fp = frames[n].fp
          /\ frames'[n].ip = frames[n].ip
          /\ frames'[n + 1].fp = frames[n + 1].fp
          /\ frames'[n + 1].discard = frames[n + 1].discard
      BY <1>3, <3>1
    <3> QED
      BY <1>5, <3>2, <3>3 DEF RunsAt, LeftBy, HeightsOf
  <2> QED
    BY <1>3, <2>1 DEF Waiting
<1>11. Preserved(saved, frames', stack')
  <2> SUFFICES ASSUME NEW n \in 1 .. N
               PROVE  /\ Len(saved[n]) = frames'[n].fp /\ frames'[n].fp <= Len(stack')
                      /\ \A j \in 1 .. frames'[n].fp : saved[n][j] = stack'[j]
    BY <1>3 DEF Preserved
  <2>1. /\ Len(saved[n]) = frames[n].fp /\ frames[n].fp <= Len(stack)
        /\ \A j \in 1 .. frames[n].fp : saved[n][j] = stack[j]
    BY <1>4 DEF Preserved, N
  <2>2. frames[n].fp <= Top.fp
    BY <1>1, <1>4 DEF Rising, N
  <2>3. Len(stack') \in Nat /\ Top.fp <= Len(stack') /\ \A j \in 1 .. Top.fp : stack'[j] = stack[j]
    BY DEF InFrame, SameUnder
  <2>4. frames[n].fp \in Nat /\ Top.fp \in Nat
    BY <1>1
  <2>5. frames'[n].fp = frames[n].fp
    BY <1>3
  <2>6. frames[n].fp <= Len(stack')
    BY <2>2, <2>3, <2>4
  <2>7. \A j \in 1 .. frames[n].fp : j \in 1 .. Top.fp
    BY <2>2, <2>4
  <2> QED
    BY <2>1, <2>3, <2>5, <2>6, <2>7
<1>12. RunsAt(Top, ip, Len(stack))'
  <2>1. Top' = frames'[N]
    BY <1>3 DEF Top, Last
  <2>2. Top'.fp = Top.fp /\ Top'.chunk = Top.chunk
    BY <1>1, <1>3, <2>1
  <2>3. Top.fp <= Len(stack') /\ <<ip', Len(stack') - Top.fp>> \in HeightsOf(Top.chunk)
    BY <1>2 DEF InFrame, SameUnder
  <2> QED
    BY <1>8, <2>2, <2>3 DEF RunsAt
<1> QED
  BY <1>5, <1>6, <1>7, <1>10, <1>11, <1>12 DEF Fits

LEMMA Trades ==
  ASSUME stack \in Seq(Value), NEW n \in Nat, n <= Len(stack)
  PROVE  /\ Exchanged(Drop(n), n, 0)
         /\ \A v : Exchanged(Append(Drop(n), v), n, 1)
         /\ \A v : Exchanged(Append(stack, v), 0, 1)
         /\ \A v, w : Exchanged(Drop(n) \o <<v, w>>, n, 2)
<1>1. /\ Drop(n) \in Seq(Value) /\ Len(Drop(n)) = Len(stack) - n /\ Len(stack) \in Nat
      /\ \A j \in 1 .. Len(stack) - n : Drop(n)[j] = stack[j]
  BY StackParts
<1>2. ASSUME NEW s \in Seq(Value), NEW v
      PROVE  Len(Append(s, v)) = Len(s) + 1 /\ \A j \in 1 .. Len(s) : Append(s, v)[j] = s[j]
  <2>1. s \in Seq(Value \cup {v}) /\ v \in Value \cup {v}
    BY <1>2, SeqMore
  <2> QED
    BY <2>1
<1>3. ASSUME NEW s \in Seq(Value), NEW v, NEW w
      PROVE  /\ Len(s \o <<v, w>>) = Len(s) + 2
             /\ \A j \in 1 .. Len(s) : (s \o <<v, w>>)[j] = s[j]
  <2> DEFINE S == Value \cup {v, w}
  <2>1. s \in Seq(S) /\ <<v, w>> \in Seq(S) /\ Len(<<v, w>>) = 2
    BY <1>3, SeqMore
  <2> HIDE DEF S
  <2> QED
    BY <2>1
<1> DEFINE d == Drop(n)
<1> HIDE DEF d
<1>4. d \in Seq(Value) /\ Len(d) = Len(stack) - n /\ \A j \in 1 .. Len(stack) - n : d[j] = stack[j]
  BY <1>1 DEF d
<1>5. Exchanged(d, n, 0)
  BY <1>1, <1>4 DEF Exchanged
<1>6. ASSUME NEW v PROVE Exchanged(Append(d, v), n, 1) /\ Exchanged(Append(stack, v), 0, 1)
  <2>1. Len(Append(d, v)) = Len(d) + 1 /\ \A j \in 1 .. Len(d) : Append(d, v)[j] = d[j]
    BY <1>2, <1>4
  <2>2. /\ Len(Append(stack, v)) = Len(stack) + 1
        /\ \A j \in 1 .. Len(stack) : Append(stack, v)[j] = stack[j]
    BY <1>2
  <2>3. Exchanged(Append(d, v), n, 1)
    BY <1>1, <1>4, <2>1 DEF Exchanged
  <2>4. Exchanged(Append(stack, v), 0, 1)
    BY <1>1, <2>2 DEF Exchanged
  <2> QED
    BY <2>3, <2>4
<1>7. ASSUME NEW v, NEW w PROVE Exchanged(d \o <<v, w>>, n, 2)
  <2>1. Len(d \o <<v, w>>) = Len(d) + 2 /\ \A j \in 1 .. Len(d) : (d \o <<v, w>>)[j] = d[j]
    BY <1>3, <1>4
  <2> QED
    BY <1>1, <1>4, <2>1 DEF Exchanged
<1> QED
  BY <1>5, <1>6, <1>7 DEF d

LEMMA TradedInFrame ==
  ASSUME StackInv, status = "run", Current.op \notin {"Return", "Jump", "JumpIf", "ForLoop"},
         ip' = ip + 1, UNCHANGED <<bytecode, saved, status>>, SameCalls,
         \/ Exchanged(stack', Pops(Current), Pushes(Current))
         \/ Current.op = "SetLocal" /\ Traded(stack', Pops(Current), Pushes(Current))
  PROVE  InFrame
<1> DEFINE n == Pops(Current)
           k == Pushes(Current)
<1>1. /\ n \in Nat /\ k \in Nat /\ Height \in Nat /\ Top.fp \in Nat /\ Len(stack) = Top.fp + Height
      /\ Len(stack) - n \in Nat /\ Top.fp <= Len(stack) - n
  BY TakesItsOwn
<1>2. Exits(Current, ip, Height) = {<<ip + 1, Height - n + k>>}
  BY DEF Exits
<1>3. /\ Len(stack') = Len(stack) - n + k
      /\ \A j \in 1 .. Len(stack) - n : j <= Top.fp => stack'[j] = stack[j]
  BY DEF Traded, Exchanged
<1> HIDE DEF n, k
<1>4. Len(stack') \in Nat /\ Top.fp <= Len(stack') /\ Len(stack') - Top.fp = Height - n + k
  <2> DEFINE left == Len(stack) - n
  <2>1. left = Top.fp + (Height - n)
    BY <1>1
  <2>2. left \in Nat /\ Top.fp <= left /\ Len(stack') = left + k
    BY <1>1, <1>3
  <2> HIDE DEF left
  <2>3. Len(stack') \in Nat /\ Top.fp <= Len(stack')
    BY <1>1, <2>2
  <2>4. Len(stack') = Top.fp + (Height - n + k)
    BY <1>1, <2>1, <2>2
  <2> QED
    BY <1>1, <2>3, <2>4
<1>5. \A j \in 1 .. Top.fp : stack'[j] = stack[j]
  <2>1. \A j \in 1 .. Top.fp : j \in 1 .. Len(stack) - n /\ j <= Top.fp
    BY <1>1
  <2> QED
    BY <1>3, <2>1
<1> QED
  BY <1>2, <1>4, <1>5 DEF InFrame, SameUnder, n, k

LEMMA QuietCalls ==
  ASSUME Quiet
  PROVE  UNCHANGED <<bytecode, saved, status>> /\ SameCalls
BY DEF Quiet, SameCalls, SameFrame

(* An instruction that falls through with its operands taken from the top. *)
LEMMA QuietInFrame ==
  ASSUME StackInv, NEW names, Runs(names),
         names \cap {"Return", "Jump", "JumpIf", "ForLoop"} = {},
         NEW st, Leaves(st), Quiet,
         \/ Exchanged(st, Pops(Current), Pushes(Current))
         \/ Current.op = "SetLocal" /\ Traded(st, Pops(Current), Pushes(Current))
  PROVE  InFrame
<1>1. status = "run" /\ Current.op \notin {"Return", "Jump", "JumpIf", "ForLoop"}
  BY DEF Runs
<1> QED
  BY <1>1, QuietCalls, TradedInFrame DEF Leaves

(* What most instructions leave on the stack.                              *)
Moves(st, i) ==
  \/ Pushes(i) = 0 /\ st = Drop(Pops(i))
  \/ Pushes(i) = 1 /\ \E v : st = Append(Drop(Pops(i)), v)
  \/ Pops(i) = 0 /\ Pushes(i) = 1 /\ \E v : st = Append(stack, v)
  \/ Pushes(i) = 2 /\ \E v, w : st = Drop(Pops(i)) \o <<v, w>>

LEMMA MovesInFrame ==
  ASSUME StackInv, NEW names, Runs(names),
         names \cap {"Return", "Jump", "JumpIf", "ForLoop"} = {},
         NEW st, Leaves(st), Quiet, Moves(st, Current)
  PROVE  InFrame
<1> DEFINE n == Pops(Current)
           k == Pushes(Current)
<1>1. status = "run" /\ Current.op # "Return"
  BY DEF Runs
<1>2. n \in Nat /\ n <= Len(stack)
  <2>1. n \in Nat /\ Len(stack) - n \in Nat
    BY <1>1, TakesItsOwn
  <2>2. Len(stack) \in Nat
    BY <1>1, FramesHere
  <2> HIDE DEF n
  <2> QED
    BY <2>1, <2>2
<1>3. stack \in Seq(Value)
  <2>1. stack \in Seq(ValuesOver(Nat)) /\ ValuesOver(Nat) \subseteq Value
    BY <1>1, FramesHere DEF ValuesOver
  <2> QED
    BY <2>1, SeqMore
<1> HIDE DEF n
<1>4. /\ Exchanged(Drop(n), n, 0)
      /\ \A v : Exchanged(Append(Drop(n), v), n, 1)
      /\ \A v : Exchanged(Append(stack, v), 0, 1)
      /\ \A v, w : Exchanged(Drop(n) \o <<v, w>>, n, 2)
  BY <1>2, <1>3, Trades
<1>5. Exchanged(st, n, k)
  BY <1>4 DEF Moves, n
<1> QED
  BY <1>5, QuietInFrame DEF n

LEMMA PushesInFrame ==
  ASSUME StackInv,
         \/ Constant \/ Duplicate \/ GetGlobal \/ GetLocal \/ GetBuiltin \/ GetUpvalue
  PROVE  InFrame \/ Stops
<1> DEFINE names == {"Constant", "Duplicate", "GetGlobal", "GetLocal", "GetBuiltin", "GetUpvalue"}
<1>1. \/ Runs(names) /\ Quiet /\ \E v : Leaves(Append(stack, v))
      \/ FailSynced("UndefinedVariable")
  BY DEF Constant, Duplicate, GetGlobal, GetLocal, GetBuiltin, GetUpvalue, Runs
<1>2. CASE Runs(names) /\ Quiet /\ \E v : Leaves(Append(stack, v))
  <2>1. Pops(Current) = 0 /\ Pushes(Current) = 1
    BY <1>2 DEF Runs, Pops, Pushes, Operators
  <2>2. PICK v : Leaves(Append(stack, v))
    BY <1>2
  <2>3. Moves(Append(stack, v), Current)
    BY <2>1 DEF Moves
  <2> QED
    BY <1>2, <2>2, <2>3, MovesInFrame
<1> QED
  BY <1>1, <1>2, FailuresStop

LEMMA PopsInFrame ==
  ASSUME StackInv, Pop \/ SetGlobal \/ SetUpvalue
  PROVE  InFrame
<1> DEFINE names == {"Pop", "SetGlobal", "SetUpvalue"}
           st == Drop(Pops(Current))
<1>1. Runs(names) /\ Quiet
  BY DEF Pop, SetGlobal, SetUpvalue, Runs
<1>2. Current.op = "Pop" => Pops(Current) = Current.count
  BY DEF Pops, Operators
<1>3. Current.op \in {"SetGlobal", "SetUpvalue"} => Pops(Current) = 1
  BY DEF Pops, Operators
<1>4. Leaves(st)
  BY <1>2, <1>3 DEF Pop, SetGlobal, SetUpvalue, Runs
<1>5. Pushes(Current) = 0
  BY <1>1 DEF Runs, Pushes
<1>6. Moves(st, Current)
  BY <1>5 DEF Moves
<1> QED
  BY <1>1, <1>4, <1>6, MovesInFrame

LEMMA SetLocalInFrame ==
  ASSUME StackInv, SetLocal
  PROVE  InFrame
<1> DEFINE under == Drop(1)
           slot  == Slot(Current.index)
           st    == [under EXCEPT ![slot] = Peek(0)]
<1>1. Runs({"SetLocal"}) /\ Leaves(st) /\ Quiet
  BY DEF SetLocal
<1>2. status = "run" /\ Current.op = "SetLocal"
  BY <1>1 DEF Runs
<1>3. Pops(Current) = 1 /\ Pushes(Current) = 0
  BY <1>2 DEF Pops, Pushes, Operators
<1>4. /\ Top.fp \in Nat /\ Len(stack) - 1 \in Nat /\ Len(stack) \in Nat /\ Current.index \in Nat
      /\ stack \in Seq(ValuesOver(Nat))
  BY <1>2, <1>3, FramesHere, TakesItsOwn, InstructionFields
<1>5. /\ under \in Seq(ValuesOver(Nat)) /\ Len(under) = Len(stack) - 1
      /\ \A j \in 1 .. Len(stack) - 1 : under[j] = stack[j]
  BY <1>4, StackParts
<1>6. slot > Top.fp
  BY <1>4 DEF Slot
<1> HIDE DEF under, slot
<1>7. Len(st) = Len(under) /\ \A j \in 1 .. Len(under) : j # slot => st[j] = under[j]
  <2> DEFINE S == ValuesOver(Nat) \cup {Peek(0)}
  <2>1. under \in Seq(S)
    BY <1>5, SeqMore
  <2> HIDE DEF S
  <2> QED
    BY <2>1
<1> HIDE DEF st
<1>8. Traded(st, 1, 0)
  <2>1. Len(st) = Len(stack) - 1 + 0
    BY <1>4, <1>5, <1>7
  <2>2. ASSUME NEW j \in 1 .. Len(stack) - 1, j <= Top.fp PROVE st[j] = stack[j]
    <3>1. j # slot
      BY <1>4, <1>6, <2>2
    <3> QED
      BY <1>5, <1>7, <2>2, <3>1
  <2> QED
    BY <2>1, <2>2 DEF Traded
<1> QED
  BY <1>1, <1>2, <1>3, <1>8, QuietInFrame

LEMMA OperatorsInFrame ==
  ASSUME StackInv, \/ Arithmetic \/ Negate \/ Not \/ GetIndex
  PROVE  InFrame \/ Stops
<1> DEFINE names == Operators \cup {"Negate", "Not", "GetIndex"}
<1>1. \/ Runs(names) /\ Quiet /\ \E v : Leaves(Append(Drop(Pops(Current)), v))
      \/ \E e, st : FailSynced(e) \/ FailEarly(e, st)
  <2>1. Current.op \in Operators \cup {"GetIndex"} => Pops(Current) = 2
    BY DEF Pops, Operators
  <2>2. Current.op \in {"Negate", "Not"} => Pops(Current) = 1
    BY DEF Pops, Operators
  <2>3. CASE Arithmetic
    <3>1. Runs(Operators)
      BY <2>3 DEF Arithmetic
    <3>2. Runs(names) /\ Pops(Current) = 2
      BY <2>1, <3>1 DEF Runs
    <3>3. \/ Quiet /\ \E v : Leaves(Append(Drop(2), v))
          \/ \E e, st : FailEarly(e, st)
      BY <2>3 DEF Arithmetic
    <3> QED
      BY <3>2, <3>3
  <2>4. CASE GetIndex
    <3>1. Runs({"GetIndex"})
      BY <2>4 DEF GetIndex
    <3>2. Runs(names) /\ Pops(Current) = 2
      BY <2>1, <3>1 DEF Runs
    <3>3. \/ Quiet /\ \E v : Leaves(Append(Drop(2), v))
          \/ \E e : FailSynced(e)
      BY <2>4 DEF GetIndex
    <3> QED
      BY <3>2, <3>3
  <2>5. CASE Negate \/ Not
    <3>1. Runs(names) /\ Pops(Current) = 1
      BY <2>2, <2>5 DEF Negate, Not, Runs
    <3>2. \/ Quiet /\ \E v : Leaves(Append(Drop(1), v))
          \/ \E e : FailSynced(e)
      BY <2>5 DEF Negate, Not
    <3> QED
      BY <3>1, <3>2
  <2> QED
    BY <2>3, <2>4, <2>5
<1>2. CASE Runs(names) /\ Quiet /\ \E v : Leaves(Append(Drop(Pops(Current)), v))
  <2>1. Pushes(Current) = 1
    BY <1>2 DEF Runs, Pushes, Operators
  <2>2. PICK v : Leaves(Append(Drop(Pops(Current)), v))
    BY <1>2
  <2>3. Moves(Append(Drop(Pops(Current)), v), Current)
    BY <2>1 DEF Moves
  <2>4. names \cap {"Return", "Jump", "JumpIf", "ForLoop"} = {}
    BY DEF Operators
  <2> QED
    BY <1>2, <2>2, <2>3, <2>4, MovesInFrame
<1> QED
  BY <1>1, <1>2, FailuresStop

LEMMA CompareInFrame ==
  ASSUME StackInv, CompareOp
  PROVE  InFrame
<1>1. Runs({"Compare"}) /\ Quiet /\ Current.op = "Compare"
  BY DEF CompareOp, Runs
<1>2. Pops(Current) = 2 /\ Pushes(Current) = 1 + OneIf(Current.keepRhs)
  BY <1>1 DEF Pops, Pushes
<1>3. PICK r : Leaves(IF Current.keepRhs THEN Drop(2) \o <<Peek(0), r>> ELSE Append(Drop(2), r))
  BY DEF CompareOp
<1>4. CASE Current.keepRhs
  <2>1. Pushes(Current) = 2 /\ Leaves(Drop(2) \o <<Peek(0), r>>)
    BY <1>2, <1>3, <1>4 DEF OneIf
  <2>2. Moves(Drop(2) \o <<Peek(0), r>>, Current)
    BY <1>2, <2>1 DEF Moves
  <2> QED
    BY <1>1, <2>1, <2>2, MovesInFrame
<1>5. CASE ~Current.keepRhs
  <2>1. Pushes(Current) = 1 /\ Leaves(Append(Drop(2), r))
    BY <1>2, <1>3, <1>5 DEF OneIf
  <2>2. Moves(Append(Drop(2), r), Current)
    BY <1>2, <2>1 DEF Moves
  <2> QED
    BY <1>1, <2>1, <2>2, MovesInFrame
<1> QED
  BY <1>4, <1>5

LEMMA VectorsInFrame ==
  ASSUME StackInv, MakeArray \/ VectorAppend \/ SetIndex
  PROVE  InFrame \/ Stops
<1>1. CASE MakeArray
  <2>1. Runs({"MakeArray"}) /\ Quiet /\ Current.op = "MakeArray"
        /\ Leaves(Append(Drop(Current.count), RefV(nextKey)))
    BY <1>1 DEF MakeArray, Runs
  <2>2. Pops(Current) = Current.count /\ Pushes(Current) = 1
    BY <2>1 DEF Pops, Pushes, Operators
  <2>3. Moves(Append(Drop(Current.count), RefV(nextKey)), Current)
    BY <2>2 DEF Moves
  <2> QED
    BY <2>1, <2>3, MovesInFrame
<1>2. CASE VectorAppend
  <2>1. Runs({"VectorAppend"}) /\ Current.op = "VectorAppend"
        /\ ((Quiet /\ Leaves(Drop(Current.count))) \/ FailEarly("TypeError", stack))
    BY <1>2 DEF VectorAppend, Runs
  <2>2. Pops(Current) = Current.count /\ Pushes(Current) = 0
    BY <2>1 DEF Pops, Pushes, Operators
  <2>3. Moves(Drop(Current.count), Current)
    BY <2>2 DEF Moves
  <2> QED
    BY <2>1, <2>3, MovesInFrame, FailuresStop
<1>3. CASE SetIndex
  <2>1. Runs({"SetIndex"}) /\ Current.op = "SetIndex"
        /\ ((Quiet /\ Leaves(Drop(2))) \/ \E e : FailSynced(e))
    BY <1>3 DEF SetIndex, Runs
  <2>2. Pops(Current) = 2 /\ Pushes(Current) = 0
    BY <2>1 DEF Pops, Pushes
  <2>3. Moves(Drop(2), Current)
    BY <2>2 DEF Moves
  <2> QED
    BY <2>1, <2>3, MovesInFrame, FailuresStop
<1> QED
  BY <1>1, <1>2, <1>3

LEMMA CallBuiltinInFrame ==
  ASSUME StackInv, CallBuiltin
  PROVE  InFrame \/ Stops
<1> DEFINE rest == Drop(Current.argc)
<1>1. Runs({"CallBuiltin"}) /\ Current.op = "CallBuiltin"
  BY DEF CallBuiltin, Runs
<1>2. Pops(Current) = Current.argc /\ Pushes(Current) = OneIf(Current.keep)
  BY <1>1 DEF Pops, Pushes, Operators
<1>3. \/ Quiet /\ \E v : Leaves(IF Current.keep THEN Append(rest, v) ELSE rest)
      \/ Fault("TypeError", ip)
      \/ Breaks \/ Hangs
  BY DEF CallBuiltin
<1>4. CASE Quiet /\ \E v : Leaves(IF Current.keep THEN Append(rest, v) ELSE rest)
  <2>1. PICK v : Leaves(IF Current.keep THEN Append(rest, v) ELSE rest)
    BY <1>4
  <2> DEFINE st == IF Current.keep THEN Append(rest, v) ELSE rest
  <2>2. Moves(st, Current)
    BY <1>2 DEF Moves, OneIf
  <2> QED
    BY <1>1, <1>4, <2>1, <2>2, MovesInFrame
<1>5. CASE Fault("TypeError", ip)
  BY <1>5 DEF Fault, Stops
<1> QED
  BY <1>3, <1>4, <1>5, FailuresStop

LEMMA JumpsInFrame ==
  ASSUME StackInv, Jump \/ JumpIf
  PROVE  InFrame
<1>1. /\ status = "run" /\ Quiet /\ Current.op \in {"Jump", "JumpIf"}
  BY DEF Jump, JumpIf, Runs
<1>2. /\ Pops(Current) \in Nat /\ Reads(Current) <= Height /\ Height \in Nat /\ Top.fp \in Nat
      /\ Len(stack) = Top.fp + Height
  BY <1>1, TakesItsOwn
<1>3. Len(stack) \in Nat /\ stack \in Seq(ValuesOver(Nat))
  BY <1>1, FramesHere
<1>4. UNCHANGED <<bytecode, saved, status>> /\ SameCalls
  BY <1>1, QuietCalls
<1>5. CASE Jump
  <2>1. Current.op = "Jump" /\ ip' = Current.offset /\ stack' = stack
    BY <1>5 DEF Jump, Runs
  <2>2. Exits(Current, ip, Height) = {<<Current.offset, Height>>}
    BY <2>1 DEF Exits
  <2>3. Len(stack') - Top.fp = Height
    BY <1>2, <2>1
  <2>4. SameUnder(stack')
    BY <1>2, <1>3, <2>1 DEF SameUnder
  <2> QED
    BY <1>4, <2>1, <2>2, <2>3, <2>4 DEF InFrame, Jumps
<1>6. CASE JumpIf
  <2> DEFINE jumps == IsTruthy(Peek(0), heap) = Current.expected
             keeps == IF jumps THEN Current.keepJump ELSE Current.keepStay
  <2>1. /\ Current.op = "JumpIf" /\ ip' = IF jumps THEN Current.offset ELSE ip + 1
        /\ stack' = IF keeps THEN stack ELSE Drop(1)
    BY <1>6 DEF JumpIf, Runs
  <2>2. Exits(Current, ip, Height) =
          {<<Current.offset, Height - 1 + OneIf(Current.keepJump)>>,
           <<ip + 1, Height - 1 + OneIf(Current.keepStay)>>}
    BY <2>1 DEF Exits
  <2>3. Height >= 1
    BY <1>2, <2>1 DEF Reads
  <2>4. /\ Len(Drop(1)) = Len(stack) - 1 /\ \A j \in 1 .. Len(stack) - 1 : Drop(1)[j] = stack[j]
    <3>1. 1 \in Nat /\ 1 <= Len(stack)
      BY <1>2, <2>3
    <3> QED
      BY <1>3, <3>1, StackParts
  <2>5. <<ip', Height - 1 + OneIf(keeps)>> \in Exits(Current, ip, Height)
    BY <2>1, <2>2
  <2> HIDE DEF keeps
  <2>6. CASE keeps
    <3>1. stack' = stack /\ OneIf(keeps) = 1
      BY <2>1, <2>6 DEF OneIf
    <3>2. Len(stack') - Top.fp = Height - 1 + OneIf(keeps) /\ SameUnder(stack')
      BY <1>2, <1>3, <3>1 DEF SameUnder
    <3> QED
      BY <1>4, <2>1, <2>5, <3>2 DEF InFrame, Jumps
  <2>7. CASE ~keeps
    <3>1. stack' = Drop(1) /\ OneIf(keeps) = 0
      BY <2>1, <2>7 DEF OneIf
    <3>2. Len(stack') = Len(stack) - 1
      BY <2>4, <3>1
    <3>3. Len(stack') - Top.fp = Height - 1 + OneIf(keeps) /\ Len(stack') \in Nat
          /\ Top.fp <= Len(stack')
      BY <1>2, <1>3, <2>3, <3>1, <3>2
    <3>4. \A j \in 1 .. Top.fp : j \in 1 .. Len(stack) - 1
      BY <1>2, <2>3
    <3>5. SameUnder(stack')
      BY <2>4, <3>1, <3>3, <3>4 DEF SameUnder
    <3> QED
      BY <1>4, <2>1, <2>5, <3>3, <3>5 DEF InFrame, Jumps
  <2> QED
    BY <2>6, <2>7
<1> QED
  BY <1>5, <1>6

LEMMA ForLoopInFrame ==
  ASSUME StackInv, ForLoop
  PROVE  InFrame \/ Stops
<1>1. Runs({"ForLoop"}) /\ status = "run" /\ Current.op = "ForLoop"
  BY DEF ForLoop, Runs
<1> DEFINE slot == Slot(Current.control)
<1>2. \/ /\ Quiet /\ ip' \in {Current.body, ip + 1}
         /\ \E v : stack' = [stack EXCEPT ![slot] = v]
      \/ Breaks \/ FailSynced("TypeError")
  BY DEF ForLoop
<1>3. CASE /\ Quiet /\ ip' \in {Current.body, ip + 1}
           /\ \E v : stack' = [stack EXCEPT ![slot] = v]
  <2>1. PICK v : stack' = [stack EXCEPT ![slot] = v]
    BY <1>3
  <2>2. /\ Len(stack) \in Nat /\ stack \in Seq(ValuesOver(Nat)) /\ Current.control \in Nat
        /\ Height \in Nat /\ Top.fp \in Nat /\ Len(stack) = Top.fp + Height
    BY <1>1, FramesHere, TakesItsOwn, InstructionFields
  <2>3. slot > Top.fp
    BY <2>2 DEF Slot
  <2> HIDE DEF slot
  <2>4. Len(stack') = Len(stack) /\ \A j \in 1 .. Len(stack) : j # slot => stack'[j] = stack[j]
    <3> DEFINE S == ValuesOver(Nat) \cup {v}
    <3>1. stack \in Seq(S)
      BY <2>2, SeqMore
    <3> HIDE DEF S
    <3> QED
      BY <2>1, <3>1
  <2>5. \A j \in 1 .. Top.fp : j \in 1 .. Len(stack) /\ j # slot
    BY <2>2, <2>3
  <2>6. SameUnder(stack') /\ Len(stack') - Top.fp = Height
    BY <2>2, <2>4, <2>5 DEF SameUnder
  <2>7. Exits(Current, ip, Height) = {<<Current.body, Height>>, <<ip + 1, Height>>}
    BY <1>1 DEF Exits
  <2>8. UNCHANGED <<bytecode, saved, status>> /\ SameCalls
    BY <1>3, QuietCalls
  <2> QED
    BY <1>1, <1>3, <2>6, <2>7, <2>8 DEF InFrame, Jumps
<1> QED
  BY <1>2, <1>3, FailuresStop

LEMMA ClosureInFrame ==
  ASSUME StackInv, Closure
  PROVE  InFrame
<1> DEFINE c == CaptureAll(Current.upvalues)
           g == [frames[Len(frames)] EXCEPT !.captured = c.captured]
<1>1. /\ Runs({"Closure"}) /\ frames' = [frames EXCEPT ![Len(frames)] = g] /\ ip' = ip + 1
      /\ stack' = Append(stack, RefV(nextKey)) /\ UNCHANGED <<bytecode, saved, status>>
  BY DEF Closure, Leaves
<1>2. status = "run" /\ Current.op = "Closure"
  BY <1>1 DEF Runs
<1>3. /\ frames \in Seq(FrameOver(Chunks, Nat, DOMAIN upv)) /\ Len(frames) \in Nat \ {0}
      /\ Top = frames[Len(frames)] /\ Top \in FrameOver(Chunks, Nat, DOMAIN upv)
      /\ stack \in Seq(ValuesOver(Nat)) /\ Len(stack) \in Nat
  BY <1>2, FramesHere
<1>4. SameFrame(g, Top)
  <2>1. Top = [chunk |-> Top.chunk, ip |-> Top.ip, fp |-> Top.fp, closure |-> Top.closure,
               ups |-> Top.ups, captured |-> Top.captured, discard |-> Top.discard]
    BY <1>3, FrameFields
  <2> QED
    BY <1>3, <2>1 DEF SameFrame
<1> HIDE DEF g
<1>5. /\ Len(frames') = Len(frames) /\ frames'[Len(frames)] = g
      /\ \A j \in 1 .. Len(frames) : j # Len(frames) => frames'[j] = frames[j]
  BY <1>1, <1>3
<1>6. SameCalls
  BY <1>2, <1>3, <1>4, <1>5 DEF SameCalls, SameFrame
<1>7. Pops(Current) = 0 /\ Pushes(Current) = 1
  BY <1>2 DEF Pops, Pushes, Operators
<1>8. Exchanged(stack', 0, 1)
  <2>1. stack \in Seq(Value)
    BY <1>3, SeqMore DEF ValuesOver
  <2>2. 0 \in Nat /\ 0 <= Len(stack)
    BY <1>3
  <2> QED
    BY <1>1, <2>1, <2>2, Trades
<1> QED
  BY <1>1, <1>2, <1>6, <1>7, <1>8, TradedInFrame
-----------------------------------------------------------------------------
(* Calls.                                                                  *)
LEMMA SyncedCalls ==
  ASSUME StackInv, status = "run"
  PROVE  /\ Len(Synced) = Len(frames) /\ Synced \in Seq(FrameOver(Chunks, Nat, DOMAIN upv))
         /\ \A n \in 1 .. Len(frames) :
              /\ SameFrame(Synced[n], frames[n]) /\ Synced[n].captured = frames[n].captured
              /\ n # Len(frames) => Synced[n].ip = frames[n].ip
         /\ Synced[Len(frames)].ip = ip + 1
<1> DEFINE N == Len(frames)
           t == frames[N]
           g == [t EXCEPT !.ip = ip + 1]
<1>1. /\ frames \in Seq(FrameOver(Chunks, Nat, DOMAIN upv)) /\ frames # <<>> /\ ip \in Nat
      /\ N \in Nat \ {0} /\ t \in FrameOver(Chunks, Nat, DOMAIN upv)
  BY FramesHere
<1>2. /\ Synced \in Seq(FrameOver(Chunks, Nat, DOMAIN upv)) /\ Len(Synced) = N
      /\ \A j \in 1 .. N - 1 : Synced[j] = frames[j]
      /\ Synced[N] = g /\ Synced[N].ip = ip + 1
  BY <1>1, SyncedOver
<1>3. t = [chunk |-> t.chunk, ip |-> t.ip, fp |-> t.fp, closure |-> t.closure,
           ups |-> t.ups, captured |-> t.captured, discard |-> t.discard]
  BY <1>1, FrameFields
<1> HIDE DEF t
<1>4. SameFrame(g, t) /\ g.captured = t.captured
  BY <1>3 DEF SameFrame
<1> HIDE DEF g
<1>5. ASSUME NEW n \in 1 .. N
      PROVE  /\ SameFrame(Synced[n], frames[n]) /\ Synced[n].captured = frames[n].captured
             /\ n # N => Synced[n].ip = frames[n].ip
  <2>1. CASE n = N
    BY <1>2, <1>4, <2>1 DEF t
  <2>2. CASE n # N
    <3>1. n \in 1 .. N - 1
      BY <1>1, <2>2
    <3> QED
      BY <1>2, <3>1 DEF SameFrame
  <2> QED
    BY <2>1, <2>2
<1> QED
  BY <1>2, <1>5

LEMMA HandsInFrame ==
  ASSUME StackInv, CallValueBuiltin \/ Curry
  PROVE  InFrame \/ Stops
<1> DEFINE n == Current.argc + 1
<1>1. /\ Runs({"Call"}) /\ status = "run" /\ Current.op = "Call"
      /\ \/ \E m, v : ReturnsInHand(m, v)
         \/ Fault("TypeError", ip)
         \/ Breaks \/ Hangs
  BY DEF CallValueBuiltin, Curry, Runs
<1>2. CASE \E m, v : ReturnsInHand(m, v)
  <2>1. PICK m, v : ReturnsInHand(m, v)
    BY <1>2
  <2>2. /\ ip' = ip + 1 /\ frames' = Synced /\ UNCHANGED <<bytecode, saved, status>>
        /\ stack' = IF Current.keep THEN Append(Drop(n), v) ELSE Drop(n)
    BY <2>1 DEF ReturnsInHand, Leaves
  <2>3. SameCalls
    BY <1>1, <2>2, SyncedCalls DEF SameCalls
  <2>4. Pops(Current) = n /\ Pushes(Current) = OneIf(Current.keep)
    BY <1>1 DEF Pops, Pushes, Operators
  <2>5. Exchanged(stack', Pops(Current), Pushes(Current))
    <3>1. n \in Nat /\ Len(stack) - n \in Nat
      BY <1>1, <2>4, TakesItsOwn
    <3>2. stack \in Seq(ValuesOver(Nat)) /\ Len(stack) \in Nat
      BY <1>1, FramesHere
    <3>3. stack \in Seq(Value)
      BY <3>2, SeqMore DEF ValuesOver
    <3> HIDE DEF n
    <3>4. n <= Len(stack)
      BY <3>1, <3>2
    <3>5. Exchanged(Drop(n), n, 0) /\ Exchanged(Append(Drop(n), v), n, 1)
      BY <3>1, <3>3, <3>4, Trades
    <3>6. CASE Current.keep
      BY <2>2, <2>4, <3>5, <3>6 DEF OneIf
    <3>7. CASE ~Current.keep
      BY <2>2, <2>4, <3>5, <3>7 DEF OneIf
    <3> QED
      BY <3>6, <3>7
  <2> QED
    BY <1>1, <2>2, <2>3, <2>5, TradedInFrame
<1>3. CASE Fault("TypeError", ip)
  BY <1>3 DEF Fault, Stops
<1> QED
  BY <1>1, <1>2, <1>3, FailuresStop

(* The function called begins with its arguments on the stack.             *)
LEMMA EntryReckoned ==
  ASSUME StackInv, status = "run", NEW f \in FunctionOver(Chunks, Nat, DOMAIN upv)
  PROVE  f.chunk # 0 /\ <<0, f.arity>> \in HeightsOf(f.chunk)
<1> DEFINE hs == Heights(bytecode)
           c  == f.chunk + 1
<1>1. PICK g \in FunctionsIn(bytecode) : f.chunk = g.chunk /\ f.arity = g.arity
  BY DEF FunctionOver, Signed
<1>2. /\ \A h \in FunctionsIn(bytecode) : h.chunk # 0
      /\ \A d \in DOMAIN bytecode.chunks : Entries(bytecode, d) \subseteq hs[d]
  BY DEF StackInv, Verified, StacksMatch
<1>3. c \in DOMAIN bytecode.chunks
  <2>1. f.chunk \in 0 .. Chunks - 1
    BY DEF FunctionOver
  <2>2. Chunks \in Nat /\ DOMAIN bytecode.chunks = 1 .. Chunks
    BY DEF StackInv, VMInv, Basics, WellFormed, Chunks
  <2> QED
    BY <2>1, <2>2
<1>4. <<0, g.arity>> \in Entries(bytecode, c)
  <2>1. g \in {h \in FunctionsIn(bytecode) : h.chunk + 1 = c}
    BY <1>1
  <2> QED
    BY <2>1 DEF Entries
<1>5. <<0, g.arity>> \in hs[c]
  BY <1>2, <1>3, <1>4
<1> QED
  BY <1>1, <1>2, <1>5 DEF HeightsOf

Base == Len(stack) - Current.argc
Under == SubSeq(stack, 1, Base)
Entered ==
  [chunk |-> Callee.chunk, ip |-> 0, fp |-> Base, closure |-> stack[Base],
   ups |-> Callee.ups, captured |-> <<>>, discard |-> ~Current.keep]

LEMMA Joined ==
  ASSUME NEW S, NEW s \in Seq(S), NEW t \in Seq(S)
  PROVE  /\ s \o t \in Seq(S) /\ Len(s \o t) = Len(s) + Len(t)
         /\ \A j \in 1 .. Len(s) : (s \o t)[j] = s[j]
OBVIOUS

LEMMA CalledStack ==
  ASSUME StackInv, CallFunction
  PROVE  /\ status = "run" /\ Current.op = "Call" /\ Base \in Nat /\ Top.fp \in Nat /\ Top.fp < Base
         /\ Callee \in FunctionOver(Chunks, Nat, DOMAIN upv) /\ Callee.arity \in Nat
         /\ Len(stack') = Base + Callee.arity /\ \A j \in 1 .. Base : stack'[j] = stack[j]
         /\ Len(Under) = Base /\ \A j \in 1 .. Base : Under[j] = stack[j]
         /\ frames' = Append(Synced, Entered) /\ Entered \in FrameOver(Chunks, Nat, DOMAIN upv)
         /\ saved' = Append(saved, Under) /\ Under \in Seq(Value)
         /\ ip' = 0 /\ UNCHANGED <<bytecode, status>>
<1> DEFINE frame == [chunk |-> Callee.chunk, ip |-> 0, fp |-> Base - 0, closure |-> stack[Base],
                     ups |-> Callee.ups, captured |-> <<>>, discard |-> ~Current.keep]
<1>1. /\ Runs({"Call"}) /\ Callee.t = "fun" /\ TotalArgs = Callee.arity
      /\ frames' = Append(Synced, frame) /\ ip' = 0
      /\ stack' = Under \o AllArgs
      /\ saved' = Append(saved, Under) /\ UNCHANGED <<bytecode, status>>
  BY DEF CallFunction, EnterFrame, Base, Under
<1>2. status = "run" /\ Current.op = "Call"
  BY <1>1 DEF Runs
<1>3. Sound(Nat, DOMAIN upv)
  BY <1>2, FramesHere
<1>4. /\ Current.argc \in Nat /\ Len(stack) \in Nat /\ stack \in Seq(ValuesOver(Nat))
      /\ Args \in Seq(ValuesOver(Nat)) /\ Len(Args) = Current.argc
      /\ Callee \in FunctionOver(Chunks, Nat, DOMAIN upv)
      /\ Callee.curried \in Seq(ValuesOver(Nat))
  BY <1>1, <1>3, CallParts
<1>5. Callee.arity \in Nat
  BY <1>4 DEF FunctionOver
<1>6. /\ Pops(Current) = Current.argc + 1
      /\ Top.fp \in Nat /\ Top.fp <= Len(stack) - Pops(Current)
  BY <1>2, TakesItsOwn DEF Pops, Operators
<1>7. Base \in Nat /\ Top.fp < Base
  BY <1>4, <1>6 DEF Base
<1>8. /\ Under \in Seq(ValuesOver(Nat)) /\ Len(Under) = Base
      /\ \A j \in 1 .. Base : Under[j] = stack[j]
  <2>1. Current.argc <= Len(stack)
    BY <1>4, <1>7 DEF Base
  <2> QED
    BY <1>4, <2>1, StackParts DEF Under, Base, Drop
<1>9. AllArgs \in Seq(ValuesOver(Nat)) /\ Len(AllArgs) = Callee.arity
  <2> DEFINE S == ValuesOver(Nat)
             curried == Callee.curried
             args == Args
  <2>1. /\ curried \in Seq(S) /\ args \in Seq(S) /\ Len(args) = Current.argc
        /\ AllArgs = curried \o args /\ Len(curried) + Current.argc = Callee.arity
    BY <1>1, <1>4 DEF AllArgs, TotalArgs
  <2> HIDE DEF S, curried, args
  <2>2. AllArgs \in Seq(S) /\ Len(AllArgs) = Callee.arity
    BY <2>1, Joined
  <2> QED
    BY <2>2 DEF S
<1> DEFINE under == Under
           args == AllArgs
<1>10. /\ under \in Seq(ValuesOver(Nat)) /\ Len(under) = Base
       /\ \A j \in 1 .. Base : under[j] = stack[j]
       /\ args \in Seq(ValuesOver(Nat)) /\ Len(args) = Callee.arity /\ stack' = under \o args
  BY <1>1, <1>8, <1>9
<1> HIDE DEF under, args
<1>11. Len(stack') = Len(under) + Len(args) /\ \A j \in 1 .. Len(under) : stack'[j] = under[j]
  BY <1>10, Joined
<1>12. Len(stack') = Base + Callee.arity /\ \A j \in 1 .. Base : stack'[j] = stack[j]
  BY <1>10, <1>11
<1>13. frame = Entered
  <2>1. Base - 0 = Base
    BY <1>7
  <2> QED
    BY <2>1 DEF Entered
<1>14. frame \in FrameOver(Chunks, Nat, DOMAIN upv)
  BY <1>1, <1>3, EnteredFrame DEF Base
<1>15. Under \in Seq(Value)
  BY <1>8, SeqMore DEF ValuesOver
<1> HIDE DEF frame
<1> QED
  BY <1>1, <1>2, <1>4, <1>5, <1>6, <1>7, <1>8, <1>12, <1>13, <1>14, <1>15

LEMMA Appended ==
  ASSUME NEW S, NEW s \in Seq(S), NEW v \in S
  PROVE  /\ Len(Append(s, v)) = Len(s) + 1 /\ Append(s, v)[Len(s) + 1] = v
         /\ \A j \in 1 .. Len(s) : Append(s, v)[j] = s[j]
OBVIOUS

LEMMA CallFits ==
  ASSUME StackInv, CallFunction
  PROVE  Fits'
<1> DEFINE N == Len(frames)
           b == Base
           f == Entered
<1>1. /\ status = "run" /\ Current.op = "Call" /\ b \in Nat /\ Top.fp \in Nat /\ Top.fp < b
      /\ Callee \in FunctionOver(Chunks, Nat, DOMAIN upv) /\ Callee.arity \in Nat
      /\ Len(stack') = b + Callee.arity /\ \A j \in 1 .. b : stack'[j] = stack[j]
      /\ Len(Under) = b /\ \A j \in 1 .. b : Under[j] = stack[j]
      /\ frames' = Append(Synced, f) /\ f \in FrameOver(Chunks, Nat, DOMAIN upv)
      /\ saved' = Append(saved, Under) /\ Under \in Seq(Value)
      /\ ip' = 0 /\ bytecode' = bytecode
  BY CalledStack
<1>2. /\ Fits /\ N \in Nat \ {0} /\ Top = frames[N] /\ saved \in Seq(Seq(Value)) /\ Len(saved) = N
      /\ \A n \in 1 .. N : frames[n].fp \in Nat
  BY <1>1, FramesHere
<1>3. /\ Len(Synced) = N /\ Synced \in Seq(FrameOver(Chunks, Nat, DOMAIN upv))
      /\ \A n \in 1 .. N :
           /\ Synced[n].chunk = frames[n].chunk /\ Synced[n].fp = frames[n].fp
           /\ Synced[n].discard = frames[n].discard
           /\ n # N => Synced[n].ip = frames[n].ip
      /\ Synced[N].ip = ip + 1
  BY <1>1, SyncedCalls DEF SameFrame
<1>4. /\ FirstIsMain(frames) /\ Rising(frames) /\ Waiting(frames)
      /\ Preserved(saved, frames, stack)
  BY <1>2 DEF Fits
<1>5. Callee.chunk # 0 /\ <<0, Callee.arity>> \in HeightsOf(Callee.chunk)
  BY <1>1, EntryReckoned
<1>6. f.fp = b /\ f.chunk = Callee.chunk /\ f.discard = ~Current.keep
  BY DEF Entered
<1> HIDE DEF N, b, f
<1>7. /\ Len(frames') = N + 1 /\ frames'[N + 1] = f /\ \A n \in 1 .. N : frames'[n] = Synced[n]
  <2> DEFINE S == FrameOver(Chunks, Nat, DOMAIN upv)
  <2>1. Synced \in Seq(S) /\ f \in S
    BY <1>1, <1>3
  <2> HIDE DEF S
  <2>2. /\ Len(frames') = Len(Synced) + 1 /\ frames'[Len(Synced) + 1] = f
        /\ \A n \in 1 .. Len(Synced) : frames'[n] = Synced[n]
    BY <1>1, <2>1, Appended
  <2> QED
    BY <1>3, <2>2
<1>8. /\ Len(saved') = N + 1 /\ saved'[N + 1] = Under /\ \A n \in 1 .. N : saved'[n] = saved[n]
  <2>1. /\ Len(saved') = Len(saved) + 1 /\ saved'[Len(saved) + 1] = Under
        /\ \A n \in 1 .. Len(saved) : saved'[n] = saved[n]
    <3> DEFINE S == Seq(Value)
    <3>1. saved \in Seq(S) /\ Under \in S
      BY <1>1, <1>2
    <3> HIDE DEF S
    <3> QED
      BY <1>1, <3>1, Appended
  <2> QED
    BY <1>2, <2>1
<1>9. \A n \in 1 .. N + 1 : n = N + 1 \/ n \in 1 .. N
  BY <1>2
<1>10. \A n \in 1 .. N :
         /\ frames'[n].chunk = frames[n].chunk /\ frames'[n].fp = frames[n].fp
         /\ frames'[n].discard = frames[n].discard
         /\ n # N => frames'[n].ip = frames[n].ip
  BY <1>3, <1>7
<1>11. \A n \in 1 .. N : frames[n].fp <= Top.fp
  <2>1. \A m, n \in 1 .. N : m < n => frames[m].fp < frames[n].fp
    BY <1>4 DEF Rising, N
  <2>2. ASSUME NEW n \in 1 .. N PROVE frames[n].fp <= Top.fp
    <3>1. CASE n = N
      BY <1>1, <1>2, <3>1
    <3>2. CASE n # N
      <4>1. n < N /\ N \in 1 .. N
        BY <1>2, <3>2
      <4>2. frames[n].fp < Top.fp
        BY <1>2, <2>1, <4>1
      <4> QED
        BY <1>1, <1>2, <4>2
    <3> QED
      BY <3>1, <3>2
  <2> QED
    BY <2>2
<1>12. FirstIsMain(frames')
  <2>1. 1 \in 1 .. N /\ N + 1 # 1
    BY <1>2
  <2>2. frames[1].fp = 0 /\ \A n \in 1 .. N : frames[n].chunk = 0 <=> n = 1
    BY <1>4 DEF FirstIsMain, N
  <2>3. frames'[1].fp = 0
    BY <1>10, <2>1, <2>2
  <2>4. ASSUME NEW n \in 1 .. N + 1 PROVE frames'[n].chunk = 0 <=> n = 1
    <3>1. CASE n = N + 1
      BY <1>5, <1>6, <1>7, <2>1, <3>1
    <3>2. CASE n \in 1 .. N
      BY <1>10, <2>2, <3>2
    <3> QED
      BY <1>9, <3>1, <3>2
  <2> QED
    BY <1>7, <2>3, <2>4 DEF FirstIsMain
<1>13. Rising(frames')
  <2> SUFFICES ASSUME NEW m \in 1 .. N + 1, NEW n \in 1 .. N + 1, m < n
               PROVE  frames'[m].fp < frames'[n].fp
    BY <1>7 DEF Rising
  <2>1. CASE n = N + 1
    <3>1. m \in 1 .. N
      BY <1>2, <2>1
    <3>2. frames'[m].fp <= Top.fp /\ frames'[m].fp \in Nat
      BY <1>2, <1>10, <1>11, <3>1
    <3>3. frames'[n].fp = b
      BY <1>6, <1>7, <2>1
    <3>4. b \in Nat /\ Top.fp \in Nat /\ Top.fp < b
      BY <1>1
    <3> QED
      BY <3>2, <3>3, <3>4
  <2>2. CASE n \in 1 .. N
    <3>1. m \in 1 .. N
      BY <1>2, <2>2
    <3> QED
      BY <1>4, <1>10, <2>2, <3>1 DEF Rising, N
  <2> QED
    BY <1>9, <2>1, <2>2
<1>14. Waiting(frames)'
  <2>1. ASSUME NEW n \in 1 .. N
        PROVE  RunsAt(frames[n], frames[n].ip, LeftBy(frames[n + 1]))'
    <3>1. CASE n = N
      <4>1. frames'[n + 1].fp = b /\ frames'[n + 1].discard = ~Current.keep
        BY <1>6, <1>7, <3>1
      <4>2. frames'[n].chunk = Top.chunk /\ frames'[n].fp = Top.fp /\ frames'[n].ip = ip + 1
        BY <1>2, <1>3, <1>7, <3>1
      <4>3. <<ip + 1, Height - (Current.argc + 1) + OneIf(Current.keep)>> \in HeightsOf(Top.chunk)
        <5>1. Exits(Current, ip, Height) =
                {<<ip + 1, Height - (Current.argc + 1) + OneIf(Current.keep)>>}
          BY <1>1 DEF Exits, Pops, Pushes, Operators
        <5> QED
          BY <1>1, <5>1, ReckonedHere
      <4>4. /\ Height \in Nat /\ Len(stack) = Top.fp + Height /\ Current.argc \in Nat
            /\ b = Len(stack) - Current.argc
        BY <1>1, FramesHere, ReckonedHere, InstructionFields DEF b, Base
      <4>5. OneIf(Current.keep) \in {0, 1} /\ OneIf(~ ~Current.keep) = OneIf(Current.keep)
        BY DEF OneIf
      <4>6. LeftBy(frames'[n + 1]) = b - 1 + OneIf(Current.keep)
        BY <4>1, <4>5 DEF LeftBy
      <4>7. /\ Top.fp <= b - 1 + OneIf(Current.keep)
            /\ (b - 1 + OneIf(Current.keep)) - Top.fp
                 = Height - (Current.argc + 1) + OneIf(Current.keep)
        <5> DEFINE k == OneIf(Current.keep)
        <5>1. /\ k \in {0, 1} /\ b \in Nat /\ Top.fp \in Nat /\ Top.fp < b
              /\ Height \in Nat /\ Len(stack) = Top.fp + Height /\ Current.argc \in Nat
              /\ b = Len(stack) - Current.argc
          BY <1>1, <4>4, <4>5
        <5> HIDE DEF k
        <5>2. Top.fp <= b - 1 + k
          BY <5>1
        <5>3. b = Top.fp + Height - Current.argc /\ k \in Nat
          BY <5>1
        <5>4. /\ k \in Nat /\ b \in Nat /\ Top.fp \in Nat /\ Height \in Nat /\ Current.argc \in Nat
              /\ b = Top.fp + Height - Current.argc
          BY <5>1, <5>3
        <5>5. b - 1 + k = Top.fp + (Height - (Current.argc + 1) + k)
          BY <5>4
        <5>6. Height - (Current.argc + 1) + k \in Int /\ b - 1 + k \in Int
          BY <5>4
        <5>7. (b - 1 + k) - Top.fp = Height - (Current.argc + 1) + k
          BY <5>4, <5>5, <5>6
        <5> QED
          BY <5>2, <5>7 DEF k
      <4>8. /\ Top.fp <= LeftBy(frames'[n + 1])
            /\ <<ip + 1, LeftBy(frames'[n + 1]) - Top.fp>> \in HeightsOf(Top.chunk)
        BY <4>3, <4>6, <4>7
      <4> QED
        BY <1>1, <4>2, <4>8 DEF RunsAt, LeftBy, HeightsOf
    <3>2. CASE n # N
      <4>1. n \in 1 .. N - 1 /\ n + 1 \in 1 .. N
        BY <1>2, <3>2
      <4>2. RunsAt(frames[n], frames[n].ip, LeftBy(frames[n + 1]))
        BY <1>4, <4>1 DEF Waiting, N
      <4>3. /\ frames'[n].chunk = frames[n].chunk /\ frames'[n].fp = frames[n].fp
            /\ frames'[n].ip = frames[n].ip
            /\ frames'[n + 1].fp = frames[n + 1].fp
            /\ frames'[n + 1].discard = frames[n + 1].discard
        BY <1>10, <3>2, <4>1
      <4> QED
        BY <1>1, <4>2, <4>3 DEF RunsAt, LeftBy, HeightsOf
    <3> QED
      BY <3>1, <3>2
  <2>2. Len(frames') - 1 = N
    BY <1>2, <1>7
  <2> QED
    BY <2>1, <2>2 DEF Waiting
<1>15. Preserved(saved', frames', stack')
  <2> SUFFICES ASSUME NEW n \in 1 .. N + 1
               PROVE  /\ Len(saved'[n]) = frames'[n].fp /\ frames'[n].fp <= Len(stack')
                      /\ \A j \in 1 .. frames'[n].fp : saved'[n][j] = stack'[j]
    BY <1>7 DEF Preserved
  <2>1. b <= Len(stack')
    BY <1>1
  <2>2. CASE n = N + 1
    <3>1. saved'[n] = Under /\ frames'[n].fp = b
      BY <1>6, <1>7, <1>8, <2>2
    <3> QED
      BY <1>1, <2>1, <3>1
  <2>3. CASE n \in 1 .. N
    <3>1. saved'[n] = saved[n] /\ frames'[n].fp = frames[n].fp /\ frames[n].fp \in Nat
      BY <1>2, <1>8, <1>10, <2>3
    <3>2. /\ Len(saved[n]) = frames[n].fp
          /\ \A j \in 1 .. frames[n].fp : saved[n][j] = stack[j]
      BY <1>4, <2>3 DEF Preserved, N
    <3>3. frames[n].fp < b
      BY <1>1, <1>11, <2>3, <3>1
    <3>4. \A j \in 1 .. frames[n].fp : j \in 1 .. b
      BY <1>1, <3>1, <3>3
    <3>5. frames[n].fp <= Len(stack')
      BY <1>1, <3>1, <3>3
    <3> QED
      BY <1>1, <3>1, <3>2, <3>4, <3>5
  <2> QED
    BY <1>9, <2>2, <2>3
<1>16. RunsAt(Top, ip, Len(stack))'
  <2>1. Top' = f
    BY <1>7 DEF Top, Last
  <2>2. Len(stack') - b = Callee.arity /\ b <= Len(stack')
    BY <1>1
  <2> QED
    BY <1>1, <1>5, <1>6, <2>1, <2>2 DEF RunsAt, HeightsOf
<1> QED
  BY <1>12, <1>13, <1>14, <1>15, <1>16 DEF Fits
-----------------------------------------------------------------------------
(* Returns.                                                                *)
LEMMA ReturnStack ==
  ASSUME StackInv, Return, Len(frames) > 1
  PROVE  LET N == Len(frames)
         IN  /\ Len(frames') = N - 1 /\ \A n \in 1 .. N - 1 : frames'[n] = frames[n]
             /\ Len(saved') = N - 1 /\ \A n \in 1 .. N - 1 : saved'[n] = saved[n]
             /\ Top.fp \in Nat /\ Top.fp > 0 /\ Len(stack') = LeftBy(Top)
             /\ \A j \in 1 .. Top.fp - 1 : stack'[j] = stack[j]
             /\ ip' = frames[N - 1].ip /\ UNCHANGED <<bytecode, status>>
<1> DEFINE N == Len(frames)
           rest == Front(frames)
           low == UpTo(stack, Top.fp - 1)
           result == IF Top.discard THEN <<>> ELSE <<Peek(0)>>
<1>1. /\ status = "run" /\ Current.op = "Return" /\ frames' = rest /\ saved' = Front(saved)
      /\ bytecode' = bytecode
      /\ rest # <<>> =>
           stack' = low \o result /\ ip' = Last(rest).ip /\ status' = status
  BY DEF Return, Runs
<1>2. /\ frames \in Seq(FrameOver(Chunks, Nat, DOMAIN upv)) /\ frames # <<>> /\ N \in Nat
      /\ Top = frames[N] /\ saved \in Seq(Seq(Value)) /\ Len(saved) = N
      /\ stack \in Seq(ValuesOver(Nat)) /\ Len(stack) \in Nat /\ Fits
      /\ Top \in FrameOver(Chunks, Nat, DOMAIN upv) /\ \A n \in 1 .. N : frames[n].fp \in Nat
  BY <1>1, FramesHere
<1>3. Len(rest) = N - 1 /\ \A n \in 1 .. N - 1 : rest[n] = frames[n]
  BY <1>2, FrontOver
<1>4. Len(Front(saved)) = N - 1 /\ \A n \in 1 .. N - 1 : Front(saved)[n] = saved[n]
  <2> DEFINE S == Seq(Value)
  <2>1. saved \in Seq(S) /\ saved # <<>>
    BY <1>2
  <2> HIDE DEF S
  <2> QED
    BY <1>2, <2>1, FrontOver
<1>5. Top.fp \in Nat /\ Top.discard \in BOOLEAN
  BY <1>2, FrameFields
<1>6. Top.fp > 0
  <2>1. FirstIsMain(frames) /\ Rising(frames) /\ 1 \in 1 .. N /\ N \in 1 .. N /\ 1 < N
    BY <1>2 DEF Fits
  <2>2. frames[1].fp = 0 /\ frames[1].fp < frames[N].fp
    BY <2>1 DEF FirstIsMain, Rising
  <2> QED
    BY <1>2, <2>2
<1>7. Height \in Nat /\ Len(stack) = Top.fp + Height
  BY <1>1, ReckonedHere
<1>8. low = SubSeq(stack, 1, Top.fp - 1)
  <2>1. Top.fp - 1 < Len(stack)
    BY <1>5, <1>7
  <2> QED
    BY <2>1 DEF UpTo
<1>9. rest # <<>> /\ Last(rest) = frames[N - 1]
  <2>1. Len(rest) = N - 1 /\ N - 1 \in 1 .. N - 1
    BY <1>2, <1>3
  <2>2. rest # <<>>
    BY <1>2, <2>1
  <2> QED
    BY <1>3, <2>1, <2>2 DEF Last
<1> HIDE DEF rest, N
<1>10. stack' = low \o result /\ ip' = frames[N - 1].ip /\ status' = status
  BY <1>1, <1>9
<1> HIDE DEF low
<1>11. /\ low \in Seq(ValuesOver(Nat)) /\ Len(low) = Top.fp - 1
       /\ \A j \in 1 .. Top.fp - 1 : low[j] = stack[j]
  <2>1. Len(stack) - (Height + 1) = Top.fp - 1 /\ Height + 1 \in Nat /\ Height + 1 <= Len(stack)
    BY <1>2, <1>5, <1>6, <1>7
  <2>2. low = Drop(Height + 1)
    BY <1>8, <2>1 DEF Drop
  <2>3. /\ Drop(Height + 1) \in Seq(ValuesOver(Nat))
        /\ Len(Drop(Height + 1)) = Len(stack) - (Height + 1)
        /\ \A j \in 1 .. Len(stack) - (Height + 1) : Drop(Height + 1)[j] = stack[j]
    BY <1>2, <2>1, StackParts
  <2> QED
    BY <2>1, <2>2, <2>3
<1>12. Len(result) = OneIf(~Top.discard) /\ result \in Seq(ValuesOver(Nat) \cup {Peek(0)})
  <2>1. CASE Top.discard
    <3>1. result = <<>> /\ OneIf(~Top.discard) = 0
      BY <2>1 DEF OneIf
    <3> HIDE DEF result
    <3> QED
      BY <3>1
  <2>2. CASE ~Top.discard
    <3>1. result = <<Peek(0)>> /\ OneIf(~Top.discard) = 1
      BY <2>2 DEF OneIf
    <3> HIDE DEF result
    <3> QED
      BY <3>1
  <2> QED
    BY <2>1, <2>2
<1> HIDE DEF result
<1>13. /\ Len(stack') = (Top.fp - 1) + OneIf(~Top.discard)
       /\ \A j \in 1 .. Top.fp - 1 : stack'[j] = stack[j]
  <2> DEFINE S == ValuesOver(Nat) \cup {Peek(0)}
  <2>1. low \in Seq(S) /\ result \in Seq(S)
    BY <1>11, <1>12, SeqMore
  <2> HIDE DEF S
  <2>2. /\ Len(stack') = Len(low) + Len(result)
        /\ \A j \in 1 .. Len(low) : stack'[j] = low[j]
    BY <1>10, <2>1, Joined
  <2> QED
    BY <1>11, <1>12, <2>2
<1>14. Len(stack') = LeftBy(Top)
  BY <1>13 DEF LeftBy
<1> QED
  BY <1>1, <1>3, <1>4, <1>5, <1>6, <1>10, <1>13, <1>14 DEF N, rest

LEMMA ReturnFits ==
  ASSUME StackInv, Return, Len(frames) > 1
  PROVE  Fits'
<1> DEFINE N == Len(frames)
           M == N - 1
<1>1. /\ Len(frames') = M /\ \A n \in 1 .. M : frames'[n] = frames[n]
      /\ Len(saved') = M /\ \A n \in 1 .. M : saved'[n] = saved[n]
      /\ Top.fp \in Nat /\ Top.fp > 0 /\ Len(stack') = LeftBy(Top)
      /\ \A j \in 1 .. Top.fp - 1 : stack'[j] = stack[j]
      /\ ip' = frames[M].ip /\ bytecode' = bytecode
  BY ReturnStack
<1>2. status = "run"
  BY DEF Return, Runs
<1>3. /\ Fits /\ N \in Nat /\ N > 1 /\ Top = frames[N] /\ \A n \in 1 .. N : frames[n].fp \in Nat
  BY <1>2, FramesHere
<1>4. /\ FirstIsMain(frames) /\ Rising(frames) /\ Waiting(frames)
      /\ Preserved(saved, frames, stack)
  BY <1>3 DEF Fits
<1> HIDE DEF N
<1>5. M \in Nat /\ M >= 1 /\ M + 1 = N /\ 1 \in 1 .. M /\ M \in 1 .. M /\ M \in 1 .. N - 1
      /\ \A n \in 1 .. M : n \in 1 .. N
  BY <1>3
<1>6. Len(frames) = N
  BY DEF N
<1> HIDE DEF M
<1>7. FirstIsMain(frames')
  BY <1>1, <1>4, <1>5, <1>6 DEF FirstIsMain
<1>8. Rising(frames')
  BY <1>1, <1>4, <1>5, <1>6 DEF Rising
<1>9. Waiting(frames)'
  <2>1. ASSUME NEW n \in 1 .. M - 1
        PROVE  RunsAt(frames[n], frames[n].ip, LeftBy(frames[n + 1]))'
    <3>1. n \in 1 .. N - 1 /\ n \in 1 .. M /\ n + 1 \in 1 .. M
      BY <1>3, <1>5
    <3>2. RunsAt(frames[n], frames[n].ip, LeftBy(frames[n + 1]))
      BY <1>4, <1>6, <3>1 DEF Waiting
    <3>3. frames'[n] = frames[n] /\ frames'[n + 1] = frames[n + 1]
      BY <1>1, <3>1
    <3> QED
      BY <1>1, <3>2, <3>3 DEF RunsAt, LeftBy, HeightsOf
  <2> QED
    BY <1>1, <2>1 DEF Waiting
<1>10. RunsAt(frames[M], frames[M].ip, LeftBy(Top))
  BY <1>3, <1>4, <1>5, <1>6 DEF Waiting
<1>11. RunsAt(Top, ip, Len(stack))'
  <2>1. Top' = frames[M]
    BY <1>1, <1>5 DEF Top, Last
  <2> QED
    BY <1>1, <1>10, <2>1 DEF RunsAt, HeightsOf
<1>12. Preserved(saved', frames', stack')
  <2> SUFFICES ASSUME NEW n \in 1 .. M
               PROVE  /\ Len(saved'[n]) = frames'[n].fp /\ frames'[n].fp <= Len(stack')
                      /\ \A j \in 1 .. frames'[n].fp : saved'[n][j] = stack'[j]
    BY <1>1 DEF Preserved
  <2>1. saved'[n] = saved[n] /\ frames'[n] = frames[n] /\ n \in 1 .. N
    BY <1>1, <1>5
  <2>2. Len(saved[n]) = frames[n].fp /\ \A j \in 1 .. frames[n].fp : saved[n][j] = stack[j]
    BY <1>4, <1>6, <2>1 DEF Preserved
  <2>3. n < N /\ N \in 1 .. N
    BY <1>3, <1>5
  <2>4. frames[n].fp < Top.fp /\ frames[n].fp \in Nat
    BY <1>3, <1>4, <1>6, <2>1, <2>3 DEF Rising
  <2>5. \A j \in 1 .. frames[n].fp : j \in 1 .. Top.fp - 1
    BY <1>1, <2>4
  <2>6. frames[n].fp <= Len(stack')
    <3>1. Len(stack') = Top.fp - 1 + OneIf(~Top.discard) /\ OneIf(~Top.discard) \in {0, 1}
      BY <1>1 DEF LeftBy, OneIf
    <3>2. Top.fp \in Nat
      BY <1>1
    <3> QED
      BY <2>4, <3>1, <3>2
  <2> QED
    BY <1>1, <2>1, <2>2, <2>5, <2>6
<1> QED
  BY <1>7, <1>8, <1>9, <1>11, <1>12 DEF Fits

LEMMA MainReturns ==
  ASSUME StackInv, Return, Len(frames) = 1
  PROVE  status' = "done" /\ frames' = <<>> /\ stack' = <<>> /\ bytecode' = bytecode
<1> DEFINE rest == Front(frames)
<1>1. /\ status = "run" /\ Current.op = "Return" /\ frames' = rest /\ bytecode' = bytecode
      /\ rest = <<>> => stack' = stack /\ status' = "done"
  BY DEF Return, Runs
<1>2. /\ frames \in Seq(FrameOver(Chunks, Nat, DOMAIN upv)) /\ frames # <<>> /\ Fits
      /\ Top = frames[1] /\ stack \in Seq(ValuesOver(Nat))
  BY <1>1, FramesHere
<1>3. rest \in Seq(FrameOver(Chunks, Nat, DOMAIN upv)) /\ Len(rest) = 0
  BY <1>2, FrontOver
<1>4. Height = 0 /\ Top.fp = 0 /\ Len(stack) = Top.fp + Height
  BY <1>1, <1>2, ReckonedHere DEF Fits, FirstIsMain
<1> HIDE DEF rest
<1>5. rest = <<>>
  BY <1>3
<1>6. stack = <<>>
  BY <1>2, <1>4
<1> QED
  BY <1>1, <1>5, <1>6
-----------------------------------------------------------------------------
LEMMA NextMoves ==
  ASSUME StackInv, status = "run", Next
  PROVE  InFrame \/ Stops \/ CallFunction \/ Return
<1>1. CASE \/ Constant \/ Pop \/ Duplicate \/ GetGlobal \/ SetGlobal \/ GetLocal \/ SetLocal
           \/ GetBuiltin \/ GetUpvalue \/ SetUpvalue
  BY <1>1, PushesInFrame, PopsInFrame, SetLocalInFrame
<1>2. CASE Arithmetic \/ Negate \/ Not \/ CompareOp
  BY <1>2, OperatorsInFrame, CompareInFrame
<1>3. CASE Jump \/ JumpIf \/ ForLoop
  BY <1>3, JumpsInFrame, ForLoopInFrame
<1>4. CASE MakeArray \/ VectorAppend \/ GetIndex \/ SetIndex \/ Closure
  BY <1>4, VectorsInFrame, OperatorsInFrame, ClosureInFrame
<1>5. CASE CallValueBuiltin \/ Curry \/ CallBuiltin
  BY <1>5, HandsInFrame, CallBuiltinInFrame
<1>6. CASE CallFails
  BY <1>6, FailuresStop DEF CallFails
<1>7. CASE Underflow \/ Broken
  BY <1>7 DEF Underflow, Broken, Fault, Breaks, Stops
<1>8. CASE Halted
  BY <1>8 DEF Halted
<1> QED
  BY <1>1, <1>2, <1>3, <1>4, <1>5, <1>6, <1>7, <1>8 DEF Next

LEMMA NextFits ==
  ASSUME StackInv, status = "run", Next
  PROVE  \/ Fits' /\ status' = "run"
         \/ status' = "done" /\ frames' = <<>> /\ stack' = <<>>
         \/ status' \in {"error", "invalid", "endless"}
<1>1. CASE InFrame
  BY <1>1, InFrameFits DEF InFrame
<1>2. CASE Stops
  BY <1>2 DEF Stops
<1>3. CASE CallFunction
  BY <1>3, CallFits, CalledStack
<1>4. CASE Return
  <2>1. Len(frames) \in Nat /\ Len(frames) # 0
    BY FramesHere
  <2>2. CASE Len(frames) = 1
    BY <1>4, <2>2, MainReturns
  <2>3. CASE Len(frames) # 1
    <3>1. \A n \in Nat : n = 0 \/ n = 1 \/ n > 1
      OBVIOUS
    <3>2. Len(frames) > 1
      BY <2>1, <2>3, <3>1
    <3> QED
      BY <1>4, <3>2, ReturnFits, ReturnStack
  <2> QED
    BY <2>2, <2>3
<1> QED
  BY <1>1, <1>2, <1>3, <1>4, NextMoves

(* The program is not changed.                                             *)
LEMMA VerifiedKept ==
  ASSUME StackInv, [Next]_vars
  PROVE  Verified(bytecode)'
<1>1. bytecode' = bytecode
  <2>1. Sound(Nat, DOMAIN upv)
    BY PinnedAreKeys DEF StackInv, VMInv, Sound
  <2> QED
    BY <2>1, NextTurns DEF Turns, Turn
<1>2. Verified(bytecode)
  BY DEF StackInv
<1> QED
  BY <1>1, <1>2

LEMMA StackInvKept ==
  ASSUME StackInv, [Next]_vars
  PROVE  StackInv'
<1>1. VMInv'
  BY VMInvKept DEF StackInv
<1>2. Verified(bytecode)'
  BY VerifiedKept
<1>3. CASE status = "run" /\ Next
  <2>1. \/ Fits' /\ status' = "run"
        \/ status' = "done" /\ frames' = <<>> /\ stack' = <<>>
        \/ status' \in {"error", "invalid", "endless"}
    BY <1>3, NextFits
  <2> QED
    BY <1>1, <1>2, <2>1 DEF StackInv
<1>4. CASE UNCHANGED vars
  <2>1. Fits => Fits'
    BY <1>4 DEF vars, Fits, FirstIsMain, Rising, Waiting, Preserved, RunsAt, HeightsOf, Top
  <2>2. status' = status /\ frames' = frames /\ stack' = stack
    BY <1>4 DEF vars
  <2> QED
    BY <1>1, <1>2, <2>1, <2>2 DEF StackInv
<1>5. ASSUME Next, status # "run" PROVE UNCHANGED vars
  BY <1>5 DEF Next, Runs, Constant, Pop, Duplicate, GetGlobal, SetGlobal, GetLocal, SetLocal,
     GetBuiltin, GetUpvalue, SetUpvalue, Arithmetic, Negate, Not, CompareOp, Jump, JumpIf, ForLoop,
     CallValueBuiltin, Curry, CallFunction, EnterFrame, CallFails, Return, CallBuiltin, MakeArray,
     VectorAppend, GetIndex, SetIndex, Closure, Underflow, Broken, Halted
<1> QED
  BY <1>3, <1>4, <1>5

LEMMA StackInvAtFirst ==
  ASSUME ProgramsWellFormed, ProgramsVerified, Init
  PROVE  StackInv
<1>1. VMInv
  <2>1. Basics /\ DOMAIN upv = {} /\ \A K : KeysPushed \subseteq K => Held(K, {})
    BY BasicsAtFirst
  <2>2. KeysPushed \subseteq Nat
    BY <2>1, PinnedAreKeys
  <2> QED
    BY <2>1, <2>2 DEF VMInv
<1>2. Verified(bytecode)
  BY DEF Init, ProgramsVerified
<1> DEFINE f == [chunk |-> 0, ip |-> 0, fp |-> 0, closure |-> NilV, ups |-> <<>>,
                 captured |-> <<>>, discard |-> FALSE]
<1>3. /\ frames = <<f>> /\ stack = <<>> /\ saved = <<<<>>>> /\ ip = 0 /\ status = "run"
  BY DEF Init
<1>4. f.chunk = 0 /\ f.fp = 0
  OBVIOUS
<1> HIDE DEF f
<1>5. Len(frames) = 1 /\ frames[1] = f /\ Len(saved) = 1 /\ saved[1] = <<>> /\ Len(stack) = 0
  BY <1>3
<1>6. \A n \in 1 .. 1 : n = 1
  OBVIOUS
<1>7. FirstIsMain(frames) /\ Rising(frames) /\ Waiting(frames)
  BY <1>4, <1>5, <1>6 DEF FirstIsMain, Rising, Waiting
<1>8. Preserved(saved, frames, stack)
  <2>1. Len(<<>>) = 0
    OBVIOUS
  <2> QED
    BY <1>4, <1>5, <1>6, <2>1 DEF Preserved
<1>9. <<0, 0>> \in HeightsOf(0)
  <2>1. 1 \in DOMAIN bytecode.chunks
    BY <1>1 DEF VMInv, Basics, WellFormed
  <2>2. Entries(bytecode, 1) \subseteq Heights(bytecode)[1]
    BY <1>2, <2>1 DEF Verified, StacksMatch
  <2>3. <<0, 0>> \in Entries(bytecode, 1)
    BY DEF Entries
  <2> QED
    BY <2>2, <2>3 DEF HeightsOf
<1>10. Top = f
  BY <1>5 DEF Top, Last
<1>11. RunsAt(Top, ip, Len(stack))
  BY <1>3, <1>4, <1>5, <1>9, <1>10 DEF RunsAt
<1>12. Fits
  BY <1>7, <1>8, <1>11 DEF Fits
<1> QED
  BY <1>1, <1>2, <1>3, <1>12 DEF StackInv

LEMMA StackInvShows ==
  ASSUME StackInv
  PROVE  CallerStackIntact /\ BalancedAtEnd /\ WithinFrame
<1>1. BalancedAtEnd
  BY DEF StackInv, BalancedAtEnd
<1>2. CallerStackIntact
  <2> SUFFICES ASSUME status \in {"run", "done"}, NEW n \in DOMAIN saved
               PROVE  IsPrefix(saved[n], stack)
    BY DEF CallerStackIntact
  <2>1. saved \in Seq(Seq(Value)) /\ Len(saved) = Len(frames)
    BY DEF StackInv, VMInv, Basics
  <2>2. CASE status = "done"
    <3>1. Len(saved) = 0
      BY <2>1, <2>2 DEF StackInv
    <3> QED
      BY <2>1, <3>1
  <2>3. CASE status = "run"
    <3>1. /\ Fits /\ stack \in Seq(ValuesOver(Nat)) /\ n \in 1 .. Len(frames)
          /\ frames[n].fp \in Nat
      BY <2>1, <2>3, FramesHere
    <3>2. /\ Len(saved[n]) = frames[n].fp /\ frames[n].fp <= Len(stack)
          /\ \A j \in 1 .. frames[n].fp : saved[n][j] = stack[j]
      BY <3>1 DEF Fits, Preserved
    <3>3. saved[n] \in Seq(Value)
      BY <2>1
    <3> DEFINE s == saved[n]
               m == frames[n].fp
    <3>4. s \in Seq(Value) /\ Len(s) = m /\ m \in Nat /\ m <= Len(stack)
          /\ \A j \in 1 .. m : s[j] = stack[j]
      BY <3>1, <3>2, <3>3
    <3> HIDE DEF s, m
    <3>5. s = SubSeq(stack, 1, m)
      BY <3>1, <3>4
    <3>6. IsPrefix(s, stack)
      BY <3>4, <3>5 DEF IsPrefix
    <3> QED
      BY <3>6 DEF s
  <2> QED
    BY <2>2, <2>3
<1>3. WithinFrame
  <2> SUFFICES ASSUME status = "run", ~(Current.op = "Return" /\ Len(frames) = 1)
               PROVE  Suffices(Current, Height)
    BY DEF WithinFrame, Height
  <2> QED
    BY ReckonedHere
<1> QED
  BY <1>1, <1>2, <1>3
-----------------------------------------------------------------------------
LEMMA AlwaysStackInv ==
  ASSUME ProgramsWellFormed, ProgramsVerified
  PROVE  Spec => []StackInv
<1>1. Init => StackInv
  BY StackInvAtFirst
<1>2. StackInv /\ [Next]_vars => StackInv'
  BY StackInvKept
<1> QED
  BY <1>1, <1>2, PTL DEF Spec

(* No call, however deep and however it comes back, disturbs what was on   *)
(* the stack under it: every program the reckoning accepts, with any       *)
(* builtins, any nesting and any threshold of the collector.               *)
THEOREM CallersStayIntact ==
  ASSUME ProgramsWellFormed, ProgramsVerified
  PROVE  Spec => []CallerStackIntact
<1>1. StackInv => CallerStackIntact
  BY StackInvShows
<1> QED
  BY <1>1, AlwaysStackInv, PTL

(* A program that ends leaves nothing on the stack (execute_loop returns   *)
(* when the last frame is gone, and does not look).                        *)
THEOREM EndsBalanced ==
  ASSUME ProgramsWellFormed, ProgramsVerified
  PROVE  Spec => []BalancedAtEnd
<1>1. StackInv => BalancedAtEnd
  BY StackInvShows
<1> QED
  BY <1>1, AlwaysStackInv, PTL

(* Every instruction finds what it takes, reads and names in its own       *)
(* frame: what the reckoning shows of each chunk by itself holds of the    *)
(* stack all frames share.                                                 *)
THEOREM StaysWithinFrame ==
  ASSUME ProgramsWellFormed, ProgramsVerified
  PROVE  Spec => []WithinFrame
<1>1. StackInv => WithinFrame
  BY StackInvShows
<1> QED
  BY <1>1, AlwaysStackInv, PTL

(* What the VM checks of the stack before an instruction, and what it      *)
(* takes for granted.                                                      *)
StackSuffices ==
  status = "run" =>
    /\ Len(stack) >= Checked(Current) /\ Len(stack) >= Operands(Current)
    /\ \A s \in SlotsUsed(Current) :
         Slot(s) <= IF Current.op = "SetLocal" THEN Len(stack) - 1 ELSE Len(stack)

LEMMA WithinFrameSuffices ==
  ASSUME StackInv
  PROVE  StackSuffices
<1> SUFFICES ASSUME status = "run" PROVE StackSuffices
  BY DEF StackSuffices
<1>1. /\ Len(stack) \in Nat /\ Height \in Nat /\ Len(stack) = Top.fp + Height /\ Top.fp \in Nat
      /\ Current \in Instruction /\ Len(frames) \in Nat /\ Len(frames) # 0
  BY FramesHere, ReckonedHere
<1>2. CASE Current.op = "Return"
  <2>1. Checked(Current) = 0 /\ SlotsUsed(Current) = {}
    BY <1>2 DEF Checked, SlotsUsed
  <2>2. CASE Len(frames) = 1
    <3>1. Operands(Current) = 0
      BY <1>2, <2>2 DEF Operands, Operators
    <3> QED
      BY <1>1, <2>1, <3>1 DEF StackSuffices
  <2>3. CASE Len(frames) # 1
    <3>1. Reads(Current) = 1 /\ Reads(Current) <= Height
      BY <1>2, <2>3, ReckonedHere DEF Suffices, Reads
    <3>2. Operands(Current) \in {0, 1}
      BY <1>2 DEF Operands, Operators
    <3>3. Len(stack) >= 1
      BY <1>1, <3>1
    <3> QED
      BY <1>1, <2>1, <3>2, <3>3 DEF StackSuffices
  <2> QED
    BY <2>2, <2>3
<1>3. CASE Current.op # "Return"
  <2> DEFINE i == Current
  <2>1. /\ Pops(i) \in Nat /\ Reads(i) \in Nat /\ Pops(i) <= Reads(i) /\ Reads(i) <= Height
        /\ \A s \in SlotsNamed(i) : s < Height - Pops(i)
    BY <1>3, TakesItsOwn
  <2>2. /\ i.op \in {"Pop", "MakeArray", "VectorAppend"} => i.count \in Nat
        /\ i.op = "Duplicate" => i.index \in Nat
        /\ i.op \in {"Call", "CallBuiltin"} => i.argc \in Nat
        /\ i.op \in {"GetLocal", "SetLocal"} => i.index \in Nat
        /\ i.op = "ForLoop" => i.control \in Nat /\ i.limit \in Nat /\ i.step \in SUBSET Nat
        /\ i.op = "Closure" => i.upvalues \in Seq(UpvalueDesc)
    BY <1>1, InstructionFields
  <2>3. Checked(i) = 0 \/ Checked(i) = Reads(i)
    <3>1. CASE i.op \in {"Pop", "MakeArray", "CallBuiltin", "Call"}
      BY <3>1 DEF Checked, Reads, Pops, Operators
    <3>2. CASE i.op \in {"VectorAppend", "Duplicate"}
      BY <3>2 DEF Checked, Reads
    <3>3. CASE i.op \notin {"Pop", "MakeArray", "CallBuiltin", "Call", "VectorAppend", "Duplicate"}
      BY <3>3 DEF Checked
    <3> QED
      BY <3>1, <3>2, <3>3
  <2>4. Operands(i) = 0 \/ Operands(i) = Reads(i)
    <3>1. CASE i.op \in Operators \cup {"Compare", "GetIndex"}
      BY <3>1 DEF Operands, Reads, Pops, Operators
    <3>2. CASE i.op \in {"Negate", "Not", "SetGlobal", "SetLocal", "SetUpvalue"}
      BY <3>2 DEF Operands, Reads, Pops, Operators
    <3>3. CASE i.op \in {"SetIndex", "JumpIf"}
      BY <3>3 DEF Operands, Reads, Operators
    <3>4. CASE i.op \notin Operators \cup {"Compare", "GetIndex", "Negate", "Not", "SetGlobal",
                                           "SetLocal", "SetUpvalue", "SetIndex", "JumpIf"}
      BY <1>3, <3>4 DEF Operands
    <3> QED
      BY <3>1, <3>2, <3>3, <3>4
  <2>5. SlotsUsed(i) \subseteq SlotsNamed(i)
    BY DEF SlotsUsed, SlotsNamed
  <2>6. \A s \in SlotsUsed(i) : s \in Nat
    <3>1. CASE i.op \in {"GetLocal", "SetLocal"}
      BY <2>2, <3>1 DEF SlotsUsed
    <3>2. CASE i.op = "ForLoop"
      BY <2>2, <3>2 DEF SlotsUsed
    <3>3. CASE i.op = "Closure"
      <4> DEFINE descs == i.upvalues
                 D == UpvalueDesc
      <4>1. descs \in Seq(D) /\ \A u \in D : u.index \in Nat
        BY <2>2, <3>3 DEF UpvalueDesc
      <4>2. SlotsUsed(i) = {u.index : u \in {w \in Range(descs) : w.isLocal}}
        BY <3>3 DEF SlotsUsed
      <4> HIDE DEF descs, D
      <4>3. Range(descs) \subseteq D
        BY <4>1 DEF Range
      <4> QED
        BY <4>1, <4>2, <4>3
    <3>4. CASE i.op \notin {"GetLocal", "SetLocal", "ForLoop", "Closure"}
      BY <3>4 DEF SlotsUsed
    <3> QED
      BY <3>1, <3>2, <3>3, <3>4
  <2>7. i.op = "SetLocal" => Pops(i) = 1
    BY DEF Pops, Operators
  <2> HIDE DEF i
  <2>8. Len(stack) >= Reads(i) /\ Len(stack) >= 0
    BY <1>1, <2>1
  <2>9. ASSUME NEW s \in SlotsUsed(i)
        PROVE  Slot(s) <= IF i.op = "SetLocal" THEN Len(stack) - 1 ELSE Len(stack)
    <3>1. s \in Nat /\ s < Height - Pops(i)
      BY <2>1, <2>5, <2>6
    <3>2. Slot(s) = Top.fp + s + 1
      BY DEF Slot
    <3>3. Slot(s) <= Len(stack) - Pops(i)
      BY <1>1, <2>1, <3>1, <3>2
    <3>4. Slot(s) \in Nat
      BY <1>1, <3>1, <3>2
    <3> QED
      BY <1>1, <2>1, <2>7, <3>3, <3>4
  <2>10. Len(stack) >= Checked(i) /\ Len(stack) >= Operands(i)
    BY <2>3, <2>4, <2>8
  <2> QED
    BY <2>9, <2>10 DEF StackSuffices, i
<1> QED
  BY <1>2, <1>3

(* So the checks that end a program with an internal error never fail, and *)
(* the accesses made without one (pop and top, slice_get) are in range.    *)
THEOREM StackAlwaysSuffices ==
  ASSUME ProgramsWellFormed, ProgramsVerified
  PROVE  Spec => [](StackSuffices) /\ [][~Underflow]_vars
<1>1. StackInv => StackSuffices
  BY WithinFrameSuffices
<1>2. StackSuffices /\ StackInv /\ [Next]_vars => [~Underflow]_vars
  <2> SUFFICES ASSUME StackSuffices, StackInv, Underflow PROVE FALSE
    OBVIOUS
  <2>1. status = "run" /\ Len(stack) < Checked(Current)
    BY DEF Underflow
  <2>2. Len(stack) \in Nat /\ Current \in Instruction
    BY <2>1, FramesHere
  <2>3. Checked(Current) \in Nat
    BY <2>2, InstructionFields DEF Checked
  <2> QED
    BY <2>1, <2>2, <2>3 DEF StackSuffices
<1> QED
  BY <1>1, <1>2, AlwaysStackInv, PTL DEF Spec
-----------------------------------------------------------------------------
(* The upvalues.  A frame or a function is complete when it carries every  *)
(* upvalue its chunk names.  The constants from which closures are made    *)
(* need not be; no value the program can get hold of refers to those.      *)
Complete(f) == \A u \in Named(bytecode, f.chunk) : u < Len(f.ups)
Templates == {k \in PinnedKeys : PinnedCell(k).t = "fun" /\ ~Complete(PinnedCell(k))}
FunctionsComplete(cells) ==
  \A k \in DOMAIN cells \ Templates : cells[k].t = "fun" => Complete(cells[k])
CallsComplete(fr) == \A n \in 1 .. Len(fr) : Complete(fr[n])

UpvaluesInv ==
  /\ StackInv
  /\ Held(Nat \ Templates, DOMAIN upv)
  /\ FunctionsComplete(heap)
  /\ status = "run" => CallsComplete(frames)

LEMMA ConstantCell ==
  ASSUME Basics, NEW j \in Nat, j < Len(bytecode.consts)
  PROVE  /\ ConstantKey(j) \in Nat /\ PinnedCell(ConstantKey(j)) = bytecode.consts[j + 1]
         /\ NeedsCell(bytecode.consts[j + 1]) =>
              /\ ConstantKey(j) \in DOMAIN heap
              /\ heap[ConstantKey(j)] = bytecode.consts[j + 1]
<1> DEFINE k == ConstantKey(j)
<1>1. bytecode.consts \in Seq(Datum(Chunks)) /\ Pinned(heap) /\ Len(BuiltinIds) \in Nat
  BY BasicParts, VMAssumption
<1>2. k = Len(BuiltinIds) + j + 1
  BY DEF ConstantKey
<1>3. j + 1 \in DOMAIN bytecode.consts /\ (j + 1) - 1 = j
  BY <1>1
<1>4. k \in Nat /\ ~(k <= Len(BuiltinIds)) /\ k - Len(BuiltinIds) = j + 1
  BY <1>1, <1>2
<1>5. PinnedCell(k) = bytecode.consts[j + 1]
  BY <1>4 DEF PinnedCell
<1>6. NeedsCell(bytecode.consts[j + 1]) => k \in PinnedKeys
  BY <1>3 DEF PinnedKeys
<1> HIDE DEF k
<1> QED
  BY <1>1, <1>4, <1>5, <1>6 DEF Pinned, k

LEMMA InstructionHere ==
  ASSUME Basics, NEW c \in DOMAIN bytecode.chunks, NEW i \in Range(bytecode.chunks[c].code)
  PROVE  /\ i \in Instruction
         /\ i.op \in {"Constant", "Closure"} => i.index \in Nat /\ i.index < Len(bytecode.consts)
<1>1. CodeOK(bytecode.chunks[c].code, bytecode.consts, Range(BuiltinIds))
  BY DEF Basics, WellFormed
<1> DEFINE code == bytecode.chunks[c].code
<1>2. code \in Seq(Instruction)
      /\ \A j \in DOMAIN code :
           InBounds(code[j], j - 1, Len(code), bytecode.consts, Range(BuiltinIds))
  BY <1>1 DEF CodeOK
<1> HIDE DEF code
<1>3. PICK j \in DOMAIN code : i = code[j]
  BY DEF Range, code
<1>4. i \in Instruction /\ InBounds(i, j - 1, Len(code), bytecode.consts, Range(BuiltinIds))
  BY <1>2, <1>3
<1> QED
  BY <1>4, InstructionFields DEF InBounds

(* No instruction puts a template on the stack.                            *)
LEMMA PushedComplete ==
  ASSUME StackInv
  PROVE  KeysPushed \subseteq Nat \ Templates
<1>1. Basics /\ UpvaluesMatch(bytecode)
  BY DEF StackInv, VMInv, Verified
<1> SUFFICES ASSUME NEW k \in KeysPushed PROVE k \in Nat /\ k \notin Templates
  OBVIOUS
<1>2. k \in Nat /\ k \in PinnedKeys
  BY <1>1, PinnedAreKeys
<1>3. CASE k \in DOMAIN BuiltinIds
  <2>1. k <= Len(BuiltinIds)
    BY <1>3, VMAssumption
  <2>2. PinnedCell(k).t = "builtin"
    BY <2>1 DEF PinnedCell, Builtin
  <2> QED
    BY <1>2, <2>2 DEF Templates
<1>4. CASE k \notin DOMAIN BuiltinIds
  <2>1. PICK c \in DOMAIN bytecode.chunks : \E i \in Range(bytecode.chunks[c].code) :
          i.op = "Constant" /\ k = ConstantKey(i.index)
    BY <1>4 DEF KeysPushed
  <2>2. PICK i \in Range(bytecode.chunks[c].code) : i.op = "Constant" /\ k = ConstantKey(i.index)
    BY <2>1
  <2>3. i.index \in Nat /\ i.index < Len(bytecode.consts)
    BY <1>1, <2>2, InstructionHere
  <2>4. PinnedCell(k) = bytecode.consts[i.index + 1]
    BY <1>1, <2>2, <2>3, ConstantCell
  <2>5. PinnedCell(k).t = "fun" => Named(bytecode, PinnedCell(k).chunk) = {}
    BY <1>1, <2>2, <2>4 DEF UpvaluesMatch
  <2> QED
    BY <1>2, <2>5 DEF Templates, Complete
<1> QED
  BY <1>3, <1>4

LEMMA SoundHere ==
  ASSUME UpvaluesInv
  PROVE  Sound(Nat \ Templates, DOMAIN upv) /\ StackInv /\ Basics
BY PushedComplete DEF UpvaluesInv, Sound, StackInv, VMInv

LEMMA UpvaluesHere ==
  ASSUME UpvaluesInv, status = "run"
  PROVE  /\ Complete(Top) /\ Current \in Range(bytecode.chunks[Top.chunk + 1].code)
         /\ Top.chunk + 1 \in DOMAIN bytecode.chunks
         /\ \A u \in UpvaluesUsed(Current) : u < Len(Top.ups)
<1>1. Sound(Nat \ Templates, DOMAIN upv)
  BY SoundHere
<1>2. /\ Top.chunk + 1 \in DOMAIN bytecode.chunks
      /\ Current \in Range(bytecode.chunks[Top.chunk + 1].code)
  BY <1>1, CurrentInChunk DEF Sound
<1>3. Len(frames) \in Nat \ {0} /\ Top = frames[Len(frames)]
  BY <1>1, CurrentInBounds DEF Sound
<1>4. Complete(Top)
  BY <1>3 DEF UpvaluesInv, CallsComplete
<1>5. UpvaluesUsed(Current) \subseteq Named(bytecode, Top.chunk)
  BY <1>2 DEF Named
<1> QED
  BY <1>2, <1>4, <1>5 DEF Complete

(* What a call finds under its arguments is not a template.                *)
LEMMA CalleeComplete ==
  ASSUME UpvaluesInv, Runs({"Call"}), Callee.t = "fun"
  PROVE  Complete(Callee) /\ Callee \in FunctionOver(Chunks, Nat \ Templates, DOMAIN upv)
<1> DEFINE K == Nat \ Templates
           v == Peek(Current.argc)
<1>1. Sound(K, DOMAIN upv)
  BY SoundHere
<1> HIDE DEF K
<1>2. /\ Current.argc \in Nat /\ Len(stack) >= Current.argc + 1 /\ Len(stack) \in Nat
      /\ stack \in Seq(ValuesOver(K)) /\ Callee \in FunctionOver(Chunks, K, DOMAIN upv)
  BY <1>1, CallParts
<1>3. v \in ValuesOver(K) /\ HeapOver(heap, K)
  BY <1>1, <1>2, PeekOver, HeldParts DEF Sound
<1> HIDE DEF v
<1>4. v.t = "ref" /\ v.k \in DOMAIN heap /\ Callee = heap[v.k]
  BY <1>3, Resolved DEF Callee, v
<1>5. v.k \in K
  BY <1>3, <1>4, ValueKinds
<1>6. v.k \in DOMAIN heap \ Templates
  BY <1>4, <1>5 DEF K
<1>7. Complete(Callee)
  BY <1>4, <1>6 DEF UpvaluesInv, FunctionsComplete
<1> QED
  BY <1>2, <1>7 DEF K

(* A closure is made with an upvalue for each descriptor.                  *)
LEMMA CaptureOneCounts ==
  ASSUME NEW K, NEW U, NEW acc, Capturing(acc, K, U), NEW d
  PROVE  Len(CaptureOne(acc, d).ups) = Len(acc.ups) + 1
<1> DEFINE cells == U \cup (Len(upv) + 1 .. Len(acc.upv))
           s == acc.ups
<1>1. /\ acc = [upv |-> acc.upv, captured |-> acc.captured, ups |-> s]
      /\ s \in Seq(cells)
  BY DEF Capturing
<1> HIDE DEF cells, s
<1>2. ASSUME NEW c PROVE Len(Append(s, c)) = Len(s) + 1
  <2> DEFINE S == cells \cup {c}
  <2>1. s \in Seq(S) /\ c \in S
    BY <1>1, SeqMore
  <2> HIDE DEF S
  <2> QED
    BY <2>1
<1>3. \E c : CaptureOne(acc, d).ups = Append(s, c)
  <2>1. CASE ~d.isLocal
    <3>1. CaptureOne(acc, d) = [acc EXCEPT !.ups = Append(@, Top.ups[d.index + 1])]
      BY <2>1 DEF CaptureOne
    <3> QED
      BY <1>1, <3>1
  <2>2. CASE d.isLocal /\ d.index \in DOMAIN acc.captured
    <3>1. CaptureOne(acc, d) = [acc EXCEPT !.ups = Append(@, acc.captured[d.index])]
      BY <2>2 DEF CaptureOne
    <3> QED
      BY <1>1, <3>1
  <2>3. CASE d.isLocal /\ d.index \notin DOMAIN acc.captured
    <3>1. CaptureOne(acc, d).ups = Append(acc.ups, Len(acc.upv) + 1)
      BY <2>3 DEF CaptureOne
    <3> QED
      BY <3>1 DEF s
  <2> QED
    BY <2>1, <2>2, <2>3
<1> QED
  BY <1>2, <1>3 DEF s

LEMMA CaptureAllCounts ==
  ASSUME NEW K, NEW U, Sound(K, U), Top \in FrameOver(Chunks, K, U),
         NEW descs, Len(descs) \in Nat, Offered(descs)
  PROVE  Len(CaptureAll(descs).ups) = Len(descs)
<1> DEFINE f == CHOOSE g : CapturedInTurn(g, descs)
           N == Len(descs)
<1>1. CaptureAll(descs) = f[Len(descs)]
  BY DEF CaptureAll, CapturedInTurn, Start
<1>2. CapturedInTurn(f, descs)
  <2>1. \E g : CapturedInTurn(g, descs)
    BY CapturedInTurnExists
  <2> QED
    BY <2>1
<1> HIDE DEF f
<1>3. f[0] = Start /\ \A n \in 1 .. N : f[n] = CaptureOne(f[n - 1], descs[n])
  BY <1>2 DEF CapturedInTurn
<1> DEFINE Q == {n \in 0 .. N : Capturing(f[n], K, U) /\ Len(f[n].ups) = n}
<1> N \in Nat
  OBVIOUS
<1>4. 0 \in Q
  <2>1. Start.ups = <<>> /\ Len(<<>>) = 0
    BY DEF Start
  <2> QED
    BY <1>3, <2>1, StartCaptures
<1>5. ASSUME NEW n \in 1 .. N, n - 1 \in Q PROVE n \in Q
  <2>1. Capturing(f[n - 1], K, U) /\ Len(f[n - 1].ups) = n - 1
    BY <1>5
  <2>2. Capturing(CaptureOne(f[n - 1], descs[n]), K, U)
    BY <1>5, <2>1, CaptureOneOver DEF Offered
  <2>3. Len(CaptureOne(f[n - 1], descs[n]).ups) = (n - 1) + 1
    BY <2>1, CaptureOneCounts
  <2>4. (n - 1) + 1 = n
    OBVIOUS
  <2> QED
    BY <1>3, <2>2, <2>3, <2>4
<1> HIDE DEF N, Q
<1>6. N \in Q
  BY <1>4, <1>5, BoundedInduction
<1> QED
  BY <1>1, <1>6 DEF N, Q

LEMMA ClosureComplete ==
  ASSUME UpvaluesInv, Runs({"Closure"})
  PROVE  Complete([heap[ConstantKey(Current.index)] EXCEPT !.ups = CaptureAll(Current.upvalues).ups])
<1> DEFINE K == Nat \ Templates
           ups == CaptureAll(Current.upvalues).ups
           d == bytecode.consts[Current.index + 1]
           g == [d EXCEPT !.ups = ups]
<1>1. Sound(K, DOMAIN upv) /\ Basics /\ UpvaluesMatch(bytecode)
  BY SoundHere DEF StackInv, Verified
<1>2. status = "run" /\ Current.op = "Closure"
  BY DEF Runs
<1>3. /\ Top.chunk + 1 \in DOMAIN bytecode.chunks
      /\ Current \in Range(bytecode.chunks[Top.chunk + 1].code)
  BY <1>2, UpvaluesHere
<1>4. Current.index \in Nat /\ Current.index < Len(bytecode.consts)
  BY <1>1, <1>2, <1>3, InstructionHere
<1>5. d.t = "fun" /\ d \in Datum(Chunks)
  <2>1. InBounds(Current, ip, Len(Code), bytecode.consts, Range(BuiltinIds))
    BY <1>1, RunsHere
  <2>2. bytecode.consts \in Seq(Datum(Chunks))
    BY <1>1, BasicParts
  <2> QED
    BY <1>2, <1>4, <2>1, <2>2 DEF InBounds
<1>6. heap[ConstantKey(Current.index)] = d
  BY <1>1, <1>4, <1>5, ConstantCell DEF NeedsCell
<1>7. \A u \in Named(bytecode, d.chunk) : u < Len(Current.upvalues)
  BY <1>1, <1>2, <1>3 DEF UpvaluesMatch
<1>8. Len(ups) = Len(Current.upvalues)
  <2>1. Top \in FrameOver(Chunks, K, DOMAIN upv)
    BY <1>1, RunsHere
  <2>2. Offered(Current.upvalues) /\ Len(Current.upvalues) \in Nat
    BY <1>1, ClosureOffers
  <2> HIDE DEF K
  <2> QED
    BY <1>1, <2>1, <2>2, CaptureAllCounts
<1> HIDE DEF ups, K
<1>9. g.chunk = d.chunk /\ g.ups = ups
  <2>1. d \in [t : {"fun"}, chunk : 0 .. Chunks - 1, arity : Nat, curried : {<<>>}, ups : {<<>>}]
    BY <1>5 DEF Datum, Value, NilV, DblV
  <2> HIDE DEF d
  <2> QED
    BY <2>1
<1> HIDE DEF d, g
<1>10. Complete(g)
  BY <1>7, <1>8, <1>9 DEF Complete
<1> QED
  BY <1>6, <1>10 DEF g, ups
-----------------------------------------------------------------------------
(* Functions stay complete: what a step allocates, and what a collection   *)
(* leaves of it.                                                           *)
LEMMA StoredComplete ==
  ASSUME NEW m, IsMachine(m), FunctionsComplete(m.heap), NEW st, NEW fr, NEW u,
         heap' = m.heap \/ MaybeGC(m, st, fr, u), threshold \in Nat \ {0}
  PROVE  FunctionsComplete(heap')
<1> DEFINE live == ReachedFrom(m.heap, u, RootKeys(st, fr, u))
<1>1. heap' = m.heap \/ heap' = [k \in live |-> m.heap[k]]
  BY MaybeGCLeaves
<1>2. live \subseteq DOMAIN m.heap
  <2>1. DOMAIN m.heap \subseteq 0 .. m.next - 1 /\ m.next \in Nat
    BY DEF IsMachine
  <2>2. IsFiniteSet(0 .. m.next - 1)
    BY <2>1, FS_Interval
  <2>3. IsFiniteSet(DOMAIN m.heap)
    BY <2>1, <2>2, FS_Subset
  <2> QED
    BY <2>3, ReachedFromIsClosed
<1> HIDE DEF live
<1>3. \A k \in DOMAIN heap' : k \in DOMAIN m.heap /\ heap'[k] = m.heap[k]
  BY <1>1, <1>2
<1> QED
  BY <1>3 DEF FunctionsComplete

LEMMA RuntimeComplete ==
  ASSUME UpvaluesInv
  PROVE  /\ IsMachine(Runtime) /\ Runtime.heap = heap /\ FunctionsComplete(Runtime.heap)
         /\ threshold \in Nat \ {0}
<1>1. Basics /\ FunctionsComplete(heap)
  BY SoundHere DEF UpvaluesInv
<1> QED
  BY <1>1, RuntimeIsMachine, BasicParts

(* Operators and builtins make data only.                                  *)
LEMMA GrownComplete ==
  ASSUME UpvaluesInv, NEW m, NEW K, Grown(Runtime, m, K)
  PROVE  IsMachine(m) /\ FunctionsComplete(m.heap)
<1>1. Runtime.heap = heap /\ FunctionsComplete(heap)
  BY RuntimeComplete
<1>2. /\ IsMachine(m) /\ DOMAIN m.heap = DOMAIN heap \cup Fresh(Runtime, m)
      /\ \A k \in DOMAIN heap : m.heap[k] = heap[k]
      /\ \A k \in Fresh(Runtime, m) : m.heap[k] \in DataOver(K \cup Fresh(Runtime, m))
  BY <1>1 DEF Grown
<1>3. \A k \in Fresh(Runtime, m) : m.heap[k].t # "fun"
  BY <1>2, DataKinds
<1>4. ASSUME NEW k \in DOMAIN m.heap \ Templates, m.heap[k].t = "fun"
      PROVE  Complete(m.heap[k])
  <2>1. k \in DOMAIN heap \ Templates /\ m.heap[k] = heap[k]
    BY <1>2, <1>3, <1>4
  <2> QED
    BY <1>1, <1>4, <2>1 DEF FunctionsComplete
<1> QED
  BY <1>2, <1>4 DEF FunctionsComplete

LEMMA AllocatedComplete ==
  ASSUME UpvaluesInv, NEW o, o.t = "fun" => Complete(o)
  PROVE  LET a == Allocate(Runtime, o) IN IsMachine(a) /\ FunctionsComplete(a.heap)
<1> DEFINE a == Allocate(Runtime, o)
<1>1. Basics /\ FunctionsComplete(heap)
  BY SoundHere DEF UpvaluesInv
<1>2. /\ IsMachine(a) /\ DOMAIN a.heap = DOMAIN heap \cup {nextKey} /\ a.heap[nextKey] = o
      /\ \A k \in DOMAIN heap : a.heap[k] = heap[k]
  BY <1>1, AllocatesOne
<1> HIDE DEF a
<1>3. ASSUME NEW k \in DOMAIN a.heap \ Templates, a.heap[k].t = "fun"
      PROVE  Complete(a.heap[k])
  <2>1. CASE k = nextKey
    BY <1>2, <1>3, <2>1
  <2>2. CASE k # nextKey
    <3>1. k \in DOMAIN heap \ Templates /\ a.heap[k] = heap[k]
      BY <1>2, <2>2
    <3> QED
      BY <1>1, <1>3, <3>1 DEF FunctionsComplete
  <2> QED
    BY <2>1, <2>2
<1> QED
  BY <1>2, <1>3 DEF FunctionsComplete, a

LEMMA ElementsComplete ==
  ASSUME UpvaluesInv, NEW k \in DOMAIN heap, heap[k].t = "vec",
         NEW es \in Seq(ValuesOver(Nat \ Templates)),
         heap' = [heap EXCEPT ![k] = [heap[k] EXCEPT !.es = es]]
  PROVE  FunctionsComplete(heap')
<1> DEFINE K == Nat \ Templates
<1>1. Sound(K, DOMAIN upv) /\ es \in Seq(ValuesOver(K))
  BY SoundHere
<1> HIDE DEF K
<1>2. /\ DOMAIN heap' = DOMAIN heap
      /\ \A j \in DOMAIN heap : heap'[j] = IF j = k THEN Vec(es) ELSE heap[j]
  BY <1>1, ElementsReplaced
<1>3. Vec(es).t = "vec"
  BY DEF Vec
<1> QED
  BY <1>2, <1>3 DEF UpvaluesInv, FunctionsComplete

-----------------------------------------------------------------------------
(* Instruction by instruction.                                             *)
LEMMA FailuresComplete ==
  ASSUME UpvaluesInv, NEW e, NEW st, FailSynced(e) \/ FailEarly(e, st) \/ Breaks \/ Hangs
  PROVE  FunctionsComplete(heap')
<1>1. heap' = heap
  BY DEF FailSynced, FailEarly, Breaks, Hangs, memory
<1> QED
  BY <1>1 DEF UpvaluesInv

LEMMA MovesComplete ==
  ASSUME UpvaluesInv,
         \/ Constant \/ Pop \/ Duplicate \/ GetGlobal \/ SetGlobal \/ GetLocal \/ SetLocal
         \/ GetBuiltin \/ GetUpvalue \/ SetUpvalue
         \/ Negate \/ Not \/ CompareOp \/ Jump \/ JumpIf \/ ForLoop \/ CallFails
         \/ Underflow \/ Broken \/ Halted
  PROVE  FunctionsComplete(heap')
<1>1. CASE \/ Constant \/ Pop \/ Duplicate \/ GetGlobal \/ SetGlobal \/ GetLocal \/ SetLocal
           \/ GetBuiltin \/ GetUpvalue \/ SetUpvalue
  <2>1. heap' = heap \/ FailSynced("UndefinedVariable")
    BY <1>1 DEF Constant, Pop, Duplicate, GetGlobal, SetGlobal, GetLocal, SetLocal, GetBuiltin,
       GetUpvalue, SetUpvalue, memory
  <2> QED
    BY <2>1, FailuresComplete DEF UpvaluesInv
<1>2. CASE Negate
  <2>1. heap' = heap \/ \E e : FailSynced(e)
    BY <1>2 DEF Negate, memory
  <2> QED
    BY <2>1, FailuresComplete DEF UpvaluesInv
<1>3. CASE Not \/ CompareOp \/ Jump \/ JumpIf
  <2>1. heap' = heap
    BY <1>3 DEF Not, CompareOp, Jump, JumpIf, memory
  <2> QED
    BY <2>1 DEF UpvaluesInv
<1>4. CASE ForLoop
  <2>1. heap' = heap \/ Breaks \/ FailSynced("TypeError")
    BY <1>4 DEF ForLoop, memory
  <2> QED
    BY <2>1, FailuresComplete DEF UpvaluesInv
<1>5. CASE CallFails
  BY <1>5, FailuresComplete DEF CallFails
<1>6. CASE Underflow \/ Broken \/ Halted
  <2>1. heap' = heap
    BY <1>6 DEF Underflow, Broken, Breaks, Halted, memory, vars
  <2> QED
    BY <2>1 DEF UpvaluesInv
<1> QED
  BY <1>1, <1>2, <1>3, <1>4, <1>5, <1>6

LEMMA ResultsComplete ==
  ASSUME UpvaluesInv, Arithmetic \/ GetIndex
  PROVE  FunctionsComplete(heap')
<1> DEFINE K == Nat \ Templates
<1>1. Sound(K, DOMAIN upv)
  BY SoundHere
<1> HIDE DEF K
<1>2. CASE Arithmetic
  <2> DEFINE c == Settle(Runtime, Arith(Current.op, Peek(1), Peek(0), heap))
  <2>1. Runs(Operators) /\ (Settled(c.m) \/ FailEarly(c.r.e, Drop(1)))
    BY <1>2 DEF Arithmetic
  <2>2. /\ Current.op \in Operators /\ Peek(0) \in ValuesOver(K) /\ Peek(1) \in ValuesOver(K)
        /\ HeapOver(heap, K) /\ IsMachine(Runtime)
    BY <1>1, <2>1, TwoOperands
  <2>3. ResultOver(Arith(Current.op, Peek(1), Peek(0), heap), K)
    BY <2>2, ArithOver
  <2>4. CallOver(Runtime, c, K)
    BY <2>2, <2>3, SettleOver
  <2> HIDE DEF c
  <2>5. FunctionsComplete(c.m.heap)
    BY <2>4, GrownComplete DEF CallOver
  <2> QED
    BY <2>1, <2>5, FailuresComplete DEF Settled
<1>3. CASE GetIndex
  <2> DEFINE c == Settle(Runtime, Index(Peek(1), Peek(0), heap))
  <2>1. Runs({"GetIndex"}) /\ (Settled(c.m) \/ FailSynced(c.r.e))
    BY <1>3 DEF GetIndex
  <2>2. /\ Peek(0) \in ValuesOver(K) /\ Peek(1) \in ValuesOver(K)
        /\ HeapOver(heap, K) /\ IsMachine(Runtime)
    BY <1>1, <2>1, TwoOperands
  <2>3. ResultOver(Index(Peek(1), Peek(0), heap), K)
    BY <2>2, IndexOver
  <2>4. CallOver(Runtime, c, K)
    BY <2>2, <2>3, SettleOver
  <2> HIDE DEF c
  <2>5. FunctionsComplete(c.m.heap)
    BY <2>4, GrownComplete DEF CallOver
  <2> QED
    BY <2>1, <2>5, FailuresComplete DEF Settled
<1> QED
  BY <1>2, <1>3

LEMMA BuiltinsComplete ==
  ASSUME UpvaluesInv, CallValueBuiltin \/ CallBuiltin
  PROVE  FunctionsComplete(heap')
<1> DEFINE K == Nat \ Templates
<1>1. Sound(K, DOMAIN upv) /\ threshold \in Nat \ {0}
  BY SoundHere, RuntimeComplete
<1> HIDE DEF K
<1>2. ASSUME NEW id, NEW args \in Seq(ValuesOver(K)), NEW c \in CallOutcomes(id, args, Runtime)
      PROVE  IsMachine(c.m) /\ FunctionsComplete(c.m.heap)
  <2>1. CallOver(Runtime, c, K)
    BY <1>1, CallAdds
  <2> QED
    BY <2>1, GrownComplete DEF CallOver
<1>3. CASE CallValueBuiltin
  <2> DEFINE st == Drop(Current.argc + 1)
  <2>1. Runs({"Call"})
    BY <1>3 DEF CallValueBuiltin
  <2>2. Args \in Seq(ValuesOver(K))
    BY <1>1, <2>1, CallParts
  <2>3. PICK c \in CallOutcomes(Callee.id, Args, Runtime) :
               MaybeGC(c.m, st, frames, upv) \/ Breaks \/ Hangs
    BY <1>3 DEF CallValueBuiltin, ReturnsInHand
  <2>4. IsMachine(c.m) /\ FunctionsComplete(c.m.heap)
    BY <1>2, <2>2, <2>3
  <2> HIDE DEF st
  <2> QED
    BY <1>1, <2>3, <2>4, StoredComplete, FailuresComplete
<1>4. CASE CallBuiltin
  <2>1. Runs({"CallBuiltin"})
    BY <1>4 DEF CallBuiltin
  <2>2. Args \in Seq(ValuesOver(K))
    <3>1. Current.op = "CallBuiltin" /\ Current.argc \in Nat /\ Len(stack) >= Current.argc
          /\ stack \in Seq(ValuesOver(K))
      BY <1>1, <2>1, RunsHere, InstructionFields DEF Checked
    <3> QED
      BY <3>1, StackParts DEF Args
  <2>3. PICK c \in CallOutcomes(Current.builtin, Args, Runtime) :
               \/ \E st : MaybeGC(c.m, st, frames, upv)
               \/ Settled(c.m) \/ Breaks \/ Hangs
    BY <1>4 DEF CallBuiltin
  <2>4. IsMachine(c.m) /\ FunctionsComplete(c.m.heap)
    BY <1>2, <2>2, <2>3
  <2> QED
    BY <1>1, <2>3, <2>4, StoredComplete, FailuresComplete DEF Settled
<1> QED
  BY <1>3, <1>4

LEMMA AllocationsComplete ==
  ASSUME UpvaluesInv, Curry \/ MakeArray \/ Closure
  PROVE  FunctionsComplete(heap')
<1>1. threshold \in Nat \ {0}
  BY RuntimeComplete
<1>2. ASSUME NEW o, o.t = "fun" => Complete(o), NEW st, NEW fr, NEW u,
             MaybeGC(Allocate(Runtime, o), st, fr, u)
      PROVE  FunctionsComplete(heap')
  <2> DEFINE a == Allocate(Runtime, o)
  <2>1. IsMachine(a) /\ FunctionsComplete(a.heap)
    BY <1>2, AllocatedComplete
  <2> HIDE DEF a
  <2> QED
    BY <1>1, <1>2, <2>1, StoredComplete DEF a
<1>3. CASE Curry
  <2> DEFINE o == [Callee EXCEPT !.curried = @ \o Args]
  <2>1. Runs({"Call"}) /\ Callee.t = "fun"
        /\ MaybeGC(Allocate(Runtime, o), Drop(Current.argc + 1), frames, upv)
    BY <1>3 DEF Curry, ReturnsInHand
  <2>2. Complete(Callee) /\ Callee \in FunctionOver(Chunks, Nat \ Templates, DOMAIN upv)
    BY <2>1, CalleeComplete
  <2>3. o.chunk = Callee.chunk /\ o.ups = Callee.ups
    BY <2>2 DEF FunctionOver
  <2> HIDE DEF o
  <2>4. Complete(o)
    BY <2>2, <2>3 DEF Complete
  <2> QED
    BY <1>2, <2>1, <2>4
<1>4. CASE MakeArray
  <2> DEFINE es == SubSeq(stack, Len(stack) - Current.count + 1, Len(stack))
             st == Append(Drop(Current.count), RefV(nextKey))
  <2>1. MaybeGC(Allocate(Runtime, Vec(es)), st, frames, upv)
    BY <1>4 DEF MakeArray
  <2> HIDE DEF es, st
  <2>2. Vec(es).t # "fun"
    BY DEF Vec
  <2> QED
    BY <1>2, <2>1, <2>2
<1>5. CASE Closure
  <2> DEFINE c  == CaptureAll(Current.upvalues)
             fr == [frames EXCEPT ![Len(frames)].captured = c.captured]
             st == Append(stack, RefV(nextKey))
             f  == [heap[ConstantKey(Current.index)] EXCEPT !.ups = c.ups]
  <2>1. Runs({"Closure"}) /\ MaybeGC(Allocate(Runtime, f), st, fr, c.upv)
    BY <1>5 DEF Closure
  <2>2. Complete(f)
    BY <2>1, ClosureComplete
  <2> HIDE DEF c, fr, st, f
  <2> QED
    BY <1>2, <2>1, <2>2
<1> QED
  BY <1>3, <1>4, <1>5

LEMMA CallsLeaveComplete ==
  ASSUME UpvaluesInv, CallFunction \/ Return
  PROVE  FunctionsComplete(heap')
<1>1. \E st, fr, u : MaybeGC(Runtime, st, fr, u)
  BY DEF CallFunction, EnterFrame, Return
<1> QED
  BY <1>1, RuntimeComplete, StoredComplete

LEMMA VectorsComplete ==
  ASSUME UpvaluesInv, VectorAppend \/ SetIndex
  PROVE  FunctionsComplete(heap')
<1> DEFINE K == Nat \ Templates
<1>1. Sound(K, DOMAIN upv)
  BY SoundHere
<1>2. ASSUME NEW k \in DOMAIN heap, heap[k].t = "vec", NEW es \in Seq(ValuesOver(K)),
             heap' = [heap EXCEPT ![k] = [heap[k] EXCEPT !.es = es]]
      PROVE  FunctionsComplete(heap')
  BY <1>2, ElementsComplete
<1> HIDE DEF K
<1>3. CASE VectorAppend
  <2> DEFINE n == Current.count
             v == Peek(n)
             more == SubSeq(stack, Len(stack) - n + 1, Len(stack))
  <2>1. Runs({"VectorAppend"})
        /\ \/ Resolve(v, heap).t = "vec" /\ heap' = [heap EXCEPT ![v.k].es = @ \o more]
           \/ FailEarly("TypeError", stack)
    BY <1>3 DEF VectorAppend
  <2>2. Current.op = "VectorAppend" /\ n \in Nat /\ Len(stack) >= n + 1
        /\ stack \in Seq(ValuesOver(K)) /\ Len(stack) \in Nat /\ HeapOver(heap, K)
    BY <1>1, <2>1, RunsHere, InstructionFields, HeldParts DEF Checked
  <2>3. v \in ValuesOver(K) /\ more \in Seq(ValuesOver(K))
    BY <2>2, PeekOver, StackParts
  <2> HIDE DEF n, v, more
  <2>4. CASE Resolve(v, heap).t = "vec" /\ heap' = [heap EXCEPT ![v.k].es = @ \o more]
    <3>1. /\ v.k \in DOMAIN heap /\ heap[v.k].t = "vec"
          /\ heap[v.k].es \in Seq(ValuesOver(K))
      BY <2>2, <2>3, <2>4, Resolved
    <3>2. heap[v.k].es \o more \in Seq(ValuesOver(K))
      BY <2>3, <3>1
    <3>3. heap' = [heap EXCEPT ![v.k] = [heap[v.k] EXCEPT !.es = heap[v.k].es \o more]]
      BY <2>4, <3>1
    <3> QED
      BY <1>2, <3>1, <3>2, <3>3
  <2> QED
    BY <2>1, <2>4, FailuresComplete
<1>4. CASE SetIndex
  <2> DEFINE c == Peek(2)
             idx == Peek(1)
             v == Peek(0)
             errors == IndexMutErrors(c, idx, heap)
  <2>1. Runs({"SetIndex"})
        /\ \/ errors = {} /\ heap' = [heap EXCEPT ![c.k].es[idx.i + 1] = v]
           \/ \E e \in errors : FailSynced(e)
    BY <1>4 DEF SetIndex
  <2>2. Current.op = "SetIndex" /\ Len(stack) >= Operands(Current)
        /\ stack \in Seq(ValuesOver(K)) /\ Len(stack) \in Nat /\ HeapOver(heap, K)
    BY <1>1, <2>1, RunsHere, HeldParts
  <2>3. Len(stack) >= 3
    BY <2>2 DEF Operands, Operators
  <2>4. c \in ValuesOver(K) /\ idx \in ValuesOver(K) /\ v \in ValuesOver(K)
    BY <2>2, <2>3, PeekOver
  <2> HIDE DEF c, idx, v
  <2>5. CASE errors = {} /\ heap' = [heap EXCEPT ![c.k].es[idx.i + 1] = v]
    <3>1. /\ c.k \in DOMAIN heap /\ heap[c.k].t = "vec"
          /\ heap[c.k].es \in Seq(ValuesOver(K)) /\ idx.i + 1 \in DOMAIN heap[c.k].es
      BY <2>2, <2>4, <2>5, NoIndexMutError
    <3>2. [heap[c.k].es EXCEPT ![idx.i + 1] = v] \in Seq(ValuesOver(K))
      BY <2>4, <3>1, ReplacedOver
    <3>3. heap' = [heap EXCEPT ![c.k] =
                    [heap[c.k] EXCEPT !.es = [heap[c.k].es EXCEPT ![idx.i + 1] = v]]]
      BY <2>5
    <3> HIDE DEF errors
    <3> QED
      BY <1>2, <3>1, <3>2, <3>3
  <2> QED
    BY <2>1, <2>5, FailuresComplete
<1> QED
  BY <1>3, <1>4

LEMMA NextComplete ==
  ASSUME UpvaluesInv, [Next]_vars
  PROVE  FunctionsComplete(heap')
<1>1. CASE Next
  BY <1>1, MovesComplete, ResultsComplete, BuiltinsComplete, AllocationsComplete,
     CallsLeaveComplete, VectorsComplete DEF Next
<1>2. CASE UNCHANGED vars
  BY <1>2 DEF vars, UpvaluesInv
<1> QED
  BY <1>1, <1>2

(* The frame a call enters carries the upvalues of the function called.    *)
LEMMA NextCallsComplete ==
  ASSUME UpvaluesInv, [Next]_vars, status' = "run"
  PROVE  CallsComplete(frames')
<1>1. StackInv
  BY DEF UpvaluesInv
<1>2. CASE UNCHANGED vars
  BY <1>2 DEF vars, UpvaluesInv
<1>3. CASE Next /\ status = "run"
  <2>1. CallsComplete(frames) /\ Len(frames) \in Nat \ {0}
    BY <1>1, <1>3, FramesHere DEF UpvaluesInv
  <2>2. CASE InFrame
    <3>1. ASSUME NEW n \in 1 .. Len(frames') PROVE Complete(frames'[n])
      <4>1. n \in 1 .. Len(frames) /\ frames'[n].chunk = frames[n].chunk
            /\ frames'[n].ups = frames[n].ups
        BY <2>2, <3>1 DEF InFrame, SameCalls, SameFrame
      <4>2. Complete(frames[n])
        BY <2>1, <4>1 DEF CallsComplete
      <4> QED
        BY <4>1, <4>2 DEF Complete
    <3> QED
      BY <3>1 DEF CallsComplete
  <2>3. CASE Stops
    BY <2>3 DEF Stops
  <2>4. CASE CallFunction
    <3> DEFINE S == FrameOver(Chunks, Nat, DOMAIN upv)
               N == Len(frames)
    <3>1. frames' = Append(Synced, Entered) /\ Entered \in S
      BY <1>1, <2>4, CalledStack
    <3>2. /\ Len(Synced) = N /\ Synced \in Seq(S)
          /\ \A n \in 1 .. N : SameFrame(Synced[n], frames[n])
      BY <1>1, <1>3, SyncedCalls
    <3>3. Complete(Entered)
      <4>1. Runs({"Call"}) /\ Callee.t = "fun"
        BY <2>4 DEF CallFunction, EnterFrame
      <4>2. Complete(Callee)
        BY <4>1, CalleeComplete
      <4>3. Entered.chunk = Callee.chunk /\ Entered.ups = Callee.ups
        BY DEF Entered
      <4> QED
        BY <4>2, <4>3 DEF Complete
    <3> HIDE DEF S
    <3>4. /\ Len(frames') = N + 1 /\ frames'[N + 1] = Entered
          /\ \A n \in 1 .. N : frames'[n] = Synced[n]
      BY <3>1, <3>2, Appended
    <3>5. ASSUME NEW n \in 1 .. N PROVE Complete(frames'[n])
      <4>1. frames'[n].chunk = frames[n].chunk /\ frames'[n].ups = frames[n].ups
        BY <3>2, <3>4 DEF SameFrame
      <4>2. Complete(frames[n])
        BY <2>1 DEF CallsComplete
      <4> QED
        BY <4>1, <4>2 DEF Complete
    <3>6. \A n \in 1 .. N + 1 : n \in 1 .. N \/ n = N + 1
      BY <2>1
    <3> QED
      BY <3>3, <3>4, <3>5, <3>6 DEF CallsComplete
  <2>5. CASE Return
    <3>1. CASE Len(frames) = 1
      BY <1>1, <2>5, <3>1, MainReturns
    <3>2. CASE Len(frames) # 1
      <4>1. \A n \in Nat \ {0} : n = 1 \/ n > 1
        OBVIOUS
      <4>2. Len(frames) > 1
        BY <2>1, <3>2, <4>1
      <4>3. Len(frames') = Len(frames) - 1
            /\ \A n \in 1 .. Len(frames) - 1 : frames'[n] = frames[n]
        BY <1>1, <2>5, <4>2, ReturnStack
      <4>4. \A n \in 1 .. Len(frames) - 1 : n \in 1 .. Len(frames)
        BY <2>1
      <4> QED
        BY <2>1, <4>3, <4>4 DEF CallsComplete
    <3> QED
      BY <3>1, <3>2
  <2> QED
    BY <1>1, <1>3, <2>2, <2>3, <2>4, <2>5, NextMoves
<1>4. CASE Next /\ status # "run"
  <2>1. Halted
    BY <1>4 DEF Next, Runs, Constant, Pop, Duplicate, GetGlobal, SetGlobal, GetLocal, SetLocal,
     GetBuiltin, GetUpvalue, SetUpvalue, Arithmetic, Negate, Not, CompareOp, Jump, JumpIf, ForLoop,
     CallValueBuiltin, Curry, CallFunction, EnterFrame, CallFails, Return, CallBuiltin, MakeArray,
     VectorAppend, GetIndex, SetIndex, Closure, Underflow, Broken
  <2>2. UNCHANGED vars
    BY <2>1 DEF Halted
  <2> QED
    BY <1>2, <2>2
<1> QED
  BY <1>2, <1>3, <1>4
-----------------------------------------------------------------------------
LEMMA UpvaluesInvKept ==
  ASSUME UpvaluesInv, [Next]_vars
  PROVE  UpvaluesInv'
<1> DEFINE K == Nat \ Templates
           U == DOMAIN upv
<1>1. Sound(K, U) /\ StackInv /\ Basics
  BY SoundHere
<1>2. StackInv'
  BY <1>1, StackInvKept
<1>3. \A k \in Nat : k >= nextKey => k \in K
  <2> SUFFICES ASSUME NEW k \in Nat, k >= nextKey PROVE k \notin Templates
    OBVIOUS
  <2>1. nextKey \in Nat /\ Pinned(heap) /\ \A j \in DOMAIN heap : j \in Nat /\ j < nextKey
    BY <1>1, BasicParts
  <2>2. k \notin DOMAIN heap
    BY <2>1
  <2> QED
    BY <2>1, <2>2 DEF Pinned, Templates
<1> HIDE DEF K
<1>4. /\ stack' \in Seq(ValuesOver(K)) /\ GlobalsOver(globals', K)
      /\ frames' \in Seq(FrameOver(Chunks, K, DOMAIN upv'))
      /\ UpvaluesOver(upv', K, DOMAIN upv')
      /\ CellsOver(heap', Chunks, K, DOMAIN upv')
      /\ Chunks' = Chunks /\ bytecode' = bytecode
  BY <1>1, <1>3, StillOver
<1>5. \A k : PinnedCell(k)' = PinnedCell(k)
  BY <1>4 DEF PinnedCell
<1>6. PinnedKeys' = PinnedKeys
  BY <1>4 DEF PinnedKeys
<1>7. \A f : Complete(f)' <=> Complete(f)
  BY <1>4 DEF Complete
<1>8. Templates' = Templates
  BY <1>5, <1>6, <1>7 DEF Templates
<1>9. (Nat \ Templates)' = K
  BY <1>8 DEF K
<1>10. Held(Nat \ Templates, DOMAIN upv)'
  BY <1>4, <1>9 DEF Held, GlobalsOver, UpvaluesOver, CellsOver, FrameOver, CellOver, FunctionOver,
     Signed
<1>11. FunctionsComplete(heap)'
  <2>1. FunctionsComplete(heap')
    BY NextComplete
  <2> QED
    BY <1>7, <1>8, <2>1 DEF FunctionsComplete
<1>12. ASSUME status' = "run" PROVE CallsComplete(frames)'
  <2>1. CallsComplete(frames')
    BY <1>12, NextCallsComplete
  <2> QED
    BY <1>7, <2>1 DEF CallsComplete
<1> QED
  BY <1>2, <1>10, <1>11, <1>12 DEF UpvaluesInv

LEMMA UpvaluesInvAtFirst ==
  ASSUME ProgramsWellFormed, ProgramsVerified, Init
  PROVE  UpvaluesInv
<1>1. StackInv
  BY StackInvAtFirst
<1>2. /\ Basics /\ DOMAIN heap = PinnedKeys /\ DOMAIN upv = {}
      /\ \A K : KeysPushed \subseteq K => Held(K, {})
  BY BasicsAtFirst
<1>3. Held(Nat \ Templates, DOMAIN upv)
  BY <1>1, <1>2, PushedComplete
<1>4. FunctionsComplete(heap)
  <2> SUFFICES ASSUME NEW k \in DOMAIN heap \ Templates, heap[k].t = "fun"
               PROVE  Complete(heap[k])
    BY DEF FunctionsComplete
  <2>1. k \in PinnedKeys /\ heap[k] = PinnedCell(k)
    BY <1>2 DEF Basics, Pinned
  <2> QED
    BY <2>1 DEF Templates
<1> DEFINE f == [chunk |-> 0, ip |-> 0, fp |-> 0, closure |-> NilV, ups |-> <<>>,
                 captured |-> <<>>, discard |-> FALSE]
<1>5. frames = <<f>>
  BY DEF Init
<1>6. f.chunk = 0
  OBVIOUS
<1> HIDE DEF f
<1>7. Named(bytecode, 0) = {}
  BY <1>1 DEF StackInv, Verified, UpvaluesMatch
<1>8. CallsComplete(frames)
  <2>1. Complete(f)
    BY <1>6, <1>7 DEF Complete
  <2>2. Len(frames) = 1 /\ frames[1] = f
    BY <1>5
  <2>3. \A n \in 1 .. 1 : n = 1
    OBVIOUS
  <2> QED
    BY <2>1, <2>2, <2>3 DEF CallsComplete
<1> QED
  BY <1>1, <1>3, <1>4, <1>8 DEF UpvaluesInv

LEMMA AlwaysUpvaluesInv ==
  ASSUME ProgramsWellFormed, ProgramsVerified
  PROVE  Spec => []UpvaluesInv
<1>1. Init => UpvaluesInv
  BY UpvaluesInvAtFirst
<1>2. UpvaluesInv /\ [Next]_vars => UpvaluesInv'
  BY UpvaluesInvKept
<1> QED
  BY <1>1, <1>2, PTL DEF Spec

(* The upvalues a function was made with outlive whatever it goes through  *)
(* between its Closure instruction and its call: stored and read back,     *)
(* collected around, applied in part, called from other frames.  The VM    *)
(* indexes them without a check (GetUpvalue, SetUpvalue, and Closure for   *)
(* what it hands on).                                                      *)
THEOREM UpvaluesAlwaysInRange ==
  ASSUME ProgramsWellFormed, ProgramsVerified
  PROVE  Spec => []UpvaluesInRange
<1>1. UpvaluesInv => UpvaluesInRange
  BY UpvaluesHere DEF UpvaluesInRange
<1> QED
  BY <1>1, AlwaysUpvaluesInv, PTL

(* A step that ends the program as invalid.                                *)
TurnsInvalid == status # "invalid" /\ status' = "invalid"

LEMMA WhatTurnsInvalid ==
  ASSUME Next, TurnsInvalid
  PROVE  ForLoop \/ CallValueBuiltin \/ CallBuiltin \/ Broken
<1>1. status' = "invalid" /\ status # "invalid"
  BY DEF TurnsInvalid
<1>2. ASSUME NEW e, NEW st, FailSynced(e) \/ FailEarly(e, st) PROVE FALSE
  BY <1>1, <1>2 DEF FailSynced, FailEarly, Fault
<1>3. ~(Constant \/ Pop \/ Duplicate \/ SetGlobal \/ GetLocal \/ SetLocal \/ GetBuiltin
        \/ GetUpvalue \/ SetUpvalue \/ Not \/ CompareOp \/ Jump \/ JumpIf \/ MakeArray)
  BY <1>1 DEF Constant, Pop, Duplicate, SetGlobal, GetLocal, SetLocal, GetBuiltin, GetUpvalue,
     SetUpvalue, Not, CompareOp, Jump, JumpIf, MakeArray, Quiet
<1>4. ~(GetGlobal \/ Negate \/ SetIndex \/ CallFails)
  BY <1>1, <1>2 DEF GetGlobal, Negate, SetIndex, CallFails, Quiet
<1>5. ~(Arithmetic \/ GetIndex \/ VectorAppend)
  BY <1>1, <1>2 DEF Arithmetic, GetIndex, VectorAppend, Quiet
<1>6. ~(Curry \/ CallFunction \/ Closure)
  BY <1>1 DEF Curry, ReturnsInHand, CallFunction, EnterFrame, Closure
<1>7. ~Return
  BY <1>1 DEF Return
<1>8. ~(Underflow \/ Halted)
  BY <1>1 DEF Underflow, Fault, Halted, vars
<1> QED
  BY <1>3, <1>4, <1>5, <1>6, <1>7, <1>8 DEF Next

(* No instruction finds too little on the stack, or a slot or an upvalue   *)
(* that is not there: a program the compiler's reckoning accepts becomes   *)
(* invalid only by a builtin that panics or a for loop that counts past    *)
(* the end of the integers.                                                *)
THEOREM VerifiedNeverBreaks ==
  ASSUME ProgramsWellFormed, ProgramsVerified
  PROVE  Spec => /\ [][~(Underflow \/ Broken)]_vars
                 /\ [][TurnsInvalid => ForLoop \/ CallValueBuiltin \/ CallBuiltin]_vars
<1>1. ASSUME UpvaluesInv, Underflow \/ Broken PROVE FALSE
  <2>1. status = "run" /\ StackInv
    BY <1>1 DEF Underflow, Broken, UpvaluesInv
  <2>2. StackSuffices
    BY <2>1, WithinFrameSuffices
  <2>3. Len(stack) \in Nat /\ Current \in Instruction
    BY <2>1, FramesHere
  <2>4. Checked(Current) \in Nat
    BY <2>3, InstructionFields DEF Checked
  <2>5. ~Underflow
    BY <2>1, <2>2, <2>3, <2>4 DEF Underflow, StackSuffices
  <2>6. \A u \in UpvaluesUsed(Current) : u < Len(Top.ups)
    BY <1>1, <2>1, UpvaluesHere
  <2>7. Valid(Current)
    BY <2>1, <2>2, <2>6 DEF Valid, StackSuffices
  <2> QED
    BY <1>1, <2>5, <2>7 DEF Broken
<1>2. UpvaluesInv /\ [Next]_vars => [~(Underflow \/ Broken)]_vars
  BY <1>1
<1>3. UpvaluesInv /\ [Next]_vars =>
        [TurnsInvalid => ForLoop \/ CallValueBuiltin \/ CallBuiltin]_vars
  BY <1>1, WhatTurnsInvalid
<1> QED
  BY <1>2, <1>3, AlwaysUpvaluesInv, PTL DEF Spec
=============================================================================
