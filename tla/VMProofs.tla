------------------------------- MODULE VMProofs -------------------------------
(***************************************************************************)
(* What holds of the VM whatever well-formed bytecode it executes: its     *)
(* state is well-typed and its instruction pointers stay in their chunks;  *)
(* and as long as no call loses its result to the collector, every         *)
(* reference it can reach leads to a cell.                                 *)
(***************************************************************************)
EXTENDS VMTurns

(* What the compiler is taken to have produced; the runs of VMEveryday and *)
(* SmallPrograms check it of every program they execute                    *)
(* (ProgramWellFormed).                                                    *)
ProgramsWellFormed ==
  \A p \in DOMAIN Programs :
    WellFormed([part \in {"chunks", "consts"} |-> Programs[p][part]], Range(BuiltinIds))

-----------------------------------------------------------------------------
(* Where a step goes on.                                                   *)
Proceeds == UNCHANGED <<frames, saved, status>> /\ ip' \in GoesTo(Current, ip)
Stops    == UNCHANGED <<frames, saved, ip>> /\ status' \in {"error", "invalid", "endless"}

Onward ==
  /\ ip' \in Nat /\ status' \in {"run", "done", "error", "invalid", "endless"}
  /\ status' = "run" => ReadyAt(frames', ip')
  /\ saved' \in Seq(Seq(Value)) /\ Len(saved') = Len(frames')

LEMMA FailuresStop ==
  ASSUME NEW e, NEW st, FailSynced(e) \/ FailEarly(e, st) \/ Breaks \/ Hangs
  PROVE  Stops
BY DEF FailSynced, FailEarly, Breaks, Hangs, Fault, Stops

LEMMA FallsThrough ==
  ASSUME NEW names, Runs(names), names \cap {"Return", "Jump", "JumpIf", "ForLoop"} = {},
         ip' = ip + 1, UNCHANGED <<frames, saved, status>>
  PROVE  Proceeds
<1>1. Current.op \in names
  BY DEF Runs
<1>2. GoesTo(Current, ip) = {ip + 1}
  BY <1>1, GoesOn
<1> QED
  BY <1>2 DEF Proceeds

LEMMA MovesProceed ==
  ASSUME \/ Constant \/ Pop \/ Duplicate \/ GetGlobal \/ SetGlobal \/ GetLocal \/ SetLocal
         \/ GetBuiltin \/ GetUpvalue \/ SetUpvalue
  PROVE  Proceeds \/ Stops
<1>1. CASE Constant
  BY <1>1, FallsThrough DEF Constant, Leaves, Quiet
<1>2. CASE Pop
  BY <1>2, FallsThrough DEF Pop, Leaves, Quiet
<1>3. CASE Duplicate
  BY <1>3, FallsThrough DEF Duplicate, Leaves, Quiet
<1>4. CASE GetGlobal
  BY <1>4, FallsThrough, FailuresStop DEF GetGlobal, Leaves, Quiet
<1>5. CASE SetGlobal
  BY <1>5, FallsThrough DEF SetGlobal, Leaves, Quiet
<1>6. CASE GetLocal
  BY <1>6, FallsThrough DEF GetLocal, Leaves, Quiet
<1>7. CASE SetLocal
  BY <1>7, FallsThrough DEF SetLocal, Leaves, Quiet
<1>8. CASE GetBuiltin
  BY <1>8, FallsThrough DEF GetBuiltin, Leaves, Quiet
<1>9. CASE GetUpvalue
  BY <1>9, FallsThrough DEF GetUpvalue, Leaves, Quiet
<1>10. CASE SetUpvalue
  BY <1>10, FallsThrough DEF SetUpvalue, Leaves, Quiet
<1> QED
  BY <1>1, <1>2, <1>3, <1>4, <1>5, <1>6, <1>7, <1>8, <1>9, <1>10

LEMMA OperatorsProceed ==
  ASSUME \/ Arithmetic \/ Negate \/ Not \/ CompareOp \/ CallFails \/ CallBuiltin
         \/ MakeArray \/ VectorAppend \/ GetIndex \/ SetIndex
  PROVE  Proceeds \/ Stops
<1>1. CASE Arithmetic
  BY <1>1, FallsThrough, FailuresStop DEF Arithmetic, Leaves, Quiet, Operators
<1>2. CASE Negate
  BY <1>2, FallsThrough, FailuresStop DEF Negate, Leaves, Quiet
<1>3. CASE Not
  BY <1>3, FallsThrough DEF Not, Leaves, Quiet
<1>4. CASE CompareOp
  BY <1>4, FallsThrough DEF CompareOp, Leaves, Quiet
<1>5. CASE CallFails
  BY <1>5, FailuresStop DEF CallFails
<1>6. CASE CallBuiltin
  <2>1. Runs({"CallBuiltin"})
        /\ \/ ip' = ip + 1 /\ Quiet
           \/ Fault("TypeError", ip)
           \/ Breaks \/ Hangs
    BY <1>6 DEF CallBuiltin, Leaves
  <2>2. CASE ip' = ip + 1 /\ Quiet
    BY <2>1, <2>2, FallsThrough DEF Quiet
  <2> QED
    BY <2>1, <2>2, FailuresStop DEF Fault, Stops
<1>7. CASE MakeArray
  BY <1>7, FallsThrough DEF MakeArray, Leaves, Quiet
<1>8. CASE VectorAppend
  BY <1>8, FallsThrough, FailuresStop DEF VectorAppend, Leaves, Quiet
<1>9. CASE GetIndex
  BY <1>9, FallsThrough, FailuresStop DEF GetIndex, Leaves, Quiet
<1>10. CASE SetIndex
  BY <1>10, FallsThrough, FailuresStop DEF SetIndex, Leaves, Quiet
<1> QED
  BY <1>1, <1>2, <1>3, <1>4, <1>5, <1>6, <1>7, <1>8, <1>9, <1>10

LEMMA JumpsProceed ==
  ASSUME Jump \/ JumpIf \/ ForLoop
  PROVE  Proceeds \/ Stops
<1>1. CASE Jump
  BY <1>1 DEF Jump, Runs, Quiet, GoesTo, Proceeds
<1>2. CASE JumpIf
  BY <1>2 DEF JumpIf, Runs, Quiet, GoesTo, Proceeds
<1>3. CASE ForLoop
  <2>1. Current.op = "ForLoop"
    BY <1>3 DEF ForLoop, Runs
  <2>2. GoesTo(Current, ip) = {Current.body, ip + 1}
    BY <2>1 DEF GoesTo
  <2>3. \/ ip' \in {Current.body, ip + 1} /\ Quiet
        \/ Breaks
        \/ FailSynced("TypeError")
    BY <1>3 DEF ForLoop
  <2> QED
    BY <2>2, <2>3, FailuresStop DEF Proceeds, Quiet
<1> QED
  BY <1>1, <1>2, <1>3

LEMMA ProceedsOnward ==
  ASSUME NEW K, NEW U, Sound(K, U), status = "run", Proceeds
  PROVE  Onward
<1>1. Basics /\ Held(K, U)
  BY DEF Sound
<1>2. ReadyAt(frames, ip) /\ saved \in Seq(Seq(Value)) /\ Len(saved) = Len(frames)
  BY <1>1 DEF Basics, Ready
<1>3. ip' \in Nat /\ InCode(Top, ip')
  BY <1>1, CurrentInBounds DEF Proceeds
<1>4. ReadyAt(frames, ip')
  BY <1>2, <1>3 DEF ReadyAt, Top
<1> QED
  BY <1>2, <1>3, <1>4 DEF Proceeds, Onward

LEMMA StopsOnward ==
  ASSUME NEW K, NEW U, Sound(K, U), Stops
  PROVE  Onward
<1>1. ip \in Nat /\ saved \in Seq(Seq(Value)) /\ Len(saved) = Len(frames)
  BY DEF Sound, Basics
<1> QED
  BY <1>1 DEF Stops, Onward

(* The caller's frame keeps the ip to return to.                           *)
LEMMA SyncedReady ==
  ASSUME NEW K, NEW U, Sound(K, U), Runs({"Call"})
  PROVE  /\ ReadyAt(Synced, ip + 1) /\ Len(Synced) = Len(frames) /\ Len(frames) \in Nat \ {0}
         /\ \A j \in 1 .. Len(frames) : InCode(Synced[j], Synced[j].ip)
         /\ Synced \in Seq(FrameOver(Chunks, K, U))
         /\ saved \in Seq(Seq(Value)) /\ Len(saved) = Len(frames)
<1>1. /\ Basics /\ status = "run" /\ frames # <<>> /\ frames \in Seq(FrameOver(Chunks, K, U))
      /\ ip \in Nat /\ InCode(Top, ip + 1)
  BY CallParts
<1>2. ReadyAt(frames, ip) /\ saved \in Seq(Seq(Value)) /\ Len(saved) = Len(frames)
  BY <1>1 DEF Basics, Ready
<1>3. /\ Synced \in Seq(FrameOver(Chunks, K, U)) /\ Len(Synced) = Len(frames)
      /\ Len(frames) \in Nat \ {0}
      /\ \A j \in 1 .. Len(frames) - 1 : Synced[j] = frames[j]
      /\ Synced[Len(frames)].ip = ip + 1
      /\ \A j \in 1 .. Len(frames) : Synced[j].chunk = frames[j].chunk
  BY <1>1, SyncedOver
<1>4. InCode(Synced[Len(frames)], ip + 1)
  <2>1. Top = frames[Len(frames)] /\ Len(frames) \in 1 .. Len(frames)
    BY <1>3 DEF Top, Last
  <2>2. Synced[Len(frames)].chunk = Top.chunk
    BY <1>3, <2>1
  <2> QED
    BY <1>1, <2>2 DEF InCode
<1>5. \A j \in 1 .. Len(frames) - 1 : InCode(Synced[j], Synced[j].ip)
  BY <1>2, <1>3 DEF ReadyAt
<1>6. ASSUME NEW j \in 1 .. Len(frames) PROVE InCode(Synced[j], Synced[j].ip)
  <2>1. j = Len(frames) \/ j \in 1 .. Len(frames) - 1
    BY <1>3, <1>6
  <2> QED
    BY <1>3, <1>4, <1>5, <2>1
<1>7. Synced # <<>> /\ Last(Synced) = Synced[Len(frames)]
  BY <1>3 DEF Last
<1>8. ReadyAt(Synced, ip + 1)
  BY <1>3, <1>4, <1>5, <1>7 DEF ReadyAt
<1> QED
  BY <1>2, <1>3, <1>6, <1>8

LEMMA HandsOnward ==
  ASSUME NEW K, NEW U, Sound(K, U), CallValueBuiltin \/ Curry
  PROVE  Onward
<1>1. ASSUME Runs({"Call"}), NEW m, NEW v, ReturnsInHand(m, v) PROVE Onward
  <2>1. ip' = ip + 1 /\ frames' = Synced /\ status' = status /\ saved' = saved
    BY <1>1 DEF ReturnsInHand, Leaves
  <2>2. ip + 1 \in Nat /\ status = "run"
    BY <1>1, CallParts
  <2> QED
    BY <1>1, <2>1, <2>2, SyncedReady DEF Onward
<1>2. CASE CallValueBuiltin
  <2>1. Runs({"Call"})
        /\ \/ \E m, v : ReturnsInHand(m, v)
           \/ Fault("TypeError", ip)
           \/ Breaks \/ Hangs
    BY <1>2 DEF CallValueBuiltin
  <2>2. CASE Fault("TypeError", ip)
    BY <2>2, StopsOnward DEF Fault, Stops
  <2>3. CASE Breaks \/ Hangs
    BY <2>3, FailuresStop, StopsOnward
  <2> QED
    BY <1>1, <2>1, <2>2, <2>3
<1>3. CASE Curry
  BY <1>1, <1>3 DEF Curry
<1> QED
  BY <1>2, <1>3

LEMMA CallOnward ==
  ASSUME NEW K, NEW U, Sound(K, U), CallFunction
  PROVE  Onward
<1> DEFINE base  == Len(stack) - Current.argc
           frame == [chunk |-> Callee.chunk, ip |-> 0, fp |-> base - 0, closure |-> stack[base],
                     ups |-> Callee.ups, captured |-> <<>>, discard |-> ~Current.keep]
           under == SubSeq(stack, 1, base)
<1>1. /\ Runs({"Call"}) /\ Callee.t = "fun" /\ frames' = Append(Synced, frame) /\ ip' = 0
      /\ saved' = Append(saved, under) /\ status' = status
  BY DEF CallFunction, EnterFrame
<1>2. frame \in FrameOver(Chunks, K, U) /\ under \in Seq(ValuesOver(K))
  BY <1>1, EnteredFrame
<1>3. Basics /\ status = "run"
  BY <1>1, CallParts
<1>4. InCode(frame, 0)
  BY <1>2, <1>3, InChunk
<1>5. /\ Len(Synced) = Len(frames) /\ Len(frames) \in Nat \ {0}
      /\ \A j \in 1 .. Len(frames) : InCode(Synced[j], Synced[j].ip)
      /\ Synced \in Seq(FrameOver(Chunks, K, U))
      /\ saved \in Seq(Seq(Value)) /\ Len(saved) = Len(frames)
  BY <1>1, SyncedReady
<1>6. under \in Seq(Value)
  <2>1. ValuesOver(K) \subseteq Value
    BY DEF ValuesOver
  <2> QED
    BY <1>2, <2>1, SeqMore
<1> HIDE DEF frame, under
<1> DEFINE fr == Append(Synced, frame)
<1>7. /\ Len(fr) = Len(frames) + 1 /\ fr # <<>> /\ fr[Len(frames) + 1] = frame
      /\ \A j \in 1 .. Len(frames) : fr[j] = Synced[j]
  <2> DEFINE S == FrameOver(Chunks, K, U)
  <2>1. Synced \in Seq(S) /\ frame \in S
    BY <1>2, <1>5
  <2> HIDE DEF S
  <2>2. Len(fr) = Len(Synced) + 1 /\ fr[Len(Synced) + 1] = frame /\ fr # <<>>
    BY <2>1
  <2>3. \A j \in 1 .. Len(Synced) : fr[j] = Synced[j]
    BY <2>1
  <2>4. Len(Synced) = Len(frames)
    BY <1>5
  <2> HIDE DEF fr
  <2>5. Len(fr) = Len(frames) + 1 /\ fr # <<>> /\ fr[Len(frames) + 1] = frame
    BY <2>2, <2>4
  <2> QED
    BY <2>3, <2>4, <2>5
<1> HIDE DEF fr
<1>8. Last(fr) = frame
  BY <1>7 DEF Last
<1>9. \A n \in 1 .. Len(fr) - 1 : InCode(fr[n], fr[n].ip)
  BY <1>5, <1>7
<1>10. ReadyAt(fr, 0)
  BY <1>4, <1>7, <1>8, <1>9 DEF ReadyAt
<1>11. saved' \in Seq(Seq(Value)) /\ Len(saved') = Len(frames')
  BY <1>1, <1>5, <1>6, <1>7 DEF fr
<1> QED
  BY <1>1, <1>3, <1>10, <1>11 DEF Onward, fr

LEMMA ReturnOnward ==
  ASSUME NEW K, NEW U, Sound(K, U), Return
  PROVE  Onward
<1> DEFINE rest == Front(frames)
<1>1. /\ Runs({"Return"}) /\ frames' = rest /\ saved' = Front(saved)
      /\ IF rest = <<>> THEN status' = "done" /\ ip' = ip
         ELSE ip' = Last(rest).ip /\ status' = status
  BY DEF Return
<1>2. Basics /\ Held(K, U) /\ status = "run" /\ frames # <<>>
  BY <1>1, RunsHere
<1>3. frames \in Seq(FrameOver(Chunks, K, U)) /\ Len(frames) \in Nat /\ ip \in Nat
  BY <1>2, HeldParts, BasicParts
<1>4. ReadyAt(frames, ip) /\ saved \in Seq(Seq(Value)) /\ Len(saved) = Len(frames)
  BY <1>2 DEF Basics, Ready
<1>5. saved # <<>>
  BY <1>2, <1>3, <1>4
<1>6. Front(saved) \in Seq(Seq(Value)) /\ Len(Front(saved)) = Len(frames) - 1
  BY <1>4, <1>5, FrontOver
<1>7. rest \in Seq(FrameOver(Chunks, K, U)) /\ Len(rest) = Len(frames) - 1
      /\ \A j \in 1 .. Len(frames) - 1 : rest[j] = frames[j]
  BY <1>2, <1>3, FrontOver
<1> HIDE DEF rest
<1>8. CASE rest = <<>>
  BY <1>1, <1>3, <1>6, <1>7, <1>8 DEF Onward
<1>9. CASE rest # <<>>
  <2> DEFINE n == Len(rest)
  <2>1. n \in Nat \ {0} /\ n \in 1 .. Len(frames) - 1 /\ rest[n] \in FrameOver(Chunks, K, U)
    BY <1>3, <1>7, <1>9
  <2>2. Last(rest) = rest[n] /\ rest[n] = frames[n]
    BY <1>7, <2>1 DEF Last
  <2>3. Last(rest).ip \in Nat
    BY <2>1, <2>2, TopCells
  <2>4. InCode(Last(rest), Last(rest).ip)
    <3>1. InCode(frames[n], frames[n].ip)
      BY <1>4, <2>1 DEF ReadyAt
    <3> QED
      BY <2>2, <3>1
  <2>5. ASSUME NEW j \in 1 .. n - 1 PROVE InCode(rest[j], rest[j].ip)
    <3>1. n = Len(frames) - 1
      BY <1>7
    <3> HIDE DEF n
    <3>2. j \in 1 .. Len(frames) - 1
      BY <1>3, <2>1, <2>5, <3>1
    <3>3. rest[j] = frames[j] /\ InCode(frames[j], frames[j].ip)
      BY <1>4, <1>7, <3>2 DEF ReadyAt
    <3> QED
      BY <3>3
  <2>6. ReadyAt(rest, Last(rest).ip)
    BY <1>9, <2>4, <2>5 DEF ReadyAt
  <2> QED
    BY <1>1, <1>2, <1>6, <1>7, <1>9, <2>3, <2>6 DEF Onward
<1> QED
  BY <1>8, <1>9

LEMMA ClosureOnward ==
  ASSUME NEW K, NEW U, Sound(K, U), Closure
  PROVE  Onward
<1> DEFINE c == CaptureAll(Current.upvalues)
           g == [frames[Len(frames)] EXCEPT !.captured = c.captured]
<1>1. /\ Runs({"Closure"}) /\ frames' = [frames EXCEPT ![Len(frames)] = g] /\ ip' = ip + 1
      /\ status' = status /\ saved' = saved
  BY DEF Closure, Leaves
<1>2. /\ Basics /\ Held(K, U) /\ status = "run" /\ Current.op = "Closure"
      /\ frames # <<>> /\ Len(frames) \in Nat \ {0} /\ Top = frames[Len(frames)]
      /\ Top \in FrameOver(Chunks, K, U)
  BY <1>1, RunsHere
<1>3. frames \in Seq(FrameOver(Chunks, K, U)) /\ ip + 1 \in Nat
  BY <1>2, HeldParts, BasicParts
<1>4. ReadyAt(frames, ip) /\ saved \in Seq(Seq(Value)) /\ Len(saved) = Len(frames)
  BY <1>2 DEF Basics, Ready
<1>5. InCode(Top, ip + 1)
  <2>1. GoesTo(Current, ip) = {ip + 1}
    BY <1>2, GoesOn
  <2> QED
    BY <1>2, <2>1, CurrentInBounds
<1>6. g.chunk = Top.chunk
  <2>1. Top = [chunk |-> Top.chunk, ip |-> Top.ip, fp |-> Top.fp, closure |-> Top.closure,
               ups |-> Top.ups, captured |-> Top.captured, discard |-> Top.discard]
    BY <1>2, FrameFields
  <2> QED
    BY <1>2, <2>1
<1> HIDE DEF g
<1>7. InCode(g, ip + 1)
  BY <1>5, <1>6 DEF InCode
<1>8. /\ Len(frames') = Len(frames) /\ frames' # <<>> /\ frames'[Len(frames)] = g
      /\ \A j \in 1 .. Len(frames) - 1 : frames'[j] = frames[j]
  BY <1>1, <1>2, <1>3
<1>9. Last(frames') = g
  BY <1>8 DEF Last
<1>10. ReadyAt(frames', ip + 1)
  BY <1>4, <1>7, <1>8, <1>9 DEF ReadyAt
<1> QED
  BY <1>1, <1>2, <1>3, <1>4, <1>8, <1>10 DEF Onward

(* Whatever the instruction, the next one is in its chunk.                 *)
LEMMA NextOnward ==
  ASSUME NEW K, NEW U, Sound(K, U), [Next]_vars
  PROVE  Onward
<1>1. ASSUME NEW names, Runs(names) PROVE status = "run"
  BY <1>1 DEF Runs
<1>2. CASE \/ Constant \/ Pop \/ Duplicate \/ GetGlobal \/ SetGlobal \/ GetLocal \/ SetLocal
           \/ GetBuiltin \/ GetUpvalue \/ SetUpvalue
  <2>1. status = "run"
    BY <1>1, <1>2 DEF Constant, Pop, Duplicate, GetGlobal, SetGlobal, GetLocal, SetLocal,
       GetBuiltin, GetUpvalue, SetUpvalue
  <2> QED
    BY <1>2, <2>1, MovesProceed, ProceedsOnward, StopsOnward
<1>3. CASE \/ Arithmetic \/ Negate \/ Not \/ CompareOp \/ CallFails \/ CallBuiltin
           \/ MakeArray \/ VectorAppend \/ GetIndex \/ SetIndex
  <2>1. status = "run"
    BY <1>1, <1>3 DEF Arithmetic, Negate, Not, CompareOp, CallFails, CallBuiltin, MakeArray,
       VectorAppend, GetIndex, SetIndex
  <2> QED
    BY <1>3, <2>1, OperatorsProceed, ProceedsOnward, StopsOnward
<1>4. CASE Jump \/ JumpIf \/ ForLoop
  <2>1. status = "run"
    BY <1>1, <1>4 DEF Jump, JumpIf, ForLoop
  <2> QED
    BY <1>4, <2>1, JumpsProceed, ProceedsOnward, StopsOnward
<1>5. CASE CallValueBuiltin \/ Curry \/ CallFunction \/ Return \/ Closure
  BY <1>5, HandsOnward, CallOnward, ReturnOnward, ClosureOnward
<1>6. CASE Underflow \/ Broken
  BY <1>6, StopsOnward DEF Underflow, Broken, Fault, Breaks, Stops
<1>7. CASE Halted \/ UNCHANGED vars
  BY <1>7 DEF Halted, vars, Sound, Basics, Ready, Onward
<1> QED
  BY <1>2, <1>3, <1>4, <1>5, <1>6, <1>7 DEF Next
-----------------------------------------------------------------------------
(* What a step leaves in memory, collected or not.                         *)
LEMMA TurnKeeps ==
  ASSUME NEW K, NEW U, NEW h, NEW st, Basics, Turn(K, U, h, st)
  PROVE  /\ IsFiniteSet(DOMAIN h)
         /\ DOMAIN heap' \subseteq DOMAIN h
         /\ \A k \in DOMAIN heap' : k \in Nat /\ k < nextKey' /\ heap'[k] = h[k]
         /\ Pinned(heap')
<1> DEFINE R == ReachedFrom(h, upv', RootKeys(st, frames', upv'))
<1>1. /\ nextKey' \in Nat /\ nextKey' >= nextKey /\ DOMAIN h = DOMAIN heap \cup NewKeys
      /\ Pinned(h) /\ (heap' = h \/ heap' = [k \in R |-> h[k]])
  BY DEF Turn
<1>2. nextKey \in Nat /\ \A k \in DOMAIN heap : k \in Nat /\ k < nextKey
  BY BasicParts
<1>3. \A k \in DOMAIN h : k \in Nat /\ k < nextKey'
  BY <1>1, <1>2 DEF NewKeys
<1>4. IsFiniteSet(DOMAIN h)
  <2>1. IsFiniteSet(0 .. nextKey' - 1)
    BY <1>1, FS_Interval
  <2>2. DOMAIN h \subseteq 0 .. nextKey' - 1
    BY <1>1, <1>3
  <2> QED
    BY <2>1, <2>2, FS_Subset
<1>5. R \subseteq DOMAIN h /\ RootKeys(st, frames', upv') \cap DOMAIN h \subseteq R
  BY <1>4, ReachedFromIsClosed
<1>6. PinnedKeys \subseteq RootKeys(st, frames', upv')
  BY Zenon DEF RootKeys
<1> HIDE DEF R
<1>7. \A k \in PinnedKeys : k \in DOMAIN h /\ h[k] = PinnedCell(k)
  BY <1>1 DEF Pinned
<1>8. CASE heap' = h
  BY <1>1, <1>3, <1>4, <1>8
<1>9. CASE heap' = [k \in R |-> h[k]]
  <2>1. DOMAIN heap' = R /\ \A k \in R : heap'[k] = h[k]
    BY <1>9
  <2>2. \A k \in PinnedKeys : k \in R
    BY <1>5, <1>6, <1>7
  <2>3. Pinned(heap')
    BY <1>7, <2>1, <2>2 DEF Pinned
  <2> QED
    BY <1>3, <1>4, <1>5, <2>1, <2>3
<1> QED
  BY <1>1, <1>8, <1>9

LEMMA SameProgram ==
  ASSUME bytecode' = bytecode
  PROVE  /\ PinnedKeys' = PinnedKeys /\ Chunks' = Chunks
         /\ Pinned(heap') => Pinned(heap)'
         /\ \A fr, i : ReadyAt(fr, i) => ReadyAt(fr, i)'
         /\ \A f : Signed(f) => Signed(f)'
<1>1. PinnedKeys' = PinnedKeys
  BY DEF PinnedKeys, ConstantKey, NeedsCell
<1>2. Chunks' = Chunks
  BY DEF Chunks
<1>3. ASSUME Pinned(heap') PROVE Pinned(heap)'
  BY <1>1, <1>3 DEF Pinned, PinnedCell
<1>4. ASSUME NEW fr, NEW i, ReadyAt(fr, i) PROVE ReadyAt(fr, i)'
  BY <1>4 DEF ReadyAt, InCode
<1>5. ASSUME NEW f, Signed(f) PROVE Signed(f)'
  BY <1>5 DEF Signed
<1> QED
  BY <1>1, <1>2, <1>3, <1>4, <1>5

LEMMA BasicsKept ==
  ASSUME NEW K, NEW U, Sound(K, U), [Next]_vars
  PROVE  Basics'
<1>1. Turns(K, U) /\ Onward
  BY NextTurns, NextOnward
<1>2. PICK h, st : Turn(K, U, h, st)
  BY <1>1 DEF Turns
<1>3. Basics
  BY DEF Sound
<1>4. /\ bytecode' = bytecode
      /\ nextKey' \in Nat /\ added' \in Nat /\ threshold' \in Nat \ {0}
  BY <1>2 DEF Turn
<1>5. (\A k \in DOMAIN heap' : k \in Nat /\ k < nextKey') /\ Pinned(heap')
  BY <1>2, <1>3, TurnKeeps
<1>6. Pinned(heap)'
  BY <1>4, <1>5, SameProgram
<1>7. Ready'
  BY <1>1, <1>4, SameProgram DEF Onward, Ready, ReadyAt, InCode
<1>8. WellFormed(bytecode, Range(BuiltinIds))'
  BY <1>3, <1>4 DEF Basics
<1> QED
  BY <1>1, <1>4, <1>5, <1>6, <1>7, <1>8 DEF Basics, Onward
-----------------------------------------------------------------------------
(* The initial state.                                                      *)
LEMMA BasicsAtFirst ==
  ASSUME ProgramsWellFormed, Init
  PROVE  /\ Basics
         /\ \A K : KeysPushed \subseteq K => Held(K, {})
         /\ DOMAIN heap = PinnedKeys /\ DOMAIN upv = {}
<1>1. /\ program \in DOMAIN Programs
      /\ bytecode = [part \in {"chunks", "consts"} |-> Programs[program][part]]
      /\ ip = 0 /\ stack = <<>> /\ upv = <<>> /\ threshold = BaseThreshold /\ status = "run"
      /\ added \in Prior /\ saved = <<<<>>>>
      /\ nextKey = Len(BuiltinIds) + Len(bytecode.consts) + 1
      /\ globals = [id \in Range(BuiltinIds) |-> RefV(BuiltinKey(id))]
  BY DEF Init
<1>2. heap = [k \in PinnedKeys |-> PinnedCell(k)]
  BY DEF Init, PinnedCell
<1>3. frames = <<[chunk |-> 0, ip |-> 0, fp |-> 0, closure |-> NilV, ups |-> <<>>,
                 captured |-> <<>>, discard |-> FALSE]>>
  BY DEF Init
<1>4. WellFormed(bytecode, Range(BuiltinIds))
  BY <1>1 DEF ProgramsWellFormed
<1>5. bytecode.consts \in Seq(Datum(Chunks)) /\ Chunks \in Nat \ {0}
  BY <1>4 DEF WellFormed, Chunks
<1>6. Len(BuiltinIds) \in Nat /\ Len(bytecode.consts) \in Nat
  BY <1>5, VMAssumption
<1>7. \A k \in PinnedKeys : k \in Nat /\ k <= Len(BuiltinIds) + Len(bytecode.consts)
                            /\ \A K, U : PinnedCell(k) \in CellOver(Chunks, K, U)
  BY <1>5, PinnedCells
<1>8. ASSUME NEW K, NEW U
      PROVE  frames \in Seq(FrameOver(Chunks, K, U))
  <2> DEFINE f == [chunk |-> 0, ip |-> 0, fp |-> 0, closure |-> NilV, ups |-> <<>>,
                   captured |-> <<>>, discard |-> FALSE]
  <2>1. 0 \in 0 .. Chunks - 1 /\ 0 \in Nat /\ FALSE \in BOOLEAN
    BY <1>5
  <2>2. <<>> \in Captures(U) /\ <<>> \in Seq(U) /\ NilV \in ValuesOver(K)
    BY NothingCaptured, Primitives
  <2>3. f \in FrameOver(Chunks, K, U)
    BY <2>1, <2>2, MakeFrame
  <2>4. frames = <<f>>
    BY <1>3
  <2> HIDE DEF f
  <2> QED
    BY <2>3, <2>4
<1>9. Ready
  <2>1. Len(frames) = 1 /\ frames # <<>> /\ frames[1] = Last(frames)
    BY <1>3 DEF Last
  <2>2. Last(frames).chunk = 0
    BY <1>3, <2>1
  <2>3. CodeOK(bytecode.chunks[1].code, bytecode.consts, Range(BuiltinIds))
    BY <1>4 DEF WellFormed
  <2>4. Len(bytecode.chunks[1].code) \in Nat \ {0}
    BY <2>3 DEF CodeOK
  <2>5. InCode(Last(frames), 0)
    BY <2>2, <2>4 DEF InCode
  <2>6. \A n \in 1 .. Len(frames) - 1 : InCode(frames[n], frames[n].ip)
    BY <2>1
  <2> QED
    BY <1>1, <2>1, <2>5, <2>6 DEF Ready, ReadyAt
<1>10. Pinned(heap)
  BY <1>2 DEF Pinned
<1>11. nextKey \in Nat /\ \A k \in DOMAIN heap : k \in Nat /\ k < nextKey
  BY <1>1, <1>2, <1>6, <1>7
<1>12. saved \in Seq(Seq(Value)) /\ Len(saved) = Len(frames)
  <2>1. Len(saved) = 1 /\ Len(frames) = 1
    BY <1>1, <1>3
  <2>2. <<>> \in Seq(Value)
    OBVIOUS
  <2> QED
    BY <1>1, <2>1, <2>2
<1>13. added \in Nat /\ threshold \in Nat \ {0}
  BY <1>1, VMAssumption
<1>14. Basics
  BY <1>1, <1>4, <1>9, <1>10, <1>11, <1>12, <1>13 DEF Basics
<1>15. ASSUME NEW K, KeysPushed \subseteq K PROVE Held(K, {})
  <2>1. GlobalsOver(globals, K)
    <3> SUFFICES ASSUME NEW id \in Range(BuiltinIds)
                 PROVE  RefV(BuiltinKey(id)) \in ValuesOver(K)
      BY <1>1 DEF GlobalsOver
    <3>1. BuiltinKey(id) \in DOMAIN BuiltinIds /\ BuiltinKey(id) \in Nat
      BY BuiltinKeys
    <3>2. BuiltinKey(id) \in K
      BY <1>15, <3>1 DEF KeysPushed, PinnedKeys
    <3> QED
      BY <3>1, <3>2, Primitives
  <2>2. UpvaluesOver(upv, K, {})
    BY <1>1 DEF UpvaluesOver
  <2>3. CellsOver(heap, Chunks, K, {})
    BY <1>2, <1>7 DEF CellsOver
  <2>4. stack \in Seq(ValuesOver(K))
    BY <1>1
  <2> QED
    BY <1>8, <2>1, <2>2, <2>3, <2>4 DEF Held
<1> QED
  BY <1>1, <1>2, <1>14, <1>15

(* What the program holds is well-typed, whatever was collected.           *)
LEMMA PinnedAreKeys ==
  ASSUME Basics
  PROVE  /\ PinnedKeys \subseteq Nat /\ PinnedKeys \subseteq DOMAIN heap
         /\ KeysPushed \subseteq PinnedKeys
<1>1. bytecode.consts \in Seq(Datum(Chunks)) /\ Pinned(heap)
  BY BasicParts
<1>2. KeysPushed \subseteq PinnedKeys
  BY DEF KeysPushed
<1> QED
  BY <1>1, <1>2, PinnedCells DEF Pinned

LEMMA OverLeft ==
  ASSUME NEW K, NEW U, NEW h, NEW st, Basics, Turn(K, U, h, st)
  PROVE  /\ stack' \in Seq(ValuesOver(K \cup NewKeys))
         /\ GlobalsOver(globals', K \cup NewKeys)
         /\ frames' \in Seq(FrameOver(Chunks, K \cup NewKeys, U \cup NewCells))
         /\ UpvaluesOver(upv', K \cup NewKeys, U \cup NewCells)
         /\ CellsOver(heap', Chunks, K \cup NewKeys, U \cup NewCells)
<1>1. Over(K \cup NewKeys, U \cup NewCells, h, st)
  BY DEF Turn
<1>2. DOMAIN heap' \subseteq DOMAIN h /\ \A k \in DOMAIN heap' : heap'[k] = h[k]
  BY TurnKeeps
<1>3. CellsOver(heap', Chunks, K \cup NewKeys, U \cup NewCells)
  BY <1>1, <1>2 DEF Over, CellsOver
<1>4. stack' \in Seq(ValuesOver(K \cup NewKeys))
  <2> DEFINE S == ValuesOver(K \cup NewKeys)
  <2>1. st \in Seq(S)
    BY <1>1 DEF Over
  <2>2. stack' = st \/ \E v \in S : stack' = Append(st, v)
    BY DEF Turn
  <2> HIDE DEF S
  <2>3. stack' \in Seq(S)
    BY <2>1, <2>2
  <2> QED
    BY <2>3 DEF S
<1> QED
  BY <1>1, <1>3, <1>4 DEF Over

(* What is over keys that include all those still to be handed out stays   *)
(* over them.                                                              *)
LEMMA StillOver ==
  ASSUME NEW K, Sound(K, DOMAIN upv), \A k \in Nat : k >= nextKey => k \in K, [Next]_vars
  PROVE  /\ stack' \in Seq(ValuesOver(K))
         /\ GlobalsOver(globals', K)
         /\ frames' \in Seq(FrameOver(Chunks, K, DOMAIN upv'))
         /\ UpvaluesOver(upv', K, DOMAIN upv')
         /\ CellsOver(heap', Chunks, K, DOMAIN upv')
         /\ Chunks' = Chunks /\ bytecode' = bytecode
<1> DEFINE U == DOMAIN upv
<1>1. Basics /\ Held(K, U)
  BY DEF Sound
<1> HIDE DEF U
<1>2. PICK h, st : Turn(K, U, h, st)
  BY NextTurns DEF Turns, U
<1>3. /\ stack' \in Seq(ValuesOver(K \cup NewKeys))
      /\ GlobalsOver(globals', K \cup NewKeys)
      /\ frames' \in Seq(FrameOver(Chunks, K \cup NewKeys, U \cup NewCells))
      /\ UpvaluesOver(upv', K \cup NewKeys, U \cup NewCells)
      /\ CellsOver(heap', Chunks, K \cup NewKeys, U \cup NewCells)
  BY <1>1, <1>2, OverLeft
<1>4. K \cup NewKeys = K
  <2>1. nextKey \in Nat /\ nextKey' \in Nat
    BY <1>1, <1>2, BasicParts DEF Turn
  <2>2. \A k \in NewKeys : k \in Nat /\ k >= nextKey
    BY <2>1 DEF NewKeys
  <2> QED
    BY <2>2
<1>5. U \cup NewCells = DOMAIN upv'
  <2>1. Len(upv) \in Nat /\ U = 1 .. Len(upv)
    <3>1. upv \in Seq(Value)
      BY <1>1, HeldParts DEF UpvaluesOver
    <3> QED
      BY <3>1 DEF U
  <2>2. Len(upv') \in Nat /\ DOMAIN upv' = 1 .. Len(upv') /\ Len(upv') >= Len(upv)
    <3>1. upv' \in Seq(Value) /\ Len(upv') >= Len(upv)
      BY <1>2, <1>3 DEF UpvaluesOver, Turn
    <3> QED
      BY <3>1
  <2> QED
    BY <2>1, <2>2 DEF NewCells
<1>6. Chunks' = Chunks /\ bytecode' = bytecode
  BY <1>2, SameProgram DEF Turn
<1> QED
  BY <1>3, <1>4, <1>5, <1>6

LEMMA VMInvKept ==
  ASSUME VMInv, [Next]_vars
  PROVE  VMInv'
<1>1. Sound(Nat, DOMAIN upv)
  BY PinnedAreKeys DEF VMInv, Sound
<1>2. Basics'
  BY <1>1, BasicsKept
<1>3. /\ stack' \in Seq(ValuesOver(Nat)) /\ GlobalsOver(globals', Nat)
      /\ frames' \in Seq(FrameOver(Chunks, Nat, DOMAIN upv'))
      /\ UpvaluesOver(upv', Nat, DOMAIN upv') /\ CellsOver(heap', Chunks, Nat, DOMAIN upv')
      /\ Chunks' = Chunks /\ bytecode' = bytecode
  BY <1>1, StillOver
<1>4. Held(Nat, DOMAIN upv)'
  BY <1>3 DEF Held, GlobalsOver, UpvaluesOver, CellsOver, FrameOver, CellOver, FunctionOver, Signed
<1> QED
  BY <1>2, <1>4 DEF VMInv

LEMMA VMInvTypes ==
  ASSUME VMInv
  PROVE  TypeOK
<1> DEFINE U == DOMAIN upv
<1>1. Basics /\ Held(Nat, U)
  BY DEF VMInv
<1> HIDE DEF U
<1>2. /\ stack \in Seq(ValuesOver(Nat)) /\ GlobalsOver(globals, Nat)
      /\ frames \in Seq(FrameOver(Chunks, Nat, U)) /\ UpvaluesOver(upv, Nat, U)
      /\ CellsOver(heap, Chunks, Nat, U)
  BY <1>1, HeldParts
<1>3. ValuesOver(Nat) \subseteq Value
  BY DEF ValuesOver
<1>4. Seq(ValuesOver(Nat)) \subseteq Seq(Value)
  BY <1>3, SeqMore
<1>5. ASSUME NEW f \in Range(frames)
      PROVE  /\ f.chunk \in Nat /\ f.ip \in Nat /\ f.fp \in Nat
             /\ f.closure \in Value /\ f.ups \in Seq(U) /\ Range(f.captured) \subseteq U
  <2>1. f \in FrameOver(Chunks, Nat, U)
    <3>1. PICK j \in DOMAIN frames : f = frames[j]
      BY DEF Range
    <3> QED
      BY <1>2, <3>1
  <2>2. /\ f.chunk \in 0 .. Chunks - 1 /\ f.ip \in Nat /\ f.fp \in Nat
        /\ f.closure \in ValuesOver(Nat) /\ f.ups \in Seq(U) /\ f.captured \in Captures(U)
    BY <2>1, FrameFields
  <2>3. Range(f.captured) \subseteq U
    BY <2>2, CapturedCells DEF Range
  <2>4. f.chunk \in Nat
    BY <2>2
  <2> QED
    BY <1>3, <2>2, <2>3, <2>4
<1>6. ASSUME NEW k \in DOMAIN heap PROVE heap[k] \in Object
  <2>1. heap[k] \in CellOver(Chunks, Nat, U)
    BY <1>2 DEF CellsOver
  <2>2. DataOver(Nat) \subseteq Object
    BY <1>4 DEF DataOver, Object
  <2>3. FunctionOver(Chunks, Nat, U) \subseteq Object
    BY <1>4 DEF FunctionOver, Object, U
  <2> QED
    BY <2>1, <2>2, <2>3 DEF CellOver, Object
<1>7. Range(globals) \subseteq Value
  BY <1>2, <1>3 DEF GlobalsOver, Range
<1>8. stack \in Seq(Value) /\ upv \in Seq(Value)
  BY <1>2, <1>4 DEF UpvaluesOver
<1>9. /\ ip \in Nat /\ nextKey \in Nat /\ added \in Nat /\ threshold \in Nat \ {0}
      /\ \A k \in DOMAIN heap : k \in Nat /\ k < nextKey
      /\ status \in {"run", "done", "error", "invalid", "endless"}
      /\ Len(saved) = Len(frames)
  BY <1>1 DEF Basics
<1> QED
  BY <1>5, <1>6, <1>7, <1>8, <1>9 DEF TypeOK, U

(* Well-formed bytecode keeps the VM well-typed through every instruction, *)
(* builtin, error and collection, whatever the integer width, the builtins *)
(* and the threshold: frames name chunks and cells that are there, values  *)
(* stay values, and no key is handed out twice.                            *)
THEOREM VMTyped ==
  ASSUME ProgramsWellFormed
  PROVE  Spec => []TypeOK
<1>1. Init => VMInv
  <2> SUFFICES ASSUME Init PROVE VMInv
    OBVIOUS
  <2>1. Basics /\ DOMAIN upv = {} /\ \A K : KeysPushed \subseteq K => Held(K, {})
    BY BasicsAtFirst
  <2>2. KeysPushed \subseteq Nat
    BY <2>1, PinnedAreKeys
  <2> QED
    BY <2>1, <2>2 DEF VMInv
<1>2. VMInv /\ [Next]_vars => VMInv'
  BY VMInvKept
<1>3. VMInv => TypeOK
  BY VMInvTypes
<1> QED
  BY <1>1, <1>2, <1>3, PTL DEF Spec

-----------------------------------------------------------------------------
(* Nothing is lost that can be reached: what the program holds leads to    *)
(* live cells only.                                                        *)
LiveInv == Basics /\ \E U : Held(DOMAIN heap, U)

(* After a collection that left the keys R: the cells of upvalues whose    *)
(* value it left.                                                          *)
Kept(U, u, R) == {c \in U : u[c] \in ValuesOver(R)}

LEMMA StaysOver ==
  ASSUME NEW D, NEW R, NEW vs, vs \subseteq ValuesOver(D), RefsIn(vs) \cap D \subseteq R
  PROVE  vs \subseteq ValuesOver(R)
<1> SUFFICES ASSUME NEW v \in vs, v.t = "ref" PROVE v.k \in R
  BY DEF ValuesOver
<1>1. v.k \in D
  BY DEF ValuesOver
<1>2. v.k \in RefsIn(vs)
  BY DEF RefsIn
<1> QED
  BY <1>1, <1>2

LEMMA SeqStaysOver ==
  ASSUME NEW D, NEW R, NEW s \in Seq(ValuesOver(D)), RefsIn(Range(s)) \cap D \subseteq R
  PROVE  s \in Seq(ValuesOver(R))
<1>1. Range(s) \subseteq ValuesOver(D)
  BY DEF Range
<1>2. Range(s) \subseteq ValuesOver(R)
  BY <1>1, StaysOver
<1> DEFINE S == ValuesOver(R)
           T == ValuesOver(D)
<1>3. s \in Seq(T) /\ \A j \in DOMAIN s : s[j] \in S
  BY <1>2 DEF Range
<1> HIDE DEF S, T
<1>4. s \in Seq(S)
  BY <1>3
<1> QED
  BY <1>4 DEF S

LEMMA CellsStay ==
  ASSUME NEW D, NEW R, NEW U, NEW u, UpvaluesOver(u, D, U),
         NEW cs, cs \subseteq U, RefsIn({u[c] : c \in cs}) \cap D \subseteq R
  PROVE  cs \subseteq Kept(U, u, R)
<1> DEFINE vs == {u[c] : c \in cs}
<1>1. vs \subseteq ValuesOver(D)
  BY DEF UpvaluesOver
<1> RefsIn(vs) \cap D \subseteq R
  OBVIOUS
<1>2. \A c \in cs : u[c] \in vs
  OBVIOUS
<1> HIDE DEF vs
<1>3. vs \subseteq ValuesOver(R)
  BY <1>1, StaysOver
<1> QED
  BY <1>2, <1>3 DEF Kept

LEMMA SeqOfCells ==
  ASSUME NEW S, NEW T, NEW s \in Seq(S), Range(s) \subseteq T
  PROVE  s \in Seq(T)
BY DEF Range

LEMMA RefsInMore ==
  ASSUME NEW A, NEW B, A \subseteq B
  PROVE  RefsIn(A) \subseteq RefsIn(B)
BY DEF RefsIn

(* A cell that the collection left keeps nothing it did not leave.         *)
LEMMA CellStays ==
  ASSUME NEW D, NEW R, NEW U, NEW u, NEW n, UpvaluesOver(u, D, U),
         NEW o \in CellOver(n, D, U), RefsOf(o, u) \cap D \subseteq R
  PROVE  o \in CellOver(n, R, Kept(U, u, R))
<1>1. CASE o \in [t : {"vec"}, es : Seq(ValuesOver(D))]
  <2>1. o.t = "vec" /\ o.es \in Seq(ValuesOver(D)) /\ o = [t |-> "vec", es |-> o.es]
    BY <1>1
  <2>2. RefsOf(o, u) = RefsIn(Range(o.es))
    BY <2>1 DEF RefsOf
  <2>3. o.es \in Seq(ValuesOver(R))
    BY <2>1, <2>2, SeqStaysOver
  <2> QED
    BY <2>1, <2>3 DEF CellOver, DataOver
<1>2. CASE o \in FunctionOver(n, D, U)
  <2>1. /\ o.t = "fun" /\ o.chunk \in 0 .. n - 1 /\ o.arity \in Nat
        /\ o.curried \in Seq(ValuesOver(D)) /\ o.ups \in Seq(U)
        /\ o = [t |-> "fun", chunk |-> o.chunk, arity |-> o.arity, curried |-> o.curried,
                ups |-> o.ups]
    BY <1>2 DEF FunctionOver
  <2> DEFINE cs == Range(o.ups)
             vs == {u[c] : c \in cs}
  <2>2. RefsOf(o, u) = RefsIn(Range(o.curried) \cup vs)
    BY <2>1 DEF RefsOf
  <2>3. RefsIn(Range(o.curried)) \cap D \subseteq R /\ RefsIn(vs) \cap D \subseteq R
    BY <2>2, RefsInMore
  <2>4. o.curried \in Seq(ValuesOver(R))
    BY <2>1, <2>3, SeqStaysOver
  <2>5. cs \subseteq U
    BY <2>1 DEF Range
  <2>6. cs \subseteq Kept(U, u, R)
    BY <2>3, <2>5, CellsStay
  <2>7. o.ups \in Seq(Kept(U, u, R))
    BY <2>1, <2>6, SeqOfCells
  <2>8. Signed(o)
    BY <1>2 DEF FunctionOver
  <2>9. o \in FunctionOver(n, R, Kept(U, u, R))
    BY <2>1, <2>4, <2>7, <2>8 DEF FunctionOver
  <2> QED
    BY <2>9 DEF CellOver
<1>3. CASE o \in [t : {"str"}, s : Seq(Nat)]
  BY <1>3 DEF CellOver, DataOver
<1>4. CASE o \in [t : {"name"}, name : STRING]
  BY <1>4 DEF CellOver
<1>5. CASE o \in [t : {"builtin"}, id : Range(BuiltinIds)]
  BY <1>5 DEF CellOver
<1> QED
  BY <1>1, <1>2, <1>3, <1>4, <1>5 DEF CellOver, DataOver

LEMMA RootParts ==
  ASSUME NEW st, NEW fr, NEW u
  PROVE  /\ RefsIn(Range(st)) \subseteq RootKeys(st, fr, u)
         /\ RefsIn(Range(globals)) \subseteq RootKeys(st, fr, u)
         /\ \A f \in Range(fr) :
              /\ RefsIn({f.closure}) \subseteq RootKeys(st, fr, u)
              /\ RefsIn({u[c] : c \in Range(f.ups) \cup Range(f.captured)})
                   \subseteq RootKeys(st, fr, u)
<1> DEFINE of(f) == {f.closure} \cup {u[c] : c \in Range(f.ups) \cup Range(f.captured)}
           all == Range(st) \cup Range(globals) \cup (UNION {of(f) : f \in Range(fr)})
<1>1. RefsIn(all) \subseteq RootKeys(st, fr, u)
  BY Zenon DEF RootKeys
<1>2. \A f \in Range(fr) : of(f) \subseteq all
  OBVIOUS
<1>3. Range(st) \subseteq all /\ Range(globals) \subseteq all
  OBVIOUS
<1>4. \A f : {f.closure} \subseteq of(f)
             /\ {u[c] : c \in Range(f.ups) \cup Range(f.captured)} \subseteq of(f)
  OBVIOUS
<1> HIDE DEF all, of
<1>5. RefsIn(Range(st)) \subseteq RefsIn(all) /\ RefsIn(Range(globals)) \subseteq RefsIn(all)
  BY <1>3, RefsInMore
<1>6. ASSUME NEW f \in Range(fr)
      PROVE  /\ RefsIn({f.closure}) \subseteq RefsIn(all)
             /\ RefsIn({u[c] : c \in Range(f.ups) \cup Range(f.captured)}) \subseteq RefsIn(all)
  <2>1. RefsIn(of(f)) \subseteq RefsIn(all)
    BY <1>2, RefsInMore
  <2>2. /\ RefsIn({f.closure}) \subseteq RefsIn(of(f))
        /\ RefsIn({u[c] : c \in Range(f.ups) \cup Range(f.captured)}) \subseteq RefsIn(of(f))
    BY <1>4, RefsInMore
  <2> QED
    BY <2>1, <2>2
<1> QED
  BY <1>1, <1>5, <1>6

(* A frame whose cells are roots keeps only what the collection left.      *)
LEMMA FrameStays ==
  ASSUME NEW D, NEW R, NEW U, NEW u, NEW n, UpvaluesOver(u, D, U),
         NEW f \in FrameOver(n, D, U),
         RefsIn({f.closure}) \cap D \subseteq R,
         RefsIn({u[c] : c \in Range(f.ups) \cup Range(f.captured)}) \cap D \subseteq R
  PROVE  f \in FrameOver(n, R, Kept(U, u, R))
<1> DEFINE V == Kept(U, u, R)
<1>1. /\ f = [chunk |-> f.chunk, ip |-> f.ip, fp |-> f.fp, closure |-> f.closure,
              ups |-> f.ups, captured |-> f.captured, discard |-> f.discard]
      /\ f.chunk \in 0 .. n - 1 /\ f.ip \in Nat /\ f.fp \in Nat
      /\ f.closure \in ValuesOver(D) /\ f.ups \in Seq(U)
      /\ f.captured \in Captures(U) /\ f.discard \in BOOLEAN
  BY FrameFields
<1>2. f.closure \in ValuesOver(R)
  <2>1. {f.closure} \subseteq ValuesOver(D)
    BY <1>1
  <2> QED
    BY <2>1, StaysOver
<1>3. Range(f.ups) \subseteq U /\ Range(f.captured) \subseteq U
  BY <1>1, CapturedCells DEF Range
<1>4. Range(f.ups) \subseteq V /\ Range(f.captured) \subseteq V
  <2> DEFINE cs == Range(f.ups) \cup Range(f.captured)
  <2>1. cs \subseteq U
    BY <1>3
  <2>2. cs \subseteq V
    BY <2>1, CellsStay
  <2> QED
    BY <2>2
<1> HIDE DEF V
<1>5. f.ups \in Seq(V)
  BY <1>1, <1>4, SeqOfCells
<1>6. f.captured \in Captures(V)
  BY <1>1, <1>4, CapturedCells DEF Range
<1>7. [chunk |-> f.chunk, ip |-> f.ip, fp |-> f.fp, closure |-> f.closure, ups |-> f.ups,
       captured |-> f.captured, discard |-> f.discard] \in FrameOver(n, R, V)
  BY <1>1, <1>2, <1>5, <1>6, MakeFrame
<1> QED
  BY <1>1, <1>7 DEF V

(* With the roots and all they lead to kept, what the program holds is     *)
(* kept.                                                                   *)
LEMMA CollectionKeeps ==
  ASSUME NEW D, NEW R, NEW U, NEW h, NEW st, Over(D, U, h, st), DOMAIN h = D,
         R \subseteq D, globals' = globals,
         RootKeys(st, frames', upv') \cap D \subseteq R, Referred(R, h, upv') \subseteq R
  PROVE  Over(R, Kept(U, upv', R), [k \in R |-> h[k]], st)
<1> DEFINE V == Kept(U, upv', R)
           roots == RootKeys(st, frames', upv')
<1>1. /\ st \in Seq(ValuesOver(D)) /\ GlobalsOver(globals, D)
      /\ frames' \in Seq(FrameOver(Chunks, D, U)) /\ UpvaluesOver(upv', D, U)
      /\ CellsOver(h, Chunks, D, U)
  BY DEF Over
<1>2. /\ RefsIn(Range(st)) \subseteq roots /\ RefsIn(Range(globals)) \subseteq roots
      /\ \A f \in Range(frames') :
           /\ RefsIn({f.closure}) \subseteq roots
           /\ RefsIn({upv'[c] : c \in Range(f.ups) \cup Range(f.captured)}) \subseteq roots
  BY RootParts
<1> HIDE DEF roots
<1> roots \cap D \subseteq R
  BY DEF roots
<1>3. st \in Seq(ValuesOver(R))
  <2>1. RefsIn(Range(st)) \cap D \subseteq R
    BY <1>2
  <2> QED
    BY <1>1, <2>1, SeqStaysOver
<1>4. GlobalsOver(globals', R)
  <2>1. Range(globals) \subseteq ValuesOver(D)
    BY <1>1 DEF GlobalsOver, Range
  <2>2. RefsIn(Range(globals)) \cap D \subseteq R
    BY <1>2
  <2>3. Range(globals) \subseteq ValuesOver(R)
    BY <2>1, <2>2, StaysOver
  <2> QED
    BY <2>3 DEF GlobalsOver, Range
<1>5. UpvaluesOver(upv', R, V)
  BY <1>1 DEF UpvaluesOver, Kept
<1>6. ASSUME NEW f \in Range(frames') PROVE f \in FrameOver(Chunks, R, V)
  <2>1. f \in FrameOver(Chunks, D, U)
    BY <1>1 DEF Range
  <2>2. RefsIn({f.closure}) \cap D \subseteq R
    BY <1>2
  <2>3. RefsIn({upv'[c] : c \in Range(f.ups) \cup Range(f.captured)}) \cap D \subseteq R
    BY <1>2
  <2> QED
    BY <1>1, <2>1, <2>2, <2>3, FrameStays
<1>7. ASSUME NEW k \in R PROVE h[k] \in CellOver(Chunks, R, V)
  <2>1. h[k] \in CellOver(Chunks, D, U)
    BY <1>1 DEF CellsOver
  <2>2. RefsOf(h[k], upv') \cap D \subseteq R
    BY Zenon, <1>7 DEF Referred
  <2> QED
    BY <1>1, <2>1, <2>2, CellStays
<1> HIDE DEF V
<1>8. frames' \in Seq(FrameOver(Chunks, R, V))
  <2> DEFINE S == FrameOver(Chunks, D, U)
             T == FrameOver(Chunks, R, V)
  <2>1. frames' \in Seq(S) /\ Range(frames') \subseteq T
    BY <1>1, <1>6
  <2> HIDE DEF S, T
  <2>2. frames' \in Seq(T)
    BY <2>1, SeqOfCells
  <2> QED
    BY <2>2 DEF T
<1>9. CellsOver([k \in R |-> h[k]], Chunks, R, V)
  BY <1>7 DEF CellsOver
<1> QED
  BY <1>3, <1>4, <1>5, <1>8, <1>9 DEF Over, V

LEMMA LiveKept ==
  ASSUME LiveInv, Next, ~LosesResult
  PROVE  LiveInv'
<1> DEFINE K == DOMAIN heap
<1>1. PICK U : Basics /\ Held(K, U)
  BY DEF LiveInv
<1>2. Sound(K, U)
  BY <1>1, PinnedAreKeys DEF Sound
<1> HIDE DEF K
<1>3. Basics'
  BY <1>2, BasicsKept
<1>4. PICK h, st : Turn(K, U, h, st)
  BY <1>2, NextTurns DEF Turns
<1> DEFINE D == DOMAIN h
           V == U \cup NewCells
           R == ReachedFrom(h, upv', RootKeys(st, frames', upv'))
<1>5. K \cup NewKeys = D /\ bytecode' = bytecode
  BY <1>4 DEF Turn, K
<1>6. Over(D, V, h, st)
  BY <1>4, <1>5 DEF Turn
<1>7. \/ stack' = st
      \/ HandsBack /\ \E v \in ValuesOver(D) : stack' = Append(st, v)
  BY <1>4, <1>5 DEF Turn
<1>8. heap' = h \/ (globals' = globals /\ heap' = [k \in R |-> h[k]])
  BY <1>4 DEF Turn
<1>9. /\ R \subseteq D /\ RootKeys(st, frames', upv') \cap D \subseteq R
      /\ Referred(R, h, upv') \subseteq R
  <2>1. IsFiniteSet(D)
    BY <1>1, <1>4, TurnKeeps
  <2> QED
    BY <2>1, ReachedFromIsClosed
<1> HIDE DEF V, R
<1>10. PICK W : Over(DOMAIN heap', W, heap', st) /\ DOMAIN heap' \subseteq D
  <2>1. CASE heap' = h
    BY <1>6, <2>1
  <2>2. CASE globals' = globals /\ heap' = [k \in R |-> h[k]]
    <3>1. Over(R, Kept(V, upv', R), [k \in R |-> h[k]], st)
      BY <1>6, <1>9, <2>2, CollectionKeeps
    <3>2. DOMAIN heap' = R
      BY <2>2
    <3> QED
      BY <1>9, <2>2, <3>1, <3>2
  <2> QED
    BY <1>8, <2>1, <2>2
<1> HIDE DEF D
<1>11. stack' \in Seq(ValuesOver(DOMAIN heap'))
  <2> DEFINE S == ValuesOver(DOMAIN heap')
  <2>1. st \in Seq(S)
    BY <1>10 DEF Over
  <2>2. CASE stack' = st
    BY <2>1, <2>2
  <2>3. CASE HandsBack /\ \E v \in ValuesOver(D) : stack' = Append(st, v)
    <3>1. PICK v \in ValuesOver(D) : stack' = Append(st, v)
      BY <2>3
    <3>2. Last(stack') = v
      <4>1. \A s \in Seq(S) : Append(s, v)[Len(Append(s, v))] = v
        <5> HIDE DEF S
        <5> QED
          OBVIOUS
      <4> QED
        BY <2>1, <3>1, <4>1 DEF Last
    <3>3. v.t = "ref" => v.k \in DOMAIN heap'
      BY <2>3, <3>2 DEF LosesResult
    <3>4. v \in S
      BY <3>3 DEF ValuesOver
    <3> HIDE DEF S
    <3>5. stack' \in Seq(S)
      BY <2>1, <3>1, <3>4
    <3> QED
      BY <3>5 DEF S
  <2> QED
    BY <1>7, <2>2, <2>3
<1>12. Chunks' = Chunks /\ bytecode' = bytecode
  BY <1>5, SameProgram
<1>13. Held(DOMAIN heap, W)'
  BY <1>10, <1>11, <1>12 DEF Over, Held, GlobalsOver, UpvaluesOver, CellsOver, FrameOver, CellOver,
     FunctionOver, Signed
<1> QED
  BY <1>3, <1>13 DEF LiveInv

LEMMA LiveInvShows ==
  ASSUME LiveInv
  PROVE  EveryReferenceLive
<1> DEFINE D == DOMAIN heap
<1>1. PICK U : Basics /\ Held(D, U)
  BY DEF LiveInv
<1>2. PinnedKeys \subseteq D
  BY <1>1, PinnedAreKeys
<1> HIDE DEF D
<1>3. /\ stack \in Seq(ValuesOver(D)) /\ GlobalsOver(globals, D)
      /\ frames \in Seq(FrameOver(Chunks, D, U)) /\ UpvaluesOver(upv, D, U)
      /\ CellsOver(heap, Chunks, D, U)
  BY <1>1, HeldParts
<1>4. \A vs : vs \subseteq ValuesOver(D) => RefsIn(vs) \subseteq D
  BY DEF RefsIn, ValuesOver
<1>5. \A cs : cs \subseteq U => {upv[c] : c \in cs} \subseteq ValuesOver(D)
  BY <1>3 DEF UpvaluesOver
<1>6. RootKeys(stack, frames, upv) \subseteq D
  <2> DEFINE of(f) == {f.closure} \cup {upv[c] : c \in Range(f.ups) \cup Range(f.captured)}
             all == Range(stack) \cup Range(globals) \cup (UNION {of(f) : f \in Range(frames)})
  <2>1. Range(stack) \subseteq ValuesOver(D) /\ Range(globals) \subseteq ValuesOver(D)
    BY <1>3 DEF Range, GlobalsOver
  <2>2. ASSUME NEW f \in Range(frames) PROVE of(f) \subseteq ValuesOver(D)
    <3>1. f \in FrameOver(Chunks, D, U)
      BY <1>3 DEF Range
    <3>2. f.closure \in ValuesOver(D) /\ f.ups \in Seq(U) /\ f.captured \in Captures(U)
      BY <3>1, FrameFields
    <3> DEFINE cs == Range(f.ups) \cup Range(f.captured)
    <3>3. cs \subseteq U
      BY <3>2, CapturedCells DEF Range
    <3>4. {upv[c] : c \in cs} \subseteq ValuesOver(D)
      BY <1>5, <3>3
    <3> QED
      BY <3>2, <3>4
  <2>3. all \subseteq ValuesOver(D)
    <3> HIDE DEF of
    <3> QED
      BY <2>1, <2>2
  <2>4. RefsIn(all) \subseteq D
    BY <1>4, <2>3
  <2>5. RootKeys(stack, frames, upv) = PinnedKeys \cup RefsIn(all)
    BY Zenon DEF RootKeys
  <2> QED
    BY <1>2, <2>4, <2>5
<1>7. ASSUME NEW k \in DOMAIN heap PROVE RefsOf(heap[k], upv) \subseteq D
  <2> DEFINE o == heap[k]
  <2>1. o \in CellOver(Chunks, D, U)
    BY <1>3 DEF CellsOver
  <2>2. CASE o.t = "vec"
    <3>1. o.es \in Seq(ValuesOver(D))
      BY <2>1, <2>2, CellFields, DataKinds
    <3>2. Range(o.es) \subseteq ValuesOver(D)
      BY <3>1 DEF Range
    <3>3. RefsOf(o, upv) = RefsIn(Range(o.es))
      BY <2>2 DEF RefsOf
    <3> QED
      BY <1>4, <3>2, <3>3
  <2>3. CASE o.t = "fun"
    <3>1. o.curried \in Seq(ValuesOver(D)) /\ o.ups \in Seq(U)
      BY <2>1, <2>3, CellFields
    <3> DEFINE cs == Range(o.ups)
    <3>2. Range(o.curried) \subseteq ValuesOver(D) /\ cs \subseteq U
      BY <3>1 DEF Range
    <3>3. {upv[c] : c \in cs} \subseteq ValuesOver(D)
      BY <1>5, <3>2
    <3>4. RefsOf(o, upv) = RefsIn(Range(o.curried) \cup {upv[c] : c \in cs})
      BY <2>3 DEF RefsOf
    <3>5. Range(o.curried) \cup {upv[c] : c \in cs} \subseteq ValuesOver(D)
      BY <3>2, <3>3
    <3> QED
      BY <1>4, <3>4, <3>5
  <2>4. CASE o.t \notin {"vec", "fun"}
    BY <2>4 DEF RefsOf
  <2> QED
    BY <2>2, <2>3, <2>4
<1>8. RootKeys(stack, frames, upv) \cup (UNION {RefsOf(heap[k], upv) : k \in DOMAIN heap}) \subseteq D
  BY <1>6, <1>7
<1> QED
  BY <1>8 DEF EveryReferenceLive, D

(* No use after free: as long as no call through a value loses its result  *)
(* while it collects, every reference a root or a live cell holds leads to *)
(* a live cell, in every program and at every threshold - through          *)
(* allocations in the middle of an instruction, closures, curried calls    *)
(* and writes into vectors.                                                *)
THEOREM EveryReferenceStaysLive ==
  ASSUME ProgramsWellFormed
  PROVE  Spec /\ ResultsHandedBack => []EveryReferenceLive
<1>1. Init => LiveInv
  <2> SUFFICES ASSUME Init PROVE LiveInv
    OBVIOUS
  <2>1. /\ Basics /\ DOMAIN heap = PinnedKeys
        /\ \A K : KeysPushed \subseteq K => Held(K, {})
    BY BasicsAtFirst
  <2> QED
    BY <2>1, PinnedAreKeys DEF LiveInv
<1>2. LiveInv /\ [Next]_vars /\ [~LosesResult]_vars => LiveInv'
  <2>1. ASSUME LiveInv, UNCHANGED vars PROVE LiveInv'
    BY <2>1 DEF vars, LiveInv, Held, Basics, GlobalsOver, UpvaluesOver, CellsOver, Chunks,
       Ready, ReadyAt, InCode, Pinned, PinnedKeys, PinnedCell, ConstantKey, NeedsCell,
       FrameOver, CellOver, FunctionOver, Signed
  <2>2. ASSUME LiveInv, Next, ~LosesResult PROVE LiveInv'
    BY <2>2, LiveKept
  <2> QED
    BY <2>1, <2>2
<1>3. LiveInv => EveryReferenceLive
  BY LiveInvShows
<1> QED
  BY <1>1, <1>2, <1>3, PTL DEF Spec, ResultsHandedBack
=============================================================================
