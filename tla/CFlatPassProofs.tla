-------------------------- MODULE CFlatPassProofs --------------------------
(***************************************************************************)
(* Theorems about CFlatPass: for every program that LLVM accepts, runs of  *)
(* any length and calls of any depth.                                      *)
(***************************************************************************)
EXTENDS CFlatPass, SequenceTheorems, TLAPS

-----------------------------------------------------------------------------
(* The inductive invariant.                                                *)

Address == Defined \X Nat \X Nat
HookCalls == [hook : {"record_node", "call_enter", "call_return"}, id : Address]
Frame == [fn : Defined, block : Nat, at : Nat, hooks : Seq(HookCalls), calls : Seq(Address)]

ProgramOK == program \in PassPrograms /\ uninstrumented \subseteq Defined

\* What the pass has inserted so far.
InsertedSoFar(f, b, k) == IF f \in uninstrumented \cup RuntimeNames THEN << >> ELSE Inserted(f, b, k)
InsertedOK ==
  inserted = [f \in Defined |-> [b \in Blocks(f) |-> [k \in Positions(f, b) |-> InsertedSoFar(f, b, k)]]]

\* The hooks of the instruction that a frame is at.
HooksAt(frame) == inserted[frame.fn][frame.block][frame.at]
Fresh(frame) == frame.hooks = HooksAt(frame)
Placed(frame) ==
  /\ frame.block \in Blocks(frame.fn) /\ frame.at \in Positions(frame.fn, frame.block)
  /\ frame.hooks \in {<< >>, HooksAt(frame)}

\* Only the innermost function can have called a hook and not done its
\* instruction yet.
FramesOK ==
  /\ frames \in Seq(Frame)
  /\ frames # << >> => uninstrumented = {}
  /\ \A n \in 1 .. Len(frames) : Placed(frames[n])
  /\ \A n \in 1 .. Len(frames) : n # Len(frames) => Fresh(frames[n])

\* The log is ahead of the path by that hook.
PathOK ==
  log = IF frames # << >> /\ ~Fresh(Top) THEN Append(path, HooksAt(Top)[1]) ELSE path

\* The calls that are open when a frame returns.
CallerCalls(frame) ==
  IF frame.fn \in RuntimeNames THEN frame.calls
  ELSE SubSeq(frame.calls, 1, Len(frame.calls) - 1)
NestOK == \A n \in 2 .. Len(frames) : frames[n - 1].calls = CallerCalls(frames[n])

\* The call stack once the hook of the instruction was called.
OpenThen(frame) ==
  LET op == program[frame.fn][frame.block][frame.at].op
  IN CASE op = "ret" -> CallerCalls(frame)
       [] op = "call" -> Append(frame.calls, <<frame.fn, frame.block, frame.at>>)
       [] OTHER -> frame.calls
OpenOK ==
  /\ log = << >> => open = << >>
  /\ frames # << >> /\ ~unhooked => open = IF Fresh(Top) THEN Top.calls ELSE OpenThen(Top)

PassInv ==
  ProgramOK /\ InsertedOK /\ FramesOK /\ PathOK /\ (~unhooked => NestOK) /\ OpenOK /\ unhooked \in BOOLEAN

-----------------------------------------------------------------------------
(* What is inserted.                                                       *)

LEMMA WellFormedCode ==
  ASSUME ProgramOK, NEW f \in Defined, NEW b \in Blocks(f)
  PROVE  /\ MAIN \in Defined /\ 1 \in Blocks(f) /\ Len(program[f]) \in Nat
         /\ Len(program[f][b]) \in Nat /\ 1 \in Positions(f, b)
         /\ \A k \in Positions(f, b) :
              LET i == program[f][b][k]
              IN /\ i.op \in {"plain", "call", "br", "ret", "unreachable"}
                 /\ k = Len(program[f][b]) <=> i.op \in {"br", "ret", "unreachable"}
                 /\ i.op = "br" => i.targets \in Seq(Blocks(f))
                 /\ i.op = "call" => i.direct \in BOOLEAN
  <1>1. WellFormed(program) /\ MAIN \in Defined
    BY PassAssumption DEF ProgramOK, WellFormed, Defined
  <1>2. Len(program[f]) \in Nat \ {0} /\ WellFormedBlock(program[f][b], Len(program[f]))
    BY <1>1 DEF WellFormed, Blocks, Defined
  <1>3. Len(program[f][b]) \in Nat \ {0}
    BY <1>2 DEF WellFormedBlock
  <1>4. 1 \in Blocks(f) /\ 1 \in Positions(f, b)
    BY <1>2, <1>3 DEF Blocks, Positions
  <1>. QED  BY <1>1, <1>2, <1>3, <1>4 DEF WellFormedBlock, Blocks, Positions

LEMMA EntryBlock ==
  ASSUME ProgramOK, NEW f \in Defined
  PROVE  1 \in Blocks(f) /\ 1 \in Positions(f, 1) /\ MAIN \in Defined
  <1>1. WellFormed(program) /\ MAIN \in Defined
    BY PassAssumption DEF ProgramOK, WellFormed, Defined
  <1>2. Len(program[f]) \in Nat \ {0}
    BY <1>1 DEF WellFormed, Defined
  <1>3. 1 \in Blocks(f)
    BY <1>2 DEF Blocks
  <1>. QED  BY <1>1, <1>3, WellFormedCode

\* At most one hook, and which one.
LEMMA InsertedHook ==
  ASSUME ProgramOK, NEW f \in Defined, NEW b \in Blocks(f), NEW k \in Positions(f, b)
  PROVE  LET i == program[f][b][k]
         IN /\ Inserted(f, b, k) = << >> \/ \E h \in HookCalls : Inserted(f, b, k) = <<h>>
            /\ i.op = "br" => Inserted(f, b, k) = << Hook("record_node", getBBID(f, b)) >>
            /\ i.op = "ret" => Inserted(f, b, k) = << Hook("call_return", getBBID(f, b)) >>
            /\ i.op = "call" =>
                 Inserted(f, b, k) = IF i.direct /\ i.callee \in Defined \ RuntimeNames
                                     THEN << Hook("call_enter", <<f, b, k>>) >> ELSE << >>
            /\ i.op \in {"plain", "unreachable"} => Inserted(f, b, k) = << >>
  <1>. DEFINE i == program[f][b][k]
  <1>1. i.op \in {"plain", "call", "br", "ret", "unreachable"} /\ b \in Nat /\ k \in Nat
    BY WellFormedCode DEF Blocks, Positions
  <1>2. <<f, b, k>> \in Address /\ getBBID(f, b) \in Address
    BY <1>1 DEF Address, getBBID
  <1>3. /\ Hook("record_node", getBBID(f, b)) \in HookCalls
        /\ Hook("call_return", getBBID(f, b)) \in HookCalls
        /\ Hook("call_enter", <<f, b, k>>) \in HookCalls
    BY <1>2 DEF Hook, HookCalls
  <1>. QED  BY <1>1, <1>3 DEF Inserted

\* What is inserted at an instruction that runs.
LEMMA HooksOfStep ==
  ASSUME PassInv, Running
  PROVE  LET ins == HooksAt(Top)
         IN /\ Len(frames) \in Nat \ {0} /\ Top \in Frame /\ Placed(Top)
            /\ Top.fn \in RuntimeNames => ins = << >>
            /\ Top.fn \notin RuntimeNames => ins = Inserted(Top.fn, Top.block, Top.at)
            /\ ins = << >> \/ \E h \in HookCalls : ins = <<h>>
  <1>1. Len(frames) \in Nat \ {0} /\ Top \in Frame
    <2>1. frames \in Seq(Frame) /\ frames # << >>
      BY DEF PassInv, FramesOK, Running
    <2>2. Len(frames) \in Nat \ {0}
      BY <2>1, LenProperties, EmptySeq
    <2>3. Len(frames) \in 1 .. Len(frames)
      BY <2>2
    <2>. QED  BY <2>1, <2>2, <2>3, ElementOfSeq DEF Top
  <1>2. Placed(Top)
    BY <1>1 DEF PassInv, FramesOK, Top
  <1>3. Top.fn \in Defined /\ Top.block \in Blocks(Top.fn) /\ Top.at \in Positions(Top.fn, Top.block)
    BY <1>1, <1>2 DEF Frame, Placed
  <1>4. HooksAt(Top) = InsertedSoFar(Top.fn, Top.block, Top.at) /\ uninstrumented = {}
    BY <1>3 DEF PassInv, InsertedOK, HooksAt, Running
  <1>5. /\ Top.fn \in RuntimeNames => HooksAt(Top) = << >>
        /\ Top.fn \notin RuntimeNames => HooksAt(Top) = Inserted(Top.fn, Top.block, Top.at)
    BY <1>4 DEF InsertedSoFar
  <1>6. HooksAt(Top) = << >> \/ \E h \in HookCalls : HooksAt(Top) = <<h>>
    BY <1>3, <1>5, InsertedHook DEF PassInv
  <1>. QED  BY <1>1, <1>2, <1>5, <1>6

\* The instruction that runs, and its hook.
LEMMA CodeOfStep ==
  ASSUME PassInv, Running
  PROVE  /\ Top.fn \in Defined /\ Top.block \in Blocks(Top.fn)
         /\ Top.at \in Positions(Top.fn, Top.block)
         /\ Top.calls \in Seq(Address) /\ Top.hooks \in Seq(HookCalls)
         /\ Step.op \in {"plain", "call", "br", "ret", "unreachable"}
         /\ Step.op \in {"plain", "call"} => Top.at + 1 \in Positions(Top.fn, Top.block)
         /\ Step.op = "br" => Step.targets \in Seq(Blocks(Top.fn))
         /\ Step.op = "call" => Step.direct \in BOOLEAN
  <1>1. Top \in Frame /\ Placed(Top)
    BY HooksOfStep
  <1>2. /\ Top.fn \in Defined /\ Top.calls \in Seq(Address) /\ Top.hooks \in Seq(HookCalls)
        /\ Top.block \in Blocks(Top.fn) /\ Top.at \in Positions(Top.fn, Top.block)
    BY <1>1 DEF Frame, Placed
  <1>. PICK f, b, k : f = Top.fn /\ b = Top.block /\ k = Top.at
    OBVIOUS
  <1>3. ProgramOK /\ f \in Defined /\ b \in Blocks(f) /\ k \in Positions(f, b) /\ Step = program[f][b][k]
    BY <1>2 DEF PassInv, Step
  <1>4. /\ Len(program[f][b]) \in Nat
        /\ Step.op \in {"plain", "call", "br", "ret", "unreachable"}
        /\ k = Len(program[f][b]) <=> Step.op \in {"br", "ret", "unreachable"}
        /\ Step.op = "br" => Step.targets \in Seq(Blocks(f))
        /\ Step.op = "call" => Step.direct \in BOOLEAN
    BY <1>3, WellFormedCode
  <1>5. Step.op \in {"plain", "call"} => k # Len(program[f][b])
    BY <1>4
  <1>6. Step.op \in {"plain", "call"} => k + 1 \in Positions(f, b)
    BY <1>3, <1>4, <1>5 DEF Positions
  <1>. QED  BY <1>2, <1>4, <1>6

LEMMA HookOfStep ==
  ASSUME PassInv, Running
  PROVE  /\ Top.fn \in RuntimeNames => HooksAt(Top) = << >>
         /\ Step.op \in {"plain", "unreachable"} => HooksAt(Top) = << >>
         /\ Top.fn \notin RuntimeNames =>
              /\ Step.op = "br" => HooksAt(Top) = << Hook("record_node", getBBID(Top.fn, Top.block)) >>
              /\ Step.op = "ret" => HooksAt(Top) = << Hook("call_return", getBBID(Top.fn, Top.block)) >>
              /\ Step.op = "call" =>
                   HooksAt(Top) = IF Step.direct /\ Step.callee \in Defined \ RuntimeNames
                                  THEN << Hook("call_enter", <<Top.fn, Top.block, Top.at>>) >> ELSE << >>
  <1>1. /\ Top.fn \in RuntimeNames => HooksAt(Top) = << >>
        /\ Top.fn \notin RuntimeNames => HooksAt(Top) = Inserted(Top.fn, Top.block, Top.at)
    BY HooksOfStep
  <1>2. ProgramOK
    BY DEF PassInv
  <1>3. /\ Step.op \in {"plain", "unreachable"} => Inserted(Top.fn, Top.block, Top.at) = << >>
        /\ Step.op = "br" =>
             Inserted(Top.fn, Top.block, Top.at) = << Hook("record_node", getBBID(Top.fn, Top.block)) >>
        /\ Step.op = "ret" =>
             Inserted(Top.fn, Top.block, Top.at) = << Hook("call_return", getBBID(Top.fn, Top.block)) >>
        /\ Step.op = "call" =>
             Inserted(Top.fn, Top.block, Top.at) =
               IF Step.direct /\ Step.callee \in Defined \ RuntimeNames
               THEN << Hook("call_enter", <<Top.fn, Top.block, Top.at>>) >> ELSE << >>
    BY <1>2, CodeOfStep, InsertedHook DEF Step
  <1>. QED  BY <1>1, <1>3

-----------------------------------------------------------------------------
(* The frames.                                                             *)

\* A frame that arrives at an instruction.
LEMMA Arrives ==
  ASSUME PassInv, uninstrumented = {}, NEW f \in Defined, NEW b \in Blocks(f),
         NEW k \in Positions(f, b), NEW calls \in Seq(Address)
  PROVE  LET frame == At(f, b, k, calls)
         IN /\ frame \in Frame /\ Placed(frame) /\ Fresh(frame)
            /\ frame.fn = f /\ frame.block = b /\ frame.at = k /\ frame.calls = calls
  <1>1. inserted[f][b][k] = InsertedSoFar(f, b, k)
    BY DEF PassInv, InsertedOK
  <1>2. inserted[f][b][k] \in Seq(HookCalls)
    <2>1. Inserted(f, b, k) = << >> \/ \E h \in HookCalls : Inserted(f, b, k) = <<h>>
      BY InsertedHook DEF PassInv
    <2>2. << >> \in Seq(HookCalls) /\ \A h \in HookCalls : <<h>> \in Seq(HookCalls)
      OBVIOUS
    <2>. QED  BY <1>1, <2>1, <2>2 DEF InsertedSoFar
  <1>3. b \in Nat /\ k \in Nat
    BY WellFormedCode DEF PassInv, Blocks, Positions
  <1>. QED  BY <1>2, <1>3 DEF At, Frame, Placed, Fresh, HooksAt

LEMMA SameFrame ==
  ASSUME UNCHANGED program
  PROVE  Frame' = Frame
  BY DEF Frame, Address, HookCalls, Defined

\* The innermost frame is replaced.
LEMMA Replaced ==
  ASSUME FramesOK, frames # << >>, NEW x \in Frame, Placed(x),
         frames' = Replace(x), UNCHANGED <<program, inserted, uninstrumented>>
  PROVE  /\ FramesOK' /\ frames' # << >> /\ Top' = x /\ (Fresh(Top))' = Fresh(x)
         /\ NestOK /\ x.fn = Top.fn /\ x.calls = Top.calls => NestOK'
  <1>1. /\ Len(frames) \in Nat \ {0} /\ Len(frames) \in 1 .. Len(frames)
        /\ frames \in Seq(Frame)
    BY LenProperties, EmptySeq DEF FramesOK
  <1>2. /\ frames' \in Seq(Frame) /\ Len(frames') = Len(frames) /\ frames'[Len(frames)] = x
        /\ \A n \in 1 .. Len(frames) : n # Len(frames) => frames'[n] = frames[n]
    BY <1>1, ExceptSeq DEF Replace
  <1>3. Top' = x /\ frames' # << >>
    BY <1>1, <1>2 DEF Top
  <1>4. (Fresh(Top))' = Fresh(x)
    BY <1>3 DEF Fresh, HooksAt
  <1>5. FramesOK'
    <2>1. \A n \in 1 .. Len(frames) : Placed(frames'[n])
      BY <1>1, <1>2 DEF FramesOK
    <2>2. \A n \in 1 .. Len(frames) : n # Len(frames) => Fresh(frames'[n])
      BY <1>1, <1>2 DEF FramesOK
    <2>3. (\A n \in 1 .. Len(frames) : Placed(frames[n]))'
      BY <1>2, <2>1 DEF Placed, HooksAt, Blocks, Positions
    <2>4. (\A n \in 1 .. Len(frames) : n # Len(frames) => Fresh(frames[n]))'
      BY <1>2, <2>2 DEF Fresh, HooksAt
    <2>. QED  BY <1>2, <1>3, <2>3, <2>4, SameFrame DEF FramesOK
  <1>6. ASSUME NestOK, x.fn = Top.fn, x.calls = Top.calls
        PROVE  NestOK'
    <2>. SUFFICES ASSUME NEW n \in 2 .. Len(frames)
                  PROVE  frames'[n - 1].calls = CallerCalls(frames'[n])
      BY <1>2 DEF NestOK, CallerCalls
    <2>1. frames[n - 1].calls = CallerCalls(frames[n]) /\ frames'[n - 1] = frames[n - 1]
      BY <1>1, <1>2, <1>6 DEF NestOK
    <2>2. CallerCalls(frames'[n]) = CallerCalls(frames[n])
      BY <1>1, <1>2, <1>6 DEF CallerCalls, Top
    <2>. QED  BY <2>1, <2>2
  <1>. QED  BY <1>3, <1>4, <1>5, <1>6

\* The innermost frame is replaced and another one begins.
LEMMA Pushed ==
  ASSUME FramesOK, frames # << >>, NEW x \in Frame, Placed(x), Fresh(x), NEW y \in Frame, Placed(y),
         frames' = Append(Replace(x), y), UNCHANGED <<program, inserted, uninstrumented>>
  PROVE  /\ FramesOK' /\ frames' # << >> /\ Top' = y /\ (Fresh(Top))' = Fresh(y)
         /\ NestOK /\ x.fn = Top.fn /\ x.calls = Top.calls /\ x.calls = CallerCalls(y) => NestOK'
  <1>1. /\ Len(frames) \in Nat \ {0} /\ Len(frames) \in 1 .. Len(frames)
        /\ frames \in Seq(Frame)
    BY LenProperties, EmptySeq DEF FramesOK
  <1>2. /\ Replace(x) \in Seq(Frame) /\ Len(Replace(x)) = Len(frames) /\ Replace(x)[Len(frames)] = x
        /\ \A n \in 1 .. Len(frames) : n # Len(frames) => Replace(x)[n] = frames[n]
    BY <1>1, ExceptSeq DEF Replace
  <1>3. /\ frames' \in Seq(Frame) /\ Len(frames') = Len(frames) + 1
        /\ frames'[Len(frames) + 1] = y /\ frames'[Len(frames)] = x
        /\ \A n \in 1 .. Len(frames) : n # Len(frames) => frames'[n] = frames[n]
    BY <1>1, <1>2, AppendProperties
  <1>4. Top' = y /\ frames' # << >>
    BY <1>1, <1>3 DEF Top
  <1>5. (Fresh(Top))' = Fresh(y)
    BY <1>4 DEF Fresh, HooksAt
  <1>6. \A n \in 1 .. Len(frames) + 1 : n = Len(frames) + 1 \/ n = Len(frames) \/ (n \in 1 .. Len(frames) /\ n # Len(frames))
    BY <1>1
  <1>7. FramesOK'
    <2>1. \A n \in 1 .. Len(frames) + 1 : Placed(frames'[n])
      BY <1>3, <1>6 DEF FramesOK
    <2>2. \A n \in 1 .. Len(frames) + 1 : n # Len(frames) + 1 => Fresh(frames'[n])
      BY <1>3, <1>6 DEF FramesOK
    <2>3. (\A n \in 1 .. Len(frames) : Placed(frames[n]))'
      BY <1>3, <2>1 DEF Placed, HooksAt, Blocks, Positions
    <2>4. (\A n \in 1 .. Len(frames) : n # Len(frames) => Fresh(frames[n]))'
      BY <1>3, <2>2 DEF Fresh, HooksAt
    <2>. QED  BY <1>3, <1>4, <2>3, <2>4, SameFrame DEF FramesOK
  <1>8. ASSUME NestOK, x.fn = Top.fn, x.calls = Top.calls, x.calls = CallerCalls(y)
        PROVE  NestOK'
    <2>. SUFFICES ASSUME NEW n \in 2 .. Len(frames) + 1
                  PROVE  frames'[n - 1].calls = CallerCalls(frames'[n])
      BY <1>3 DEF NestOK, CallerCalls
    <2>1. CASE n = Len(frames) + 1
      BY <1>1, <1>3, <1>8, <2>1
    <2>2. CASE n # Len(frames) + 1
      <3>1. n \in 2 .. Len(frames) /\ n - 1 \in 1 .. Len(frames) /\ n - 1 # Len(frames)
        BY <1>1, <2>2
      <3>2. frames[n - 1].calls = CallerCalls(frames[n]) /\ frames'[n - 1] = frames[n - 1]
        BY <1>3, <1>8, <3>1 DEF NestOK
      <3>3. frames'[n].fn = frames[n].fn /\ frames'[n].calls = frames[n].calls
        <4>1. CASE n = Len(frames)
          BY <1>3, <1>8, <4>1 DEF Top
        <4>2. CASE n # Len(frames)
          BY <1>1, <1>3, <3>1, <4>2
        <4>. QED  BY <4>1, <4>2
      <3>4. CallerCalls(frames'[n]) = CallerCalls(frames[n])
        BY <3>3 DEF CallerCalls
      <3>. QED  BY <3>2, <3>4
    <2>. QED  BY <2>1, <2>2
  <1>. QED  BY <1>4, <1>5, <1>7, <1>8

\* The innermost frame returns.
LEMMA Popped ==
  ASSUME FramesOK, frames # << >>, frames' = Callers,
         UNCHANGED <<program, inserted, uninstrumented>>
  PROVE  /\ FramesOK'
         /\ frames' # << >> => (Fresh(Top))'
         /\ NestOK => NestOK' /\ (frames' # << >> => (Top.calls)' = CallerCalls(Top))
  <1>1. Len(frames) \in Nat \ {0} /\ frames \in Seq(Frame)
    BY LenProperties, EmptySeq DEF FramesOK
  <1>. DEFINE n == Len(frames) - 1
  <1>2. /\ frames' \in Seq(Frame) /\ Len(frames') = n
        /\ \A k \in 1 .. n : frames'[k] = frames[k]
    <2>1. n \in Nat /\ \A k \in 1 .. n : frames[k] \in Frame
      BY <1>1, ElementOfSeq
    <2>2. /\ Callers \in Seq(Frame) /\ Len(Callers) = (IF 1 <= n THEN n - 1 + 1 ELSE 0)
          /\ \A k \in 1 .. n - 1 + 1 : Callers[k] = frames[1 + k - 1]
      BY <2>1, SubSeqProperties DEF Callers
    <2>3. Len(Callers) = n /\ \A k \in 1 .. n : Callers[k] = frames[k]
      <3>. HIDE DEF n
      <3>1. n \in Nat
        BY <2>1
      <3>2. n - 1 + 1 = n /\ (IF 1 <= n THEN n - 1 + 1 ELSE 0) = n
        BY <3>1
      <3>3. \A k \in 1 .. n : 1 + k - 1 = k
        BY <3>1
      <3>. QED  BY <2>2, <3>2, <3>3
    <2>. QED  BY <2>2, <2>3
  <1>3. \A k \in 1 .. n : k \in 1 .. Len(frames) /\ k # Len(frames)
    BY <1>1
  <1>4. \A k \in 1 .. n : Placed(frames'[k]) /\ Fresh(frames'[k])
    BY <1>2, <1>3 DEF FramesOK
  <1>5. (\A k \in 1 .. Len(frames) : Placed(frames[k]) /\ Fresh(frames[k]))'
    BY <1>2, <1>4 DEF Placed, Fresh, HooksAt, Blocks, Positions
  <1>6. FramesOK'
    BY <1>2, <1>5, SameFrame DEF FramesOK
  <1>7. ASSUME frames' # << >>
        PROVE  n \in 1 .. n /\ Top' = frames[n]
    <2>1. n # 0
      BY <1>2, <1>7, EmptySeq
    <2>. QED  BY <1>1, <1>2, <2>1 DEF Top
  <1>8. frames' # << >> => (Fresh(Top))'
    BY <1>2, <1>5, <1>7 DEF Fresh, HooksAt, Top
  <1>9. ASSUME NestOK
        PROVE  NestOK' /\ (frames' # << >> => (Top.calls)' = CallerCalls(Top))
    <2>1. \A k \in 2 .. n : frames'[k - 1].calls = CallerCalls(frames'[k])
      <3>. SUFFICES ASSUME NEW k \in 2 .. n
                    PROVE  frames'[k - 1].calls = CallerCalls(frames'[k])
        OBVIOUS
      <3>1. k \in 2 .. Len(frames) /\ k \in 1 .. n /\ k - 1 \in 1 .. n
        BY <1>1
      <3>2. frames[k - 1].calls = CallerCalls(frames[k])
        BY <1>9, <3>1 DEF NestOK
      <3>. QED  BY <1>2, <3>1, <3>2
    <2>2. NestOK'
      BY <1>2, <2>1 DEF NestOK, CallerCalls
    <2>3. ASSUME frames' # << >>
          PROVE  (Top.calls)' = CallerCalls(Top)
      <3>1. Len(frames) \in 2 .. Len(frames)
        BY <1>1, <1>7, <2>3
      <3>. QED  BY <1>7, <1>9, <2>3, <3>1 DEF NestOK, Top
    <2>. QED  BY <2>2, <2>3
  <1>. QED  BY <1>6, <1>8, <1>9

-----------------------------------------------------------------------------
(* The steps.                                                              *)

\* Before an instruction runs, its hook was called.
LEMMA AtInstruction ==
  ASSUME PassInv, Running, Top.hooks = << >>
  PROVE  IF HooksAt(Top) = << >>
         THEN Fresh(Top) /\ log = path /\ (~unhooked => open = Top.calls)
         ELSE log = Append(path, HooksAt(Top)[1]) /\ (~unhooked => open = OpenThen(Top))
  <1>1. frames # << >> /\ (Fresh(Top) <=> HooksAt(Top) = << >>)
    BY DEF Running, Fresh
  <1>. QED  BY <1>1 DEF PassInv, PathOK, OpenOK

\* The instruction behind one that does not end the block.
LEMMA PastInstruction ==
  ASSUME PassInv, Running, Step.op \in {"plain", "call"}
  PROVE  /\ Past \in Frame /\ Placed(Past) /\ Fresh(Past)
         /\ Past.fn = Top.fn /\ Past.calls = Top.calls
  <1>1. /\ Top.fn \in Defined /\ Top.block \in Blocks(Top.fn) /\ Top.calls \in Seq(Address)
        /\ Top.at + 1 \in Positions(Top.fn, Top.block) /\ uninstrumented = {}
    BY CodeOfStep DEF Running
  <1>. QED  BY <1>1, Arrives DEF Past

LEMMA CodeKept ==
  ASSUME ProgramOK, InsertedOK, UNCHANGED <<program, inserted, uninstrumented>>
  PROVE  ProgramOK' /\ InsertedOK'
  BY DEF ProgramOK, InsertedOK, InsertedSoFar, Inserted, Hook, getBBID, Defined, Blocks, Positions

LEMMA WithoutAppended ==
  ASSUME NEW S, NEW s \in Seq(S), NEW e \in S
  PROVE  SubSeq(Append(s, e), 1, Len(Append(s, e)) - 1) = s
  <1>. DEFINE t == Append(s, e)  front == SubSeq(t, 1, Len(t) - 1)
  <1>1. Len(s) \in Nat /\ Len(t) - 1 = Len(s) /\ \A i \in 1 .. Len(s) : t[i] = s[i] /\ s[i] \in S
    BY AppendProperties, ElementOfSeq
  <1>2. /\ front \in Seq(S) /\ Len(front) = (IF 1 <= Len(s) THEN Len(s) - 1 + 1 ELSE 0)
        /\ \A i \in 1 .. Len(s) - 1 + 1 : front[i] = t[1 + i - 1]
    <2>1. \A i \in 1 .. Len(s) : t[i] \in S
      BY <1>1
    <2>. HIDE DEF t
    <2>. QED  BY <1>1, <2>1, SubSeqProperties
  <1>3. Len(front) = Len(s) /\ \A i \in 1 .. Len(s) : front[i] = s[i]
    <2>1. \A i \in 1 .. Len(s) : i \in 1 .. Len(s) - 1 + 1 /\ 1 + i - 1 = i
      BY <1>1
    <2>2. Len(front) = Len(s)
      BY <1>1, <1>2
    <2>. HIDE DEF t, front
    <2>. QED  BY <1>1, <1>2, <2>1, <2>2
  <1>. HIDE DEF t, front
  <1>4. front = s
    BY <1>2, <1>3, SeqEqual
  <1>. QED  BY <1>4 DEF t, front

\* An instruction ran: log and path agree again.
LEMMA InstructionRan ==
  ASSUME PassInv, UNCHANGED <<program, inserted, uninstrumented, log, open>>,
         FramesOK', frames' # << >> => (Fresh(Top))', log = path', unhooked' \in BOOLEAN,
         ~unhooked' => NestOK' /\ (frames' # << >> => open = (Top.calls)')
  PROVE  PassInv'
  <1>1. ProgramOK' /\ InsertedOK'
    BY CodeKept DEF PassInv
  <1>2. PathOK'
    BY DEF PathOK
  <1>3. OpenOK'
    BY DEF OpenOK, PassInv
  <1>. QED  BY <1>1, <1>2, <1>3 DEF PassInv

LEMMA StepRun ==
  ASSUME PassInv, NEW f \in uninstrumented, run(f)
  PROVE  PassInv'
  <1>1. /\ UNCHANGED <<program, frames, log, open, path, unhooked>>
        /\ uninstrumented' = uninstrumented \ {f} /\ frames = << >> /\ f \in Defined
    BY DEF run, runVars, PassInv, FramesOK, ProgramOK
  <1>2. ProgramOK'
    BY <1>1 DEF PassInv, ProgramOK, Defined
  <1>3. InsertedOK'
    <2>. DEFINE want(g) == [b \in Blocks(g) |-> [k \in Positions(g, b) |-> InsertedSoFar(g, b, k)]]
                wanted(g) == [b \in Blocks(g) |->
                                [k \in Positions(g, b) |->
                                   IF g \in uninstrumented' \cup RuntimeNames THEN << >> ELSE Inserted(g, b, k)]]
    <2>1. inserted = [g \in Defined |-> want(g)]
      BY DEF PassInv, InsertedOK
    <2>2. inserted' = [g \in Defined |-> wanted(g)]
      <3>1. \A g \in Defined \ {f} : wanted(g) = want(g)
        BY <1>1 DEF InsertedSoFar
      <3>2. CASE f \in RuntimeNames
        <4>1. wanted(f) = want(f) /\ inserted' = inserted
          BY <3>2 DEF InsertedSoFar, run
        <4>2. \A g \in Defined : wanted(g) = want(g)
          BY <3>1, <4>1
        <4>. HIDE DEF want, wanted
        <4>. QED  BY <2>1, <4>1, <4>2
      <3>3. CASE f \notin RuntimeNames
        <4>1. wanted(f) = [b \in Blocks(f) |-> [k \in Positions(f, b) |-> Inserted(f, b, k)]]
          BY <1>1, <3>3
        <4>2. inserted' = [inserted EXCEPT ![f] = wanted(f)]
          BY <3>3, <4>1 DEF run
        <4>. HIDE DEF want, wanted
        <4>. QED  BY <1>1, <2>1, <3>1, <4>2
      <3>. QED  BY <3>2, <3>3
    <2>. QED  BY <1>1, <2>2 DEF InsertedOK, InsertedSoFar, Inserted, Hook, getBBID, Defined, Blocks, Positions
  <1>4. FramesOK'
    BY <1>1, SameFrame DEF PassInv, FramesOK
  <1>5. PathOK' /\ NestOK' /\ OpenOK'
    BY <1>1 DEF PassInv, PathOK, NestOK, OpenOK
  <1>. QED  BY <1>1, <1>2, <1>3, <1>4, <1>5 DEF PassInv

LEMMA StepStart ==
  ASSUME PassInv, Start
  PROVE  PassInv'
  <1>. PICK y : y = At(MAIN, 1, 1, << >>)
    OBVIOUS
  <1>1. /\ uninstrumented = {} /\ frames = << >> /\ log = << >> /\ frames' = <<y>>
        /\ UNCHANGED <<program, inserted, uninstrumented, log, open, path, unhooked>>
    BY DEF Start
  <1>2. MAIN \in Defined
    BY PassAssumption DEF PassInv, ProgramOK, WellFormed, Defined
  <1>3. y \in Frame /\ Placed(y) /\ Fresh(y) /\ y.calls = << >>
    <2>1. 1 \in Blocks(MAIN) /\ 1 \in Positions(MAIN, 1)
      BY <1>2, EntryBlock DEF PassInv
    <2>2. << >> \in Seq(Address)
      OBVIOUS
    <2>3. y \in Frame /\ Placed(y) /\ Fresh(y)
      BY <1>1, <1>2, <2>1, <2>2, Arrives
    <2>. QED  BY <2>3 DEF At
  <1>4. frames' # << >> /\ Top' = y /\ Len(frames') = 1 /\ frames'[1] = y
    BY <1>1 DEF Top
  <1>5. (Fresh(Top))' /\ (Placed(y))'
    BY <1>1, <1>3, <1>4 DEF Fresh, HooksAt, Placed, Blocks, Positions
  <1>6. FramesOK'
    <2>1. frames' \in Seq(Frame)
      BY <1>1, <1>3
    <2>2. (\A n \in 1 .. Len(frames) : Placed(frames[n]))'
      BY <1>4, <1>5 DEF Placed, HooksAt, Blocks, Positions
    <2>. QED  BY <1>1, <1>4, <2>1, <2>2, SameFrame DEF FramesOK
  <1>7. NestOK'
    BY <1>4 DEF NestOK
  <1>8. log = path' /\ open = << >>
    BY <1>1 DEF PassInv, PathOK, OpenOK
  <1>. QED  BY <1>1, <1>3, <1>4, <1>5, <1>6, <1>7, <1>8, InstructionRan DEF PassInv

LEMMA StepCallHook ==
  ASSUME PassInv, CallHook
  PROVE  PassInv'
  <1>. PICK h : h = Head(Top.hooks)
    OBVIOUS
  <1>. PICK x : x = [Top EXCEPT !.hooks = Tail(@)]
    OBVIOUS
  <1>1. /\ Running /\ Top.hooks # << >> /\ frames' = Replace(x)
        /\ log' = Append(log, h) /\ open' = OpenAfter(h)
        /\ UNCHANGED <<program, inserted, uninstrumented, path, unhooked>>
    BY DEF CallHook
  <1>2. Top \in Frame /\ Placed(Top) /\ HooksAt(Top) = <<h>> /\ Top.hooks = <<h>>
    BY <1>1, HooksOfStep DEF Placed
  <1>3. /\ Fresh(Top) /\ log = path /\ (~unhooked => open = Top.calls) /\ Tail(Top.hooks) = << >>
        /\ Top.fn \notin RuntimeNames
    BY <1>1, <1>2, HooksOfStep DEF Fresh, Running, PassInv, PathOK, OpenOK
  <1>4. /\ x \in Frame /\ x.fn = Top.fn /\ x.block = Top.block /\ x.at = Top.at
        /\ x.calls = Top.calls /\ x.hooks = Tail(Top.hooks)
    <2>1. Top.hooks \in Seq(HookCalls)
      BY <1>1, CodeOfStep
    <2>2. Tail(Top.hooks) \in Seq(HookCalls)
      BY <1>1, <2>1
    <2>. QED  BY <1>2, <2>2 DEF Frame
  <1>5. Placed(x) /\ HooksAt(x) = <<h>> /\ ~Fresh(x)
    <2>1. HooksAt(x) = <<h>>
      BY <1>2, <1>4 DEF HooksAt
    <2>2. x.hooks \in {<< >>, HooksAt(x)} /\ x.hooks # <<h>>
      BY <1>3, <1>4
    <2>. QED  BY <1>2, <1>4, <2>1, <2>2 DEF Placed, Fresh
  <1>6. /\ FramesOK' /\ frames' # << >> /\ Top' = x /\ ~(Fresh(Top))'
        /\ NestOK => NestOK'
    BY <1>1, <1>4, <1>5, Replaced DEF PassInv, Running
  <1>7. PathOK'
    BY <1>1, <1>3, <1>5, <1>6 DEF PathOK, HooksAt
  <1>8. OpenOK'
    <2>2. ASSUME ~unhooked
          PROVE  open' = OpenThen(Top)
      <3>1. h = <<h>>[1] /\ <<h>> # << >>
        OBVIOUS
      <3>2. \/ Step.op = "br" /\ h.hook = "record_node"
            \/ Step.op = "ret" /\ h.hook = "call_return"
            \/ Step.op = "call" /\ h.hook = "call_enter" /\ h.id = <<Top.fn, Top.block, Top.at>>
        <4>1. HooksAt(Top) # << >> /\ HooksAt(Top)[1] = h
          BY <1>2, <3>1
        <4>2. CASE Step.op \in {"plain", "unreachable"}
          BY <1>1, <4>1, <4>2, HookOfStep
        <4>3. CASE Step.op = "br"
          BY <1>1, <1>3, <4>1, <4>3, HookOfStep DEF Hook
        <4>4. CASE Step.op = "ret"
          BY <1>1, <1>3, <4>1, <4>4, HookOfStep DEF Hook
        <4>5. CASE Step.op = "call"
          BY <1>1, <1>3, <4>1, <4>5, HookOfStep DEF Hook
        <4>. QED  BY <1>1, <4>2, <4>3, <4>4, <4>5, CodeOfStep
      <3>3. CASE Step.op = "br" /\ h.hook = "record_node"
        BY <1>1, <1>3, <2>2, <3>3 DEF OpenAfter, OpenThen, Step
      <3>4. CASE Step.op = "ret" /\ h.hook = "call_return"
        <4>1. open = << >> => SubSeq(open, 1, Len(open) - 1) = open
          OBVIOUS
        <4>2. open' = SubSeq(open, 1, Len(open) - 1)
          BY <1>1, <3>4, <4>1 DEF OpenAfter
        <4>3. OpenThen(Top) = SubSeq(Top.calls, 1, Len(Top.calls) - 1)
          BY <1>3, <3>4 DEF OpenThen, CallerCalls, Step
        <4>. QED  BY <1>3, <2>2, <4>2, <4>3
      <3>5. CASE Step.op = "call" /\ h.hook = "call_enter" /\ h.id = <<Top.fn, Top.block, Top.at>>
        BY <1>1, <1>3, <2>2, <3>5 DEF OpenAfter, OpenThen, Step
      <3>. QED  BY <3>2, <3>3, <3>4, <3>5
    <2>3. log' # << >>
      BY <1>1
    <2>4. (OpenThen(Top))' = OpenThen(Top)
      BY <1>1, <1>4, <1>6 DEF OpenThen, CallerCalls
    <2>. QED  BY <1>1, <1>6, <2>2, <2>3, <2>4 DEF OpenOK
  <1>. QED  BY <1>1, <1>6, <1>7, <1>8, CodeKept DEF PassInv

LEMMA StepRunPlain ==
  ASSUME PassInv, RunPlain
  PROVE  PassInv'
  <1>1. /\ Running /\ Top.hooks = << >> /\ Step.op = "plain" /\ frames' = Replace(Past)
        /\ UNCHANGED <<program, inserted, uninstrumented, log, open, path, unhooked>>
    BY DEF RunPlain, Runs
  <1>2. HooksAt(Top) = << >>
    BY <1>1, HookOfStep
  <1>3. log = path /\ (~unhooked => open = Top.calls)
    BY <1>1, <1>2, AtInstruction
  <1>. PICK x : x = Past
    OBVIOUS
  <1>4. x \in Frame /\ Placed(x) /\ Fresh(x) /\ x.fn = Top.fn /\ x.calls = Top.calls
    BY <1>1, PastInstruction
  <1>5. FramesOK' /\ Top' = x /\ (Fresh(Top))' /\ (NestOK => NestOK')
    BY <1>1, <1>4, Replaced DEF PassInv, Running
  <1>. QED  BY <1>1, <1>3, <1>4, <1>5, InstructionRan DEF PassInv

LEMMA StepCallDefined ==
  ASSUME PassInv, CallDefined
  PROVE  PassInv'
  <1>. PICK address : address = <<Top.fn, Top.block, Top.at>>
    OBVIOUS
  <1>. DEFINE hooked == Step.direct /\ Top.fn \notin RuntimeNames
              inRuntime == Step.callee \in RuntimeNames
  <1>. PICK x : x = Past
    OBVIOUS
  <1>. PICK callee : callee = Step.callee
    OBVIOUS
  <1>. PICK calls : calls = IF inRuntime THEN Top.calls ELSE Append(Top.calls, address)
    OBVIOUS
  <1>. PICK y : y = At(callee, 1, 1, calls)
    OBVIOUS
  <1>1. /\ Running /\ Top.hooks = << >> /\ Step.op = "call" /\ Step.callee \in Defined
        /\ frames' = Append(Replace(x), y)
        /\ UNCHANGED <<program, inserted, uninstrumented, log, open>>
    BY DEF CallDefined, Runs
  <1>2. /\ inRuntime => UNCHANGED <<path, unhooked>>
        /\ ~inRuntime /\ hooked => path' = Append(path, Hook("call_enter", address))
        /\ ~inRuntime /\ ~hooked => path' = path
        /\ ~inRuntime => unhooked' = (unhooked \/ ~hooked)
    BY DEF CallDefined
  <1>3. Top \in Frame /\ Top.calls \in Seq(Address) /\ Step.direct \in BOOLEAN
    BY <1>1, HooksOfStep, CodeOfStep
  <1>4. address \in Address /\ Append(Top.calls, address) \in Seq(Address)
    BY <1>3 DEF Address, Frame
  <1>6. HooksAt(Top) = IF ~inRuntime /\ hooked THEN << Hook("call_enter", address) >> ELSE << >>
    BY <1>1, <1>3, HookOfStep
  <1>7. /\ x \in Frame /\ Placed(x) /\ Fresh(x) /\ x.fn = Top.fn /\ x.calls = Top.calls
    BY <1>1, PastInstruction
  <1>8. /\ y \in Frame /\ Placed(y) /\ Fresh(y) /\ y.fn = callee /\ y.calls = calls
    <2>1. ProgramOK /\ uninstrumented = {} /\ callee \in Defined
      BY <1>1 DEF PassInv, Running
    <2>2. 1 \in Blocks(callee) /\ 1 \in Positions(callee, 1)
      BY <2>1, EntryBlock
    <2>3. calls \in Seq(Address)
      BY <1>3, <1>4
    <2>4. y \in Frame /\ Placed(y) /\ Fresh(y)
      BY <2>1, <2>2, <2>3, Arrives
    <2>. QED  BY <2>4 DEF At
  <1>9. CallerCalls(y) = Top.calls
    <2>1. CASE inRuntime
      BY <1>8, <2>1 DEF CallerCalls
    <2>2. CASE ~inRuntime
      <3>1. CallerCalls(y) = SubSeq(calls, 1, Len(calls) - 1)
        BY <1>8, <2>2 DEF CallerCalls
      <3>2. calls = Append(Top.calls, address)
        BY <2>2, Zenon
      <3>3. SubSeq(Append(Top.calls, address), 1, Len(Append(Top.calls, address)) - 1) = Top.calls
        BY <1>3, <1>4, WithoutAppended
      <3>. QED  BY <3>1, <3>2, <3>3, Zenon
    <2>. QED  BY <2>1, <2>2
  <1>10. FramesOK' /\ frames' # << >> /\ Top' = y /\ (Fresh(Top))' /\ (NestOK => NestOK')
    BY <1>1, <1>7, <1>8, <1>9, Pushed DEF PassInv, Running
  <1>11. log = path'
    BY <1>1, <1>2, <1>6, AtInstruction
  <1>12. unhooked' \in BOOLEAN
    BY <1>2, <1>3 DEF PassInv
  <1>13. ASSUME ~unhooked'
         PROVE  ~unhooked /\ open = y.calls
    <2>1. ~unhooked /\ (inRuntime \/ hooked)
      BY <1>2, <1>3, <1>12, <1>13 DEF PassInv
    <2>2. CASE inRuntime
      BY <1>1, <1>6, <1>8, <2>1, <2>2, AtInstruction
    <2>3. CASE ~inRuntime /\ hooked
      <3>1. HooksAt(Top) # << >>
        BY <1>6, <2>3
      <3>2. open = OpenThen(Top)
        BY <1>1, <2>1, <3>1, AtInstruction
      <3>3. OpenThen(Top) = Append(Top.calls, address)
        BY <1>1 DEF OpenThen, Step
      <3>. QED  BY <1>8, <2>1, <2>3, <3>2, <3>3
    <2>. QED  BY <2>1, <2>2, <2>3
  <1>. QED  BY <1>1, <1>10, <1>11, <1>12, <1>13, InstructionRan DEF PassInv

LEMMA StepCallExternal ==
  ASSUME PassInv, CallExternal
  PROVE  PassInv'
  <1>. PICK x : x = Past
    OBVIOUS
  <1>1. /\ Running /\ Top.hooks = << >> /\ Step.op = "call" /\ Step.callee \notin Defined
        /\ UNCHANGED <<program, inserted, uninstrumented, log, open, path>>
    BY DEF CallExternal, Runs
  <1>2. Top.calls \in Seq(Address)
    BY <1>1, CodeOfStep
  <1>3. HooksAt(Top) = << >>
    BY <1>1, HookOfStep
  <1>4. log = path /\ (~unhooked => open = Top.calls)
    BY <1>1, <1>3, AtInstruction
  <1>5. x \in Frame /\ Placed(x) /\ Fresh(x) /\ x.fn = Top.fn /\ x.calls = Top.calls
    BY <1>1, PastInstruction
  <1>6. CASE frames' = Replace(x) /\ UNCHANGED unhooked
    <2>1. FramesOK' /\ Top' = x /\ (Fresh(Top))' /\ (NestOK => NestOK')
      BY <1>1, <1>5, <1>6, Replaced DEF PassInv, Running
    <2>. QED  BY <1>1, <1>4, <1>5, <1>6, <2>1, InstructionRan DEF PassInv
  <1>7. ASSUME NEW f \in Defined, frames' = Append(Replace(x), At(f, 1, 1, Top.calls)), unhooked' = TRUE
        PROVE  PassInv'
    <2>. PICK y : y = At(f, 1, 1, Top.calls)
      OBVIOUS
    <2>1. 1 \in Blocks(f) /\ 1 \in Positions(f, 1) /\ uninstrumented = {}
      BY <1>1, EntryBlock DEF PassInv, Running
    <2>2. y \in Frame /\ Placed(y) /\ Fresh(y)
      BY <1>2, <2>1, Arrives
    <2>3. FramesOK' /\ (Fresh(Top))'
      BY <1>1, <1>5, <1>7, <2>2, Pushed DEF PassInv, Running
    <2>. QED  BY <1>1, <1>4, <1>7, <2>3, InstructionRan
  <1>. QED  BY <1>6, <1>7 DEF CallExternal

\* What the path says of a branch or of a return is what the hook said.
LEMMA NotedAsLogged ==
  ASSUME PassInv, Running, Top.hooks = << >>, NEW name,
         (Step.op = "br" /\ name = "record_node") \/ (Step.op = "ret" /\ name = "call_return")
  PROVE  log = Noted(Hook(name, getBBID(Top.fn, Top.block)))
  <1>. PICK h : h = Hook(name, getBBID(Top.fn, Top.block))
    OBVIOUS
  <1>1. CASE Top.fn \in RuntimeNames
    <2>1. HooksAt(Top) = << >>
      BY <1>1, HookOfStep
    <2>. QED  BY <1>1, <2>1, AtInstruction DEF Noted
  <1>2. CASE Top.fn \notin RuntimeNames
    <2>1. HooksAt(Top) = << Hook(name, getBBID(Top.fn, Top.block)) >>
      <3>1. CASE Step.op = "br" /\ name = "record_node"
        BY <1>2, <3>1, HookOfStep
      <3>2. CASE Step.op = "ret" /\ name = "call_return"
        BY <1>2, <3>2, HookOfStep
      <3>. QED  BY <3>1, <3>2
    <2>2. HooksAt(Top) # << >> /\ HooksAt(Top)[1] = h
      BY <2>1
    <2>. QED  BY <1>2, <2>2, AtInstruction DEF Noted
  <1>. QED  BY <1>1, <1>2

LEMMA StepTakeBranch ==
  ASSUME PassInv, TakeBranch
  PROVE  PassInv'
  <1>1. /\ Running /\ Top.hooks = << >> /\ Step.op = "br"
        /\ UNCHANGED <<program, inserted, uninstrumented, log, open, unhooked>>
        /\ path' = Noted(Hook("record_node", getBBID(Top.fn, Top.block)))
    BY DEF TakeBranch, Runs
  <1>2. PICK k \in 1 .. Len(Step.targets) : frames' = Replace(At(Top.fn, Step.targets[k], 1, Top.calls))
    BY DEF TakeBranch
  <1>. PICK x : x = At(Top.fn, Step.targets[k], 1, Top.calls)
    OBVIOUS
  <1>3. Top.fn \in Defined /\ Top.calls \in Seq(Address) /\ Step.targets \in Seq(Blocks(Top.fn))
    BY <1>1, CodeOfStep
  <1>4. Step.targets[k] \in Blocks(Top.fn)
    BY <1>3, ElementOfSeq
  <1>5. x \in Frame /\ Placed(x) /\ Fresh(x) /\ x.fn = Top.fn /\ x.calls = Top.calls
    <2>1. 1 \in Positions(Top.fn, Step.targets[k]) /\ uninstrumented = {}
      BY <1>1, <1>3, <1>4, WellFormedCode DEF PassInv, Running
    <2>2. x \in Frame /\ Placed(x) /\ Fresh(x)
      BY <1>3, <1>4, <2>1, Arrives
    <2>. QED  BY <2>2 DEF At
  <1>6. FramesOK' /\ Top' = x /\ (Fresh(Top))' /\ (NestOK => NestOK')
    BY <1>1, <1>2, <1>5, Replaced DEF PassInv, Running
  <1>7. log = path'
    BY <1>1, NotedAsLogged
  <1>8. ~unhooked => open = Top.calls
    BY <1>1, AtInstruction DEF OpenThen, Step
  <1>. QED  BY <1>1, <1>5, <1>6, <1>7, <1>8, InstructionRan DEF PassInv

LEMMA StepReturn ==
  ASSUME PassInv, Return
  PROVE  PassInv'
  <1>1. /\ Running /\ Top.hooks = << >> /\ Step.op = "ret" /\ frames' = Callers
        /\ UNCHANGED <<program, inserted, uninstrumented, log, open, unhooked>>
        /\ path' = Noted(Hook("call_return", getBBID(Top.fn, Top.block)))
    BY DEF Return, Runs
  <1>2. /\ FramesOK' /\ (frames' # << >> => (Fresh(Top))')
        /\ NestOK => NestOK' /\ (frames' # << >> => (Top.calls)' = CallerCalls(Top))
    BY <1>1, Popped DEF PassInv, Running
  <1>3. log = path'
    BY <1>1, NotedAsLogged
  <1>4. ~unhooked => open = CallerCalls(Top)
    <2>1. CASE Top.fn \in RuntimeNames
      <3>1. HooksAt(Top) = << >>
        BY <1>1, <2>1, HookOfStep
      <3>. QED  BY <1>1, <2>1, <3>1, AtInstruction DEF CallerCalls
    <2>2. CASE Top.fn \notin RuntimeNames
      <3>1. HooksAt(Top) = << Hook("call_return", getBBID(Top.fn, Top.block)) >>
        BY <1>1, <2>2, HookOfStep
      <3>2. HooksAt(Top) # << >>
        BY <3>1
      <3>. QED  BY <1>1, <3>2, AtInstruction DEF OpenThen, Step
    <2>. QED  BY <2>1, <2>2
  <1>. QED  BY <1>1, <1>2, <1>3, <1>4, InstructionRan DEF PassInv

LEMMA StepEnd ==
  ASSUME PassInv, End
  PROVE  PassInv'
  <1>1. /\ Running /\ Top.hooks = << >> /\ Step.op = "unreachable" /\ frames' = << >>
        /\ UNCHANGED <<program, inserted, uninstrumented, log, open, path, unhooked>>
    BY DEF End, Runs
  <1>2. HooksAt(Top) = << >>
    BY <1>1, HookOfStep
  <1>3. log = path
    BY <1>1, <1>2, AtInstruction
  <1>4. frames' \in Seq(Frame) /\ Len(frames') = 0
    BY <1>1
  <1>5. FramesOK' /\ NestOK'
    BY <1>1, <1>4, SameFrame DEF FramesOK, NestOK
  <1>. QED  BY <1>1, <1>3, <1>5, InstructionRan DEF PassInv

-----------------------------------------------------------------------------
(* The theorems.                                                           *)

LEMMA PassInvStart == PassInit => PassInv
  <1>. SUFFICES ASSUME PassInit PROVE PassInv
    OBVIOUS
  <1>1. ProgramOK
    BY DEF PassInit, PassInitial, ProgramOK
  <1>2. InsertedOK
    BY DEF PassInit, PassInitial, InsertedOK, InsertedSoFar
  <1>3. frames = << >> /\ log = << >> /\ open = << >> /\ path = << >> /\ unhooked = FALSE
    BY DEF PassInit, PassInitial
  <1>4. FramesOK /\ PathOK /\ NestOK /\ OpenOK
    <2>1. << >> \in Seq(Frame) /\ Len(<< >>) = 0
      OBVIOUS
    <2>. QED  BY <1>3, <2>1 DEF FramesOK, PathOK, NestOK, OpenOK
  <1>. QED  BY <1>1, <1>2, <1>3, <1>4 DEF PassInv

LEMMA PassInvStep == PassInv /\ [PassNext]_passVars => PassInv'
  <1>. SUFFICES ASSUME PassInv, [PassNext]_passVars PROVE PassInv'
    OBVIOUS
  <1>1. CASE UNCHANGED passVars
    <2>1. /\ UNCHANGED <<program, inserted, uninstrumented>>
          /\ UNCHANGED <<frames, log, open, path, unhooked>>
      BY <1>1 DEF passVars, runVars
    <2>2. ProgramOK' /\ InsertedOK'
      BY <2>1, CodeKept DEF PassInv
    <2>3. FramesOK' /\ PathOK' /\ (~unhooked => NestOK') /\ OpenOK'
      BY <2>1, SameFrame DEF PassInv, FramesOK, PathOK, NestOK, OpenOK, OpenThen, CallerCalls,
        Placed, Fresh, HooksAt, Top, Blocks, Positions
    <2>. QED  BY <2>1, <2>2, <2>3 DEF PassInv
  <1>. QED  BY <1>1, StepRun, StepStart, StepCallHook, StepRunPlain, StepCallDefined,
    StepCallExternal, StepTakeBranch, StepReturn, StepEnd DEF PassNext

LEMMA PassInvHolds == PassSpec => []PassInv
  BY PassInvStart, PassInvStep, PTL DEF PassSpec

\* For every program, whatever way it takes: between two instructions, the
\* hooks that the pass put before the instructions, by their form alone, have
\* told what the program did since main began, each event once and in order.
THEOREM HooksTellThePath == PassSpec => []LogIsPath
  <1>1. PassInv => LogIsPath
    BY DEF PassInv, LogIsPath, BetweenInstructions, PathOK, Fresh, HooksAt
  <1>. QED  BY <1>1, PassInvHolds, PTL

\* As long as the functions were entered by direct calls in instrumented code,
\* the calls that call_enter opened and call_return did not close are the ones
\* the program is in, at any depth and in functions of the runtime as well.
THEOREM HooksAreBalanced == PassSpec => []HooksPairCalls
  <1>1. PassInv => HooksPairCalls
    BY DEF PassInv, HooksPairCalls, BetweenInstructions, OpenOK, Fresh, HooksAt, Running
  <1>. QED  BY <1>1, PassInvHolds, PTL

=============================================================================
