------------------------- MODULE LoopProgramProofs -------------------------
(***************************************************************************)
(* Theorems about LoopProgram and CycleIsolation. An attested program is a  *)
(* client of the TA, so what CflatTAProofs proves of any client holds under *)
(* it. Over a TA that always answers, the table of loop records follows the *)
(* nest of a program whose loops are not entered again through recursion;   *)
(* the call stack holds the calls of any program that it has room for, and  *)
(* of no program a call that has returned; and                              *)
(* under a program without recursive loops that finalizes its cycles outside*)
(* loops the TA implements Measurement, and nobody can tell a cycle from one*)
(* that starts from zeroed memory: for every nest and every limit.          *)
(***************************************************************************)
EXTENDS CycleIsolation, CflatTAProofs

FramesOK ==
  /\ needs_reinit \in BOOLEAN
  /\ frames \in Seq(Frame)
  /\ Len(frames) <= MaxNest

\* A step of the program is one of its actions, or none.
LEMMA ProgramCases ==
  ASSUME [ProgNext]_progVars
  PROVE  \/ Start \/ Reinit \/ Finalize \/ GetAuth \/ Iterate \/ ExitLoop
         \/ \E n \in NodeId : RecordNode(n)
         \/ \E n \in NodeId : EnterUnhooked(n)
         \/ \E n \in NodeId : ReturnFromCall(n)
         \/ \E l \in LoopId : EnterLoop(l)
         \/ \E site, caller \in NodeId : EnterCall(site, caller)
         \/ UNCHANGED progVars
  BY DEF ProgNext

LEMMA TopFrameType ==
  ASSUME FramesOK, frames # << >>
  PROVE  /\ TopFrame \in Frame
         /\ TopFrame.kind = "loop" => TopFrame.id \in LoopId
         /\ TopFrame.kind = "call" => TopFrame.id \in NodeId
  <1>1. Len(frames) \in 1 .. Len(frames)
    BY LenProperties, EmptySeq DEF FramesOK
  <1>2. TopFrame \in Frame
    BY <1>1, ElementOfSeq DEF FramesOK, TopFrame
  <1>. QED  BY <1>2 DEF Frame

\* Every step of the program is one that an arbitrary client of the TA may
\* take: the runtime has no way into the TA but its commands.
LEMMA ProgramStepIsClientStep ==
  ASSUME FramesOK, [ProgNext]_progVars
  PROVE  [Next]_vars
  <1>1. CASE Start
    BY <1>1 DEF Start, Next
  <1>2. CASE Reinit
    BY <1>2 DEF Reinit, Next
  <1>3. CASE Finalize
    BY <1>3 DEF Finalize, Next
  <1>4. CASE GetAuth
    BY <1>4 DEF GetAuth, Next
  <1>5. ASSUME NEW n \in NodeId, RecordNode(n) PROVE Next
    BY <1>5 DEF RecordNode, Next
  <1>6. ASSUME NEW n \in NodeId, EnterUnhooked(n) PROVE UNCHANGED vars
    BY <1>6 DEF EnterUnhooked
  <1>7. ASSUME NEW n \in NodeId, ReturnFromCall(n) PROVE Next
    BY <1>7 DEF ReturnFromCall, Next
  <1>8. ASSUME NEW l \in LoopId, EnterLoop(l) PROVE Next
    BY <1>8 DEF EnterLoop, Next
  <1>9. ASSUME NEW site \in NodeId, NEW caller \in NodeId, EnterCall(site, caller)
        PROVE  Next
    BY <1>9 DEF EnterCall, Next
  <1>10. CASE Iterate
    BY <1>10, TopFrameType DEF Iterate, InLoop, Next
  <1>11. CASE ExitLoop
    BY <1>11, TopFrameType DEF ExitLoop, InLoop, Next
  <1>12. CASE UNCHANGED progVars
    BY <1>12 DEF progVars
  <1>. QED
    BY <1>1, <1>2, <1>3, <1>4, <1>5, <1>6, <1>7, <1>8, <1>9, <1>10, <1>11, <1>12,
       ProgramCases

-----------------------------------------------------------------------------
(* The program's stack.                                                    *)

LEMMA PushType ==
  ASSUME FramesOK, Len(frames) < MaxNest, NEW f \in Frame, Push(f)
  PROVE  frames' \in Seq(Frame) /\ Len(frames') <= MaxNest
  BY AppendProperties, LenProperties, ProgramAssumption DEF FramesOK, Push

LEMMA PopType ==
  ASSUME FramesOK, frames # << >>, Pop
  PROVE  frames' \in Seq(Frame) /\ Len(frames') <= MaxNest
  <1>1. Len(frames) \in Nat /\ Len(frames) > 0
    BY LenProperties, EmptySeq DEF FramesOK
  <1>2. \A i \in 1 .. Len(frames) - 1 : frames[i] \in Frame
    BY <1>1, ElementOfSeq DEF FramesOK
  <1>. QED
    BY <1>1, <1>2, SubSeqProperties, ProgramAssumption DEF FramesOK, Pop

LEMMA MarkFrameType ==
  ASSUME NEW f \in Frame, NEW b \in BOOLEAN
  PROVE  [f EXCEPT !.live = b] \in Frame
  <1>. DEFINE Loop == [kind : {"loop"}, id : LoopId, live : BOOLEAN, slot : 0 .. MaxLoopRecords]
              Call == [kind : {"call"}, id : NodeId, live : BOOLEAN, slot : {0}]
  <1>1. CASE f \in Loop
    <2>1. [f EXCEPT !.live = b] \in Loop
      BY <1>1
    <2>. QED  BY <2>1 DEF Frame
  <1>2. CASE f \in Call
    <2>1. [f EXCEPT !.live = b] \in Call
      BY <1>2
    <2>. QED  BY <2>1 DEF Frame
  <1>. QED  BY <1>1, <1>2 DEF Frame

\* The frames as they are, some of them no longer live.
LEMMA MarkType ==
  ASSUME FramesOK, NEW lives \in [1 .. Len(frames) -> BOOLEAN],
         frames' = [k \in 1 .. Len(frames) |-> [frames[k] EXCEPT !.live = lives[k]]]
  PROVE  frames' \in Seq(Frame) /\ Len(frames') <= MaxNest
  <1>1. Len(frames) \in Nat
    BY LenProperties DEF FramesOK
  <1>2. \A k \in 1 .. Len(frames) : [frames[k] EXCEPT !.live = lives[k]] \in Frame
    BY ElementOfSeq, MarkFrameType DEF FramesOK
  <1>3. frames' \in Seq(Frame)
    BY <1>1, <1>2, IsASeq
  <1>4. Len(frames') = Len(frames)
    BY <1>1, <1>3, LenProperties
  <1>. QED
    BY <1>3, <1>4 DEF FramesOK

LEMMA FramesStep ==
  ASSUME TypeOK, FramesOK, [ProgNext]_progVars
  PROVE  FramesOK'
  <1>1. CASE Start
    BY <1>1 DEF Start, FramesOK
  <1>2. CASE Reinit
    <2>. DEFINE lives == [k \in 1 .. Len(frames) |-> FALSE]
    <2>1. frames' = [k \in 1 .. Len(frames) |-> [frames[k] EXCEPT !.live = lives[k]]]
      BY <1>2 DEF Reinit, ForgetFrames
    <2>. QED  BY <1>2, <2>1, MarkType DEF Reinit, FramesOK
  <1>3. CASE Finalize
    <2>. DEFINE lives == [k \in 1 .. Len(frames) |->
                            frames[k].live /\ frames[k].kind = "call"]
    <2>1. frames' = [k \in 1 .. Len(frames) |-> [frames[k] EXCEPT !.live = lives[k]]]
      BY <1>3 DEF Finalize
    <2>2. lives \in [1 .. Len(frames) -> BOOLEAN]
      OBVIOUS
    <2>. QED  BY <1>3, <2>1, <2>2, MarkType DEF Finalize, FramesOK
  <1>4. CASE GetAuth
    BY <1>4 DEF GetAuth, FramesOK
  <1>5. ASSUME NEW n \in NodeId, RecordNode(n) PROVE FramesOK'
    BY <1>5 DEF RecordNode, FramesOK
  <1>6. ASSUME NEW n \in NodeId, EnterUnhooked(n) PROVE FramesOK'
    <2>. DEFINE f == [kind |-> "call", id |-> n, live |-> FALSE, slot |-> 0]
    <2>1. f \in Frame
      BY DEF Frame
    <2>. QED  BY <1>6, <2>1, PushType DEF EnterUnhooked, FramesOK
  <1>7. ASSUME NEW n \in NodeId, ReturnFromCall(n) PROVE FramesOK'
    BY <1>7, PopType DEF ReturnFromCall, InCall, FramesOK
  <1>8. ASSUME NEW l \in LoopId, EnterLoop(l) PROVE FramesOK'
    <2>. DEFINE f == [kind |-> "loop", id |-> l, live |-> ~EnterRefused(l),
                      slot |-> IF EnterRefused(l) THEN 0 ELSE SlotToEnter(l)]
    <2>1. (IF EnterRefused(l) THEN 0 ELSE SlotToEnter(l)) \in 0 .. MaxLoopRecords
      BY SlotToEnterInRange, LimitsAssumption
    <2>2. f \in Frame
      BY <2>1, Zenon DEF Frame
    <2>. QED  BY <1>8, <2>2, PushType DEF EnterLoop, FramesOK
  <1>9. ASSUME NEW site \in NodeId, NEW caller \in NodeId, EnterCall(site, caller)
        PROVE  FramesOK'
    <2>. DEFINE f == [kind |-> "call", id |-> site,
                      live |-> Len(call_stack) < MaxCallDepth, slot |-> 0]
    <2>1. f \in Frame
      BY DEF Frame
    <2>. QED  BY <1>9, <2>1, PushType DEF EnterCall, FramesOK
  <1>10. CASE Iterate
    BY <1>10 DEF Iterate, FramesOK
  <1>11. CASE ExitLoop
    BY <1>11, PopType DEF ExitLoop, InLoop, FramesOK
  <1>12. CASE UNCHANGED progVars
    BY <1>12 DEF progVars, FramesOK
  <1>. QED
    BY <1>1, <1>2, <1>3, <1>4, <1>5, <1>6, <1>7, <1>8, <1>9, <1>10, <1>11, <1>12,
       ProgramCases

-----------------------------------------------------------------------------
(* What holds of every program.                                            *)

LEMMA ProgInitFrames ==
  ASSUME ProgInit
  PROVE  FramesOK
  <1>1. << >> \in Seq(Frame) /\ Len(<< >>) = 0
    BY EmptySeq
  <1>2. needs_reinit \in BOOLEAN
    BY Zenon DEF ProgInit
  <1>3. frames \in Seq(Frame) /\ Len(frames) <= MaxNest
    BY <1>1, ProgramAssumption DEF ProgInit
  <1>. QED  BY <1>2, <1>3, Zenon DEF FramesOK

\* The TA under a program is the TA under some client, whatever the nest of
\* loops and calls and wherever cycles end: all that is proved of CflatTA
\* alone holds of the program's attestations.
THEOREM ProgramIsClient == ProgSpec => Spec
  <1>1. ProgInit => Init /\ FramesOK /\ TypeOK
    BY ProgInitFrames, InitType DEF ProgInit
  <1>2. TypeOK /\ FramesOK /\ [ProgNext]_progVars => [Next]_vars /\ FramesOK' /\ TypeOK'
    BY ProgramStepIsClientStep, FramesStep, StepType
  <1>. QED  BY <1>1, <1>2, PTL DEF ProgSpec, Spec

\* The program's stack holds frames and the TA's state is well typed: in
\* particular the slot that loop_enter takes for a frame is in loops[].
THEOREM ProgramTypeCorrect == ProgSpec => []ProgTypeOK
  <1>1. ProgInit => FramesOK /\ TypeOK
    BY ProgInitFrames, InitType DEF ProgInit
  <1>2. TypeOK /\ FramesOK /\ [ProgNext]_progVars => FramesOK' /\ TypeOK'
    BY ProgramStepIsClientStep, FramesStep, StepType
  <1>3. TypeOK /\ FramesOK => ProgTypeOK
    BY DEF FramesOK, ProgTypeOK
  <1>. QED  BY <1>1, <1>2, <1>3, PTL DEF ProgSpec

\* What the program's cflat_finalize_and_print fetches is complete: no record
\* of a loop the TA accepted is cut off.
THEOREM ProgramAttestationComplete == ProgSpec => []AuthComplete
  BY ProgramIsClient, AttestationComplete

-----------------------------------------------------------------------------
(* The nest of loops: what a loop's exit and iteration do to the table and *)
(* to the hash chain.                                                      *)

\* The allocations of INIT succeed, and every attestation fits the buffer, as
\* the 8192 bytes of cflat_finalize_and_print do.
AlwaysAnswers ==
  /\ ~AllocMayFail
  /\ \A size \in BufferSizes : AuthCapacity <= size

-----------------------------------------------------------------------------
(* The session: nothing panics, and nothing is open before the first INIT. *)

SessionOK ==
  /\ session \in {"closed", "open"}
  /\ hash_op = IF is_initialized THEN "live" ELSE "null"
  /\ ~is_initialized => frames = << >>
  /\ session = "closed" \/ reply.cmd = "OPEN" => ~is_initialized
  /\ reply.cmd = "FINALIZE" => auth_size # 0

LEMMA SessionOKStep ==
  ASSUME AlwaysAnswers, TypeOK, SessionOK, [ProgNext]_progVars
  PROVE  SessionOK'
  <1>. USE DEF SessionOK, Reply, vars, ctxVars, hashVars, authVars
  <1>1. ~DigestPanics /\ hash_op # "freed" /\ ~AllocMayFail
    BY DEF DigestPanics, AlwaysAnswers
  <1>2. ASSUME CmdInit PROVE is_initialized' /\ hash_op' = "live" /\ session' = "open" /\ reply'.cmd = "INIT"
    BY <1>1, <1>2 DEF CmdInit, AllocateDigest
  <1>3. CASE Start
    <2>1. CASE OpenSession
      BY <1>1, <1>3, <2>1 DEF Start, OpenSession, ZeroContext
    <2>2. CASE CmdInit
      BY <1>2, <1>3, <2>2 DEF Start
    <2>. QED  BY <1>3, <2>1, <2>2 DEF Start
  <1>4. CASE Reinit
    BY <1>2, <1>4 DEF Reinit
  <1>5. CASE Finalize
    <2>1. auth_size' # 0
      BY <1>5, AllRecordsFit DEF Finalize, CmdFinalize, HeaderSize, RecordSize, TypeOK
    <2>. QED  BY <1>5, <2>1 DEF Finalize, Backward, Running, CmdFinalize
  <1>6. CASE GetAuth
    BY <1>6 DEF GetAuth, CmdGetAuth
  <1>. DEFINE Kept == /\ is_initialized /\ UNCHANGED <<session, hash_op, is_initialized>>
                      /\ reply'.cmd \notin {"OPEN", "FINALIZE"}
  <1>7. ASSUME Kept PROVE SessionOK'
    BY <1>7
  <1>8. ASSUME NEW n \in NodeId, RecordNode(n) PROVE Kept
    <2>1. is_initialized /\ CmdRecordNode(n)
      BY <1>8 DEF RecordNode, Forward, Running
    <2>2. UNCHANGED <<session, hash_op, is_initialized>>
      BY <1>1, <2>1, Zenon DEF CmdRecordNode
    <2>3. \E res : Reply("RECORD_NODE", res, 0)
      BY <1>1, <2>1, Zenon DEF CmdRecordNode
    <2>4. reply'.cmd = "RECORD_NODE"
      BY <2>3
    <2>. QED  BY <2>1, <2>2, <2>4
  <1>9. ASSUME NEW n \in NodeId, EnterUnhooked(n) PROVE SessionOK'
    BY <1>9 DEF EnterUnhooked, Backward, Running
  <1>10. ASSUME NEW n \in NodeId, ReturnFromCall(n) PROVE Kept
    BY <1>10 DEF ReturnFromCall, Backward, Running, CmdCallReturn
  <1>11. ASSUME NEW l \in LoopId, EnterLoop(l) PROVE Kept
    <2>1. is_initialized /\ CmdLoopEnter(l)
      BY <1>11 DEF EnterLoop, Forward, Running
    <2>2. UNCHANGED <<session, hash_op, is_initialized>>
      BY <1>1, <2>1, Zenon DEF CmdLoopEnter
    <2>3. \E res : Reply("LOOP_ENTER", res, 0)
      BY <1>1, <2>1, Zenon DEF CmdLoopEnter
    <2>4. reply'.cmd = "LOOP_ENTER"
      BY <2>3
    <2>. QED  BY <2>1, <2>2, <2>4
  <1>12. ASSUME NEW site \in NodeId, NEW caller \in NodeId, EnterCall(site, caller)
         PROVE  Kept
    BY <1>12 DEF EnterCall, Forward, Running, CmdCallEnter
  <1>13. CASE Iterate \/ ExitLoop
    <2>1. Kept
      BY <1>13 DEF Iterate, ExitLoop, Backward, Running, CmdLoopIteration, CmdLoopExit
    <2>. QED  BY <1>7, <2>1
  <1>14. CASE UNCHANGED progVars
    BY <1>14 DEF progVars
  <1>. QED
    BY <1>3, <1>4, <1>5, <1>6, <1>7, <1>8, <1>9, <1>10, <1>11, <1>12, <1>13, <1>14,
       ProgramCases

-----------------------------------------------------------------------------
(* The program's stack.                                                    *)

LoopFrames == {k \in 1 .. Len(frames) : frames[k].kind = "loop"}

\* Without recursion the open loops have different identifiers.
IdsDiffer == \A j, k \in LoopFrames : frames[j].id = frames[k].id => j = k

LEMMA PushFrames ==
  ASSUME FramesOK, NEW f \in Frame, Push(f)
  PROVE  /\ 1 .. Len(frames') = (1 .. Len(frames)) \cup {Len(frames) + 1}
         /\ Len(frames) + 1 \notin 1 .. Len(frames)
         /\ \A k \in 1 .. Len(frames) : frames'[k] = frames[k]
         /\ frames'[Len(frames) + 1] = f
  <1>1. Len(frames) \in Nat /\ frames' = Append(frames, f)
    BY LenProperties DEF FramesOK, Push
  <1>2. /\ Len(frames') = Len(frames) + 1
        /\ \A k \in 1 .. Len(frames) : frames'[k] = frames[k]
        /\ frames'[Len(frames) + 1] = f
    BY <1>1, AppendProperties DEF FramesOK
  <1>. QED  BY <1>1, <1>2

LEMMA FrontOfSeq ==
  ASSUME NEW S, NEW s \in Seq(S), s # << >>
  PROVE  /\ SubSeq(s, 1, Len(s) - 1) \in Seq(S)
         /\ Len(SubSeq(s, 1, Len(s) - 1)) = Len(s) - 1
         /\ \A k \in 1 .. Len(s) - 1 : SubSeq(s, 1, Len(s) - 1)[k] = s[k]
  <1>1. Len(s) \in Nat \ {0} /\ \A k \in 1 .. Len(s) - 1 : s[k] \in S
    BY LenProperties, EmptySeq
  <1>. DEFINE m == Len(s) - 1
  <1>2. m \in Nat /\ \A k \in 1 .. m : s[k] \in S
    BY <1>1
  <1>. HIDE DEF m
  <1>3. /\ SubSeq(s, 1, m) \in Seq(S)
        /\ Len(SubSeq(s, 1, m)) = IF 1 <= m THEN m - 1 + 1 ELSE 0
        /\ \A k \in 1 .. m - 1 + 1 : SubSeq(s, 1, m)[k] = s[1 + k - 1]
    BY <1>2, SubSeqProperties
  <1>4. /\ SubSeq(s, 1, m) \in Seq(S) /\ Len(SubSeq(s, 1, m)) = m
        /\ \A k \in 1 .. m : SubSeq(s, 1, m)[k] = s[k]
    BY <1>2, <1>3
  <1>. QED  BY <1>4 DEF m

LEMMA PopFrames ==
  ASSUME FramesOK, frames # << >>, Pop
  PROVE  /\ Len(frames) \in 1 .. Len(frames)
         /\ 1 .. Len(frames') = (1 .. Len(frames)) \ {Len(frames)}
         /\ \A k \in 1 .. Len(frames') : frames'[k] = frames[k]
  <1>1. Len(frames) \in Nat \ {0} /\ frames' = SubSeq(frames, 1, Len(frames) - 1)
    BY LenProperties, EmptySeq DEF FramesOK, Pop
  <1>2. /\ Len(frames') = Len(frames) - 1
        /\ \A k \in 1 .. Len(frames) - 1 : frames'[k] = frames[k]
    BY <1>1, FrontOfSeq DEF FramesOK
  <1>. QED  BY <1>1, <1>2

\* The frames are marked and keep their kind and identifier.
LEMMA MarkFrames ==
  ASSUME FramesOK, NEW lives \in [1 .. Len(frames) -> BOOLEAN],
         frames' = [k \in 1 .. Len(frames) |-> [frames[k] EXCEPT !.live = lives[k]]]
  PROVE  /\ Len(frames') = Len(frames)
         /\ \A k \in 1 .. Len(frames) : /\ frames'[k].kind = frames[k].kind
                                        /\ frames'[k].id = frames[k].id
                                        /\ frames'[k].live = lives[k]
  <1>1. Len(frames) \in Nat /\ \A k \in 1 .. Len(frames) : frames[k] \in Frame
    BY LenProperties, ElementOfSeq DEF FramesOK
  <1>2. frames' \in Seq(Frame)
    BY MarkType
  <1>3. Len(frames') = Len(frames)
    BY <1>1, <1>2, LenProperties
  <1>. QED  BY <1>1, <1>3 DEF Frame

LEMMA LiveLoopsFinite ==
  ASSUME FramesOK
  PROVE  IsFiniteSet(LiveLoops) /\ Cardinality(LiveLoops) \in Nat
  <1>1. IsFiniteSet(1 .. Len(frames))
    BY FS_Interval, LenProperties DEF FramesOK
  <1>2. IsFiniteSet(LiveLoops)
    BY <1>1, FS_Subset DEF LiveLoops
  <1>. QED  BY <1>2, FS_CardinalityType

-----------------------------------------------------------------------------
(* Records and frames.                                                     *)

\* RecordsFollowNest without its count.
NestOK ==
  /\ \A k \in LiveLoops : /\ frames[k].slot \in ActiveSlots
                          /\ loops[frames[k].slot].loop_id = frames[k].id
  /\ \A i \in ActiveSlots : \E k \in LiveLoops : frames[k].slot = i
  /\ \A j, k \in LiveLoops : frames[j].slot = frames[k].slot => j = k

\* The count, as long as the cycle is not finalized.
DepthOK ==
  ~needs_reinit /\ reply.cmd # "FINALIZE" => loop_depth = Cardinality(LiveLoops)

NestInv == IdsDiffer /\ NestOK /\ DepthOK /\ OneRecordPerLoop

ProgOK == TypeOK /\ FramesOK /\ SessionOK /\ ActiveWithinDepth

\* The TA's search by identifier finds the record of the innermost loop, and
\* nothing when it had no room for that loop.
LEMMA OwnRecord ==
  ASSUME FramesOK, IdsDiffer, NestOK, InLoop
  PROVE  ActiveSlotsOf(TopFrame.id) = IF TopFrame.live THEN {TopFrame.slot} ELSE {}
  <1>1. Len(frames) \in LoopFrames
    BY LenProperties, EmptySeq DEF FramesOK, InLoop, LoopFrames, TopFrame
  <1>2. LiveLoops \subseteq LoopFrames
    BY DEF LiveLoops, LoopFrames
  <1>3. ASSUME NEW i \in ActiveSlotsOf(TopFrame.id)
        PROVE  TopFrame.live /\ i = TopFrame.slot
    <2>1. i \in ActiveSlots /\ loops[i].loop_id = TopFrame.id
      BY <1>3 DEF ActiveSlotsOf
    <2>2. PICK k \in LiveLoops : frames[k].slot = i
      BY <2>1 DEF NestOK
    <2>3. frames[k].id = frames[Len(frames)].id
      BY <2>1, <2>2 DEF NestOK, TopFrame
    <2>4. k = Len(frames)
      BY <1>1, <1>2, <2>3 DEF IdsDiffer
    <2>. QED  BY <2>2, <2>4 DEF LiveLoops, TopFrame
  <1>4. ASSUME TopFrame.live PROVE TopFrame.slot \in ActiveSlotsOf(TopFrame.id)
    <2>1. Len(frames) \in LiveLoops
      BY <1>1, <1>4 DEF LiveLoops, LoopFrames, TopFrame
    <2>. QED  BY <2>1 DEF NestOK, ActiveSlotsOf, TopFrame
  <1>5. CASE TopFrame.live
    BY <1>3, <1>4, <1>5
  <1>6. CASE ~TopFrame.live
    BY <1>3, <1>6
  <1>. QED  BY <1>5, <1>6

\* A step that leaves the live frames and the active records as they are.
LEMMA NestKept ==
  ASSUME NestOK, LiveLoops' = LiveLoops, ActiveSlots' = ActiveSlots,
         \A k \in LiveLoops : frames'[k] = frames[k],
         \A i \in ActiveSlots : loops'[i].loop_id = loops[i].loop_id
  PROVE  NestOK'
  <1>1. ASSUME NEW k \in LiveLoops'
        PROVE  frames'[k].slot \in ActiveSlots' /\ loops'[frames'[k].slot].loop_id = frames'[k].id
    BY DEF NestOK
  <1>2. ASSUME NEW i \in ActiveSlots' PROVE \E k \in LiveLoops' : frames'[k].slot = i
    BY DEF NestOK
  <1>3. ASSUME NEW j \in LiveLoops', NEW k \in LiveLoops', frames'[j].slot = frames'[k].slot
        PROVE  j = k
    BY <1>3 DEF NestOK
  <1>. QED  BY <1>1, <1>2, <1>3, Zenon DEF NestOK

\* A step after which nothing is live and nothing active.
LEMMA NestEmpty ==
  ASSUME LiveLoops' = {}, ActiveSlots' = {}
  PROVE  NestOK'
  BY DEF NestOK

\* A call that is pushed, or popped, is no loop.
LEMMA CallPushed ==
  ASSUME FramesOK, IdsDiffer, NEW f \in Frame, f.kind = "call", Push(f)
  PROVE  /\ LiveLoops' = LiveLoops /\ IdsDiffer'
         /\ \A k \in LiveLoops : frames'[k] = frames[k]
  <1>1. /\ LiveLoops' = LiveLoops /\ LoopFrames' = LoopFrames
        /\ \A k \in LoopFrames : frames'[k] = frames[k]
    BY PushFrames DEF LiveLoops, LoopFrames
  <1>2. LiveLoops \subseteq LoopFrames
    BY DEF LiveLoops, LoopFrames
  <1>. QED  BY <1>1, <1>2 DEF IdsDiffer

LEMMA FramePopped ==
  ASSUME FramesOK, IdsDiffer, frames # << >>, Pop
  PROVE  /\ IdsDiffer'
         /\ LiveLoops' = LiveLoops \ {Len(frames)}
         /\ \A k \in LiveLoops' : frames'[k] = frames[k]
  <1>1. /\ LiveLoops' = LiveLoops \ {Len(frames)}
        /\ LoopFrames' = LoopFrames \ {Len(frames)}
        /\ \A k \in LoopFrames' : frames'[k] = frames[k]
    BY PopFrames DEF LiveLoops, LoopFrames
  <1>2. LiveLoops' \subseteq LoopFrames'
    BY DEF LiveLoops, LoopFrames
  <1>. QED  BY <1>1, <1>2 DEF IdsDiffer

LEMMA FramesMarked ==
  ASSUME FramesOK, IdsDiffer, NEW lives \in [1 .. Len(frames) -> BOOLEAN],
         frames' = [k \in 1 .. Len(frames) |-> [frames[k] EXCEPT !.live = lives[k]]],
         \A k \in LoopFrames : ~lives[k]
  PROVE  IdsDiffer' /\ LiveLoops' = {}
  <1>1. LoopFrames' = LoopFrames
    BY MarkFrames DEF LoopFrames
  <1>2. IdsDiffer'
    BY <1>1, MarkFrames DEF IdsDiffer, LoopFrames
  <1>3. LiveLoops' = {}
    BY MarkFrames DEF LiveLoops, LoopFrames
  <1>. QED  BY <1>2, <1>3

\* A loop that is refused is pushed as a frame that is not live.
LEMMA EnterRefusedNest ==
  ASSUME ProgOK, NestInv, NEW l \in LoopId, EnterLoop(l), EnterRefused(l), ~IsOpen(l)
  PROVE  NestInv'
  <1>. DEFINE f == [kind |-> "loop", id |-> l, live |-> FALSE, slot |-> 0]
  <1>1. f \in Frame /\ Push(f)
    <2>1. 0 \in 0 .. MaxLoopRecords
      BY LimitsAssumption
    <2>2. (~EnterRefused(l)) = FALSE
      OBVIOUS
    <2>. QED  BY <2>1, <2>2, Zenon DEF EnterLoop, Frame
  <1>2. UNCHANGED <<loops, loop_count, loop_depth, needs_reinit>> /\ ~needs_reinit
        /\ reply.cmd # "FINALIZE"
    BY DEF EnterLoop, CmdLoopEnter, ctxVars, loopVars, Forward, Running
  <1>3. /\ LiveLoops' = LiveLoops
        /\ \A k \in LiveLoops : frames'[k] = frames[k]
    BY <1>1, PushFrames DEF LiveLoops, ProgOK
  <1>4. IdsDiffer'
    <2>1. \A k \in LoopFrames : frames[k].id # l
      BY DEF IsOpen, LoopFrames
    <2>2. /\ LoopFrames' = LoopFrames \cup {Len(frames) + 1}
          /\ \A k \in LoopFrames : frames'[k] = frames[k]
          /\ frames'[Len(frames) + 1].id = l
      BY <1>1, PushFrames DEF LoopFrames, ProgOK
    <2>. QED  BY <2>1, <2>2 DEF IdsDiffer, NestInv
  <1>5. ActiveSlots' = ActiveSlots
    BY <1>2 DEF ActiveSlots
  <1>6. NestOK'
    BY <1>2, <1>3, <1>5, NestKept DEF NestInv
  <1>7. DepthOK' /\ OneRecordPerLoop'
    BY <1>2, <1>3 DEF DepthOK, OneRecordPerLoop, NestInv
  <1>. QED  BY <1>4, <1>6, <1>7 DEF NestInv

\* A loop that the TA takes: one record more is active, for one frame more.
LEMMA EnterAcceptedNest ==
  ASSUME ProgOK, NestInv, NEW l \in LoopId, EnterLoop(l), ~EnterRefused(l), ~IsOpen(l)
  PROVE  NestInv'
  <1>. DEFINE n == SlotToEnter(l)
              f == [kind |-> "loop", id |-> l, live |-> TRUE, slot |-> n]
              top == Len(frames) + 1
  <1>. USE DEF ProgOK, NestInv
  <1>1. n \in 1 .. MaxLoopRecords
    BY SlotToEnterInRange
  <1>2. f \in Frame /\ Push(f)
    <2>1. n \in 0 .. MaxLoopRecords
      BY <1>1, LimitsAssumption
    <2>2. (~EnterRefused(l)) = TRUE
      OBVIOUS
    <2>. QED  BY <2>1, <2>2, Zenon DEF EnterLoop, Frame
  <1>3. ~DigestPanics /\ ~needs_reinit /\ reply.cmd # "FINALIZE" /\ UNCHANGED needs_reinit
    BY DEF EnterLoop, Forward, Running, SessionOK, DigestPanics
  <1>4. CmdLoopEnter(l)
    BY DEF EnterLoop
  <1>5. n \notin ActiveSlots /\ ActiveSlots' = ActiveSlots \cup {n}
    BY <1>3, <1>4, EnterOpensSlot
  <1>6. /\ loops' = [loops EXCEPT ![n] =
                       [RecordToEnter(l) EXCEPT
                          !.pre_loop_hash = current_hash,
                          !.is_active = TRUE,
                          !.invocation_count = (@ + 1) % CounterMod]]
        /\ loop_count' = IF IdleSlotsOf(l) # {} THEN loop_count ELSE loop_count + 1
        /\ loop_depth' = loop_depth + 1
    BY <1>3, <1>4, EnterEffect
  <1>7. RecordToEnter(l) \in LoopRecord /\ RecordToEnter(l).loop_id = l
    BY EnteredRecord
  <1>8. /\ loops'[n].loop_id = l
        /\ \A i \in 1 .. MaxLoopRecords : i # n => loops'[i] = loops[i]
    BY <1>1, <1>6, <1>7 DEF TypeOK, LoopRecord
  <1>9. ActiveSlots \subseteq 1 .. MaxLoopRecords /\ loop_count \in Nat
        /\ \A i \in 1 .. loop_count : i \in 1 .. MaxLoopRecords
    BY SlotsInRange, LimitsAssumption DEF TypeOK
  <1>10. /\ LiveLoops' = LiveLoops \cup {top} /\ top \notin LiveLoops
         /\ LoopFrames' = LoopFrames \cup {top}
         /\ \A k \in LoopFrames : frames'[k] = frames[k]
         /\ frames'[top] = f
    BY <1>2, PushFrames DEF LiveLoops, LoopFrames
  <1>11. LiveLoops \subseteq LoopFrames /\ \A k \in LoopFrames : frames[k].id # l
    BY DEF LiveLoops, LoopFrames, IsOpen
  <1>12. IdsDiffer'
    BY <1>10, <1>11 DEF IdsDiffer
  <1>13. NestOK'
    <2>1. ASSUME NEW k \in LiveLoops'
          PROVE  /\ frames'[k].slot \in ActiveSlots'
                 /\ loops'[frames'[k].slot].loop_id = frames'[k].id
      <3>1. CASE k = top
        BY <1>5, <1>8, <1>10, <3>1
      <3>2. CASE k \in LiveLoops
        <4>1. frames'[k] = frames[k] /\ frames[k].slot \in ActiveSlots
          BY <1>10, <1>11, <3>2 DEF NestOK
        <4>2. loops'[frames[k].slot] = loops[frames[k].slot]
          BY <1>5, <1>8, <1>9, <4>1
        <4>. QED  BY <1>5, <3>2, <4>1, <4>2 DEF NestOK
      <3>. QED  BY <1>10, <3>1, <3>2
    <2>2. ASSUME NEW i \in ActiveSlots' PROVE \E k \in LiveLoops' : frames'[k].slot = i
      BY <1>5, <1>10, <1>11 DEF NestOK
    <2>3. \A k \in LiveLoops : frames'[k].slot = frames[k].slot /\ frames[k].slot # n
      BY <1>5, <1>10, <1>11 DEF NestOK
    <2>4. ASSUME NEW j \in LiveLoops', NEW k \in LiveLoops', frames'[j].slot = frames'[k].slot
          PROVE  j = k
      BY <1>10, <2>3, <2>4 DEF NestOK
    <2>. QED  BY <2>1, <2>2, <2>4, Zenon DEF NestOK
  <1>14. DepthOK'
    <2>1. Cardinality(LiveLoops') = Cardinality(LiveLoops) + 1
      BY <1>10, LiveLoopsFinite, FS_AddElement
    <2>. QED  BY <1>3, <1>6, <2>1 DEF DepthOK
  <1>15. OneRecordPerLoop'
    <2>1. ActiveSlotsOf(l) = {}
      BY <1>11 DEF ActiveSlotsOf, NestOK
    <2>2. \A i \in 1 .. loop_count : loops[i].loop_id = l => i \in IdleSlotsOf(l)
      BY <2>1 DEF ActiveSlotsOf, ActiveSlots, IdleSlotsOf
    <2>3. CASE IdleSlotsOf(l) # {}
      <3>1. n \in 1 .. loop_count /\ loops[n].loop_id = l
        BY <2>3, SlotToEnterInRange DEF IdleSlotsOf
      <3>2. \A i \in 1 .. loop_count : loops'[i].loop_id = loops[i].loop_id
        <4>1. ASSUME NEW i \in 1 .. loop_count, i # n PROVE loops'[i].loop_id = loops[i].loop_id
          BY <1>8, <1>9, <4>1
        <4>. QED  BY <1>8, <3>1, <4>1
      <3>. QED  BY <1>6, <2>3, <3>2 DEF OneRecordPerLoop
    <2>4. CASE IdleSlotsOf(l) = {}
      <3>1. n = loop_count + 1 /\ loop_count' = loop_count + 1
        BY <1>6, <2>4 DEF SlotToEnter
      <3>2. \A i \in 1 .. loop_count : loops'[i].loop_id = loops[i].loop_id /\ loops[i].loop_id # l
        <4>1. ASSUME NEW i \in 1 .. loop_count PROVE i # n /\ loops'[i] = loops[i]
          BY <1>8, <1>9, <3>1, <4>1
        <4>. QED  BY <2>2, <2>4, <4>1
      <3>3. \A i \in 1 .. loop_count' : i \in 1 .. loop_count \/ i = n
        BY <1>9, <3>1
      <3>. QED  BY <1>8, <3>2, <3>3 DEF OneRecordPerLoop
    <2>. QED  BY <2>3, <2>4
  <1>. QED  BY <1>12, <1>13, <1>14, <1>15

\* Leaving a loop closes its own record, or none.
LEMMA ExitNest ==
  ASSUME ProgOK, NestInv, ExitLoop
  PROVE  /\ NestInv'
         /\ IF TopFrame.live
            THEN /\ current_hash' = loops[TopFrame.slot].pre_loop_hash
                 /\ ActiveSlots' = ActiveSlots \ {TopFrame.slot}
            ELSE UNCHANGED <<current_hash, loopVars>>
  <1>. DEFINE top == Len(frames)
              id == TopFrame.id
              n == TopFrame.slot
  <1>. USE DEF ProgOK, NestInv
  <1>1. InLoop /\ CmdLoopExit(id) /\ Pop /\ UNCHANGED needs_reinit /\ reply.cmd # "FINALIZE"
    BY DEF ExitLoop, Backward, Running
  <1>2. /\ IdsDiffer' /\ LiveLoops' = LiveLoops \ {top}
        /\ \A k \in LiveLoops' : frames'[k] = frames[k]
    BY <1>1, FramePopped DEF InLoop
  <1>3. top \in 1 .. Len(frames) /\ id \in LoopId
    BY <1>1, PopFrames, TopFrameType DEF InLoop
  <1>4. CASE ~TopFrame.live
    <2>1. UNCHANGED <<current_hash, loops, loop_depth, loop_count>>
      BY <1>1, <1>4, OwnRecord DEF CmdLoopExit
    <2>2. ActiveSlots' = ActiveSlots /\ LiveLoops' = LiveLoops
      BY <1>2, <1>4, <2>1 DEF ActiveSlots, LiveLoops, TopFrame
    <2>3. NestOK'
      BY <1>2, <2>1, <2>2, NestKept
    <2>4. DepthOK' /\ OneRecordPerLoop'
      BY <1>1, <2>1, <2>2 DEF DepthOK, OneRecordPerLoop
    <2>. QED  BY <1>2, <1>4, <2>1, <2>3, <2>4 DEF loopVars
  <1>5. CASE TopFrame.live
    <2>1. ActiveSlotsOf(id) = {n} /\ n \in ActiveSlots
      BY <1>1, <1>5, OwnRecord DEF ActiveSlotsOf
    <2>2. SlotToExit(id) = n
      BY <2>1, SlotToExitInSet
    <2>3. loop_depth > 0
      <3>1. Cardinality(ActiveSlots) # 0
        BY <2>1, ActiveSlotsFinite, FS_EmptySet
      <3>. QED  BY <3>1, ActiveSlotsFinite DEF ActiveWithinDepth, TypeOK
    <2>4. ActiveSlots' = ActiveSlots \ {n}
      BY <1>1, <1>3, <2>1, <2>2, <2>3, ExitClosesSlot
    <2>5. /\ loops' = [loops EXCEPT ![n].loop_hash = current_hash, ![n].is_active = FALSE]
          /\ current_hash' = loops[n].pre_loop_hash
          /\ loop_depth' = loop_depth - 1 /\ loop_count' = loop_count
      <3>1. /\ loops' = [loops EXCEPT ![SlotToExit(id)].loop_hash = current_hash,
                                        ![SlotToExit(id)].is_active = FALSE]
            /\ current_hash' = loops[SlotToExit(id)].pre_loop_hash
            /\ loop_depth' = loop_depth - 1 /\ loop_count' = loop_count
        <4>1. ~(loop_depth <= 0) /\ ActiveSlotsOf(id) # {}
          BY <2>1, <2>3 DEF TypeOK
        <4>. QED  BY <1>1, <4>1, Zenon DEF CmdLoopExit
      <3>. QED  BY <2>2, <3>1, Zenon
    <2>6. \A i \in 1 .. MaxLoopRecords : loops'[i].loop_id = loops[i].loop_id
      BY <2>5 DEF TypeOK, LoopRecord
    <2>7. ActiveSlots \subseteq 1 .. MaxLoopRecords /\ 1 .. loop_count \subseteq 1 .. MaxLoopRecords
      BY SlotsInRange, LimitsAssumption DEF TypeOK
    <2>8. top \in LiveLoops
      BY <1>1, <1>3, <1>5 DEF LiveLoops, InLoop, TopFrame
    <2>9. NestOK'
      <3>1. \A k \in LiveLoops' : frames[k].slot # n
        BY <1>2, <2>8 DEF NestOK, TopFrame
      <3>2. ASSUME NEW k \in LiveLoops'
            PROVE  /\ frames'[k].slot \in ActiveSlots'
                   /\ loops'[frames'[k].slot].loop_id = frames'[k].id
        <4>1. k \in LiveLoops /\ frames'[k] = frames[k]
          BY <1>2
        <4>2. frames[k].slot \in ActiveSlots /\ loops[frames[k].slot].loop_id = frames[k].id
          BY <4>1 DEF NestOK
        <4>3. loops'[frames[k].slot].loop_id = loops[frames[k].slot].loop_id
          BY <2>6, <2>7, <4>2
        <4>. QED  BY <2>4, <3>1, <4>1, <4>2, <4>3
      <3>3. ASSUME NEW i \in ActiveSlots' PROVE \E k \in LiveLoops' : frames'[k].slot = i
        <4>1. PICK k \in LiveLoops : frames[k].slot = i
          BY <2>4 DEF NestOK
        <4>2. k # top
          BY <2>4, <4>1 DEF TopFrame
        <4>. QED  BY <1>2, <4>1, <4>2
      <3>4. ASSUME NEW j \in LiveLoops', NEW k \in LiveLoops', frames'[j].slot = frames'[k].slot
            PROVE  j = k
        BY <1>2, <3>4 DEF NestOK
      <3>. QED  BY <3>2, <3>3, <3>4, Zenon DEF NestOK
    <2>10. DepthOK'
      <3>1. Cardinality(LiveLoops') = Cardinality(LiveLoops) - 1
        BY <1>2, <2>8, LiveLoopsFinite, FS_RemoveElement
      <3>. QED  BY <1>1, <2>5, <3>1 DEF DepthOK
    <2>11. OneRecordPerLoop'
      BY <2>5, <2>6, <2>7 DEF OneRecordPerLoop
    <2>. QED  BY <1>2, <1>5, <2>4, <2>5, <2>9, <2>10, <2>11
  <1>. QED  BY <1>4, <1>5

\* Steps that change neither the records nor the loops of the program.
LEMMA OtherNest ==
  ASSUME ProgOK, NestInv,
         LiveLoops' = LiveLoops, IdsDiffer', \A k \in LiveLoops : frames'[k] = frames[k],
         UNCHANGED <<loops, loop_count, loop_depth>>,
         needs_reinit' \/ (UNCHANGED needs_reinit /\ reply.cmd # "FINALIZE")
  PROVE  NestInv'
  <1>1. ActiveSlots' = ActiveSlots
    BY DEF ActiveSlots
  <1>2. NestOK'
    BY <1>1, NestKept DEF NestInv
  <1>3. DepthOK' /\ OneRecordPerLoop'
    BY DEF DepthOK, OneRecordPerLoop, NestInv
  <1>. QED  BY <1>2, <1>3 DEF NestInv

LEMMA IterateNest ==
  ASSUME ProgOK, NestInv, Iterate
  PROVE  /\ NestInv'
         /\ TopFrame.live => loops' = [loops EXCEPT ![TopFrame.slot].iteration_count =
                                                      (@ + 1) % CounterMod]
  <1>. USE DEF ProgOK, NestInv
  <1>1. /\ InLoop /\ CmdLoopIteration(TopFrame.id)
        /\ UNCHANGED <<needs_reinit, frames, loop_count, loop_depth>>
        /\ reply.cmd # "FINALIZE"
    BY DEF Iterate, Backward, Running, CmdLoopIteration
  <1>2. TopFrame.id \in LoopId
    BY <1>1, TopFrameType DEF InLoop
  <1>3. ActiveSlots' = ActiveSlots
    BY <1>1, <1>2, IterationKeepsSlots
  <1>4. \A i \in 1 .. MaxLoopRecords : loops'[i].loop_id = loops[i].loop_id
    BY <1>1 DEF CmdLoopIteration, TypeOK, LoopRecord
  <1>5. \A i \in 1 .. loop_count : i \in 1 .. MaxLoopRecords
    BY LimitsAssumption DEF TypeOK
  <1>6. LiveLoops' = LiveLoops /\ IdsDiffer'
    BY <1>1 DEF LiveLoops, LoopFrames, IdsDiffer
  <1>7. NestOK'
    <2>1. \A i \in ActiveSlots : loops'[i].loop_id = loops[i].loop_id
      BY <1>4, SlotsInRange, <1>5
    <2>. QED  BY <1>1, <1>3, <1>6, <2>1, NestKept
  <1>8. DepthOK' /\ OneRecordPerLoop'
    BY <1>1, <1>4, <1>5, <1>6 DEF DepthOK, OneRecordPerLoop
  <1>9. ASSUME TopFrame.live
        PROVE  loops' = [loops EXCEPT ![TopFrame.slot].iteration_count = (@ + 1) % CounterMod]
    <2>1. ActiveSlotsOf(TopFrame.id) = {TopFrame.slot}
      BY <1>1, <1>9, OwnRecord
    <2>2. SlotToIterate(TopFrame.id) = TopFrame.slot
      BY <2>1, SlotToIterateInSet
    <2>3. ActiveSlotsOf(TopFrame.id) # {}
      BY <2>1
    <2>. QED  BY <1>1, <2>2, <2>3, Zenon DEF CmdLoopIteration
  <1>. QED  BY <1>6, <1>7, <1>8, <1>9

\* INIT, alone or as a re-init, and FINALIZE: nothing stays open in the TA.
LEMMA ResetNest ==
  ASSUME AlwaysAnswers, ProgOK, NestInv, Start \/ Reinit
  PROVE  NestInv'
  <1>. USE DEF ProgOK
  <1>1. loop_count' = 0 /\ loop_depth' = 0
    BY DEF Start, Reinit, OpenSession, ZeroContext, CmdInit, ResetLoops, SessionOK
  <1>2. ActiveSlots' = {}
    BY <1>1, NoActiveSlot
  <1>3. IdsDiffer' /\ LiveLoops' = {}
    <2>1. CASE Start
      <3>1. frames = << >> /\ frames' = frames
        BY <2>1 DEF Start, OpenSession, SessionOK
      <3>. QED  BY <3>1 DEF IdsDiffer, LoopFrames, LiveLoops
    <2>2. CASE Reinit
      <3>. DEFINE lives == [k \in 1 .. Len(frames) |-> FALSE]
      <3>1. frames' = [k \in 1 .. Len(frames) |-> [frames[k] EXCEPT !.live = lives[k]]]
        BY <2>2 DEF Reinit, ForgetFrames
      <3>2. lives \in [1 .. Len(frames) -> BOOLEAN] /\ \A k \in LoopFrames : ~lives[k]
        BY DEF LoopFrames
      <3>. QED  BY <3>1, <3>2, FramesMarked DEF NestInv
    <2>. QED  BY <2>1, <2>2
  <1>4. DepthOK' /\ OneRecordPerLoop'
    BY <1>1, <1>3, FS_EmptySet DEF DepthOK, OneRecordPerLoop
  <1>. QED  BY <1>2, <1>3, <1>4, NestEmpty DEF NestInv

LEMMA FinalizeNest ==
  ASSUME ProgOK, NestInv, Finalize
  PROVE  NestInv'
  <1>. USE DEF ProgOK
  <1>. DEFINE lives == [k \in 1 .. Len(frames) |-> frames[k].live /\ frames[k].kind = "call"]
  <1>1. /\ frames' = [k \in 1 .. Len(frames) |-> [frames[k] EXCEPT !.live = lives[k]]]
        /\ CmdFinalize
    BY DEF Finalize
  <1>2. lives \in [1 .. Len(frames) -> BOOLEAN] /\ \A k \in LoopFrames : ~lives[k]
    BY DEF LoopFrames
  <1>3. IdsDiffer' /\ LiveLoops' = {}
    BY <1>1, <1>2, FramesMarked DEF NestInv
  <1>4. /\ \A i \in 1 .. loop_count : loops'[i].is_active = FALSE
        /\ \A i \in 1 .. loop_count : loops'[i].loop_id = loops[i].loop_id
        /\ loop_count' = loop_count
    BY <1>1, SlotsInRange DEF CmdFinalize, ForceClosed, ActiveSlots, TypeOK, LoopRecord
  <1>5. ActiveSlots' = {}
    BY <1>4 DEF ActiveSlots
  <1>6. DepthOK' /\ OneRecordPerLoop'
    BY <1>1, <1>4 DEF CmdFinalize, Reply, DepthOK, OneRecordPerLoop, NestInv
  <1>. QED  BY <1>3, <1>5, <1>6, NestEmpty DEF NestInv

LEMMA NestStep ==
  ASSUME ~MayRecurse, AlwaysAnswers, ProgOK, AuthComplete, NestInv, [ProgNext]_progVars
  PROVE  NestInv'
  <1>. USE DEF ctxVars, loopVars
  <1>1. CASE Start \/ Reinit
    BY <1>1, ResetNest
  <1>2. CASE Finalize
    BY <1>2, FinalizeNest
  <1>3. CASE GetAuth
    <2>1. needs_reinit'
      <3>1. PICK size \in BufferSizes : CmdGetAuth(size)
        BY <1>3 DEF GetAuth
      <3>2. auth_size # 0 /\ auth_size \in Nat /\ size \in Nat
        BY <1>3, LimitsAssumption DEF GetAuth, ProgOK, SessionOK, TypeOK
      <3>3. auth_size <= AuthCapacity /\ AuthCapacity <= size /\ AuthCapacity \in Nat
        BY <3>2, LimitsAssumption
           DEF AuthComplete, AlwaysAnswers, AuthCapacity, HeaderSize, RecordSize
      <3>4. ~(size < auth_size)
        BY <3>2, <3>3
      <3>5. reply'.res = "SUCCESS"
        BY <3>1, <3>2, <3>4 DEF CmdGetAuth, Reply
      <3>. QED  BY <1>3, <3>5 DEF GetAuth
    <2>2. UNCHANGED <<frames, loops, loop_count, loop_depth>>
      BY <1>3 DEF GetAuth, CmdGetAuth
    <2>. QED  BY <2>1, <2>2, OtherNest DEF LiveLoops, LoopFrames, IdsDiffer, NestInv
  <1>4. ASSUME NEW n \in NodeId, RecordNode(n) PROVE NestInv'
    <2>1. UNCHANGED <<frames, needs_reinit, loops, loop_count, loop_depth>>
          /\ reply.cmd # "FINALIZE"
      BY <1>4 DEF RecordNode, Forward, Running, CmdRecordNode, ProgOK, SessionOK, DigestPanics
    <2>. QED  BY <2>1, OtherNest DEF LiveLoops, LoopFrames, IdsDiffer, NestInv
  <1>5. ASSUME NEW f \in Frame, f.kind = "call", Push(f),
               UNCHANGED <<needs_reinit, loops, loop_count, loop_depth>>, reply.cmd # "FINALIZE"
        PROVE  NestInv'
    BY <1>5, CallPushed, OtherNest DEF ProgOK, NestInv
  <1>6. ASSUME NEW n \in NodeId, EnterUnhooked(n) PROVE NestInv'
    <2>. DEFINE f == [kind |-> "call", id |-> n, live |-> FALSE, slot |-> 0]
    <2>1. f \in Frame /\ f.kind = "call"
      BY DEF Frame
    <2>2. Push(f) /\ UNCHANGED <<needs_reinit, loops, loop_count, loop_depth>>
          /\ reply.cmd # "FINALIZE"
      BY <1>6 DEF EnterUnhooked, Backward, Running, vars
    <2>. QED  BY <1>5, <2>1, <2>2
  <1>7. ASSUME NEW site \in NodeId, NEW caller \in NodeId, EnterCall(site, caller)
        PROVE  NestInv'
    <2>. DEFINE f == [kind |-> "call", id |-> site,
                      live |-> Len(call_stack) < MaxCallDepth, slot |-> 0]
    <2>1. f \in Frame /\ f.kind = "call"
      BY DEF Frame
    <2>2. Push(f) /\ UNCHANGED <<needs_reinit, loops, loop_count, loop_depth>>
          /\ reply.cmd # "FINALIZE"
      BY <1>7 DEF EnterCall, Forward, Running, CmdCallEnter
    <2>. QED  BY <1>5, <2>1, <2>2
  <1>8. ASSUME NEW n \in NodeId, ReturnFromCall(n) PROVE NestInv'
    <2>1. /\ InCall /\ Pop /\ UNCHANGED <<needs_reinit, loops, loop_count, loop_depth>>
          /\ reply.cmd # "FINALIZE"
      BY <1>8 DEF ReturnFromCall, Backward, Running, CmdCallReturn
    <2>2. IdsDiffer' /\ LiveLoops' = LiveLoops /\ \A k \in LiveLoops : frames'[k] = frames[k]
      BY <2>1, FramePopped DEF InCall, TopFrame, LiveLoops, ProgOK, NestInv
    <2>. QED  BY <2>1, <2>2, OtherNest
  <1>9. ASSUME NEW l \in LoopId, EnterLoop(l) PROVE NestInv'
    BY <1>9, EnterRefusedNest, EnterAcceptedNest DEF EnterLoop
  <1>10. CASE Iterate \/ ExitLoop
    BY <1>10, IterateNest, ExitNest
  <1>11. CASE UNCHANGED progVars
    BY <1>11 DEF progVars, vars, NestInv, IdsDiffer, LoopFrames, NestOK, LiveLoops,
                 ActiveSlots, DepthOK, OneRecordPerLoop
  <1>. QED
    BY <1>1, <1>2, <1>3, <1>4, <1>6, <1>7, <1>8, <1>9, <1>10, <1>11, ProgramCases

-----------------------------------------------------------------------------
(* Theorems.                                                               *)

LEMMA NestInvariant ==
  ASSUME ~MayRecurse, AlwaysAnswers
  PROVE  ProgSpec => [](ProgOK /\ NestInv)
  <1>1. ProgInit => SessionOK /\ NestInv
    <2>. SUFFICES ASSUME ProgInit PROVE SessionOK /\ NestInv
      OBVIOUS
    <2>1. frames = << >> /\ loop_count = 0 /\ loop_depth = 0
      BY DEF ProgInit, Init
    <2>2. SessionOK
      BY DEF SessionOK, ProgInit, Init
    <2>3. LiveLoops = {} /\ LoopFrames = {} /\ ActiveSlots = {}
      BY <2>1 DEF LiveLoops, LoopFrames, ActiveSlots
    <2>4. NestInv
      BY <2>1, <2>3, FS_EmptySet DEF NestInv, IdsDiffer, NestOK, DepthOK, OneRecordPerLoop
    <2>. QED  BY <2>2, <2>4
  <1>2. /\ ProgTypeOK /\ ActiveWithinDepth /\ AuthComplete /\ SessionOK /\ NestInv
        /\ [ProgNext]_progVars
        => SessionOK' /\ NestInv'
    BY SessionOKStep, NestStep DEF ProgTypeOK, ProgOK, FramesOK
  <1>3. ProgTypeOK /\ ActiveWithinDepth /\ SessionOK => ProgOK
    BY DEF ProgTypeOK, ProgOK, FramesOK
  <1>4. ProgSpec => []ActiveWithinDepth
    BY ProgramIsClient, OpenLoopsWithinDepth, PTL
  <1>. QED
    BY <1>1, <1>2, <1>3, <1>4, ProgramTypeCorrect, ProgramAttestationComplete, PTL
       DEF ProgSpec

\* Every active record is that of an open loop and the other way round, and
\* loop_depth counts them: for every nest, every limit and every program that
\* does not enter a loop again by recursion.
THEOREM TableFollowsNest ==
  ASSUME ~MayRecurse, AlwaysAnswers
  PROVE  ProgSpec => []RecordsFollowNest
  <1>1. NestInv => RecordsFollowNest
    BY DEF NestInv, NestOK, DepthOK, RecordsFollowNest, Forward, Running
  <1>. QED  BY <1>1, NestInvariant, PTL

\* A loop that is entered again finds the record it had.
THEOREM LoopHasOneRecord ==
  ASSUME ~MayRecurse, AlwaysAnswers
  PROVE  ProgSpec => []OneRecordPerLoop
  <1>1. NestInv => OneRecordPerLoop
    BY DEF NestInv
  <1>. QED  BY <1>1, NestInvariant, PTL

\* Leaving a loop resumes the chain that this loop suspended; leaving one that
\* was refused changes nothing.
THEOREM ExitRestoresHash ==
  ASSUME ~MayRecurse, AlwaysAnswers
  PROVE  ProgSpec => ExitResumesChain
  <1>. DEFINE A == ExitLoop =>
                     IF TopFrame.live
                     THEN /\ current_hash' = loops[TopFrame.slot].pre_loop_hash
                          /\ ActiveSlots' = ActiveSlots \ {TopFrame.slot}
                     ELSE UNCHANGED <<current_hash, loopVars>>
  <1>1. ProgOK /\ NestInv /\ [ProgNext]_progVars => [A]_progVars
    BY ExitNest
  <1>. QED  BY <1>1, NestInvariant, PTL DEF ProgSpec, ExitResumesChain

\* An iteration counts in the record of the innermost loop, through the wrap
\* of the counter.
THEOREM IterationFindsRecord ==
  ASSUME ~MayRecurse, AlwaysAnswers
  PROVE  ProgSpec => IterationCountsInnermost
  <1>. DEFINE A == (Iterate /\ TopFrame.live) =>
                     loops' = [loops EXCEPT ![TopFrame.slot].iteration_count =
                                              (@ + 1) % CounterMod]
  <1>1. ProgOK /\ NestInv /\ [ProgNext]_progVars => [A]_progVars
    BY IterateNest
  <1>. QED  BY <1>1, NestInvariant, PTL DEF ProgSpec, IterationCountsInnermost

-----------------------------------------------------------------------------
(* The nest of calls. call_stack is a stack of the TA that nothing but the *)
(* order of commands ties to the program: CALL_RETURN ignores its identifier *)
(* and forgives an empty stack, INIT empties the stack below calls that are *)
(* open. It holds the open calls all the same, if every call is hooked and *)
(* none exceeds MAX_CALL_DEPTH.                                            *)

\* What the theorem assumes of the program and of the TA.
AllCallsTracked ==
  /\ ~UnhookedCalls
  /\ MaxNest <= MaxCallDepth
  /\ AlwaysAnswers

\* The calls that an INIT made the TA forget are the outermost ones: their
\* returns come when the stack is empty.
ForgottenAreOutermost ==
  \A j, k \in CallFrames : j < k /\ j \in LiveCalls => k \in LiveCalls

CallInv == CallStackFollowsCalls /\ ForgottenAreOutermost

-----------------------------------------------------------------------------
(* Numbers of calls.                                                       *)

LEMMA LiveCallsFinite ==
  ASSUME FramesOK
  PROVE  /\ IsFiniteSet(LiveCalls)
         /\ Cardinality(LiveCalls) \in Nat
         /\ Cardinality(LiveCalls) <= Len(frames)
  <1>1. IsFiniteSet(1 .. Len(frames)) /\ Cardinality(1 .. Len(frames)) = Len(frames)
    BY FS_Interval, LenProperties DEF FramesOK
  <1>2. LiveCalls \subseteq 1 .. Len(frames)
    BY DEF LiveCalls
  <1>3. IsFiniteSet(LiveCalls) /\ Cardinality(LiveCalls) <= Cardinality(1 .. Len(frames))
    BY <1>1, <1>2, FS_Subset
  <1>. QED  BY <1>1, <1>3, FS_CardinalityType

\* The place of an open call in the stack.
LEMMA PlaceInStack ==
  ASSUME NEW S, IsFiniteSet(S), S \subseteq Nat, NEW k \in S
  PROVE  /\ Cardinality({j \in S : j <= k}) \in 1 .. Cardinality(S)
         /\ Cardinality(S) \in Nat
  <1>. DEFINE T == {j \in S : j <= k}
  <1>1. T \subseteq S /\ k \in T
    OBVIOUS
  <1>. HIDE DEF T
  <1>2. IsFiniteSet(T) /\ Cardinality(T) <= Cardinality(S)
    BY <1>1, FS_Subset
  <1>3. Cardinality(T) \in Nat /\ Cardinality(S) \in Nat
    BY <1>2, FS_CardinalityType
  <1>4. Cardinality(T) # 0
    BY <1>1, <1>2, FS_EmptySet
  <1>. QED  BY <1>2, <1>3, <1>4 DEF T

-----------------------------------------------------------------------------
(* Steps.                                                                  *)

LEMMA CallsKept ==
  ASSUME CallInv, LiveCalls' = LiveCalls, CallFrames' = CallFrames,
         \A k \in LiveCalls : frames'[k].id = frames[k].id,
         UNCHANGED call_stack
  PROVE  CallInv'
  <1>1. ForgottenAreOutermost'
    BY DEF CallInv, ForgottenAreOutermost
  <1>2. Len(call_stack') = Cardinality(LiveCalls')
    BY DEF CallInv, CallStackFollowsCalls
  <1>3. ASSUME NEW k \in LiveCalls'
        PROVE  call_stack'[Cardinality({j \in LiveCalls' : j <= k})].call_site_id = frames'[k].id
    BY DEF CallInv, CallStackFollowsCalls
  <1>. QED  BY <1>1, <1>2, <1>3 DEF CallInv, CallStackFollowsCalls

LEMMA CallsForgotten ==
  ASSUME LiveCalls' = {}, call_stack' = << >>
  PROVE  CallInv'
  BY FS_EmptySet DEF CallInv, CallStackFollowsCalls, ForgottenAreOutermost

LEMMA CallEntered ==
  ASSUME AllCallsTracked, TypeOK, FramesOK, CallInv,
         NEW site \in NodeId, NEW caller \in NodeId, EnterCall(site, caller)
  PROVE  CallInv'
  <1>. DEFINE top == Len(frames) + 1
              f == [kind |-> "call", id |-> site, live |-> TRUE, slot |-> 0]
              rec == [call_site_id |-> site, caller_node |-> caller]
  <1>1. Len(call_stack) = Cardinality(LiveCalls) /\ Cardinality(LiveCalls) \in Nat
        /\ IsFiniteSet(LiveCalls) /\ Len(call_stack) <= Len(frames) /\ Len(frames) \in Nat
    BY LiveCallsFinite, LenProperties DEF CallInv, CallStackFollowsCalls, FramesOK
  <1>2. Len(call_stack) < MaxCallDepth
    <2>1. Len(frames) < MaxNest /\ MaxNest <= MaxCallDepth
      BY DEF EnterCall, AllCallsTracked
    <2>. QED  BY <1>1, <2>1, LimitsAssumption, ProgramAssumption
  <1>3. f \in Frame /\ Push(f)
    <2>1. f \in Frame
      BY DEF Frame
    <2>2. (Len(call_stack) < MaxCallDepth) = TRUE
      BY <1>2
    <2>. QED  BY <2>1, <2>2, Zenon DEF EnterCall
  <1>4. call_stack' = Append(call_stack, rec)
    <2>1. ~(Len(call_stack) >= MaxCallDepth)
      BY <1>1, <1>2, LimitsAssumption
    <2>. QED  BY <2>1 DEF EnterCall, CmdCallEnter
  <1>5. /\ Len(call_stack') = Len(call_stack) + 1
        /\ \A i \in 1 .. Len(call_stack) : call_stack'[i] = call_stack[i]
        /\ call_stack'[Len(call_stack) + 1] = rec
    <2>1. rec \in CallRecord
      BY DEF CallRecord
    <2>. QED  BY <1>4, <2>1, AppendProperties DEF TypeOK
  <1>6. /\ LiveCalls' = LiveCalls \cup {top} /\ top \notin LiveCalls
        /\ CallFrames' = CallFrames \cup {top}
        /\ \A k \in LiveCalls : frames'[k] = frames[k]
        /\ frames'[top] = f
    BY <1>3, PushFrames DEF LiveCalls, CallFrames
  <1>7. \A k \in CallFrames : k \in Nat /\ k < top
    BY <1>1 DEF CallFrames
  <1>8. LiveCalls \subseteq CallFrames
    BY DEF LiveCalls, CallFrames
  <1>9. Cardinality(LiveCalls') = Len(call_stack) + 1
    BY <1>1, <1>6, FS_AddElement
  <1>10. ASSUME NEW k \in LiveCalls'
         PROVE  call_stack'[Cardinality({j \in LiveCalls' : j <= k})].call_site_id = frames'[k].id
    <2>1. CASE k = top
      <3>1. {j \in LiveCalls' : j <= k} = LiveCalls'
        <4>1. \A j \in LiveCalls' : j <= top
          BY <1>1, <1>6, <1>7, <1>8
        <4>2. \A j \in LiveCalls' : j <= k
          BY <2>1, <4>1, Zenon
        <4>. QED  BY <4>2, Zenon
      <3>2. Cardinality({j \in LiveCalls' : j <= k}) = Len(call_stack) + 1
        BY <1>9, <3>1, Zenon
      <3>3. call_stack'[Len(call_stack) + 1].call_site_id = frames'[top].id
        BY <1>5, <1>6
      <3>. QED  BY <2>1, <3>2, <3>3, Zenon
    <2>2. CASE k \in LiveCalls
      <3>1. {j \in LiveCalls' : j <= k} = {j \in LiveCalls : j <= k}
        BY <1>1, <1>6, <1>7, <1>8, <2>2
      <3>2. Cardinality({j \in LiveCalls : j <= k}) \in 1 .. Len(call_stack)
        BY <1>1, <1>7, <1>8, <2>2, PlaceInStack
      <3>3. call_stack[Cardinality({j \in LiveCalls : j <= k})].call_site_id = frames[k].id
        BY <2>2 DEF CallInv, CallStackFollowsCalls
      <3>4. frames'[k] = frames[k]
        BY <1>6, <2>2
      <3>. QED  BY <1>5, <3>1, <3>2, <3>3, <3>4
    <2>. QED  BY <1>6, <2>1, <2>2
  <1>11. ForgottenAreOutermost'
    BY <1>1, <1>6, <1>7, <1>8 DEF CallInv, ForgottenAreOutermost
  <1>. QED  BY <1>5, <1>9, <1>10, <1>11 DEF CallInv, CallStackFollowsCalls

LEMMA CallReturned ==
  ASSUME TypeOK, FramesOK, CallInv, NEW block \in NodeId, ReturnFromCall(block)
  PROVE  CallInv'
  <1>. DEFINE top == Len(frames)
              n == Len(call_stack)
  <1>1. /\ InCall /\ Pop /\ frames # << >> /\ frames[top].kind = "call"
        /\ call_stack' = SubSeq(call_stack, 1, n - 1)
    BY DEF ReturnFromCall, CmdCallReturn, Popped, InCall, TopFrame
  <1>2. n = Cardinality(LiveCalls) /\ n \in Nat /\ IsFiniteSet(LiveCalls)
    BY LiveCallsFinite DEF CallInv, CallStackFollowsCalls
  <1>3. /\ top \in CallFrames
        /\ LiveCalls' = LiveCalls \ {top} /\ CallFrames' = CallFrames \ {top}
        /\ \A k \in LiveCalls' : frames'[k] = frames[k]
        /\ \A k \in CallFrames : k \in Nat /\ k <= top
    BY <1>1, PopFrames, LenProperties DEF LiveCalls, CallFrames, FramesOK
  <1>4. LiveCalls \subseteq CallFrames
    BY DEF LiveCalls, CallFrames
  <1>5. ForgottenAreOutermost'
    BY <1>3, <1>4 DEF CallInv, ForgottenAreOutermost
  <1>6. CASE top \notin LiveCalls
    <2>1. LiveCalls = {}
      <3>1. ASSUME NEW k \in LiveCalls PROVE FALSE
        <4>1. k \in CallFrames /\ k < top
          BY <1>3, <1>4, <1>6
        <4>. QED  BY <1>3, <1>6, <4>1 DEF CallInv, ForgottenAreOutermost
      <3>. QED  BY <3>1
    <2>2. n = 0 /\ LiveCalls' = {}
      BY <1>2, <1>3, <2>1, FS_EmptySet
    <2>3. call_stack' = << >>
      BY <1>1, <2>2, SubSeqEmpty
    <2>. QED  BY <2>2, <2>3, CallsForgotten
  <1>7. CASE top \in LiveCalls
    <2>1. Cardinality(LiveCalls') = n - 1 /\ IsFiniteSet(LiveCalls')
      BY <1>2, <1>3, <1>7, FS_RemoveElement
    <2>2. n # 0
      BY <1>2, <1>7, FS_EmptySet
    <2>3. /\ Len(call_stack') = n - 1
          /\ \A i \in 1 .. n - 1 : call_stack'[i] = call_stack[i]
      <3>1. call_stack # << >>
        BY <2>2, EmptySeq
      <3>. QED  BY <1>1, <3>1, FrontOfSeq DEF TypeOK
    <2>4. ASSUME NEW k \in LiveCalls'
          PROVE  call_stack'[Cardinality({j \in LiveCalls' : j <= k})].call_site_id = frames'[k].id
      <3>1. k \in LiveCalls /\ k \in Nat /\ k < top /\ frames'[k] = frames[k]
        BY <1>3, <1>4
      <3>2. {j \in LiveCalls' : j <= k} = {j \in LiveCalls : j <= k}
        BY <1>3, <3>1
      <3>3. LiveCalls' \subseteq Nat
        BY <1>3, <1>4
      <3>4. Cardinality({j \in LiveCalls' : j <= k}) \in 1 .. n - 1
        BY <2>1, <3>3, PlaceInStack
      <3>5. call_stack[Cardinality({j \in LiveCalls : j <= k})].call_site_id = frames[k].id
        BY <3>1 DEF CallInv, CallStackFollowsCalls
      <3>. QED  BY <2>3, <3>1, <3>2, <3>4, <3>5
    <2>. QED  BY <1>5, <2>1, <2>3, <2>4 DEF CallInv, CallStackFollowsCalls
  <1>. QED  BY <1>6, <1>7

LEMMA CallStep ==
  ASSUME AllCallsTracked, TypeOK, FramesOK, SessionOK, CallInv, [ProgNext]_progVars
  PROVE  CallInv'
  <1>1. CASE Start
    <2>1. frames = << >> /\ frames' = frames /\ call_stack' = << >>
      BY <1>1 DEF Start, SessionOK, OpenSession, ZeroContext, CmdInit, ResetCalls
    <2>2. LiveCalls' = {}
      BY <2>1 DEF LiveCalls
    <2>. QED  BY <2>1, <2>2, CallsForgotten
  <1>2. CASE Reinit
    <2>. DEFINE lives == [k \in 1 .. Len(frames) |-> FALSE]
    <2>1. call_stack' = << >>
          /\ frames' = [k \in 1 .. Len(frames) |-> [frames[k] EXCEPT !.live = lives[k]]]
      BY <1>2 DEF Reinit, CmdInit, ResetCalls, ZeroContext, SessionOK, ForgetFrames
    <2>2. LiveCalls' = {}
      BY <2>1, MarkFrames DEF LiveCalls
    <2>. QED  BY <2>1, <2>2, CallsForgotten
  <1>3. CASE Finalize
    <2>. DEFINE lives == [k \in 1 .. Len(frames) |-> frames[k].live /\ frames[k].kind = "call"]
    <2>1. frames' = [k \in 1 .. Len(frames) |-> [frames[k] EXCEPT !.live = lives[k]]]
          /\ UNCHANGED call_stack
      BY <1>3 DEF Finalize, CmdFinalize
    <2>2. lives \in [1 .. Len(frames) -> BOOLEAN]
      OBVIOUS
    <2>3. LiveCalls' = LiveCalls /\ CallFrames' = CallFrames
          /\ \A k \in LiveCalls : frames'[k].id = frames[k].id
      <3>1. /\ Len(frames') = Len(frames)
            /\ \A k \in 1 .. Len(frames) : /\ frames'[k].kind = frames[k].kind
                                           /\ frames'[k].id = frames[k].id
                                           /\ frames'[k].live = lives[k]
        BY <2>1, <2>2, MarkFrames
      <3>2. \A k \in 1 .. Len(frames) : frames[k].kind = "call" => (lives[k] <=> frames[k].live)
        BY Zenon
      <3>. HIDE DEF lives
      <3>. QED  BY <3>1, <3>2 DEF LiveCalls, CallFrames
    <2>. QED  BY <2>1, <2>3, CallsKept
  <1>4. ASSUME UNCHANGED <<frames, call_stack>> PROVE CallInv'
    BY <1>4, CallsKept DEF LiveCalls, CallFrames
  <1>5. CASE GetAuth
    BY <1>4, <1>5 DEF GetAuth, CmdGetAuth, ctxVars
  <1>6. ASSUME NEW n \in NodeId, RecordNode(n) PROVE CallInv'
    <2>1. UNCHANGED <<frames, call_stack>>
      BY <1>6 DEF RecordNode, Forward, Running, CmdRecordNode, SessionOK, DigestPanics, ctxVars
    <2>. QED  BY <1>4, <2>1
  <1>7. ASSUME NEW n \in NodeId, EnterUnhooked(n) PROVE CallInv'
    BY <1>7 DEF EnterUnhooked, AllCallsTracked
  <1>8. ASSUME NEW n \in NodeId, ReturnFromCall(n) PROVE CallInv'
    BY <1>8, CallReturned
  <1>9. ASSUME NEW site \in NodeId, NEW caller \in NodeId, EnterCall(site, caller)
        PROVE  CallInv'
    BY <1>9, CallEntered
  <1>10. ASSUME NEW l \in LoopId, EnterLoop(l) PROVE CallInv'
    <2>. DEFINE b == ~EnterRefused(l)
                s == IF EnterRefused(l) THEN 0 ELSE SlotToEnter(l)
                f == [kind |-> "loop", id |-> l, live |-> b, slot |-> s]
    <2>1. f \in Frame /\ Push(f)
      <3>1. b \in BOOLEAN
        OBVIOUS
      <3>2. s \in 0 .. MaxLoopRecords
        BY SlotToEnterInRange, LimitsAssumption
      <3>3. Push(f)
        BY <1>10, Zenon DEF EnterLoop
      <3>. HIDE DEF b, s
      <3>. QED  BY <3>1, <3>2, <3>3 DEF Frame
    <2>2. LiveCalls' = LiveCalls /\ CallFrames' = CallFrames
          /\ \A k \in LiveCalls : frames'[k] = frames[k]
      <3>1. f.kind # "call"
        OBVIOUS
      <3>. HIDE DEF f
      <3>. QED  BY <2>1, <3>1, PushFrames DEF LiveCalls, CallFrames
    <2>3. UNCHANGED call_stack
      BY <1>10 DEF EnterLoop, Forward, Running, CmdLoopEnter, SessionOK, DigestPanics, ctxVars
    <2>. QED  BY <2>2, <2>3, CallsKept
  <1>11. CASE Iterate
    BY <1>4, <1>11 DEF Iterate, CmdLoopIteration
  <1>12. CASE ExitLoop
    <2>1. frames # << >> /\ frames[Len(frames)].kind = "loop" /\ Pop /\ UNCHANGED call_stack
      BY <1>12 DEF ExitLoop, InLoop, TopFrame, CmdLoopExit
    <2>2. LiveCalls' = LiveCalls /\ CallFrames' = CallFrames
          /\ \A k \in LiveCalls : frames'[k] = frames[k]
      BY <2>1, PopFrames DEF LiveCalls, CallFrames
    <2>. QED  BY <2>1, <2>2, CallsKept
  <1>13. CASE UNCHANGED progVars
    BY <1>4, <1>13 DEF progVars, vars, ctxVars
  <1>. QED
    BY <1>1, <1>2, <1>3, <1>5, <1>6, <1>7, <1>8, <1>9, <1>10, <1>11, <1>12, <1>13,
       ProgramCases

-----------------------------------------------------------------------------
(* The session, for programs that may be recursive too.                    *)

LEMMA SessionInvariant ==
  ASSUME AlwaysAnswers
  PROVE  ProgSpec => [](TypeOK /\ FramesOK /\ SessionOK)
  <1>1. ProgInit => SessionOK
    BY DEF SessionOK, ProgInit, Init
  <1>2. ProgTypeOK /\ SessionOK /\ [ProgNext]_progVars => SessionOK'
    BY SessionOKStep DEF ProgTypeOK
  <1>3. ProgTypeOK => TypeOK /\ FramesOK
    BY DEF ProgTypeOK, FramesOK
  <1>. QED  BY <1>1, <1>2, <1>3, ProgramTypeCorrect, PTL DEF ProgSpec

\* The TA's call stack holds the open calls of its cycle, innermost last: loops
\* may be entered recursively and cycles end anywhere.
THEOREM StackHoldsCalls ==
  ASSUME AllCallsTracked
  PROVE  ProgSpec => []CallStackFollowsCalls
  <1>1. AlwaysAnswers
    BY DEF AllCallsTracked
  <1>2. ProgInit => CallInv
    <2>. SUFFICES ASSUME ProgInit PROVE CallInv
      OBVIOUS
    <2>1. frames = << >> /\ call_stack = << >>
      BY DEF ProgInit, Init
    <2>2. LiveCalls = {} /\ CallFrames = {}
      BY <2>1 DEF LiveCalls, CallFrames
    <2>. QED
      BY <2>1, <2>2, FS_EmptySet DEF CallInv, CallStackFollowsCalls, ForgottenAreOutermost
  <1>3. TypeOK /\ FramesOK /\ SessionOK /\ CallInv /\ [ProgNext]_progVars => CallInv'
    BY CallStep
  <1>4. CallInv => CallStackFollowsCalls
    BY DEF CallInv
  <1>5. ProgSpec => [](TypeOK /\ FramesOK /\ SessionOK)
    BY <1>1, SessionInvariant
  <1>. QED  BY <1>2, <1>3, <1>4, <1>5, PTL DEF ProgSpec

-----------------------------------------------------------------------------
(* The entries of the call stack when calls are refused or have no hook.   *)

LEMMA EntriesKept ==
  ASSUME EntriesAreOpenCalls, CallFrames \subseteq CallFrames',
         \A k \in CallFrames : frames'[k].id = frames[k].id,
         call_stack' = call_stack \/ call_stack' = << >>
  PROVE  EntriesAreOpenCalls'
  <1>1. CASE call_stack' = call_stack
    <2>1. PICK open \in [1 .. Len(call_stack) -> CallFrames] :
            /\ \A k \in 1 .. Len(call_stack) : call_stack[k].call_site_id = frames[open[k]].id
            /\ \A j, k \in 1 .. Len(call_stack) : j < k => open[j] < open[k]
      BY DEF EntriesAreOpenCalls
    <2>2. open \in [1 .. Len(call_stack') -> CallFrames']
      BY <1>1, <2>1
    <2>3. \A k \in 1 .. Len(call_stack) : frames'[open[k]].id = frames[open[k]].id
      BY <2>1
    <2>. QED  BY <1>1, <2>1, <2>2, <2>3 DEF EntriesAreOpenCalls
  <1>2. CASE call_stack' = << >>
    <2>. DEFINE none == [k \in 1 .. 0 |-> 0]
    <2>1. 1 .. Len(call_stack') = {} /\ 1 .. 0 = {}
      BY <1>2
    <2>2. none \in [1 .. Len(call_stack') -> CallFrames']
      BY <2>1
    <2>. HIDE DEF none
    <2>. QED  BY <2>1, <2>2 DEF EntriesAreOpenCalls
  <1>. QED  BY <1>1, <1>2

\* An accepted call is the innermost one, and its entry the last one.
LEMMA EntryPushed ==
  ASSUME TypeOK, FramesOK, EntriesAreOpenCalls,
         NEW site \in NodeId, NEW caller \in NodeId, EnterCall(site, caller)
  PROVE  EntriesAreOpenCalls'
  <1>. DEFINE top == Len(frames) + 1
              n == Len(call_stack)
              live == Len(call_stack) < MaxCallDepth
              f == [kind |-> "call", id |-> site, live |-> live, slot |-> 0]
              rec == [call_site_id |-> site, caller_node |-> caller]
  <1>1. f \in Frame /\ Push(f)
    <2>1. live \in BOOLEAN
      OBVIOUS
    <2>2. Push(f)
      BY Zenon DEF EnterCall
    <2>. HIDE DEF live
    <2>. QED  BY <2>1, <2>2 DEF Frame
  <1>2. f.kind = "call" /\ f.id = site
    OBVIOUS
  <1>. HIDE DEF f
  <1>3. /\ CallFrames' = CallFrames \cup {top}
        /\ \A k \in CallFrames : frames'[k] = frames[k]
        /\ frames'[top].id = site
    BY <1>1, <1>2, PushFrames DEF CallFrames
  <1>4. n \in Nat /\ Len(frames) \in Nat
    BY LenProperties DEF TypeOK, FramesOK
  <1>5. \A k \in CallFrames : k \in Nat /\ k < top
    BY <1>4 DEF CallFrames
  <1>6. CASE UNCHANGED call_stack
    BY <1>3, <1>6, EntriesKept
  <1>7. CASE call_stack' = Append(call_stack, rec)
    <2>1. /\ Len(call_stack') = n + 1
          /\ \A i \in 1 .. n : call_stack'[i] = call_stack[i]
          /\ call_stack'[n + 1] = rec
      <3>1. rec \in CallRecord
        BY DEF CallRecord
      <3>. QED  BY <1>7, <3>1, AppendProperties DEF TypeOK
    <2>2. PICK open \in [1 .. n -> CallFrames] :
            /\ \A k \in 1 .. n : call_stack[k].call_site_id = frames[open[k]].id
            /\ \A j, k \in 1 .. n : j < k => open[j] < open[k]
      BY DEF EntriesAreOpenCalls
    <2>. DEFINE more == [k \in 1 .. n + 1 |-> IF k = n + 1 THEN top ELSE open[k]]
    <2>3. /\ \A k \in 1 .. n : k # n + 1 /\ k \in 1 .. n + 1
          /\ \A k \in 1 .. n + 1 : k = n + 1 \/ k \in 1 .. n
          /\ n + 1 \in 1 .. n + 1
      BY <1>4
    <2>4. more[n + 1] = top /\ \A k \in 1 .. n : more[k] = open[k]
      BY <2>3
    <2>5. more \in [1 .. n + 1 -> CallFrames']
      BY <1>3, <2>2, <2>3
    <2>. HIDE DEF more, top, n, rec
    <2>6. ASSUME NEW k \in 1 .. n + 1
          PROVE  call_stack'[k].call_site_id = frames'[more[k]].id
      <3>1. CASE k = n + 1
        <4>1. rec.call_site_id = site
          BY DEF rec
        <4>. QED  BY <1>3, <2>1, <2>4, <3>1, <4>1
      <3>2. CASE k \in 1 .. n
        <4>1. frames'[open[k]] = frames[open[k]]
          BY <1>3, <2>2, <3>2
        <4>. QED  BY <2>1, <2>2, <2>4, <3>2, <4>1
      <3>. QED  BY <2>3, <3>1, <3>2
    <2>7. ASSUME NEW j \in 1 .. n + 1, NEW k \in 1 .. n + 1, j < k
          PROVE  more[j] < more[k]
      <3>1. j \in 1 .. n
        BY <1>4, <2>7
      <3>2. CASE k = n + 1
        BY <1>5, <2>2, <2>4, <3>1, <3>2
      <3>3. CASE k \in 1 .. n
        BY <2>2, <2>4, <2>7, <3>1, <3>3
      <3>. QED  BY <2>3, <3>2, <3>3
    <2>. QED  BY <2>1, <2>5, <2>6, <2>7 DEF EntriesAreOpenCalls
  <1>. QED  BY <1>6, <1>7 DEF EnterCall, CmdCallEnter

\* The entry that a return removes is the last one, and no other entry is of the
\* call that returns: that one is the innermost.
LEMMA EntryPopped ==
  ASSUME TypeOK, FramesOK, EntriesAreOpenCalls, NEW block \in NodeId, ReturnFromCall(block)
  PROVE  EntriesAreOpenCalls'
  <1>. DEFINE top == Len(frames)
              n == Len(call_stack)
  <1>1. /\ Pop /\ frames # << >>
        /\ call_stack' = SubSeq(call_stack, 1, n - 1)
    BY DEF ReturnFromCall, CmdCallReturn, Popped, InCall
  <1>2. /\ CallFrames' = CallFrames \ {top}
        /\ \A k \in CallFrames' : frames'[k] = frames[k]
        /\ \A k \in CallFrames : k \in Nat /\ k <= top
    BY <1>1, PopFrames, LenProperties DEF CallFrames, FramesOK
  <1>3. n \in Nat
    BY LenProperties DEF TypeOK
  <1>4. PICK open \in [1 .. n -> CallFrames] :
          /\ \A k \in 1 .. n : call_stack[k].call_site_id = frames[open[k]].id
          /\ \A j, k \in 1 .. n : j < k => open[j] < open[k]
    BY DEF EntriesAreOpenCalls
  <1>5. CASE n = 0
    <2>1. call_stack' = << >>
      BY <1>1, <1>5, SubSeqEmpty
    <2>. DEFINE none == [k \in 1 .. 0 |-> 0]
    <2>2. 1 .. Len(call_stack') = {} /\ 1 .. 0 = {}
      BY <2>1
    <2>3. none \in [1 .. Len(call_stack') -> CallFrames']
      BY <2>2
    <2>. HIDE DEF none
    <2>. QED  BY <2>2, <2>3 DEF EntriesAreOpenCalls
  <1>6. CASE n # 0
    <2>1. /\ Len(call_stack') = n - 1
          /\ \A i \in 1 .. n - 1 : call_stack'[i] = call_stack[i]
      <3>1. call_stack # << >>
        BY <1>6, EmptySeq
      <3>. QED  BY <1>1, <3>1, FrontOfSeq DEF TypeOK
    <2>. DEFINE fewer == [k \in 1 .. n - 1 |-> open[k]]
    <2>2. \A k \in 1 .. n - 1 : k \in 1 .. n /\ n \in 1 .. n /\ k < n /\ fewer[k] = open[k]
      BY <1>3, <1>6
    <2>3. ASSUME NEW k \in 1 .. n - 1 PROVE fewer[k] \in CallFrames'
      <3>1. open[k] \in CallFrames /\ open[n] \in CallFrames /\ open[k] < open[n]
        BY <1>4, <2>2
      <3>2. open[k] # top
        BY <1>2, <3>1
      <3>. QED  BY <1>2, <2>2, <3>1, <3>2
    <2>4. fewer \in [1 .. n - 1 -> CallFrames']
      BY <2>3
    <2>. HIDE DEF fewer, n, top
    <2>5. ASSUME NEW k \in 1 .. n - 1
          PROVE  call_stack'[k].call_site_id = frames'[fewer[k]].id
      <3>1. frames'[fewer[k]] = frames[fewer[k]]
        BY <1>2, <2>3
      <3>. QED  BY <1>4, <2>1, <2>2, <3>1
    <2>6. \A j, k \in 1 .. n - 1 : j < k => fewer[j] < fewer[k]
      BY <1>4, <2>2
    <2>. QED  BY <2>1, <2>4, <2>5, <2>6 DEF EntriesAreOpenCalls
  <1>. QED  BY <1>5, <1>6

\* No other step of the program touches an entry, or a call's frame.
LEMMA EntriesStep ==
  ASSUME TypeOK, FramesOK, EntriesAreOpenCalls, [ProgNext]_progVars
  PROVE  EntriesAreOpenCalls'
  <1>. DEFINE Emptied == call_stack' = call_stack \/ call_stack' = << >>
              Same == /\ CallFrames \subseteq CallFrames'
                      /\ \A k \in CallFrames : frames'[k].id = frames[k].id
  <1>1. ASSUME Emptied, Same PROVE EntriesAreOpenCalls'
    BY <1>1, EntriesKept
  <1>2. ASSUME Emptied, UNCHANGED frames PROVE EntriesAreOpenCalls'
    <2>1. Same
      BY <1>2 DEF CallFrames
    <2>. QED  BY <1>1, <1>2, <2>1
  <1>3. ASSUME Emptied, NEW lives \in [1 .. Len(frames) -> BOOLEAN],
               frames' = [k \in 1 .. Len(frames) |-> [frames[k] EXCEPT !.live = lives[k]]]
        PROVE  EntriesAreOpenCalls'
    <2>1. Same
      BY <1>3, MarkFrames DEF CallFrames
    <2>. QED  BY <1>1, <1>3, <2>1
  <1>4. ASSUME Emptied, NEW f \in Frame, Push(f) PROVE EntriesAreOpenCalls'
    <2>1. Same
      BY <1>4, PushFrames DEF CallFrames
    <2>. QED  BY <1>1, <1>4, <2>1
  <1>5. ASSUME CmdInit PROVE Emptied
    BY <1>5 DEF CmdInit, ResetCalls, Panic, ZeroContext
  <1>6. CASE Start
    <2>1. Emptied
      BY <1>5, <1>6 DEF Start, OpenSession, ZeroContext
    <2>. QED  BY <1>2, <1>6, <2>1 DEF Start
  <1>7. CASE Reinit
    <2>. DEFINE lives == [k \in 1 .. Len(frames) |-> FALSE]
    <2>1. lives \in [1 .. Len(frames) -> BOOLEAN]
          /\ frames' = [k \in 1 .. Len(frames) |-> [frames[k] EXCEPT !.live = lives[k]]]
      BY <1>7 DEF Reinit, ForgetFrames
    <2>2. Emptied
      BY <1>5, <1>7 DEF Reinit
    <2>. HIDE DEF lives
    <2>. QED  BY <1>3, <2>1, <2>2
  <1>8. CASE Finalize
    <2>. DEFINE lives == [k \in 1 .. Len(frames) |-> frames[k].live /\ frames[k].kind = "call"]
    <2>1. lives \in [1 .. Len(frames) -> BOOLEAN]
          /\ frames' = [k \in 1 .. Len(frames) |-> [frames[k] EXCEPT !.live = lives[k]]]
      BY <1>8 DEF Finalize
    <2>2. Emptied
      BY <1>8 DEF Finalize, CmdFinalize
    <2>. HIDE DEF lives
    <2>. QED  BY <1>3, <2>1, <2>2
  <1>9. CASE GetAuth
    BY <1>2, <1>9 DEF GetAuth, CmdGetAuth, ctxVars
  <1>10. ASSUME NEW n \in NodeId, RecordNode(n) PROVE EntriesAreOpenCalls'
    <2>1. Emptied /\ UNCHANGED frames
      BY <1>10 DEF RecordNode, CmdRecordNode, ctxVars, Panic, ZeroContext
    <2>. QED  BY <1>2, <2>1
  <1>11. ASSUME NEW n \in NodeId, EnterUnhooked(n) PROVE EntriesAreOpenCalls'
    <2>. DEFINE f == [kind |-> "call", id |-> n, live |-> FALSE, slot |-> 0]
    <2>1. f \in Frame /\ Push(f) /\ Emptied
      BY <1>11 DEF EnterUnhooked, Frame, vars, ctxVars
    <2>. HIDE DEF f
    <2>. QED  BY <1>4, <2>1
  <1>12. ASSUME NEW l \in LoopId, EnterLoop(l) PROVE EntriesAreOpenCalls'
    <2>. DEFINE b == ~EnterRefused(l)
                s == IF EnterRefused(l) THEN 0 ELSE SlotToEnter(l)
                f == [kind |-> "loop", id |-> l, live |-> b, slot |-> s]
    <2>1. f \in Frame /\ Push(f)
      <3>1. b \in BOOLEAN
        OBVIOUS
      <3>2. s \in 0 .. MaxLoopRecords
        BY SlotToEnterInRange, LimitsAssumption
      <3>3. Push(f)
        BY <1>12, Zenon DEF EnterLoop
      <3>. HIDE DEF b, s
      <3>. QED  BY <3>1, <3>2, <3>3 DEF Frame
    <2>. HIDE DEF f
    <2>2. Emptied
      BY <1>12 DEF EnterLoop, CmdLoopEnter, ctxVars, Panic, ZeroContext
    <2>. QED  BY <1>4, <2>1, <2>2
  <1>13. CASE Iterate
    BY <1>2, <1>13 DEF Iterate, CmdLoopIteration
  <1>14. CASE ExitLoop
    <2>1. frames # << >> /\ frames[Len(frames)].kind = "loop" /\ Pop /\ UNCHANGED call_stack
      BY <1>14 DEF ExitLoop, InLoop, TopFrame, CmdLoopExit
    <2>2. Same
      BY <2>1, PopFrames DEF CallFrames
    <2>. QED  BY <1>1, <2>1, <2>2
  <1>15. CASE UNCHANGED progVars
    BY <1>2, <1>15 DEF progVars, vars, ctxVars
  <1>. QED
    BY <1>6, <1>7, <1>8, <1>9, <1>10, <1>11, <1>12, <1>13, <1>14, <1>15, EntryPushed, EntryPopped,
       ProgramCases

\* No entry of the TA's call stack outlives its call, for any limit and any depth
\* of calls: calls that are refused or have no hook remove the entries of callers
\* when they return, too early and never too late (cmd_call_return).
THEOREM EntriesBelongToOpenCalls == ProgSpec => []EntriesAreOpenCalls
  <1>1. ProgInit => EntriesAreOpenCalls
    <2>. SUFFICES ASSUME ProgInit PROVE EntriesAreOpenCalls
      OBVIOUS
    <2>. DEFINE none == [k \in 1 .. 0 |-> 0]
    <2>1. 1 .. Len(call_stack) = {} /\ 1 .. 0 = {}
      BY DEF ProgInit, Init
    <2>2. none \in [1 .. Len(call_stack) -> CallFrames]
      BY <2>1
    <2>. HIDE DEF none
    <2>. QED  BY <2>1, <2>2 DEF EntriesAreOpenCalls
  <1>2. ProgTypeOK /\ EntriesAreOpenCalls /\ [ProgNext]_progVars => EntriesAreOpenCalls'
    BY EntriesStep DEF ProgTypeOK, FramesOK
  <1>. QED  BY <1>1, <1>2, ProgramTypeCorrect, PTL DEF ProgSpec

-----------------------------------------------------------------------------
(* The trusted application implements Measurement: each command is a step  *)
(* of the measurement that was promised, or none.                          *)

\* What the theorem assumes of the program, of the TA, and of the zero
\* identifier, which is that of no loop.
Measurable ==
  /\ ~MayRecurse
  /\ ~FinalizeInLoops
  /\ AlwaysAnswers
  /\ NoId \notin LoopId

-----------------------------------------------------------------------------
(* Functions over 1 .. n as sequences.                                     *)

LEMMA FunctionIsSeq ==
  ASSUME NEW n \in Nat, NEW f, DOMAIN f = 1 .. n, f = [k \in 1 .. n |-> f[k]],
         NEW S, \A k \in 1 .. n : f[k] \in S
  PROVE  f \in Seq(S) /\ Len(f) = n
  <1>1. f \in Seq(S)
    BY IsASeq
  <1>. QED  BY <1>1, LenProperties

LEMMA AppendedFunction ==
  ASSUME NEW n \in Nat, NEW f, f = [k \in 1 .. n |-> f[k]],
         NEW g, g = [k \in 1 .. n + 1 |-> g[k]],
         \A k \in 1 .. n : g[k] = f[k]
  PROVE  g = Append(f, g[n + 1])
  <1>. DEFINE S == {g[k] : k \in 1 .. n + 1}
              e == g[n + 1]
  <1>1. \A k \in 1 .. n + 1 : g[k] \in S
    OBVIOUS
  <1>2. \A k \in 1 .. n : f[k] \in S
    <2>1. \A k \in 1 .. n : k \in 1 .. n + 1
      OBVIOUS
    <2>. QED  BY <1>1, <2>1
  <1>3. e \in S
    BY <1>1
  <1>4. n + 1 \in Nat /\ DOMAIN g = 1 .. n + 1 /\ DOMAIN f = 1 .. n
    OBVIOUS
  <1>. HIDE DEF S, e
  <1>5. f \in Seq(S) /\ Len(f) = n
    BY <1>2, <1>4, FunctionIsSeq
  <1>6. g \in Seq(S) /\ Len(g) = n + 1
    BY <1>1, <1>4, FunctionIsSeq
  <1>7. /\ Append(f, e) \in Seq(S)
        /\ Len(Append(f, e)) = n + 1
        /\ \A k \in 1 .. n : Append(f, e)[k] = f[k]
        /\ Append(f, e)[n + 1] = e
    BY <1>3, <1>5, AppendProperties
  <1>8. \A k \in 1 .. n + 1 : g[k] = Append(f, e)[k]
    <2>1. \A k \in 1 .. n + 1 : k \in 1 .. n \/ k = n + 1
      OBVIOUS
    <2>. QED  BY <1>7, <2>1 DEF e
  <1>9. g = Append(f, e)
    BY <1>6, <1>7, <1>8, SeqEqual
  <1>. QED  BY <1>9 DEF e

LEMMA FrontOfFunction ==
  ASSUME NEW n \in Nat \ {0}, NEW f, f = [k \in 1 .. n |-> f[k]],
         NEW g, g = [k \in 1 .. n - 1 |-> g[k]],
         \A k \in 1 .. n - 1 : g[k] = f[k]
  PROVE  f # << >> /\ Len(f) = n /\ g = SubSeq(f, 1, n - 1)
  <1>. DEFINE S == {f[k] : k \in 1 .. n}
  <1>1. \A k \in 1 .. n : f[k] \in S
    OBVIOUS
  <1>2. \A k \in 1 .. n - 1 : g[k] \in S
    <2>1. \A k \in 1 .. n - 1 : k \in 1 .. n
      OBVIOUS
    <2>. QED  BY <1>1, <2>1
  <1>3. n - 1 \in Nat /\ DOMAIN g = 1 .. n - 1 /\ DOMAIN f = 1 .. n
    OBVIOUS
  <1>. HIDE DEF S
  <1>4. f \in Seq(S) /\ Len(f) = n
    BY <1>1, <1>3, FunctionIsSeq
  <1>5. g \in Seq(S) /\ Len(g) = n - 1
    BY <1>2, <1>3, FunctionIsSeq
  <1>6. f # << >>
    BY <1>4, EmptySeq
  <1>7. /\ SubSeq(f, 1, n - 1) \in Seq(S)
        /\ Len(SubSeq(f, 1, n - 1)) = n - 1
        /\ \A k \in 1 .. n - 1 : SubSeq(f, 1, n - 1)[k] = f[k]
    BY <1>4, <1>6, FrontOfSeq
  <1>8. g = SubSeq(f, 1, n - 1)
    <2>. DEFINE h == SubSeq(f, 1, n - 1)
    <2>1. h \in Seq(S) /\ Len(g) = Len(h) /\ \A k \in 1 .. Len(g) : g[k] = h[k]
      BY <1>5, <1>7
    <2>. HIDE DEF h
    <2>2. g = h
      BY <1>5, <2>1, SeqEqual
    <2>. QED  BY <2>2 DEF h
  <1>. QED  BY <1>4, <1>6, <1>8

-----------------------------------------------------------------------------
(* The stack of suspended chains.                                          *)

LEMMA SuspendedForm ==
  /\ SuspendedChains = [k \in 1 .. Len(frames) |-> SuspendedChains[k]]
  /\ \A k \in LiveLoops :
       SuspendedChains[k] = [loop |-> frames[k].id,
                             hash |-> loops[frames[k].slot].pre_loop_hash]
  /\ \A k \in (1 .. Len(frames)) \ LiveLoops : SuspendedChains[k] = Abstract!Unmeasured
  BY DEF SuspendedChains, LiveLoops, Abstract!Unmeasured

LEMMA SuspendedFormNext ==
  /\ SuspendedChains' = [k \in 1 .. Len(frames') |-> SuspendedChains'[k]]
  /\ \A k \in LiveLoops' :
       SuspendedChains'[k] = [loop |-> frames'[k].id,
                              hash |-> loops'[frames'[k].slot].pre_loop_hash]
  /\ \A k \in (1 .. Len(frames')) \ LiveLoops' : SuspendedChains'[k] = Abstract!Unmeasured
  BY DEF SuspendedChains, LiveLoops, Abstract!Unmeasured

LEMMA SuspendedLength ==
  ASSUME FramesOK
  PROVE  Len(SuspendedChains) = Len(frames)
  <1>. DEFINE f == SuspendedChains
              S == {f[k] : k \in 1 .. Len(frames)}
  <1>1. Len(frames) \in Nat
    BY LenProperties DEF FramesOK
  <1>2. f = [k \in 1 .. Len(frames) |-> f[k]] /\ DOMAIN f = 1 .. Len(frames)
    BY SuspendedForm
  <1>3. \A k \in 1 .. Len(frames) : f[k] \in S
    OBVIOUS
  <1>. HIDE DEF f, S
  <1>4. Len(f) = Len(frames)
    BY <1>1, <1>2, <1>3, FunctionIsSeq
  <1>. QED  BY <1>4 DEF f

\* The suspended chains of the loops that stay open stay what they were.
ChainsKept ==
  \A k \in LiveLoops \cap LiveLoops' :
    loops'[frames[k].slot].pre_loop_hash = loops[frames[k].slot].pre_loop_hash

LEMMA ChainsUnchanged ==
  ASSUME UNCHANGED frames, LiveLoops' = LiveLoops, ChainsKept
  PROVE  UNCHANGED SuspendedChains
  <1>1. \A k \in 1 .. Len(frames) : SuspendedChains'[k] = SuspendedChains[k]
    <2>1. TAKE k \in 1 .. Len(frames)
    <2>2. CASE k \in LiveLoops
      <3>1. loops'[frames[k].slot].pre_loop_hash = loops[frames[k].slot].pre_loop_hash
        BY <2>2 DEF ChainsKept
      <3>2. SuspendedChains'[k] = [loop |-> frames'[k].id,
                                   hash |-> loops'[frames'[k].slot].pre_loop_hash]
        BY <2>2, SuspendedFormNext
      <3>. QED  BY <2>2, <3>1, <3>2, SuspendedForm
    <2>3. CASE k \notin LiveLoops
      BY <2>3, SuspendedForm, SuspendedFormNext
    <2>. QED  BY <2>2, <2>3
  <1>. QED  BY <1>1, SuspendedForm, SuspendedFormNext

LEMMA ChainPushed ==
  ASSUME FramesOK, NEW f \in Frame, Push(f), ChainsKept,
         LiveLoops' = LiveLoops \/ LiveLoops' = LiveLoops \cup {Len(frames) + 1}
  PROVE  SuspendedChains' = Append(SuspendedChains, SuspendedChains'[Len(frames) + 1])
  <1>. DEFINE n == Len(frames)
  <1>1. n \in Nat /\ LiveLoops \subseteq 1 .. n /\ n + 1 \notin 1 .. n
    BY LenProperties DEF FramesOK, LiveLoops
  <1>2. Len(frames') = n + 1 /\ \A k \in 1 .. n : frames'[k] = frames[k]
    BY PushFrames, AppendProperties DEF FramesOK, Push
  <1>3. \A k \in 1 .. n : k \in LiveLoops' <=> k \in LiveLoops
    BY <1>1
  <1>4. \A k \in 1 .. n : SuspendedChains'[k] = SuspendedChains[k]
    <2>1. TAKE k \in 1 .. n
    <2>2. k \in 1 .. Len(frames')
      BY <1>1, <1>2
    <2>3. CASE k \in LiveLoops
      <3>1. loops'[frames'[k].slot].pre_loop_hash = loops[frames[k].slot].pre_loop_hash
        BY <1>2, <1>3, <2>3 DEF ChainsKept
      <3>2. SuspendedChains'[k] = [loop |-> frames'[k].id,
                                   hash |-> loops'[frames'[k].slot].pre_loop_hash]
        BY <1>3, <2>3, SuspendedFormNext
      <3>3. frames'[k] = frames[k]
        BY <1>2
      <3>. QED  BY <2>3, <3>1, <3>2, <3>3, SuspendedForm
    <2>4. CASE k \notin LiveLoops
      BY <1>3, <2>2, <2>4, SuspendedForm, SuspendedFormNext
    <2>. QED  BY <2>3, <2>4
  <1>5. /\ SuspendedChains = [k \in 1 .. n |-> SuspendedChains[k]]
        /\ SuspendedChains' = [k \in 1 .. n + 1 |-> SuspendedChains'[k]]
    BY <1>2, SuspendedForm, SuspendedFormNext
  <1>. QED  BY <1>1, <1>4, <1>5, AppendedFunction

LEMMA ChainPopped ==
  ASSUME FramesOK, frames # << >>, Pop, ChainsKept,
         LiveLoops' = LiveLoops \ {Len(frames)}
  PROVE  /\ SuspendedChains # << >>
         /\ Abstract!Top = SuspendedChains[Len(frames)]
         /\ SuspendedChains' = Abstract!Below
  <1>. DEFINE n == Len(frames)
  <1>1. n \in Nat \ {0}
    BY LenProperties, EmptySeq DEF FramesOK
  <1>2. Len(frames') = n - 1 /\ \A k \in 1 .. n - 1 : frames'[k] = frames[k]
    BY FrontOfSeq DEF FramesOK, Pop
  <1>3. \A k \in 1 .. n - 1 : (k \in LiveLoops' <=> k \in LiveLoops) /\ k \in 1 .. n
    BY <1>1
  <1>4. \A k \in 1 .. n - 1 : SuspendedChains'[k] = SuspendedChains[k]
    <2>1. TAKE k \in 1 .. n - 1
    <2>2. CASE k \in LiveLoops
      <3>1. loops'[frames'[k].slot].pre_loop_hash = loops[frames[k].slot].pre_loop_hash
        BY <1>2, <1>3, <2>2 DEF ChainsKept
      <3>2. SuspendedChains'[k] = [loop |-> frames'[k].id,
                                   hash |-> loops'[frames'[k].slot].pre_loop_hash]
        BY <1>3, <2>2, SuspendedFormNext
      <3>3. frames'[k] = frames[k]
        BY <1>2
      <3>. QED  BY <2>2, <3>1, <3>2, <3>3, SuspendedForm
    <2>3. CASE k \notin LiveLoops
      BY <1>2, <1>3, <2>3, SuspendedForm, SuspendedFormNext
    <2>. QED  BY <2>2, <2>3
  <1>5. /\ SuspendedChains = [k \in 1 .. n |-> SuspendedChains[k]]
        /\ SuspendedChains' = [k \in 1 .. n - 1 |-> SuspendedChains'[k]]
    BY <1>2, SuspendedForm, SuspendedFormNext
  <1>6. /\ SuspendedChains # << >> /\ Len(SuspendedChains) = n
        /\ SuspendedChains' = SubSeq(SuspendedChains, 1, n - 1)
    BY <1>1, <1>4, <1>5, FrontOfFunction
  <1>. QED  BY <1>6 DEF Abstract!Top, Abstract!Below

-----------------------------------------------------------------------------
(* The table as a summary.                                                 *)

LEMMA MinOfOne ==
  ASSUME NEW i \in Nat
  PROVE  Min({i}) = i
  BY MinInSet

LEMMA RecordedForm ==
  /\ RecordedLoops = [l \in LoopId |-> RecordedLoops[l]]
  /\ RecordedLoops' = [l \in LoopId |-> RecordedLoops'[l]]
  BY DEF RecordedLoops

LEMMA RecordedNone ==
  ASSUME NEW l \in LoopId
  PROVE  /\ SlotsOf(l) = {} => RecordedLoops[l] = NotEntered
         /\ SlotsOf(l)' = {} => RecordedLoops'[l] = NotEntered
  BY DEF RecordedLoops

LEMMA RecordedOne ==
  ASSUME NEW l \in LoopId, NEW i \in Nat
  PROVE  /\ SlotsOf(l) = {i} => RecordedLoops[l] = SummaryOf(loops[i], loops[i].is_active)
         /\ SlotsOf(l)' = {i} => RecordedLoops'[l] = SummaryOf(loops'[i], loops'[i].is_active)
  BY MinOfOne DEF RecordedLoops

LEMMA NoneOrOne ==
  ASSUME OneRecordPerLoop, loop_count \in Nat, NEW l
  PROVE  SlotsOf(l) = {} \/ \E i \in Nat : i \in 1 .. loop_count /\ SlotsOf(l) = {i}
  <1>1. \A i, j \in SlotsOf(l) : i = j
    BY DEF SlotsOf, OneRecordPerLoop
  <1>2. \A i \in SlotsOf(l) : i \in Nat /\ i \in 1 .. loop_count
    BY DEF SlotsOf
  <1>. QED  BY <1>1, <1>2

\* A step that changes one slot, in use before or not, changes the summary of
\* its loop.
LEMMA SlotTouched ==
  ASSUME TypeOK, TypeOK', OneRecordPerLoop, OneRecordPerLoop',
         NEW l \in LoopId, NEW n \in 1 .. loop_count',
         1 .. loop_count' = (1 .. loop_count) \cup {n},
         loops'[n].loop_id = l,
         n \in 1 .. loop_count => loops[n].loop_id = l,
         \A i \in 1 .. loop_count : i # n => loops'[i] = loops[i]
  PROVE  RecordedLoops' =
           [RecordedLoops EXCEPT ![l] = SummaryOf(loops'[n], loops'[n].is_active)]
  <1>1. n \in Nat
    BY DEF TypeOK
  <1>2. SlotsOf(l)' = {n}
    BY DEF SlotsOf, OneRecordPerLoop
  <1>3. RecordedLoops'[l] = SummaryOf(loops'[n], loops'[n].is_active)
    BY <1>1, <1>2, RecordedOne
  <1>4. ASSUME NEW m \in LoopId, m # l PROVE RecordedLoops'[m] = RecordedLoops[m]
    <2>1. SlotsOf(m)' = SlotsOf(m) /\ n \notin SlotsOf(m)
      BY <1>4 DEF SlotsOf
    <2>2. CASE SlotsOf(m) = {}
      BY <2>1, <2>2, RecordedNone
    <2>3. ASSUME NEW i \in Nat, i \in 1 .. loop_count, SlotsOf(m) = {i}
          PROVE  RecordedLoops'[m] = RecordedLoops[m]
      <3>1. loops'[i] = loops[i]
        BY <2>1, <2>3
      <3>. QED  BY <2>1, <2>3, <3>1, RecordedOne
    <2>. QED  BY <2>2, <2>3, NoneOrOne DEF TypeOK
  <1>. QED  BY <1>3, <1>4, RecordedForm

LEMMA SummaryUnchanged ==
  ASSUME UNCHANGED <<loops, loop_count>>
  PROVE  UNCHANGED RecordedLoops
  BY DEF RecordedLoops, SlotsOf

LEMMA ReportUnchanged ==
  ASSUME UNCHANGED <<final_auth, auth_size>>
  PROVE  UNCHANGED FetchedReport
  BY DEF FetchedReport, ReportedLoops

-----------------------------------------------------------------------------
(* Each action as a step of the measurement.                               *)

abstractVars == <<current_hash, SuspendedChains, RecordedLoops, FetchedReport>>

LEMMA NodeMeasured ==
  ASSUME ProgOK, NEW n \in NodeId, RecordNode(n)
  PROVE  Abstract!Node(n)
  <1>1. is_initialized /\ ~DigestPanics /\ CmdRecordNode(n) /\ UNCHANGED frames
    BY DEF RecordNode, Forward, Running, ProgOK, SessionOK, DigestPanics
  <1>2. /\ current_hash' = Append(current_hash, n)
        /\ UNCHANGED <<loops, loop_count, final_auth, auth_size>>
    BY <1>1 DEF CmdRecordNode, Absorb, loopVars, authVars
  <1>3. UNCHANGED SuspendedChains
    BY <1>1, <1>2 DEF SuspendedChains, LiveLoops
  <1>. QED  BY <1>2, <1>3, SummaryUnchanged, ReportUnchanged DEF Abstract!Node

\* A call, hooked or not, or a loop the TA has no room for.
LEMMA RegionOpened ==
  ASSUME FramesOK, NEW f \in Frame, Push(f), LiveLoops' = LiveLoops,
         UNCHANGED <<current_hash, loops, loop_count, final_auth, auth_size>>
  PROVE  Abstract!OpenUnmeasured
  <1>1. /\ Len(frames) + 1 \in 1 .. Len(frames')
        /\ Len(frames) + 1 \notin LiveLoops'
    BY PushFrames DEF LiveLoops
  <1>2. SuspendedChains'[Len(frames) + 1] = Abstract!Unmeasured
    BY <1>1, SuspendedFormNext
  <1>3. SuspendedChains' = Append(SuspendedChains, Abstract!Unmeasured)
    BY <1>2, ChainPushed DEF ChainsKept
  <1>. QED  BY <1>3, SummaryUnchanged, ReportUnchanged DEF Abstract!OpenUnmeasured

LEMMA RegionClosed ==
  ASSUME FramesOK, frames # << >>, Pop, Len(frames) \notin LiveLoops,
         LiveLoops' = LiveLoops,
         UNCHANGED <<current_hash, loops, loop_count, final_auth, auth_size>>
  PROVE  Abstract!CloseUnmeasured
  <1>1. Len(frames) \in 1 .. Len(frames)
    BY PopFrames
  <1>2. SuspendedChains[Len(frames)] = Abstract!Unmeasured
    BY <1>1, SuspendedForm
  <1>3. LiveLoops' = LiveLoops \ {Len(frames)} /\ ChainsKept
    BY DEF ChainsKept
  <1>4. /\ SuspendedChains # << >> /\ Abstract!Top = Abstract!Unmeasured
        /\ SuspendedChains' = Abstract!Below
    BY <1>2, <1>3, ChainPopped
  <1>. QED  BY <1>4, SummaryUnchanged, ReportUnchanged DEF Abstract!CloseUnmeasured

LEMMA LoopEntered ==
  ASSUME ProgOK, NestInv, TypeOK', OneRecordPerLoop',
         NEW l \in LoopId, EnterLoop(l), ~EnterRefused(l), ~IsOpen(l)
  PROVE  Abstract!Enter(l)
  <1>. DEFINE n == SlotToEnter(l)
              f == [kind |-> "loop", id |-> l, live |-> TRUE, slot |-> n]
              top == Len(frames) + 1
  <1>. USE DEF ProgOK, NestInv
  <1>1. n \in 1 .. MaxLoopRecords
    BY SlotToEnterInRange
  <1>2. f \in Frame /\ Push(f)
    <2>1. n \in 0 .. MaxLoopRecords
      BY <1>1, LimitsAssumption
    <2>2. (~EnterRefused(l)) = TRUE
      OBVIOUS
    <2>. QED  BY <2>1, <2>2, Zenon DEF EnterLoop, Frame
  <1>3. is_initialized /\ ~DigestPanics /\ CmdLoopEnter(l)
    BY DEF EnterLoop, Forward, Running, SessionOK, DigestPanics
  <1>4. n \notin ActiveSlots
    BY <1>3, EnterOpensSlot
  <1>5. /\ loops' = [loops EXCEPT ![n] =
                       [RecordToEnter(l) EXCEPT
                          !.pre_loop_hash = current_hash,
                          !.is_active = TRUE,
                          !.invocation_count = (@ + 1) % CounterMod]]
        /\ loop_count' = IF IdleSlotsOf(l) # {} THEN loop_count ELSE loop_count + 1
        /\ current_hash' = << l >>
        /\ UNCHANGED <<final_auth, auth_size>>
    <2>1. Absorb(ZeroHash, l) = << l >>
      BY <1>3 DEF Absorb, ZeroHash
    <2>. QED  BY <1>3, <2>1 DEF CmdLoopEnter, authVars
  <1>6. RecordToEnter(l) \in LoopRecord /\ RecordToEnter(l).loop_id = l
    BY EnteredRecord
  <1>7. /\ loops'[n].loop_id = l /\ loops'[n].is_active = TRUE
        /\ loops'[n].pre_loop_hash = current_hash
        /\ loops'[n].iteration_count = RecordToEnter(l).iteration_count
        /\ loops'[n].invocation_count = (RecordToEnter(l).invocation_count + 1) % CounterMod
        /\ \A i \in 1 .. MaxLoopRecords : i # n => loops'[i] = loops[i]
    BY <1>1, <1>5, <1>6 DEF TypeOK, LoopRecord
  <1>8. ActiveSlots \subseteq 1 .. MaxLoopRecords /\ loop_count \in Nat
        /\ \A i \in 1 .. loop_count : i \in 1 .. MaxLoopRecords
    <2>1. loop_count \in 0 .. MaxLoopRecords /\ MaxLoopRecords \in Nat
      BY LimitsAssumption DEF TypeOK
    <2>2. ActiveSlots \subseteq 1 .. loop_count
      BY SlotsInRange
    <2>. QED  BY <2>1, <2>2
  <1>9. /\ LiveLoops' = LiveLoops \cup {top} /\ top \notin LiveLoops
        /\ \A k \in LiveLoops : frames'[k] = frames[k]
        /\ frames'[top] = f
    BY <1>2, PushFrames DEF LiveLoops
  <1>10. SuspendedChains' = Append(SuspendedChains, [loop |-> l, hash |-> current_hash])
    <2>1. ChainsKept
      <3>1. \A k \in LiveLoops : frames[k].slot \in ActiveSlots
        BY DEF NestOK
      <3>2. \A k \in LiveLoops : loops'[frames[k].slot] = loops[frames[k].slot]
        BY <1>4, <1>7, <1>8, <3>1
      <3>. QED  BY <3>2 DEF ChainsKept
    <2>2. SuspendedChains'[top] = [loop |-> l, hash |-> current_hash]
      BY <1>7, <1>9, SuspendedFormNext
    <2>. QED  BY <1>2, <1>9, <2>1, <2>2, ChainPushed
  <1>. DEFINE entered == SummaryOf(loops'[n], loops'[n].is_active)
              earlier(c, d) == [entries |-> RecordToEnter(l).invocation_count,
                                iterations |-> RecordToEnter(l).iteration_count,
                                before |-> c, body |-> d]
  <1>11. /\ RecordedLoops' = [RecordedLoops EXCEPT ![l] = entered]
         /\ \E c, d : RecordedLoops[l] = earlier(c, d)
    <2>1. ActiveSlotsOf(l) = {}
      <3>1. \A k \in LiveLoops : frames[k].id # l
        BY DEF LiveLoops, IsOpen
      <3>. QED  BY <3>1 DEF ActiveSlotsOf, NestOK
    <2>2. SlotsOf(l) = IdleSlotsOf(l)
      BY <2>1 DEF ActiveSlotsOf, ActiveSlots, IdleSlotsOf, SlotsOf
    <2>3. CASE IdleSlotsOf(l) # {}
      <3>1. n \in IdleSlotsOf(l) /\ n \in 1 .. loop_count /\ loops[n].loop_id = l
        BY <2>3, SlotToEnterInRange DEF IdleSlotsOf
      <3>2. loop_count' = loop_count /\ 1 .. loop_count' = (1 .. loop_count) \cup {n}
            /\ n \in 1 .. loop_count'
        BY <1>5, <2>3, <3>1
      <3>3. SlotsOf(l) = {n} /\ n \in Nat
        BY <1>1, <2>2, <3>1 DEF SlotsOf, OneRecordPerLoop
      <3>4. RecordedLoops[l] = SummaryOf(loops[n], loops[n].is_active)
        BY <3>3, RecordedOne
      <3>5. RecordToEnter(l) = loops[n]
        BY <2>3 DEF RecordToEnter
      <3>6. RecordedLoops[l] = earlier(loops[n].pre_loop_hash, loops[n].loop_hash)
        BY <3>1, <3>4, <3>5 DEF SummaryOf, IdleSlotsOf
      <3>7. RecordedLoops' = [RecordedLoops EXCEPT ![l] = entered]
        BY <1>7, <1>8, <3>1, <3>2, SlotTouched
      <3>. QED  BY <3>6, <3>7, Zenon
    <2>4. CASE IdleSlotsOf(l) = {}
      <3>1. n = loop_count + 1 /\ loop_count' = loop_count + 1
        BY <1>5, <2>4 DEF SlotToEnter
      <3>2. 1 .. loop_count' = (1 .. loop_count) \cup {n} /\ n \in 1 .. loop_count'
            /\ n \notin 1 .. loop_count
        BY <1>8, <3>1
      <3>3. RecordedLoops[l] = NotEntered
        BY <2>2, <2>4, RecordedNone
      <3>4. RecordedLoops[l] = earlier(<< >>, << >>)
        BY <2>4, <3>3, EnteredRecord DEF NotEntered
      <3>5. RecordedLoops' = [RecordedLoops EXCEPT ![l] = entered]
        BY <1>7, <1>8, <3>2, SlotTouched
      <3>. QED  BY <3>4, <3>5, Zenon
    <2>. QED  BY <2>3, <2>4
  <1>12. RecordedLoops' = [RecordedLoops EXCEPT ![l].entries = Abstract!Increment(@),
                                                ![l].before = current_hash,
                                                ![l].body = << >>]
    <2>1. PICK c, d : RecordedLoops[l] = earlier(c, d)
      BY <1>11
    <2>2. entered = [entries |-> (RecordedLoops[l].entries + 1) % CounterMod,
                     iterations |-> RecordedLoops[l].iterations,
                     before |-> current_hash, body |-> << >>]
      BY <1>7, <2>1 DEF SummaryOf
    <2>3. entered = [RecordedLoops[l] EXCEPT !.entries = Abstract!Increment(@),
                                            !.before = current_hash,
                                            !.body = << >>]
      <3>. DEFINE e == Abstract!Increment(RecordedLoops[l].entries)
                  b == RecordedLoops[l].iterations
                  h == current_hash
      <3>1. entered = [entries |-> e, iterations |-> b, before |-> h, body |-> << >>]
        BY <2>2 DEF Abstract!Increment
      <3>2. RecordedLoops[l] =
              [entries |-> RecordedLoops[l].entries, iterations |-> b, before |-> c, body |-> d]
        BY <2>1
      <3>. HIDE DEF e, b, h, entered, earlier
      <3>3. [RecordedLoops[l] EXCEPT !.entries = e]
              = [entries |-> e, iterations |-> b, before |-> c, body |-> d]
        BY <3>2
      <3>4. [[entries |-> e, iterations |-> b, before |-> c, body |-> d] EXCEPT !.before = h]
              = [entries |-> e, iterations |-> b, before |-> h, body |-> d]
        OBVIOUS
      <3>5. [[entries |-> e, iterations |-> b, before |-> h, body |-> d] EXCEPT !.body = << >>]
              = [entries |-> e, iterations |-> b, before |-> h, body |-> << >>]
        OBVIOUS
      <3>6. [RecordedLoops[l] EXCEPT !.entries = e, !.before = h, !.body = << >>]
              = [entries |-> e, iterations |-> b, before |-> h, body |-> << >>]
        BY <3>3, <3>4, <3>5
      <3>. QED  BY <3>1, <3>6 DEF e, h
    <2>. HIDE DEF entered
    <2>. QED  BY <1>11, <2>3, RecordedForm
  <1>. QED  BY <1>5, <1>10, <1>12, ReportUnchanged DEF Abstract!Enter

\* The record the TA finds for the innermost loop, if that loop is measured.
LEMMA InnermostRecord ==
  ASSUME ProgOK, NestInv, InLoop, TopFrame.live
  PROVE  /\ TopFrame.id \in LoopId
         /\ Len(frames) \in LiveLoops
         /\ ActiveSlotsOf(TopFrame.id) = {TopFrame.slot}
         /\ TopFrame.slot \in ActiveSlots
         /\ TopFrame.slot \in 1 .. loop_count
         /\ TopFrame.slot \in 1 .. MaxLoopRecords
         /\ loops[TopFrame.slot].loop_id = TopFrame.id
         /\ loops[TopFrame.slot].is_active = TRUE
         /\ RecordedLoops[TopFrame.id] = SummaryOf(loops[TopFrame.slot], TRUE)
  <1>. DEFINE n == TopFrame.slot
  <1>. USE DEF ProgOK, NestInv
  <1>1. TopFrame.id \in LoopId
    BY TopFrameType DEF InLoop
  <1>2. Len(frames) \in LiveLoops
    BY LenProperties, EmptySeq DEF FramesOK, InLoop, LiveLoops, TopFrame
  <1>3. ActiveSlotsOf(TopFrame.id) = {n}
    BY OwnRecord
  <1>4. /\ n \in ActiveSlots /\ n \in 1 .. loop_count
        /\ loops[n].loop_id = TopFrame.id /\ loops[n].is_active
    BY <1>3 DEF ActiveSlotsOf, ActiveSlots
  <1>5. n \in 1 .. MaxLoopRecords /\ loops[n].is_active = TRUE
    BY <1>4, SlotsInRange DEF TypeOK, LoopRecord
  <1>6. SlotsOf(TopFrame.id) = {n} /\ n \in Nat
    BY <1>4, <1>5 DEF SlotsOf, OneRecordPerLoop
  <1>7. RecordedLoops[TopFrame.id] = SummaryOf(loops[n], loops[n].is_active)
    BY <1>1, <1>6, RecordedOne
  <1>. QED  BY <1>1, <1>2, <1>3, <1>4, <1>5, <1>7

LEMMA LoopLeft ==
  ASSUME Measurable, ProgOK, NestInv, TypeOK', OneRecordPerLoop', ExitLoop, TopFrame.live
  PROVE  Abstract!Exit
  <1>. DEFINE id == TopFrame.id
              n == TopFrame.slot
  <1>1. InLoop /\ CmdLoopExit(id) /\ Pop
    BY DEF ExitLoop
  <1>2. /\ id \in LoopId /\ Len(frames) \in LiveLoops /\ ActiveSlotsOf(id) = {n}
        /\ n \in ActiveSlots /\ n \in 1 .. loop_count /\ n \in 1 .. MaxLoopRecords
        /\ loops[n].loop_id = id
        /\ RecordedLoops[id] = SummaryOf(loops[n], TRUE)
    BY <1>1, InnermostRecord
  <1>3. loop_depth > 0
    <2>1. Cardinality(ActiveSlots) # 0
      BY <1>2, ActiveSlotsFinite, FS_EmptySet DEF ProgOK
    <2>. QED  BY <2>1, ActiveSlotsFinite DEF ProgOK, ActiveWithinDepth, TypeOK
  <1>4. /\ loops' = [loops EXCEPT ![n].loop_hash = current_hash, ![n].is_active = FALSE]
        /\ current_hash' = loops[n].pre_loop_hash
        /\ UNCHANGED <<loop_count, final_auth, auth_size>>
    <2>1. ~(loop_depth <= 0) /\ ActiveSlotsOf(id) # {}
      BY <1>2, <1>3 DEF ProgOK, TypeOK
    <2>2. /\ loops' = [loops EXCEPT ![SlotToExit(id)].loop_hash = current_hash,
                                      ![SlotToExit(id)].is_active = FALSE]
          /\ current_hash' = loops[SlotToExit(id)].pre_loop_hash
          /\ UNCHANGED <<loop_count, final_auth, auth_size>>
      BY <1>1, <2>1, Zenon DEF CmdLoopExit, authVars
    <2>3. SlotToExit(id) = n
      BY <1>2, SlotToExitInSet DEF ProgOK
    <2>. QED  BY <2>2, <2>3, Zenon
  <1>5. loops \in [1 .. MaxLoopRecords -> LoopRecord]
    BY DEF ProgOK, TypeOK
  <1>6. /\ loops'[n].loop_id = id /\ loops'[n].is_active = FALSE
        /\ loops'[n].loop_hash = current_hash
        /\ loops'[n].pre_loop_hash = loops[n].pre_loop_hash
        /\ loops'[n].iteration_count = loops[n].iteration_count
        /\ loops'[n].invocation_count = loops[n].invocation_count
        /\ \A i \in 1 .. MaxLoopRecords : i # n => loops'[i] = loops[i]
    BY <1>2, <1>4, <1>5 DEF LoopRecord
  <1>7. ActiveSlots \subseteq 1 .. MaxLoopRecords
        /\ \A i \in 1 .. loop_count : i \in 1 .. MaxLoopRecords
    BY SlotsInRange DEF ProgOK
  <1>8. LiveLoops' = LiveLoops \ {Len(frames)}
    BY <1>1, FramePopped DEF InLoop, ProgOK, NestInv
  <1>9. ChainsKept
    <2>1. \A k \in LiveLoops : frames[k].slot \in 1 .. MaxLoopRecords
      BY <1>7 DEF NestInv, NestOK
    <2>. QED  BY <1>6, <2>1 DEF ChainsKept
  <1>10. /\ SuspendedChains # << >>
         /\ Abstract!Top = [loop |-> id, hash |-> loops[n].pre_loop_hash]
         /\ SuspendedChains' = Abstract!Below
    BY <1>1, <1>2, <1>8, <1>9, ChainPopped, SuspendedForm DEF InLoop, ProgOK, TopFrame
  <1>11. Abstract!Top # Abstract!Unmeasured
    BY <1>2, <1>10 DEF Measurable, Abstract!Unmeasured
  <1>12. RecordedLoops' = [RecordedLoops EXCEPT ![id] = SummaryOf(loops'[n], loops'[n].is_active)]
    <2>1. n \in 1 .. loop_count' /\ 1 .. loop_count' = (1 .. loop_count) \cup {n}
      BY <1>2, <1>4
    <2>. QED  BY <1>2, <1>6, <1>7, <2>1, SlotTouched DEF ProgOK, NestInv
  <1>13. SummaryOf(loops'[n], loops'[n].is_active) = [RecordedLoops[id] EXCEPT !.body = current_hash]
    BY <1>2, <1>6 DEF SummaryOf
  <1>14. RecordedLoops' = [RecordedLoops EXCEPT ![Abstract!Top.loop].body = current_hash]
    <2>1. Abstract!Top.loop = id
      BY <1>10
    <2>. QED  BY <1>2, <1>12, <1>13, <2>1, RecordedForm
  <1>15. current_hash' = Abstract!Top.hash
    BY <1>4, <1>10
  <1>. QED  BY <1>4, <1>10, <1>11, <1>14, <1>15, ReportUnchanged DEF Abstract!Exit

LEMMA LoopIterated ==
  ASSUME ProgOK, NestInv, TypeOK', OneRecordPerLoop', Iterate
  PROVE  IF TopFrame.live THEN Abstract!Iterate(TopFrame.id) ELSE UNCHANGED abstractVars
  <1>. DEFINE id == TopFrame.id
              n == TopFrame.slot
  <1>1. /\ InLoop /\ CmdLoopIteration(id)
        /\ UNCHANGED <<frames, loop_count, current_hash, final_auth, auth_size>>
    BY DEF Iterate, CmdLoopIteration, hashVars, authVars
  <1>2. CASE ~TopFrame.live
    <2>1. ActiveSlotsOf(id) = {}
      BY <1>1, <1>2, OwnRecord DEF ProgOK, NestInv
    <2>2. UNCHANGED loops
      BY <1>1, <2>1 DEF CmdLoopIteration
    <2>3. UNCHANGED SuspendedChains
      BY <1>1, <2>2 DEF SuspendedChains, LiveLoops
    <2>. QED  BY <1>1, <1>2, <2>2, <2>3, SummaryUnchanged, ReportUnchanged DEF abstractVars
  <1>3. CASE TopFrame.live
    <2>1. /\ id \in LoopId /\ Len(frames) \in LiveLoops /\ ActiveSlotsOf(id) = {n}
          /\ n \in 1 .. loop_count /\ n \in 1 .. MaxLoopRecords
          /\ loops[n].loop_id = id /\ loops[n].is_active = TRUE
          /\ RecordedLoops[id] = SummaryOf(loops[n], TRUE)
      BY <1>1, <1>3, InnermostRecord
    <2>2. loops' = [loops EXCEPT ![n].iteration_count = (@ + 1) % CounterMod]
      BY <1>3, IterateNest
    <2>3. loops \in [1 .. MaxLoopRecords -> LoopRecord]
      BY DEF ProgOK, TypeOK
    <2>4. /\ loops'[n].loop_id = id /\ loops'[n].is_active = TRUE
          /\ loops'[n].loop_hash = loops[n].loop_hash
          /\ loops'[n].pre_loop_hash = loops[n].pre_loop_hash
          /\ loops'[n].iteration_count = (loops[n].iteration_count + 1) % CounterMod
          /\ loops'[n].invocation_count = loops[n].invocation_count
          /\ \A i \in 1 .. MaxLoopRecords : i # n => loops'[i] = loops[i]
      BY <2>1, <2>2, <2>3 DEF LoopRecord
    <2>5. ActiveSlots \subseteq 1 .. MaxLoopRecords
          /\ \A i \in 1 .. loop_count : i \in 1 .. MaxLoopRecords
      BY SlotsInRange DEF ProgOK
    <2>6. UNCHANGED SuspendedChains
      <3>1. LiveLoops' = LiveLoops
        BY <1>1 DEF LiveLoops
      <3>2. \A k \in LiveLoops : frames[k].slot \in 1 .. MaxLoopRecords
        BY <2>5 DEF NestInv, NestOK
      <3>3. ChainsKept
        BY <2>4, <3>2 DEF ChainsKept
      <3>. QED  BY <1>1, <3>1, <3>3, ChainsUnchanged
    <2>7. \E k \in 1 .. Len(SuspendedChains) : SuspendedChains[k].loop = id
      <3>1. SuspendedChains[Len(frames)].loop = id /\ Len(frames) \in 1 .. Len(frames)
        BY <2>1, SuspendedForm DEF TopFrame, LiveLoops
      <3>. QED  BY <3>1, SuspendedLength DEF ProgOK
    <2>8. RecordedLoops' = [RecordedLoops EXCEPT ![id] = SummaryOf(loops'[n], loops'[n].is_active)]
      <3>1. n \in 1 .. loop_count' /\ 1 .. loop_count' = (1 .. loop_count) \cup {n}
        BY <1>1, <2>1
      <3>. QED  BY <2>1, <2>4, <2>5, <3>1, SlotTouched DEF ProgOK, NestInv
    <2>9. SummaryOf(loops'[n], loops'[n].is_active)
            = [RecordedLoops[id] EXCEPT !.iterations = Abstract!Increment(@)]
      BY <2>1, <2>4 DEF SummaryOf, Abstract!Increment
    <2>10. RecordedLoops' = [RecordedLoops EXCEPT ![id].iterations = Abstract!Increment(@)]
      BY <2>1, <2>8, <2>9, RecordedForm
    <2>. QED  BY <1>1, <1>3, <2>6, <2>7, <2>10, ReportUnchanged DEF Abstract!Iterate
  <1>. QED  BY <1>2, <1>3

\* OPEN and INIT, the first or a later one.
LEMMA CycleStarted ==
  ASSUME Measurable, ProgOK, NestInv, Start \/ Reinit
  PROVE  Abstract!Reset
  <1>. USE DEF ProgOK
  <1>1. loop_count' = 0 /\ auth_size' = 0 /\ current_hash' = << >>
    BY DEF Start, Reinit, OpenSession, ZeroContext, CmdInit, ResetLoops, SessionOK, ZeroHash
  <1>2. LiveLoops' = {} /\ Len(frames') = Len(frames)
    <2>1. CASE Start
      <3>1. frames = << >> /\ frames' = frames
        BY <2>1 DEF Start, OpenSession, SessionOK
      <3>. QED  BY <3>1 DEF LiveLoops
    <2>2. CASE Reinit
      <3>. DEFINE lives == [k \in 1 .. Len(frames) |-> FALSE]
      <3>1. frames' = [k \in 1 .. Len(frames) |-> [frames[k] EXCEPT !.live = lives[k]]]
        BY <2>2 DEF Reinit, ForgetFrames
      <3>2. lives \in [1 .. Len(frames) -> BOOLEAN] /\ \A k \in LoopFrames : ~lives[k]
        BY DEF LoopFrames
      <3>. QED  BY <3>1, <3>2, FramesMarked, MarkFrames DEF NestInv
    <2>. QED  BY <2>1, <2>2
  <1>3. SuspendedChains' = [k \in 1 .. Len(SuspendedChains) |-> Abstract!Unmeasured]
    BY <1>2, SuspendedFormNext, SuspendedLength
  <1>4. RecordedLoops' = [l \in LoopId |-> Abstract!NotEntered]
    <2>1. \A l \in LoopId : SlotsOf(l)' = {}
      BY <1>1 DEF SlotsOf
    <2>. QED  BY <2>1, RecordedNone, RecordedForm DEF NotEntered, Abstract!NotEntered
  <1>5. FetchedReport' = Abstract!NoReport
    BY <1>1 DEF FetchedReport, NotEntered, Abstract!NoReport, Abstract!NotEntered
  <1>. QED  BY <1>1, <1>3, <1>4, <1>5 DEF Abstract!Reset

\* Serialization copies the table, and no record of it is active.
LEMMA ReportIsSummary ==
  ASSUME TypeOK, OneRecordPerLoop, ActiveSlots = {},
         final_auth'.records = [i \in 1 .. RecordsSerialized |-> ReportOf(loops[i])]
  PROVE  ReportedLoops' = RecordedLoops
  <1>. DEFINE found(l) == {i \in 1 .. Len(final_auth'.records) :
                             final_auth'.records[i].loop_id = l}
  <1>1. loop_count \in Nat /\ RecordsSerialized = loop_count
    BY AllRecordsFit DEF TypeOK
  <1>2. Len(final_auth'.records) = loop_count
    BY <1>1, SerializedType, LenProperties
  <1>3. \A l \in LoopId : found(l) = SlotsOf(l)
    BY <1>1, <1>2 DEF SlotsOf, ReportOf
  <1>4. ASSUME NEW l \in LoopId PROVE ReportedLoops'[l] = RecordedLoops[l]
    <2>1. ReportedLoops'[l] = IF found(l) = {} THEN NotEntered
                              ELSE SummaryOf(final_auth'.records[Min(found(l))], FALSE)
      BY DEF ReportedLoops
    <2>2. CASE SlotsOf(l) = {}
      BY <1>3, <2>1, <2>2, RecordedNone
    <2>3. ASSUME NEW i \in Nat, i \in 1 .. loop_count, SlotsOf(l) = {i}
          PROVE  ReportedLoops'[l] = RecordedLoops[l]
      <3>1. ReportedLoops'[l] = SummaryOf(final_auth'.records[i], FALSE)
        BY <1>3, <2>1, <2>3, MinOfOne
      <3>2. final_auth'.records[i] = ReportOf(loops[i])
        BY <1>1, <2>3
      <3>3. ~loops[i].is_active
        BY <2>3 DEF ActiveSlots
      <3>4. RecordedLoops[l] = SummaryOf(loops[i], loops[i].is_active)
        BY <2>3, RecordedOne
      <3>. DEFINE rec == loops[i]
      <3>5. ReportedLoops'[l] = SummaryOf(ReportOf(rec), FALSE)
        BY <3>1, <3>2
      <3>6. RecordedLoops[l] = SummaryOf(rec, FALSE)
        BY <3>3, <3>4 DEF SummaryOf
      <3>. HIDE DEF rec
      <3>. QED  BY <3>5, <3>6 DEF SummaryOf, ReportOf
    <2>. QED  BY <1>1, <2>2, <2>3, NoneOrOne
  <1>5. ReportedLoops' = [l \in LoopId |-> ReportedLoops'[l]]
    BY DEF ReportedLoops
  <1>. QED  BY <1>4, <1>5, RecordedForm

LEMMA CycleFinalized ==
  ASSUME Measurable, ProgOK, NestInv, Finalize
  PROVE  Abstract!Finalize
  <1>. USE DEF ProgOK, NestInv
  <1>. DEFINE lives == [k \in 1 .. Len(frames) |-> frames[k].live /\ frames[k].kind = "call"]
  <1>1. /\ CmdFinalize
        /\ frames' = [k \in 1 .. Len(frames) |-> [frames[k] EXCEPT !.live = lives[k]]]
        /\ \A k \in 1 .. Len(frames) : frames[k].kind # "loop"
    BY DEF Finalize, Measurable
  <1>2. LiveLoops = {} /\ ActiveSlots = {}
    BY <1>1 DEF LiveLoops, NestOK
  <1>3. UNCHANGED <<loops, loop_count, current_hash>>
    <2>1. loops' = [i \in 1 .. MaxLoopRecords |-> loops[i]]
      BY <1>1, <1>2 DEF CmdFinalize, ForceClosed
    <2>. QED  BY <1>1, <2>1 DEF CmdFinalize, hashVars, TypeOK
  <1>4. LiveLoops' = {} /\ Len(frames') = Len(frames)
    <2>1. lives \in [1 .. Len(frames) -> BOOLEAN] /\ \A k \in LoopFrames : ~lives[k]
      BY DEF LoopFrames
    <2>. QED  BY <1>1, <2>1, FramesMarked, MarkFrames
  <1>5. \A k \in 1 .. Len(SuspendedChains) : SuspendedChains[k] = Abstract!Unmeasured
    BY <1>2, SuspendedForm, SuspendedLength
  <1>6. UNCHANGED SuspendedChains
    <2>1. \A k \in 1 .. Len(frames) : SuspendedChains'[k] = SuspendedChains[k]
      BY <1>2, <1>4, SuspendedForm, SuspendedFormNext
    <2>. QED  BY <1>4, <2>1, SuspendedForm, SuspendedFormNext
  <1>7. FetchedReport' = [hash |-> current_hash, loops |-> RecordedLoops]
    <2>1. auth_size' # 0
      BY <1>1, AllRecordsFit DEF CmdFinalize, HeaderSize, RecordSize, TypeOK
    <2>2. /\ final_auth'.final_hash = current_hash
          /\ final_auth'.records = [i \in 1 .. RecordsSerialized |-> ReportOf(loops[i])]
      BY <1>1 DEF CmdFinalize
    <2>3. ReportedLoops' = RecordedLoops
      BY <1>2, <2>2, ReportIsSummary
    <2>. QED  BY <2>1, <2>2, <2>3 DEF FetchedReport
  <1>. QED  BY <1>3, <1>5, <1>6, <1>7, SummaryUnchanged DEF Abstract!Finalize

-----------------------------------------------------------------------------
(* The theorem.                                                            *)

LEMMA InitMeasured ==
  ASSUME ProgInit
  PROVE  Abstract!Init
  <1>1. /\ current_hash = << >> /\ frames = << >> /\ loop_count = 0 /\ auth_size = 0
    BY DEF ProgInit, Init, ZeroHash
  <1>2. SuspendedChains = << >>
    BY <1>1 DEF SuspendedChains
  <1>3. RecordedLoops = [l \in LoopId |-> Abstract!NotEntered]
    <2>1. \A l \in LoopId : SlotsOf(l) = {}
      BY <1>1 DEF SlotsOf
    <2>. QED  BY <2>1, RecordedNone, RecordedForm DEF NotEntered, Abstract!NotEntered
  <1>4. FetchedReport = Abstract!NoReport
    BY <1>1 DEF FetchedReport, NotEntered, Abstract!NoReport, Abstract!NotEntered
  <1>. QED  BY <1>1, <1>2, <1>3, <1>4 DEF Abstract!Init

LEMMA StepMeasured ==
  ASSUME Measurable, ProgOK, NestInv, TypeOK', NestInv', [ProgNext]_progVars
  PROVE  [Abstract!Next]_abstractVars
  <1>. USE DEF ProgOK
  <1>0. OneRecordPerLoop'
    BY DEF NestInv
  <1>1. CASE Start \/ Reinit
    BY <1>1, CycleStarted DEF Abstract!Next
  <1>2. CASE Finalize
    BY <1>2, CycleFinalized DEF Abstract!Next
  <1>3. ASSUME UNCHANGED <<frames, loops, loop_count, current_hash, final_auth, auth_size>>
        PROVE  UNCHANGED abstractVars
    BY <1>3, SummaryUnchanged, ReportUnchanged DEF abstractVars, SuspendedChains, LiveLoops
  <1>4. CASE GetAuth
    BY <1>3, <1>4 DEF GetAuth, CmdGetAuth, ctxVars, hashVars, loopVars, authVars
  <1>5. ASSUME NEW n \in NodeId, RecordNode(n) PROVE Abstract!Next
    BY <1>5, NodeMeasured DEF Abstract!Next
  <1>6. ASSUME NEW f \in Frame, f.kind = "call", Push(f),
               UNCHANGED <<current_hash, loops, loop_count, final_auth, auth_size>>
        PROVE  Abstract!Next
    BY <1>6, CallPushed, RegionOpened DEF Abstract!Next, NestInv
  <1>7. ASSUME NEW n \in NodeId, EnterUnhooked(n) PROVE Abstract!Next
    <2>. DEFINE f == [kind |-> "call", id |-> n, live |-> FALSE, slot |-> 0]
    <2>1. f \in Frame /\ f.kind = "call"
      BY DEF Frame
    <2>. QED
      BY <1>6, <1>7, <2>1 DEF EnterUnhooked, vars, ctxVars, hashVars, loopVars, authVars
  <1>8. ASSUME NEW site \in NodeId, NEW caller \in NodeId, EnterCall(site, caller)
        PROVE  Abstract!Next
    <2>. DEFINE f == [kind |-> "call", id |-> site,
                      live |-> Len(call_stack) < MaxCallDepth, slot |-> 0]
    <2>1. f \in Frame /\ f.kind = "call"
      BY DEF Frame
    <2>. QED
      BY <1>6, <1>8, <2>1 DEF EnterCall, CmdCallEnter, hashVars, loopVars, authVars
  <1>9. ASSUME NEW n \in NodeId, ReturnFromCall(n) PROVE Abstract!Next
    <2>1. /\ InCall /\ Pop
          /\ UNCHANGED <<current_hash, loops, loop_count, final_auth, auth_size>>
      BY <1>9 DEF ReturnFromCall, CmdCallReturn, hashVars, loopVars, authVars
    <2>2. frames # << >> /\ Len(frames) \notin LiveLoops /\ LiveLoops' = LiveLoops
      BY <2>1, FramePopped DEF InCall, TopFrame, LiveLoops, NestInv
    <2>. QED  BY <2>1, <2>2, RegionClosed DEF Abstract!Next
  <1>10. ASSUME NEW l \in LoopId, EnterLoop(l), EnterRefused(l) PROVE Abstract!Next
    <2>. DEFINE f == [kind |-> "loop", id |-> l, live |-> FALSE, slot |-> 0]
    <2>1. f \in Frame /\ Push(f)
      <3>1. 0 \in 0 .. MaxLoopRecords
        BY LimitsAssumption
      <3>2. (~EnterRefused(l)) = FALSE
        BY <1>10
      <3>. QED  BY <1>10, <3>1, <3>2, Zenon DEF EnterLoop, Frame
    <2>2. LiveLoops' = LiveLoops
      BY <2>1, PushFrames DEF LiveLoops
    <2>3. UNCHANGED <<current_hash, loops, loop_count, final_auth, auth_size>>
      BY <1>10 DEF EnterLoop, CmdLoopEnter, ctxVars, hashVars, loopVars, authVars
    <2>. QED  BY <2>1, <2>2, <2>3, RegionOpened DEF Abstract!Next
  <1>11. ASSUME NEW l \in LoopId, EnterLoop(l), ~EnterRefused(l) PROVE Abstract!Next
    <2>1. ~IsOpen(l)
      BY <1>11 DEF EnterLoop, Measurable
    <2>. QED  BY <1>0, <1>11, <2>1, LoopEntered DEF Abstract!Next
  <1>12. CASE ExitLoop /\ TopFrame.live
    BY <1>0, <1>12, LoopLeft DEF Abstract!Next
  <1>13. CASE ExitLoop /\ ~TopFrame.live
    <2>1. InLoop /\ Pop /\ UNCHANGED <<current_hash, loops, loop_count, final_auth, auth_size>>
      BY <1>13, ExitNest DEF ExitLoop, CmdLoopExit, loopVars, authVars
    <2>2. frames # << >> /\ Len(frames) \notin LiveLoops /\ LiveLoops' = LiveLoops
      BY <1>13, <2>1, FramePopped DEF InLoop, TopFrame, LiveLoops, NestInv
    <2>. QED  BY <2>1, <2>2, RegionClosed DEF Abstract!Next
  <1>14. CASE Iterate
    <2>1. TopFrame.id \in LoopId
      BY <1>14, TopFrameType DEF Iterate, InLoop
    <2>2. CASE TopFrame.live
      BY <1>0, <1>14, <2>1, <2>2, LoopIterated DEF Abstract!Next
    <2>3. CASE ~TopFrame.live
      BY <1>0, <1>14, <2>3, LoopIterated
    <2>. QED  BY <2>2, <2>3
  <1>15. CASE UNCHANGED progVars
    BY <1>3, <1>15 DEF progVars, vars, ctxVars, hashVars, loopVars, authVars
  <1>. QED
    BY <1>1, <1>2, <1>4, <1>5, <1>7, <1>8, <1>9, <1>10, <1>11, <1>12, <1>13, <1>14, <1>15,
       ProgramCases

\* What the TA keeps in its table and reports is the measurement: every chain,
\* counter and body, for every nest, every limit and every number of cycles.
THEOREM ProgramIsMeasured ==
  ASSUME Measurable
  PROVE  ProgSpec => ImplementsMeasurement
  <1>1. ~MayRecurse /\ AlwaysAnswers
    BY DEF Measurable
  <1>2. ProgSpec => [](ProgOK /\ NestInv)
    BY <1>1, NestInvariant
  <1>3. ProgInit => Abstract!Init
    BY InitMeasured
  <1>4. ProgOK /\ NestInv /\ (ProgOK /\ NestInv)' /\ [ProgNext]_progVars
        => [Abstract!Next]_abstractVars
    BY StepMeasured DEF ProgOK
  <1>. QED
    BY <1>2, <1>3, <1>4, PTL
       DEF ProgSpec, ImplementsMeasurement, Abstract!Spec, abstractVars

-----------------------------------------------------------------------------
(* Isolation of the cycles. INIT leaves loops[] and final_auth as they are, *)
(* and loop_enter leaves loop_hash of the slot it takes. None of that is     *)
(* seen: from INIT on, the TA and a twin that starts from zeroed memory are  *)
(* related by Mirrored, which has them differ only where nothing reads.      *)

\* What the theorem assumes of the program and of the TA. A cycle that is
\* finalized inside a loop does report what the slot held before.
Isolated ==
  /\ ~MayRecurse
  /\ ~FinalizeInLoops
  /\ AlwaysAnswers

\* Two records that no command tells apart: the hash of a body that is not
\* over yet may differ, nobody reads it.
SameRecord(r, t) ==
  /\ r.loop_id = t.loop_id
  /\ r.pre_loop_hash = t.pre_loop_hash
  /\ r.iteration_count = t.iteration_count
  /\ r.invocation_count = t.invocation_count
  /\ r.is_active = t.is_active
  /\ r.depth_level = t.depth_level
  /\ ~r.is_active => r.loop_hash = t.loop_hash

SameTable == \A i \in 1 .. loop_count : SameRecord(loops[i], t_loops[i])

SameScalars ==
  /\ t_current_hash = current_hash
  /\ t_loop_count = loop_count
  /\ t_loop_depth = loop_depth
  /\ t_call_stack = call_stack
  /\ t_auth_size = auth_size
  /\ t_reply = reply

TwinRuns == t_session = "open" /\ t_hash_op = "live" /\ t_is_initialized = TRUE

SameReport == auth_size # 0 => t_final_auth = final_auth

TwinTable == t_loops \in [1 .. MaxLoopRecords -> LoopRecord]

Mirrored == TwinRuns /\ SameScalars /\ SameReport /\ TwinTable /\ SameTable

-----------------------------------------------------------------------------
(* The twin sees the same table.                                           *)

LEMMA SameSlots ==
  ASSUME TypeOK, Mirrored
  PROVE  /\ Twin!ActiveSlots = ActiveSlots
         /\ \A id : Twin!ActiveSlotsOf(id) = ActiveSlotsOf(id)
         /\ \A id : Twin!IdleSlotsOf(id) = IdleSlotsOf(id)
         /\ \A id : Twin!SlotToEnter(id) = SlotToEnter(id)
         /\ \A id : Twin!SlotToExit(id) = SlotToExit(id)
         /\ \A id : Twin!SlotToIterate(id) = SlotToIterate(id)
         /\ \A id : Twin!EnterRefused(id) <=> EnterRefused(id)
         /\ ~Twin!DigestPanics
  <1>1. t_loop_count = loop_count /\ t_loop_depth = loop_depth
    BY DEF Mirrored, SameScalars
  <1>2. \A i \in 1 .. loop_count : /\ t_loops[i].is_active = loops[i].is_active
                                  /\ t_loops[i].loop_id = loops[i].loop_id
    BY DEF Mirrored, SameTable, SameRecord
  <1>3. Twin!ActiveSlots = ActiveSlots
    BY <1>1, <1>2 DEF ActiveSlots, Twin!ActiveSlots
  <1>4. \A id : Twin!ActiveSlotsOf(id) = ActiveSlotsOf(id)
    BY <1>2, <1>3 DEF ActiveSlots, ActiveSlotsOf, Twin!ActiveSlotsOf
  <1>5. \A id : Twin!IdleSlotsOf(id) = IdleSlotsOf(id)
    BY <1>1, <1>2 DEF IdleSlotsOf, Twin!IdleSlotsOf
  <1>6. \A S : Twin!Min(S) = Min(S)
    BY DEF Min, Twin!Min
  <1>7. \A S : Twin!Max(S) = Max(S)
    BY DEF Max, Twin!Max
  <1>8. \A id : Twin!SlotToEnter(id) = SlotToEnter(id)
    BY <1>1, <1>5, <1>6 DEF SlotToEnter, Twin!SlotToEnter
  <1>9. \A id : Twin!SlotToExit(id) = SlotToExit(id)
    BY <1>4, <1>6 DEF SlotToExit, Twin!SlotToExit
  <1>10. \A id : Twin!SlotToIterate(id) = SlotToIterate(id)
    BY <1>4, <1>7 DEF SlotToIterate, Twin!SlotToIterate
  <1>11. \A id : Twin!EnterRefused(id) <=> EnterRefused(id)
    BY <1>1, <1>5 DEF EnterRefused, Twin!EnterRefused
  <1>12. ~Twin!DigestPanics
    BY DEF Mirrored, TwinRuns, Twin!DigestPanics
  <1>. QED  BY <1>3, <1>4, <1>5, <1>8, <1>9, <1>10, <1>11, <1>12

-----------------------------------------------------------------------------
(* Commands.                                                               *)

LEMMA CycleMirrored ==
  ASSUME FreshTwin, CmdInit, hash_op # "freed", ~AllocMayFail
  PROVE  Mirrored'
  <1>1. TwinRuns' /\ SameScalars' /\ SameReport'
    BY DEF FreshTwin, CmdInit, ResetLoops, ResetCalls, AllocateDigest, Reply,
           TwinRuns, SameScalars, SameReport
  <1>2. TwinTable'
    BY ZeroTypes DEF FreshTwin, TwinTable
  <1>3. loop_count' = 0
    BY DEF CmdInit, ResetLoops
  <1>4. SameTable'
    BY <1>3 DEF SameTable
  <1>. QED  BY <1>1, <1>2, <1>4 DEF Mirrored

\* Both refuse the loop, or both enter it in the same slot.
LEMMA EnterMirrored ==
  ASSUME TypeOK, TypeOK', SessionOK, Mirrored, is_initialized,
         NEW l \in LoopId, CmdLoopEnter(l), Twin!CmdLoopEnter(l)
  PROVE  Mirrored'
  <1>. DEFINE n == SlotToEnter(l)
  <1>. USE DEF Mirrored
  <1>1. ~DigestPanics /\ ~Twin!DigestPanics
    BY SameSlots DEF SessionOK, DigestPanics
  <1>2. CASE EnterRefused(l)
    <2>1. UNCHANGED <<session, ctxVars>> /\ Reply("LOOP_ENTER", "OVERFLOW", 0)
      BY <1>2 DEF CmdLoopEnter
    <2>2. Twin!EnterRefused(l)
      BY <1>2, SameSlots
    <2>3. /\ UNCHANGED <<t_session, t_current_hash, t_hash_op, t_is_initialized, t_loops,
                         t_loop_count, t_loop_depth, t_call_stack, t_final_auth, t_auth_size>>
          /\ Twin!Reply("LOOP_ENTER", "OVERFLOW", 0)
      BY <2>2 DEF Twin!CmdLoopEnter, Twin!ctxVars, Twin!hashVars, Twin!loopVars, Twin!authVars
    <2>. QED
      BY <2>1, <2>3 DEF ctxVars, hashVars, loopVars, authVars, Reply, Twin!Reply,
                        TwinRuns, SameScalars, SameReport, TwinTable, SameTable
  <1>3. CASE ~EnterRefused(l)
    <2>1. n \in 1 .. MaxLoopRecords /\ ~Twin!EnterRefused(l) /\ Twin!SlotToEnter(l) = n
          /\ Twin!IdleSlotsOf(l) = IdleSlotsOf(l)
      BY <1>3, SlotToEnterInRange, SameSlots
    <2>2. /\ loops' = [loops EXCEPT ![n] =
                         [RecordToEnter(l) EXCEPT
                            !.pre_loop_hash = current_hash,
                            !.is_active = TRUE,
                            !.invocation_count = (@ + 1) % CounterMod]]
          /\ loop_count' = IF IdleSlotsOf(l) # {} THEN loop_count ELSE loop_count + 1
          /\ loop_depth' = loop_depth + 1
          /\ current_hash' = Append(ZeroHash, l)
          /\ Reply("LOOP_ENTER", "SUCCESS", 0)
          /\ UNCHANGED <<call_stack, final_auth, auth_size>>
      BY <1>1, <1>3 DEF CmdLoopEnter, Absorb, authVars
    <2>3. /\ t_loops' = [t_loops EXCEPT ![n] =
                           [Twin!RecordToEnter(l) EXCEPT
                              !.pre_loop_hash = current_hash,
                              !.is_active = TRUE,
                              !.invocation_count = (@ + 1) % CounterMod]]
          /\ t_loop_count' = IF IdleSlotsOf(l) # {} THEN loop_count ELSE loop_count + 1
          /\ t_loop_depth' = loop_depth + 1
          /\ t_current_hash' = Append(ZeroHash, l)
          /\ Twin!Reply("LOOP_ENTER", "SUCCESS", 0)
          /\ UNCHANGED <<t_session, t_hash_op, t_is_initialized, t_call_stack,
                         t_final_auth, t_auth_size>>
      BY <1>1, <2>1
         DEF Twin!CmdLoopEnter, Twin!Absorb, Twin!authVars, Twin!ZeroHash, ZeroHash,
             TwinRuns, SameScalars
    <2>4. RecordToEnter(l) \in LoopRecord
      BY <1>3, RecordToEnterType
    <2>5. /\ Twin!RecordToEnter(l) \in LoopRecord
          /\ Twin!RecordToEnter(l).loop_id = RecordToEnter(l).loop_id
          /\ Twin!RecordToEnter(l).iteration_count = RecordToEnter(l).iteration_count
          /\ Twin!RecordToEnter(l).invocation_count = RecordToEnter(l).invocation_count
          /\ Twin!RecordToEnter(l).depth_level = RecordToEnter(l).depth_level
      <3>1. t_loops[n] \in LoopRecord /\ loops[n] \in LoopRecord /\ t_loop_depth = loop_depth
        BY <2>1 DEF TwinTable, TypeOK, SameScalars
      <3>2. CASE IdleSlotsOf(l) # {}
        <4>1. RecordToEnter(l) = loops[n] /\ Twin!RecordToEnter(l) = t_loops[n]
          BY <2>1, <3>2 DEF RecordToEnter, Twin!RecordToEnter
        <4>2. n \in 1 .. loop_count
          BY <1>3, <3>2, SlotToEnterInRange DEF IdleSlotsOf
        <4>3. SameRecord(loops[n], t_loops[n])
          BY <4>2 DEF SameTable
        <4>. QED  BY <3>1, <4>1, <4>3 DEF SameRecord
      <3>3. CASE IdleSlotsOf(l) = {}
        <4>1. RecordToEnter(l) =
                [loops[n] EXCEPT !.loop_id = l, !.iteration_count = 0,
                                 !.invocation_count = 0, !.depth_level = loop_depth]
          BY <3>3 DEF RecordToEnter
        <4>2. Twin!RecordToEnter(l) =
                [t_loops[n] EXCEPT !.loop_id = l, !.iteration_count = 0,
                                   !.invocation_count = 0, !.depth_level = loop_depth]
          BY <2>1, <3>1, <3>3 DEF Twin!RecordToEnter
        <4>3. loop_depth \in Nat /\ 0 \in 0 .. CounterMod - 1
          BY LimitsAssumption DEF TypeOK
        <4>. QED  BY <3>1, <4>1, <4>2, <4>3 DEF LoopRecord
      <3>. QED  BY <3>2, <3>3
    <2>6. current_hash \in Hash /\ loops \in [1 .. MaxLoopRecords -> LoopRecord]
          /\ t_loops \in [1 .. MaxLoopRecords -> LoopRecord]
      BY DEF TypeOK, TwinTable
    <2>7. TwinTable'
      <3>1. (Twin!RecordToEnter(l).invocation_count + 1) % CounterMod \in 0 .. CounterMod - 1
        BY <2>5, LimitsAssumption DEF LoopRecord
      <3>2. [Twin!RecordToEnter(l) EXCEPT
               !.pre_loop_hash = current_hash,
               !.is_active = TRUE,
               !.invocation_count = (@ + 1) % CounterMod] \in LoopRecord
        BY <2>5, <2>6, <3>1 DEF LoopRecord
      <3>. QED  BY <2>3, <2>6, <3>2 DEF TwinTable
    <2>8. SameRecord(loops'[n], t_loops'[n])
      <3>. DEFINE r == RecordToEnter(l)
                  t == Twin!RecordToEnter(l)
                  entered(rec) == [rec EXCEPT !.pre_loop_hash = current_hash,
                                              !.is_active = TRUE,
                                              !.invocation_count = (@ + 1) % CounterMod]
      <3>1. loops'[n] = entered(r) /\ t_loops'[n] = entered(t)
        BY <2>1, <2>2, <2>3, <2>6
      <3>2. r \in LoopRecord /\ t \in LoopRecord
        BY <2>4, <2>5
      <3>3. /\ r.loop_id = t.loop_id /\ r.iteration_count = t.iteration_count
            /\ r.invocation_count = t.invocation_count /\ r.depth_level = t.depth_level
        BY <2>5
      <3>. HIDE DEF r, t
      <3>4. SameRecord(entered(r), entered(t))
        BY <3>2, <3>3 DEF LoopRecord, SameRecord
      <3>. QED  BY <3>1, <3>4
    <2>9. \A i \in 1 .. MaxLoopRecords : i # n => loops'[i] = loops[i] /\ t_loops'[i] = t_loops[i]
      BY <2>2, <2>3, <2>6
    <2>10. SameTable'
      <3>1. \A i \in 1 .. loop_count' : i \in 1 .. MaxLoopRecords /\ (i # n => i \in 1 .. loop_count)
        <4>1. loop_count \in 0 .. MaxLoopRecords /\ MaxLoopRecords \in Nat
          BY LimitsAssumption DEF TypeOK
        <4>2. loop_count' = loop_count \/ (loop_count' = loop_count + 1 /\ n = loop_count + 1)
          BY <2>2, Zenon DEF SlotToEnter
        <4>. HIDE DEF n
        <4>. QED  BY <2>1, <4>1, <4>2
      <3>. QED  BY <2>8, <2>9, <3>1 DEF SameTable
    <2>. QED
      BY <2>2, <2>3, <2>7, <2>10 DEF TwinRuns, SameScalars, SameReport, Reply, Twin!Reply
  <1>. QED  BY <1>2, <1>3

\* Leaving a loop writes the field in which the tables differed.
LEMMA ExitMirrored ==
  ASSUME TypeOK, Mirrored, NEW l \in LoopId, CmdLoopExit(l), Twin!CmdLoopExit(l)
  PROVE  Mirrored'
  <1>. DEFINE n == SlotToExit(l)
  <1>. USE DEF Mirrored
  <1>1. /\ t_loop_depth = loop_depth /\ t_current_hash = current_hash
        /\ Twin!ActiveSlotsOf(l) = ActiveSlotsOf(l) /\ Twin!SlotToExit(l) = n
    BY SameSlots DEF SameScalars
  <1>2. /\ UNCHANGED <<loop_count, call_stack, final_auth, auth_size>>
        /\ UNCHANGED <<t_session, t_hash_op, t_is_initialized, t_loop_count, t_call_stack,
                       t_final_auth, t_auth_size>>
    BY DEF CmdLoopExit, authVars, Twin!CmdLoopExit, Twin!authVars
  <1>3. CASE loop_depth <= 0 \/ ActiveSlotsOf(l) = {}
    <2>1. /\ UNCHANGED <<current_hash, loops, loop_depth>>
          /\ UNCHANGED <<t_current_hash, t_loops, t_loop_depth>>
          /\ t_reply' = reply'
      BY <1>1, <1>3 DEF CmdLoopExit, Twin!CmdLoopExit, Reply, Twin!Reply, TypeOK
    <2>. QED
      BY <1>2, <2>1 DEF TwinRuns, SameScalars, SameReport, TwinTable, SameTable
  <1>4. CASE ~(loop_depth <= 0) /\ ActiveSlotsOf(l) # {}
    <2>1. n \in ActiveSlotsOf(l) /\ n \in 1 .. loop_count /\ n \in 1 .. MaxLoopRecords
      BY <1>4, SlotToExitInSet, SlotsInRange
    <2>2. /\ loops' = [loops EXCEPT ![n].loop_hash = current_hash, ![n].is_active = FALSE]
          /\ current_hash' = loops[n].pre_loop_hash /\ loop_depth' = loop_depth - 1
          /\ Reply("LOOP_EXIT", "SUCCESS", 0)
      BY <1>4, Zenon DEF CmdLoopExit
    <2>3. /\ t_loops' = [t_loops EXCEPT ![n].loop_hash = current_hash, ![n].is_active = FALSE]
          /\ t_current_hash' = t_loops[n].pre_loop_hash /\ t_loop_depth' = loop_depth - 1
          /\ Twin!Reply("LOOP_EXIT", "SUCCESS", 0)
      <3>1. ~(t_loop_depth <= 0) /\ Twin!ActiveSlotsOf(l) # {}
        BY <1>1, <1>4
      <3>2. /\ t_loops' = [t_loops EXCEPT ![Twin!SlotToExit(l)].loop_hash = t_current_hash,
                                          ![Twin!SlotToExit(l)].is_active = FALSE]
            /\ t_current_hash' = t_loops[Twin!SlotToExit(l)].pre_loop_hash
            /\ t_loop_depth' = t_loop_depth - 1
            /\ Twin!Reply("LOOP_EXIT", "SUCCESS", 0)
        BY <3>1, Zenon DEF Twin!CmdLoopExit
      <3>. QED  BY <1>1, <3>2
    <2>4. /\ loops \in [1 .. MaxLoopRecords -> LoopRecord]
          /\ t_loops \in [1 .. MaxLoopRecords -> LoopRecord]
          /\ current_hash \in Hash
          /\ SameRecord(loops[n], t_loops[n])
      BY <2>1 DEF TypeOK, TwinTable, SameTable
    <2>5. /\ SameRecord(loops'[n], t_loops'[n])
          /\ \A i \in 1 .. MaxLoopRecords : i # n => loops'[i] = loops[i] /\ t_loops'[i] = t_loops[i]
      <3>. DEFINE left(rec) == [rec EXCEPT !.loop_hash = current_hash, !.is_active = FALSE]
      <3>1. loops'[n] = left(loops[n]) /\ t_loops'[n] = left(t_loops[n])
        BY <2>1, <2>2, <2>3, <2>4
      <3>2. \A i \in 1 .. MaxLoopRecords : i # n => loops'[i] = loops[i] /\ t_loops'[i] = t_loops[i]
        BY <2>2, <2>3, <2>4
      <3>3. loops[n] \in LoopRecord /\ t_loops[n] \in LoopRecord
        BY <2>1, <2>4
      <3>4. SameRecord(left(loops[n]), left(t_loops[n]))
        BY <2>4, <3>3 DEF LoopRecord, SameRecord
      <3>. QED  BY <3>1, <3>2, <3>4
    <2>6. TwinTable'
      <3>1. [t_loops[n] EXCEPT !.loop_hash = current_hash, !.is_active = FALSE] \in LoopRecord
        BY <2>1, <2>4 DEF LoopRecord
      <3>2. t_loops' = [t_loops EXCEPT ![n] = [@ EXCEPT !.loop_hash = current_hash,
                                                        !.is_active = FALSE]]
        BY <2>1, <2>3, <2>4
      <3>. QED  BY <2>1, <2>4, <3>1, <3>2 DEF TwinTable
    <2>7. SameTable'
      BY <1>2, <2>5, SlotsInRange DEF SameTable
    <2>8. current_hash' = t_current_hash'
      BY <2>2, <2>3, <2>4 DEF SameRecord
    <2>. QED
      BY <1>2, <2>2, <2>3, <2>6, <2>7, <2>8
         DEF TwinRuns, SameScalars, SameReport, Reply, Twin!Reply
  <1>. QED  BY <1>3, <1>4

LEMMA IterationMirrored ==
  ASSUME TypeOK, Mirrored, NEW l \in LoopId, CmdLoopIteration(l), Twin!CmdLoopIteration(l)
  PROVE  Mirrored'
  <1>. DEFINE n == SlotToIterate(l)
  <1>. USE DEF Mirrored
  <1>1. Twin!ActiveSlotsOf(l) = ActiveSlotsOf(l) /\ Twin!SlotToIterate(l) = n
    BY SameSlots
  <1>2. /\ UNCHANGED <<current_hash, loop_count, loop_depth, call_stack, final_auth, auth_size>>
        /\ UNCHANGED <<t_session, t_current_hash, t_hash_op, t_is_initialized, t_loop_count,
                       t_loop_depth, t_call_stack, t_final_auth, t_auth_size>>
        /\ t_reply' = reply'
    BY DEF CmdLoopIteration, hashVars, authVars, Reply,
           Twin!CmdLoopIteration, Twin!hashVars, Twin!authVars, Twin!Reply
  <1>3. TwinRuns' /\ SameScalars' /\ SameReport'
    BY <1>2 DEF TwinRuns, SameScalars, SameReport
  <1>4. CASE ActiveSlotsOf(l) = {}
    <2>1. UNCHANGED loops /\ UNCHANGED t_loops
      BY <1>1, <1>4 DEF CmdLoopIteration, Twin!CmdLoopIteration
    <2>. QED  BY <1>2, <1>3, <2>1 DEF TwinTable, SameTable
  <1>5. CASE ActiveSlotsOf(l) # {}
    <2>1. n \in 1 .. loop_count /\ n \in 1 .. MaxLoopRecords
      BY <1>5, SlotToIterateInSet, SlotsInRange
    <2>2. /\ loops' = [loops EXCEPT ![n].iteration_count = (@ + 1) % CounterMod]
          /\ t_loops' = [t_loops EXCEPT ![n].iteration_count = (@ + 1) % CounterMod]
      BY <1>1, <1>5, Zenon DEF CmdLoopIteration, Twin!CmdLoopIteration
    <2>3. /\ loops \in [1 .. MaxLoopRecords -> LoopRecord]
          /\ t_loops \in [1 .. MaxLoopRecords -> LoopRecord]
          /\ SameRecord(loops[n], t_loops[n])
      BY <2>1 DEF TypeOK, TwinTable, SameTable
    <2>4. (t_loops[n].iteration_count + 1) % CounterMod \in 0 .. CounterMod - 1
      <3>1. t_loops[n] \in LoopRecord
        BY <2>1, <2>3
      <3>2. t_loops[n].iteration_count \in Int /\ CounterMod \in Nat \ {0}
        BY <3>1, LimitsAssumption DEF LoopRecord
      <3>. QED  BY <3>2
    <2>5. /\ SameRecord(loops'[n], t_loops'[n])
          /\ \A i \in 1 .. MaxLoopRecords : i # n => loops'[i] = loops[i] /\ t_loops'[i] = t_loops[i]
      BY <2>1, <2>2, <2>3 DEF LoopRecord, SameRecord
    <2>6. TwinTable'
      BY <2>1, <2>2, <2>3, <2>4 DEF TwinTable, LoopRecord
    <2>7. SameTable'
      BY <1>2, <2>5, SlotsInRange DEF SameTable
    <2>. QED  BY <1>3, <2>6, <2>7
  <1>. QED  BY <1>4, <1>5

\* No record is active, so the report is made of fields that agree.
LEMMA FinalizeMirrored ==
  ASSUME TypeOK, Mirrored, ActiveSlots = {}, CmdFinalize, Twin!CmdFinalize
  PROVE  Mirrored'
  <1>. USE DEF Mirrored
  <1>1. /\ loops \in [1 .. MaxLoopRecords -> LoopRecord]
        /\ t_loops \in [1 .. MaxLoopRecords -> LoopRecord]
        /\ Twin!ActiveSlots = {} /\ t_loop_count = loop_count /\ t_current_hash = current_hash
    BY SameSlots DEF TypeOK, TwinTable, SameScalars
  <1>2. UNCHANGED loops /\ UNCHANGED t_loops
    BY <1>1 DEF CmdFinalize, ForceClosed, Twin!CmdFinalize, Twin!ForceClosed
  <1>3. RecordsSerialized = loop_count /\ Twin!RecordsSerialized = loop_count
    BY <1>1, AllRecordsFit
       DEF RecordsSerialized, RecordsThatFit, AuthCapacity, HeaderSize, RecordSize,
           Twin!RecordsSerialized, Twin!RecordsThatFit, Twin!AuthCapacity,
           Twin!HeaderSize, Twin!RecordSize
  <1>4. \A i \in 1 .. loop_count : Twin!ReportOf(t_loops[i]) = ReportOf(loops[i])
    BY DEF SameTable, SameRecord, ActiveSlots, ReportOf, Twin!ReportOf
  <1>5. [i \in 1 .. Twin!RecordsSerialized |-> Twin!ReportOf(t_loops[i])]
          = [i \in 1 .. RecordsSerialized |-> ReportOf(loops[i])]
    BY <1>3, <1>4
  <1>6. final_auth' = t_final_auth' /\ auth_size' = t_auth_size'
    BY <1>1, <1>3, <1>5
       DEF CmdFinalize, Twin!CmdFinalize, HeaderSize, RecordSize,
           Twin!HeaderSize, Twin!RecordSize
  <1>7. /\ UNCHANGED <<current_hash, loop_count, loop_depth, call_stack>>
        /\ UNCHANGED <<t_session, t_current_hash, t_hash_op, t_is_initialized, t_loop_count,
                       t_loop_depth, t_call_stack>>
        /\ t_reply' = reply'
    BY DEF CmdFinalize, hashVars, Reply, Twin!CmdFinalize, Twin!hashVars, Twin!Reply
  <1>. QED
    BY <1>2, <1>6, <1>7 DEF TwinRuns, SameScalars, SameReport, TwinTable, SameTable

\* Commands that leave the table alone.
LEMMA NodeMirrored ==
  ASSUME SessionOK, Mirrored, is_initialized, NEW n \in NodeId,
         CmdRecordNode(n), Twin!CmdRecordNode(n)
  PROVE  Mirrored'
  <1>1. ~DigestPanics /\ ~Twin!DigestPanics
    BY DEF SessionOK, DigestPanics, Twin!DigestPanics, Mirrored, TwinRuns
  <1>2. /\ current_hash' = Append(current_hash, n) /\ Reply("RECORD_NODE", "SUCCESS", 0)
        /\ UNCHANGED <<loops, loop_count, loop_depth, call_stack, final_auth, auth_size>>
    BY <1>1 DEF CmdRecordNode, Absorb, loopVars, authVars
  <1>3. /\ t_current_hash' = Append(t_current_hash, n)
        /\ Twin!Reply("RECORD_NODE", "SUCCESS", 0)
        /\ UNCHANGED <<t_session, t_hash_op, t_is_initialized, t_loops, t_loop_count,
                       t_loop_depth, t_call_stack, t_final_auth, t_auth_size>>
    BY <1>1 DEF Twin!CmdRecordNode, Twin!Absorb, Twin!loopVars, Twin!authVars,
                Mirrored, TwinRuns
  <1>. QED
    BY <1>2, <1>3 DEF Mirrored, TwinRuns, SameScalars, SameReport, TwinTable, SameTable,
                      Reply, Twin!Reply

LEMMA CallMirrored ==
  ASSUME TypeOK, Mirrored, NEW site \in NodeId, NEW caller \in NodeId,
         \/ CmdCallEnter(site, caller) /\ Twin!CmdCallEnter(site, caller)
         \/ CmdCallReturn(site) /\ Twin!CmdCallReturn(site)
  PROVE  Mirrored'
  <1>1. /\ UNCHANGED <<current_hash, loops, loop_count, loop_depth, final_auth, auth_size>>
        /\ UNCHANGED <<t_session, t_current_hash, t_hash_op, t_is_initialized, t_loops,
                       t_loop_count, t_loop_depth, t_final_auth, t_auth_size>>
    BY DEF CmdCallEnter, CmdCallReturn, hashVars, loopVars, authVars,
           Twin!CmdCallEnter, Twin!CmdCallReturn, Twin!hashVars, Twin!loopVars, Twin!authVars
  <1>2. t_call_stack' = call_stack' /\ t_reply' = reply'
    <2>1. t_call_stack = call_stack
      BY DEF Mirrored, SameScalars
    <2>2. Len(call_stack) \in Nat /\ MaxCallDepth \in Nat
      BY LenProperties, LimitsAssumption DEF TypeOK
    <2>. QED
      BY <2>1, <2>2 DEF CmdCallEnter, CmdCallReturn, Popped, Reply,
                  Twin!CmdCallEnter, Twin!CmdCallReturn, Twin!Popped, Twin!Reply
  <1>. QED
    BY <1>1, <1>2 DEF Mirrored, TwinRuns, SameScalars, SameReport, TwinTable, SameTable

LEMMA FetchMirrored ==
  ASSUME TypeOK, Mirrored, NEW size \in BufferSizes, CmdGetAuth(size), Twin!CmdGetAuth(size)
  PROVE  Mirrored'
  <1>1. /\ UNCHANGED ctxVars
        /\ UNCHANGED <<t_session, t_current_hash, t_hash_op, t_is_initialized, t_loops,
                       t_loop_count, t_loop_depth, t_call_stack, t_final_auth, t_auth_size>>
    BY DEF CmdGetAuth, Twin!CmdGetAuth, Twin!ctxVars, Twin!hashVars, Twin!loopVars,
           Twin!authVars
  <1>2. t_reply' = reply'
    <2>1. t_auth_size = auth_size
      BY DEF Mirrored, SameScalars
    <2>2. auth_size \in Nat /\ size \in Nat
      BY LimitsAssumption DEF TypeOK
    <2>. QED  BY <2>1, <2>2 DEF CmdGetAuth, Reply, Twin!CmdGetAuth, Twin!Reply
  <1>. QED
    BY <1>1, <1>2 DEF ctxVars, hashVars, loopVars, authVars, Mirrored, TwinRuns,
                      SameScalars, SameReport, TwinTable, SameTable

-----------------------------------------------------------------------------
(* The theorem.                                                            *)

IsoInv == is_initialized => Mirrored

LEMMA IsoStepIsProgramStep ==
  ASSUME [IsoNext]_isoVars
  PROVE  [ProgNext]_progVars
  <1>1. ASSUME NEW size \in BufferSizes, reply.cmd = "FINALIZE", CmdGetAuth(size),
               needs_reinit' = (needs_reinit \/ reply'.res = "SUCCESS"), UNCHANGED frames
        PROVE  GetAuth
    BY <1>1, Zenon DEF GetAuth
  <1>2. ASSUME IsoNext PROVE ProgNext
    BY <1>1, <1>2, Zenon DEF IsoNext, ProgNext
  <1>3. ASSUME UNCHANGED isoVars PROVE UNCHANGED progVars
    BY <1>3 DEF isoVars
  <1>. QED  BY <1>2, <1>3

LEMMA MirrorStep ==
  ASSUME Isolated, ProgOK, NestInv, TypeOK', IsoInv, [IsoNext]_isoVars
  PROVE  IsoInv'
  <1>. USE DEF ProgOK, IsoInv
  <1>0. ~AllocMayFail /\ hash_op # "freed"
    BY DEF Isolated, AlwaysAnswers, SessionOK
  <1>1. ASSUME Start, IF is_initialized' THEN FreshTwin ELSE UNCHANGED twinVars
        PROVE  IsoInv'
    <2>1. CASE OpenSession
      BY <2>1 DEF OpenSession, ZeroContext
    <2>2. CASE CmdInit
      <3>1. is_initialized'
        BY <1>0, <2>2 DEF CmdInit, AllocateDigest
      <3>. QED  BY <1>0, <1>1, <2>2, <3>1, CycleMirrored
    <2>. QED  BY <1>1, <2>1, <2>2 DEF Start
  <1>2. ASSUME Reinit, FreshTwin PROVE IsoInv'
    BY <1>0, <1>2, CycleMirrored DEF Reinit
  <1>3. ASSUME Finalize, Twin!CmdFinalize PROVE IsoInv'
    <2>1. is_initialized /\ CmdFinalize /\ \A k \in 1 .. Len(frames) : frames[k].kind # "loop"
      BY <1>3 DEF Finalize, Backward, Running, Isolated
    <2>2. LiveLoops = {}
      BY <2>1 DEF LiveLoops
    <2>3. ActiveSlots = {}
      BY <2>2 DEF NestInv, NestOK
    <2>. QED  BY <1>3, <2>1, <2>3, FinalizeMirrored
  <1>4. ASSUME NEW size \in BufferSizes, CmdGetAuth(size), Twin!CmdGetAuth(size)
        PROVE  IsoInv'
    <2>1. UNCHANGED is_initialized
      BY <1>4 DEF CmdGetAuth, ctxVars, hashVars
    <2>. QED  BY <1>4, <2>1, FetchMirrored
  <1>5. ASSUME NEW n \in NodeId, RecordNode(n), Twin!CmdRecordNode(n) PROVE IsoInv'
    BY <1>5, NodeMirrored DEF RecordNode, Forward, Running
  <1>6. ASSUME NEW n \in NodeId, EnterUnhooked(n), UNCHANGED twinVars PROVE IsoInv'
    BY <1>6 DEF EnterUnhooked, vars, ctxVars, hashVars, loopVars, authVars, twinVars,
                Mirrored, TwinRuns, SameScalars, SameReport, TwinTable, SameTable
  <1>7. ASSUME NEW n \in NodeId, ReturnFromCall(n), Twin!CmdCallReturn(n) PROVE IsoInv'
    BY <1>7, CallMirrored DEF ReturnFromCall, Backward, Running
  <1>8. ASSUME NEW l \in LoopId, EnterLoop(l), Twin!CmdLoopEnter(l) PROVE IsoInv'
    BY <1>8, EnterMirrored DEF EnterLoop, Forward, Running
  <1>9. ASSUME Iterate, Twin!CmdLoopIteration(TopFrame.id) PROVE IsoInv'
    <2>1. TopFrame.id \in LoopId
      BY <1>9, TopFrameType DEF Iterate, InLoop
    <2>. QED  BY <1>9, <2>1, IterationMirrored DEF Iterate, Backward, Running
  <1>10. ASSUME ExitLoop, Twin!CmdLoopExit(TopFrame.id) PROVE IsoInv'
    <2>1. TopFrame.id \in LoopId
      BY <1>10, TopFrameType DEF ExitLoop, InLoop
    <2>. QED  BY <1>10, <2>1, ExitMirrored DEF ExitLoop, Backward, Running
  <1>11. ASSUME NEW site \in NodeId, NEW caller \in NodeId,
                EnterCall(site, caller), Twin!CmdCallEnter(site, caller)
         PROVE  IsoInv'
    BY <1>11, CallMirrored DEF EnterCall, Forward, Running
  <1>12. CASE UNCHANGED isoVars
    BY <1>12 DEF isoVars, progVars, vars, ctxVars, hashVars, loopVars, authVars, twinVars,
                 Mirrored, TwinRuns, SameScalars, SameReport, TwinTable, SameTable
  <1>. QED
    BY <1>1, <1>2, <1>3, <1>4, <1>5, <1>6, <1>7, <1>8, <1>9, <1>10, <1>11, <1>12, Zenon
       DEF IsoNext

\* Every answer and every attestation of a cycle is what an application that
\* never measured anything before would give: no cycle leaks into the next,
\* however many there are and however large the tables.
THEOREM CyclesDoNotLeak ==
  ASSUME Isolated
  PROVE  IsoSpec => []CyclesIndependent
  <1>1. ~MayRecurse /\ AlwaysAnswers
    BY DEF Isolated
  <1>2. IsoSpec => ProgSpec
    BY IsoStepIsProgramStep, PTL DEF IsoSpec, IsoInit, ProgSpec
  <1>3. ProgSpec => [](ProgOK /\ NestInv)
    BY <1>1, NestInvariant
  <1>4. IsoInit => IsoInv
    BY DEF IsoInit, ProgInit, Init, IsoInv
  <1>5. ProgOK /\ NestInv /\ (ProgOK /\ NestInv)' /\ IsoInv /\ [IsoNext]_isoVars => IsoInv'
    BY MirrorStep DEF ProgOK
  <1>6. IsoInv => CyclesIndependent
    BY DEF IsoInv, Mirrored, SameScalars, SameReport, CyclesIndependent
  <1>. QED  BY <1>2, <1>3, <1>4, <1>5, <1>6, PTL DEF IsoSpec

=============================================================================
