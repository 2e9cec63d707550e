--------------------------- MODULE CflatTAProofs ---------------------------
(***************************************************************************)
(* Theorems about CflatTA, for every value of its constants: any number of *)
(* identifiers, any limits on loops, records and calls, counters of any    *)
(* width, with and without failing allocations.                            *)
(***************************************************************************)
EXTENDS CflatTA, FiniteSetTheorems, SequenceTheorems, WellFoundedInduction,
        TLAPS

-----------------------------------------------------------------------------
(* The searches of loops[] return a slot of the set they search.           *)

\* The forward searches of loop_enter and loop_exit.
LEMMA MinInSet ==
  ASSUME NEW S \in SUBSET Nat, S # {}
  PROVE  Min(S) \in S /\ \A i \in S : Min(S) <= i
  <1>1. PICK x \in S : \A y \in S : ~(<<y, x>> \in OpToRel(<, Nat))
    BY NatLessThanWellFounded, WFMin, Zenon
  <1>2. \A y \in S : x <= y
    <2>1. TAKE y \in S
    <2>2. x \in Nat /\ y \in Nat /\ ~(y < x)
      BY <1>1, Zenon DEF OpToRel
    <2>. QED  BY <2>2
  <1>. QED  BY <1>2 DEF Min

\* The backward search of loop_iteration.
LEMMA MaxInSet ==
  ASSUME NEW n \in Nat, NEW S \in SUBSET (1 .. n), S # {}
  PROVE  Max(S) \in S /\ \A i \in S : i <= Max(S)
  <1>. DEFINE T == {n - i : i \in S}
  <1>1. T \in SUBSET Nat /\ T # {}
    <2>1. \A i \in S : i \in Nat /\ n - i \in Nat
      OBVIOUS
    <2>2. \A t \in T : t \in Nat
      BY <2>1
    <2>. QED  BY <2>2, Zenon
  <1>2. PICK x \in S : Min(T) = n - x
    BY <1>1, MinInSet
  <1>3. \A y \in S : y <= x
    <2>1. TAKE y \in S
    <2>2. n - y \in T
      OBVIOUS
    <2>3. n - x <= n - y
      BY <1>1, <1>2, <2>2, MinInSet
    <2>. QED  BY <2>3
  <1>. QED  BY <1>3 DEF Max

LEMMA SlotsInRange ==
  ASSUME TypeOK, NEW id
  PROVE  /\ ActiveSlots \in SUBSET (1 .. loop_count)
         /\ ActiveSlotsOf(id) \in SUBSET (1 .. loop_count)
         /\ IdleSlotsOf(id) \in SUBSET (1 .. loop_count)
         /\ 1 .. loop_count \in SUBSET (1 .. MaxLoopRecords)
  BY LimitsAssumption DEF TypeOK, ActiveSlots, ActiveSlotsOf, IdleSlotsOf

LEMMA SlotToExitInSet ==
  ASSUME TypeOK, NEW id, ActiveSlotsOf(id) # {}
  PROVE  SlotToExit(id) \in ActiveSlotsOf(id)
  <1>1. ActiveSlotsOf(id) \in SUBSET Nat
    BY SlotsInRange DEF TypeOK
  <1>. QED  BY <1>1, MinInSet DEF SlotToExit

LEMMA SlotToIterateInSet ==
  ASSUME TypeOK, NEW id, ActiveSlotsOf(id) # {}
  PROVE  SlotToIterate(id) \in ActiveSlotsOf(id)
  <1>1. ActiveSlotsOf(id) \in SUBSET (1 .. loop_count) /\ loop_count \in Nat
    BY SlotsInRange DEF TypeOK
  <1>. QED  BY <1>1, MaxInSet, Zenon DEF SlotToIterate

\* A record that is entered is idle, or the first one that is not in use.
LEMMA SlotToEnterInRange ==
  ASSUME TypeOK, NEW id, ~EnterRefused(id)
  PROVE  /\ SlotToEnter(id) \in 1 .. MaxLoopRecords
         /\ IdleSlotsOf(id) # {} => SlotToEnter(id) \in IdleSlotsOf(id)
         /\ IdleSlotsOf(id) = {} => SlotToEnter(id) = loop_count + 1
  <1>1. CASE IdleSlotsOf(id) # {}
    <2>1. IdleSlotsOf(id) \in SUBSET Nat
      BY SlotsInRange DEF TypeOK
    <2>2. SlotToEnter(id) \in IdleSlotsOf(id)
      BY <1>1, <2>1, MinInSet DEF SlotToEnter
    <2>. QED  BY <1>1, <2>2, SlotsInRange
  <1>2. CASE IdleSlotsOf(id) = {}
    BY <1>2, LimitsAssumption DEF SlotToEnter, EnterRefused, TypeOK
  <1>. QED  BY <1>1, <1>2

\* Every record in use fits final_auth, so serialization is never cut short.
LEMMA AllRecordsFit ==
  ASSUME TypeOK
  PROVE  RecordsThatFit = MaxLoopRecords /\ RecordsSerialized = loop_count
  BY LimitsAssumption
     DEF RecordsThatFit, RecordsSerialized, AuthCapacity, HeaderSize, RecordSize,
         TypeOK

-----------------------------------------------------------------------------
(* Type correctness.                                                       *)

\* Absorbing an identifier yields a hash.
LEMMA AbsorbType ==
  ASSUME NEW h \in Hash, NEW id \in NodeId \cup LoopId
  PROVE  Absorb(h, id) \in Hash
  BY AppendProperties DEF Absorb, Hash

LEMMA ZeroTypes ==
  /\ ZeroHash \in Hash
  /\ ZeroRecord \in LoopRecord
  /\ NoLoops \in [1 .. MaxLoopRecords -> LoopRecord]
  /\ NoAttestation \in Attestation
  <1>1. ZeroHash \in Hash
    BY DEF ZeroHash, Hash
  <1>2. ZeroRecord \in LoopRecord
    BY <1>1, LimitsAssumption DEF ZeroRecord, LoopRecord
  <1>3. NoAttestation \in Attestation
    BY <1>1 DEF NoAttestation, Attestation
  <1>. QED  BY <1>1, <1>2, <1>3 DEF NoLoops

LEMMA ZeroContextType ==
  ASSUME ZeroContext, session' \in {"closed", "open", "panicked"},
         NEW cmd \in Commands, NEW res \in Results, NEW size \in Nat,
         Reply(cmd, res, size)
  PROVE  TypeOK'
  <1>1. call_stack' \in Seq(CallRecord) /\ Len(call_stack') <= MaxCallDepth
    BY LimitsAssumption DEF ZeroContext
  <1>2. reply' \in [cmd : Commands, res : Results, size : Nat]
    BY DEF Reply
  <1>3. /\ current_hash' \in Hash
        /\ hash_op' \in {"null", "live", "freed"}
        /\ is_initialized' \in BOOLEAN
        /\ loops' \in [1 .. MaxLoopRecords -> LoopRecord]
        /\ final_auth' \in Attestation
    BY ZeroTypes, Zenon DEF ZeroContext
  <1>4. /\ loop_count' \in 0 .. MaxLoopRecords
        /\ loop_depth' \in 0 .. MaxLoopDepth
        /\ auth_size' \in Nat
        /\ ops_allocated' \in Int
    BY LimitsAssumption DEF ZeroContext
  <1>. QED
    BY <1>1, <1>2, <1>3, <1>4, Zenon DEF TypeOK

LEMMA PanicType ==
  ASSUME NEW cmd \in Commands, Panic(cmd)
  PROVE  TypeOK'
  BY ZeroContextType DEF Panic, Results

\* A command that leaves the context as it was.
LEMMA UnchangedType ==
  ASSUME TypeOK, UNCHANGED <<session, ctxVars>>,
         NEW cmd \in Commands, NEW res \in Results, NEW size \in Nat,
         Reply(cmd, res, size)
  PROVE  TypeOK'
  BY DEF TypeOK, Reply, ctxVars, hashVars, loopVars, authVars, ActiveSlots

LEMMA SessionType ==
  ASSUME TypeOK, OpenSession \/ CloseSession \/ ClosePanicked
  PROVE  TypeOK'
  <1>. USE DEF Commands, Results
  <1>1. CASE OpenSession
    BY <1>1, ZeroContextType DEF OpenSession, TypeOK
  <1>2. CASE CloseSession
    BY <1>2, ZeroContextType, PanicType DEF CloseSession
  <1>3. CASE ClosePanicked
    BY <1>3 DEF ClosePanicked, TypeOK, Reply, ctxVars, hashVars, loopVars, authVars
  <1>. QED  BY <1>1, <1>2, <1>3

LEMMA CmdInitType ==
  ASSUME TypeOK, CmdInit
  PROVE  TypeOK'
  <1>1. CASE hash_op = "freed" /\ Panic("INIT")
    BY <1>1, PanicType DEF Commands
  <1>2. CASE hash_op # "freed"
    <2>1. /\ current_hash' = ZeroHash /\ loop_count' = 0 /\ loop_depth' = 0
          /\ call_stack' = << >> /\ auth_size' = 0
          /\ AllocateDigest /\ UNCHANGED <<session, loops, final_auth>>
      BY <1>2 DEF CmdInit, ResetLoops, ResetCalls
    <2>2. ops_allocated' \in Int
      BY <2>1 DEF AllocateDigest, OpsAfterFree, TypeOK
    <2>3. reply' \in [cmd : Commands, res : Results, size : Nat]
      BY <2>1 DEF AllocateDigest, Reply, Commands, Results
    <2>4. hash_op' \in {"null", "live", "freed"}
      BY <2>1 DEF AllocateDigest, HandleAfterFailure, TypeOK
    <2>5. is_initialized' \in BOOLEAN
      BY <2>1, Zenon DEF AllocateDigest, TypeOK
    <2>6. /\ loop_count' \in 0 .. MaxLoopRecords
          /\ loop_depth' \in 0 .. MaxLoopDepth
          /\ auth_size' \in Nat
          /\ call_stack' \in Seq(CallRecord)
          /\ Len(call_stack') <= MaxCallDepth
      BY <2>1, LimitsAssumption
    <2>7. session' = session /\ loops' = loops /\ final_auth' = final_auth
      BY <2>1
    <2>8. /\ current_hash' \in Hash
          /\ loops' \in [1 .. MaxLoopRecords -> LoopRecord]
          /\ final_auth' \in Attestation
          /\ session' \in {"closed", "open", "panicked"}
      BY <2>1, <2>7, ZeroTypes DEF TypeOK
    <2>. QED
      BY <2>2, <2>3, <2>4, <2>5, <2>6, <2>8, Zenon DEF TypeOK
  <1>. QED  BY <1>1, <1>2 DEF CmdInit

LEMMA CmdRecordNodeType ==
  ASSUME TypeOK, NEW id \in NodeId, CmdRecordNode(id)
  PROVE  TypeOK'
  <1>. USE DEF Commands, Results
  <1>1. CASE UNCHANGED <<session, ctxVars>> /\ Reply("RECORD_NODE", "BAD_STATE", 0)
    BY <1>1, UnchangedType
  <1>2. CASE Panic("RECORD_NODE")
    BY <1>2, PanicType
  <1>3. CASE /\ current_hash' = Absorb(current_hash, id)
             /\ Reply("RECORD_NODE", "SUCCESS", 0)
             /\ UNCHANGED <<session, hash_op, is_initialized, ops_allocated,
                            loopVars, call_stack, authVars>>
    <2>1. current_hash' \in Hash
      BY <1>3, AbsorbType DEF TypeOK
    <2>2. reply' \in [cmd : Commands, res : Results, size : Nat]
      BY <1>3 DEF Reply
    <2>. QED  BY <1>3, <2>1, <2>2 DEF TypeOK, loopVars, authVars
  <1>. QED  BY <1>1, <1>2, <1>3 DEF CmdRecordNode

LEMMA RecordToEnterType ==
  ASSUME TypeOK, NEW id \in LoopId, ~EnterRefused(id)
  PROVE  RecordToEnter(id) \in LoopRecord
  <1>1. loops[SlotToEnter(id)] \in LoopRecord
    BY SlotToEnterInRange DEF TypeOK
  <1>2. loop_depth \in Nat /\ 0 \in 0 .. CounterMod - 1
    BY LimitsAssumption DEF TypeOK
  <1>. QED  BY <1>1, <1>2 DEF RecordToEnter, LoopRecord

LEMMA EnteredRecord ==
  ASSUME TypeOK, NEW l \in LoopId, ~EnterRefused(l)
  PROVE  /\ RecordToEnter(l) \in LoopRecord
         /\ RecordToEnter(l).loop_id = l
         /\ IdleSlotsOf(l) = {} => /\ RecordToEnter(l).invocation_count = 0
                                  /\ RecordToEnter(l).iteration_count = 0
  <1>1. SlotToEnter(l) \in 1 .. MaxLoopRecords
    BY SlotToEnterInRange
  <1>2. loops[SlotToEnter(l)] \in LoopRecord
    BY <1>1 DEF TypeOK
  <1>3. CASE IdleSlotsOf(l) # {}
    <2>1. RecordToEnter(l) = loops[SlotToEnter(l)] /\ SlotToEnter(l) \in IdleSlotsOf(l)
      BY <1>3, SlotToEnterInRange DEF RecordToEnter
    <2>. QED  BY <1>2, <1>3, <2>1 DEF IdleSlotsOf
  <1>4. CASE IdleSlotsOf(l) = {}
    <2>1. RecordToEnter(l) = [loops[SlotToEnter(l)] EXCEPT !.loop_id = l,
                                !.iteration_count = 0, !.invocation_count = 0,
                                !.depth_level = loop_depth]
      BY <1>4 DEF RecordToEnter
    <2>2. /\ RecordToEnter(l).loop_id = l
          /\ RecordToEnter(l).invocation_count = 0
          /\ RecordToEnter(l).iteration_count = 0
      BY <1>2, <2>1 DEF LoopRecord
    <2>. QED  BY <2>2, RecordToEnterType
  <1>. QED  BY <1>3, <1>4

LEMMA CmdLoopEnterType ==
  ASSUME TypeOK, NEW id \in LoopId, CmdLoopEnter(id)
  PROVE  TypeOK'
  <1>. USE DEF Commands, Results
  <1>1. CASE UNCHANGED <<session, ctxVars>> /\ Reply("LOOP_ENTER", "OVERFLOW", 0)
    BY <1>1, UnchangedType
  <1>2. CASE Panic("LOOP_ENTER")
    BY <1>2, PanicType
  <1>3. CASE ~EnterRefused(id) /\ ~DigestPanics
    <2>. DEFINE i == SlotToEnter(id)
                r == RecordToEnter(id)
    <2>1. /\ loops' = [loops EXCEPT ![i] =
                         [r EXCEPT !.pre_loop_hash = current_hash,
                                   !.is_active = TRUE,
                                   !.invocation_count = (@ + 1) % CounterMod]]
          /\ loop_count' = IF IdleSlotsOf(id) # {} THEN loop_count ELSE loop_count + 1
          /\ loop_depth' = loop_depth + 1
          /\ current_hash' = Absorb(ZeroHash, id)
          /\ Reply("LOOP_ENTER", "SUCCESS", 0)
          /\ UNCHANGED <<session, hash_op, is_initialized, ops_allocated,
                         call_stack, authVars>>
      BY <1>3 DEF CmdLoopEnter
    <2>2. current_hash' \in Hash
      BY <2>1, ZeroTypes, AbsorbType
    <2>3. (r.invocation_count + 1) % CounterMod \in 0 .. CounterMod - 1
      BY <1>3, RecordToEnterType, LimitsAssumption DEF LoopRecord
    <2>4. [r EXCEPT !.pre_loop_hash = current_hash,
                    !.is_active = TRUE,
                    !.invocation_count = (@ + 1) % CounterMod] \in LoopRecord
      BY <1>3, <2>3, RecordToEnterType DEF LoopRecord, TypeOK
    <2>5. loops' \in [1 .. MaxLoopRecords -> LoopRecord]
      BY <2>1, <2>4 DEF TypeOK
    <2>6. loop_count' \in 0 .. MaxLoopRecords /\ loop_depth' \in 0 .. MaxLoopDepth
      BY <1>3, <2>1, LimitsAssumption DEF EnterRefused, TypeOK
    <2>. QED  BY <2>1, <2>2, <2>5, <2>6 DEF TypeOK, Reply, authVars
  <1>. QED  BY <1>1, <1>2, <1>3 DEF CmdLoopEnter

LEMMA CmdLoopExitType ==
  ASSUME TypeOK, NEW id \in LoopId, CmdLoopExit(id)
  PROVE  TypeOK'
  <1>. USE DEF Commands, Results
  <1>1. /\ UNCHANGED <<session, hash_op, is_initialized, ops_allocated, loop_count,
                       call_stack, authVars>>
        /\ reply' \in [cmd : Commands, res : Results, size : Nat]
    BY DEF CmdLoopExit, Reply
  <1>2. CASE UNCHANGED <<current_hash, loops, loop_depth>>
    BY <1>1, <1>2 DEF TypeOK, authVars
  <1>3. CASE ~UNCHANGED <<current_hash, loops, loop_depth>>
    <2>. DEFINE i == SlotToExit(id)
    <2>1. /\ loop_depth > 0 /\ ActiveSlotsOf(id) # {}
          /\ loops' = [loops EXCEPT ![i].loop_hash = current_hash,
                                    ![i].is_active = FALSE]
          /\ current_hash' = loops[i].pre_loop_hash
          /\ loop_depth' = loop_depth - 1
      BY <1>3 DEF CmdLoopExit
    <2>2. i \in 1 .. MaxLoopRecords
      BY <2>1, SlotToExitInSet, SlotsInRange, Zenon
    <2>3. loops[i] \in LoopRecord
      BY <2>2 DEF TypeOK
    <2>4. loops' \in [1 .. MaxLoopRecords -> LoopRecord]
      BY <2>1, <2>2, <2>3 DEF TypeOK, LoopRecord
    <2>5. current_hash' \in Hash
      BY <2>1, <2>3 DEF LoopRecord
    <2>6. loop_depth' \in 0 .. MaxLoopDepth
      BY <2>1, LimitsAssumption DEF TypeOK
    <2>. QED  BY <1>1, <2>4, <2>5, <2>6 DEF TypeOK, authVars
  <1>. QED  BY <1>2, <1>3

LEMMA CmdLoopIterationType ==
  ASSUME TypeOK, NEW id \in LoopId, CmdLoopIteration(id)
  PROVE  TypeOK'
  <1>. DEFINE i == SlotToIterate(id)
  <1>1. loops' \in [1 .. MaxLoopRecords -> LoopRecord]
    <2>1. CASE ActiveSlotsOf(id) = {}
      BY <2>1 DEF CmdLoopIteration, TypeOK
    <2>2. CASE ActiveSlotsOf(id) # {}
      <3>1. i \in 1 .. MaxLoopRecords
        BY <2>2, SlotToIterateInSet, SlotsInRange, Zenon
      <3>2. loops[i] \in LoopRecord
        BY <3>1 DEF TypeOK
      <3>3. (loops[i].iteration_count + 1) % CounterMod \in 0 .. CounterMod - 1
        BY <3>2, LimitsAssumption DEF LoopRecord
      <3>4. loops' = [loops EXCEPT ![i].iteration_count = (@ + 1) % CounterMod]
        BY <2>2 DEF CmdLoopIteration
      <3>. QED  BY <3>1, <3>2, <3>3, <3>4 DEF TypeOK, LoopRecord
    <2>. QED  BY <2>1, <2>2
  <1>2. reply' \in [cmd : Commands, res : Results, size : Nat]
    BY DEF CmdLoopIteration, Reply, Commands, Results
  <1>. QED
    BY <1>1, <1>2 DEF CmdLoopIteration, TypeOK, hashVars, authVars

LEMMA CallType ==
  ASSUME TypeOK, NEW site \in NodeId, NEW caller \in NodeId,
         CmdCallEnter(site, caller) \/ CmdCallReturn(site)
  PROVE  TypeOK'
  <1>1. call_stack' \in Seq(CallRecord) /\ Len(call_stack') <= MaxCallDepth
    <2>1. CASE CmdCallEnter(site, caller)
      <3>1. [call_site_id |-> site, caller_node |-> caller] \in CallRecord
        BY DEF CallRecord
      <3>. QED  BY <2>1, <3>1, LimitsAssumption DEF CmdCallEnter, TypeOK
    <2>2. CASE CmdCallReturn(site)
      <3>1. CASE call_stack = << >>
        BY <2>2, <3>1, LimitsAssumption DEF CmdCallReturn, Popped
      <3>2. CASE call_stack # << >>
        BY <2>2, <3>2, LimitsAssumption, SubSeqProperties DEF CmdCallReturn, Popped, TypeOK
      <3>. QED  BY <3>1, <3>2
    <2>. QED  BY <2>1, <2>2
  <1>2. reply' \in [cmd : Commands, res : Results, size : Nat]
    BY DEF CmdCallEnter, CmdCallReturn, Reply, Commands, Results
  <1>3. UNCHANGED <<session, hashVars, loopVars, authVars>>
    BY DEF CmdCallEnter, CmdCallReturn
  <1>. QED
    BY <1>1, <1>2, <1>3 DEF TypeOK, hashVars, loopVars, authVars

\* The attestation that FINALIZE leaves in final_auth.
LEMMA SerializedType ==
  ASSUME TypeOK
  PROVE  [i \in 1 .. RecordsSerialized |-> ReportOf(loops[i])] \in Seq(LoopReport)
  <1>1. \A i \in 1 .. loop_count : ReportOf(loops[i]) \in LoopReport
    BY SlotsInRange DEF ReportOf, LoopReport, TypeOK, LoopRecord
  <1>. QED  BY <1>1, AllRecordsFit DEF TypeOK

LEMMA CmdFinalizeType ==
  ASSUME TypeOK, CmdFinalize
  PROVE  TypeOK'
  <1>1. loops' \in [1 .. MaxLoopRecords -> LoopRecord]
    <2>1. \A i \in 1 .. MaxLoopRecords :
             [loops[i] EXCEPT !.is_active = FALSE] \in LoopRecord
      BY DEF TypeOK, LoopRecord
    <2>. QED  BY <2>1 DEF CmdFinalize, ForceClosed, TypeOK
  <1>2. final_auth' \in Attestation
    BY SerializedType DEF CmdFinalize, Attestation, TypeOK
  <1>3. auth_size' \in Nat
    BY AllRecordsFit DEF CmdFinalize, TypeOK, HeaderSize, RecordSize
  <1>4. reply' \in [cmd : Commands, res : Results, size : Nat]
    BY DEF CmdFinalize, Reply, Commands, Results
  <1>. QED
    BY <1>1, <1>2, <1>3, <1>4 DEF CmdFinalize, TypeOK, hashVars

LEMMA ReadOnlyType ==
  ASSUME TypeOK,
         (\E size \in BufferSizes : CmdGetAuth(size)) \/ CmdGetLog \/ BadInvoke
  PROVE  TypeOK'
  <1>1. UNCHANGED <<session, ctxVars>>
    BY DEF CmdGetAuth, CmdGetLog, BadInvoke
  <1>2. reply' \in [cmd : Commands, res : Results, size : Nat]
    BY DEF CmdGetAuth, CmdGetLog, BadInvoke, Reply, Commands, Results, TypeOK
  <1>. QED
    BY <1>1, <1>2 DEF TypeOK, ctxVars, hashVars, loopVars, authVars

LEMMA InitType ==
  ASSUME Init
  PROVE  TypeOK
  <1>2. call_stack \in Seq(CallRecord) /\ Len(call_stack) <= MaxCallDepth
    BY LimitsAssumption DEF Init
  <1>3. /\ loop_count \in 0 .. MaxLoopRecords /\ loop_depth \in 0 .. MaxLoopDepth
        /\ auth_size \in Nat /\ ops_allocated \in Int
        /\ hash_op \in {"null", "live", "freed"}
        /\ session \in {"closed", "open", "panicked"}
    BY LimitsAssumption DEF Init
  <1>4. reply \in [cmd : Commands, res : Results, size : Nat]
    BY DEF Init, Commands, Results
  <1>5. current_hash \in Hash /\ final_auth \in Attestation
    BY ZeroTypes DEF Init
  <1>6. loops \in [1 .. MaxLoopRecords -> LoopRecord]
    BY ZeroTypes DEF Init
  <1>7. is_initialized \in BOOLEAN
    BY Zenon DEF Init
  <1>. QED  BY <1>2, <1>3, <1>4, <1>5, <1>6, <1>7, Zenon DEF TypeOK

LEMMA StepType ==
  ASSUME TypeOK, [Next]_vars
  PROVE  TypeOK'
  <1>2. CASE UNCHANGED vars
    BY <1>2 DEF TypeOK, vars, ctxVars, hashVars, loopVars, authVars
  <1>3. CASE OpenSession \/ CloseSession \/ ClosePanicked
    BY <1>3, SessionType
  <1>4. CASE CmdInit
    BY <1>4, CmdInitType
  <1>5. ASSUME NEW id \in NodeId, CmdRecordNode(id) PROVE TypeOK'
    BY <1>5, CmdRecordNodeType
  <1>6. ASSUME NEW site \in NodeId, NEW caller \in NodeId,
               CmdCallEnter(site, caller) \/ CmdCallReturn(site)
        PROVE  TypeOK'
    BY <1>6, CallType
  <1>7. ASSUME NEW id \in LoopId,
               CmdLoopEnter(id) \/ CmdLoopExit(id) \/ CmdLoopIteration(id)
        PROVE  TypeOK'
    BY <1>7, CmdLoopEnterType, CmdLoopExitType, CmdLoopIterationType
  <1>8. CASE CmdFinalize
    BY <1>8, CmdFinalizeType
  <1>9. CASE (\E size \in BufferSizes : CmdGetAuth(size)) \/ CmdGetLog \/ BadInvoke
    BY <1>9, ReadOnlyType
  <1>. QED
    BY <1>2, <1>3, <1>4, <1>5, <1>6, <1>7, <1>8, <1>9, Zenon DEF Next

\* The context of a session keeps its types, whatever the client invokes and
\* wherever an allocation fails: indices stay in bounds, counters in range.
THEOREM TypeCorrect == Spec => []TypeOK
  <1>1. Init => TypeOK
    BY InitType
  <1>2. TypeOK /\ [Next]_vars => TypeOK'
    BY StepType
  <1>. QED  BY <1>1, <1>2, PTL DEF Spec

-----------------------------------------------------------------------------
(* Digest operations.                                                      *)

\* Whatever fails, the TEE holds the operation hash_op refers to, and no other.
THEOREM OperationsAccounted == Spec => []NoOperationLeak
  <1>1. Init => NoOperationLeak
    BY DEF Init, NoOperationLeak
  <1>2. TypeOK /\ NoOperationLeak /\ [Next]_vars => NoOperationLeak'
    <2>. SUFFICES ASSUME TypeOK, NoOperationLeak, [Next]_vars
                  PROVE  NoOperationLeak'
      OBVIOUS
    <2>1. CASE ZeroContext
      BY <2>1 DEF ZeroContext, NoOperationLeak
    <2>2. CASE UNCHANGED <<hash_op, ops_allocated>>
      BY <2>2 DEF NoOperationLeak
    <2>3. CASE AllocateDigest
      BY <2>3 DEF AllocateDigest, OpsAfterFree, HandleAfterFailure,
                  NoOperationLeak, TypeOK
    <2>. USE DEF Panic, hashVars, ctxVars
    <2>4. CASE OpenSession \/ CloseSession \/ ClosePanicked
      BY <2>1, <2>2, <2>4 DEF OpenSession, CloseSession, ClosePanicked
    <2>5. CASE CmdInit
      BY <2>1, <2>3, <2>5 DEF CmdInit
    <2>6. ASSUME NEW id \in NodeId, CmdRecordNode(id) PROVE NoOperationLeak'
      BY <2>1, <2>2, <2>6 DEF CmdRecordNode
    <2>7. ASSUME NEW site \in NodeId, NEW caller \in NodeId,
                 CmdCallEnter(site, caller) \/ CmdCallReturn(site)
          PROVE  NoOperationLeak'
      BY <2>2, <2>7 DEF CmdCallEnter, CmdCallReturn
    <2>8. ASSUME NEW id \in LoopId,
                 CmdLoopEnter(id) \/ CmdLoopExit(id) \/ CmdLoopIteration(id)
          PROVE  NoOperationLeak'
      BY <2>1, <2>2, <2>8 DEF CmdLoopEnter, CmdLoopExit, CmdLoopIteration
    <2>9. CASE CmdFinalize \/ CmdGetLog \/ BadInvoke
      BY <2>2, <2>9 DEF CmdFinalize, CmdGetLog, BadInvoke
    <2>10. ASSUME NEW size \in BufferSizes, CmdGetAuth(size) PROVE NoOperationLeak'
      BY <2>2, <2>10 DEF CmdGetAuth
    <2>11. CASE UNCHANGED vars
      BY <2>2, <2>11 DEF vars
    <2>. QED
      BY <2>4, <2>5, <2>6, <2>7, <2>8, <2>9, <2>10, <2>11, Zenon DEF Next
  <1>. QED  BY <1>1, <1>2, TypeCorrect, PTL DEF Spec

-----------------------------------------------------------------------------
(* The attestation.                                                        *)

\* What GET_AUTH hands out holds every record its header announces.
THEOREM AttestationComplete == Spec => []AuthComplete
  <1>1. Init => AuthComplete
    BY DEF Init, AuthComplete
  <1>2. TypeOK /\ AuthComplete /\ [Next]_vars => AuthComplete'
    <2>. SUFFICES ASSUME TypeOK, AuthComplete, [Next]_vars
                  PROVE  AuthComplete'
      OBVIOUS
    <2>1. CASE auth_size' = 0
      BY <2>1 DEF AuthComplete
    <2>2. CASE UNCHANGED authVars
      BY <2>2 DEF AuthComplete, authVars
    <2>3. CASE CmdFinalize
      <3>1. /\ Len(final_auth'.records) = loop_count
            /\ final_auth'.loop_count = loop_count
            /\ auth_size' = HeaderSize + loop_count * RecordSize
        BY <2>3, AllRecordsFit DEF CmdFinalize, TypeOK
      <3>2. loop_count * RecordSize <= MaxLoopRecords * RecordSize
        BY LimitsAssumption DEF TypeOK, RecordSize
      <3>. QED
        BY <3>1, <3>2, LimitsAssumption
           DEF AuthComplete, AuthCapacity, HeaderSize, RecordSize, TypeOK
    <2>. USE DEF ctxVars
    <2>4. ASSUME ZeroContext PROVE AuthComplete'
      BY <2>1, <2>4 DEF ZeroContext
    <2>5. CASE OpenSession \/ CloseSession \/ ClosePanicked
      BY <2>2, <2>4, <2>5 DEF OpenSession, CloseSession, ClosePanicked, Panic
    <2>6. CASE CmdInit
      BY <2>1, <2>4, <2>6 DEF CmdInit, Panic
    <2>7. ASSUME NEW id \in NodeId, CmdRecordNode(id) PROVE AuthComplete'
      BY <2>2, <2>4, <2>7 DEF CmdRecordNode, Panic
    <2>8. ASSUME NEW site \in NodeId, NEW caller \in NodeId,
                 CmdCallEnter(site, caller) \/ CmdCallReturn(site)
          PROVE  AuthComplete'
      BY <2>2, <2>8 DEF CmdCallEnter, CmdCallReturn
    <2>9. ASSUME NEW id \in LoopId,
                 CmdLoopEnter(id) \/ CmdLoopExit(id) \/ CmdLoopIteration(id)
          PROVE  AuthComplete'
      BY <2>2, <2>4, <2>9 DEF CmdLoopEnter, CmdLoopExit, CmdLoopIteration, Panic
    <2>10. CASE CmdGetLog \/ BadInvoke
      BY <2>2, <2>10 DEF CmdGetLog, BadInvoke
    <2>11. ASSUME NEW size \in BufferSizes, CmdGetAuth(size) PROVE AuthComplete'
      BY <2>2, <2>11 DEF CmdGetAuth
    <2>12. CASE UNCHANGED vars
      BY <2>2, <2>12 DEF vars
    <2>. QED
      BY <2>3, <2>5, <2>6, <2>7, <2>8, <2>9, <2>10, <2>11, <2>12, Zenon DEF Next
  <1>. QED  BY <1>1, <1>2, TypeCorrect, PTL DEF Spec

-----------------------------------------------------------------------------
(* Open loops and the loop depth.                                          *)

LEMMA ActiveSlotsFinite ==
  ASSUME TypeOK
  PROVE  IsFiniteSet(ActiveSlots) /\ Cardinality(ActiveSlots) \in Nat
  <1>1. IsFiniteSet(1 .. loop_count)
    BY FS_Interval DEF TypeOK
  <1>2. IsFiniteSet(ActiveSlots)
    BY <1>1, FS_Subset, SlotsInRange
  <1>. QED  BY <1>2, FS_CardinalityType

LEMMA NoActiveSlot ==
  ASSUME loop_count' = 0
  PROVE  ActiveSlots' = {}
  BY DEF ActiveSlots

\* loop_enter opens exactly the slot it writes.
\* What the two commands do that move the table, when they succeed.
LEMMA EnterEffect ==
  ASSUME NEW id, CmdLoopEnter(id), ~EnterRefused(id), ~DigestPanics
  PROVE  /\ loops' = [loops EXCEPT ![SlotToEnter(id)] =
                        [RecordToEnter(id) EXCEPT
                           !.pre_loop_hash = current_hash,
                           !.is_active = TRUE,
                           !.invocation_count = (@ + 1) % CounterMod]]
         /\ loop_count' = IF IdleSlotsOf(id) # {} THEN loop_count ELSE loop_count + 1
         /\ loop_depth' = loop_depth + 1
         /\ current_hash' = Absorb(ZeroHash, id)
         /\ UNCHANGED authVars
  BY DEF CmdLoopEnter

LEMMA ExitEffect ==
  ASSUME TypeOK, NEW id, CmdLoopExit(id), loop_depth > 0, ActiveSlotsOf(id) # {}
  PROVE  /\ loops' = [loops EXCEPT ![SlotToExit(id)].loop_hash = current_hash,
                                   ![SlotToExit(id)].is_active = FALSE]
         /\ current_hash' = loops[SlotToExit(id)].pre_loop_hash
         /\ loop_depth' = loop_depth - 1
         /\ UNCHANGED <<loop_count, authVars>>
  <1>1. ~(loop_depth <= 0)
    BY DEF TypeOK
  <1>. QED  BY <1>1, Zenon DEF CmdLoopExit

LEMMA EnterOpensSlot ==
  ASSUME TypeOK, NEW id \in LoopId, CmdLoopEnter(id), ~EnterRefused(id), ~DigestPanics
  PROVE  /\ SlotToEnter(id) \notin ActiveSlots
         /\ ActiveSlots' = ActiveSlots \cup {SlotToEnter(id)}
  <1>. DEFINE i == SlotToEnter(id)
  <1>1. /\ loop_count' = IF IdleSlotsOf(id) # {} THEN loop_count ELSE loop_count + 1
        /\ loops' = [loops EXCEPT ![i] =
                       [RecordToEnter(id) EXCEPT
                          !.pre_loop_hash = current_hash,
                          !.is_active = TRUE,
                          !.invocation_count = (@ + 1) % CounterMod]]
    BY DEF CmdLoopEnter
  <1>2. i \in 1 .. MaxLoopRecords /\ RecordToEnter(id) \in LoopRecord
    BY SlotToEnterInRange, RecordToEnterType
  <1>3. loops'[i].is_active = TRUE
    BY <1>1, <1>2 DEF TypeOK, LoopRecord
  <1>4. \A j \in 1 .. MaxLoopRecords : j # i => loops'[j] = loops[j]
    BY <1>1, <1>2 DEF TypeOK
  <1>5. CASE IdleSlotsOf(id) # {}
    <2>1. i \in 1 .. loop_count /\ ~loops[i].is_active /\ loop_count' = loop_count
      BY <1>1, <1>5, SlotToEnterInRange DEF IdleSlotsOf
    <2>. QED  BY <1>3, <1>4, <2>1, SlotsInRange DEF ActiveSlots
  <1>6. CASE IdleSlotsOf(id) = {}
    <2>1. i = loop_count + 1 /\ loop_count' = loop_count + 1
      BY <1>1, <1>6, SlotToEnterInRange
    <2>2. i \in 1 .. loop_count' /\ i \notin 1 .. loop_count
          /\ 1 .. loop_count' = (1 .. loop_count) \cup {i}
      BY <2>1 DEF TypeOK
    <2>. QED  BY <1>3, <1>4, <2>2, SlotsInRange DEF ActiveSlots
  <1>. QED  BY <1>5, <1>6

\* loop_exit closes exactly the slot it found.
LEMMA ExitClosesSlot ==
  ASSUME TypeOK, NEW id \in LoopId, CmdLoopExit(id),
         loop_depth > 0, ActiveSlotsOf(id) # {}
  PROVE  /\ SlotToExit(id) \in ActiveSlots
         /\ ActiveSlots' = ActiveSlots \ {SlotToExit(id)}
  <1>. DEFINE i == SlotToExit(id)
  <1>1. /\ loop_count' = loop_count
        /\ loops' = [loops EXCEPT ![i].loop_hash = current_hash,
                                  ![i].is_active = FALSE]
    BY DEF CmdLoopExit, TypeOK
  <1>2. i \in ActiveSlots
    BY SlotToExitInSet DEF ActiveSlotsOf
  <1>3. i \in 1 .. MaxLoopRecords
    BY <1>2, SlotsInRange
  <1>4. loops'[i].is_active = FALSE
    BY <1>1, <1>3 DEF TypeOK, LoopRecord
  <1>5. \A j \in 1 .. MaxLoopRecords : j # i => loops'[j] = loops[j]
    BY <1>1, <1>3 DEF TypeOK
  <1>. QED  BY <1>1, <1>2, <1>4, <1>5, SlotsInRange DEF ActiveSlots

LEMMA IterationKeepsSlots ==
  ASSUME TypeOK, NEW id \in LoopId, CmdLoopIteration(id)
  PROVE  ActiveSlots' = ActiveSlots
  <1>1. \A j \in 1 .. MaxLoopRecords : loops'[j].is_active = loops[j].is_active
    BY DEF CmdLoopIteration, TypeOK, LoopRecord
  <1>. QED  BY <1>1, SlotsInRange DEF CmdLoopIteration, ActiveSlots

\* The underflow check of loop_exit never refuses to close an open loop.
THEOREM OpenLoopsWithinDepth == Spec => []ActiveWithinDepth
  <1>1. Init => ActiveWithinDepth
    <2>. SUFFICES ASSUME Init PROVE ActiveWithinDepth
      OBVIOUS
    <2>1. ActiveSlots = {}
      BY DEF Init, ActiveSlots
    <2>. QED  BY <2>1, FS_EmptySet DEF Init, ActiveWithinDepth
  <1>2. TypeOK /\ ActiveWithinDepth /\ [Next]_vars => ActiveWithinDepth'
    <2>. SUFFICES ASSUME TypeOK, ActiveWithinDepth, [Next]_vars
                  PROVE  ActiveWithinDepth'
      OBVIOUS
    <2>1. ASSUME ActiveSlots' = {}, loop_depth' >= 0 PROVE ActiveWithinDepth'
      BY <2>1, FS_EmptySet DEF ActiveWithinDepth
    <2>2. CASE ActiveSlots' = ActiveSlots /\ loop_depth' = loop_depth
      BY <2>2 DEF ActiveWithinDepth
    <2>3. CASE UNCHANGED loopVars
      BY <2>2, <2>3 DEF loopVars, ActiveSlots
    <2>. USE DEF ctxVars
    <2>4. ASSUME ZeroContext PROVE ActiveWithinDepth'
      BY <2>1, <2>4, NoActiveSlot DEF ZeroContext
    <2>5. CASE OpenSession \/ CloseSession \/ ClosePanicked
      BY <2>3, <2>4, <2>5 DEF OpenSession, CloseSession, ClosePanicked, Panic
    <2>6. CASE CmdInit
      BY <2>1, <2>4, <2>6, NoActiveSlot DEF CmdInit, ResetLoops, Panic
    <2>7. ASSUME NEW id \in NodeId, CmdRecordNode(id) PROVE ActiveWithinDepth'
      BY <2>3, <2>4, <2>7 DEF CmdRecordNode, Panic
    <2>8. ASSUME NEW site \in NodeId, NEW caller \in NodeId,
                 CmdCallEnter(site, caller) \/ CmdCallReturn(site)
          PROVE  ActiveWithinDepth'
      BY <2>3, <2>8 DEF CmdCallEnter, CmdCallReturn
    <2>9. ASSUME NEW id \in LoopId, CmdLoopEnter(id) PROVE ActiveWithinDepth'
      <3>1. CASE EnterRefused(id)
        BY <2>3, <2>9, <3>1 DEF CmdLoopEnter
      <3>2. CASE ~EnterRefused(id) /\ DigestPanics
        BY <2>4, <2>9, <3>2 DEF CmdLoopEnter, Panic
      <3>3. CASE ~EnterRefused(id) /\ ~DigestPanics
        <4>1. loop_depth' = loop_depth + 1
          BY <2>9, <3>3 DEF CmdLoopEnter
        <4>2. Cardinality(ActiveSlots') = Cardinality(ActiveSlots) + 1
          BY <2>9, <3>3, EnterOpensSlot, ActiveSlotsFinite, FS_AddElement
        <4>. QED
          BY <4>1, <4>2, ActiveSlotsFinite DEF ActiveWithinDepth, TypeOK
      <3>. QED  BY <3>1, <3>2, <3>3
    <2>10. ASSUME NEW id \in LoopId, CmdLoopExit(id) PROVE ActiveWithinDepth'
      <3>1. CASE UNCHANGED <<loops, loop_depth>>
        BY <2>3, <2>10, <3>1 DEF CmdLoopExit, loopVars
      <3>2. CASE loop_depth > 0 /\ ActiveSlotsOf(id) # {}
        <4>1. loop_depth' = loop_depth - 1
          BY <2>10, <3>2 DEF CmdLoopExit, TypeOK
        <4>2. Cardinality(ActiveSlots') = Cardinality(ActiveSlots) - 1
          BY <2>10, <3>2, ExitClosesSlot, ActiveSlotsFinite, FS_RemoveElement
        <4>. QED
          BY <4>1, <4>2, ActiveSlotsFinite DEF ActiveWithinDepth, TypeOK
      <3>. QED  BY <2>10, <3>1, <3>2 DEF CmdLoopExit
    <2>11. ASSUME NEW id \in LoopId, CmdLoopIteration(id) PROVE ActiveWithinDepth'
      BY <2>2, <2>11, IterationKeepsSlots DEF CmdLoopIteration
    <2>12. CASE CmdFinalize
      <3>1. \A i \in 1 .. loop_count : loops'[i].is_active = FALSE
        BY <2>12, SlotsInRange
           DEF CmdFinalize, ForceClosed, ActiveSlots, TypeOK, LoopRecord
      <3>. QED
        BY <2>1, <2>12, <3>1 DEF CmdFinalize, ActiveSlots, TypeOK
    <2>13. CASE CmdGetLog \/ BadInvoke
      BY <2>3, <2>13 DEF CmdGetLog, BadInvoke
    <2>14. ASSUME NEW size \in BufferSizes, CmdGetAuth(size) PROVE ActiveWithinDepth'
      BY <2>3, <2>14 DEF CmdGetAuth
    <2>15. CASE UNCHANGED vars
      BY <2>3, <2>15 DEF vars
    <2>. QED
      BY <2>5, <2>6, <2>7, <2>8, <2>9, <2>10, <2>11, <2>12, <2>13, <2>14, <2>15,
         Zenon DEF Next
  <1>. QED  BY <1>1, <1>2, TypeCorrect, PTL DEF Spec

=============================================================================
