------------------------------ MODULE CflatTA ------------------------------
(***************************************************************************)
(* The C-FLAT trusted application, secure-world/ta/cflat_ta.c: one session *)
(* of the measurement engine, with one action per entry point and command. *)
(*                                                                         *)
(* The fields of cflat_session_ctx are the variables; the C array loops[]  *)
(* is kept as an array of MaxLoopRecords slots of which loop_count are in  *)
(* use, because a slot keeps what an earlier measurement left in it.       *)
(*                                                                         *)
(* SHA-256 is ideal: the hash obtained from 32 zero bytes by absorbing     *)
(* identifiers one after the other is the sequence of these identifiers.   *)
(* Two hashes are equal exactly when the same identifiers went into them.  *)
(*                                                                         *)
(* A command either panics the TA (a TEE Internal API call on an operation *)
(* handle that is not valid) or answers with a TEE_Result in `reply'.      *)
(***************************************************************************)
EXTENDS Integers, Sequences, FiniteSets, FiniteSetsExt

CONSTANTS
  NodeId,          \* identifiers of basic blocks and of call sites
  LoopId,          \* identifiers of loop headers
  NoId,            \* the zero identifier of a slot that was never used
  MaxLoopDepth,    \* MAX_LOOP_DEPTH, 16 in the code
  MaxLoopRecords,  \* MAX_LOOP_RECORDS, 64 in the code
  MaxCallDepth,    \* MAX_CALL_DEPTH, 32 in the code
  CounterMod,      \* 2^32: the counters of a record are uint32_t
  BufferSizes,     \* sizes of the buffers a client offers to GET_AUTH
  AllocMayFail,    \* TEE_AllocateOperation and TEE_Malloc may fail
  MaxChain         \* bound of the model: nodes absorbed into one hash

ASSUME LimitsAssumption ==
  /\ MaxLoopDepth \in Nat
  /\ MaxLoopRecords \in Nat
  /\ MaxCallDepth \in Nat
  /\ CounterMod \in Nat \ {0}
  /\ MaxChain \in Nat
  /\ BufferSizes \subseteq Nat
  /\ AllocMayFail \in BOOLEAN

VARIABLES
  session,         \* "closed", "open", or "panicked": the TA was killed
  current_hash,
  hash_op,         \* "null", "live", or "freed": a handle that dangles
  is_initialized,
  loops,
  loop_count,
  loop_depth,
  call_stack,      \* call_depth is its length: entries above are never read
  final_auth,
  auth_size,
  ops_allocated,   \* digest operations the TEE holds for this TA
  reply            \* what the last invocation returned to the client

hashVars == <<current_hash, hash_op, is_initialized, ops_allocated>>
loopVars == <<loops, loop_count, loop_depth>>
authVars == <<final_auth, auth_size>>
ctxVars == <<hashVars, loopVars, call_stack, authVars>>
vars == <<session, ctxVars, reply>>

-----------------------------------------------------------------------------
(* Types.                                                                  *)

Hash == Seq(NodeId \cup LoopId)
ZeroHash == << >>

LoopRecord ==
  [loop_id          : LoopId \cup {NoId},
   pre_loop_hash    : Hash,
   loop_hash        : Hash,
   iteration_count  : 0 .. CounterMod - 1,
   invocation_count : 0 .. CounterMod - 1,
   is_active        : BOOLEAN,
   depth_level      : Nat]

ZeroRecord ==
  [loop_id          |-> NoId,
   pre_loop_hash    |-> ZeroHash,
   loop_hash        |-> ZeroHash,
   iteration_count  |-> 0,
   invocation_count |-> 0,
   is_active        |-> FALSE,
   depth_level      |-> 0]

\* The part of a record that goes into the attestation.
LoopReport ==
  [loop_id : LoopId \cup {NoId}, pre_loop_hash : Hash, loop_hash : Hash,
   iteration_count : 0 .. CounterMod - 1,
   invocation_count : 0 .. CounterMod - 1]

Attestation == [final_hash : Hash, loop_count : Nat, records : Seq(LoopReport)]
NoAttestation == [final_hash |-> ZeroHash, loop_count |-> 0, records |-> << >>]

\* Byte sizes of the serialized attestation, and of the array final_auth.
HeaderSize == 36
RecordSize == 80
CapacityWithoutHeader == MaxLoopRecords * RecordSize   \* mutant
AuthCapacity == HeaderSize + MaxLoopRecords * RecordSize

CallRecord == [call_site_id : NodeId, caller_node : NodeId]

Commands == {"NONE", "OPEN", "CLOSE", "INIT", "RECORD_NODE", "LOOP_ENTER",
             "LOOP_EXIT", "LOOP_ITERATION", "CALL_ENTER", "CALL_RETURN",
             "FINALIZE", "GET_AUTH", "GET_LOG", "UNKNOWN"}
Results == {"SUCCESS", "BAD_STATE", "OVERFLOW", "ITEM_NOT_FOUND",
            "SHORT_BUFFER", "OUT_OF_MEMORY", "BAD_PARAMETERS", "TARGET_DEAD"}

\* size: what the TA wrote to params[0].memref.size, 0 when it wrote nothing.
Reply(cmd, res, size) == reply' = [cmd |-> cmd, res |-> res, size |-> size]

-----------------------------------------------------------------------------
(* The session.                                                            *)

NoLoops == [i \in 1 .. MaxLoopRecords |-> ZeroRecord]

Init ==
  /\ session = "closed"
  /\ current_hash = ZeroHash
  /\ hash_op = "null"
  /\ is_initialized = FALSE
  /\ loops = NoLoops
  /\ loop_count = 0
  /\ loop_depth = 0
  /\ call_stack = << >>
  /\ final_auth = NoAttestation
  /\ auth_size = 0
  /\ ops_allocated = 0
  /\ reply = [cmd |-> "NONE", res |-> "SUCCESS", size |-> 0]

\* The context is zeroed when it is allocated; without a session there is none.
ZeroContext ==
  /\ current_hash' = ZeroHash
  /\ hash_op' = "null"
  /\ is_initialized' = FALSE
  /\ loops' = NoLoops
  /\ loop_count' = 0
  /\ loop_depth' = 0
  /\ call_stack' = << >>
  /\ final_auth' = NoAttestation
  /\ auth_size' = 0
  /\ ops_allocated' = 0

\* TEE_Malloc and TEE_MemFill: every session starts from zeroed memory.
OpenSession ==
  /\ session = "closed"
  /\ ZeroContext
  /\ \/ session' = "open" /\ Reply("OPEN", "SUCCESS", 0)
     \/ AllocMayFail /\ UNCHANGED session /\ Reply("OPEN", "OUT_OF_MEMORY", 0)

\* The TEE kills the TA and takes back its memory and its operations.
Panic(cmd) ==
  /\ session' = "panicked"
  /\ ZeroContext
  /\ Reply(cmd, "TARGET_DEAD", 0)

\* TEE_FreeOperation on any handle but TEE_HANDLE_NULL, then TEE_Free.
CloseSession ==
  /\ session = "open"
  /\ \/ /\ hash_op # "freed"
        /\ session' = "closed"
        /\ ZeroContext
        /\ Reply("CLOSE", "SUCCESS", 0)
     \/ hash_op = "freed" /\ Panic("CLOSE")

\* The client closes its session with a TA that is dead.
ClosePanicked ==
  /\ session = "panicked"
  /\ session' = "closed"
  /\ UNCHANGED ctxVars
  /\ Reply("CLOSE", "SUCCESS", 0)

-----------------------------------------------------------------------------
(* The hash chain.                                                         *)

\* update_hash refuses to run before CMD_INIT; its callers may ignore that.
Absorb(hash, id) == IF is_initialized THEN Append(hash, id) ELSE hash

\* The digest calls of update_hash panic on a handle that is not valid.
DigestPanics == is_initialized /\ hash_op # "live"

OperationNeverFreed == ops_allocated   \* mutant
OpsAfterFree == IF hash_op = "live" THEN ops_allocated - 1 ELSE ops_allocated

\* A failed TEE_AllocateOperation leaves the handle as it was, which is the
\* freed one, or clears it: the code tests the result, never the handle.
HandleAfterFailure == {"null", IF hash_op = "live" THEN "freed" ELSE hash_op}

AllocateDigest ==
  \/ /\ hash_op' = "live"
     /\ ops_allocated' = OpsAfterFree + 1
     /\ is_initialized' = TRUE
     /\ Reply("INIT", "SUCCESS", 0)
  \/ /\ AllocMayFail
     /\ hash_op' \in HandleAfterFailure
     /\ ops_allocated' = OpsAfterFree
     /\ UNCHANGED is_initialized
     /\ Reply("INIT", "OUT_OF_MEMORY", 0)

ResetDepthOnly == UNCHANGED loop_count /\ loop_depth' = 0   \* mutant
ResetCountOnly == loop_count' = 0 /\ UNCHANGED loop_depth   \* mutant
ResetLoops == loop_count' = 0 /\ loop_depth' = 0

KeepCalls == UNCHANGED call_stack   \* mutant
ResetCalls == call_stack' = << >>

CmdInit ==
  /\ session = "open"
  /\ \/ /\ hash_op # "freed"
        /\ current_hash' = ZeroHash
        /\ ResetLoops
        /\ ResetCalls
        /\ auth_size' = 0
        /\ AllocateDigest
        /\ UNCHANGED <<session, loops, final_auth>>
     \/ hash_op = "freed" /\ Panic("INIT")

CmdRecordNode(id) ==
  /\ session = "open"
  /\ Len(current_hash) < MaxChain
  /\ \/ /\ ~is_initialized
        /\ Reply("RECORD_NODE", "BAD_STATE", 0)
        /\ UNCHANGED <<session, ctxVars>>
     \/ /\ is_initialized
        /\ hash_op = "live"
        /\ current_hash' = Absorb(current_hash, id)
        /\ Reply("RECORD_NODE", "SUCCESS", 0)
        /\ UNCHANGED <<session, hash_op, is_initialized, ops_allocated,
                       loopVars, call_stack, authVars>>
     \/ DigestPanics /\ Panic("RECORD_NODE")

-----------------------------------------------------------------------------
(* Loops.                                                                  *)

ActiveSlots == {i \in 1 .. loop_count : loops[i].is_active}
AnyActiveSlot(id) == ActiveSlots   \* mutant: the identifier is not compared
ActiveSlotsOf(id) == {i \in ActiveSlots : loops[i].loop_id = id}
IdleSlotsOf(id) ==
  {i \in 1 .. loop_count : loops[i].loop_id = id /\ ~loops[i].is_active}

\* The first inactive record of this loop, else a slot that is not in use.
SlotToEnter(id) ==
  IF IdleSlotsOf(id) # {} THEN Min(IdleSlotsOf(id)) ELSE loop_count + 1

\* mutant: a slot keeps the counters of the measurement before
RecordKeepsCounts(id) ==
  IF IdleSlotsOf(id) # {}
  THEN loops[SlotToEnter(id)]
  ELSE [loops[SlotToEnter(id)] EXCEPT !.loop_id = id, !.depth_level = loop_depth]
\* Allocation sets every field but loop_hash, which keeps what it held.
RecordToEnter(id) ==
  IF IdleSlotsOf(id) # {}
  THEN loops[SlotToEnter(id)]
  ELSE [loops[SlotToEnter(id)] EXCEPT !.loop_id = id,
                                      !.iteration_count = 0,
                                      !.invocation_count = 0,
                                      !.depth_level = loop_depth]

\* mutant: the depth check is off by one
EnterRefusedLate(id) ==
  \/ loop_depth > MaxLoopDepth
  \/ IdleSlotsOf(id) = {} /\ loop_count >= MaxLoopRecords
EnterRefused(id) ==
  \/ loop_depth >= MaxLoopDepth
  \/ IdleSlotsOf(id) = {} /\ loop_count >= MaxLoopRecords

CmdLoopEnter(id) ==
  /\ session = "open"
  /\ \/ /\ EnterRefused(id)
        /\ Reply("LOOP_ENTER", "OVERFLOW", 0)
        /\ UNCHANGED <<session, ctxVars>>
     \/ /\ ~EnterRefused(id)
        /\ ~DigestPanics
        /\ loops' = [loops EXCEPT ![SlotToEnter(id)] =
                       [RecordToEnter(id) EXCEPT
                          !.pre_loop_hash = current_hash,
                          !.is_active = TRUE,
                          !.invocation_count = (@ + 1) % CounterMod]]
        /\ loop_count' = IF IdleSlotsOf(id) # {} THEN loop_count ELSE loop_count + 1
        /\ loop_depth' = loop_depth + 1
        /\ current_hash' = Absorb(ZeroHash, id)
        /\ Reply("LOOP_ENTER", "SUCCESS", 0)
        /\ UNCHANGED <<session, hash_op, is_initialized, ops_allocated,
                       call_stack, authVars>>
     \/ ~EnterRefused(id) /\ DigestPanics /\ Panic("LOOP_ENTER")

LastActiveSlot(id) == Max(ActiveSlots)   \* mutant: the last record, any loop
\* loop_exit searches loops[] from the front.
SlotToExit(id) == Min(ActiveSlotsOf(id))

CmdLoopExit(id) ==
  /\ session = "open"
  /\ UNCHANGED <<session, hash_op, is_initialized, ops_allocated, loop_count,
                 call_stack, authVars>>
  /\ \/ /\ loop_depth <= 0
        /\ Reply("LOOP_EXIT", "BAD_STATE", 0)
        /\ UNCHANGED <<current_hash, loops, loop_depth>>
     \/ /\ loop_depth > 0
        /\ ActiveSlotsOf(id) = {}
        /\ Reply("LOOP_EXIT", "ITEM_NOT_FOUND", 0)
        /\ UNCHANGED <<current_hash, loops, loop_depth>>
     \/ /\ loop_depth > 0
        /\ ActiveSlotsOf(id) # {}
        /\ loops' = [loops EXCEPT ![SlotToExit(id)].loop_hash = current_hash,
                                  ![SlotToExit(id)].is_active = FALSE]
        /\ current_hash' = loops[SlotToExit(id)].pre_loop_hash
        /\ loop_depth' = loop_depth - 1
        /\ Reply("LOOP_EXIT", "SUCCESS", 0)

FirstActiveSlot(id) == Min(ActiveSlots)   \* mutant: the first record, any loop
\* loop_iteration searches loops[] from the back.
SlotToIterate(id) == Max(ActiveSlotsOf(id))

CmdLoopIteration(id) ==
  /\ session = "open"
  /\ loops' = IF ActiveSlotsOf(id) = {}
              THEN loops
              ELSE [loops EXCEPT ![SlotToIterate(id)].iteration_count =
                                    (@ + 1) % CounterMod]
  /\ Reply("LOOP_ITERATION", "SUCCESS", 0)
  /\ UNCHANGED <<session, hashVars, loop_count, loop_depth, call_stack, authVars>>

-----------------------------------------------------------------------------
(* Calls.                                                                  *)

CmdCallEnter(site, caller) ==
  /\ session = "open"
  /\ \/ /\ Len(call_stack) >= MaxCallDepth
        /\ Reply("CALL_ENTER", "OVERFLOW", 0)
        /\ UNCHANGED call_stack
     \/ /\ Len(call_stack) < MaxCallDepth
        /\ call_stack' = Append(call_stack,
                                [call_site_id |-> site, caller_node |-> caller])
        /\ Reply("CALL_ENTER", "SUCCESS", 0)
  /\ UNCHANGED <<session, hashVars, loopVars, authVars>>

PoppedIfSame(site) ==   \* mutant: only the site's own entry is removed
  IF call_stack # << >> /\ call_stack[Len(call_stack)].call_site_id = site
  THEN SubSeq(call_stack, 1, Len(call_stack) - 1) ELSE call_stack

\* The identifier is not looked at, and an empty stack is not an error.
Popped(site) == SubSeq(call_stack, 1, Len(call_stack) - 1)

CmdCallReturn(site) ==
  /\ session = "open"
  /\ call_stack' = Popped(site)
  /\ Reply("CALL_RETURN", "SUCCESS", 0)
  /\ UNCHANGED <<session, hashVars, loopVars, authVars>>

-----------------------------------------------------------------------------
(* The attestation.                                                        *)

ReportOf(rec) ==
  [loop_id |-> rec.loop_id,
   pre_loop_hash |-> rec.pre_loop_hash,
   loop_hash |-> rec.loop_hash,
   iteration_count |-> rec.iteration_count,
   invocation_count |-> rec.invocation_count]

\* Serialization stops at the first record that does not fit final_auth.
RecordsThatFit == (AuthCapacity - HeaderSize) \div RecordSize
RecordsSerialized == IF loop_count <= RecordsThatFit THEN loop_count ELSE RecordsThatFit

LeftOpen == loops   \* mutant: loops that are still active are only reported
ForceClosed ==
  [i \in 1 .. MaxLoopRecords |->
     IF i \in ActiveSlots THEN [loops[i] EXCEPT !.is_active = FALSE] ELSE loops[i]]

CmdFinalize ==
  /\ session = "open"
  /\ loops' = ForceClosed
  /\ final_auth' = [final_hash |-> current_hash,
                    loop_count |-> loop_count,
                    records |-> [i \in 1 .. RecordsSerialized |-> ReportOf(loops[i])]]
  /\ auth_size' = HeaderSize + RecordsSerialized * RecordSize
  /\ Reply("FINALIZE", "SUCCESS", 0)
  /\ UNCHANGED <<session, hashVars, loop_count, loop_depth, call_stack>>

\* On SUCCESS the client's buffer receives the first auth_size bytes of
\* final_auth.
CmdGetAuth(size) ==
  /\ session = "open"
  /\ \/ auth_size = 0 /\ Reply("GET_AUTH", "BAD_STATE", 0)
     \/ auth_size # 0 /\ size < auth_size /\ Reply("GET_AUTH", "SHORT_BUFFER", auth_size)
     \/ auth_size # 0 /\ size >= auth_size /\ Reply("GET_AUTH", "SUCCESS", auth_size)
  /\ UNCHANGED <<session, ctxVars>>

\* append_log has no caller left, so log_idx is 0 and every buffer is enough.
CmdGetLog ==
  /\ session = "open"
  /\ Reply("GET_LOG", "SUCCESS", 0)
  /\ UNCHANGED <<session, ctxVars>>

\* An unknown command, or parameters of another type than the command's.
BadInvoke ==
  /\ session = "open"
  /\ Reply("UNKNOWN", "BAD_PARAMETERS", 0)
  /\ UNCHANGED <<session, ctxVars>>

-----------------------------------------------------------------------------
(* A client that may invoke any command at any time.                       *)

Next ==
  \/ OpenSession \/ CloseSession \/ ClosePanicked
  \/ CmdInit
  \/ \E id \in NodeId : CmdRecordNode(id) \/ CmdCallReturn(id)
  \/ \E site, caller \in NodeId : CmdCallEnter(site, caller)
  \/ \E id \in LoopId : CmdLoopEnter(id) \/ CmdLoopExit(id) \/ CmdLoopIteration(id)
  \/ CmdFinalize
  \/ \E size \in BufferSizes : CmdGetAuth(size)
  \/ CmdGetLog
  \/ BadInvoke

Spec == Init /\ [][Next]_vars

-----------------------------------------------------------------------------
(* Properties.                                                             *)

\* Every field of cflat_session_ctx keeps a value of its C type, in range.
TypeOK ==
  /\ session \in {"closed", "open", "panicked"}
  /\ current_hash \in Hash
  /\ hash_op \in {"null", "live", "freed"}
  /\ is_initialized \in BOOLEAN
  /\ loops \in [1 .. MaxLoopRecords -> LoopRecord]
  /\ loop_count \in 0 .. MaxLoopRecords
  /\ loop_depth \in 0 .. MaxLoopDepth
  /\ call_stack \in Seq(CallRecord)
  /\ Len(call_stack) <= MaxCallDepth
  /\ final_auth \in Attestation
  /\ auth_size \in Nat
  /\ ops_allocated \in Int
  /\ reply \in [cmd : Commands, res : Results, size : Nat]

\* loop_depth is kept apart from the is_active flags, by loop_enter, loop_exit,
\* finalize and INIT. Whatever the client does it never falls below the number
\* of active records, so the underflow check of loop_exit never refuses to
\* close a loop that is open.
ActiveWithinDepth == Cardinality(ActiveSlots) <= loop_depth

\* An attestation the client can fetch holds as many records as its header
\* announces, no record was cut off by the capacity of final_auth, and its
\* size is that of its contents.
AuthComplete ==
  auth_size # 0 =>
    /\ Len(final_auth.records) = final_auth.loop_count
    /\ auth_size = HeaderSize + RecordSize * final_auth.loop_count
    /\ auth_size <= AuthCapacity

\* However INIT fails or is repeated, the TEE holds exactly the operation that
\* hash_op refers to: none is leaked, none is counted twice.
NoOperationLeak == ops_allocated = IF hash_op = "live" THEN 1 ELSE 0

\* cmd_init is documented to "Reset all state", and update_hash relies on
\* is_initialized to tell that the digest operation may be used.
HashOpUsable == is_initialized => hash_op = "live"

=============================================================================
