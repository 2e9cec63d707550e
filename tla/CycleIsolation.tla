--------------------------- MODULE CycleIsolation ---------------------------
(***************************************************************************)
(* Measurement cycles do not leak into one another: LoopProgram composed   *)
(* with a second trusted application, the twin, that starts every cycle in *)
(* a session of its own, from zeroed memory, and is given the commands of  *)
(* that cycle. INIT resets counters and leaves the arrays as they are; if  *)
(* it resets enough, nobody can tell the two applications apart.           *)
(***************************************************************************)
EXTENDS LoopProgram

VARIABLES
  t_session, t_current_hash, t_hash_op, t_is_initialized, t_loops,
  t_loop_count, t_loop_depth, t_call_stack, t_final_auth, t_auth_size,
  t_ops_allocated, t_reply

Twin ==
  INSTANCE CflatTA WITH
    session <- t_session, current_hash <- t_current_hash,
    hash_op <- t_hash_op, is_initialized <- t_is_initialized,
    loops <- t_loops, loop_count <- t_loop_count, loop_depth <- t_loop_depth,
    call_stack <- t_call_stack, final_auth <- t_final_auth,
    auth_size <- t_auth_size, ops_allocated <- t_ops_allocated,
    reply <- t_reply

twinVars == <<t_session, t_current_hash, t_hash_op, t_is_initialized, t_loops,
              t_loop_count, t_loop_depth, t_call_stack, t_final_auth,
              t_auth_size, t_ops_allocated, t_reply>>
isoVars == <<progVars, twinVars>>

IsoInit == ProgInit /\ Twin!Init

\* OPEN and INIT of a session that no measurement has used.
FreshTwin ==
  /\ t_session' = "open"
  /\ t_current_hash' = ZeroHash
  /\ t_hash_op' = "live"
  /\ t_is_initialized' = TRUE
  /\ t_loops' = NoLoops
  /\ t_loop_count' = 0
  /\ t_loop_depth' = 0
  /\ t_call_stack' = << >>
  /\ t_final_auth' = NoAttestation
  /\ t_auth_size' = 0
  /\ t_ops_allocated' = 1
  /\ t_reply' = [cmd |-> "INIT", res |-> "SUCCESS", size |-> 0]

\* The twin is given the command the program invoked, and waits for the first.
IsoNext ==
  \/ Start /\ IF is_initialized' THEN FreshTwin ELSE UNCHANGED twinVars
  \/ Reinit /\ FreshTwin
  \/ Finalize /\ Twin!CmdFinalize
  \/ \E size \in BufferSizes :
       /\ reply.cmd = "FINALIZE"
       /\ CmdGetAuth(size) /\ Twin!CmdGetAuth(size)
       /\ needs_reinit' = (needs_reinit \/ reply'.res = "SUCCESS")
       /\ UNCHANGED frames
  \/ \E n \in NodeId :
       \/ RecordNode(n) /\ Twin!CmdRecordNode(n)
       \/ EnterUnhooked(n) /\ UNCHANGED twinVars
       \/ ReturnFromCall(n) /\ Twin!CmdCallReturn(n)
  \/ \E l \in LoopId : EnterLoop(l) /\ Twin!CmdLoopEnter(l)
  \/ Iterate /\ Twin!CmdLoopIteration(TopFrame.id)
  \/ ExitLoop /\ Twin!CmdLoopExit(TopFrame.id)
  \/ \E site, caller \in NodeId :
       EnterCall(site, caller) /\ Twin!CmdCallEnter(site, caller)

IsoSpec == IsoInit /\ [][IsoNext]_isoVars

\* "Reset all state" (cmd_init): the answer to every command since INIT, and
\* the attestation that GET_AUTH delivers, are those of an application that
\* has never measured anything before. In particular no loop record reports
\* what its slot held in an earlier cycle.
CyclesIndependent ==
  is_initialized =>
    /\ reply = t_reply
    /\ auth_size # 0 => final_auth = t_final_auth

=============================================================================
