------------------------------ MODULE Libcflat ------------------------------
(***************************************************************************)
(* The runtime that instrumented programs link, libcflat.c, composed with  *)
(* CflatTA: several processes, each with its own copy of the runtime's     *)
(* static variables, before one trusted application that takes a single    *)
(* session at a time (TA_FLAG_SINGLE_INSTANCE, no TA_FLAG_MULTI_SESSION).  *)
(*                                                                         *)
(* A hook is a sequence of calls into the TEE client library. Each call is *)
(* a step, so processes interleave between them, a process may die between *)
(* them, and each may fail. The hooks are those that the pass inserts:     *)
(* record_node and call_enter, which run maybe_reinit, and call_return,    *)
(* which does not. The loop hooks differ from them in the command only and *)
(* are in LoopProgram.                                                     *)
(***************************************************************************)
EXTENDS CflatTA

CONSTANTS
  Proc,           \* processes
  NoProc,
  CallsMayFail,   \* a call may return an error before it reaches the TA
  MaxPath,        \* bound of the model: nodes executed in a cycle
  MaxFaults       \* bound of the model: failed calls and failed allocations

ASSUME LibAssumption ==
  /\ NoProc \notin Proc
  /\ CallsMayFail \in BOOLEAN
  /\ MaxPath \in Nat
  /\ MaxFaults \in Nat

VARIABLES
  holder,        \* the process whose session the TA serves
  pc,            \* "exited", "running", or the next call of the hook
  hook,          \* the hook a process is in
  initialized,   \* static variable of the runtime
  needs_reinit,  \* static variable of the runtime
  cycle,         \* what the process did since its last attestation
  faults

procVars == <<pc, hook, initialized, needs_reinit, cycle>>
libVars == <<vars, holder, procVars, faults>>

Hook == [cmd : {"RECORD_NODE", "CALL_ENTER", "CALL_RETURN"}, id : NodeId]
NoHook == [cmd |-> "NONE", id |-> NoId]

\* For the properties. path: the nodes executed in this cycle. missed: a call
\* of this cycle failed. printed: a forward hook begins the next cycle.
NewCycle == [path |-> << >>, missed |-> FALSE, printed |-> FALSE]
Forward(h) == h.cmd # "CALL_RETURN"

-----------------------------------------------------------------------------
(* Calls into the TEE.                                                     *)

CountAllocation ==
  /\ faults' = IF reply'.res = "OUT_OF_MEMORY" THEN faults + 1 ELSE faults
  /\ faults' <= MaxFaults

CallFails ==
  /\ CallsMayFail
  /\ faults < MaxFaults
  /\ faults' = faults + 1
  /\ UNCHANGED <<vars, holder>>

\* The command runs in the session of p; a panic ends that session.
Reaches(p, command) ==
  /\ holder = p
  /\ command
  /\ holder' = IF session' = "panicked" THEN NoProc ELSE p
  /\ CountAllocation

\* The call returns an error: it failed, or the session of p died with the TA.
Fails(p) == CallFails \/ (holder # p /\ UNCHANGED <<vars, holder, faults>>)

Succeeded == reply'.res = "SUCCESS"
Goto(p, label) == pc' = [pc EXCEPT ![p] = label]
Miss(p) == cycle' = [cycle EXCEPT ![p].missed = TRUE]

-----------------------------------------------------------------------------
(* Processes. The statics are zero when a process starts.                  *)

LibInit ==
  /\ Init
  /\ holder = NoProc
  /\ pc = [p \in Proc |-> "exited"]
  /\ hook = [p \in Proc |-> NoHook]
  /\ initialized = [p \in Proc |-> FALSE]
  /\ needs_reinit = [p \in Proc |-> FALSE]
  /\ cycle = [p \in Proc |-> NewCycle]
  /\ faults = 0

Launch(p) ==
  /\ pc[p] = "exited"
  /\ Goto(p, "running")
  /\ UNCHANGED <<vars, holder, hook, initialized, needs_reinit, cycle, faults>>

\* mutant: nothing but cflat_cleanup closes a session
ReleaseKnown(p) ==
  IF holder = p /\ initialized[p]
  THEN CloseSession /\ holder' = NoProc
  ELSE UNCHANGED <<vars, holder>>
\* cflat_cleanup closes the session, or else the TEE driver does.
Release(p) ==
  IF holder = p
  THEN CloseSession /\ holder' = NoProc
  ELSE UNCHANGED <<vars, holder>>

\* The process returns from main, or dies at any point of a hook.
Leave(p) ==
  /\ pc[p] # "exited"
  /\ Release(p)
  /\ Goto(p, "exited")
  /\ hook' = [hook EXCEPT ![p] = NoHook]
  /\ initialized' = [initialized EXCEPT ![p] = FALSE]
  /\ needs_reinit' = [needs_reinit EXCEPT ![p] = FALSE]
  /\ cycle' = [cycle EXCEPT ![p] = NewCycle]
  /\ UNCHANGED faults

\* The TEE takes down an application that panicked.
Reap ==
  /\ ClosePanicked
  /\ UNCHANGED <<holder, procVars, faults>>

-----------------------------------------------------------------------------
(* A hook.                                                                 *)

\* The cycle of p once hook h has begun.
CycleAt(p, h) ==
  LET now == IF cycle[p].printed /\ Forward(h) THEN NewCycle ELSE cycle[p]
  IN IF h.cmd = "RECORD_NODE" THEN [now EXCEPT !.path = Append(@, h.id)] ELSE now

CallHook(p, h) ==
  /\ pc[p] = "running"
  /\ Len(CycleAt(p, h).path) <= MaxPath
  /\ hook' = [hook EXCEPT ![p] = h]
  /\ cycle' = [cycle EXCEPT ![p] = CycleAt(p, h)]
  /\ Goto(p, IF ~initialized[p] THEN "context"
             ELSE IF needs_reinit[p] /\ Forward(h) THEN "reinit" ELSE "invoke")
  /\ UNCHANGED <<vars, holder, initialized, needs_reinit, faults>>

\* ensure_init. Each failure returns from the hook with `initialized' clear,
\* and the next hook starts over.
InitializeContext(p) ==
  /\ pc[p] = "context"
  /\ \/ /\ Goto(p, "open")
        /\ UNCHANGED <<vars, holder, cycle, faults>>
     \/ CallFails /\ Goto(p, "running") /\ Miss(p)
  /\ UNCHANGED <<hook, initialized, needs_reinit>>

Busy == session # "closed"   \* the TA has a session: TEE_ERROR_BUSY

OpenTheSession(p) ==
  /\ pc[p] = "open"
  /\ \/ /\ OpenSession
        /\ CountAllocation
        /\ IF Succeeded
           THEN holder' = p /\ Goto(p, "init") /\ UNCHANGED cycle
           ELSE UNCHANGED holder /\ Goto(p, "running") /\ Miss(p)
     \/ /\ CallFails \/ (Busy /\ UNCHANGED <<vars, holder, faults>>)
        /\ Goto(p, "running")
        /\ Miss(p)
  /\ UNCHANGED <<hook, initialized, needs_reinit>>

\* A failure leaves the session open, and the runtime forgets that it is.
FirstInit(p) ==
  /\ pc[p] = "init"
  /\ \/ /\ Reaches(p, CmdInit)
        /\ Succeeded
        /\ initialized' = [initialized EXCEPT ![p] = TRUE]
        /\ Goto(p, "invoke")
        /\ UNCHANGED cycle
     \/ /\ (Reaches(p, CmdInit) /\ ~Succeeded) \/ Fails(p)
        /\ Goto(p, "running")
        /\ Miss(p)
        /\ UNCHANGED initialized
  /\ UNCHANGED <<hook, needs_reinit>>

\* maybe_reinit ignores the result.
LeaveReinit(p) == UNCHANGED needs_reinit   \* mutant: the flag is not cleared
ClearReinit(p) == needs_reinit' = [needs_reinit EXCEPT ![p] = FALSE]

Reinit(p) ==
  /\ pc[p] = "reinit"
  /\ \/ Reaches(p, CmdInit) /\ UNCHANGED cycle
     \/ Fails(p) /\ Miss(p)
  /\ ClearReinit(p)
  /\ Goto(p, "invoke")
  /\ UNCHANGED <<hook, initialized>>

Command(h) ==
  \/ h.cmd = "RECORD_NODE" /\ CmdRecordNode(h.id)
  \/ h.cmd = "CALL_ENTER" /\ \E caller \in NodeId : CmdCallEnter(h.id, caller)
  \/ h.cmd = "CALL_RETURN" /\ CmdCallReturn(h.id)

Invoke(p) ==
  /\ pc[p] = "invoke"
  /\ \/ Reaches(p, Command(hook[p])) /\ UNCHANGED cycle
     \/ Fails(p) /\ Miss(p)
  /\ Goto(p, "running")
  /\ UNCHANGED <<hook, initialized, needs_reinit>>

-----------------------------------------------------------------------------
(* cflat_finalize_and_print.                                               *)

Finalize(p) ==
  /\ pc[p] = "running"
  /\ initialized[p]
  /\ \/ Reaches(p, CmdFinalize) /\ Goto(p, "get_auth")
     \/ Fails(p) /\ UNCHANGED pc
  /\ UNCHANGED <<hook, initialized, needs_reinit, cycle>>

\* The attestation is printed, and the next forward hook is to re-initialize.
PrintAttestation(p) ==
  /\ pc[p] = "get_auth"
  /\ \E size \in BufferSizes : Reaches(p, CmdGetAuth(size))
  /\ Succeeded
  /\ needs_reinit' = [needs_reinit EXCEPT ![p] = TRUE]
  /\ Goto(p, "running")
  /\ cycle' = [cycle EXCEPT ![p].printed = TRUE]
  /\ UNCHANGED <<hook, initialized>>

PrintNothing(p) ==
  /\ pc[p] = "get_auth"
  /\ \/ /\ \E size \in BufferSizes : Reaches(p, CmdGetAuth(size))
        /\ ~Succeeded
     \/ Fails(p)
  /\ Goto(p, "running")
  /\ UNCHANGED <<hook, initialized, needs_reinit, cycle>>

-----------------------------------------------------------------------------

\* The calls of a hook that has begun.
InLibrary(p) ==
  \/ InitializeContext(p) \/ OpenTheSession(p) \/ FirstInit(p)
  \/ Reinit(p) \/ Invoke(p) \/ PrintAttestation(p) \/ PrintNothing(p)

LibNext ==
  \/ \E p \in Proc :
       \/ Launch(p) \/ Leave(p)
       \/ \E h \in Hook : CallHook(p, h)
       \/ Finalize(p)
       \/ InLibrary(p)
  \/ Reap

\* The processor runs a process that is inside the runtime, and the TEE takes
\* a dead application down. Nothing obliges a program to call a hook, to ask
\* for an attestation or to exit.
LibSpec ==
  /\ LibInit
  /\ [][LibNext]_libVars
  /\ \A p \in Proc : WF_libVars(InLibrary(p))
  /\ WF_libVars(Reap)

-----------------------------------------------------------------------------
(* Properties.                                                             *)

\* Whatever other processes do, and whichever of them die between two calls, an
\* attestation that is printed holds the nodes of one cycle of its own
\* process, in order, unless a call that this cycle made has failed.
AttestsOwnCycle ==
  [][\A p \in Proc :
       (PrintAttestation(p) /\ ~cycle[p].missed) => final_auth.final_hash = cycle[p].path]_libVars

\* p runs, and no other process.
Alone(p) == \A q \in Proc : pc[q] = "exited" <=> q # p

\* A session of p that the runtime of p no longer knows of.
LostSession(p) == holder = p /\ ~initialized[p] /\ pc[p] # "init"

\* "Auto-initialize on first use": the hooks of a process that has the TEE for
\* itself do not have to start over for ever, unless an INIT of that process
\* failed after its session was open.
AutoInitializes ==
  \A p \in Proc :
    (<>[]Alone(p) /\ []~LostSession(p)) => <>[](pc[p] # "context")

=============================================================================
