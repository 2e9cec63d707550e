---------------------------- MODULE LoopProgram ----------------------------
(***************************************************************************)
(* The trusted application driven by an attested program: CflatTA composed *)
(* with a single-threaded program whose loops and calls are well nested    *)
(* and that calls the hooks of instrumentation/runtime/libcflat.c at its   *)
(* nodes, loops, calls and returns. Here every invocation reaches the TA;  *)
(* the answers are ignored, as the hooks ignore them (the failures are in  *)
(* module Libcflat).                                                       *)
(*                                                                         *)
(* The program's own nesting is `frames'. The TA never sees it: it has to  *)
(* recover the nesting from loops[], loop_depth and call_stack.            *)
(***************************************************************************)
EXTENDS CflatTA

CONSTANTS
  MaxNest,          \* bound of the model: loops and calls open at a time
  MayRecurse,       \* a loop may be entered again, through a call, while open
  FinalizeInLoops,  \* cflat_finalize_and_print may be called inside a loop
  UnhookedCalls     \* calls the pass gives no call_enter, as indirect calls

ASSUME ProgramAssumption ==
  /\ MaxNest \in Nat
  /\ MayRecurse \in BOOLEAN
  /\ FinalizeInLoops \in BOOLEAN
  /\ UnhookedCalls \in BOOLEAN

VARIABLES
  needs_reinit,   \* the runtime's flag: a finished cycle awaits its re-init
  frames          \* the loops and calls the program has open, outermost first

progVars == <<vars, needs_reinit, frames>>

\* live: the TA accepted the frame and has not been reset since.
\* slot: the record loop_enter took for it, kept for the properties.
Frame ==
  [kind : {"loop"}, id : LoopId, live : BOOLEAN, slot : 0 .. MaxLoopRecords]
  \cup [kind : {"call"}, id : NodeId, live : BOOLEAN, slot : {0}]

LiveLoops == {k \in 1 .. Len(frames) : frames[k].kind = "loop" /\ frames[k].live}
LiveCalls == {k \in 1 .. Len(frames) : frames[k].kind = "call" /\ frames[k].live}
CallFrames == {k \in 1 .. Len(frames) : frames[k].kind = "call"}
IsOpen(id) == \E k \in 1 .. Len(frames) : frames[k].kind = "loop" /\ frames[k].id = id
\* In the function that runs now, not in one of its callers.
IsOpenHere(id) ==
  \E k \in 1 .. Len(frames) :
    /\ frames[k].kind = "loop" /\ frames[k].id = id
    /\ \A j \in k .. Len(frames) : frames[j].kind = "loop"
TopFrame == frames[Len(frames)]
Push(frame) == frames' = Append(frames, frame)
Pop == frames' = SubSeq(frames, 1, Len(frames) - 1)
InLoop == frames # << >> /\ TopFrame.kind = "loop"
InCall == frames # << >> /\ TopFrame.kind = "call"

\* The TA forgets: what is open now is no longer measured.
ForgetFrames == [k \in 1 .. Len(frames) |-> [frames[k] EXCEPT !.live = FALSE]]

-----------------------------------------------------------------------------
(* Measurement cycles.                                                     *)

\* No hook runs between the FINALIZE and the GET_AUTH of one
\* cflat_finalize_and_print.
Running == is_initialized /\ reply.cmd # "FINALIZE"

\* The hooks that run maybe_reinit, and those that do not. A re-init is part
\* of a forward hook: the program does nothing before the hook's own command.
Forward == Running /\ ~needs_reinit
Backward == Running /\ reply.cmd # "INIT"

ProgInit == Init /\ needs_reinit = FALSE /\ frames = << >>

\* ensure_init: the session, then at once the first INIT. One that fails is
\* not repeated: the TA is then busy with the session that was left open.
Start ==
  /\ OpenSession \/ (reply.cmd = "OPEN" /\ CmdInit)
  /\ UNCHANGED <<needs_reinit, frames>>

Reinit ==
  /\ Running
  /\ needs_reinit
  /\ Len(frames) < MaxNest   \* a forward hook follows
  /\ CmdInit
  /\ needs_reinit' = FALSE
  /\ frames' = ForgetFrames

\* FINALIZE force-closes the open loops, and leaves the calls alone.
Finalize ==
  /\ Backward
  /\ FinalizeInLoops \/ ~\E k \in 1 .. Len(frames) : frames[k].kind = "loop"
  /\ CmdFinalize
  /\ frames' = [k \in 1 .. Len(frames) |->
                  [frames[k] EXCEPT !.live = @ /\ frames[k].kind = "call"]]
  /\ UNCHANGED needs_reinit

\* The runtime offers a buffer that every attestation fits, 8192 bytes. When the
\* command fails, needs_reinit stays as it is.
GetAuth ==
  /\ reply.cmd = "FINALIZE"
  /\ \E size \in BufferSizes : CmdGetAuth(size)
  /\ needs_reinit' = (needs_reinit \/ reply'.res = "SUCCESS")
  /\ UNCHANGED frames

-----------------------------------------------------------------------------
(* Hooks.                                                                  *)

RecordNode(n) ==
  /\ Forward
  /\ CmdRecordNode(n)
  /\ UNCHANGED <<needs_reinit, frames>>

EnterLoop(l) ==
  /\ Forward
  /\ Len(frames) < MaxNest
  /\ IF MayRecurse THEN ~IsOpenHere(l) ELSE ~IsOpen(l)
  /\ CmdLoopEnter(l)
  /\ Push([kind |-> "loop", id |-> l, live |-> ~EnterRefused(l),
           slot |-> IF EnterRefused(l) THEN 0 ELSE SlotToEnter(l)])
  /\ UNCHANGED needs_reinit

Iterate ==
  /\ Backward
  /\ InLoop
  /\ CmdLoopIteration(TopFrame.id)
  /\ UNCHANGED <<needs_reinit, frames>>

ExitLoop ==
  /\ Backward
  /\ InLoop
  /\ CmdLoopExit(TopFrame.id)
  /\ Pop
  /\ UNCHANGED needs_reinit

EnterCall(site, caller) ==
  /\ Forward
  /\ Len(frames) < MaxNest
  /\ CmdCallEnter(site, caller)
  /\ Push([kind |-> "call", id |-> site, live |-> Len(call_stack) < MaxCallDepth,
           slot |-> 0])
  /\ UNCHANGED needs_reinit

\* The pass skips indirect calls; the callee's ret is instrumented all the same.
EnterUnhooked(site) ==
  /\ UnhookedCalls
  /\ Backward
  /\ Len(frames) < MaxNest
  /\ Push([kind |-> "call", id |-> site, live |-> FALSE, slot |-> 0])
  /\ UNCHANGED <<vars, needs_reinit>>

\* The identifier is that of the returning block, whatever the call site was.
ReturnFromCall(block) ==
  /\ Backward
  /\ InCall
  /\ CmdCallReturn(block)
  /\ Pop
  /\ UNCHANGED needs_reinit

ProgNext ==
  \/ Start \/ Reinit \/ Finalize \/ GetAuth
  \/ \E n \in NodeId : RecordNode(n) \/ EnterUnhooked(n) \/ ReturnFromCall(n)
  \/ \E l \in LoopId : EnterLoop(l)
  \/ Iterate \/ ExitLoop
  \/ \E site, caller \in NodeId : EnterCall(site, caller)

ProgSpec == ProgInit /\ [][ProgNext]_progVars

-----------------------------------------------------------------------------
(* Properties.                                                             *)

\* The program's stack holds frames, the TA's state is well typed.
ProgTypeOK ==
  /\ TypeOK
  /\ needs_reinit \in BOOLEAN
  /\ frames \in Seq(Frame)
  /\ Len(frames) <= MaxNest

\* loops[] is a table searched by identifier, not a stack, and loop_depth a
\* number beside it. Together they still describe the program's nest: the
\* active records are those of the open loops, one each, and loop_depth counts
\* them, but for FINALIZE, which closes loops and leaves loop_depth to INIT.
RecordsFollowNest ==
  /\ \A k \in LiveLoops : /\ frames[k].slot \in ActiveSlots
                          /\ loops[frames[k].slot].loop_id = frames[k].id
  /\ \A i \in ActiveSlots : \E k \in LiveLoops : frames[k].slot = i
  /\ \A j, k \in LiveLoops : frames[j].slot = frames[k].slot => j = k
  /\ Forward => loop_depth = Cardinality(LiveLoops)

\* "Each unique loop_id gets exactly one record" (docs/OBSERVATIONS.md): proved,
\* and a part of what ImplementsMeasurement says, as a second record would keep
\* counts of its own.
OneRecordPerLoop ==
  \A i, j \in 1 .. loop_count : loops[i].loop_id = loops[j].loop_id => i = j

\* "Restore pre-loop hash": leaving a loop the TA measures resumes the chain
\* that this loop, and no other, suspended; leaving one it had no room for
\* changes no hash and closes no record.
ExitResumesChain ==
  [][ExitLoop =>
       IF TopFrame.live
       THEN /\ current_hash' = loops[TopFrame.slot].pre_loop_hash
            /\ ActiveSlots' = ActiveSlots \ {TopFrame.slot}
       ELSE UNCHANGED <<current_hash, loopVars>>]_progVars

\* "Find the MOST RECENT active loop with this ID": an iteration is counted in
\* the record of the innermost loop the program is in.
IterationCountsInnermost ==
  [][(Iterate /\ TopFrame.live) =>
       loops' = [loops EXCEPT ![TopFrame.slot].iteration_count =
                                (@ + 1) % CounterMod]]_progVars

\* The TA "tracks call_enter/call_return pairs": its call stack holds the open
\* calls it was told of, each with its call site, innermost last.
CallStackFollowsCalls ==
  /\ Len(call_stack) = Cardinality(LiveCalls)
  /\ \A k \in LiveCalls :
       call_stack[Cardinality({j \in LiveCalls : j <= k})].call_site_id = frames[k].id

\* The TA pops whatever is on top: a call it refused at its limit, or one that
\* had no hook, removes the entry of a caller when it returns. Even then no
\* entry outlives its call: the entries are, in order, sites of calls that are
\* open, and none is of a call that has returned.
EntriesAreOpenCalls ==
  \E open \in [1 .. Len(call_stack) -> CallFrames] :
    /\ \A k \in 1 .. Len(call_stack) : call_stack[k].call_site_id = frames[open[k]].id
    /\ \A j, k \in 1 .. Len(call_stack) : j < k => open[j] < open[k]

-----------------------------------------------------------------------------
(* The TA implements Measurement, as long as no loop is open twice.        *)

SlotsOf(id) == {i \in 1 .. loop_count : loops[i].loop_id = id}

\* loop_hash is written when the loop is left: of an active record it is old.
SummaryOf(rec, active) ==
  [entries |-> rec.invocation_count, iterations |-> rec.iteration_count,
   before |-> rec.pre_loop_hash, body |-> IF active THEN << >> ELSE rec.loop_hash]

NotEntered == [entries |-> 0, iterations |-> 0, before |-> << >>, body |-> << >>]

RecordedLoops ==
  [l \in LoopId |->
     IF SlotsOf(l) = {} THEN NotEntered
     ELSE LET rec == loops[Min(SlotsOf(l))] IN SummaryOf(rec, rec.is_active)]

ReportedLoops ==
  [l \in LoopId |->
     LET found == {i \in 1 .. Len(final_auth.records) : final_auth.records[i].loop_id = l}
     IN IF found = {} THEN NotEntered
        ELSE SummaryOf(final_auth.records[Min(found)], FALSE)]

\* The chains that are suspended are kept in pre_loop_hash of loops[].
SuspendedChains ==
  [k \in 1 .. Len(frames) |->
     IF k \in LiveLoops
     THEN [loop |-> frames[k].id, hash |-> loops[frames[k].slot].pre_loop_hash]
     ELSE [loop |-> NoId, hash |-> << >>]]

FetchedReport ==
  IF auth_size = 0
  THEN [hash |-> << >>, loops |-> [l \in LoopId |-> NotEntered]]
  ELSE [hash |-> final_auth.final_hash, loops |-> ReportedLoops]

Abstract ==
  INSTANCE Measurement WITH
    chain <- current_hash, stack <- SuspendedChains,
    summary <- RecordedLoops, report <- FetchedReport

\* Every step of the TA under this program is a step of the measurement that
\* was promised: chains, counters, bodies and the report.
ImplementsMeasurement == Abstract!Spec

=============================================================================
