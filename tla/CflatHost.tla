----------------------------- MODULE CflatHost -----------------------------
(***************************************************************************)
(* The host API, secure-world/host/cflat_host.c, composed with CflatTA: an *)
(* application that is instrumented by hand calls cflat_init, the hooks    *)
(* and cflat_get_auth, and unlike the hooks of libcflat.c every function   *)
(* tells it whether the TA took the call.                                  *)
(*                                                                         *)
(* The application calls any function at any time; what it knows of the    *)
(* measurement is what it was told. Functions are named after their C      *)
(* names: RecordNode is cflat_record_node.                                 *)
(***************************************************************************)
EXTENDS CflatTA

CONSTANTS
  CallsMayFail,   \* a call may return an error before it reaches the TA
  MaxFaults       \* bound of the model: failed calls and failed allocations

ASSUME HostAssumption == CallsMayFail \in BOOLEAN /\ MaxFaults \in Nat

VARIABLES
  pc,           \* "exited", "running", "init": inside cflat_init, or "errx": about to exit
  initialized,  \* static variable of the library
  result,       \* what the last function returned: 0, -1 or -2
  asked,        \* the *size that came with the last -2, 0 when out of date
  known,        \* the measurement as the application was told of it
  faults

hostVars == <<vars, pc, initialized, result, asked, known, faults>>

\* chain: what the open chain absorbed. nest: the loops that were entered and
\* not left, each with the chain it suspended. attested: the chain at the last
\* cflat_finalize that returned 0.
Untold == [chain |-> << >>, nest |-> << >>, attested |-> << >>]

HostInit ==
  /\ Init
  /\ pc = "exited"
  /\ initialized = FALSE
  /\ result = 0
  /\ asked = 0
  /\ known = Untold
  /\ faults = 0

-----------------------------------------------------------------------------
(* Start and end.                                                          *)

Launch ==
  /\ pc = "exited"
  /\ pc' = "running"
  /\ UNCHANGED <<vars, initialized, result, asked, known, faults>>

CountFault ==
  /\ faults' = IF reply'.res = "OUT_OF_MEMORY" THEN faults + 1 ELSE faults
  /\ faults' <= MaxFaults

CallFails ==
  /\ CallsMayFail
  /\ faults < MaxFaults
  /\ faults' = faults + 1
  /\ UNCHANGED vars

\* The process is gone, and the TEE driver closes the session it leaves.
Exit ==
  /\ pc' = "exited"
  /\ initialized' = FALSE
  /\ known' = Untold
  /\ asked' = 0
  /\ UNCHANGED result

Die ==
  /\ pc # "exited"
  /\ Exit
  /\ IF session = "open" THEN CloseSession ELSE UNCHANGED vars
  /\ UNCHANGED faults

\* Every failure of cflat_init ends the program: errx. A second cflat_init
\* without cflat_cleanup meets the session of the first one, and fails.
OpenForInit ==
  /\ pc = "running"
  /\ \/ /\ OpenSession
        /\ CountFault
        /\ IF reply'.res = "SUCCESS"
           THEN pc' = "init" /\ UNCHANGED <<initialized, result, asked, known>>
           ELSE Exit
     \/ CallFails /\ session = "closed" /\ Exit
     \/ CloseSession /\ UNCHANGED faults /\ Exit

FirstInit ==
  /\ pc = "init"
  /\ \/ /\ CmdInit
        /\ CountFault
        /\ pc' = IF reply'.res = "SUCCESS" THEN "running" ELSE "errx"
        /\ initialized' = (reply'.res = "SUCCESS")
        /\ result' = 0
        /\ known' = Untold
        /\ UNCHANGED asked
     \/ /\ CallFails
        /\ pc' = "errx"
        /\ UNCHANGED <<initialized, result, asked, known>>

CleanupForgets == UNCHANGED vars   \* mutant: TEEC_CloseSession is missing
CloseForCleanup == CloseSession

Cleanup ==
  /\ pc = "running"
  /\ IF initialized THEN CloseForCleanup ELSE UNCHANGED vars
  /\ initialized' = FALSE
  /\ known' = Untold
  /\ asked' = 0
  /\ UNCHANGED <<pc, result, faults>>

-----------------------------------------------------------------------------
(* Functions that invoke a command.                                        *)

AlwaysZero(res) == 0   \* mutant: the result of the TA is dropped
ZeroOnSuccess(res) == IF res = "SUCCESS" THEN 0 ELSE -1
AuthResult(res) == IF res = "SHORT_BUFFER" THEN -2 ELSE ZeroOnSuccess(res)

\* Without cflat_init nothing is called. A call that fails returns -1 like one
\* that the TA refuses.
Invoke(command, Result(_)) ==
  /\ pc = "running"
  /\ \/ /\ initialized
        /\ command
        /\ CountFault
        /\ result' = Result(reply'.res)
     \/ ~initialized /\ result' = -1 /\ UNCHANGED <<vars, faults>>
     \/ initialized /\ CallFails /\ result' = -1
  /\ UNCHANGED <<pc, initialized>>

RecordNode(id) ==
  /\ Invoke(CmdRecordNode(id), ZeroOnSuccess)
  /\ known' = IF result' = 0 THEN [known EXCEPT !.chain = Append(@, id)] ELSE known
  /\ UNCHANGED asked

IsOpen(id) == \E i \in DOMAIN known.nest : known.nest[i].id = id

\* The application enters a loop that it is not in, and leaves the last one
\* that it was told it entered.
LoopEnter(id) ==
  /\ ~IsOpen(id)
  /\ Invoke(CmdLoopEnter(id), ZeroOnSuccess)
  /\ known' = IF result' # 0 THEN known
              ELSE [known EXCEPT !.chain = <<id>>,
                                 !.nest = Append(@, [id |-> id, chain |-> known.chain])]
  /\ UNCHANGED asked

LoopExit ==
  /\ known.nest # << >>
  /\ LET top == known.nest[Len(known.nest)] IN
       /\ Invoke(CmdLoopExit(top.id), ZeroOnSuccess)
       /\ known' = IF result' # 0 THEN known
                   ELSE [known EXCEPT !.chain = top.chain,
                                      !.nest = SubSeq(@, 1, Len(@) - 1)]
  /\ UNCHANGED asked

CallEnter(site, caller) ==
  Invoke(CmdCallEnter(site, caller), ZeroOnSuccess) /\ UNCHANGED <<known, asked>>

CallReturn(site) ==
  Invoke(CmdCallReturn(site), ZeroOnSuccess) /\ UNCHANGED <<known, asked>>

\* Another attestation may need another size.
FinalizeAuth ==
  /\ Invoke(CmdFinalize, ZeroOnSuccess)
  /\ known' = IF result' = 0 THEN [known EXCEPT !.attested = known.chain] ELSE known
  /\ asked' = IF result' = 0 THEN 0 ELSE asked

OfferedSize(size) == size   \* mutant: *size is left as the caller set it
SizeToRetry(size) == reply'.size

GetAuth(size) ==
  /\ Invoke(CmdGetAuth(size), AuthResult)
  /\ asked' = IF result' = -2 THEN SizeToRetry(size) ELSE asked
  /\ UNCHANGED known

GetLog == Invoke(CmdGetLog, ZeroOnSuccess) /\ UNCHANGED <<known, asked>>

Sizes == IF asked = 0 THEN BufferSizes ELSE BufferSizes \cup {asked}

HostNext ==
  \/ Launch \/ Die \/ OpenForInit \/ FirstInit \/ Cleanup
  \/ \E id \in NodeId : RecordNode(id) \/ CallReturn(id)
  \/ \E site, caller \in NodeId : CallEnter(site, caller)
  \/ \E id \in LoopId : LoopEnter(id)
  \/ LoopExit \/ FinalizeAuth \/ GetLog
  \/ \E size \in Sizes : GetAuth(size)

HostSpec == HostInit /\ [][HostNext]_hostVars

-----------------------------------------------------------------------------
(* Properties.                                                             *)

\* The library believes in a session exactly when the application has one that
\* is alive: whatever fails in cflat_init, and in whichever order init, cleanup
\* and the other functions are called, the single session of the TA is never
\* left to nobody, and no call panics the TA.
SessionTracked ==
  /\ initialized => session = "open"
  /\ session # "closed" => initialized \/ pc \in {"init", "errx"}

\* The hooks of the host API return what the TA answered. An application that
\* takes this into account, calls that failed and loops that the TA refused
\* included, knows the hash chain, and knows of which chain an attestation is.
ToldWhatIsMeasured ==
  initialized =>
    /\ current_hash = known.chain
    /\ auth_size # 0 => final_auth.final_hash = known.attested

\* cflat_get_auth returns -2 and the size it needs. As long as no other
\* attestation is finalized, calling it again with that size succeeds.
RetryFits ==
  [][\A size \in Sizes :
       (GetAuth(size) /\ 0 < asked /\ asked <= size /\ initialized /\ UNCHANGED faults)
         => result' = 0]_hostVars

=============================================================================
