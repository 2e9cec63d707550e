-------------------------- MODULE CflatHostProofs --------------------------
(***************************************************************************)
(* Theorems about CflatHost: the library never loses its session, the size *)
(* it hands out fits, and its application knows what the TA measured.      *)
(***************************************************************************)
EXTENDS CflatHost, CflatTAProofs

\* What the library and the TA know of each other, between two calls.
HostOK ==
  /\ pc \in {"exited", "running", "init", "errx"}
  /\ initialized \in BOOLEAN
  /\ faults \in Nat
  /\ session = IF initialized \/ pc \in {"init", "errx"} THEN "open" ELSE "closed"
  /\ initialized => pc = "running"
  /\ is_initialized = initialized
  /\ hash_op = IF initialized THEN "live" ELSE "null"
  /\ asked # 0 => initialized /\ asked = auth_size

\* The commands of the hooks, which neither end a session nor panic the TA.
HookCommand ==
  \/ \E id \in NodeId : CmdRecordNode(id) \/ CmdCallReturn(id)
  \/ \E site, caller \in NodeId : CmdCallEnter(site, caller)
  \/ \E id \in LoopId : CmdLoopEnter(id) \/ CmdLoopExit(id)
  \/ CmdGetLog

LEMMA HookCommandKeepsSession ==
  ASSUME HostOK, initialized, HookCommand
  PROVE  UNCHANGED <<session, hash_op, is_initialized, authVars>>
  <1>. USE DEF ctxVars, hashVars
  <1>1. ~DigestPanics
    BY DEF HostOK, DigestPanics
  <1>2. ASSUME NEW id \in NodeId, CmdRecordNode(id)
        PROVE  UNCHANGED <<session, hash_op, is_initialized, authVars>>
    BY <1>1, <1>2, Zenon DEF CmdRecordNode
  <1>3. ASSUME NEW site \in NodeId, NEW caller \in NodeId,
               CmdCallEnter(site, caller) \/ CmdCallReturn(site)
        PROVE  UNCHANGED <<session, hash_op, is_initialized, authVars>>
    BY <1>3, Zenon DEF CmdCallEnter, CmdCallReturn
  <1>4. ASSUME NEW id \in LoopId, CmdLoopEnter(id) \/ CmdLoopExit(id)
        PROVE  UNCHANGED <<session, hash_op, is_initialized, authVars>>
    BY <1>1, <1>4, Zenon DEF CmdLoopEnter, CmdLoopExit
  <1>5. CASE CmdGetLog
    BY <1>5, Zenon DEF CmdGetLog
  <1>. QED  BY <1>2, <1>3, <1>4, <1>5, Zenon DEF HookCommand

\* A function of the API that runs a hook's command, as far as HostOK sees it.
HookFunction ==
  \/ \E id \in NodeId : RecordNode(id) \/ CallReturn(id)
  \/ \E site, caller \in NodeId : CallEnter(site, caller)
  \/ \E id \in LoopId : LoopEnter(id)
  \/ LoopExit \/ GetLog

HookRuns ==
  /\ UNCHANGED <<pc, initialized, asked>>
  /\ faults' \in {faults, faults + 1}
  /\ UNCHANGED vars \/ (initialized /\ HookCommand)

Suspended == [id : LoopId, chain : Hash]
KnownTyped == known \in [chain : Hash, nest : Seq(Suspended), attested : Hash]

LEMMA HookFunctionRuns ==
  ASSUME KnownTyped, HookFunction
  PROVE  HookRuns
  <1>. USE DEF HookRuns, Invoke, CountFault, CallFails, HookCommand
  <1>1. ASSUME NEW id \in NodeId, RecordNode(id) PROVE HookRuns
    BY <1>1 DEF RecordNode
  <1>2. ASSUME NEW id \in NodeId, CallReturn(id) PROVE HookRuns
    BY <1>2 DEF CallReturn
  <1>3. ASSUME NEW site \in NodeId, NEW caller \in NodeId, CallEnter(site, caller)
        PROVE  HookRuns
    BY <1>3 DEF CallEnter
  <1>4. ASSUME NEW id \in LoopId, LoopEnter(id) PROVE HookRuns
    BY <1>4 DEF LoopEnter
  <1>5. CASE LoopExit
    <2>1. ASSUME NEW nest \in Seq(Suspended), nest # << >>
          PROVE  nest[Len(nest)].id \in LoopId
      <3>1. Len(nest) \in 1 .. Len(nest)
        BY <2>1, EmptySeq
      <3>2. nest[Len(nest)] \in Suspended
        BY <3>1, ElementOfSeq
      <3>. QED  BY <3>2 DEF Suspended
    <2>. QED  BY <1>5, <2>1 DEF LoopExit, KnownTyped
  <1>6. CASE GetLog
    BY <1>6 DEF GetLog
  <1>. QED  BY <1>1, <1>2, <1>3, <1>4, <1>5, <1>6 DEF HookFunction

\* No function, failure or death separates the library from its session.
LEMMA HostOKStep ==
  ASSUME HostOK, KnownTyped, [HostNext]_hostVars
  PROVE  HostOK'
  <1>. USE DEF HostOK
  <1>1. CASE HookFunction
    BY <1>1, HookFunctionRuns, HookCommandKeepsSession
       DEF HookRuns, vars, ctxVars, hashVars, authVars
  <1>2. CASE Launch
    BY <1>2 DEF Launch, vars, ctxVars, hashVars, authVars
  <1>3. CASE Die
    BY <1>3 DEF Die, Exit, CloseSession, Panic, ZeroContext, vars, ctxVars, hashVars, authVars
  <1>4. CASE OpenForInit
    <2>1. ASSUME OpenSession, CountFault,
                 IF reply'.res = "SUCCESS"
                 THEN pc' = "init" /\ UNCHANGED <<initialized, result, asked, known>>
                 ELSE Exit
          PROVE  HostOK'
      <3>1. ~initialized /\ asked = 0
        BY <2>1 DEF OpenSession
      <3>2. hash_op' = "null" /\ is_initialized' = FALSE
        BY <2>1 DEF OpenSession, ZeroContext
      <3>3. session' = IF reply'.res = "SUCCESS" THEN "open" ELSE "closed"
        BY <2>1 DEF OpenSession, Reply
      <3>4. faults' \in Nat
        BY <2>1 DEF CountFault
      <3>. QED  BY <2>1, <3>1, <3>2, <3>3, <3>4 DEF Exit
    <2>2. ASSUME CallFails, session = "closed", Exit PROVE HostOK'
      <3>1. ~initialized
        BY <2>2
      <3>2. UNCHANGED <<session, hash_op, is_initialized>> /\ faults' \in Nat
        BY <2>2 DEF CallFails, vars, ctxVars, hashVars
      <3>. QED  BY <2>2, <3>1, <3>2 DEF Exit
    <2>3. ASSUME CloseSession, UNCHANGED faults, Exit PROVE HostOK'
      <3>1. session' = "closed" /\ hash_op' = "null" /\ is_initialized' = FALSE
        BY <2>3 DEF CloseSession, ZeroContext
      <3>. QED  BY <2>3, <3>1 DEF Exit
    <2>. QED  BY <1>4, <2>1, <2>2, <2>3 DEF OpenForInit
  <1>5. CASE FirstInit
    <2>1. /\ pc = "init" /\ ~initialized /\ session = "open" /\ hash_op = "null"
          /\ is_initialized = FALSE /\ asked = 0
      BY <1>5 DEF FirstInit
    <2>2. CASE UNCHANGED vars /\ pc' = "errx" /\ faults' = faults + 1
               /\ UNCHANGED <<initialized, asked>>
      BY <2>1, <2>2 DEF vars, ctxVars, hashVars
    <2>3. CASE /\ CmdInit /\ CountFault /\ UNCHANGED asked
               /\ pc' = IF reply'.res = "SUCCESS" THEN "running" ELSE "errx"
               /\ initialized' = (reply'.res = "SUCCESS")
      <3>1. session' = "open" /\ AllocateDigest
        BY <2>1, <2>3 DEF CmdInit
      <3>2. faults' \in Nat
        BY <2>3 DEF CountFault
      <3>3. CASE reply'.res = "SUCCESS"
        <4>1. hash_op' = "live" /\ is_initialized' = TRUE
          BY <3>1, <3>3 DEF AllocateDigest, Reply
        <4>. QED  BY <2>1, <2>3, <3>1, <3>2, <3>3, <4>1
      <3>4. CASE reply'.res # "SUCCESS"
        <4>1. hash_op' = "null" /\ is_initialized' = FALSE
          BY <2>1, <3>1, <3>4 DEF AllocateDigest, Reply, HandleAfterFailure
        <4>. QED  BY <2>1, <2>3, <3>1, <3>2, <3>4, <4>1
      <3>. QED  BY <3>3, <3>4
    <2>. QED  BY <1>5, <2>2, <2>3 DEF FirstInit, CallFails
  <1>6. CASE Cleanup
    <2>1. pc' = "running" /\ initialized' = FALSE /\ asked' = 0 /\ faults' \in Nat
      BY <1>6 DEF Cleanup
    <2>2. session' = "closed" /\ hash_op' = "null" /\ is_initialized' = FALSE
      <3>1. CASE initialized
        BY <1>6, <3>1 DEF Cleanup, CloseForCleanup, CloseSession, ZeroContext
      <3>2. CASE ~initialized
        BY <1>6, <3>2 DEF Cleanup, vars, ctxVars, hashVars
      <3>. QED  BY <3>1, <3>2
    <2>. QED  BY <2>1, <2>2
  <1>7. CASE FinalizeAuth
    BY <1>7 DEF FinalizeAuth, Invoke, CmdFinalize, Reply, ZeroOnSuccess,
                CountFault, CallFails, vars, ctxVars, hashVars, authVars
  <1>8. ASSUME NEW size \in Sizes, GetAuth(size) PROVE HostOK'
    BY <1>8 DEF GetAuth, Invoke, CmdGetAuth, Reply, AuthResult, ZeroOnSuccess,
                SizeToRetry, CountFault, CallFails, vars, ctxVars, hashVars, authVars
  <1>9. CASE UNCHANGED hostVars
    BY <1>9 DEF hostVars, vars, ctxVars, hashVars, authVars
  <1>. QED
    BY <1>1, <1>2, <1>3, <1>4, <1>5, <1>6, <1>7, <1>8, <1>9, Zenon
       DEF HostNext, HookFunction

-----------------------------------------------------------------------------
(* Types.                                                                  *)

LEMMA HostTypeStep ==
  ASSUME TypeOK, KnownTyped, [HostNext]_hostVars
  PROVE  TypeOK'
  <1>1. CASE [Next]_vars
    BY <1>1, StepType
  <1>2. CASE HookFunction
    BY <1>1, <1>2, HookFunctionRuns DEF HookRuns, HookCommand, Next
  <1>3. CASE Launch \/ Die \/ OpenForInit \/ FirstInit \/ Cleanup \/ FinalizeAuth
    BY <1>1, <1>3 DEF Launch, Die, OpenForInit, FirstInit, Cleanup, CloseForCleanup,
                      FinalizeAuth, Invoke, CallFails, Next
  <1>4. ASSUME NEW size \in Sizes, GetAuth(size) PROVE TypeOK'
    <2>1. UNCHANGED vars \/ CmdGetAuth(size)
      BY <1>4 DEF GetAuth, Invoke, CallFails
    <2>2. auth_size \in Nat
      BY DEF TypeOK
    <2>. QED
      BY <1>1, <2>1, <2>2, UnchangedType DEF CmdGetAuth, Commands, Results
  <1>5. CASE UNCHANGED hostVars
    BY <1>1, <1>5 DEF hostVars
  <1>. QED
    BY <1>2, <1>3, <1>4, <1>5, Zenon DEF HostNext, HookFunction

LEMMA KnownTypedStep ==
  ASSUME KnownTyped, [HostNext]_hostVars
  PROVE  KnownTyped'
  <1>. USE DEF KnownTyped
  <1>1. CASE known' = Untold
    BY <1>1 DEF Untold, Hash
  <1>2. CASE UNCHANGED known
    BY <1>2
  <1>3. ASSUME NEW id \in NodeId, RecordNode(id) PROVE KnownTyped'
    <2>1. Append(known.chain, id) \in Hash
      BY AppendProperties DEF Hash
    <2>. QED  BY <1>3, <2>1 DEF RecordNode
  <1>4. ASSUME NEW id \in LoopId, LoopEnter(id) PROVE KnownTyped'
    <2>1. <<id>> \in Hash
      BY DEF Hash
    <2>2. [id |-> id, chain |-> known.chain] \in Suspended
      BY DEF Suspended
    <2>3. Append(known.nest, [id |-> id, chain |-> known.chain]) \in Seq(Suspended)
      BY <2>2, AppendProperties
    <2>. QED  BY <1>4, <2>1, <2>3 DEF LoopEnter
  <1>5. CASE LoopExit
    <2>1. Len(known.nest) \in 1 .. Len(known.nest)
      BY <1>5, EmptySeq DEF LoopExit
    <2>2. known.nest[Len(known.nest)] \in Suspended
      BY <2>1, ElementOfSeq
    <2>3. SubSeq(known.nest, 1, Len(known.nest) - 1) \in Seq(Suspended)
      BY <2>1, SubSeqProperties
    <2>. QED  BY <1>5, <2>2, <2>3 DEF LoopExit, Suspended
  <1>6. CASE FinalizeAuth
    BY <1>6 DEF FinalizeAuth
  <1>7. CASE Launch \/ Die \/ OpenForInit \/ FirstInit \/ Cleanup \/ GetLog
    BY <1>1, <1>2, <1>7 DEF Launch, Die, Exit, OpenForInit, FirstInit, Cleanup, GetLog
  <1>8. ASSUME NEW site \in NodeId, NEW caller \in NodeId,
               CallEnter(site, caller) \/ CallReturn(site)
        PROVE  KnownTyped'
    BY <1>2, <1>8 DEF CallEnter, CallReturn
  <1>9. ASSUME NEW size \in Sizes, GetAuth(size) PROVE KnownTyped'
    BY <1>2, <1>9 DEF GetAuth
  <1>10. CASE UNCHANGED hostVars
    BY <1>2, <1>10 DEF hostVars
  <1>. QED
    BY <1>3, <1>4, <1>5, <1>6, <1>7, <1>8, <1>9, <1>10, Zenon DEF HostNext

-----------------------------------------------------------------------------
(* What the application knows.                                             *)

\* A loop that is active in the TA is one the application believes open, with
\* the chain that the TA restores at its exit; no loop is active twice. The
\* converse fails: FINALIZE closes loops that the application believes open.
LoopsAgree ==
  /\ \A i, j \in DOMAIN known.nest : known.nest[i].id = known.nest[j].id => i = j
  /\ \A s \in ActiveSlots : \E i \in DOMAIN known.nest :
       /\ known.nest[i].id = loops[s].loop_id
       /\ known.nest[i].chain = loops[s].pre_loop_hash
  /\ \A s, t \in ActiveSlots : loops[s].loop_id = loops[t].loop_id => s = t

HashesAgree ==
  /\ current_hash = known.chain
  /\ auth_size # 0 => final_auth.final_hash = known.attested

Agrees == initialized => LoopsAgree /\ HashesAgree

LEMMA AgreesKept ==
  ASSUME Agrees,
         UNCHANGED <<initialized, known, current_hash, loops, loop_count, authVars>>
  PROVE  Agrees'
  BY DEF Agrees, LoopsAgree, HashesAgree, ActiveSlots, authVars

\* The TA takes the loop: a new record is active, and the nest one longer.
LEMMA EnterAgrees ==
  ASSUME TypeOK, KnownTyped, HostOK, Agrees, initialized,
         NEW id \in LoopId, ~IsOpen(id), CmdLoopEnter(id), ~EnterRefused(id),
         known' = [known EXCEPT !.chain = <<id>>,
                                !.nest = Append(@, [id |-> id, chain |-> known.chain])]
  PROVE  LoopsAgree' /\ HashesAgree'
  <1>. DEFINE n == SlotToEnter(id)
              new == [id |-> id, chain |-> known.chain]
  <1>1. ~DigestPanics
    BY DEF HostOK, DigestPanics
  <1>2. n \in 1 .. MaxLoopRecords
    BY SlotToEnterInRange
  <1>3. RecordToEnter(id) \in LoopRecord
    BY RecordToEnterType
  <1>4. RecordToEnter(id).loop_id = id
    BY <1>2, SlotToEnterInRange DEF RecordToEnter, IdleSlotsOf, TypeOK, LoopRecord
  <1>5. loops' = [loops EXCEPT ![n] =
                    [RecordToEnter(id) EXCEPT
                       !.pre_loop_hash = current_hash,
                       !.is_active = TRUE,
                       !.invocation_count = (@ + 1) % CounterMod]]
    BY <1>1 DEF CmdLoopEnter
  <1>6. loops'[n].loop_id = id /\ loops'[n].pre_loop_hash = current_hash
    BY <1>2, <1>3, <1>4, <1>5 DEF TypeOK, LoopRecord
  <1>7. \A s \in 1 .. MaxLoopRecords : s # n => loops'[s] = loops[s]
    BY <1>5 DEF TypeOK
  <1>8. n \notin ActiveSlots /\ ActiveSlots' = ActiveSlots \cup {n}
    BY <1>1, EnterOpensSlot
  <1>9. \A s \in ActiveSlots : s \in 1 .. MaxLoopRecords /\ s # n
    BY <1>8, SlotsInRange DEF TypeOK
  <1>10. known.nest \in Seq(Suspended) /\ new \in Suspended
    BY DEF KnownTyped, Suspended
  <1>11. /\ known'.nest = Append(known.nest, new)
         /\ known'.chain = <<id>> /\ known'.attested = known.attested
    BY DEF KnownTyped
  <1>12. /\ DOMAIN known'.nest = DOMAIN known.nest \cup {Len(known.nest) + 1}
         /\ \A i \in DOMAIN known.nest : known'.nest[i] = known.nest[i]
         /\ known'.nest[Len(known.nest) + 1] = new
    BY <1>10, <1>11, AppendProperties
  <1>13. \A i \in DOMAIN known.nest : known.nest[i].id # id
    BY DEF IsOpen
  <1>14. LoopsAgree'
    <2>1. ASSUME NEW i \in DOMAIN known'.nest, NEW j \in DOMAIN known'.nest,
                 known'.nest[i].id = known'.nest[j].id
          PROVE  i = j
      BY <1>12, <1>13, <2>1 DEF Agrees, LoopsAgree
    <2>2. ASSUME NEW s \in ActiveSlots'
          PROVE  \E i \in DOMAIN known'.nest :
                   /\ known'.nest[i].id = loops'[s].loop_id
                   /\ known'.nest[i].chain = loops'[s].pre_loop_hash
      <3>1. CASE s = n
        BY <1>6, <1>12, <3>1 DEF Agrees, HashesAgree
      <3>2. CASE s \in ActiveSlots
        <4>1. PICK i \in DOMAIN known.nest :
                /\ known.nest[i].id = loops[s].loop_id
                /\ known.nest[i].chain = loops[s].pre_loop_hash
          BY <3>2 DEF Agrees, LoopsAgree
        <4>. QED  BY <1>7, <1>9, <1>12, <3>2, <4>1
      <3>. QED  BY <1>8, <3>1, <3>2
    <2>3. \A s \in ActiveSlots : loops'[s].loop_id = loops[s].loop_id /\ loops[s].loop_id # id
      BY <1>7, <1>9, <1>13 DEF Agrees, LoopsAgree
    <2>4. ASSUME NEW s \in ActiveSlots', NEW t \in ActiveSlots',
                 loops'[s].loop_id = loops'[t].loop_id
          PROVE  s = t
      BY <1>6, <1>8, <2>3, <2>4 DEF Agrees, LoopsAgree
    <2>. QED  BY <2>1, <2>2, <2>4, Zenon DEF LoopsAgree
  <1>15. HashesAgree'
    <2>1. current_hash' = <<id>>
      <3>1. current_hash' = Absorb(ZeroHash, id)
        BY <1>1 DEF CmdLoopEnter
      <3>2. is_initialized
        BY DEF HostOK
      <3>3. Append(<< >>, id) = <<id>>
        OBVIOUS
      <3>. QED  BY <3>1, <3>2, <3>3, Zenon DEF Absorb, ZeroHash
    <2>. QED
      BY <1>1, <1>11, <2>1 DEF CmdLoopEnter, Agrees, HashesAgree, authVars
  <1>. QED  BY <1>14, <1>15

\* The TA leaves the loop that the application entered last: there is no other
\* record of it, and what its record suspended is what the application saved.
LEMMA ExitAgrees ==
  ASSUME TypeOK, KnownTyped, HostOK, Agrees, initialized, known.nest # << >>,
         NEW top, top = known.nest[Len(known.nest)],
         CmdLoopExit(top.id), loop_depth > 0, ActiveSlotsOf(top.id) # {},
         known' = [known EXCEPT !.chain = top.chain,
                                !.nest = SubSeq(@, 1, Len(@) - 1)]
  PROVE  LoopsAgree' /\ HashesAgree'
  <1>. DEFINE n == SlotToExit(top.id)
              last == Len(known.nest)
  <1>1. known.nest \in Seq(Suspended) /\ last \in Nat \ {0} /\ last \in DOMAIN known.nest
    BY EmptySeq, LenProperties DEF KnownTyped
  <1>2. top.id \in LoopId
    <2>1. last \in 1 .. Len(known.nest)
      BY <1>1
    <2>2. top \in Suspended
      BY <1>1, <2>1, ElementOfSeq
    <2>. QED  BY <2>2 DEF Suspended
  <1>3. n \in ActiveSlots /\ loops[n].loop_id = top.id
    BY SlotToExitInSet DEF ActiveSlotsOf
  <1>4. n \in ActiveSlots /\ ActiveSlots' = ActiveSlots \ {n}
    BY <1>2, ExitClosesSlot
  <1>5. /\ loops' = [loops EXCEPT ![n].loop_hash = current_hash, ![n].is_active = FALSE]
        /\ current_hash' = loops[n].pre_loop_hash
        /\ UNCHANGED authVars
    BY ExitEffect, Zenon
  <1>6. \A s \in ActiveSlots \ {n} : loops'[s] = loops[s]
    <2>1. ActiveSlots \subseteq 1 .. MaxLoopRecords
      BY SlotsInRange
    <2>2. loops \in [1 .. MaxLoopRecords -> LoopRecord]
      BY DEF TypeOK
    <2>. QED  BY <1>5, <2>1, <2>2
  <1>7. /\ known'.nest = SubSeq(known.nest, 1, last - 1)
        /\ known'.chain = top.chain /\ known'.attested = known.attested
    BY DEF KnownTyped
  <1>8. /\ DOMAIN known'.nest = DOMAIN known.nest \ {last}
        /\ \A i \in DOMAIN known.nest \ {last} : known'.nest[i] = known.nest[i]
    <2>1. DOMAIN known.nest = 1 .. last
      BY <1>1, LenProperties
    <2>2. /\ Len(known'.nest) = last - 1
          /\ \A i \in 1 .. last - 1 : known'.nest[i] = known.nest[i]
      BY <1>1, <1>7, SubSeqProperties
    <2>3. known'.nest \in Seq(Suspended)
      BY <1>1, <1>7, SubSeqProperties
    <2>4. DOMAIN known'.nest = 1 .. last - 1
      BY <2>2, <2>3, LenProperties
    <2>. QED  BY <1>1, <2>1, <2>2, <2>4
  <1>9. \A s \in ActiveSlots : \E i \in DOMAIN known.nest :
          known.nest[i].id = loops[s].loop_id /\ known.nest[i].chain = loops[s].pre_loop_hash
    BY DEF Agrees, LoopsAgree
  <1>10. \A i \in DOMAIN known.nest : known.nest[i].id = top.id => i = last
    BY <1>1 DEF Agrees, LoopsAgree
  <1>11. LoopsAgree'
    <2>1. ASSUME NEW i \in DOMAIN known'.nest, NEW j \in DOMAIN known'.nest,
                 known'.nest[i].id = known'.nest[j].id
          PROVE  i = j
      BY <1>8, <2>1 DEF Agrees, LoopsAgree
    <2>2. ASSUME NEW s \in ActiveSlots'
          PROVE  \E i \in DOMAIN known'.nest :
                   /\ known'.nest[i].id = loops'[s].loop_id
                   /\ known'.nest[i].chain = loops'[s].pre_loop_hash
      <3>1. s \in ActiveSlots \ {n} /\ loops'[s] = loops[s]
        BY <1>4, <1>6
      <3>2. PICK i \in DOMAIN known.nest :
              known.nest[i].id = loops[s].loop_id /\ known.nest[i].chain = loops[s].pre_loop_hash
        BY <1>9, <3>1
      <3>3. loops[s].loop_id # top.id
        BY <1>3, <3>1 DEF Agrees, LoopsAgree
      <3>4. i # last
        BY <3>2, <3>3
      <3>. QED  BY <1>8, <3>1, <3>2, <3>4
    <2>3. ASSUME NEW s \in ActiveSlots', NEW t \in ActiveSlots',
                 loops'[s].loop_id = loops'[t].loop_id
          PROVE  s = t
      BY <1>4, <1>6, <2>3 DEF Agrees, LoopsAgree
    <2>. QED  BY <2>1, <2>2, <2>3, Zenon DEF LoopsAgree
  <1>12. HashesAgree'
    <2>1. loops[n].pre_loop_hash = top.chain
      BY <1>3, <1>9, <1>10
    <2>. QED  BY <1>5, <1>7, <2>1 DEF Agrees, HashesAgree, authVars
  <1>. QED  BY <1>11, <1>12

LEMMA FinalizeAgrees ==
  ASSUME TypeOK, KnownTyped, Agrees, initialized, CmdFinalize,
         known' = [known EXCEPT !.attested = known.chain]
  PROVE  LoopsAgree' /\ HashesAgree'
  <1>1. ActiveSlots' = {}
    <2>1. \A i \in 1 .. loop_count : loops'[i].is_active = FALSE
      BY SlotsInRange DEF CmdFinalize, ForceClosed, ActiveSlots, TypeOK, LoopRecord
    <2>. QED  BY <2>1 DEF CmdFinalize, ActiveSlots
  <1>2. /\ known'.nest = known.nest /\ known'.chain = known.chain
        /\ known'.attested = known.chain
    BY DEF KnownTyped
  <1>3. final_auth'.final_hash = current_hash /\ current_hash' = current_hash
    BY DEF CmdFinalize, hashVars
  <1>. QED  BY <1>1, <1>2, <1>3 DEF Agrees, LoopsAgree, HashesAgree

LEMMA AgreesStep ==
  ASSUME TypeOK, KnownTyped, HostOK, Agrees, [HostNext]_hostVars
  PROVE  Agrees'
  <1>. USE DEF vars, ctxVars, hashVars, loopVars, authVars
  <1>1. CASE ~initialized'
    BY <1>1 DEF Agrees
  <1>2. CASE UNCHANGED <<vars, initialized, known>>
    BY <1>2, AgreesKept
  <1>3. CASE Launch \/ Die \/ OpenForInit \/ Cleanup
    BY <1>1, <1>2, <1>3 DEF Launch, Die, OpenForInit, Exit, Cleanup, OpenSession, HostOK
  <1>4. CASE FirstInit
    <2>1. CASE UNCHANGED <<initialized>>
      BY <1>1, <1>4, <2>1 DEF FirstInit, HostOK
    <2>2. CASE CmdInit /\ known' = Untold /\ hash_op # "freed"
      <3>1. current_hash' = ZeroHash /\ auth_size' = 0 /\ loop_count' = 0
        BY <2>2 DEF CmdInit, ResetLoops
      <3>2. ActiveSlots' = {}
        BY <3>1, NoActiveSlot
      <3>3. known'.nest = << >> /\ known'.chain = << >>
        BY <2>2 DEF Untold
      <3>. QED  BY <3>1, <3>2, <3>3 DEF Agrees, LoopsAgree, HashesAgree, ZeroHash
    <2>. QED  BY <1>4, <2>1, <2>2 DEF FirstInit, HostOK
  <1>5. ASSUME NEW id \in NodeId, RecordNode(id) PROVE Agrees'
    <2>1. CASE result' # 0
      <3>1. CASE UNCHANGED vars
        BY <1>2, <1>5, <2>1, <3>1 DEF RecordNode, Invoke
      <3>2. CASE ~UNCHANGED vars
        BY <1>5, <2>1, <3>2 DEF RecordNode, Invoke, CmdRecordNode, ZeroOnSuccess, Reply,
                                HostOK, DigestPanics, CallFails
      <3>. QED  BY <3>1, <3>2
    <2>2. CASE result' = 0
      <3>1. initialized /\ CmdRecordNode(id) /\ reply'.res = "SUCCESS"
        BY <1>5, <2>2 DEF RecordNode, Invoke, ZeroOnSuccess
      <3>2. current_hash' = Append(current_hash, id) /\ UNCHANGED <<loopVars, authVars>>
        BY <3>1 DEF CmdRecordNode, Absorb, Reply, Panic
      <3>3. /\ known'.nest = known.nest /\ known'.attested = known.attested
            /\ known'.chain = Append(known.chain, id)
        BY <1>5, <2>2 DEF RecordNode, KnownTyped
      <3>. QED
        BY <3>1, <3>2, <3>3 DEF Agrees, LoopsAgree, HashesAgree, ActiveSlots
    <2>. QED  BY <2>1, <2>2
  <1>6. ASSUME NEW site \in NodeId, NEW caller \in NodeId,
               CallEnter(site, caller) \/ CallReturn(site)
        PROVE  Agrees'
    BY <1>6, AgreesKept DEF CallEnter, CallReturn, Invoke, CmdCallEnter, CmdCallReturn, CallFails
  <1>7. ASSUME NEW id \in LoopId, LoopEnter(id) PROVE Agrees'
    <2>1. CASE result' # 0
      BY <1>7, <2>1, AgreesKept
         DEF LoopEnter, Invoke, CmdLoopEnter, ZeroOnSuccess, Reply, HostOK, DigestPanics, CallFails
    <2>2. CASE result' = 0
      <3>1. initialized /\ CmdLoopEnter(id) /\ reply'.res = "SUCCESS"
        BY <1>7, <2>2 DEF LoopEnter, Invoke, ZeroOnSuccess
      <3>2. ~EnterRefused(id)
        BY <3>1 DEF CmdLoopEnter, Reply, Panic
      <3>. QED  BY <1>7, <2>2, <3>1, <3>2, EnterAgrees DEF LoopEnter, Agrees
    <2>. QED  BY <2>1, <2>2
  <1>8. CASE LoopExit
    <2>. DEFINE top == known.nest[Len(known.nest)]
    <2>1. CASE result' # 0
      <3>1. UNCHANGED known
        BY <1>8, <2>1 DEF LoopExit
      <3>2. \/ CmdLoopExit(top.id) /\ reply'.res # "SUCCESS"
            \/ UNCHANGED vars
        BY <1>8, <2>1 DEF LoopExit, Invoke, ZeroOnSuccess, CallFails
      <3>3. UNCHANGED <<current_hash, loops, loop_count, authVars>>
        BY <3>2 DEF CmdLoopExit, Reply, vars, ctxVars, hashVars, loopVars
      <3>4. UNCHANGED initialized
        BY <1>8 DEF LoopExit, Invoke
      <3>. QED  BY <3>1, <3>3, <3>4, AgreesKept
    <2>2. CASE result' = 0
      <3>1. initialized /\ CmdLoopExit(top.id) /\ reply'.res = "SUCCESS"
        BY <1>8, <2>2 DEF LoopExit, Invoke, ZeroOnSuccess
      <3>2. loop_depth > 0 /\ ActiveSlotsOf(top.id) # {}
        <4>. DEFINE id == top.id
        <4>1. CmdLoopExit(id) /\ reply'.res = "SUCCESS"
          BY <3>1
        <4>. HIDE DEF id
        <4>2. loop_depth > 0 /\ ActiveSlotsOf(id) # {}
          BY <4>1 DEF CmdLoopExit, Reply
        <4>. QED  BY <4>2 DEF id
      <3>3. known.nest # << >>
            /\ known' = [known EXCEPT !.chain = top.chain,
                                      !.nest = SubSeq(@, 1, Len(@) - 1)]
        BY <1>8, <2>2 DEF LoopExit
      <3>. QED  BY <3>1, <3>2, <3>3, ExitAgrees DEF Agrees
    <2>. QED  BY <2>1, <2>2
  <1>9. CASE FinalizeAuth
    <2>1. CASE result' # 0
      BY <1>9, <2>1, AgreesKept
         DEF FinalizeAuth, Invoke, CmdFinalize, ZeroOnSuccess, Reply, CallFails
    <2>2. CASE result' = 0
      BY <1>9, <2>2, FinalizeAgrees DEF FinalizeAuth, Invoke, ZeroOnSuccess, Agrees
    <2>. QED  BY <2>1, <2>2
  <1>10. ASSUME NEW size \in Sizes, GetAuth(size) PROVE Agrees'
    BY <1>10, AgreesKept DEF GetAuth, Invoke, CmdGetAuth, CallFails
  <1>11. CASE GetLog
    BY <1>11, AgreesKept DEF GetLog, Invoke, CmdGetLog, CallFails
  <1>12. CASE UNCHANGED hostVars
    BY <1>2, <1>12 DEF hostVars
  <1>. QED
    BY <1>3, <1>4, <1>5, <1>6, <1>7, <1>8, <1>9, <1>10, <1>11, <1>12, Zenon DEF HostNext

-----------------------------------------------------------------------------
(* Theorems.                                                               *)

HostInv == TypeOK /\ KnownTyped /\ HostOK /\ Agrees

LEMMA HostInvariant == HostSpec => []HostInv
  <1>1. HostInit => HostInv
    <2>. SUFFICES ASSUME HostInit PROVE HostInv
      OBVIOUS
    <2>1. TypeOK
      BY InitType DEF HostInit
    <2>2. KnownTyped
      BY DEF HostInit, KnownTyped, Untold, Hash
    <2>3. HostOK /\ Agrees
      BY DEF HostInit, Init, HostOK, Agrees
    <2>. QED  BY <2>1, <2>2, <2>3 DEF HostInv
  <1>2. HostInv /\ [HostNext]_hostVars => HostInv'
    BY HostTypeStep, KnownTypedStep, HostOKStep, AgreesStep DEF HostInv
  <1>. QED  BY <1>1, <1>2, PTL DEF HostSpec

\* Whichever call fails, in whichever order the functions are called and
\* wherever the process dies: the library has a session exactly when it
\* believes so, and the TA is never driven into a panic.
THEOREM HostTracksSession == HostSpec => []SessionTracked
  <1>1. HostInv => SessionTracked
    BY DEF HostInv, HostOK, SessionTracked
  <1>. QED  BY <1>1, HostInvariant, PTL

\* An application that heeds the results of the API knows the hash chain of
\* the TA and the chain of the attestation, for every nest of loops.
THEOREM HostKnowsMeasurement == HostSpec => []ToldWhatIsMeasured
  <1>1. HostInv => ToldWhatIsMeasured
    BY DEF HostInv, Agrees, HashesAgree, ToldWhatIsMeasured
  <1>. QED  BY <1>1, HostInvariant, PTL

\* The size that comes with a -2 is enough until the next attestation.
THEOREM RetrySucceeds == HostSpec => RetryFits
  <1>. DEFINE A == \A size \in Sizes :
                     (GetAuth(size) /\ 0 < asked /\ asked <= size /\ initialized /\ UNCHANGED faults)
                       => result' = 0
  <1>1. HostInv /\ [HostNext]_hostVars => [A]_hostVars
    <2>. SUFFICES ASSUME HostInv, NEW size \in Sizes, GetAuth(size),
                         0 < asked, asked <= size, initialized, UNCHANGED faults
                  PROVE  result' = 0
      OBVIOUS
    <2>1. asked = auth_size /\ asked # 0 /\ faults \in Nat
      BY DEF HostInv, HostOK
    <2>2. ~CallFails
      BY <2>1 DEF CallFails
    <2>3. CmdGetAuth(size) /\ result' = AuthResult(reply'.res)
      BY <2>2 DEF GetAuth, Invoke
    <2>4. auth_size \in Nat /\ asked \in Nat /\ ~(size < auth_size)
      <3>1. auth_size \in Nat
        BY DEF HostInv, TypeOK
      <3>2. size \in Nat
        BY <2>1, <3>1, LimitsAssumption DEF Sizes
      <3>. QED  BY <2>1, <3>1, <3>2
    <2>5. reply'.res = "SUCCESS"
      BY <2>1, <2>3, <2>4 DEF CmdGetAuth, Reply
    <2>. QED  BY <2>3, <2>5 DEF AuthResult, ZeroOnSuccess
  <1>. QED  BY <1>1, HostInvariant, PTL DEF HostSpec, RetryFits

=============================================================================
