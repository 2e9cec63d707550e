--------------------------- MODULE LibcflatProofs ---------------------------
(***************************************************************************)
(* Theorems about Libcflat: any number of processes, whose calls fail and  *)
(* that die at any point, are together one client of the TA.               *)
(***************************************************************************)
EXTENDS Libcflat, CflatTAProofs

HooksOK == hook \in [Proc -> Hook \cup {NoHook}]

\* An invocation by a hook is one that the TA offers.
LEMMA CommandIsClientStep ==
  ASSUME NEW h \in Hook \cup {NoHook}, Command(h)
  PROVE  Next
  <1>1. h \in Hook
    BY DEF Command, NoHook
  <1>2. h.id \in NodeId
    BY <1>1 DEF Hook
  <1>. QED  BY <1>2 DEF Command, Next

\* Every call of the runtime runs a command of the TA or leaves the TA alone.
LEMMA LibraryStepIsClientStep ==
  ASSUME HooksOK, NEW p \in Proc, InLibrary(p) \/ Finalize(p)
  PROVE  [Next]_vars
  <1>1. CASE InitializeContext(p)
    BY <1>1 DEF InitializeContext, CallFails
  <1>2. CASE OpenTheSession(p)
    BY <1>2 DEF OpenTheSession, CallFails, Next
  <1>3. CASE FirstInit(p)
    BY <1>3 DEF FirstInit, Reaches, Fails, CallFails, Next
  <1>4. CASE Reinit(p)
    BY <1>4 DEF Reinit, Reaches, Fails, CallFails, Next
  <1>5. CASE Invoke(p)
    <2>1. hook[p] \in Hook \cup {NoHook}
      BY DEF HooksOK
    <2>. QED  BY <1>5, <2>1, CommandIsClientStep DEF Invoke, Reaches, Fails, CallFails
  <1>6. CASE PrintAttestation(p)
    BY <1>6 DEF PrintAttestation, Reaches, Next
  <1>7. CASE PrintNothing(p)
    BY <1>7 DEF PrintNothing, Reaches, Fails, CallFails, Next
  <1>8. CASE Finalize(p)
    BY <1>8 DEF Finalize, Reaches, Fails, CallFails, Next
  <1>. QED
    BY <1>1, <1>2, <1>3, <1>4, <1>5, <1>6, <1>7, <1>8 DEF InLibrary

LEMMA ProcessStepIsClientStep ==
  ASSUME HooksOK, [LibNext]_libVars
  PROVE  [Next]_vars
  <1>1. ASSUME NEW p \in Proc, Launch(p) PROVE [Next]_vars
    BY <1>1 DEF Launch
  <1>2. ASSUME NEW p \in Proc, Leave(p) PROVE [Next]_vars
    BY <1>2 DEF Leave, Release, Next
  <1>3. ASSUME NEW p \in Proc, NEW h \in Hook, CallHook(p, h) PROVE [Next]_vars
    BY <1>3 DEF CallHook
  <1>4. CASE Reap
    BY <1>4 DEF Reap, Next
  <1>5. CASE UNCHANGED libVars
    BY <1>5 DEF libVars
  <1>. QED
    BY <1>1, <1>2, <1>3, <1>4, <1>5, LibraryStepIsClientStep DEF LibNext

LEMMA HooksStep ==
  ASSUME HooksOK, [LibNext]_libVars
  PROVE  HooksOK'
  <1>1. ASSUME NEW p \in Proc, Launch(p) \/ Finalize(p) \/ InLibrary(p) PROVE HooksOK'
    BY <1>1 DEF HooksOK, Launch, Finalize, InLibrary, InitializeContext,
                OpenTheSession, FirstInit, Reinit, Invoke, PrintAttestation,
                PrintNothing
  <1>2. ASSUME NEW p \in Proc, Leave(p) PROVE HooksOK'
    BY <1>2 DEF HooksOK, Leave
  <1>3. ASSUME NEW p \in Proc, NEW h \in Hook, CallHook(p, h) PROVE HooksOK'
    BY <1>3 DEF HooksOK, CallHook
  <1>4. CASE Reap \/ UNCHANGED libVars
    BY <1>4 DEF HooksOK, Reap, procVars, libVars
  <1>. QED
    BY <1>1, <1>2, <1>3, <1>4 DEF LibNext

-----------------------------------------------------------------------------

\* What the TA sees of any number of processes that contend for it, lose calls
\* and die is the behaviour of one client.
THEOREM ProcessesAreClient == LibSpec => Spec
  <1>1. LibInit => Init /\ HooksOK
    BY DEF LibInit, HooksOK
  <1>2. HooksOK /\ [LibNext]_libVars => [Next]_vars /\ HooksOK'
    BY ProcessStepIsClientStep, HooksStep
  <1>. QED  BY <1>1, <1>2, PTL DEF LibSpec, Spec

\* Processes that die between two calls, and inits that fail, leave no digest
\* operation behind in the TEE.
THEOREM ProcessesLeakNoOperation == LibSpec => []NoOperationLeak
  BY ProcessesAreClient, OperationsAccounted

-----------------------------------------------------------------------------
(* AttestsOwnCycle.                                                        *)

Starting == {"context", "open", "init"}
InHook == Starting \cup {"reinit", "invoke"}

ProcsOK ==
  /\ holder \in Proc \cup {NoProc}
  /\ pc \in [Proc -> InHook \cup {"exited", "running", "get_auth"}]
  /\ initialized \in [Proc -> BOOLEAN]
  /\ needs_reinit \in [Proc -> BOOLEAN]
  /\ cycle \in [Proc -> [path : Seq(NodeId), missed : BOOLEAN, printed : BOOLEAN]]
  /\ HooksOK

\* A process with a session is alive, and alone with the TA.
HolderOK ==
  holder # NoProc => session = "open" /\ pc[holder] # "exited"

\* Where a process stands decides what its static variables hold.
StaticsOK(p) ==
  /\ pc[p] \in Starting => ~initialized[p]
  /\ pc[p] \in {"reinit", "invoke", "get_auth"} => initialized[p]
  /\ ~initialized[p] => ~needs_reinit[p]
  /\ pc[p] # "reinit" => needs_reinit[p] = cycle[p].printed
  /\ pc[p] = "reinit" => needs_reinit[p] /\ ~cycle[p].printed

\* The path of p while its hook has yet to add a node to this chain.
PathAfter(p, chain) ==
  IF pc[p] \in InHook /\ hook[p].cmd = "RECORD_NODE" THEN Append(chain, hook[p].id) ELSE chain

\* Before the INIT of a cycle the path is that of the hook alone; after it the
\* chain is the path, and so is the hash that was finalized.
PathOK(p) ==
  ~cycle[p].missed =>
    /\ pc[p] \in Starting \cup {"reinit"} => cycle[p].path = PathAfter(p, << >>)
    /\ ~initialized[p] /\ pc[p] \notin InHook => cycle[p].path = << >>
    /\ holder = p /\ initialized[p] /\ pc[p] # "reinit" =>
         cycle[p].path = PathAfter(p, current_hash)
    /\ holder = p /\ pc[p] = "get_auth" => cycle[p].path = final_auth.final_hash

\* The TA of a process that knows of its session has been initialized.
ReadyFor(p) == holder = p /\ initialized[p] => is_initialized

CycleInv ==
  ProcsOK /\ HolderOK /\ \A p \in Proc : StaticsOK(p) /\ PathOK(p) /\ ReadyFor(p)

\* What the proofs need of the TA's commands.
LEMMA InitEffect ==
  ASSUME CmdInit
  PROVE  \/ /\ session' = "open" /\ current_hash' = << >>
            /\ reply'.res = "SUCCESS" => is_initialized'
            /\ is_initialized => is_initialized'
         \/ session' = "panicked" /\ reply'.res # "SUCCESS"
  <1>1. CASE hash_op # "freed"
    <2>1. session' = session /\ session = "open" /\ current_hash' = << >> /\ AllocateDigest
      BY <1>1 DEF CmdInit, ZeroHash
    <2>. QED  BY <2>1 DEF AllocateDigest, Reply
  <1>2. CASE hash_op = "freed"
    BY <1>2 DEF CmdInit, Panic, Reply
  <1>. QED  BY <1>1, <1>2

LEMMA CommandEffect ==
  ASSUME NEW h, Command(h)
  PROVE  \/ /\ session' = "open"
            /\ UNCHANGED <<is_initialized, final_auth>>
            /\ IF h.cmd = "RECORD_NODE"
               THEN is_initialized => current_hash' = Append(current_hash, h.id)
               ELSE current_hash' = current_hash
         \/ session' = "panicked"
  <1>1. CASE h.cmd = "RECORD_NODE" /\ CmdRecordNode(h.id)
    BY <1>1 DEF CmdRecordNode, Absorb, Panic, authVars, ctxVars, hashVars
  <1>2. CASE h.cmd = "CALL_ENTER" /\ \E caller \in NodeId : CmdCallEnter(h.id, caller)
    BY <1>2 DEF CmdCallEnter, authVars, hashVars
  <1>3. CASE h.cmd = "CALL_RETURN" /\ CmdCallReturn(h.id)
    BY <1>3 DEF CmdCallReturn, authVars, hashVars
  <1>. QED  BY <1>1, <1>2, <1>3 DEF Command

LEMMA FinalizeEffect ==
  ASSUME CmdFinalize
  PROVE  /\ session' = "open"
         /\ final_auth'.final_hash = current_hash
         /\ UNCHANGED <<current_hash, is_initialized>>
  BY DEF CmdFinalize, hashVars

LEMMA GetAuthEffect ==
  ASSUME NEW size, CmdGetAuth(size)
  PROVE  session' = "open" /\ UNCHANGED <<current_hash, is_initialized, final_auth>>
  BY DEF CmdGetAuth, ctxVars, hashVars, authVars

\* A call that does not reach the TA.
LEMMA FailsEffect ==
  ASSUME NEW p, Fails(p)
  PROVE  UNCHANGED <<holder, session, current_hash, is_initialized, final_auth>>
  BY DEF Fails, CallFails, vars, ctxVars, hashVars, authVars

-----------------------------------------------------------------------------
(* A step of one process leaves the others as they were.                   *)

OwnOK(p) == StaticsOK(p) /\ PathOK(p) /\ ReadyFor(p)

OnlyProc(p) ==
  \A q \in Proc \ {p} :
    /\ pc'[q] = pc[q] /\ hook'[q] = hook[q] /\ cycle'[q] = cycle[q]
    /\ initialized'[q] = initialized[q] /\ needs_reinit'[q] = needs_reinit[q]

OnlyHolder(p) ==
  \A q \in Proc \ {p} :
    holder' = q => holder = q /\ UNCHANGED <<current_hash, is_initialized, final_auth>>

LEMMA OthersKept ==
  ASSUME NEW p \in Proc, OnlyProc(p), OnlyHolder(p), NEW q \in Proc \ {p}, OwnOK(q)
  PROVE  OwnOK(q)'
  <1>1. /\ pc'[q] = pc[q] /\ hook'[q] = hook[q] /\ cycle'[q] = cycle[q]
        /\ initialized'[q] = initialized[q] /\ needs_reinit'[q] = needs_reinit[q]
    BY DEF OnlyProc
  <1>2. holder' = q => holder = q /\ UNCHANGED <<current_hash, is_initialized, final_auth>>
    BY DEF OnlyHolder
  <1>3. StaticsOK(q)'
    BY <1>1 DEF OwnOK, StaticsOK
  <1>4. ReadyFor(q)'
    BY <1>1, <1>2 DEF OwnOK, ReadyFor
  <1>5. PathOK(q)'
    BY <1>1, <1>2 DEF OwnOK, PathOK, PathAfter
  <1>. QED  BY <1>3, <1>4, <1>5 DEF OwnOK

\* What a step of p has to establish.
StepOK(p) == ProcsOK' /\ HolderOK' /\ OnlyProc(p) /\ OnlyHolder(p) /\ OwnOK(p)'

LEMMA StepSuffices ==
  ASSUME CycleInv, NEW p \in Proc, StepOK(p)
  PROVE  CycleInv'
  <1>1. \A q \in Proc : OwnOK(q)
    BY DEF CycleInv, OwnOK
  <1>2. \A q \in Proc \ {p} : OwnOK(q)'
    BY <1>1, OthersKept DEF StepOK
  <1>3. \A q \in Proc : OwnOK(q)'
    BY <1>2 DEF StepOK
  <1>. QED  BY <1>3 DEF StepOK, CycleInv, OwnOK

-----------------------------------------------------------------------------
(* The steps of a process.                                                 *)

LEMMA LaunchStep ==
  ASSUME CycleInv, NEW p \in Proc, Launch(p)
  PROVE  StepOK(p)
  <1>1. /\ pc[p] = "exited" /\ pc' = [pc EXCEPT ![p] = "running"]
        /\ UNCHANGED <<holder, session, current_hash, is_initialized, final_auth,
                       hook, initialized, needs_reinit, cycle>>
    BY DEF Launch, Goto, vars, ctxVars, hashVars, authVars
  <1>2. ProcsOK /\ HolderOK /\ StaticsOK(p) /\ PathOK(p) /\ ReadyFor(p)
    BY DEF CycleInv
  <1>3. ProcsOK'
    BY <1>1, <1>2 DEF ProcsOK, HooksOK
  <1>4. HolderOK'
    BY <1>1, <1>2, LibAssumption DEF HolderOK, ProcsOK
  <1>5. OnlyProc(p) /\ OnlyHolder(p)
    BY <1>1, <1>2 DEF OnlyProc, OnlyHolder, ProcsOK
  <1>6. pc'[p] = "running"
    BY <1>1, <1>2 DEF ProcsOK
  <1>7. OwnOK(p)'
    BY <1>1, <1>2, <1>6
       DEF OwnOK, StaticsOK, PathOK, ReadyFor, PathAfter, Starting, InHook
  <1>. QED  BY <1>3, <1>4, <1>5, <1>7 DEF StepOK

LEMMA LeaveStep ==
  ASSUME CycleInv, NEW p \in Proc, Leave(p)
  PROVE  StepOK(p)
  <1>1. /\ pc' = [pc EXCEPT ![p] = "exited"]
        /\ hook' = [hook EXCEPT ![p] = NoHook]
        /\ initialized' = [initialized EXCEPT ![p] = FALSE]
        /\ needs_reinit' = [needs_reinit EXCEPT ![p] = FALSE]
        /\ cycle' = [cycle EXCEPT ![p] = NewCycle]
    BY DEF Leave, Goto
  <1>2. ProcsOK /\ HolderOK
    BY DEF CycleInv
  <1>3. \/ holder = p /\ holder' = NoProc
        \/ holder # p /\ UNCHANGED <<holder, session, current_hash, is_initialized, final_auth>>
    BY DEF Leave, Release, vars, ctxVars, hashVars, authVars
  <1>4. ProcsOK'
    BY <1>1, <1>2, <1>3 DEF ProcsOK, HooksOK, NewCycle
  <1>5. HolderOK'
    BY <1>1, <1>2, <1>3 DEF HolderOK, ProcsOK
  <1>6. OnlyProc(p) /\ OnlyHolder(p)
    BY <1>1, <1>2, <1>3, LibAssumption DEF OnlyProc, OnlyHolder, ProcsOK, HooksOK
  <1>7. /\ pc'[p] = "exited" /\ initialized'[p] = FALSE /\ needs_reinit'[p] = FALSE
        /\ cycle'[p] = NewCycle
    BY <1>1, <1>2 DEF ProcsOK
  <1>8. OwnOK(p)'
    <2>1. cycle'[p].path = << >> /\ cycle'[p].printed = FALSE
      BY <1>7 DEF NewCycle
    <2>2. pc'[p] \notin InHook \cup {"get_auth"}
      BY <1>7 DEF InHook, Starting
    <2>3. PathOK(p)'
      BY <1>7, <2>1, <2>2 DEF PathOK, InHook
    <2>4. StaticsOK(p)' /\ ReadyFor(p)'
      BY <1>7, <2>1 DEF StaticsOK, ReadyFor, Starting
    <2>. QED  BY <2>3, <2>4 DEF OwnOK
  <1>. QED  BY <1>4, <1>5, <1>6, <1>8 DEF StepOK

\* Where a hook begins: its cycle, and its first call.
LEMMA CallHookStep ==
  ASSUME CycleInv, NEW p \in Proc, NEW h \in Hook, CallHook(p, h)
  PROVE  StepOK(p)
  <1>. DEFINE c == CycleAt(p, h)
              label == IF ~initialized[p] THEN "context"
                       ELSE IF needs_reinit[p] /\ Forward(h) THEN "reinit" ELSE "invoke"
  <1>1. /\ pc[p] = "running"
        /\ pc' = [pc EXCEPT ![p] = label]
        /\ hook' = [hook EXCEPT ![p] = h]
        /\ cycle' = [cycle EXCEPT ![p] = c]
        /\ UNCHANGED <<holder, session, current_hash, is_initialized, final_auth,
                       initialized, needs_reinit>>
    BY DEF CallHook, Goto, vars, ctxVars, hashVars, authVars
  <1>2. ProcsOK /\ HolderOK /\ StaticsOK(p) /\ PathOK(p) /\ ReadyFor(p)
    BY DEF CycleInv
  <1>. DEFINE now == IF cycle[p].printed /\ Forward(h) THEN NewCycle ELSE cycle[p]
              CycleRecord == [path : Seq(NodeId), missed : BOOLEAN, printed : BOOLEAN]
  <1>3. now \in CycleRecord
    BY <1>2 DEF ProcsOK, NewCycle
  <1>4. /\ c \in CycleRecord /\ c.missed = now.missed /\ c.printed = now.printed
        /\ c.path = IF h.cmd = "RECORD_NODE" THEN Append(now.path, h.id) ELSE now.path
    <2>. HIDE DEF now
    <2>1. c = IF h.cmd = "RECORD_NODE" THEN [now EXCEPT !.path = Append(@, h.id)] ELSE now
      BY DEF CycleAt, now
    <2>2. h.id \in NodeId
      BY DEF Hook
    <2>3. now.path \in Seq(NodeId) /\ Append(now.path, h.id) \in Seq(NodeId)
      BY <1>3, <2>2, AppendProperties
    <2>. QED  BY <1>3, <2>1, <2>3
  <1>. HIDE DEF c
  <1>5. label \in InHook
    BY DEF InHook, Starting
  <1>6. pc'[p] = label /\ hook'[p] = h /\ cycle'[p] = c
    BY <1>1, <1>2 DEF ProcsOK, HooksOK
  <1>7. ProcsOK'
    <2>. HIDE DEF label, now
    <2>. QED  BY <1>1, <1>2, <1>4, <1>5 DEF ProcsOK, HooksOK
  <1>8. HolderOK'
    BY <1>1, <1>2, LibAssumption DEF HolderOK, ProcsOK
  <1>9. OnlyProc(p) /\ OnlyHolder(p)
    <2>. HIDE DEF label, now
    <2>. QED  BY <1>1, <1>2 DEF OnlyProc, OnlyHolder, ProcsOK, HooksOK
  <1>10. StaticsOK(p)'
    BY <1>1, <1>2, <1>4, <1>6 DEF StaticsOK, Starting, NewCycle, ProcsOK
  <1>11. PathOK(p)'
    <2>1. ~now.missed /\ ~initialized[p] => now.path = << >>
      BY <1>1, <1>2 DEF PathOK, InHook, Starting, NewCycle, StaticsOK
    <2>2. ~now.missed /\ label = "reinit" => now.path = << >>
      BY <1>1, <1>2 DEF NewCycle, StaticsOK
    <2>3. ~now.missed /\ holder = p /\ label = "invoke" => now.path = current_hash
      BY <1>1, <1>2 DEF PathOK, PathAfter, InHook, Starting, StaticsOK, NewCycle
    <2>4. /\ label \in {"context", "reinit", "invoke"}
          /\ label = "context" <=> ~initialized[p]
      OBVIOUS
    <2>5. \/ h.cmd = "RECORD_NODE" /\ c.path = Append(now.path, h.id)
          \/ h.cmd # "RECORD_NODE" /\ c.path = now.path
      BY <1>4
    <2>6. c.missed = now.missed
      BY <1>4
    <2>. HIDE DEF label, now
    <2>7. UNCHANGED <<holder, initialized, current_hash>>
      BY <1>1
    <2>. QED
      BY <1>6, <2>1, <2>2, <2>3, <2>4, <2>5, <2>6, <2>7
         DEF PathOK, PathAfter, InHook, Starting
  <1>12. ReadyFor(p)'
    BY <1>1, <1>2 DEF ReadyFor
  <1>. QED  BY <1>7, <1>8, <1>9, <1>10, <1>11, <1>12 DEF StepOK, OwnOK

\* A step of p inside the runtime: its variables move to these values.
Moves(p, label, i, n, c) ==
  /\ pc' = [pc EXCEPT ![p] = label] /\ hook' = hook
  /\ initialized' = [initialized EXCEPT ![p] = i]
  /\ needs_reinit' = [needs_reinit EXCEPT ![p] = n]
  /\ cycle' = [cycle EXCEPT ![p] = c]

CycleRecord == [path : Seq(NodeId), missed : BOOLEAN, printed : BOOLEAN]
Missed(p) == [cycle[p] EXCEPT !.missed = TRUE]

\* The session of p may begin or end; nobody else's does.
SessionsKept(p) ==
  \/ UNCHANGED <<holder, session, current_hash, is_initialized, final_auth>>
  \/ holder' = p /\ session' = "open" /\ holder \in {p, NoProc}
  \/ holder' = NoProc /\ holder \in {p, NoProc}

LEMMA MoveEffect ==
  ASSUME CycleInv, NEW p \in Proc, pc[p] # "exited",
         NEW label \in InHook \cup {"running", "get_auth"},
         NEW i \in BOOLEAN, NEW n \in BOOLEAN, NEW c \in CycleRecord,
         Moves(p, label, i, n, c), SessionsKept(p)
  PROVE  /\ ProcsOK' /\ HolderOK' /\ OnlyProc(p) /\ OnlyHolder(p)
         /\ pc'[p] = label /\ hook'[p] = hook[p] /\ initialized'[p] = i
         /\ needs_reinit'[p] = n /\ cycle'[p] = c
  <1>1. ProcsOK /\ HolderOK
    BY DEF CycleInv
  <1>2. holder' \in {holder, p, NoProc} /\ label # "exited"
    BY DEF SessionsKept, InHook, Starting
  <1>3. ProcsOK'
    BY <1>1, <1>2 DEF Moves, ProcsOK, HooksOK, CycleRecord
  <1>4. /\ pc'[p] = label /\ hook'[p] = hook[p] /\ initialized'[p] = i
        /\ needs_reinit'[p] = n /\ cycle'[p] = c
    BY <1>1 DEF Moves, ProcsOK
  <1>5. OnlyProc(p)
    BY <1>1 DEF Moves, ProcsOK, OnlyProc
  <1>6. OnlyHolder(p)
    BY LibAssumption DEF SessionsKept, OnlyHolder
  <1>7. HolderOK'
    <2>1. CASE UNCHANGED <<holder, session>>
      <3>1. ASSUME holder # NoProc PROVE holder \in Proc /\ pc'[holder] # "exited"
        BY <1>1, <1>2, <1>4, <1>5, <3>1 DEF HolderOK, ProcsOK, OnlyProc
      <3>. QED  BY <1>1, <2>1, <3>1 DEF HolderOK
    <2>2. CASE holder' = p /\ session' = "open"
      BY <1>2, <1>4, <2>2 DEF HolderOK
    <2>3. CASE holder' = NoProc
      BY <2>3 DEF HolderOK
    <2>. QED  BY <2>1, <2>2, <2>3 DEF SessionsKept
  <1>. QED  BY <1>3, <1>4, <1>5, <1>6, <1>7

\* A command of p: its session stays open, or ends with a panic.
LEMMA ReachesEffect ==
  ASSUME CycleInv, NEW p \in Proc, NEW command, Reaches(p, command)
  PROVE  /\ holder = p /\ session = "open"
         /\ session' = "open" => holder' = p
         /\ session' = "panicked" => holder' = NoProc
         /\ session' \in {"open", "panicked"} => SessionsKept(p)
  BY LibAssumption DEF Reaches, CycleInv, HolderOK, SessionsKept

LEMMA FailsKeepSessions ==
  ASSUME NEW p, Fails(p)
  PROVE  SessionsKept(p)
  BY FailsEffect DEF SessionsKept

\* What the variables of p were.
LEMMA OwnTyped ==
  ASSUME CycleInv, NEW p \in Proc
  PROVE  /\ StaticsOK(p) /\ PathOK(p) /\ ReadyFor(p)
         /\ pc \in [Proc -> InHook \cup {"exited", "running", "get_auth"}]
         /\ initialized \in [Proc -> BOOLEAN] /\ initialized[p] \in BOOLEAN
         /\ needs_reinit \in [Proc -> BOOLEAN] /\ needs_reinit[p] \in BOOLEAN
         /\ cycle \in [Proc -> CycleRecord] /\ cycle[p] \in CycleRecord
         /\ Missed(p) \in CycleRecord /\ Missed(p).missed = TRUE
         /\ Missed(p).printed = cycle[p].printed
         /\ initialized = [initialized EXCEPT ![p] = initialized[p]]
         /\ needs_reinit = [needs_reinit EXCEPT ![p] = needs_reinit[p]]
         /\ cycle = [cycle EXCEPT ![p] = cycle[p]]
  <1>1. /\ pc \in [Proc -> InHook \cup {"exited", "running", "get_auth"}]
        /\ initialized \in [Proc -> BOOLEAN] /\ needs_reinit \in [Proc -> BOOLEAN]
        /\ cycle \in [Proc -> CycleRecord]
    BY DEF CycleInv, ProcsOK, CycleRecord
  <1>2. cycle[p] \in CycleRecord
    BY <1>1
  <1>3. /\ Missed(p) \in CycleRecord /\ Missed(p).missed = TRUE
        /\ Missed(p).printed = cycle[p].printed
    BY <1>2 DEF Missed, CycleRecord
  <1>. QED  BY <1>1, <1>2, <1>3 DEF CycleInv

\* A hook that gives up goes back to the program, and its cycle is incomplete.
LEMMA GivesUp ==
  ASSUME CycleInv, NEW p \in Proc, pc[p] \in InHook \ {"reinit"},
         Moves(p, "running", initialized[p], needs_reinit[p], Missed(p)),
         SessionsKept(p), holder' = p /\ initialized[p] => is_initialized'
  PROVE  StepOK(p)
  <1>1. pc[p] # "exited" /\ "running" \in InHook \cup {"running", "get_auth"}
    BY DEF InHook, Starting
  <1>2. /\ initialized[p] \in BOOLEAN /\ needs_reinit[p] \in BOOLEAN
        /\ Missed(p) \in CycleRecord
    BY OwnTyped
  <1>3. /\ ProcsOK' /\ HolderOK' /\ OnlyProc(p) /\ OnlyHolder(p)
        /\ pc'[p] = "running" /\ initialized'[p] = initialized[p]
        /\ needs_reinit'[p] = needs_reinit[p] /\ cycle'[p] = Missed(p)
    BY <1>1, <1>2, MoveEffect
  <1>4. StaticsOK(p)'
    BY <1>3, OwnTyped DEF StaticsOK, Starting, InHook
  <1>5. PathOK(p)' /\ ReadyFor(p)'
    BY <1>3, OwnTyped DEF PathOK, ReadyFor
  <1>. QED  BY <1>3, <1>4, <1>5 DEF StepOK, OwnOK

\* The moves of a step that leaves some of the variables of p unchanged.
LEMMA KeptMoves ==
  ASSUME CycleInv, NEW p \in Proc, NEW label, Goto(p, label), UNCHANGED hook
  PROVE  /\ UNCHANGED <<initialized, needs_reinit, cycle>>
              => Moves(p, label, initialized[p], needs_reinit[p], cycle[p])
         /\ UNCHANGED <<initialized, needs_reinit>> /\ Miss(p)
              => Moves(p, label, initialized[p], needs_reinit[p], Missed(p))
  <1>1. /\ initialized = [initialized EXCEPT ![p] = initialized[p]]
        /\ needs_reinit = [needs_reinit EXCEPT ![p] = needs_reinit[p]]
        /\ cycle = [cycle EXCEPT ![p] = cycle[p]]
    BY OwnTyped
  <1>2. Miss(p) => cycle' = [cycle EXCEPT ![p] = Missed(p)]
    BY DEF Miss, Missed
  <1>. QED  BY <1>1, <1>2 DEF Moves, Goto

\* A step that only moves p on.
LEMMA GoesOn ==
  ASSUME CycleInv, NEW p \in Proc, pc[p] # "exited",
         NEW label \in InHook \cup {"running", "get_auth"}, Goto(p, label),
         UNCHANGED <<hook, initialized, needs_reinit, cycle>>, SessionsKept(p)
  PROVE  /\ ProcsOK' /\ HolderOK' /\ OnlyProc(p) /\ OnlyHolder(p)
         /\ pc'[p] = label /\ hook'[p] = hook[p] /\ initialized'[p] = initialized[p]
         /\ needs_reinit'[p] = needs_reinit[p] /\ cycle'[p] = cycle[p]
  <1>1. Moves(p, label, initialized[p], needs_reinit[p], cycle[p])
    BY KeptMoves
  <1>2. initialized[p] \in BOOLEAN /\ needs_reinit[p] \in BOOLEAN /\ cycle[p] \in CycleRecord
    BY OwnTyped
  <1>. QED  BY <1>1, <1>2, MoveEffect

\* A hook that goes on to its next call, with the session as it was.
LEMMA InitializeContextStep ==
  ASSUME CycleInv, NEW p \in Proc, InitializeContext(p)
  PROVE  StepOK(p)
  <1>1. pc[p] = "context" /\ ~initialized[p]
    BY OwnTyped DEF InitializeContext, StaticsOK, Starting
  <1>2. UNCHANGED <<holder, session, current_hash, is_initialized, final_auth>>
    BY DEF InitializeContext, CallFails, vars, ctxVars, hashVars, authVars
  <1>3. SessionsKept(p)
    BY <1>2 DEF SessionsKept
  <1>4. CASE Goto(p, "open") /\ UNCHANGED cycle
    <2>1. UNCHANGED <<hook, initialized, needs_reinit, cycle>>
      BY <1>4 DEF InitializeContext
    <2>2. pc[p] # "exited" /\ "open" \in InHook \cup {"running", "get_auth"}
      BY <1>1 DEF InHook, Starting
    <2>3. /\ ProcsOK' /\ HolderOK' /\ OnlyProc(p) /\ OnlyHolder(p)
          /\ pc'[p] = "open" /\ hook'[p] = hook[p] /\ initialized'[p] = initialized[p]
          /\ needs_reinit'[p] = needs_reinit[p] /\ cycle'[p] = cycle[p]
      BY <1>3, <1>4, <2>1, <2>2, GoesOn
    <2>4. StaticsOK(p)' /\ ReadyFor(p)'
      BY <1>1, <2>3, OwnTyped DEF StaticsOK, ReadyFor, Starting
    <2>5. PathOK(p)'
      <3>1. PathAfter(p, << >>)' = PathAfter(p, << >>)
        BY <1>1, <2>3 DEF PathAfter, InHook, Starting
      <3>2. PathOK(p) /\ pc[p] \in Starting
        BY <1>1, OwnTyped DEF Starting
      <3>. QED  BY <1>1, <3>1, <3>2, <2>3 DEF PathOK, Starting, InHook
    <2>. QED  BY <2>3, <2>4, <2>5 DEF StepOK, OwnOK
  <1>5. CASE Goto(p, "running") /\ Miss(p)
    <2>1. Moves(p, "running", initialized[p], needs_reinit[p], Missed(p))
      BY <1>5, KeptMoves DEF InitializeContext
    <2>2. pc[p] \in InHook \ {"reinit"}
      BY <1>1 DEF InHook, Starting
    <2>. QED  BY <1>1, <1>3, <2>1, <2>2, GivesUp
  <1>. QED  BY <1>4, <1>5 DEF InitializeContext

LEMMA OpenTheSessionStep ==
  ASSUME CycleInv, NEW p \in Proc, OpenTheSession(p)
  PROVE  StepOK(p)
  <1>1. pc[p] = "open" /\ ~initialized[p]
    BY OwnTyped DEF OpenTheSession, StaticsOK, Starting
  <1>2. pc[p] \in InHook \ {"reinit"} /\ pc[p] # "exited"
        /\ "init" \in InHook \cup {"running", "get_auth"}
    BY <1>1 DEF InHook, Starting
  <1>3. CASE OpenSession /\ Succeeded
    <2>1. session = "closed" /\ session' = "open"
      BY <1>3 DEF OpenSession, Succeeded, Reply
    <2>2. holder = NoProc
      BY <2>1 DEF CycleInv, HolderOK
    <2>3. holder' = p /\ Goto(p, "init") /\ UNCHANGED <<hook, initialized, needs_reinit, cycle>>
      BY <1>3, <2>1 DEF OpenTheSession, CallFails, Busy, vars
    <2>5. SessionsKept(p)
      BY <2>1, <2>2, <2>3 DEF SessionsKept
    <2>6. /\ ProcsOK' /\ HolderOK' /\ OnlyProc(p) /\ OnlyHolder(p)
          /\ pc'[p] = "init" /\ hook'[p] = hook[p] /\ initialized'[p] = initialized[p]
          /\ needs_reinit'[p] = needs_reinit[p] /\ cycle'[p] = cycle[p]
      BY <1>2, <2>3, <2>5, GoesOn
    <2>7. StaticsOK(p)' /\ ReadyFor(p)'
      BY <1>1, <2>6, OwnTyped DEF StaticsOK, ReadyFor, Starting
    <2>8. PathOK(p)'
      <3>1. PathAfter(p, << >>)' = PathAfter(p, << >>)
        BY <1>1, <2>6 DEF PathAfter, InHook, Starting
      <3>2. PathOK(p) /\ pc[p] \in Starting
        BY <1>1, OwnTyped DEF Starting
      <3>. QED  BY <1>1, <3>1, <3>2, <2>6 DEF PathOK, Starting, InHook
    <2>. QED  BY <2>6, <2>7, <2>8 DEF StepOK, OwnOK
  <1>4. CASE ~(OpenSession /\ Succeeded)
    <2>1. Goto(p, "running") /\ Miss(p) /\ UNCHANGED <<hook, initialized, needs_reinit>>
      BY <1>4 DEF OpenTheSession
    <2>2. SessionsKept(p)
      <3>1. CASE OpenSession /\ UNCHANGED holder
        <4>1. session = "closed"
          BY <3>1 DEF OpenSession
        <4>2. holder = NoProc
          BY <4>1 DEF CycleInv, HolderOK
        <4>. QED  BY <3>1, <4>2 DEF SessionsKept
      <3>2. CASE UNCHANGED <<vars, holder>>
        BY <3>2 DEF SessionsKept, vars, ctxVars, hashVars, authVars
      <3>. QED  BY <1>4, <3>1, <3>2 DEF OpenTheSession, CallFails
    <2>3. Moves(p, "running", initialized[p], needs_reinit[p], Missed(p))
      BY <2>1, KeptMoves
    <2>. QED  BY <1>1, <1>2, <2>2, <2>3, GivesUp
  <1>. QED  BY <1>3, <1>4

LEMMA FirstInitStep ==
  ASSUME CycleInv, NEW p \in Proc, FirstInit(p)
  PROVE  StepOK(p)
  <1>1. pc[p] = "init" /\ ~initialized[p]
    BY OwnTyped DEF FirstInit, StaticsOK, Starting
  <1>2. pc[p] \in InHook \ {"reinit"} /\ pc[p] # "exited"
        /\ "invoke" \in InHook \cup {"running", "get_auth"}
    BY <1>1 DEF InHook, Starting
  <1>3. UNCHANGED <<hook, needs_reinit>>
    BY DEF FirstInit
  <1>4. CASE /\ Reaches(p, CmdInit) /\ Succeeded /\ Goto(p, "invoke") /\ UNCHANGED cycle
             /\ initialized' = [initialized EXCEPT ![p] = TRUE]
    <2>1. session' = "open" /\ current_hash' = << >> /\ is_initialized'
      BY <1>4, InitEffect DEF Reaches, Succeeded
    <2>2. holder' = p /\ SessionsKept(p)
      BY <1>4, <2>1, ReachesEffect
    <2>3. needs_reinit = [needs_reinit EXCEPT ![p] = needs_reinit[p]]
          /\ cycle = [cycle EXCEPT ![p] = cycle[p]]
      BY OwnTyped
    <2>4. Moves(p, "invoke", TRUE, needs_reinit[p], cycle[p])
      BY <1>3, <1>4, <2>3 DEF Moves, Goto
    <2>5. needs_reinit[p] \in BOOLEAN /\ cycle[p] \in CycleRecord
      BY OwnTyped
    <2>6. /\ ProcsOK' /\ HolderOK' /\ OnlyProc(p) /\ OnlyHolder(p)
          /\ pc'[p] = "invoke" /\ hook'[p] = hook[p] /\ initialized'[p] = TRUE
          /\ needs_reinit'[p] = needs_reinit[p] /\ cycle'[p] = cycle[p]
      <3>. DEFINE i == TRUE
      <3>1. Moves(p, "invoke", i, needs_reinit[p], cycle[p]) /\ i \in BOOLEAN
        BY <2>4
      <3>. HIDE DEF i
      <3>2. /\ ProcsOK' /\ HolderOK' /\ OnlyProc(p) /\ OnlyHolder(p)
            /\ pc'[p] = "invoke" /\ hook'[p] = hook[p] /\ initialized'[p] = i
            /\ needs_reinit'[p] = needs_reinit[p] /\ cycle'[p] = cycle[p]
        BY <1>2, <2>2, <2>5, <3>1, MoveEffect
      <3>. QED  BY <3>2 DEF i
    <2>7. StaticsOK(p)' /\ ReadyFor(p)'
      BY <1>1, <2>1, <2>6, OwnTyped DEF StaticsOK, ReadyFor, Starting
    <2>8. PathOK(p)'
      <3>1. PathAfter(p, << >>)' = PathAfter(p, << >>)
        BY <1>1, <2>6 DEF PathAfter, InHook, Starting
      <3>2. ~cycle[p].missed => cycle[p].path = PathAfter(p, << >>)
        BY <1>1, OwnTyped DEF PathOK, Starting
      <3>. QED  BY <2>1, <2>6, <3>1, <3>2 DEF PathOK, PathAfter, Starting, InHook
    <2>. QED  BY <2>6, <2>7, <2>8 DEF StepOK, OwnOK
  <1>5. CASE /\ Reaches(p, CmdInit) \/ Fails(p)
             /\ Goto(p, "running") /\ Miss(p) /\ UNCHANGED initialized
    <2>1. ASSUME Reaches(p, CmdInit) PROVE SessionsKept(p)
      BY <2>1, InitEffect, ReachesEffect DEF Reaches
    <2>2. SessionsKept(p)
      BY <1>5, <2>1, FailsKeepSessions
    <2>3. Moves(p, "running", initialized[p], needs_reinit[p], Missed(p))
      BY <1>3, <1>5, KeptMoves
    <2>. QED  BY <1>1, <1>2, <2>2, <2>3, GivesUp
  <1>. QED  BY <1>4, <1>5 DEF FirstInit

LEMMA ReinitStep ==
  ASSUME CycleInv, NEW p \in Proc, Reinit(p)
  PROVE  StepOK(p)
  <1>1. /\ pc[p] = "reinit" /\ initialized[p] /\ pc[p] # "exited"
        /\ "invoke" \in InHook \cup {"running", "get_auth"}
    BY OwnTyped DEF Reinit, StaticsOK, InHook
  <1>2. cycle[p].printed = FALSE /\ Missed(p).printed = FALSE /\ Missed(p).missed = TRUE
    <2>1. cycle[p].printed \in BOOLEAN
      BY OwnTyped DEF CycleRecord
    <2>. QED  BY <1>1, <2>1, OwnTyped DEF StaticsOK
  <1>3. /\ pc' = [pc EXCEPT ![p] = "invoke"] /\ UNCHANGED <<hook, initialized>>
        /\ needs_reinit' = [needs_reinit EXCEPT ![p] = FALSE]
    BY DEF Reinit, ClearReinit, Goto
  <1>4. initialized = [initialized EXCEPT ![p] = initialized[p]]
    BY OwnTyped
  <1>5. CASE Reaches(p, CmdInit) /\ UNCHANGED cycle
    <2>1. \/ /\ session' = "open" /\ current_hash' = << >>
             /\ is_initialized => is_initialized'
          \/ session' = "panicked"
      BY <1>5, InitEffect DEF Reaches
    <2>2. SessionsKept(p) /\ holder = p /\ session' = "panicked" => holder' = NoProc
      BY <1>5, <2>1, ReachesEffect
    <2>3. SessionsKept(p) /\ holder = p
      BY <1>5, <2>1, ReachesEffect
    <2>4. cycle = [cycle EXCEPT ![p] = cycle[p]]
      BY OwnTyped
    <2>5. Moves(p, "invoke", initialized[p], FALSE, cycle[p])
      BY <1>3, <1>4, <1>5, <2>4 DEF Moves
    <2>6. initialized[p] \in BOOLEAN /\ cycle[p] \in CycleRecord
      BY OwnTyped
    <2>7. /\ ProcsOK' /\ HolderOK' /\ OnlyProc(p) /\ OnlyHolder(p)
          /\ pc'[p] = "invoke" /\ hook'[p] = hook[p] /\ initialized'[p] = initialized[p]
          /\ needs_reinit'[p] = FALSE /\ cycle'[p] = cycle[p]
      BY <1>1, <2>3, <2>5, <2>6, MoveEffect
    <2>8. StaticsOK(p)'
      BY <1>1, <1>2, <2>7 DEF StaticsOK, Starting
    <2>9. ReadyFor(p)'
      BY <1>1, <2>1, <2>2, <2>3, <2>7, OwnTyped, LibAssumption DEF ReadyFor
    <2>10. PathOK(p)'
      <3>1. PathAfter(p, << >>)' = PathAfter(p, << >>)
        BY <1>1, <2>7 DEF PathAfter, InHook
      <3>2. ~cycle[p].missed => cycle[p].path = PathAfter(p, << >>)
        BY <1>1, OwnTyped DEF PathOK
      <3>3. holder' = p => current_hash' = << >>
        BY <2>1, <2>2, <2>3, LibAssumption
      <3>4. PathAfter(p, current_hash)' = PathAfter(p, << >>)' \/ holder' # p
        BY <3>3 DEF PathAfter
      <3>. QED  BY <1>1, <2>7, <3>1, <3>2, <3>4 DEF PathOK, Starting, InHook
    <2>. QED  BY <2>7, <2>8, <2>9, <2>10 DEF StepOK, OwnOK
  <1>6. CASE Fails(p) /\ Miss(p)
    <2>1. SessionsKept(p)
      BY <1>6, FailsKeepSessions
    <2>2. Moves(p, "invoke", initialized[p], FALSE, Missed(p))
      BY <1>3, <1>4, <1>6 DEF Moves, Miss, Missed
    <2>3. initialized[p] \in BOOLEAN /\ Missed(p) \in CycleRecord
      BY OwnTyped
    <2>4. /\ ProcsOK' /\ HolderOK' /\ OnlyProc(p) /\ OnlyHolder(p)
          /\ pc'[p] = "invoke" /\ hook'[p] = hook[p] /\ initialized'[p] = initialized[p]
          /\ needs_reinit'[p] = FALSE /\ cycle'[p] = Missed(p)
      BY <1>1, <2>1, <2>2, <2>3, MoveEffect
    <2>5. StaticsOK(p)' /\ PathOK(p)'
      BY <1>1, <1>2, <2>4 DEF StaticsOK, PathOK, Starting
    <2>6. ReadyFor(p)'
      BY <1>6, <2>4, FailsEffect, OwnTyped DEF ReadyFor
    <2>. QED  BY <2>4, <2>5, <2>6 DEF StepOK, OwnOK
  <1>. QED  BY <1>5, <1>6 DEF Reinit

LEMMA InvokeStep ==
  ASSUME CycleInv, NEW p \in Proc, Invoke(p)
  PROVE  StepOK(p)
  <1>1. /\ pc[p] = "invoke" /\ initialized[p] /\ pc[p] # "exited"
        /\ pc[p] \in InHook \ {"reinit"}
        /\ "running" \in InHook \cup {"running", "get_auth"}
    BY OwnTyped DEF Invoke, StaticsOK, InHook
  <1>2. Goto(p, "running") /\ UNCHANGED <<hook, initialized, needs_reinit>>
    BY DEF Invoke
  <1>3. CASE Reaches(p, Command(hook[p])) /\ UNCHANGED cycle
    <2>1. Command(hook[p]) /\ holder = p
      BY <1>3 DEF Reaches
    <2>2. is_initialized
      BY <1>1, <2>1, OwnTyped DEF ReadyFor
    <2>3. \/ /\ session' = "open"
             /\ UNCHANGED <<is_initialized, final_auth>>
             /\ current_hash' = IF hook[p].cmd = "RECORD_NODE"
                                THEN Append(current_hash, hook[p].id) ELSE current_hash
          \/ session' = "panicked"
      BY <2>1, <2>2, CommandEffect
    <2>4. SessionsKept(p) /\ (session' = "panicked" => holder' = NoProc)
      BY <1>3, <2>3, ReachesEffect
    <2>5. /\ ProcsOK' /\ HolderOK' /\ OnlyProc(p) /\ OnlyHolder(p)
          /\ pc'[p] = "running" /\ hook'[p] = hook[p] /\ initialized'[p] = initialized[p]
          /\ needs_reinit'[p] = needs_reinit[p] /\ cycle'[p] = cycle[p]
      BY <1>1, <1>2, <1>3, <2>4, GoesOn
    <2>6. StaticsOK(p)'
      BY <1>1, <2>5, OwnTyped DEF StaticsOK, Starting
    <2>7. holder' = p => is_initialized' /\ current_hash' = PathAfter(p, current_hash)
      BY <1>1, <2>2, <2>3, <2>4, LibAssumption DEF PathAfter, InHook
    <2>8. ReadyFor(p)'
      BY <2>7 DEF ReadyFor
    <2>9. PathOK(p)'
      <3>1. ~cycle[p].missed => cycle[p].path = PathAfter(p, current_hash)
        BY <1>1, <2>1, OwnTyped DEF PathOK
      <3>2. PathAfter(p, current_hash)' = current_hash'
        BY <2>5 DEF PathAfter, InHook, Starting
      <3>. QED  BY <1>1, <2>5, <2>7, <3>1, <3>2 DEF PathOK, Starting, InHook
    <2>. QED  BY <2>5, <2>6, <2>8, <2>9 DEF StepOK, OwnOK
  <1>4. CASE Fails(p) /\ Miss(p)
    <2>1. SessionsKept(p)
      BY <1>4, FailsKeepSessions
    <2>2. Moves(p, "running", initialized[p], needs_reinit[p], Missed(p))
      BY <1>2, <1>4, KeptMoves
    <2>3. holder' = p /\ initialized[p] => is_initialized'
      BY <1>4, FailsEffect, OwnTyped DEF ReadyFor
    <2>. QED  BY <1>1, <2>1, <2>2, <2>3, GivesUp
  <1>. QED  BY <1>3, <1>4 DEF Invoke

LEMMA FinalizeStep ==
  ASSUME CycleInv, NEW p \in Proc, Finalize(p)
  PROVE  StepOK(p)
  <1>1. /\ pc[p] = "running" /\ initialized[p] /\ pc[p] # "exited"
        /\ UNCHANGED <<hook, initialized, needs_reinit, cycle>>
        /\ {"running", "get_auth"} \subseteq InHook \cup {"running", "get_auth"}
        /\ pc[p] \notin InHook
    BY DEF Finalize, InHook, Starting
  <1>2. CASE Reaches(p, CmdFinalize) /\ Goto(p, "get_auth")
    <2>1. /\ session' = "open" /\ final_auth'.final_hash = current_hash
          /\ UNCHANGED <<current_hash, is_initialized>>
      BY <1>2, FinalizeEffect DEF Reaches
    <2>2. SessionsKept(p) /\ holder = p
      BY <1>2, <2>1, ReachesEffect
    <2>3. /\ ProcsOK' /\ HolderOK' /\ OnlyProc(p) /\ OnlyHolder(p)
          /\ pc'[p] = "get_auth" /\ hook'[p] = hook[p] /\ initialized'[p] = initialized[p]
          /\ needs_reinit'[p] = needs_reinit[p] /\ cycle'[p] = cycle[p]
      BY <1>1, <1>2, <2>2, GoesOn
    <2>4. StaticsOK(p)' /\ ReadyFor(p)'
      BY <1>1, <2>1, <2>2, <2>3, OwnTyped DEF StaticsOK, ReadyFor, Starting
    <2>5. PathOK(p)'
      <3>1. ~cycle[p].missed => cycle[p].path = current_hash
        BY <1>1, <2>2, OwnTyped DEF PathOK, PathAfter
      <3>2. PathAfter(p, current_hash)' = current_hash'
        BY <2>3 DEF PathAfter, InHook, Starting
      <3>. QED  BY <1>1, <2>1, <2>3, <3>1, <3>2 DEF PathOK, Starting, InHook
    <2>. QED  BY <2>3, <2>4, <2>5 DEF StepOK, OwnOK
  <1>3. CASE Fails(p) /\ UNCHANGED pc
    <2>1. UNCHANGED <<holder, session, current_hash, is_initialized, final_auth>>
      BY <1>3, FailsEffect
    <2>2. UNCHANGED <<pc, hook, initialized, needs_reinit, cycle>>
      BY <1>1, <1>3
    <2>3. ProcsOK' /\ HolderOK'
      BY <2>1, <2>2 DEF CycleInv, ProcsOK, HooksOK, HolderOK
    <2>4. OwnOK(p)'
      <3>1. OwnOK(p)
        BY DEF CycleInv, OwnOK
      <3>. QED  BY <2>1, <2>2, <3>1 DEF OwnOK, StaticsOK, PathOK, PathAfter, ReadyFor
    <2>. QED
      BY <2>1, <2>2, <2>3, <2>4 DEF StepOK, OnlyProc, OnlyHolder
  <1>. QED  BY <1>2, <1>3 DEF Finalize

\* An attestation that has been printed makes the next forward hook begin anew.
LEMMA PrintAttestationStep ==
  ASSUME CycleInv, NEW p \in Proc, PrintAttestation(p)
  PROVE  StepOK(p)
  <1>1. /\ pc[p] = "get_auth" /\ initialized[p] /\ pc[p] # "exited"
        /\ "running" \in InHook \cup {"running", "get_auth"}
    BY OwnTyped DEF PrintAttestation, StaticsOK
  <1>2. PICK size \in BufferSizes : Reaches(p, CmdGetAuth(size))
    BY DEF PrintAttestation
  <1>3. session' = "open" /\ UNCHANGED <<current_hash, is_initialized, final_auth>>
    BY <1>2, GetAuthEffect DEF Reaches
  <1>4. SessionsKept(p) /\ holder = p
    BY <1>2, <1>3, ReachesEffect
  <1>. DEFINE c == [cycle[p] EXCEPT !.printed = TRUE]
  <1>5. /\ c \in CycleRecord /\ c.printed = TRUE
        /\ c.path = cycle[p].path /\ c.missed = cycle[p].missed
    <2>1. cycle[p] \in CycleRecord
      BY OwnTyped
    <2>. QED  BY <2>1 DEF CycleRecord
  <1>6. initialized = [initialized EXCEPT ![p] = initialized[p]] /\ initialized[p] \in BOOLEAN
    BY OwnTyped
  <1>7. Moves(p, "running", initialized[p], TRUE, c)
    BY <1>6 DEF PrintAttestation, Goto, Moves
  <1>. HIDE DEF c
  <1>8. /\ ProcsOK' /\ HolderOK' /\ OnlyProc(p) /\ OnlyHolder(p)
        /\ pc'[p] = "running" /\ hook'[p] = hook[p] /\ initialized'[p] = initialized[p]
        /\ needs_reinit'[p] = TRUE /\ cycle'[p] = c
    BY <1>1, <1>4, <1>5, <1>6, <1>7, MoveEffect
  <1>9. StaticsOK(p)' /\ ReadyFor(p)'
    BY <1>1, <1>3, <1>4, <1>5, <1>8, OwnTyped DEF StaticsOK, ReadyFor, Starting
  <1>10. PathOK(p)'
    <2>1. ~cycle[p].missed => cycle[p].path = current_hash
      BY <1>1, <1>4, OwnTyped DEF PathOK, PathAfter, InHook, Starting
    <2>2. PathAfter(p, current_hash)' = current_hash'
      BY <1>8 DEF PathAfter, InHook, Starting
    <2>. QED  BY <1>1, <1>3, <1>5, <1>8, <2>1, <2>2 DEF PathOK, Starting, InHook
  <1>. QED  BY <1>8, <1>9, <1>10 DEF StepOK, OwnOK

LEMMA PrintNothingStep ==
  ASSUME CycleInv, NEW p \in Proc, PrintNothing(p)
  PROVE  StepOK(p)
  <1>1. /\ pc[p] = "get_auth" /\ initialized[p] /\ pc[p] # "exited"
        /\ "running" \in InHook \cup {"running", "get_auth"}
    BY OwnTyped DEF PrintNothing, StaticsOK
  <1>2. Goto(p, "running") /\ UNCHANGED <<hook, initialized, needs_reinit, cycle>>
    BY DEF PrintNothing
  <1>3. SessionsKept(p) /\ UNCHANGED <<holder, current_hash, is_initialized, final_auth>>
    <2>1. CASE \E size \in BufferSizes : Reaches(p, CmdGetAuth(size))
      <3>1. PICK size \in BufferSizes : Reaches(p, CmdGetAuth(size))
        BY <2>1
      <3>2. session' = "open" /\ UNCHANGED <<current_hash, is_initialized, final_auth>>
        BY <3>1, GetAuthEffect DEF Reaches
      <3>. QED  BY <3>1, <3>2, ReachesEffect
    <2>2. CASE Fails(p)
      BY <2>2, FailsEffect, FailsKeepSessions
    <2>. QED  BY <2>1, <2>2 DEF PrintNothing
  <1>4. /\ ProcsOK' /\ HolderOK' /\ OnlyProc(p) /\ OnlyHolder(p)
        /\ pc'[p] = "running" /\ hook'[p] = hook[p] /\ initialized'[p] = initialized[p]
        /\ needs_reinit'[p] = needs_reinit[p] /\ cycle'[p] = cycle[p]
    BY <1>1, <1>2, <1>3, GoesOn
  <1>5. StaticsOK(p)' /\ ReadyFor(p)'
    BY <1>1, <1>3, <1>4, OwnTyped DEF StaticsOK, ReadyFor, Starting
  <1>6. PathOK(p)'
    <2>1. holder = p /\ ~cycle[p].missed => cycle[p].path = current_hash
      BY <1>1, OwnTyped DEF PathOK, PathAfter, InHook, Starting
    <2>2. PathAfter(p, current_hash)' = current_hash'
      BY <1>4 DEF PathAfter, InHook, Starting
    <2>. QED  BY <1>1, <1>3, <1>4, <2>1, <2>2 DEF PathOK, Starting, InHook
  <1>. QED  BY <1>4, <1>5, <1>6 DEF StepOK, OwnOK

LEMMA CycleInit == LibInit => CycleInv
  <1>. SUFFICES ASSUME LibInit PROVE CycleInv
    OBVIOUS
  <1>1. ProcsOK /\ HolderOK
    BY DEF LibInit, ProcsOK, HooksOK, HolderOK, NewCycle
  <1>2. ASSUME NEW p \in Proc PROVE StaticsOK(p) /\ PathOK(p) /\ ReadyFor(p)
    <2>1. /\ pc[p] = "exited" /\ initialized[p] = FALSE /\ needs_reinit[p] = FALSE
          /\ cycle[p] = NewCycle
      BY DEF LibInit
    <2>2. cycle[p].path = << >> /\ cycle[p].printed = FALSE
      BY <2>1 DEF NewCycle
    <2>. QED  BY <2>1, <2>2 DEF StaticsOK, PathOK, ReadyFor, Starting, InHook
  <1>. QED  BY <1>1, <1>2 DEF CycleInv

LEMMA CycleStep ==
  ASSUME CycleInv, [LibNext]_libVars
  PROVE  CycleInv'
  <1>1. ASSUME NEW p \in Proc, Launch(p) \/ Leave(p) \/ Finalize(p) PROVE CycleInv'
    BY <1>1, LaunchStep, LeaveStep, FinalizeStep, StepSuffices
  <1>2. ASSUME NEW p \in Proc, NEW h \in Hook, CallHook(p, h) PROVE CycleInv'
    BY <1>2, CallHookStep, StepSuffices
  <1>3. ASSUME NEW p \in Proc, InLibrary(p) PROVE CycleInv'
    <2>1. CASE InitializeContext(p) \/ OpenTheSession(p) \/ FirstInit(p)
      BY <2>1, InitializeContextStep, OpenTheSessionStep, FirstInitStep, StepSuffices
    <2>2. CASE Reinit(p) \/ Invoke(p)
      BY <2>2, ReinitStep, InvokeStep, StepSuffices
    <2>3. CASE PrintAttestation(p) \/ PrintNothing(p)
      BY <2>3, PrintAttestationStep, PrintNothingStep, StepSuffices
    <2>. QED  BY <1>3, <2>1, <2>2, <2>3 DEF InLibrary
  <1>4. CASE Reap \/ UNCHANGED libVars
    <2>1. \/ UNCHANGED session
          \/ session = "panicked"
      BY <1>4 DEF Reap, ClosePanicked, libVars, vars
    <2>2. UNCHANGED <<holder, pc, hook, initialized, needs_reinit, cycle, current_hash,
                      is_initialized, final_auth>>
      BY <1>4 DEF Reap, ClosePanicked, libVars, procVars, vars, ctxVars, hashVars, authVars
    <2>3. ProcsOK' /\ HolderOK'
      BY <2>1, <2>2 DEF CycleInv, ProcsOK, HooksOK, HolderOK
    <2>4. ASSUME NEW p \in Proc PROVE StaticsOK(p)' /\ PathOK(p)' /\ ReadyFor(p)'
      <3>1. StaticsOK(p) /\ PathOK(p) /\ ReadyFor(p)
        BY DEF CycleInv
      <3>. QED  BY <2>2, <3>1 DEF StaticsOK, PathOK, PathAfter, ReadyFor
    <2>. QED  BY <2>3, <2>4 DEF CycleInv
  <1>. QED  BY <1>1, <1>2, <1>3, <1>4 DEF LibNext

\* Whatever other processes do, and whichever of them die between two calls, an
\* attestation that a process prints (cflat_finalize_and_print) holds the nodes
\* of one cycle of its own, in order, unless a call of that cycle has failed.
THEOREM AttestationsAreOwn == LibSpec => AttestsOwnCycle
  <1>1. ASSUME CycleInv, NEW p \in Proc, PrintAttestation(p), ~cycle[p].missed
        PROVE  final_auth.final_hash = cycle[p].path
    <2>1. pc[p] = "get_auth" /\ holder = p
      BY <1>1 DEF PrintAttestation, Reaches
    <2>. QED  BY <1>1, <2>1, OwnTyped DEF PathOK
  <1>2. CycleInv => \A p \in Proc :
          PrintAttestation(p) /\ ~cycle[p].missed => final_auth.final_hash = cycle[p].path
    BY <1>1
  <1>3. CycleInv /\ [LibNext]_libVars => CycleInv'
    BY CycleStep
  <1>. QED  BY <1>2, <1>3, CycleInit, PTL DEF LibSpec, AttestsOwnCycle

=============================================================================
