---------------------------- MODULE ExecveProofs ----------------------------
(***************************************************************************)
(* Theorems about Execve, for any number of threads, files and formats,    *)
(* any chain of interpreters, and as many signals, clones, tracers and     *)
(* modules that come and go as the rest of the kernel likes.               *)
(***************************************************************************)
EXTENDS Execve, FiniteSetTheorems, SequenceTheorems, TLAPS

-----------------------------------------------------------------------------
(* The inductive invariant.                                                *)

WaitPcs == {"wait_for_threads", "schedule", "wait_for_leader", "schedule_leader"}
NewPcs == {"commit_creds", "install_execfd", "setup_new_exec", "start_thread"}
AlonePcs == NewPcs \cup {"unshare_files", "exec_mmap"}
CheckedPcs == {"do_open_execat", "search_binary_handler", "load_binary", "exec_binprm",
               "begin_new_exec", "de_thread", "unshare_files", "exec_mmap", "commit_creds"}
                \cup WaitPcs
CredPcs == CheckedPcs \cup {"check_unsafe_exec"}
OutPcs == {"out", "out_unmark", "free_bprm"}
StartPcs == {"user", "prepare_bprm_creds"}
EarlyPcs == StartPcs \cup {"check_unsafe_exec", "do_open_execat"}
Pcs == CredPcs \cup NewPcs \cup OutPcs \cup StartPcs

Bprm == [cred : BOOLEAN, file : File \cup {NoFile}, interpreter : File \cup {NoFile},
         executable : File \cup {NoFile}, have_execfd : BOOLEAN,
         point_of_no_return : BOOLEAN, unsafe : SUBSET {"PTRACE", "SHARE"},
         fmt : Format \cup {NoFormat}, retried : BOOLEAN, depth : Nat, failed : BOOLEAN]

TypesOK ==
  /\ pc \in [Thread -> Pcs] /\ bprm \in [Thread -> Bprm]
  /\ mm \in [Thread -> {"old", "new"}]
  /\ killed \in [Thread -> BOOLEAN]
  /\ exit_state \in [Thread -> {"alive", "zombie", "dead"}] /\ leader \in Thread
  /\ group_exit_task \in Thread \cup {NoThread} /\ notify_count \in Int
  /\ ptraced \in [Thread -> BOOLEAN]
  /\ refs \in [File -> Int] /\ denied \in [File -> Int]
  /\ formats \in Seq(Format) /\ module \in [Format -> {"live", "going", "unloaded"}]
  /\ module_refs \in [Format -> Int]

Alive(u) == exit_state[u] = "alive"
Alone(t) == leader = t /\ \A u \in Thread \ {t} : exit_state[u] = "dead"

\* Who has exited is in no function of execve; only a leader is a zombie, and
\* it is dead only when all threads are.
LifeOK ==
  /\ \A u \in Thread :
       /\ exit_state[u] # "alive" => pc[u] = "user"
       /\ exit_state[u] = "zombie" => u = leader
  /\ exit_state[leader] = "dead" => \A u \in Thread : exit_state[u] = "dead"

\* The mutex belongs to the one thread that is between its two ends.
CredOK ==
  \A t \in Thread :
    /\ pc[t] \in CredPcs => bprm[t].cred
    /\ pc[t] \in StartPcs \cup {"install_execfd", "setup_new_exec", "start_thread"} => ~bprm[t].cred
    /\ bprm[t].cred \/ pc[t] \in {"install_execfd", "setup_new_exec"} => cred_guard = t

\* A thread with a fatal signal is one of a group that exits, or is waited for.
KillOK ==
  /\ group_exit => \A u \in Thread : Alive(u) => killed[u]
  /\ \A u \in Thread : Alive(u) /\ killed[u] => group_exit \/ group_exit_task \notin {NoThread, u}

\* de_thread: the thread that waits has killed all others, and knows how many
\* it still waits for.
Waits(t) ==
  /\ \A u \in Thread \ {t} : Alive(u) => killed[u]
  /\ pc[t] \in {"wait_for_threads", "schedule"} =>
       notify_count = Cardinality(Others(t) \ {leader})
  /\ pc[t] \in {"wait_for_leader", "schedule_leader"} =>
       notify_count <= 0 /\ Others(t) \subseteq {leader} /\ leader # t

WaitOK ==
  \A t \in Thread :
    /\ pc[t] \in WaitPcs <=> group_exit_task = t
    /\ pc[t] \in WaitPcs => Waits(t)

\* After de_thread; and which errors are fatal.
Fate(t) ==
  /\ pc[t] \in AlonePcs => Alone(t)
  /\ pc[t] \in AlonePcs \cup WaitPcs \cup {"de_thread"} => bprm[t].point_of_no_return
  /\ pc[t] \in NewPcs => mm[t] = "new"
  /\ Running(t) => mm[t] = "old"
  /\ pc[t] \in {"prepare_bprm_creds"} \cup (CredPcs \ {"commit_creds"}) => mm[t] = "old"
  /\ pc[t] # "user" /\ mm[t] = "new" => Alone(t) /\ bprm[t].point_of_no_return
  /\ pc[t] \in {"out_unmark", "free_bprm"} /\ bprm[t].failed /\ mm[t] = "new" => killed[t]
  /\ pc[t] \notin OutPcs => ~bprm[t].failed
  /\ pc[t] = "out" => bprm[t].failed /\ (bprm[t].cred \/ mm[t] = "new")
  /\ pc[t] = "out_unmark" => bprm[t].cred \/ mm[t] = "new"

AloneOK == \A t \in Thread : Fate(t)

\* When execve has killed threads whoever is left dies or starts the new program.
Committed(t) ==
  \/ pc[t] \in WaitPcs \cup AlonePcs
  \/ pc[t] = "out" /\ bprm[t].point_of_no_return
  \/ pc[t] \in {"out_unmark", "free_bprm"} /\ ~bprm[t].failed

LostOK == lost => \A t \in Thread : Alive(t) /\ ~killed[t] => Committed(t)

\* Who has lost the credentials, and with them the mutex, dies.
GuardOK ==
  \A t \in Thread : cred_guard = t =>
    \/ bprm[t].cred \/ pc[t] \in {"install_execfd", "setup_new_exec"}
    \/ pc[t] = "out" /\ bprm[t].point_of_no_return
    \/ group_exit

UpdateOK ==
  \A t \in Thread : exec_update = t => pc[t] \in {"commit_creds", "install_execfd", "setup_new_exec"}

\* From check_unsafe_exec on the mutex and in_exec keep what it has seen.
SeenOK ==
  \A t \in Thread : pc[t] \in CheckedPcs =>
    /\ ptraced[t] => "PTRACE" \in bprm[t].unsafe
    /\ "SHARE" \in bprm[t].unsafe \/ (in_exec /\ ~fs_shared)

\* What a linux_binprm holds at each point.
HeldOK ==
  \A t \in Thread :
    /\ pc[t] \in EarlyPcs => bprm[t].file = NoFile /\ bprm[t].executable = NoFile
    /\ pc[t] # "exec_binprm" => bprm[t].interpreter = NoFile
    /\ pc[t] \in EarlyPcs \cup OutPcs \cup {"exec_binprm"} => bprm[t].fmt = NoFormat

ListOK == \A m \in Format : module[m] \in {"live", "going"} => m \in Range(formats)

-----------------------------------------------------------------------------
(* A step of one thread: where it goes, and what it keeps of its bprm.     *)

Steps(t, label) ==
  /\ pc' \in [Thread -> Pcs] /\ pc'[t] = label
  /\ \A u \in Thread \ {t} : pc'[u] = pc[u]

OwnBprm(t) ==
  bprm' \in [Thread -> Bprm] /\ \A u \in Thread \ {t} : bprm'[u] = bprm[u]

KeepsCred(t) == bprm'[t].cred = bprm[t].cred
KeepsFiles(t) ==
  /\ bprm'[t].file = bprm[t].file /\ bprm'[t].interpreter = bprm[t].interpreter
  /\ bprm'[t].executable = bprm[t].executable
KeepsFate(t) ==
  /\ bprm'[t].point_of_no_return = bprm[t].point_of_no_return
  /\ bprm'[t].failed = bprm[t].failed
KeepsSeen(t) == bprm'[t].unsafe = bprm[t].unsafe
KeepsFormat(t) == bprm'[t].fmt = bprm[t].fmt

LEMMA GotoEffect ==
  ASSUME TypesOK, NEW t \in Thread, NEW label \in Pcs, Goto(t, label)
  PROVE  Steps(t, label)
  BY DEF TypesOK, Goto, Steps

LEMMA BprmEffect ==
  ASSUME TypesOK, NEW t \in Thread, NEW b \in Bprm, bprm' = [bprm EXCEPT ![t] = b]
  PROVE  OwnBprm(t) /\ bprm'[t] = b
  BY DEF TypesOK, OwnBprm

LEMMA SameBprm ==
  ASSUME TypesOK, NEW t \in Thread, UNCHANGED bprm
  PROVE  /\ OwnBprm(t) /\ KeepsCred(t) /\ KeepsFiles(t) /\ KeepsFate(t) /\ KeepsSeen(t)
         /\ KeepsFormat(t)
  BY DEF TypesOK, OwnBprm, KeepsCred, KeepsFiles, KeepsFate, KeepsSeen, KeepsFormat

\* Only pc and bprm, files and formats change.
Unmoved ==
  UNCHANGED <<mm, killed, exit_state, leader, lost, group_exit, group_exit_task, notify_count,
              cred_guard, exec_update, ptraced, fs_shared, in_exec>>

Edge(t, label) ==
  \/ pc[t] = "user" /\ label = "prepare_bprm_creds" /\ Alive(t) /\ ~killed[t]
  \/ pc[t] = "do_open_execat" /\ label \in {"search_binary_handler", "out_unmark"}
  \/ /\ pc[t] = "search_binary_handler"
     /\ label \in {"load_binary", "search_binary_handler", "out"}
  \/ /\ pc[t] = "load_binary"
     /\ label \in {"search_binary_handler", "exec_binprm", "begin_new_exec"}
  \/ pc[t] = "exec_binprm" /\ label \in {"search_binary_handler", "out"}
  \/ pc[t] = "begin_new_exec" /\ label = "de_thread"
  \/ pc[t] = "de_thread" /\ label = "unshare_files" /\ Others(t) = {}
  \/ pc[t] = "wait_for_threads" /\ label = "schedule"
  \/ /\ pc[t] = "wait_for_threads" /\ label = "wait_for_leader"
     /\ notify_count = 0 /\ leader # t
  \/ pc[t] = "schedule" /\ label = "wait_for_threads"
  \/ pc[t] = "schedule_leader" /\ label = "wait_for_leader"
  \/ pc[t] = "unshare_files" /\ label = "exec_mmap"
  \/ pc[t] = "start_thread" /\ label = "out_unmark"

FailsAt(t, label) == label = "out" \/ (pc[t] = "do_open_execat" /\ label = "out_unmark")

\* b is what the linux_binprm of t becomes.
Becomes(t, label, b) ==
  /\ b.cred = bprm[t].cred /\ b.unsafe = bprm[t].unsafe
  /\ IF label = "de_thread" THEN b.point_of_no_return
     ELSE b.point_of_no_return = bprm[t].point_of_no_return
  /\ FailsAt(t, label) => b.failed
  /\ ~FailsAt(t, label) /\ ~bprm[t].failed => ~b.failed

Quiet(t, label) ==
  /\ Unmoved /\ Steps(t, label) /\ Edge(t, label)
  /\ OwnBprm(t) /\ Becomes(t, label, bprm'[t])

LEMMA QuietStep ==
  ASSUME TypesOK, NEW t \in Thread, NEW label \in Pcs, Unmoved, Edge(t, label),
         Goto(t, label), NEW b \in Bprm, bprm' = [bprm EXCEPT ![t] = b], Becomes(t, label, b)
  PROVE  Quiet(t, label) /\ bprm'[t] = b
  BY GotoEffect, BprmEffect DEF Quiet

LEMMA SameBprmStep ==
  ASSUME TypesOK, NEW t \in Thread, NEW label \in Pcs, Unmoved, Edge(t, label),
         Goto(t, label), UNCHANGED bprm, label # "de_thread", ~FailsAt(t, label)
  PROVE  Quiet(t, label)
  BY GotoEffect, SameBprm
     DEF Quiet, Becomes, KeepsCred, KeepsSeen, KeepsFate

LEMMA LabelsArePcs ==
  /\ {"user", "prepare_bprm_creds", "check_unsafe_exec", "do_open_execat",
      "search_binary_handler", "load_binary", "exec_binprm", "begin_new_exec", "de_thread",
      "wait_for_threads", "schedule", "wait_for_leader", "schedule_leader", "unshare_files",
      "exec_mmap", "commit_creds", "install_execfd", "setup_new_exec", "start_thread",
      "out", "out_unmark", "free_bprm"} \subseteq Pcs
  BY DEF Pcs, StartPcs, OutPcs, CredPcs, CheckedPcs, NewPcs, WaitPcs

LEMMA StartExecQuiet ==
  ASSUME TypesOK, NEW t \in Thread, StartExec(t)
  PROVE  Quiet(t, "prepare_bprm_creds") /\ UNCHANGED <<bprm, fileVars, formatVars>>
  <1>1. Goto(t, "prepare_bprm_creds") /\ UNCHANGED bprm /\ Unmoved
        /\ UNCHANGED <<fileVars, formatVars>>
    BY DEF StartExec, Unmoved, threadVars, groupVars, safetyVars
  <1>2. Edge(t, "prepare_bprm_creds") /\ ~FailsAt(t, "prepare_bprm_creds")
    BY DEF StartExec, Edge, Alive, FailsAt
  <1>. QED  BY <1>1, <1>2, SameBprmStep, LabelsArePcs

LEMMA do_open_execatQuiet ==
  ASSUME TypesOK, NEW t \in Thread, do_open_execat(t)
  PROVE  \/ /\ Quiet(t, "search_binary_handler") /\ UNCHANGED formatVars
            /\ \E f \in File : Opened(f) /\ bprm'[t] = [bprm[t] EXCEPT !.file = f]
         \/ /\ Quiet(t, "out_unmark") /\ UNCHANGED <<fileVars, formatVars>>
            /\ bprm'[t] = [bprm[t] EXCEPT !.failed = TRUE]
  <1>1. Unmoved /\ pc[t] = "do_open_execat" /\ UNCHANGED formatVars
    BY DEF do_open_execat, Unmoved, threadVars, groupVars, safetyVars
  <1>2. bprm[t] \in Bprm
    BY DEF TypesOK
  <1>3. ASSUME NEW f \in File, Opened(f), bprm' = [bprm EXCEPT ![t].file = f],
               Goto(t, "search_binary_handler")
        PROVE  /\ Quiet(t, "search_binary_handler")
               /\ bprm'[t] = [bprm[t] EXCEPT !.file = f]
    <2>. DEFINE b == [bprm[t] EXCEPT !.file = f]
    <2>1. b \in Bprm /\ bprm' = [bprm EXCEPT ![t] = b]
      BY <1>2, <1>3 DEF Bprm
    <2>2. Becomes(t, "search_binary_handler", b) /\ Edge(t, "search_binary_handler")
      BY <1>1, <1>2 DEF Bprm, Becomes, FailsAt, Edge
    <2>. HIDE DEF b
    <2>. QED  BY <1>1, <1>3, <2>1, <2>2, QuietStep, LabelsArePcs DEF b
  <1>4. ASSUME bprm' = [bprm EXCEPT ![t].failed = TRUE], Goto(t, "out_unmark")
        PROVE  Quiet(t, "out_unmark") /\ bprm'[t] = [bprm[t] EXCEPT !.failed = TRUE]
    <2>. DEFINE b == [bprm[t] EXCEPT !.failed = TRUE]
    <2>1. b \in Bprm /\ bprm' = [bprm EXCEPT ![t] = b]
      BY <1>2, <1>4 DEF Bprm
    <2>2. Becomes(t, "out_unmark", b) /\ Edge(t, "out_unmark")
      BY <1>1, <1>2 DEF Bprm, Becomes, FailsAt, Edge
    <2>. HIDE DEF b
    <2>. QED  BY <1>1, <1>4, <2>1, <2>2, QuietStep, LabelsArePcs DEF b
  <1>. QED  BY <1>1, <1>3, <1>4 DEF do_open_execat

LEMMA search_binary_handlerQuiet ==
  ASSUME TypesOK, NEW t \in Thread, search_binary_handler(t)
  PROVE  /\ UNCHANGED <<fileVars, formats, module>>
         /\ \/ \E i \in Behind(bprm[t].fmt) :
                 /\ Quiet(t, "load_binary")
                 /\ module_refs' = Taken(bprm[t].fmt, formats[i])
                 /\ bprm'[t] = [bprm[t] EXCEPT !.fmt = formats[i]]
            \/ /\ Quiet(t, "search_binary_handler") /\ PutFormat(t)
               /\ bprm'[t] = [bprm[t] EXCEPT !.fmt = NoFormat, !.retried = TRUE]
            \/ /\ Quiet(t, "out") /\ PutFormat(t)
               /\ bprm'[t] = [bprm[t] EXCEPT !.fmt = NoFormat, !.failed = TRUE]
  <1>1. Unmoved /\ pc[t] = "search_binary_handler" /\ UNCHANGED <<fileVars, formats, module>>
    BY DEF search_binary_handler, Unmoved, threadVars, groupVars, safetyVars
  <1>2. bprm[t] \in Bprm
    BY DEF TypesOK
  <1>3. ASSUME NEW i \in Behind(bprm[t].fmt), bprm' = [bprm EXCEPT ![t].fmt = formats[i]],
               Goto(t, "load_binary")
        PROVE  /\ Quiet(t, "load_binary")
               /\ bprm'[t] = [bprm[t] EXCEPT !.fmt = formats[i]]
    <2>. DEFINE b == [bprm[t] EXCEPT !.fmt = formats[i]]
    <2>1. formats[i] \in Format
      BY ElementOfSeq, LenProperties DEF Behind, TypesOK
    <2>2. b \in Bprm /\ bprm' = [bprm EXCEPT ![t] = b]
      BY <1>2, <1>3, <2>1 DEF Bprm
    <2>3. Becomes(t, "load_binary", b) /\ Edge(t, "load_binary")
      BY <1>1, <1>2 DEF Bprm, Becomes, FailsAt, Edge
    <2>. HIDE DEF b
    <2>. QED  BY <1>1, <1>3, <2>2, <2>3, QuietStep, LabelsArePcs DEF b
  <1>4. ASSUME bprm' = [bprm EXCEPT ![t].fmt = NoFormat, ![t].retried = TRUE], UNCHANGED pc
        PROVE  /\ Quiet(t, "search_binary_handler")
               /\ bprm'[t] = [bprm[t] EXCEPT !.fmt = NoFormat, !.retried = TRUE]
    <2>. DEFINE b == [bprm[t] EXCEPT !.fmt = NoFormat, !.retried = TRUE]
    <2>1. b \in Bprm /\ bprm' = [bprm EXCEPT ![t] = b]
      BY <1>2, <1>4 DEF Bprm
    <2>2. Becomes(t, "search_binary_handler", b) /\ Edge(t, "search_binary_handler")
      BY <1>1, <1>2 DEF Bprm, Becomes, FailsAt, Edge
    <2>3. Goto(t, "search_binary_handler")
      BY <1>1, <1>4 DEF Goto, TypesOK
    <2>. HIDE DEF b
    <2>. QED  BY <1>1, <2>1, <2>2, <2>3, QuietStep, LabelsArePcs DEF b
  <1>5. ASSUME bprm' = [bprm EXCEPT ![t].fmt = NoFormat, ![t].failed = TRUE], Goto(t, "out")
        PROVE  /\ Quiet(t, "out")
               /\ bprm'[t] = [bprm[t] EXCEPT !.fmt = NoFormat, !.failed = TRUE]
    <2>. DEFINE b == [bprm[t] EXCEPT !.fmt = NoFormat, !.failed = TRUE]
    <2>1. b \in Bprm /\ bprm' = [bprm EXCEPT ![t] = b]
      BY <1>2, <1>5 DEF Bprm
    <2>2. Becomes(t, "out", b) /\ Edge(t, "out")
      BY <1>1, <1>2 DEF Bprm, Becomes, FailsAt, Edge
    <2>. HIDE DEF b
    <2>. QED  BY <1>1, <1>5, <2>1, <2>2, QuietStep, LabelsArePcs DEF b
  <1>. QED  BY <1>1, <1>3, <1>4, <1>5 DEF search_binary_handler

\* A step of t that ends with an error of load_binary.
FailPcs == {"load_binary", "begin_new_exec", "de_thread", "schedule", "schedule_leader",
            "unshare_files", "exec_mmap", "commit_creds", "install_execfd", "start_thread"}

FailStep(t) ==
  /\ pc[t] \in FailPcs /\ Steps(t, "out") /\ OwnBprm(t)
  /\ bprm'[t] = [bprm[t] EXCEPT !.failed = TRUE, !.fmt = NoFormat]
  /\ bprm'[t].cred = bprm[t].cred /\ bprm'[t].failed
  /\ bprm'[t].point_of_no_return = bprm[t].point_of_no_return
  /\ bprm'[t].unsafe = bprm[t].unsafe
  /\ PutFormat(t)
  /\ UNCHANGED <<mm, killed, exit_state, leader, lost, group_exit, cred_guard, ptraced, fs_shared,
                 in_exec, fileVars, formats, module>>
  /\ IF pc[t] \in {"schedule", "schedule_leader"}
     THEN killed[t] /\ group_exit_task' = NoThread /\ notify_count' = 0
     ELSE UNCHANGED <<group_exit_task, notify_count>>
  /\ IF pc[t] \in {"commit_creds", "install_execfd"}
     THEN exec_update' = NoThread ELSE UNCHANGED exec_update

LEMMA FailLoadEffect ==
  ASSUME TypesOK, NEW t \in Thread, FailLoad(t)
  PROVE  /\ Steps(t, "out") /\ OwnBprm(t)
         /\ bprm'[t] = [bprm[t] EXCEPT !.failed = TRUE, !.fmt = NoFormat]
         /\ bprm'[t].cred = bprm[t].cred /\ bprm'[t].failed
         /\ bprm'[t].point_of_no_return = bprm[t].point_of_no_return
         /\ bprm'[t].unsafe = bprm[t].unsafe
         /\ PutFormat(t) /\ UNCHANGED <<formats, module>>
  <1>1. Steps(t, "out") /\ PutFormat(t) /\ UNCHANGED <<formats, module>>
    BY GotoEffect, LabelsArePcs DEF FailLoad
  <1>2. bprm[t] \in Bprm
    BY DEF TypesOK
  <1>. DEFINE b == [bprm[t] EXCEPT !.failed = TRUE, !.fmt = NoFormat]
  <1>3. b \in Bprm /\ bprm' = [bprm EXCEPT ![t] = b]
    BY <1>2 DEF Bprm, FailLoad
  <1>4. /\ b.cred = bprm[t].cred /\ b.failed /\ b.unsafe = bprm[t].unsafe
        /\ b.point_of_no_return = bprm[t].point_of_no_return
    BY <1>2 DEF Bprm
  <1>. HIDE DEF b
  <1>5. OwnBprm(t) /\ bprm'[t] = b
    BY <1>3, BprmEffect
  <1>. QED  BY <1>1, <1>4, <1>5 DEF b

LEMMA load_binaryCases ==
  ASSUME TypesOK, NEW t \in Thread, load_binary(t)
  PROVE  \/ FailStep(t)
         \/ /\ Quiet(t, "search_binary_handler") \/ Quiet(t, "begin_new_exec")
            /\ UNCHANGED <<bprm, fileVars, formatVars>>
         \/ \E f \in File, e \in BOOLEAN :
              /\ Quiet(t, "exec_binprm") /\ Opened(f) /\ PutFormat(t)
              /\ UNCHANGED <<formats, module>>
              /\ bprm'[t] = [bprm[t] EXCEPT !.interpreter = f, !.fmt = NoFormat,
                                            !.retried = FALSE, !.have_execfd = e]
  <1>2. bprm[t] \in Bprm /\ pc[t] = "load_binary" /\ Unmoved
    BY DEF TypesOK, load_binary, Unmoved, threadVars, groupVars, safetyVars
  <1>3. CASE FailLoad(t) /\ UNCHANGED fileVars
    BY <1>2, <1>3, FailLoadEffect DEF FailStep, FailPcs, Unmoved
  <1>4. CASE /\ Goto(t, "search_binary_handler") \/ Goto(t, "begin_new_exec")
             /\ UNCHANGED <<bprm, fileVars, formatVars>>
    <2>1. /\ Edge(t, "search_binary_handler") /\ ~FailsAt(t, "search_binary_handler")
          /\ Edge(t, "begin_new_exec") /\ ~FailsAt(t, "begin_new_exec")
      BY <1>2 DEF Edge, FailsAt
    <2>. QED  BY <1>2, <1>4, <2>1, SameBprmStep, LabelsArePcs
  <1>5. ASSUME NEW f \in File, NEW execfd \in BOOLEAN, Opened(f),
               bprm' = [bprm EXCEPT ![t].interpreter = f, ![t].fmt = NoFormat,
                                    ![t].retried = FALSE, ![t].have_execfd = @ \/ execfd],
               PutFormat(t), Goto(t, "exec_binprm"), UNCHANGED <<formats, module>>
        PROVE  \E e \in BOOLEAN :
                 /\ Quiet(t, "exec_binprm")
                 /\ bprm'[t] = [bprm[t] EXCEPT !.interpreter = f, !.fmt = NoFormat,
                                               !.retried = FALSE, !.have_execfd = e]
    <2>. DEFINE e == bprm[t].have_execfd \/ execfd
                b == [bprm[t] EXCEPT !.interpreter = f, !.fmt = NoFormat,
                                     !.retried = FALSE, !.have_execfd = e]
    <2>1. e \in BOOLEAN
      BY <1>2 DEF Bprm
    <2>2. bprm' = [bprm EXCEPT ![t] = b]
      BY <1>2, <1>5 DEF Bprm
    <2>. HIDE DEF e
    <2>3. b \in Bprm
      BY <1>2, <2>1 DEF Bprm
    <2>4. Becomes(t, "exec_binprm", b) /\ Edge(t, "exec_binprm")
      BY <1>2 DEF Bprm, Becomes, FailsAt, Edge
    <2>5. Quiet(t, "exec_binprm") /\ bprm'[t] = b
      <3>. HIDE DEF b
      <3>. QED  BY <1>2, <1>5, <2>2, <2>3, <2>4, QuietStep, LabelsArePcs
    <2>. QED  BY <2>1, <2>5
  <1>. QED  BY <1>3, <1>4, <1>5 DEF load_binary

LEMMA exec_binprmQuiet ==
  ASSUME TypesOK, NEW t \in Thread, exec_binprm(t)
  PROVE  \E keep \in BOOLEAN, failed \in BOOLEAN :
           /\ Quiet(t, IF failed THEN "out" ELSE "search_binary_handler")
           /\ UNCHANGED formatVars
           /\ keep => bprm[t].executable = NoFile
           /\ denied' = AllowWrite(bprm[t].file)
           /\ refs' = IF keep THEN refs ELSE Add(refs, bprm[t].file, -1)
           /\ bprm'[t] = [bprm[t] EXCEPT
                !.file = bprm[t].interpreter, !.interpreter = NoFile,
                !.executable = IF keep THEN bprm[t].file ELSE bprm[t].executable,
                !.depth = bprm[t].depth + 1, !.failed = failed]
  <1>. DEFINE keep == bprm[t].have_execfd /\ bprm[t].executable = NoFile
              failed == (bprm[t].have_execfd /\ ~keep) \/ bprm[t].depth + 1 > MaxRewrites
              b == [bprm[t] EXCEPT
                      !.file = bprm[t].interpreter, !.interpreter = NoFile,
                      !.executable = IF keep THEN bprm[t].file ELSE bprm[t].executable,
                      !.depth = bprm[t].depth + 1, !.failed = failed]
              label == IF failed THEN "out" ELSE "search_binary_handler"
  <1>1. /\ pc[t] = "exec_binprm" /\ Unmoved /\ UNCHANGED formatVars
        /\ denied' = AllowWrite(bprm[t].file)
        /\ refs' = IF keep THEN refs ELSE Add(refs, bprm[t].file, -1)
        /\ bprm' = [bprm EXCEPT ![t] = b] /\ Goto(t, label)
    BY DEF exec_binprm, Unmoved, threadVars, groupVars, safetyVars
  <1>2. bprm[t] \in Bprm
    BY DEF TypesOK
  <1>3. keep \in BOOLEAN /\ failed \in BOOLEAN /\ (keep => bprm[t].executable = NoFile)
    BY <1>2 DEF Bprm
  <1>. HIDE DEF keep, failed
  <1>4. b \in Bprm /\ label \in Pcs
    <2>1. label \in Pcs
      BY LabelsArePcs
    <2>. DEFINE executable == IF keep THEN bprm[t].file ELSE bprm[t].executable
    <2>2. /\ executable \in File \cup {NoFile}
          /\ bprm[t].interpreter \in File \cup {NoFile} /\ bprm[t].depth + 1 \in Nat
      BY <1>2 DEF Bprm
    <2>. HIDE DEF executable
    <2>3. [bprm[t] EXCEPT !.file = bprm[t].interpreter, !.interpreter = NoFile,
                          !.executable = executable, !.depth = bprm[t].depth + 1,
                          !.failed = failed] \in Bprm
      BY <1>2, <1>3, <2>2 DEF Bprm
    <2>. QED  BY <2>1, <2>3 DEF executable
  <1>5. Becomes(t, label, b) /\ Edge(t, label)
    BY <1>1, <1>2, <1>3 DEF Bprm, Becomes, FailsAt, Edge
  <1>6. Quiet(t, label) /\ bprm'[t] = b
    <2>. HIDE DEF b, label
    <2>. QED  BY <1>1, <1>4, <1>5, QuietStep
  <1>. QED  BY <1>1, <1>3, <1>6

\* Steps of a thread that fail, or go on and change neither lock nor group.
LEMMA begin_new_execCases ==
  ASSUME TypesOK, NEW t \in Thread, begin_new_exec(t)
  PROVE  \/ FailStep(t)
         \/ /\ Quiet(t, "de_thread") /\ UNCHANGED <<fileVars, formatVars>>
            /\ bprm'[t] = [bprm[t] EXCEPT !.point_of_no_return = TRUE]
  <1>1. bprm[t] \in Bprm /\ pc[t] = "begin_new_exec" /\ Unmoved /\ UNCHANGED fileVars
    BY DEF TypesOK, begin_new_exec, Unmoved, threadVars, groupVars, safetyVars
  <1>2. CASE FailLoad(t)
    BY <1>1, <1>2, FailLoadEffect DEF FailStep, FailPcs, Unmoved
  <1>3. CASE /\ bprm' = [bprm EXCEPT ![t].point_of_no_return = TRUE]
             /\ Goto(t, "de_thread") /\ UNCHANGED formatVars
    <2>. DEFINE b == [bprm[t] EXCEPT !.point_of_no_return = TRUE]
    <2>1. b \in Bprm /\ bprm' = [bprm EXCEPT ![t] = b]
      BY <1>1, <1>3 DEF Bprm
    <2>2. Becomes(t, "de_thread", b) /\ Edge(t, "de_thread")
      BY <1>1 DEF Bprm, Becomes, FailsAt, Edge
    <2>. HIDE DEF b
    <2>. QED  BY <1>1, <1>3, <2>1, <2>2, QuietStep, LabelsArePcs DEF b
  <1>. QED  BY <1>2, <1>3 DEF begin_new_exec

LEMMA unshare_filesCases ==
  ASSUME TypesOK, NEW t \in Thread, unshare_files(t)
  PROVE  \/ FailStep(t)
         \/ Quiet(t, "exec_mmap") /\ UNCHANGED <<bprm, fileVars, formatVars>>
  <1>1. pc[t] = "unshare_files" /\ Unmoved /\ UNCHANGED fileVars
    BY DEF unshare_files, Unmoved, threadVars, groupVars, safetyVars
  <1>2. CASE FailLoad(t)
    BY <1>1, <1>2, FailLoadEffect DEF FailStep, FailPcs, Unmoved
  <1>3. CASE Goto(t, "exec_mmap") /\ UNCHANGED <<bprm, formatVars>>
    <2>1. Edge(t, "exec_mmap") /\ ~FailsAt(t, "exec_mmap")
      BY <1>1 DEF Edge, FailsAt
    <2>. QED  BY <1>1, <1>3, <2>1, SameBprmStep, LabelsArePcs
  <1>. QED  BY <1>2, <1>3 DEF unshare_files

LEMMA start_threadCases ==
  ASSUME TypesOK, NEW t \in Thread, start_thread(t)
  PROVE  \/ FailStep(t)
         \/ /\ Quiet(t, "out_unmark") /\ PutFormat(t)
            /\ UNCHANGED <<fileVars, formats, module>>
            /\ bprm'[t] = [bprm[t] EXCEPT !.fmt = NoFormat]
  <1>1. bprm[t] \in Bprm /\ pc[t] = "start_thread" /\ Unmoved /\ UNCHANGED fileVars
    BY DEF TypesOK, start_thread, Unmoved, threadVars, groupVars, safetyVars
  <1>2. CASE FailLoad(t)
    BY <1>1, <1>2, FailLoadEffect DEF FailStep, FailPcs, Unmoved
  <1>3. CASE /\ PutFormat(t) /\ bprm' = [bprm EXCEPT ![t].fmt = NoFormat]
             /\ Goto(t, "out_unmark") /\ UNCHANGED <<formats, module>>
    <2>. DEFINE b == [bprm[t] EXCEPT !.fmt = NoFormat]
    <2>1. b \in Bprm /\ bprm' = [bprm EXCEPT ![t] = b]
      BY <1>1, <1>3 DEF Bprm
    <2>2. Becomes(t, "out_unmark", b) /\ Edge(t, "out_unmark")
      BY <1>1 DEF Bprm, Becomes, FailsAt, Edge
    <2>. HIDE DEF b
    <2>. QED  BY <1>1, <1>3, <2>1, <2>2, QuietStep, LabelsArePcs DEF b
  <1>. QED  BY <1>2, <1>3 DEF start_thread

\* What all other steps of a thread have in common.
KeepsHeld(t) == KeepsFiles(t) /\ KeepsFormat(t) /\ UNCHANGED <<fileVars, formatVars>>

\* Steps that move the locks, the group or the credentials.
GivesUp(t) ==
  /\ pc[t] = "prepare_bprm_creds" /\ Steps(t, "free_bprm") /\ OwnBprm(t) /\ KeepsHeld(t)
  /\ KeepsCred(t) /\ Unmoved

TakesGuard(t) ==
  /\ pc[t] = "prepare_bprm_creds" /\ Steps(t, "check_unsafe_exec") /\ OwnBprm(t) /\ KeepsHeld(t)
  /\ KeepsFate(t) /\ bprm'[t].cred
  /\ cred_guard = NoThread /\ cred_guard' = t
  /\ UNCHANGED <<threadVars, groupVars, exec_update, safetyVars>>

LEMMA prepare_bprm_credsCases ==
  ASSUME TypesOK, NEW t \in Thread, prepare_bprm_creds(t)
  PROVE  GivesUp(t) \/ TakesGuard(t)
  <1>1. /\ bprm[t] \in Bprm /\ pc[t] = "prepare_bprm_creds"
        /\ UNCHANGED <<threadVars, groupVars, exec_update, safetyVars, fileVars, formatVars>>
    BY DEF TypesOK, prepare_bprm_creds
  <1>2. CASE /\ cred_guard = NoThread /\ cred_guard' = t
             /\ bprm' = [bprm EXCEPT ![t].cred = TRUE] /\ Goto(t, "check_unsafe_exec")
    <2>. DEFINE b == [bprm[t] EXCEPT !.cred = TRUE]
    <2>1. b \in Bprm /\ bprm' = [bprm EXCEPT ![t] = b]
      BY <1>1, <1>2 DEF Bprm
    <2>2. /\ b.cred /\ b.file = bprm[t].file /\ b.interpreter = bprm[t].interpreter
          /\ b.executable = bprm[t].executable /\ b.fmt = bprm[t].fmt
          /\ b.failed = bprm[t].failed /\ b.point_of_no_return = bprm[t].point_of_no_return
      BY <1>1 DEF Bprm
    <2>. HIDE DEF b
    <2>3. Steps(t, "check_unsafe_exec") /\ OwnBprm(t) /\ bprm'[t] = b
      BY <1>2, <2>1, GotoEffect, BprmEffect, LabelsArePcs
    <2>. QED  BY <1>1, <1>2, <2>2, <2>3 DEF TakesGuard, KeepsHeld, KeepsFiles, KeepsFormat, KeepsFate
  <1>3. CASE /\ bprm' = [bprm EXCEPT ![t].failed = TRUE] /\ Goto(t, "free_bprm")
             /\ UNCHANGED cred_guard
    <2>. DEFINE b == [bprm[t] EXCEPT !.failed = TRUE]
    <2>1. b \in Bprm /\ bprm' = [bprm EXCEPT ![t] = b]
      BY <1>1, <1>3 DEF Bprm
    <2>2. /\ b.cred = bprm[t].cred /\ b.file = bprm[t].file /\ b.interpreter = bprm[t].interpreter
          /\ b.executable = bprm[t].executable /\ b.fmt = bprm[t].fmt
      BY <1>1 DEF Bprm
    <2>. HIDE DEF b
    <2>3. Steps(t, "free_bprm") /\ OwnBprm(t) /\ bprm'[t] = b
      BY <1>3, <2>1, GotoEffect, BprmEffect, LabelsArePcs
    <2>. QED  BY <1>1, <1>3, <2>2, <2>3
              DEF GivesUp, KeepsHeld, KeepsFiles, KeepsFormat, KeepsCred, Unmoved, threadVars,
                  groupVars, safetyVars
  <1>. QED  BY <1>2, <1>3 DEF prepare_bprm_creds

Looks(t) ==
  /\ pc[t] = "check_unsafe_exec" /\ Steps(t, "do_open_execat") /\ OwnBprm(t) /\ KeepsHeld(t)
  /\ KeepsCred(t) /\ KeepsFate(t)
  /\ ptraced[t] => "PTRACE" \in bprm'[t].unsafe
  /\ fs_shared => "SHARE" \in bprm'[t].unsafe
  /\ in_exec \/ ~fs_shared => in_exec'
  /\ UNCHANGED <<threadVars, groupVars, cred_guard, exec_update, ptraced, fs_shared>>

LEMMA check_unsafe_execEffect ==
  ASSUME TypesOK, NEW t \in Thread, check_unsafe_exec(t)
  PROVE  Looks(t)
  <1>. DEFINE seen == (IF ptraced[t] THEN {"PTRACE"} ELSE {})
                         \cup (IF fs_shared THEN {"SHARE"} ELSE {})
              b == [bprm[t] EXCEPT !.unsafe = seen]
  <1>1. /\ bprm[t] \in Bprm /\ pc[t] = "check_unsafe_exec" /\ Goto(t, "do_open_execat")
        /\ bprm' = [bprm EXCEPT ![t] = b]
        /\ UNCHANGED <<threadVars, groupVars, cred_guard, exec_update, ptraced, fs_shared,
                       fileVars, formatVars>>
    BY DEF TypesOK, check_unsafe_exec
  <1>2. /\ seen \in SUBSET {"PTRACE", "SHARE"}
        /\ (ptraced[t] => "PTRACE" \in seen) /\ (fs_shared => "SHARE" \in seen)
    OBVIOUS
  <1>. HIDE DEF seen
  <1>3. b \in Bprm
    BY <1>1, <1>2 DEF Bprm
  <1>4. /\ b.cred = bprm[t].cred /\ b.file = bprm[t].file /\ b.interpreter = bprm[t].interpreter
        /\ b.executable = bprm[t].executable /\ b.fmt = bprm[t].fmt
        /\ b.failed = bprm[t].failed /\ b.point_of_no_return = bprm[t].point_of_no_return
        /\ b.unsafe = seen
    BY <1>1 DEF Bprm
  <1>. HIDE DEF b
  <1>5. Steps(t, "do_open_execat") /\ OwnBprm(t) /\ bprm'[t] = b
    BY <1>1, <1>3, GotoEffect, BprmEffect, LabelsArePcs
  <1>6. in_exec \/ ~fs_shared => in_exec'
    <2>1. in_exec' = (in_exec \/ ~fs_shared)
      BY DEF check_unsafe_exec, Marked
    <2>. QED  BY <2>1, Zenon
  <1>. QED  BY <1>1, <1>2, <1>4, <1>5, <1>6
            DEF Looks, KeepsHeld, KeepsFiles, KeepsFormat, KeepsFate, KeepsCred

\* The step keeps all of the linux_binprm.
OnlyGoes(t, label) ==
  /\ Steps(t, label) /\ OwnBprm(t) /\ UNCHANGED bprm
  /\ KeepsHeld(t) /\ KeepsCred(t) /\ KeepsFate(t) /\ KeepsSeen(t)

LEMMA OnlyGoesEffect ==
  ASSUME TypesOK, NEW t \in Thread, NEW label \in Pcs, Goto(t, label),
         UNCHANGED <<bprm, fileVars, formatVars>>
  PROVE  OnlyGoes(t, label)
  BY GotoEffect, SameBprm DEF OnlyGoes, KeepsHeld

Kills(t) ==
  /\ pc[t] = "de_thread" /\ OnlyGoes(t, "wait_for_threads")
  /\ Others(t) # {} /\ ~group_exit /\ group_exit_task = NoThread
  /\ group_exit_task' = t /\ notify_count' = Cardinality(Others(t) \ {leader})
  /\ killed' = [u \in Thread |-> killed[u] \/ (u # t /\ Alive(u))]
  /\ UNCHANGED <<mm, exit_state, leader, group_exit, cred_guard, exec_update, safetyVars>>

LEMMA de_threadCases ==
  ASSUME TypesOK, NEW t \in Thread, de_thread(t)
  PROVE  \/ Quiet(t, "unshare_files") /\ UNCHANGED <<bprm, fileVars, formatVars>>
         \/ FailStep(t) \/ Kills(t)
  <1>1. /\ pc[t] = "de_thread"
        /\ UNCHANGED <<cred_guard, exec_update, safetyVars, fileVars>>
    BY DEF de_thread
  <1>2. CASE /\ Others(t) = {} /\ Goto(t, "unshare_files")
             /\ UNCHANGED <<bprm, threadVars, groupVars, formatVars>>
    <2>1. Edge(t, "unshare_files") /\ ~FailsAt(t, "unshare_files")
      BY <1>1, <1>2 DEF Edge, FailsAt
    <2>2. Unmoved
      BY <1>1, <1>2 DEF Unmoved, threadVars, groupVars, safetyVars
    <2>. QED  BY <1>1, <1>2, <2>1, <2>2, SameBprmStep, LabelsArePcs
  <1>3. CASE FailLoad(t) /\ UNCHANGED <<threadVars, groupVars>>
    BY <1>1, <1>3, FailLoadEffect DEF FailStep, FailPcs, threadVars, groupVars, safetyVars
  <1>4. CASE /\ Others(t) # {} /\ ~group_exit /\ group_exit_task = NoThread
             /\ group_exit_task' = t /\ notify_count' = ThreadsToWaitFor(t)
             /\ killed' = [u \in Thread |-> killed[u] \/ (u # t /\ exit_state[u] = "alive")]
             /\ Goto(t, "wait_for_threads")
             /\ UNCHANGED <<bprm, mm, asleep, exit_state, leader, group_exit, formatVars>>
    <2>1. OnlyGoes(t, "wait_for_threads")
      BY <1>1, <1>4, OnlyGoesEffect, LabelsArePcs
    <2>. QED  BY <1>1, <1>4, <2>1 DEF Kills, ThreadsToWaitFor, Alive
  <1>. QED  BY <1>2, <1>3, <1>4 DEF de_thread

\* The wait is over: t is the leader, or takes the place of the leader.
TakesOver(t) ==
  /\ OnlyGoes(t, "unshare_files")
  /\ \/ pc[t] = "wait_for_threads" /\ notify_count = 0 /\ leader = t /\ UNCHANGED exit_state
     \/ /\ pc[t] = "wait_for_leader" /\ exit_state[leader] = "zombie"
        /\ exit_state' = [exit_state EXCEPT ![leader] = "dead"]
  /\ leader' = t /\ group_exit_task' = NoThread /\ notify_count' = 0
  /\ UNCHANGED <<mm, killed, lost, group_exit, cred_guard, exec_update, safetyVars>>

AsksLeader(t) ==
  /\ pc[t] = "wait_for_leader" /\ OnlyGoes(t, "schedule_leader")
  /\ exit_state[leader] # "zombie" /\ notify_count' = -1
  /\ UNCHANGED <<mm, killed, exit_state, leader, lost, group_exit, group_exit_task, cred_guard,
                 exec_update, safetyVars>>

LEMMA wait_for_threadsCases ==
  ASSUME TypesOK, NEW t \in Thread, wait_for_threads(t)
  PROVE  \/ /\ Quiet(t, "schedule") \/ Quiet(t, "wait_for_leader")
            /\ UNCHANGED <<bprm, fileVars, formatVars>>
         \/ TakesOver(t)
  <1>1. /\ pc[t] = "wait_for_threads"
        /\ UNCHANGED <<cred_guard, exec_update, safetyVars, fileVars>>
    BY DEF wait_for_threads
  <1>2. CASE Sleep(t, "schedule") /\ UNCHANGED groupVars
    <2>1. Edge(t, "schedule") /\ ~FailsAt(t, "schedule")
      BY <1>1 DEF Edge, FailsAt
    <2>2. Unmoved /\ Goto(t, "schedule") /\ UNCHANGED <<bprm, formatVars>>
      BY <1>1, <1>2 DEF Unmoved, Sleep, groupVars, safetyVars
    <2>. QED  BY <1>1, <2>1, <2>2, SameBprmStep, LabelsArePcs
  <1>3. CASE /\ notify_count = 0 /\ leader = t /\ Goto(t, "unshare_files") /\ GroupDone
             /\ UNCHANGED <<bprm, threadVars, formatVars>>
    <2>1. OnlyGoes(t, "unshare_files")
      BY <1>1, <1>3, OnlyGoesEffect, LabelsArePcs
    <2>. QED  BY <1>1, <1>3, <2>1 DEF TakesOver, GroupDone, threadVars
  <1>4. CASE /\ notify_count = 0 /\ leader # t /\ Goto(t, "wait_for_leader")
             /\ UNCHANGED <<groupVars, bprm, threadVars, formatVars>>
    <2>1. Edge(t, "wait_for_leader") /\ ~FailsAt(t, "wait_for_leader")
      BY <1>1, <1>4 DEF Edge, FailsAt
    <2>2. Unmoved
      BY <1>1, <1>4 DEF Unmoved, threadVars, groupVars, safetyVars
    <2>. QED  BY <1>1, <1>4, <2>1, <2>2, SameBprmStep, LabelsArePcs
  <1>. QED  BY <1>2, <1>3, <1>4 DEF wait_for_threads

LEMMA wait_for_leaderCases ==
  ASSUME TypesOK, NEW t \in Thread, wait_for_leader(t)
  PROVE  AsksLeader(t) \/ TakesOver(t)
  <1>1. /\ pc[t] = "wait_for_leader"
        /\ UNCHANGED <<cred_guard, exec_update, safetyVars, fileVars>>
    BY DEF wait_for_leader
  <1>2. CASE /\ exit_state[leader] # "zombie" /\ AskLeaderToNotify /\ Sleep(t, "schedule_leader")
             /\ UNCHANGED <<group_exit, group_exit_task>>
    <2>1. OnlyGoes(t, "schedule_leader")
      BY <1>1, <1>2, OnlyGoesEffect, LabelsArePcs DEF Sleep
    <2>. QED  BY <1>1, <1>2, <2>1 DEF AsksLeader, AskLeaderToNotify, Sleep
  <1>3. CASE /\ exit_state[leader] = "zombie"
             /\ exit_state' = [exit_state EXCEPT ![leader] = "dead"]
             /\ leader' = t /\ GroupDone /\ Goto(t, "unshare_files")
             /\ UNCHANGED <<bprm, mm, killed, asleep, lost, formatVars>>
    <2>1. OnlyGoes(t, "unshare_files")
      BY <1>1, <1>3, OnlyGoesEffect, LabelsArePcs
    <2>. QED  BY <1>1, <1>3, <2>1 DEF TakesOver, GroupDone
  <1>. QED  BY <1>2, <1>3 DEF wait_for_leader

LEMMA scheduleCases ==
  ASSUME TypesOK, NEW t \in Thread, schedule(t)
  PROVE  \/ FailStep(t)
         \/ /\ Quiet(t, "wait_for_threads") \/ Quiet(t, "wait_for_leader")
            /\ UNCHANGED <<bprm, fileVars, formatVars>>
  <1>1. /\ pc[t] \in {"schedule", "schedule_leader"}
        /\ UNCHANGED <<threadVars, cred_guard, exec_update, safetyVars, fileVars>>
    BY DEF schedule
  <1>2. CASE killed[t] /\ FailLoad(t) /\ GroupDone
    BY <1>1, <1>2, FailLoadEffect DEF FailStep, FailPcs, GroupDone, threadVars, safetyVars
  <1>3. CASE /\ Goto(t, IF pc[t] = "schedule" THEN "wait_for_threads" ELSE "wait_for_leader")
             /\ UNCHANGED <<bprm, groupVars, formatVars>>
    <2>1. Unmoved
      BY <1>1, <1>3 DEF Unmoved, threadVars, groupVars, safetyVars
    <2>2. CASE pc[t] = "schedule"
      <3>1. Edge(t, "wait_for_threads") /\ ~FailsAt(t, "wait_for_threads")
        BY <2>2 DEF Edge, FailsAt
      <3>. QED  BY <1>1, <1>3, <2>1, <2>2, <3>1, SameBprmStep, LabelsArePcs
    <2>3. CASE pc[t] = "schedule_leader"
      <3>1. Edge(t, "wait_for_leader") /\ ~FailsAt(t, "wait_for_leader")
        BY <2>3 DEF Edge, FailsAt
      <3>. QED  BY <1>1, <1>3, <2>1, <2>3, <3>1, SameBprmStep, LabelsArePcs
    <2>. QED  BY <1>1, <2>2, <2>3
  <1>. QED  BY <1>2, <1>3 DEF schedule

Maps(t) ==
  /\ pc[t] = "exec_mmap" /\ OnlyGoes(t, "commit_creds")
  /\ exec_update' = t /\ mm' = [mm EXCEPT ![t] = "new"]
  /\ UNCHANGED <<killed, exit_state, leader, lost, groupVars, cred_guard, safetyVars>>

LEMMA exec_mmapCases ==
  ASSUME TypesOK, NEW t \in Thread, exec_mmap(t)
  PROVE  FailStep(t) \/ Maps(t)
  <1>1. /\ pc[t] = "exec_mmap"
        /\ UNCHANGED <<killed, asleep, exit_state, leader, lost, groupVars, cred_guard,
                       safetyVars, fileVars>>
    BY DEF exec_mmap
  <1>2. CASE FailLoad(t) /\ UNCHANGED <<mm, exec_update>>
    BY <1>1, <1>2, FailLoadEffect DEF FailStep, FailPcs, groupVars, safetyVars
  <1>3. CASE /\ exec_update' = t /\ mm' = [mm EXCEPT ![t] = "new"] /\ Goto(t, "commit_creds")
             /\ UNCHANGED <<bprm, formatVars>>
    <2>1. OnlyGoes(t, "commit_creds")
      BY <1>1, <1>3, OnlyGoesEffect, LabelsArePcs
    <2>. QED  BY <1>1, <1>3, <2>1 DEF Maps
  <1>. QED  BY <1>2, <1>3 DEF exec_mmap

Commits(t) ==
  /\ pc[t] = "commit_creds" /\ Steps(t, "install_execfd") /\ OwnBprm(t) /\ KeepsHeld(t)
  /\ KeepsFate(t) /\ ~bprm'[t].cred
  /\ UNCHANGED <<threadVars, groupVars, cred_guard, exec_update, safetyVars>>

LEMMA commit_credsCases ==
  ASSUME TypesOK, NEW t \in Thread, commit_creds(t)
  PROVE  FailStep(t) \/ Commits(t)
  <1>1. /\ pc[t] = "commit_creds" /\ bprm[t] \in Bprm
        /\ UNCHANGED <<threadVars, groupVars, cred_guard, safetyVars, fileVars>>
    BY DEF commit_creds, TypesOK
  <1>2. CASE FailLoad(t) /\ UnlockUpdate
    BY <1>1, <1>2, FailLoadEffect
       DEF FailStep, FailPcs, UnlockUpdate, threadVars, groupVars, safetyVars
  <1>3. CASE /\ bprm' = [bprm EXCEPT ![t].cred = FALSE] /\ Goto(t, "install_execfd")
             /\ UNCHANGED <<exec_update, formatVars>>
    <2>. DEFINE b == [bprm[t] EXCEPT !.cred = FALSE]
    <2>1. b \in Bprm /\ bprm' = [bprm EXCEPT ![t] = b]
      BY <1>1, <1>3 DEF Bprm
    <2>2. /\ ~b.cred /\ b.file = bprm[t].file /\ b.interpreter = bprm[t].interpreter
          /\ b.executable = bprm[t].executable /\ b.fmt = bprm[t].fmt
          /\ b.failed = bprm[t].failed /\ b.point_of_no_return = bprm[t].point_of_no_return
      BY <1>1 DEF Bprm
    <2>. HIDE DEF b
    <2>3. Steps(t, "install_execfd") /\ OwnBprm(t) /\ bprm'[t] = b
      BY <1>3, <2>1, GotoEffect, BprmEffect, LabelsArePcs
    <2>. QED  BY <1>1, <1>3, <2>2, <2>3 DEF Commits, KeepsHeld, KeepsFiles, KeepsFormat, KeepsFate
  <1>. QED  BY <1>2, <1>3 DEF commit_creds

\* The descriptor takes over the reference to the executable.
Installs(t) ==
  /\ pc[t] = "install_execfd" /\ Steps(t, "setup_new_exec") /\ OwnBprm(t)
  /\ KeepsCred(t) /\ KeepsFate(t) /\ KeepsFormat(t)
  /\ refs' = Add(refs, bprm[t].executable, -1)
  /\ bprm'[t].file = bprm[t].file /\ bprm'[t].interpreter = bprm[t].interpreter
  /\ bprm'[t].executable = NoFile
  /\ UNCHANGED <<threadVars, groupVars, cred_guard, exec_update, safetyVars, denied, formatVars>>

LEMMA install_execfdCases ==
  ASSUME TypesOK, NEW t \in Thread, install_execfd(t)
  PROVE  FailStep(t) \/ Installs(t)
  <1>1. /\ pc[t] = "install_execfd" /\ bprm[t] \in Bprm
        /\ UNCHANGED <<threadVars, groupVars, cred_guard, safetyVars, denied>>
    BY DEF install_execfd, TypesOK
  <1>2. CASE FailLoad(t) /\ UnlockUpdate /\ UNCHANGED refs
    BY <1>1, <1>2, FailLoadEffect
       DEF FailStep, FailPcs, UnlockUpdate, threadVars, groupVars, safetyVars, fileVars
  <1>3. CASE /\ refs' = Add(refs, bprm[t].executable, -1)
             /\ bprm' = [bprm EXCEPT ![t].executable = NoFile] /\ Goto(t, "setup_new_exec")
             /\ UNCHANGED <<exec_update, formatVars>>
    <2>. DEFINE b == [bprm[t] EXCEPT !.executable = NoFile]
    <2>1. b \in Bprm /\ bprm' = [bprm EXCEPT ![t] = b]
      BY <1>1, <1>3 DEF Bprm
    <2>2. /\ b.cred = bprm[t].cred /\ b.file = bprm[t].file /\ b.interpreter = bprm[t].interpreter
          /\ b.executable = NoFile /\ b.fmt = bprm[t].fmt
          /\ b.failed = bprm[t].failed /\ b.point_of_no_return = bprm[t].point_of_no_return
      BY <1>1 DEF Bprm
    <2>. HIDE DEF b
    <2>3. Steps(t, "setup_new_exec") /\ OwnBprm(t) /\ bprm'[t] = b
      BY <1>3, <2>1, GotoEffect, BprmEffect, LabelsArePcs
    <2>. QED  BY <1>1, <1>3, <2>2, <2>3 DEF Installs, KeepsFormat, KeepsFate, KeepsCred
  <1>. QED  BY <1>2, <1>3 DEF install_execfd

Unlocks(t) ==
  /\ pc[t] = "setup_new_exec" /\ OnlyGoes(t, "start_thread")
  /\ exec_update' = NoThread /\ cred_guard' = NoThread
  /\ UNCHANGED <<threadVars, groupVars, safetyVars>>

LEMMA setup_new_execEffect ==
  ASSUME TypesOK, NEW t \in Thread, setup_new_exec(t)
  PROVE  Unlocks(t)
  <1>1. OnlyGoes(t, "start_thread")
    BY OnlyGoesEffect, LabelsArePcs DEF setup_new_exec
  <1>. QED  BY <1>1 DEF setup_new_exec, Unlocks, UnlockUpdate

Errs(t) ==
  /\ pc[t] = "out" /\ OnlyGoes(t, "out_unmark")
  /\ killed' = [u \in Thread |-> killed[u] \/ (FatalError(t) /\ Alive(u))]
  /\ group_exit' = (group_exit \/ FatalError(t))
  /\ UNCHANGED <<mm, exit_state, leader, lost, group_exit_task, notify_count, cred_guard,
                 exec_update, safetyVars>>

LEMMA outEffect ==
  ASSUME TypesOK, NEW t \in Thread, out(t)
  PROVE  Errs(t)
  <1>1. OnlyGoes(t, "out_unmark")
    BY OnlyGoesEffect, LabelsArePcs DEF out
  <1>. QED  BY <1>1 DEF out, Errs, Everyone, Alive

Unmarks(t) ==
  /\ pc[t] = "out_unmark" /\ OnlyGoes(t, "free_bprm")
  /\ in_exec' = FALSE
  /\ UNCHANGED <<threadVars, groupVars, cred_guard, exec_update, ptraced, fs_shared>>

LEMMA out_unmarkEffect ==
  ASSUME TypesOK, NEW t \in Thread, out_unmark(t)
  PROVE  Unmarks(t)
  <1>1. OnlyGoes(t, "free_bprm")
    BY OnlyGoesEffect, LabelsArePcs DEF out_unmark
  <1>. QED  BY <1>1 DEF out_unmark, Unmarks

Frees(t) ==
  /\ pc[t] = "free_bprm" /\ Steps(t, "user") /\ OwnBprm(t) /\ bprm'[t] = NoBprm
  /\ cred_guard' = IF bprm[t].cred THEN NoThread ELSE cred_guard
  /\ denied' = Add(denied, bprm[t].file, -1)
  /\ refs' = Add(Add(refs, bprm[t].file, -1), bprm[t].executable, -1)
  /\ mm' = IF bprm[t].failed THEN mm ELSE [mm EXCEPT ![t] = "old"]
  /\ lost' = (lost /\ bprm[t].failed)
  /\ UNCHANGED <<killed, exit_state, leader, groupVars, exec_update, safetyVars, formatVars>>

LEMMA free_bprmEffect ==
  ASSUME TypesOK, NEW t \in Thread, free_bprm(t)
  PROVE  Frees(t)
  <1>1. NoBprm \in Bprm
    BY DEF NoBprm, Bprm
  <1>2. Steps(t, "user") /\ OwnBprm(t) /\ bprm'[t] = NoBprm
    BY <1>1, GotoEffect, BprmEffect, LabelsArePcs DEF free_bprm
  <1>. QED  BY <1>2 DEF free_bprm, Frees

-----------------------------------------------------------------------------
(* Every step is one of these.                                             *)

ThreadStep(t) ==
  \/ \E label \in Pcs : Quiet(t, label)
  \/ FailStep(t) \/ GivesUp(t) \/ TakesGuard(t) \/ Looks(t) \/ Kills(t) \/ TakesOver(t)
  \/ AsksLeader(t) \/ Maps(t) \/ Commits(t) \/ Installs(t) \/ Unlocks(t) \/ Errs(t)
  \/ Unmarks(t) \/ Frees(t)

KernelStep ==
  \/ \E u \in Thread : Exit(u) \/ clone(u) \/ ptrace(u)
  \/ KillGroup \/ fork_fs \/ down_read \/ up_read
  \/ UNCHANGED unchangedByModules

LEMMA ThreadCases ==
  ASSUME TypesOK, NEW t \in Thread, StartExec(t) \/ prepare_bprm_creds(t) \/ bprm_execve(t)
  PROVE  ThreadStep(t)
  <1>. USE LabelsArePcs
  <1>1. CASE StartExec(t)
    BY <1>1, StartExecQuiet DEF ThreadStep
  <1>2. CASE prepare_bprm_creds(t)
    BY <1>2, prepare_bprm_credsCases DEF ThreadStep
  <1>3. CASE check_unsafe_exec(t)
    BY <1>3, check_unsafe_execEffect DEF ThreadStep
  <1>4. CASE do_open_execat(t)
    BY <1>4, do_open_execatQuiet DEF ThreadStep
  <1>5. CASE search_binary_handler(t)
    BY <1>5, search_binary_handlerQuiet DEF ThreadStep
  <1>6. CASE load_binary(t)
    BY <1>6, load_binaryCases DEF ThreadStep
  <1>7. CASE exec_binprm(t)
    BY <1>7, exec_binprmQuiet DEF ThreadStep
  <1>8. CASE begin_new_exec(t)
    BY <1>8, begin_new_execCases DEF ThreadStep
  <1>9. CASE de_thread(t)
    BY <1>9, de_threadCases DEF ThreadStep
  <1>10. CASE wait_for_threads(t)
    BY <1>10, wait_for_threadsCases DEF ThreadStep
  <1>11. CASE wait_for_leader(t)
    BY <1>11, wait_for_leaderCases DEF ThreadStep
  <1>12. CASE schedule(t)
    BY <1>12, scheduleCases DEF ThreadStep
  <1>13. CASE unshare_files(t)
    BY <1>13, unshare_filesCases DEF ThreadStep
  <1>14. CASE exec_mmap(t)
    BY <1>14, exec_mmapCases DEF ThreadStep
  <1>15. CASE commit_creds(t)
    BY <1>15, commit_credsCases DEF ThreadStep
  <1>16. CASE install_execfd(t)
    BY <1>16, install_execfdCases DEF ThreadStep
  <1>17. CASE setup_new_exec(t)
    BY <1>17, setup_new_execEffect DEF ThreadStep
  <1>18. CASE start_thread(t)
    BY <1>18, start_threadCases DEF ThreadStep
  <1>19. CASE out(t)
    BY <1>19, outEffect DEF ThreadStep
  <1>20. CASE out_unmark(t)
    BY <1>20, out_unmarkEffect DEF ThreadStep
  <1>21. CASE free_bprm(t)
    BY <1>21, free_bprmEffect DEF ThreadStep
  <1>. QED  BY <1>1, <1>2, <1>3, <1>4, <1>5, <1>6, <1>7, <1>8, <1>9, <1>10, <1>11, <1>12,
               <1>13, <1>14, <1>15, <1>16, <1>17, <1>18, <1>19, <1>20, <1>21
            DEF bprm_execve

LEMMA StepCases ==
  ASSUME TypesOK, [ExecNext]_execVars
  PROVE  (\E t \in Thread : ThreadStep(t)) \/ KernelStep
  <1>1. ASSUME NEW m \in Format, \/ \E insert \in BOOLEAN : register_binfmt(m, insert)
                                 \/ delete_module(m) \/ unregister_binfmt(m)
        PROVE  UNCHANGED unchangedByModules
    BY <1>1 DEF register_binfmt, delete_module, unregister_binfmt
  <1>2. CASE UNCHANGED execVars
    BY <1>2 DEF execVars, kernelVars, KernelStep, unchangedByModules
  <1>. QED  BY <1>1, <1>2, ThreadCases DEF ExecNext, KernelStep

-----------------------------------------------------------------------------
(* Types.                                                                  *)

LEMMA AddTyped ==
  ASSUME NEW S, NEW counts \in [S -> Int], NEW x, NEW n \in Int
  PROVE  /\ Add(counts, x, n) \in [S -> Int]
         /\ \A y \in S : Add(counts, x, n)[y] = counts[y] + (IF x = y THEN n ELSE 0)
  BY DEF Add

ThreadTypes ==
  /\ pc \in [Thread -> Pcs] /\ bprm \in [Thread -> Bprm]
  /\ mm \in [Thread -> {"old", "new"}]
  /\ killed \in [Thread -> BOOLEAN]
  /\ exit_state \in [Thread -> {"alive", "zombie", "dead"}] /\ leader \in Thread
  /\ group_exit_task \in Thread \cup {NoThread} /\ notify_count \in Int
  /\ ptraced \in [Thread -> BOOLEAN]

LEMMA ThreadTypesPreserved ==
  ASSUME TypesOK, [ExecNext]_execVars
  PROVE  ThreadTypes'
  <1>. USE DEF TypesOK, ThreadTypes
  <1>1. ASSUME NEW t \in Thread, ThreadStep(t)
        PROVE  ThreadTypes'
    <2>1. ASSUME NEW label \in Pcs, Quiet(t, label)
          PROVE  ThreadTypes'
      BY <2>1 DEF Quiet, Unmoved, Steps, OwnBprm
    <2>2. CASE FailStep(t)
      BY <2>2 DEF FailStep, Steps, OwnBprm
    <2>3. CASE GivesUp(t) \/ TakesGuard(t) \/ Looks(t)
      BY <2>3 DEF GivesUp, TakesGuard, Looks, Unmoved, Steps, OwnBprm, threadVars, groupVars,
                  safetyVars
    <2>4. CASE Kills(t)
      <3>1. Cardinality(Others(t) \ {leader}) \in Nat
        BY ExecAssumption, FS_Subset, FS_CardinalityType DEF Others
      <3>. QED  BY <2>4, <3>1 DEF Kills, OnlyGoes, Steps, OwnBprm, safetyVars, Alive
    <2>5. CASE TakesOver(t) \/ AsksLeader(t)
      <3>1. /\ exit_state' \in [Thread -> {"alive", "zombie", "dead"}] /\ leader' \in Thread
            /\ notify_count' \in Int /\ group_exit_task' \in Thread \cup {NoThread}
        <4>1. CASE TakesOver(t)
          <5>1. leader' = t /\ notify_count' = 0 /\ group_exit_task' = NoThread
            BY <4>1 DEF TakesOver
          <5>2. exit_state' \in [Thread -> {"alive", "zombie", "dead"}]
            BY <4>1 DEF TakesOver
          <5>. QED  BY <5>1, <5>2
        <4>2. CASE AsksLeader(t)
          BY <4>2 DEF AsksLeader
        <4>. QED  BY <2>5, <4>1, <4>2
      <3>. QED  BY <2>5, <3>1 DEF TakesOver, AsksLeader, OnlyGoes, Steps, OwnBprm, safetyVars
    <2>6. CASE Maps(t) \/ Commits(t) \/ Installs(t) \/ Unlocks(t)
      BY <2>6 DEF Maps, Commits, Installs, Unlocks, OnlyGoes, Steps, OwnBprm, threadVars,
                  groupVars, safetyVars
    <2>7. CASE Errs(t) \/ Unmarks(t) \/ Frees(t)
      BY <2>7 DEF Errs, Unmarks, Frees, OnlyGoes, Steps, OwnBprm, threadVars, groupVars,
                  safetyVars, FatalError
    <2>. QED  BY <1>1, <2>1, <2>2, <2>3, <2>4, <2>5, <2>6, <2>7 DEF ThreadStep
  <1>2. CASE KernelStep
    <2>1. ASSUME NEW u \in Thread, Exit(u) \/ clone(u) \/ ptrace(u)
          PROVE  ThreadTypes'
      <3>1. CASE Exit(u)
        BY <3>1 DEF Exit, unchangedByExit, safetyVars
      <3>2. CASE clone(u)
        BY <3>2 DEF clone, groupVars, safetyVars
      <3>3. CASE ptrace(u)
        BY <3>3 DEF ptrace, unchangedBySafety, threadVars, groupVars
      <3>. QED  BY <2>1, <3>1, <3>2, <3>3
    <2>2. CASE KillGroup
      BY <2>2 DEF KillGroup, Everyone, unchangedByExit, safetyVars
    <2>3. CASE fork_fs \/ down_read \/ up_read \/ UNCHANGED unchangedByModules
      BY <2>3 DEF fork_fs, down_read, up_read, unchangedByModules, unchangedBySafety,
                  threadVars, groupVars, safetyVars
    <2>. QED  BY <1>2, <2>1, <2>2, <2>3 DEF KernelStep
  <1>. QED  BY <1>1, <1>2, StepCases

-----------------------------------------------------------------------------
(* Which step of a thread changes what.                                    *)

Moves(t) ==
  /\ Alive(t) /\ OwnBprm(t) /\ \E label \in Pcs : Steps(t, label)
  /\ UNCHANGED <<ptraced, fs_shared>>
  /\ TakesOver(t) \/ UNCHANGED <<exit_state, leader>>
  /\ Kills(t) \/ Errs(t) \/ UNCHANGED killed
  /\ Errs(t) \/ UNCHANGED group_exit
  /\ Kills(t) \/ TakesOver(t) \/ AsksLeader(t) \/ FailStep(t)
       \/ UNCHANGED <<group_exit_task, notify_count>>
  /\ Maps(t) \/ Frees(t) \/ UNCHANGED mm
  /\ Kills(t) \/ Frees(t) \/ UNCHANGED lost
  /\ TakesGuard(t) \/ Unlocks(t) \/ Frees(t) \/ UNCHANGED cred_guard
  /\ Maps(t) \/ Unlocks(t) \/ FailStep(t) \/ UNCHANGED exec_update
  /\ Looks(t) \/ Unmarks(t) \/ UNCHANGED in_exec

LEMMA ThreadMoves ==
  ASSUME TypesOK, LifeOK, NEW t \in Thread, ThreadStep(t)
  PROVE  Moves(t)
  <1>. USE LabelsArePcs DEF Moves
  <1>0. pc[t] # "user" => Alive(t)
    BY DEF LifeOK, Alive
  <1>1. ASSUME NEW label \in Pcs, Quiet(t, label)
        PROVE  Moves(t)
    BY <1>0, <1>1 DEF Quiet, Unmoved, Edge
  <1>2. CASE FailStep(t)
    BY <1>0, <1>2 DEF FailStep, FailPcs
  <1>3. CASE GivesUp(t)
    BY <1>0, <1>3 DEF GivesUp, Unmoved
  <1>4. CASE TakesGuard(t)
    BY <1>0, <1>4 DEF TakesGuard, threadVars, groupVars, safetyVars
  <1>5. CASE Looks(t)
    BY <1>0, <1>5 DEF Looks, threadVars, groupVars
  <1>6. CASE Kills(t)
    BY <1>0, <1>6 DEF Kills, OnlyGoes, safetyVars
  <1>7. CASE TakesOver(t)
    <2>1. pc[t] # "user"
      BY <1>7 DEF TakesOver
    <2>. QED  BY <1>0, <1>7, <2>1 DEF TakesOver, OnlyGoes, safetyVars
  <1>8. CASE AsksLeader(t)
    BY <1>0, <1>8 DEF AsksLeader, OnlyGoes, safetyVars
  <1>9. CASE Maps(t)
    BY <1>0, <1>9 DEF Maps, OnlyGoes, groupVars, safetyVars
  <1>10. CASE Commits(t)
    BY <1>0, <1>10 DEF Commits, threadVars, groupVars, safetyVars
  <1>11. CASE Installs(t)
    BY <1>0, <1>11 DEF Installs, threadVars, groupVars, safetyVars
  <1>12. CASE Unlocks(t)
    BY <1>0, <1>12 DEF Unlocks, OnlyGoes, threadVars, groupVars, safetyVars
  <1>13. CASE Errs(t)
    BY <1>0, <1>13 DEF Errs, OnlyGoes, safetyVars
  <1>14. CASE Unmarks(t)
    BY <1>0, <1>14 DEF Unmarks, OnlyGoes, threadVars, groupVars
  <1>15. CASE Frees(t)
    BY <1>0, <1>15 DEF Frees, groupVars, safetyVars
  <1>. QED  BY <1>1, <1>2, <1>3, <1>4, <1>5, <1>6, <1>7, <1>8, <1>9, <1>10, <1>11, <1>12,
               <1>13, <1>14, <1>15 DEF ThreadStep

LEMMA KernelKeeps ==
  ASSUME KernelStep
  PROVE  /\ UNCHANGED <<pc, bprm, leader, cred_guard, group_exit_task, in_exec>>
         /\ group_exit => group_exit'
  <1>1. CASE \E u \in Thread : Exit(u)
    BY <1>1 DEF Exit, unchangedByExit, safetyVars
  <1>2. CASE \E u \in Thread : clone(u)
    BY <1>2 DEF clone, groupVars, safetyVars
  <1>3. CASE (\E u \in Thread : ptrace(u)) \/ fork_fs
    BY <1>3 DEF ptrace, fork_fs, unchangedBySafety, threadVars, groupVars
  <1>4. CASE KillGroup
    BY <1>4 DEF KillGroup, unchangedByExit, safetyVars
  <1>5. CASE down_read \/ up_read \/ UNCHANGED unchangedByModules
    BY <1>5 DEF down_read, up_read, unchangedByModules, threadVars, groupVars, safetyVars
  <1>. QED  BY <1>1, <1>2, <1>3, <1>4, <1>5 DEF KernelStep

-----------------------------------------------------------------------------
(* Threads that have exited.                                               *)

LEMMA LifePreserved ==
  ASSUME TypesOK, LifeOK, [ExecNext]_execVars
  PROVE  LifeOK'
  <1>1. ASSUME NEW t \in Thread, ThreadStep(t)
        PROVE  LifeOK'
    <2>1. Moves(t)
      BY <1>1, ThreadMoves
    <2>2. \A u \in Thread : exit_state[u] # "alive" => pc'[u] = "user"
      BY <2>1 DEF Moves, Steps, Alive, LifeOK
    <2>3. CASE UNCHANGED <<exit_state, leader>>
      BY <2>2, <2>3 DEF LifeOK
    <2>4. CASE TakesOver(t) /\ ~UNCHANGED <<exit_state, leader>>
      <3>1. /\ exit_state[leader] = "zombie" /\ leader' = t
            /\ exit_state' = [exit_state EXCEPT ![leader] = "dead"]
        BY <2>4 DEF TakesOver
      <3>2. exit_state'[t] = "alive" /\ \A u \in Thread : exit_state'[u] = "zombie" => u = t
        BY <2>1, <3>1 DEF Moves, Alive, LifeOK, TypesOK
      <3>3. \A u \in Thread : exit_state'[u] # "alive" => exit_state[u] # "alive"
        BY <3>1 DEF TypesOK
      <3>. QED  BY <2>2, <3>1, <3>2, <3>3 DEF LifeOK
    <2>. QED  BY <2>1, <2>3, <2>4 DEF Moves
  <1>2. CASE KernelStep
    <2>1. ASSUME NEW u \in Thread, Exit(u)
          PROVE  LifeOK'
      <3>1. /\ pc[u] = "user" /\ exit_state[u] = "alive" /\ UNCHANGED <<pc, leader>>
            /\ exit_state' = [exit_state EXCEPT ![u] = IF u = leader /\ Others(u) # {}
                                                       THEN "zombie" ELSE "dead"]
        BY <2>1 DEF Exit, unchangedByExit
      <3>2. \A v \in Thread : /\ exit_state'[v] # "alive" => pc'[v] = "user"
                              /\ exit_state'[v] = "zombie" => v = leader'
        BY <3>1 DEF LifeOK, TypesOK
      <3>3. ASSUME exit_state'[leader'] = "dead"
            PROVE  \A v \in Thread : exit_state'[v] = "dead"
        <4>1. CASE u = leader
          <5>1. Others(u) = {}
            BY <3>1, <3>3, <4>1 DEF TypesOK
          <5>. QED  BY <3>1, <4>1, <5>1 DEF Others, TypesOK
        <4>2. CASE u # leader
          BY <3>1, <3>3, <4>2 DEF LifeOK, TypesOK
        <4>. QED  BY <4>1, <4>2
      <3>. QED  BY <3>2, <3>3 DEF LifeOK
    <2>2. ASSUME NEW u \in Thread, clone(u)
          PROVE  LifeOK'
      <3>1. /\ UNCHANGED <<pc, leader>> /\ exit_state' = [exit_state EXCEPT ![u] = "alive"]
            /\ exit_state[u] = "dead" /\ \E parent \in Thread : exit_state[parent] = "alive"
        BY <2>2 DEF clone, Running
      <3>. QED  BY <3>1 DEF LifeOK, TypesOK
    <2>3. ASSUME NEW u \in Thread, ptrace(u)
          PROVE  LifeOK'
      BY <2>3 DEF ptrace, unchangedBySafety, threadVars, LifeOK
    <2>4. CASE KillGroup \/ fork_fs \/ down_read \/ up_read \/ UNCHANGED unchangedByModules
      BY <2>4 DEF KillGroup, fork_fs, down_read, up_read, unchangedByModules,
                  unchangedByExit, unchangedBySafety, threadVars, LifeOK
    <2>. QED  BY <1>2, <2>1, <2>2, <2>3, <2>4 DEF KernelStep
  <1>. QED  BY <1>1, <1>2, StepCases

-----------------------------------------------------------------------------
(* Signals, and the wait in de_thread.                                     *)

\* A thread that waits keeps all others from creating threads, and so does one
\* that is alone.
LEMMA NobodyClones ==
  ASSUME WaitOK, NEW u \in Thread, clone(u)
  PROVE  \A t \in Thread : pc[t] # "user" => pc[t] \notin WaitPcs /\ ~Alone(t)
  <1>1. PICK parent \in Thread : pc[parent] = "user" /\ Alive(parent) /\ ~killed[parent]
    BY DEF clone, Running, Alive
  <1>2. ASSUME NEW t \in Thread, pc[t] # "user"
        PROVE  pc[t] \notin WaitPcs /\ ~Alone(t)
    BY <1>1, <1>2 DEF WaitOK, Waits, Alone, Alive
  <1>. QED  BY <1>2

LEMMA OthersAreFinite ==
  \A t \in Thread : /\ IsFiniteSet(Others(t) \ {leader})
                    /\ Cardinality(Others(t) \ {leader}) = 0 => Others(t) \subseteq {leader}
  <1>1. ASSUME NEW t \in Thread
        PROVE  IsFiniteSet(Others(t) \ {leader})
    BY ExecAssumption, FS_Subset DEF Others
  <1>2. ASSUME NEW t \in Thread, Cardinality(Others(t) \ {leader}) = 0
        PROVE  Others(t) \subseteq {leader}
    BY <1>1, <1>2, FS_EmptySet
  <1>. QED  BY <1>1, <1>2

LEMMA TakesOverAlone ==
  ASSUME TypesOK, LifeOK, WaitOK, NEW t \in Thread, TakesOver(t)
  PROVE  Alone(t)'
  <1>1. pc[t] \in WaitPcs /\ Waits(t) /\ leader' = t
    BY DEF TakesOver, WaitPcs, WaitOK
  <1>2. CASE pc[t] = "wait_for_threads" /\ notify_count = 0 /\ leader = t /\ UNCHANGED exit_state
    <2>1. Cardinality(Others(t) \ {leader}) = 0
      BY <1>1, <1>2 DEF Waits
    <2>2. Others(t) = {}
      BY <1>2, <2>1, OthersAreFinite DEF Others
    <2>. QED  BY <1>1, <1>2, <2>2 DEF Others, Alone
  <1>3. CASE /\ pc[t] = "wait_for_leader" /\ exit_state[leader] = "zombie"
             /\ exit_state' = [exit_state EXCEPT ![leader] = "dead"]
    <2>1. Others(t) \subseteq {leader}
      BY <1>1, <1>3 DEF Waits
    <2>. QED  BY <1>1, <1>3, <2>1 DEF Others, Alone, TypesOK
  <1>. QED  BY <1>2, <1>3 DEF TakesOver

LEMMA KillPreserved ==
  ASSUME TypesOK, LifeOK, KillOK, WaitOK, [ExecNext]_execVars
  PROVE  KillOK'
  <1>1. ASSUME NEW t \in Thread, ThreadStep(t)
        PROVE  KillOK'
    <2>1. Moves(t)
      BY <1>1, ThreadMoves
    <2>2. CASE Kills(t)
      BY <2>2, ExecAssumption DEF Kills, KillOK, Alive, TypesOK
    <2>3. CASE TakesOver(t)
      <3>1. /\ UNCHANGED <<killed, group_exit>> /\ pc[t] \in WaitPcs /\ leader' = t
            /\ group_exit_task' = NoThread
            /\ \A u \in Thread : Alive(u)' => Alive(u)
        BY <2>3 DEF TakesOver, WaitPcs, Alive, TypesOK
      <3>2. group_exit_task = t /\ t # NoThread
        BY <3>1, ExecAssumption DEF WaitOK
      <3>3. \A u \in Thread \ {t} : ~Alive(u)'
        BY <2>3, TakesOverAlone DEF Alone, Alive
      <3>4. killed[t] => group_exit
        BY <2>1, <3>2 DEF KillOK, Moves
      <3>. QED  BY <3>1, <3>3, <3>4 DEF KillOK
    <2>4. CASE FailStep(t)
      <3>1. UNCHANGED <<killed, exit_state, group_exit>>
        BY <2>4 DEF FailStep
      <3>2. CASE pc[t] \in {"schedule", "schedule_leader"}
        <4>1. killed[t] /\ group_exit_task = t
          BY <2>4, <3>2 DEF FailStep, WaitOK, WaitPcs
        <4>2. group_exit
          BY <2>1, <4>1 DEF KillOK, Moves
        <4>. QED  BY <3>1, <4>2 DEF KillOK, Alive
      <3>3. CASE pc[t] \notin {"schedule", "schedule_leader"}
        BY <2>4, <3>1, <3>3 DEF FailStep, KillOK, Alive
      <3>. QED  BY <3>2, <3>3
    <2>5. CASE Errs(t)
      BY <2>5 DEF Errs, KillOK, Alive, TypesOK, FatalError
    <2>6. CASE AsksLeader(t)
      BY <2>6 DEF AsksLeader, KillOK, Alive
    <2>7. CASE UNCHANGED <<killed, group_exit, group_exit_task, exit_state>>
      BY <2>7 DEF KillOK, Alive
    <2>. QED  BY <2>1, <2>2, <2>3, <2>4, <2>5, <2>6, <2>7 DEF Moves
  <1>2. CASE KernelStep
    <2>1. ASSUME NEW u \in Thread, Exit(u)
          PROVE  KillOK'
      BY <2>1 DEF Exit, KillOK, Alive, TypesOK
    <2>2. ASSUME NEW u \in Thread, clone(u)
          PROVE  KillOK'
      BY <2>2 DEF clone, KillOK, Alive, TypesOK, groupVars
    <2>3. CASE KillGroup
      BY <2>3 DEF KillGroup, Everyone, KillOK, Alive, TypesOK
    <2>4. ASSUME NEW u \in Thread, ptrace(u)
          PROVE  KillOK'
      BY <2>4 DEF ptrace, unchangedBySafety, threadVars, groupVars, KillOK, Alive
    <2>5. CASE fork_fs \/ down_read \/ up_read \/ UNCHANGED unchangedByModules
      BY <2>5 DEF fork_fs, down_read, up_read, unchangedByModules, unchangedBySafety,
                  threadVars, groupVars, KillOK, Alive
    <2>. QED  BY <1>2, <2>1, <2>2, <2>3, <2>4, <2>5 DEF KernelStep
  <1>. QED  BY <1>1, <1>2, StepCases

\* Nothing that t waits for changes, except that it goes from one function to
\* the next.
LEMMA StillWaits ==
  ASSUME NEW t \in Thread, Waits(t), UNCHANGED <<exit_state, leader, notify_count>>,
         \A u \in Thread : killed[u] => killed'[u],
         \/ pc'[t] = pc[t]
         \/ {pc[t], pc'[t]} \subseteq {"wait_for_threads", "schedule"}
         \/ {pc[t], pc'[t]} \subseteq {"wait_for_leader", "schedule_leader"}
  PROVE  Waits(t)'
  BY DEF Waits, Others, Alive

LEMMA WaitPreserved ==
  ASSUME TypesOK, LifeOK, WaitOK, [ExecNext]_execVars
  PROVE  WaitOK'
  <1>. USE DEF WaitPcs
  <1>1. ASSUME NEW t \in Thread, ThreadStep(t)
        PROVE  WaitOK'
    <2>1. Moves(t)
      BY <1>1, ThreadMoves
    <2>2. /\ \A u \in Thread : pc[u] \in WaitPcs => Waits(u)
          /\ \A u \in Thread : pc[u] \in WaitPcs <=> group_exit_task = u
          /\ \A u \in Thread \ {t} : pc'[u] = pc[u]
      BY <2>1 DEF WaitOK, Moves, Steps
    <2>3. ASSUME NEW label \in Pcs, Quiet(t, label)
          PROVE  WaitOK'
      <3>1. /\ UNCHANGED <<exit_state, leader, notify_count, killed, group_exit_task>>
            /\ pc'[t] = label
        BY <2>3 DEF Quiet, Unmoved, Steps
      <3>2. \A u \in Thread \ {t} : pc[u] \in WaitPcs => Waits(u)'
        BY <2>2, <3>1, StillWaits
      <3>3. pc[t] \in WaitPcs <=> label \in WaitPcs
        BY <2>3 DEF Quiet, Edge
      <3>4. ASSUME pc[t] \in WaitPcs
            PROVE  Waits(t)'
        <4>1. CASE pc[t] = "wait_for_threads" /\ label = "wait_for_leader"
          <5>1. notify_count = 0 /\ leader # t /\ Cardinality(Others(t) \ {leader}) = 0
            BY <2>2, <2>3, <4>1 DEF Quiet, Edge, Waits
          <5>2. Others(t) \subseteq {leader}
            BY <5>1, OthersAreFinite
          <5>. QED  BY <2>2, <3>1, <3>4, <4>1, <5>1, <5>2 DEF Waits, Others, Alive
        <4>2. CASE ~(pc[t] = "wait_for_threads" /\ label = "wait_for_leader")
          <5>1. \/ {pc[t], pc'[t]} \subseteq {"wait_for_threads", "schedule"}
                \/ {pc[t], pc'[t]} \subseteq {"wait_for_leader", "schedule_leader"}
            BY <2>3, <3>1, <3>4, <4>2 DEF Quiet, Edge
          <5>. QED  BY <2>2, <3>1, <3>4, <5>1, StillWaits
        <4>. QED  BY <4>1, <4>2
      <3>. QED  BY <2>2, <3>1, <3>2, <3>3, <3>4 DEF WaitOK
    <2>4. CASE FailStep(t) \/ TakesOver(t)
      <3>1. pc'[t] \notin WaitPcs
        BY <2>4 DEF FailStep, TakesOver, OnlyGoes, Steps
      <3>2. CASE pc[t] \in WaitPcs
        <4>1. group_exit_task' = NoThread
          BY <2>4, <3>2 DEF FailStep, FailPcs, TakesOver
        <4>2. \A u \in Thread : pc'[u] \notin WaitPcs
          BY <2>2, <3>1, <3>2
        <4>. QED  BY <4>1, <4>2, ExecAssumption DEF WaitOK
      <3>3. CASE pc[t] \notin WaitPcs
        <4>1. UNCHANGED <<exit_state, leader, notify_count, killed, group_exit_task>>
          BY <2>4, <3>3 DEF FailStep, TakesOver
        <4>2. \A u \in Thread \ {t} : pc[u] \in WaitPcs => Waits(u)'
          BY <2>2, <4>1, StillWaits
        <4>. QED  BY <2>2, <3>1, <3>3, <4>1, <4>2 DEF WaitOK
      <3>. QED  BY <3>2, <3>3
    <2>5. CASE Kills(t)
      <3>1. /\ pc'[t] = "wait_for_threads" /\ group_exit_task = NoThread /\ group_exit_task' = t
            /\ UNCHANGED <<exit_state, leader>> /\ notify_count' = Cardinality(Others(t) \ {leader})
            /\ \A u \in Thread \ {t} : Alive(u) => killed'[u]
        BY <2>5 DEF Kills, OnlyGoes, Steps, TypesOK
      <3>2. \A u \in Thread \ {t} : pc'[u] \notin WaitPcs
        BY <2>2, <3>1, ExecAssumption
      <3>3. Waits(t)'
        BY <3>1 DEF Waits, Others, Alive
      <3>. QED  BY <3>1, <3>2, <3>3 DEF WaitOK
    <2>6. CASE AsksLeader(t)
      <3>1. /\ pc[t] = "wait_for_leader" /\ pc'[t] = "schedule_leader" /\ notify_count' = -1
            /\ UNCHANGED <<exit_state, leader, killed, group_exit_task>>
        BY <2>6 DEF AsksLeader, OnlyGoes, Steps
      <3>2. \A u \in Thread \ {t} : pc'[u] \notin WaitPcs
        BY <2>2, <3>1
      <3>3. Waits(t)'
        <4>1. Waits(t) /\ Others(t)' = Others(t)
          BY <2>2, <3>1 DEF Others
        <4>2. notify_count' <= 0
          BY <3>1
        <4>. QED  BY <3>1, <4>1, <4>2 DEF Waits, Alive
      <3>. QED  BY <2>2, <3>1, <3>2, <3>3 DEF WaitOK
    <2>7. CASE \/ GivesUp(t) \/ TakesGuard(t) \/ Looks(t) \/ Maps(t) \/ Commits(t) \/ Installs(t)
               \/ Unlocks(t) \/ Errs(t) \/ Unmarks(t) \/ Frees(t)
      <3>1. pc[t] \notin WaitPcs /\ pc'[t] \notin WaitPcs
        BY <2>7 DEF GivesUp, TakesGuard, Looks, Maps, Commits, Installs, Unlocks, Errs, Unmarks,
                    Frees, OnlyGoes, Steps
      <3>2. /\ UNCHANGED <<exit_state, leader, notify_count, group_exit_task>>
            /\ \A u \in Thread : killed[u] => killed'[u]
        <4>1. CASE GivesUp(t) \/ TakesGuard(t) \/ Looks(t) \/ Maps(t) \/ Commits(t)
          BY <4>1 DEF GivesUp, TakesGuard, Looks, Maps, Commits, Unmoved, threadVars, groupVars
        <4>2. CASE Installs(t) \/ Unlocks(t) \/ Unmarks(t) \/ Frees(t)
          BY <4>2 DEF Installs, Unlocks, Unmarks, Frees, threadVars, groupVars
        <4>3. CASE Errs(t)
          BY <4>3 DEF Errs, TypesOK
        <4>. QED  BY <2>7, <4>1, <4>2, <4>3
      <3>3. \A u \in Thread \ {t} : pc[u] \in WaitPcs => Waits(u)'
        BY <2>2, <3>2, StillWaits
      <3>. QED  BY <2>2, <3>1, <3>2, <3>3 DEF WaitOK
    <2>. QED  BY <1>1, <2>3, <2>4, <2>5, <2>6, <2>7 DEF ThreadStep
  <1>2. CASE KernelStep
    <2>1. ASSUME NEW u \in Thread, Exit(u)
          PROVE  WaitOK'
      <3>1. /\ pc[u] = "user" /\ Alive(u)
            /\ UNCHANGED <<pc, leader, killed, group_exit_task>>
            /\ exit_state' = [exit_state EXCEPT ![u] = IF u = leader /\ Others(u) # {}
                                                       THEN "zombie" ELSE "dead"]
            /\ notify_count' = IF u # leader /\ notify_count > 0 THEN notify_count - 1
                                                                 ELSE notify_count
        BY <2>1 DEF Exit, unchangedByExit, Alive
      <3>2. ASSUME NEW t \in Thread, pc[t] \in WaitPcs
            PROVE  Waits(t)'
        <4>1. t # u /\ Alive(t) /\ Waits(t) /\ u \in Others(t) /\ t \in Others(u)
          BY <3>1, <3>2 DEF WaitOK, LifeOK, Alive, Others
        <4>2. \A v \in Thread \ {t} : Alive(v)' => killed'[v]
          BY <3>1, <4>1 DEF Waits, Alive, TypesOK
        <4>3. CASE u = leader
          <5>1. exit_state'[u] = "zombie" /\ notify_count' = notify_count
            BY <3>1, <4>1, <4>3 DEF TypesOK
          <5>2. Others(t)' = Others(t)
            BY <3>1, <4>1, <5>1 DEF Others, TypesOK, Alive
          <5>. QED  BY <3>1, <4>1, <4>2, <5>1, <5>2 DEF Waits
        <4>4. CASE u # leader
          <5>1. Others(t)' = Others(t) \ {u}
            BY <3>1, <4>1, <4>4 DEF Others, TypesOK, Alive
          <5>. DEFINE S == Others(t) \ {leader}
          <5>2. /\ IsFiniteSet(S) /\ u \in S /\ Cardinality(S) \in Nat /\ Cardinality(S) # 0
                /\ Cardinality(S \ {u}) = Cardinality(S) - 1
            <6>1. IsFiniteSet(S) /\ u \in S
              BY <4>1, <4>4, OthersAreFinite
            <6>. HIDE DEF S
            <6>. QED  BY <6>1, FS_CardinalityType, FS_RemoveElement, FS_EmptySet
          <5>3. pc[t] \in {"wait_for_threads", "schedule"}
            BY <3>2, <4>1, <4>4 DEF Waits
          <5>4. S \ {u} = Others(t)' \ {leader}
            BY <5>1
          <5>5. notify_count = Cardinality(S)
            BY <4>1, <5>3 DEF Waits
          <5>. HIDE DEF S
          <5>6. notify_count' = Cardinality(S \ {u})
            BY <3>1, <4>4, <5>2, <5>5
          <5>. QED  BY <3>1, <4>2, <5>3, <5>4, <5>6 DEF Waits
        <4>. QED  BY <4>3, <4>4
      <3>. QED  BY <3>1, <3>2 DEF WaitOK
    <2>2. ASSUME NEW u \in Thread, clone(u)
          PROVE  WaitOK'
      <3>1. UNCHANGED <<pc, group_exit_task>>
        BY <2>2 DEF clone, groupVars
      <3>2. \A t \in Thread : pc[t] \notin WaitPcs
        BY <2>2, NobodyClones
      <3>. QED  BY <3>1, <3>2 DEF WaitOK
    <2>3. CASE KillGroup
      <3>1. /\ UNCHANGED <<pc, exit_state, leader, notify_count, group_exit_task>>
            /\ \A u \in Thread : killed[u] => killed'[u]
        BY <2>3 DEF KillGroup, Everyone, unchangedByExit
      <3>. QED  BY <3>1, StillWaits DEF WaitOK
    <2>4. CASE \/ \E u \in Thread : ptrace(u)
               \/ fork_fs \/ down_read \/ up_read \/ UNCHANGED unchangedByModules
      <3>1. UNCHANGED <<pc, exit_state, leader, notify_count, group_exit_task, killed>>
        BY <2>4 DEF ptrace, fork_fs, down_read, up_read, unchangedByModules, unchangedBySafety,
                    threadVars, groupVars
      <3>. QED  BY <3>1, StillWaits DEF WaitOK
    <2>. QED  BY <1>2, <2>1, <2>2, <2>3, <2>4 DEF KernelStep
  <1>. QED  BY <1>1, <1>2, StepCases

-----------------------------------------------------------------------------
(* The mutex.                                                              *)

LEMMA CredPreserved ==
  ASSUME TypesOK, LifeOK, CredOK, [ExecNext]_execVars
  PROVE  CredOK'
  <1>. DEFINE C(t) ==
         /\ pc[t] \in CredPcs => bprm[t].cred
         /\ pc[t] \in StartPcs \cup {"install_execfd", "setup_new_exec", "start_thread"} => ~bprm[t].cred
         /\ bprm[t].cred \/ pc[t] \in {"install_execfd", "setup_new_exec"} => cred_guard = t
  <1>0. \A t \in Thread : C(t)
    BY DEF CredOK
  <1>. USE DEF CredPcs, CheckedPcs, WaitPcs, StartPcs
  <1>1. ASSUME NEW t \in Thread, ThreadStep(t)
        PROVE  CredOK'
    <2>1. Moves(t)
      BY <1>1, ThreadMoves
    <2>2. \A u \in Thread \ {t} : pc'[u] = pc[u] /\ bprm'[u] = bprm[u]
      BY <2>1 DEF Moves, Steps, OwnBprm
    <2>3. ASSUME UNCHANGED cred_guard, C(t)'
          PROVE  CredOK'
      <3>1. ASSUME NEW u \in Thread \ {t}
            PROVE  C(u)'
        BY <1>0, <2>2, <2>3
      <3>. QED  BY <2>3, <3>1 DEF CredOK
    <2>4. ASSUME NEW label \in Pcs, Quiet(t, label)
          PROVE  CredOK'
      <3>1. UNCHANGED cred_guard /\ pc'[t] = label /\ bprm'[t].cred = bprm[t].cred
        BY <2>4 DEF Quiet, Unmoved, Steps, Becomes
      <3>2. C(t)'
        BY <1>0, <2>4, <3>1 DEF Quiet, Edge
      <3>. QED  BY <2>3, <3>1, <3>2
    <2>5. CASE FailStep(t)
      <3>1. UNCHANGED cred_guard /\ pc'[t] = "out" /\ bprm'[t].cred = bprm[t].cred
        BY <2>5 DEF FailStep, Steps
      <3>. QED  BY <1>0, <2>3, <3>1
    <2>6. CASE GivesUp(t)
      <3>1. UNCHANGED cred_guard /\ pc'[t] = "free_bprm" /\ bprm'[t].cred = bprm[t].cred
        BY <2>6 DEF GivesUp, Steps, KeepsCred, Unmoved
      <3>. QED  BY <1>0, <2>3, <3>1
    <2>7. CASE TakesGuard(t)
      <3>1. /\ cred_guard = NoThread /\ cred_guard' = t
            /\ pc'[t] = "check_unsafe_exec" /\ bprm'[t].cred
        BY <2>7 DEF TakesGuard, Steps
      <3>2. \A u \in Thread \ {t} : C(u)'
        BY <1>0, <2>2, <3>1, ExecAssumption
      <3>3. C(t)'
        BY <3>1
      <3>. QED  BY <3>2, <3>3 DEF CredOK
    <2>8. CASE Looks(t)
      <3>1. /\ UNCHANGED cred_guard /\ pc[t] = "check_unsafe_exec" /\ pc'[t] = "do_open_execat"
            /\ bprm'[t].cred = bprm[t].cred
        BY <2>8 DEF Looks, Steps, KeepsCred
      <3>. QED  BY <1>0, <2>3, <3>1
    <2>9. CASE Kills(t) \/ TakesOver(t) \/ AsksLeader(t) \/ Maps(t) \/ Errs(t) \/ Unmarks(t)
      <3>1. /\ UNCHANGED cred_guard /\ UNCHANGED bprm
            /\ \/ {pc[t], pc'[t]} \subseteq CredPcs
               \/ {pc[t], pc'[t]} \subseteq {"out", "out_unmark", "free_bprm"}
        BY <2>9 DEF Kills, TakesOver, AsksLeader, Maps, Errs, Unmarks, OnlyGoes, Steps
      <3>. QED  BY <1>0, <2>3, <3>1
    <2>10. CASE Commits(t)
      <3>1. /\ UNCHANGED cred_guard /\ ~bprm'[t].cred /\ pc[t] = "commit_creds"
            /\ pc'[t] = "install_execfd"
        BY <2>10 DEF Commits, Steps
      <3>. QED  BY <1>0, <2>3, <3>1
    <2>11. CASE Installs(t)
      <3>1. /\ UNCHANGED cred_guard /\ bprm'[t].cred = bprm[t].cred /\ pc[t] = "install_execfd"
            /\ pc'[t] = "setup_new_exec"
        BY <2>11 DEF Installs, Steps, KeepsCred
      <3>. QED  BY <1>0, <2>3, <3>1
    <2>12. CASE Unlocks(t)
      <3>1. /\ cred_guard' = NoThread /\ pc[t] = "setup_new_exec" /\ pc'[t] = "start_thread"
            /\ UNCHANGED bprm /\ cred_guard = t
        BY <1>0, <2>12 DEF Unlocks, OnlyGoes, Steps
      <3>2. \A u \in Thread \ {t} : C(u)'
        BY <1>0, <2>2, <3>1
      <3>3. C(t)'
        BY <1>0, <3>1
      <3>. QED  BY <3>2, <3>3 DEF CredOK
    <2>13. CASE Frees(t)
      <3>1. /\ cred_guard' = IF bprm[t].cred THEN NoThread ELSE cred_guard
            /\ pc'[t] = "user" /\ ~bprm'[t].cred
        BY <2>13 DEF Frees, Steps, NoBprm
      <3>2. \A u \in Thread \ {t} : C(u)'
        BY <1>0, <2>2, <3>1
      <3>3. C(t)'
        BY <3>1
      <3>. QED  BY <3>2, <3>3 DEF CredOK
    <2>. QED  BY <1>1, <2>4, <2>5, <2>6, <2>7, <2>8, <2>9, <2>10, <2>11, <2>12, <2>13
              DEF ThreadStep
  <1>2. CASE KernelStep
    <2>1. UNCHANGED <<pc, bprm, cred_guard>>
      BY <1>2, KernelKeeps
    <2>. QED  BY <1>0, <2>1 DEF CredOK
  <1>. QED  BY <1>1, <1>2, StepCases

LEMMA GuardPreserved ==
  ASSUME TypesOK, LifeOK, CredOK, KillOK, WaitOK, AloneOK, GuardOK, [ExecNext]_execVars
  PROVE  GuardOK'
  <1>. DEFINE G(t) ==
         cred_guard = t =>
           \/ bprm[t].cred \/ pc[t] \in {"install_execfd", "setup_new_exec"}
           \/ pc[t] = "out" /\ bprm[t].point_of_no_return
           \/ group_exit
  <1>0. \A t \in Thread : G(t)
    BY DEF GuardOK
  <1>1. ASSUME NEW t \in Thread, ThreadStep(t)
        PROVE  GuardOK'
    <2>1. Moves(t)
      BY <1>1, ThreadMoves
    <2>2. \A u \in Thread \ {t} : pc'[u] = pc[u] /\ bprm'[u] = bprm[u]
      BY <2>1 DEF Moves, Steps, OwnBprm
    <2>3. group_exit => group_exit'
      BY <2>1 DEF Moves, Errs
    <2>4. ASSUME G(t)', cred_guard' \in {cred_guard, NoThread, t}
          PROVE  GuardOK'
      <3>1. ASSUME NEW u \in Thread \ {t}
            PROVE  G(u)'
        BY <1>0, <2>2, <2>3, <2>4, ExecAssumption
      <3>. QED  BY <2>4, <3>1 DEF GuardOK
    <2>5. ASSUME NEW label \in Pcs, Quiet(t, label)
          PROVE  GuardOK'
      <3>1. /\ UNCHANGED <<cred_guard, group_exit>> /\ bprm'[t].cred = bprm[t].cred
            /\ pc[t] \notin {"install_execfd", "setup_new_exec", "out"}
        BY <2>5 DEF Quiet, Unmoved, Edge, Becomes
      <3>. QED  BY <1>0, <2>4, <3>1
    <2>6. CASE FailStep(t)
      <3>1. /\ UNCHANGED <<cred_guard, group_exit>> /\ bprm'[t].cred = bprm[t].cred
            /\ bprm'[t].point_of_no_return = bprm[t].point_of_no_return
            /\ pc[t] \notin {"setup_new_exec", "out"} /\ pc'[t] = "out"
            /\ pc[t] = "install_execfd" => bprm[t].point_of_no_return
        BY <2>6 DEF FailStep, FailPcs, Steps, AloneOK, Fate, AlonePcs, NewPcs
      <3>. QED  BY <1>0, <2>4, <3>1
    <2>7. CASE GivesUp(t) \/ Looks(t)
      <3>1. /\ UNCHANGED <<cred_guard, group_exit>> /\ bprm'[t].cred = bprm[t].cred
            /\ pc[t] \notin {"install_execfd", "setup_new_exec", "out"}
        BY <2>7 DEF GivesUp, Looks, KeepsCred, Unmoved, groupVars
      <3>. QED  BY <1>0, <2>4, <3>1
    <2>8. CASE TakesGuard(t)
      BY <2>4, <2>8 DEF TakesGuard
    <2>9. CASE Kills(t) \/ TakesOver(t) \/ AsksLeader(t) \/ Maps(t) \/ Unmarks(t)
      <3>1. /\ UNCHANGED <<cred_guard, group_exit, bprm>>
            /\ pc[t] \notin {"install_execfd", "setup_new_exec", "out"}
        BY <2>9 DEF Kills, TakesOver, AsksLeader, Maps, Unmarks, OnlyGoes, groupVars
      <3>. QED  BY <1>0, <2>4, <3>1
    <2>10. CASE Commits(t)
      <3>1. cred_guard' = cred_guard /\ pc'[t] = "install_execfd"
        BY <2>10 DEF Commits, Steps
      <3>. QED  BY <2>4, <3>1
    <2>11. CASE Installs(t)
      <3>1. cred_guard' = cred_guard /\ pc'[t] = "setup_new_exec"
        BY <2>11 DEF Installs, Steps
      <3>. QED  BY <2>4, <3>1
    <2>12. CASE Unlocks(t)
      BY <2>4, <2>12, ExecAssumption DEF Unlocks
    <2>13. CASE Errs(t)
      <3>1. /\ UNCHANGED <<cred_guard, bprm>> /\ pc[t] = "out"
            /\ group_exit' = (group_exit \/ FatalError(t))
        BY <2>13 DEF Errs, OnlyGoes
      <3>2. ASSUME cred_guard = t, ~bprm[t].cred, ~group_exit
            PROVE  FatalError(t)
        <4>1. bprm[t].point_of_no_return
          BY <1>0, <3>1, <3>2
        <4>2. Alone(t)
          BY <3>1, <3>2 DEF AloneOK, Fate
        <4>3. ~killed[t]
          <5>1. ASSUME killed[t]
                PROVE  FALSE
            <6>1. group_exit_task \notin {NoThread, t}
              BY <2>1, <3>2, <5>1 DEF KillOK, Moves
            <6>2. PICK u \in Thread \ {t} : group_exit_task = u
              BY <6>1 DEF TypesOK
            <6>3. pc[u] # "user"
              BY <6>2 DEF WaitOK, WaitPcs
            <6>. QED  BY <4>2, <6>3 DEF LifeOK, Alone
          <5>. QED  BY <5>1
        <4>. QED  BY <4>1, <4>3 DEF FatalError
      <3>. QED  BY <2>4, <3>1, <3>2
    <2>14. CASE Frees(t)
      <3>1. /\ cred_guard' = IF bprm[t].cred THEN NoThread ELSE cred_guard
            /\ pc[t] = "free_bprm" /\ UNCHANGED group_exit
        BY <2>14 DEF Frees, groupVars
      <3>. QED  BY <1>0, <2>4, <3>1, ExecAssumption
    <2>. QED  BY <1>1, <2>5, <2>6, <2>7, <2>8, <2>9, <2>10, <2>11, <2>12, <2>13, <2>14
              DEF ThreadStep
  <1>2. CASE KernelStep
    <2>1. UNCHANGED <<pc, bprm, cred_guard>> /\ (group_exit => group_exit')
      BY <1>2, KernelKeeps
    <2>. QED  BY <1>0, <2>1 DEF GuardOK
  <1>. QED  BY <1>1, <1>2, StepCases

-----------------------------------------------------------------------------
(* The locks, and what check_unsafe_exec has seen.                         *)

LEMMA UpdatePreserved ==
  ASSUME TypesOK, LifeOK, UpdateOK, [ExecNext]_execVars
  PROVE  UpdateOK'
  <1>1. ASSUME NEW t \in Thread, ThreadStep(t)
        PROVE  UpdateOK'
    <2>1. Moves(t)
      BY <1>1, ThreadMoves
    <2>2. \A u \in Thread \ {t} : pc'[u] = pc[u]
      BY <2>1 DEF Moves, Steps
    <2>3. CASE Maps(t)
      <3>1. exec_update' = t /\ pc'[t] = "commit_creds"
        BY <2>3 DEF Maps, OnlyGoes, Steps
      <3>. QED  BY <3>1 DEF UpdateOK
    <2>4. CASE Unlocks(t)
      BY <2>4, ExecAssumption DEF Unlocks, UpdateOK
    <2>5. CASE FailStep(t)
      <3>1. /\ exec_update' \in {exec_update, NoThread}
            /\ pc[t] \in {"commit_creds", "install_execfd"} => exec_update' = NoThread
            /\ pc[t] # "setup_new_exec"
        BY <2>5 DEF FailStep, FailPcs
      <3>. QED  BY <2>2, <3>1, ExecAssumption DEF UpdateOK
    <2>6. CASE UNCHANGED exec_update /\ ~FailStep(t)
      <3>1. CASE pc[t] \notin {"commit_creds", "install_execfd", "setup_new_exec"}
        BY <2>2, <2>6, <3>1 DEF UpdateOK
      <3>2. CASE /\ pc[t] \in {"commit_creds", "install_execfd", "setup_new_exec"}
                 /\ pc'[t] \in {"install_execfd", "setup_new_exec"}
        BY <2>2, <2>6, <3>2 DEF UpdateOK
      <3>3. CASE Unlocks(t)
        BY <2>4, <3>3
      <3>. QED  BY <1>1, <2>6, <3>1, <3>2, <3>3
                DEF ThreadStep, Quiet, Edge, GivesUp, TakesGuard, Looks, Kills, TakesOver, AsksLeader,
                    Maps, Commits, Installs, Errs, Unmarks, Frees, Steps
    <2>. QED  BY <2>1, <2>3, <2>4, <2>5, <2>6 DEF Moves
  <1>2. CASE KernelStep
    <2>1. UNCHANGED pc /\ exec_update' \in {exec_update, NoThread, "reader"}
      BY <1>2 DEF KernelStep, Exit, clone, ptrace, KillGroup, fork_fs, down_read, up_read,
                  unchangedByModules, unchangedBySafety, unchangedByExit
    <2>. QED  BY <2>1, ExecAssumption DEF UpdateOK
  <1>. QED  BY <1>1, <1>2, StepCases

LEMMA SeenPreserved ==
  ASSUME TypesOK, LifeOK, CredOK, AloneOK, SeenOK, [ExecNext]_execVars
  PROVE  SeenOK'
  <1>. DEFINE S(t) ==
         pc[t] \in CheckedPcs =>
           /\ ptraced[t] => "PTRACE" \in bprm[t].unsafe
           /\ "SHARE" \in bprm[t].unsafe \/ (in_exec /\ ~fs_shared)
  <1>0. \A t \in Thread : S(t)
    BY DEF SeenOK
  <1>c. \A t \in Thread : pc[t] \in CheckedPcs => cred_guard = t /\ Alive(t)
    BY DEF CredOK, LifeOK, Alive, CredPcs, CheckedPcs, WaitPcs
  <1>1. ASSUME NEW t \in Thread, ThreadStep(t)
        PROVE  SeenOK'
    <2>1. Moves(t)
      BY <1>1, ThreadMoves
    <2>2. /\ \A u \in Thread \ {t} : pc'[u] = pc[u] /\ bprm'[u] = bprm[u]
          /\ UNCHANGED <<ptraced, fs_shared>>
      BY <2>1 DEF Moves, Steps, OwnBprm
    <2>3. CASE Looks(t)
      <3>1. S(t)'
        BY <2>2, <2>3 DEF Looks
      <3>2. \A u \in Thread \ {t} : S(u)'
        BY <1>0, <2>2, <2>3 DEF Looks
      <3>. QED  BY <3>1, <3>2 DEF SeenOK
    <2>4. CASE Unmarks(t)
      <3>1. pc[t] = "out_unmark" /\ pc'[t] = "free_bprm"
        BY <2>4 DEF Unmarks, OnlyGoes, Steps
      <3>2. \A u \in Thread \ {t} : pc[u] \notin CheckedPcs
        <4>1. CASE bprm[t].cred
          BY <1>c, <4>1 DEF CredOK
        <4>2. CASE mm[t] = "new"
          <5>1. Alone(t)
            BY <3>1, <4>2 DEF AloneOK, Fate
          <5>. QED  BY <1>c, <5>1 DEF Alone, Alive
        <4>. QED  BY <3>1, <4>1, <4>2 DEF AloneOK, Fate
      <3>. QED  BY <2>2, <3>1, <3>2 DEF SeenOK, CheckedPcs, WaitPcs
    <2>5. CASE UNCHANGED in_exec /\ ~Looks(t)
      <3>1. pc'[t] \in CheckedPcs => pc[t] \in CheckedPcs /\ bprm'[t].unsafe = bprm[t].unsafe
        <4>. USE DEF CheckedPcs, WaitPcs
        <4>1. ASSUME NEW label \in Pcs, Quiet(t, label)
              PROVE  pc'[t] \in CheckedPcs => pc[t] \in CheckedPcs /\ bprm'[t].unsafe = bprm[t].unsafe
          BY <4>1 DEF Quiet, Edge, Steps, Becomes
        <4>2. CASE FailStep(t) \/ GivesUp(t) \/ TakesGuard(t)
          BY <4>2 DEF FailStep, GivesUp, TakesGuard, Steps
        <4>3. CASE Kills(t) \/ TakesOver(t) \/ AsksLeader(t) \/ Maps(t)
          BY <4>3 DEF Kills, TakesOver, AsksLeader, Maps, OnlyGoes, Steps
        <4>4. CASE Commits(t) \/ Installs(t) \/ Unlocks(t) \/ Errs(t) \/ Unmarks(t) \/ Frees(t)
          BY <4>4 DEF Commits, Installs, Unlocks, Errs, Unmarks, Frees, OnlyGoes, Steps
        <4>. QED  BY <1>1, <2>5, <4>1, <4>2, <4>3, <4>4 DEF ThreadStep
      <3>2. S(t)'
        BY <1>0, <2>2, <2>5, <3>1
      <3>3. \A u \in Thread \ {t} : S(u)'
        BY <1>0, <2>2, <2>5
      <3>. QED  BY <3>2, <3>3 DEF SeenOK
    <2>. QED  BY <2>1, <2>3, <2>4, <2>5 DEF Moves
  <1>2. CASE KernelStep
    <2>1. UNCHANGED <<pc, bprm, in_exec>>
      BY <1>2, KernelKeeps
    <2>2. ASSUME NEW u \in Thread, ptrace(u)
          PROVE  SeenOK'
      <3>1. /\ ptraced' = [ptraced EXCEPT ![u] = ~@] /\ UNCHANGED fs_shared
            /\ ptraced[u] \/ cred_guard = NoThread
        BY <2>2 DEF ptrace
      <3>2. \A t \in Thread : pc[t] \in CheckedPcs /\ ptraced'[t] => ptraced[t]
        BY <1>c, <3>1, ExecAssumption DEF TypesOK
      <3>. QED  BY <1>0, <2>1, <3>1, <3>2 DEF SeenOK
    <2>3. CASE fork_fs
      <3>1. UNCHANGED ptraced /\ fs_shared' = ~fs_shared /\ (fs_shared \/ ~in_exec)
        BY <2>3 DEF fork_fs
      <3>. QED  BY <1>0, <2>1, <3>1 DEF SeenOK
    <2>4. CASE UNCHANGED <<ptraced, fs_shared>>
      BY <1>0, <2>1, <2>4 DEF SeenOK
    <2>5. \/ \E u \in Thread : ptrace(u)
          \/ fork_fs \/ UNCHANGED <<ptraced, fs_shared>>
      BY <1>2 DEF KernelStep, Exit, clone, KillGroup, down_read, up_read, unchangedByModules,
                  unchangedByExit, safetyVars
    <2>. QED  BY <2>2, <2>3, <2>4, <2>5
  <1>. QED  BY <1>1, <1>2, StepCases

-----------------------------------------------------------------------------
(* After de_thread: nobody else is left to disturb the thread.             *)

LEMMA AlonePersists ==
  ASSUME TypesOK, NEW t \in Thread, Moves(t), Alone(t)
  PROVE  Alone(t)'
  <1>1. CASE UNCHANGED <<exit_state, leader>>
    BY <1>1 DEF Alone
  <1>2. CASE TakesOver(t)
    BY <1>2 DEF TakesOver, Alone, TypesOK
  <1>. QED  BY <1>1, <1>2 DEF Moves

LEMMA FateByQuiet ==
  ASSUME TypesOK, LifeOK, CredOK, NEW t \in Thread, Fate(t), NEW label \in Pcs, Quiet(t, label)
  PROVE  Fate(t)'
  <1>. USE DEF CredPcs, CheckedPcs, WaitPcs, AlonePcs, NewPcs, OutPcs, Fate
  <1>1. /\ UNCHANGED <<mm, killed, exit_state, leader>> /\ pc'[t] = label /\ label # "user"
        /\ bprm'[t].cred = bprm[t].cred
    BY DEF Quiet, Unmoved, Steps, Becomes, Edge
  <1>2. bprm[t].point_of_no_return \/ label = "de_thread" => bprm'[t].point_of_no_return
    BY DEF Quiet, Becomes
  <1>3. FailsAt(t, label) => bprm'[t].failed
    BY DEF Quiet, Becomes
  <1>4. ~FailsAt(t, label) /\ ~bprm[t].failed => ~bprm'[t].failed
    BY DEF Quiet, Becomes
  <1>5. pc[t] \notin OutPcs /\ Edge(t, label)
    BY DEF Quiet, Edge
  <1>6. label \in AlonePcs => Alone(t)'
    <2>1. label \in AlonePcs => Others(t) = {} \/ Alone(t)
      BY <1>5 DEF Edge
    <2>2. Others(t) = {} /\ Alive(t) => Alone(t)
      BY DEF Others, Alone, Alive, LifeOK, TypesOK
    <2>3. pc[t] # "user" => Alive(t)
      BY DEF LifeOK, Alive
    <2>4. label \in AlonePcs => pc[t] # "user"
      BY <1>5 DEF Edge
    <2>. QED  BY <1>1, <2>1, <2>2, <2>3, <2>4 DEF Alone
  <1>7. label \in AlonePcs \cup WaitPcs \cup {"de_thread"} => bprm'[t].point_of_no_return
    BY <1>2, <1>5 DEF Edge
  <1>8. label \notin NewPcs
    BY <1>5 DEF Edge
  <1>9. label \in {"prepare_bprm_creds"} \cup (CredPcs \ {"commit_creds"}) => mm'[t] = "old"
    BY <1>1, <1>5 DEF Edge, Running, Alive
  <1>10. mm'[t] = "new" => Alone(t)' /\ bprm'[t].point_of_no_return
    <2>1. pc[t] = "user" => mm[t] = "old"
      BY <1>5 DEF Edge, Running, Alive
    <2>. QED  BY <1>1, <1>2, <2>1 DEF Alone
  <1>11. /\ label \in {"out_unmark", "free_bprm"} => mm'[t] = "old" \/ ~bprm'[t].failed
         /\ label = "out_unmark" => bprm'[t].cred \/ mm'[t] = "new"
    <2>1. label # "free_bprm"
      BY <1>5 DEF Edge
    <2>2. CASE label = "out_unmark"
      <3>1. pc[t] \in {"do_open_execat", "start_thread"}
        BY <1>5, <2>2 DEF Edge
      <3>2. CASE pc[t] = "do_open_execat"
        BY <1>1, <2>2, <3>2 DEF CredOK
      <3>3. CASE pc[t] = "start_thread"
        <4>1. ~FailsAt(t, label)
          BY <2>2, <3>3 DEF FailsAt
        <4>. QED  BY <1>1, <1>4, <2>2, <3>3, <4>1
      <3>. QED  BY <3>1, <3>2, <3>3
    <2>. QED  BY <2>1, <2>2
  <1>12. label \notin OutPcs => ~bprm'[t].failed
    BY <1>4, <1>5 DEF FailsAt
  <1>13. label = "out" => bprm'[t].failed /\ bprm'[t].cred
    <2>1. label = "out" => pc[t] \in {"search_binary_handler", "exec_binprm"}
      BY <1>5 DEF Edge
    <2>. QED  BY <1>1, <1>3, <2>1 DEF FailsAt, CredOK
  <1>14. ~Running(t)'
    BY <1>1 DEF Running
  <1>. QED  BY <1>1, <1>6, <1>7, <1>8, <1>9, <1>10, <1>11, <1>12, <1>13, <1>14

LEMMA FateByThread ==
  ASSUME TypesOK, LifeOK, CredOK, WaitOK, NEW t \in Thread, Fate(t), ThreadStep(t)
  PROVE  Fate(t)'
  <1>1. Moves(t) /\ (Alone(t) => Alone(t)')
    BY ThreadMoves, AlonePersists
  <1>2. ASSUME NEW label \in Pcs, Quiet(t, label)
        PROVE  Fate(t)'
    BY <1>2, FateByQuiet
  <1>. USE DEF CredPcs, CheckedPcs, WaitPcs, AlonePcs, NewPcs, OutPcs, Fate
  <1>3. CASE FailStep(t)
    <2>1. /\ UNCHANGED <<mm, killed>> /\ pc'[t] = "out" /\ pc[t] \in FailPcs
          /\ bprm'[t].cred = bprm[t].cred /\ bprm'[t].failed
          /\ bprm'[t].point_of_no_return = bprm[t].point_of_no_return
      BY <1>3 DEF FailStep, Steps
    <2>2. bprm[t].cred \/ mm[t] = "new"
      BY <2>1 DEF FailPcs, CredOK
    <2>3. mm[t] = "new" => Alone(t)' /\ bprm[t].point_of_no_return
      BY <1>1, <2>1 DEF FailPcs
    <2>. QED  BY <2>1, <2>2, <2>3 DEF Running
  <1>4. CASE GivesUp(t)
    <2>1. mm'[t] = "old" /\ pc'[t] = "free_bprm"
      BY <1>4 DEF GivesUp, Unmoved, Steps
    <2>. QED  BY <2>1 DEF Running
  <1>5. CASE TakesGuard(t) \/ Looks(t)
    <2>1. mm'[t] = "old" /\ pc'[t] \in {"check_unsafe_exec", "do_open_execat"} /\ ~bprm'[t].failed
      BY <1>5 DEF TakesGuard, Looks, threadVars, Steps, KeepsFate
    <2>. QED  BY <2>1 DEF Running
  <1>6. CASE Kills(t) \/ AsksLeader(t)
    <2>1. /\ mm'[t] = "old" /\ pc'[t] \in {"wait_for_threads", "schedule_leader"}
          /\ ~bprm'[t].failed /\ bprm'[t].point_of_no_return
      BY <1>6 DEF Kills, AsksLeader, OnlyGoes, Steps
    <2>. QED  BY <2>1 DEF Running
  <1>7. CASE TakesOver(t)
    <2>1. /\ mm'[t] = "old" /\ pc'[t] = "unshare_files"
          /\ ~bprm'[t].failed /\ bprm'[t].point_of_no_return
      BY <1>7 DEF TakesOver, OnlyGoes, Steps
    <2>2. Alone(t)'
      BY <1>7, TakesOverAlone
    <2>. QED  BY <2>1, <2>2 DEF Running
  <1>8. CASE Maps(t)
    <2>1. /\ mm'[t] = "new" /\ pc'[t] = "commit_creds"
          /\ ~bprm'[t].failed /\ bprm'[t].point_of_no_return /\ Alone(t)'
      BY <1>1, <1>8 DEF Maps, OnlyGoes, Steps, TypesOK
    <2>. QED  BY <2>1 DEF Running
  <1>9. CASE Commits(t) \/ Installs(t) \/ Unlocks(t)
    <2>1. /\ mm'[t] = "new" /\ pc'[t] \in {"install_execfd", "setup_new_exec", "start_thread"}
          /\ ~bprm'[t].failed /\ bprm'[t].point_of_no_return /\ Alone(t)'
      BY <1>1, <1>9 DEF Commits, Installs, Unlocks, OnlyGoes, Steps, KeepsFate, threadVars
    <2>. QED  BY <2>1 DEF Running
  <1>10. CASE Errs(t)
    <2>1. /\ pc[t] = "out" /\ pc'[t] = "out_unmark" /\ UNCHANGED <<mm, bprm>>
          /\ killed'[t] = (killed[t] \/ (FatalError(t) /\ Alive(t)))
      BY <1>10 DEF Errs, OnlyGoes, Steps
    <2>2. mm[t] = "new" => killed'[t]
      BY <1>1, <2>1 DEF FatalError, Moves
    <2>. QED  BY <1>1, <2>1, <2>2 DEF Running
  <1>11. CASE Unmarks(t)
    <2>1. /\ pc[t] = "out_unmark" /\ pc'[t] = "free_bprm" /\ UNCHANGED <<mm, bprm, killed>>
      BY <1>11 DEF Unmarks, OnlyGoes, Steps, threadVars
    <2>. QED  BY <1>1, <2>1 DEF Running
  <1>12. CASE Frees(t)
    <2>1. /\ pc[t] = "free_bprm" /\ pc'[t] = "user" /\ UNCHANGED killed /\ ~bprm'[t].failed
          /\ mm' = IF bprm[t].failed THEN mm ELSE [mm EXCEPT ![t] = "old"]
      BY <1>12 DEF Frees, Steps, NoBprm
    <2>2. mm'[t] = "old" \/ killed'[t]
      BY <2>1 DEF TypesOK
    <2>. QED  BY <2>1, <2>2 DEF Running
  <1>. QED  BY <1>2, <1>3, <1>4, <1>5, <1>6, <1>7, <1>8, <1>9, <1>10, <1>11, <1>12 DEF ThreadStep

LEMMA AlonePreserved ==
  ASSUME TypesOK, LifeOK, CredOK, WaitOK, AloneOK, [ExecNext]_execVars
  PROVE  AloneOK'
  <1>1. ASSUME NEW t \in Thread, ThreadStep(t), NEW u \in Thread \ {t}
        PROVE  Fate(u)'
    <2>1. Moves(t) /\ Fate(u)
      BY <1>1, ThreadMoves DEF AloneOK
    <2>2. pc'[u] = pc[u] /\ bprm'[u] = bprm[u]
      BY <2>1 DEF Moves, Steps, OwnBprm
    <2>3. ~Alone(u)
      BY <2>1 DEF Moves, Alive, Alone
    <2>4. mm'[u] = mm[u]
      BY <2>1 DEF Moves, Maps, Frees, TypesOK
    <2>5. killed[u] => killed'[u]
      BY <2>1 DEF Moves, Kills, Errs, TypesOK
    <2>6. exit_state'[u] = "alive" => exit_state[u] = "alive"
      BY <2>1 DEF Moves, TakesOver, TypesOK
    <2>. QED  BY <2>1, <2>2, <2>3, <2>4, <2>5, <2>6 DEF Fate, Running
  <1>2. ASSUME NEW t \in Thread, ThreadStep(t)
        PROVE  AloneOK'
    BY <1>1, <1>2, FateByThread DEF AloneOK
  <1>3. CASE KernelStep
    <2>1. UNCHANGED <<pc, bprm>>
      BY <1>3, KernelKeeps
    <2>2. ASSUME NEW u \in Thread, Exit(u), NEW t \in Thread
          PROVE  Fate(t)'
      <3>1. /\ pc[u] = "user" /\ exit_state[u] = "alive" /\ UNCHANGED <<mm, killed>>
            /\ exit_state' = [exit_state EXCEPT ![u] = IF u = leader /\ Others(u) # {}
                                                       THEN "zombie" ELSE "dead"]
        BY <2>2 DEF Exit, unchangedByExit
      <3>2. pc[t] # "user" => ~Alone(t)
        BY <3>1 DEF Alone
      <3>3. Running(t)' => Running(t)
        BY <2>1, <3>1 DEF Running, TypesOK
      <3>4. Fate(t)
        BY DEF AloneOK
      <3>. QED  BY <2>1, <3>1, <3>2, <3>3, <3>4 DEF Fate, AlonePcs, NewPcs
    <2>3. ASSUME NEW u \in Thread, clone(u), NEW t \in Thread
          PROVE  Fate(t)'
      <3>1. /\ killed' = [killed EXCEPT ![u] = FALSE] /\ mm' = [mm EXCEPT ![u] = "old"]
            /\ exit_state' = [exit_state EXCEPT ![u] = "alive"] /\ pc[u] = "user"
        BY <2>3 DEF clone, LifeOK
      <3>2. pc[t] # "user" => ~Alone(t)
        BY <2>3, NobodyClones
      <3>3. Fate(t)
        BY DEF AloneOK
      <3>4. CASE t = u
        BY <2>1, <3>1, <3>3, <3>4
           DEF Fate, Running, TypesOK, AlonePcs, NewPcs, WaitPcs, OutPcs, CredPcs, CheckedPcs
      <3>5. CASE t # u
        <4>1. mm'[t] = mm[t] /\ killed'[t] = killed[t] /\ exit_state'[t] = exit_state[t]
          BY <3>1, <3>5 DEF TypesOK
        <4>. QED  BY <2>1, <3>2, <3>3, <4>1 DEF Fate, Running, AlonePcs, NewPcs
      <3>. QED  BY <3>4, <3>5
    <2>4. ASSUME KillGroup, NEW t \in Thread
          PROVE  Fate(t)'
      <3>1. /\ UNCHANGED <<mm, exit_state, leader>> /\ (killed[t] => killed'[t])
        BY <2>4 DEF KillGroup, Everyone, unchangedByExit
      <3>2. Fate(t)
        BY DEF AloneOK
      <3>. QED  BY <2>1, <3>1, <3>2 DEF Fate, Running, Alone
    <2>5. ASSUME UNCHANGED threadVars, NEW t \in Thread
          PROVE  Fate(t)'
      BY <2>1, <2>5 DEF AloneOK, Fate, Running, Alone, threadVars
    <2>6. \/ \E u \in Thread : Exit(u) \/ clone(u)
          \/ KillGroup \/ UNCHANGED threadVars
      BY <1>3 DEF KernelStep, ptrace, fork_fs, down_read, up_read, unchangedByModules,
                  unchangedBySafety
    <2>. QED  BY <2>2, <2>3, <2>4, <2>5, <2>6 DEF AloneOK
  <1>. QED  BY <1>2, <1>3, StepCases

-----------------------------------------------------------------------------
(* No way back to a program that has lost threads.                         *)

\* Who is committed goes on to the new program, or is killed on the way.
LEMMA StaysCommitted ==
  ASSUME TypesOK, LifeOK, AloneOK, NEW t \in Thread, ThreadStep(t), Committed(t), ~killed'[t],
         ~Frees(t)
  PROVE  Committed(t)'
  <1>1. Moves(t) /\ Fate(t)
    BY ThreadMoves DEF AloneOK
  <1>. USE DEF WaitPcs, AlonePcs, NewPcs, Committed
  <1>2. ASSUME NEW label \in Pcs, Quiet(t, label)
        PROVE  Committed(t)'
    <2>1. pc'[t] = label /\ Edge(t, label) /\ Becomes(t, label, bprm'[t])
      BY <1>2 DEF Quiet, Steps
    <2>2. CASE pc[t] = "start_thread"
      <3>1. label = "out_unmark" /\ ~bprm[t].failed
        BY <1>1, <2>1, <2>2 DEF Edge, Fate, OutPcs
      <3>2. ~bprm'[t].failed
        BY <2>1, <2>2, <3>1 DEF Becomes, FailsAt
      <3>. QED  BY <2>1, <3>1, <3>2
    <2>3. CASE pc[t] # "start_thread"
      BY <2>1, <2>3 DEF Edge
    <2>. QED  BY <2>2, <2>3
  <1>3. CASE FailStep(t)
    BY <1>1, <1>3 DEF FailStep, Steps, FailPcs, Fate
  <1>4. CASE GivesUp(t) \/ TakesGuard(t) \/ Looks(t) \/ Kills(t)
    BY <1>4 DEF GivesUp, TakesGuard, Looks, Kills
  <1>5. CASE TakesOver(t) \/ AsksLeader(t) \/ Maps(t) \/ Commits(t) \/ Installs(t) \/ Unlocks(t)
    BY <1>5 DEF TakesOver, AsksLeader, Maps, Commits, Installs, Unlocks, OnlyGoes, Steps
  <1>6. CASE Errs(t)
    <2>1. bprm[t].point_of_no_return /\ Alive(t)
      BY <1>1, <1>6 DEF Errs, Moves
    <2>2. killed'[t] = (killed[t] \/ (FatalError(t) /\ Alive(t)))
      BY <1>6 DEF Errs
    <2>. QED  BY <2>1, <2>2 DEF FatalError
  <1>7. CASE Unmarks(t)
    BY <1>7 DEF Unmarks, OnlyGoes, Steps
  <1>. QED  BY <1>2, <1>3, <1>4, <1>5, <1>6, <1>7 DEF ThreadStep

LEMMA LostPreserved ==
  ASSUME TypesOK, LifeOK, AloneOK, LostOK, [ExecNext]_execVars
  PROVE  LostOK'
  <1>1. ASSUME NEW t \in Thread, ThreadStep(t)
        PROVE  LostOK'
    <2>1. Moves(t)
      BY <1>1, ThreadMoves
    <2>2. CASE Kills(t)
      <3>1. pc'[t] = "wait_for_threads"
        BY <2>2 DEF Kills, OnlyGoes, Steps
      <3>2. \A u \in Thread \ {t} : Alive(u)' => killed'[u]
        BY <2>2 DEF Kills, Alive, TypesOK
      <3>. QED  BY <3>1, <3>2 DEF LostOK, Committed, WaitPcs
    <2>3. CASE ~Kills(t)
      <3>1. SUFFICES ASSUME lost', NEW u \in Thread, Alive(u)', ~killed'[u]
                     PROVE  Committed(u)'
        BY DEF LostOK
      <3>2. lost /\ Alive(u) /\ ~killed[u]
        <4>1. lost
          BY <2>1, <2>3, <3>1 DEF Moves, Frees
        <4>2. Alive(u)
          BY <2>1, <3>1 DEF Moves, TakesOver, Alive, TypesOK
        <4>3. ~killed[u]
          BY <2>1, <2>3, <3>1 DEF Moves, Errs, TypesOK
        <4>. QED  BY <4>1, <4>2, <4>3
      <3>3. Committed(u)
        BY <3>2 DEF LostOK
      <3>4. CASE u # t
        <4>1. pc'[u] = pc[u] /\ bprm'[u] = bprm[u]
          BY <2>1, <3>4 DEF Moves, Steps, OwnBprm
        <4>. QED  BY <3>3, <4>1 DEF Committed
      <3>5. CASE u = t
        <4>1. ~Frees(t)
          BY <3>1, <3>3, <3>5 DEF Frees, Committed, WaitPcs, AlonePcs, NewPcs
        <4>. QED  BY <1>1, <3>1, <3>3, <3>5, <4>1, StaysCommitted
      <3>. QED  BY <3>4, <3>5
    <2>. QED  BY <2>2, <2>3
  <1>2. CASE KernelStep
    <2>1. UNCHANGED <<pc, bprm>>
      BY <1>2, KernelKeeps
    <2>2. ASSUME NEW u \in Thread, Exit(u)
          PROVE  LostOK'
      <3>1. /\ UNCHANGED <<killed, lost>>
            /\ \A v \in Thread : Alive(v)' => Alive(v)
        BY <2>2 DEF Exit, Alive, TypesOK
      <3>. QED  BY <2>1, <3>1 DEF LostOK, Committed
    <2>3. ASSUME NEW u \in Thread, clone(u)
          PROVE  LostOK'
      <3>1. PICK parent \in Thread : pc[parent] = "user" /\ Alive(parent) /\ ~killed[parent]
        BY <2>3 DEF clone, Running, Alive
      <3>2. ~lost
        BY <3>1 DEF LostOK, Committed, WaitPcs, AlonePcs, NewPcs
      <3>. QED  BY <2>3, <3>2 DEF clone, LostOK
    <2>4. CASE KillGroup
      BY <2>4 DEF KillGroup, Everyone, LostOK, Alive
    <2>5. CASE UNCHANGED threadVars
      BY <2>1, <2>5 DEF LostOK, Committed, Alive, threadVars
    <2>6. \/ \E u \in Thread : Exit(u) \/ clone(u)
          \/ KillGroup \/ UNCHANGED threadVars
      BY <1>2 DEF KernelStep, ptrace, fork_fs, down_read, up_read, unchangedByModules,
                  unchangedBySafety
    <2>. QED  BY <2>2, <2>3, <2>4, <2>5, <2>6
  <1>. QED  BY <1>1, <1>2, StepCases

-----------------------------------------------------------------------------
(* What a step does to the files and the format that its thread holds.     *)

Keeps(t) ==
  /\ KeepsHeld(t) /\ pc[t] # "exec_binprm" /\ pc'[t] # "exec_binprm"
  /\ pc'[t] \in EarlyPcs => pc[t] \in EarlyPcs
  /\ pc'[t] \in EarlyPcs \cup OutPcs => pc[t] \in EarlyPcs \cup OutPcs

Opens(t) ==
  /\ pc[t] = "do_open_execat" /\ pc'[t] = "search_binary_handler"
  /\ Opened(bprm'[t].file) /\ bprm'[t].file \in File
  /\ bprm'[t].interpreter = bprm[t].interpreter /\ bprm'[t].executable = bprm[t].executable
  /\ KeepsFormat(t) /\ UNCHANGED module_refs

Takes(t) ==
  /\ pc[t] = "search_binary_handler" /\ pc'[t] = "load_binary"
  /\ \E i \in Behind(bprm[t].fmt) : bprm'[t].fmt = formats[i]
  /\ module_refs' = Taken(bprm[t].fmt, bprm'[t].fmt)
  /\ KeepsFiles(t) /\ UNCHANGED fileVars

Puts(t) ==
  /\ pc[t] \notin EarlyPcs \cup {"exec_binprm"}
  /\ pc'[t] \in {"search_binary_handler", "out", "out_unmark"}
  /\ bprm'[t].fmt = NoFormat /\ PutFormat(t)
  /\ KeepsFiles(t) /\ UNCHANGED fileVars

Interprets(t) ==
  /\ pc[t] = "load_binary" /\ pc'[t] = "exec_binprm"
  /\ Opened(bprm'[t].interpreter) /\ bprm'[t].interpreter \in File
  /\ bprm'[t].file = bprm[t].file /\ bprm'[t].executable = bprm[t].executable
  /\ bprm'[t].fmt = NoFormat /\ PutFormat(t)

Replaces(t) ==
  /\ pc[t] = "exec_binprm" /\ pc'[t] \in {"search_binary_handler", "out"}
  /\ denied' = AllowWrite(bprm[t].file)
  /\ bprm'[t].file = bprm[t].interpreter /\ bprm'[t].interpreter = NoFile
  /\ \/ refs' = refs /\ bprm[t].executable = NoFile /\ bprm'[t].executable = bprm[t].file
     \/ refs' = Add(refs, bprm[t].file, -1) /\ bprm'[t].executable = bprm[t].executable
  /\ KeepsFormat(t) /\ UNCHANGED module_refs

HoldStep(t) ==
  /\ OwnBprm(t) /\ (\A u \in Thread \ {t} : pc'[u] = pc[u]) /\ UNCHANGED <<formats, module>>
  /\ \/ Keeps(t) \/ Opens(t) \/ Takes(t) \/ Puts(t) \/ Interprets(t) \/ Replaces(t)
     \/ Installs(t) \/ Frees(t)

LEMMA QuietHolds ==
  ASSUME TypesOK, NEW t \in Thread, NEW label \in Pcs, Quiet(t, label),
         KeepsFiles(t) /\ KeepsFormat(t) /\ UNCHANGED <<fileVars, formatVars>>,
         pc[t] # "exec_binprm", label # "exec_binprm", label \notin {"out", "out_unmark"}
  PROVE  HoldStep(t)
  <1>1. /\ OwnBprm(t) /\ (\A u \in Thread \ {t} : pc'[u] = pc[u]) /\ pc'[t] = label
        /\ Edge(t, label)
    BY DEF Quiet, Steps
  <1>2. label \notin OutPcs /\ (label \in EarlyPcs => pc[t] \in EarlyPcs)
    BY <1>1 DEF Edge, OutPcs, EarlyPcs, StartPcs
  <1>. QED  BY <1>1, <1>2 DEF HoldStep, Keeps, KeepsHeld, formatVars

LEMMA FailHolds ==
  ASSUME TypesOK, NEW t \in Thread, FailStep(t)
  PROVE  HoldStep(t)
  <1>1. /\ OwnBprm(t) /\ (\A u \in Thread \ {t} : pc'[u] = pc[u]) /\ pc'[t] = "out"
        /\ pc[t] \notin EarlyPcs \cup {"exec_binprm"} /\ PutFormat(t)
        /\ UNCHANGED <<fileVars, formats, module>>
    BY DEF FailStep, FailPcs, Steps, EarlyPcs, StartPcs
  <1>2. bprm[t] \in Bprm /\ bprm'[t] = [bprm[t] EXCEPT !.failed = TRUE, !.fmt = NoFormat]
    BY DEF TypesOK, FailStep
  <1>3. bprm'[t].fmt = NoFormat /\ KeepsFiles(t)
    BY <1>2 DEF Bprm, KeepsFiles
  <1>. QED  BY <1>1, <1>3 DEF HoldStep, Puts

\* Steps that hand nothing over.
LEMMA OtherHolds ==
  ASSUME NEW t \in Thread,
         \/ GivesUp(t) \/ TakesGuard(t) \/ Looks(t) \/ Kills(t) \/ TakesOver(t) \/ AsksLeader(t)
         \/ Maps(t) \/ Commits(t) \/ Installs(t) \/ Unlocks(t) \/ Errs(t) \/ Unmarks(t) \/ Frees(t)
  PROVE  HoldStep(t)
  <1>. USE DEF HoldStep, Keeps, KeepsHeld, EarlyPcs, StartPcs, OutPcs, formatVars, Steps
  <1>1. CASE GivesUp(t) \/ TakesGuard(t) \/ Looks(t) \/ Commits(t)
    BY <1>1 DEF GivesUp, TakesGuard, Looks, Commits
  <1>2. CASE Kills(t) \/ TakesOver(t) \/ AsksLeader(t) \/ Maps(t)
    BY <1>2 DEF Kills, TakesOver, AsksLeader, Maps, OnlyGoes
  <1>3. CASE Unlocks(t) \/ Errs(t) \/ Unmarks(t)
    BY <1>3 DEF Unlocks, Errs, Unmarks, OnlyGoes
  <1>4. CASE Installs(t) \/ Frees(t)
    BY <1>4 DEF Installs, Frees
  <1>. QED  BY <1>1, <1>2, <1>3, <1>4

LEMMA LoadHolds ==
  ASSUME TypesOK, NEW t \in Thread,
         do_open_execat(t) \/ search_binary_handler(t) \/ load_binary(t) \/ exec_binprm(t)
  PROVE  HoldStep(t)
  <1>b. bprm[t] \in Bprm
    BY DEF TypesOK
  <1>q. ASSUME NEW label \in Pcs, Quiet(t, label)
        PROVE  /\ OwnBprm(t) /\ (\A u \in Thread \ {t} : pc'[u] = pc[u]) /\ pc'[t] = label
               /\ Edge(t, label)
    BY <1>q DEF Quiet, Steps
  <1>. USE LabelsArePcs
  <1>1. CASE do_open_execat(t)
    <2>0. pc[t] = "do_open_execat"
      BY <1>1 DEF do_open_execat
    <2>1. ASSUME Quiet(t, "search_binary_handler"), UNCHANGED formatVars, NEW f \in File, Opened(f),
                 bprm'[t] = [bprm[t] EXCEPT !.file = f]
          PROVE  HoldStep(t)
      <3>1. /\ bprm'[t].file = f /\ bprm'[t].interpreter = bprm[t].interpreter
            /\ bprm'[t].executable = bprm[t].executable /\ KeepsFormat(t)
        BY <1>b, <2>1 DEF Bprm, KeepsFormat
      <3>. QED  BY <1>q, <2>0, <2>1, <3>1 DEF HoldStep, Opens, formatVars
    <2>2. ASSUME Quiet(t, "out_unmark"), UNCHANGED <<fileVars, formatVars>>,
                 bprm'[t] = [bprm[t] EXCEPT !.failed = TRUE]
          PROVE  HoldStep(t)
      <3>1. KeepsFiles(t) /\ KeepsFormat(t)
        BY <1>b, <2>2 DEF Bprm, KeepsFiles, KeepsFormat
      <3>. QED  BY <1>q, <2>0, <2>2, <3>1
                DEF HoldStep, Keeps, KeepsHeld, formatVars, EarlyPcs, StartPcs
    <2>. QED  BY <1>1, <2>1, <2>2, do_open_execatQuiet
  <1>2. CASE search_binary_handler(t)
    <2>0. pc[t] = "search_binary_handler" /\ UNCHANGED <<fileVars, formats, module>>
      BY <1>2 DEF search_binary_handler
    <2>1. ASSUME NEW i \in Behind(bprm[t].fmt), Quiet(t, "load_binary"),
                 module_refs' = Taken(bprm[t].fmt, formats[i]),
                 bprm'[t] = [bprm[t] EXCEPT !.fmt = formats[i]]
          PROVE  HoldStep(t)
      <3>1. bprm'[t].fmt = formats[i] /\ KeepsFiles(t)
        BY <1>b, <2>1 DEF Bprm, KeepsFiles
      <3>. QED  BY <1>q, <2>0, <2>1, <3>1 DEF HoldStep, Takes
    <2>2. ASSUME Quiet(t, "search_binary_handler"), PutFormat(t),
                 bprm'[t] = [bprm[t] EXCEPT !.fmt = NoFormat, !.retried = TRUE]
          PROVE  HoldStep(t)
      <3>1. bprm'[t].fmt = NoFormat /\ KeepsFiles(t)
        BY <1>b, <2>2 DEF Bprm, KeepsFiles
      <3>. QED  BY <1>q, <2>0, <2>2, <3>1 DEF HoldStep, Puts, EarlyPcs, StartPcs
    <2>3. ASSUME Quiet(t, "out"), PutFormat(t),
                 bprm'[t] = [bprm[t] EXCEPT !.fmt = NoFormat, !.failed = TRUE]
          PROVE  HoldStep(t)
      <3>1. bprm'[t].fmt = NoFormat /\ KeepsFiles(t)
        BY <1>b, <2>3 DEF Bprm, KeepsFiles
      <3>. QED  BY <1>q, <2>0, <2>3, <3>1 DEF HoldStep, Puts, EarlyPcs, StartPcs
    <2>. QED  BY <1>2, <2>1, <2>2, <2>3, search_binary_handlerQuiet
  <1>3. CASE load_binary(t)
    <2>0. pc[t] = "load_binary"
      BY <1>3 DEF load_binary
    <2>1. CASE FailStep(t)
      BY <2>1, FailHolds
    <2>2. CASE /\ Quiet(t, "search_binary_handler") \/ Quiet(t, "begin_new_exec")
               /\ UNCHANGED <<bprm, fileVars, formatVars>>
      <3>1. KeepsFiles(t) /\ KeepsFormat(t)
        BY <2>2, SameBprm
      <3>. QED  BY <2>0, <2>2, <3>1, QuietHolds
    <2>3. ASSUME NEW f \in File, NEW e \in BOOLEAN, Quiet(t, "exec_binprm"), Opened(f), PutFormat(t),
                 UNCHANGED <<formats, module>>,
                 bprm'[t] = [bprm[t] EXCEPT !.interpreter = f, !.fmt = NoFormat,
                                            !.retried = FALSE, !.have_execfd = e]
          PROVE  HoldStep(t)
      <3>1. /\ bprm'[t].file = bprm[t].file /\ bprm'[t].executable = bprm[t].executable
            /\ bprm'[t].interpreter = f /\ bprm'[t].fmt = NoFormat
        BY <1>b, <2>3 DEF Bprm
      <3>. QED  BY <1>q, <2>0, <2>3, <3>1 DEF HoldStep, Interprets
    <2>. QED  BY <1>3, <2>1, <2>2, <2>3, load_binaryCases
  <1>4. CASE exec_binprm(t)
    <2>0. pc[t] = "exec_binprm"
      BY <1>4 DEF exec_binprm
    <2>1. ASSUME NEW keep \in BOOLEAN, NEW failed \in BOOLEAN,
                 Quiet(t, IF failed THEN "out" ELSE "search_binary_handler"),
                 UNCHANGED formatVars,
                 keep => bprm[t].executable = NoFile,
                 denied' = AllowWrite(bprm[t].file),
                 refs' = IF keep THEN refs ELSE Add(refs, bprm[t].file, -1),
                 bprm'[t] = [bprm[t] EXCEPT
                   !.file = bprm[t].interpreter, !.interpreter = NoFile,
                   !.executable = IF keep THEN bprm[t].file ELSE bprm[t].executable,
                   !.depth = bprm[t].depth + 1, !.failed = failed]
          PROVE  HoldStep(t)
      <3>1. /\ bprm'[t].file = bprm[t].interpreter /\ bprm'[t].interpreter = NoFile
            /\ bprm'[t].executable = (IF keep THEN bprm[t].file ELSE bprm[t].executable)
            /\ KeepsFormat(t)
        BY <1>b, <2>1 DEF Bprm, KeepsFormat
      <3>2. /\ OwnBprm(t) /\ (\A u \in Thread \ {t} : pc'[u] = pc[u])
            /\ pc'[t] \in {"search_binary_handler", "out"}
        <4>1. CASE failed
          BY <1>q, <2>1, <4>1
        <4>2. CASE ~failed
          BY <1>q, <2>1, <4>2
        <4>. QED  BY <4>1, <4>2
      <3>. QED  BY <2>0, <2>1, <3>1, <3>2 DEF HoldStep, Replaces, formatVars
    <2>. QED  BY <1>4, <2>1, exec_binprmQuiet
  <1>. QED  BY <1>1, <1>2, <1>3, <1>4

LEMMA ThreadHolds ==
  ASSUME TypesOK, NEW t \in Thread, StartExec(t) \/ prepare_bprm_creds(t) \/ bprm_execve(t)
  PROVE  HoldStep(t)
  <1>. USE LabelsArePcs
  <1>b. bprm[t] \in Bprm
    BY DEF TypesOK
  <1>1. CASE StartExec(t)
    <2>1. KeepsFiles(t) /\ KeepsFormat(t) /\ pc[t] = "user"
      BY <1>1, SameBprm DEF StartExec
    <2>. QED  BY <1>1, <2>1, StartExecQuiet, QuietHolds
  <1>2. CASE do_open_execat(t) \/ search_binary_handler(t) \/ load_binary(t) \/ exec_binprm(t)
    BY <1>2, LoadHolds
  <1>3. CASE begin_new_exec(t)
    <2>1. ASSUME bprm'[t] = [bprm[t] EXCEPT !.point_of_no_return = TRUE]
          PROVE  KeepsFiles(t) /\ KeepsFormat(t)
      BY <1>b, <2>1 DEF Bprm, KeepsFiles, KeepsFormat
    <2>2. pc[t] = "begin_new_exec"
      BY <1>3 DEF begin_new_exec
    <2>. QED  BY <1>3, <2>1, <2>2, begin_new_execCases, FailHolds, QuietHolds
  <1>4. CASE de_thread(t)
    <2>1. pc[t] = "de_thread"
      BY <1>4 DEF de_thread
    <2>. QED  BY <1>4, <2>1, de_threadCases, FailHolds, QuietHolds, OtherHolds, SameBprm
  <1>5. CASE wait_for_threads(t)
    <2>1. pc[t] = "wait_for_threads"
      BY <1>5 DEF wait_for_threads
    <2>. QED  BY <1>5, <2>1, wait_for_threadsCases, QuietHolds, OtherHolds, SameBprm
  <1>6. CASE schedule(t)
    <2>1. pc[t] \in {"schedule", "schedule_leader"}
      BY <1>6 DEF schedule
    <2>. QED  BY <1>6, <2>1, scheduleCases, FailHolds, QuietHolds, SameBprm
  <1>7. CASE unshare_files(t)
    <2>1. pc[t] = "unshare_files"
      BY <1>7 DEF unshare_files
    <2>. QED  BY <1>7, <2>1, unshare_filesCases, FailHolds, QuietHolds, SameBprm
  <1>8. CASE start_thread(t)
    <2>1. pc[t] = "start_thread"
      BY <1>8 DEF start_thread
    <2>2. ASSUME Quiet(t, "out_unmark"), PutFormat(t), UNCHANGED <<fileVars, formats, module>>,
                 bprm'[t] = [bprm[t] EXCEPT !.fmt = NoFormat]
          PROVE  HoldStep(t)
      <3>1. bprm'[t].fmt = NoFormat /\ KeepsFiles(t)
        BY <1>b, <2>2 DEF Bprm, KeepsFiles
      <3>2. OwnBprm(t) /\ (\A u \in Thread \ {t} : pc'[u] = pc[u]) /\ pc'[t] = "out_unmark"
        BY <2>2 DEF Quiet, Steps
      <3>. QED  BY <2>1, <2>2, <3>1, <3>2 DEF HoldStep, Puts, EarlyPcs, StartPcs
    <2>. QED  BY <1>8, <2>2, start_threadCases, FailHolds
  <1>9. CASE prepare_bprm_creds(t) \/ check_unsafe_exec(t) \/ wait_for_leader(t)
    BY <1>9, OtherHolds, prepare_bprm_credsCases, check_unsafe_execEffect, wait_for_leaderCases
  <1>10. CASE exec_mmap(t) \/ commit_creds(t) \/ install_execfd(t)
    BY <1>10, OtherHolds, FailHolds, exec_mmapCases, commit_credsCases, install_execfdCases
  <1>11. CASE setup_new_exec(t) \/ out(t) \/ out_unmark(t) \/ free_bprm(t)
    BY <1>11, OtherHolds, setup_new_execEffect, outEffect, out_unmarkEffect, free_bprmEffect
  <1>. QED  BY <1>1, <1>2, <1>3, <1>4, <1>5, <1>6, <1>7, <1>8, <1>9, <1>10, <1>11
            DEF bprm_execve

\* The rest of the kernel: modules come and go.
ListStep(m) ==
  (\E insert \in BOOLEAN : register_binfmt(m, insert)) \/ delete_module(m) \/ unregister_binfmt(m)

LEMMA HoldCases ==
  ASSUME TypesOK, [ExecNext]_execVars
  PROVE  \/ \E t \in Thread : HoldStep(t)
         \/ /\ UNCHANGED <<pc, bprm, refs, denied, module_refs>>
            /\ UNCHANGED <<formats, module>> \/ \E m \in Format : ListStep(m)
  <1>1. ASSUME NEW u \in Thread, Exit(u) \/ clone(u) \/ ptrace(u)
        PROVE  UNCHANGED <<pc, bprm, refs, denied, formats, module, module_refs>>
    BY <1>1 DEF Exit, clone, ptrace, unchangedByExit, unchangedBySafety, fileVars, formatVars
  <1>2. ASSUME KillGroup \/ fork_fs \/ down_read \/ up_read
        PROVE  UNCHANGED <<pc, bprm, refs, denied, formats, module, module_refs>>
    BY <1>2 DEF KillGroup, fork_fs, down_read, up_read, unchangedByExit, unchangedBySafety,
                fileVars, formatVars
  <1>3. ASSUME NEW m \in Format, ListStep(m)
        PROVE  UNCHANGED <<pc, bprm, refs, denied, module_refs>>
    BY <1>3 DEF ListStep, register_binfmt, delete_module, unregister_binfmt, unchangedByModules,
                fileVars
  <1>4. CASE UNCHANGED execVars
    BY <1>4 DEF execVars, kernelVars, fileVars, formatVars
  <1>. QED  BY <1>1, <1>2, <1>3, <1>4, ThreadHolds DEF ExecNext, ListStep

LEMMA HeldPreserved ==
  ASSUME TypesOK, HeldOK, [ExecNext]_execVars
  PROVE  HeldOK'
  <1>1. ASSUME NEW t \in Thread, HoldStep(t)
        PROVE  HeldOK'
    <2>. DEFINE H(u) ==
           /\ pc[u] \in EarlyPcs => bprm[u].file = NoFile /\ bprm[u].executable = NoFile
           /\ pc[u] # "exec_binprm" => bprm[u].interpreter = NoFile
           /\ pc[u] \in EarlyPcs \cup OutPcs \cup {"exec_binprm"} => bprm[u].fmt = NoFormat
    <2>1. \A u \in Thread : H(u)
      BY DEF HeldOK
    <2>2. \A u \in Thread \ {t} : H(u)'
      BY <1>1, <2>1 DEF HoldStep, OwnBprm
    <2>3. H(t)'
      <3>1. CASE Keeps(t)
        BY <2>1, <3>1 DEF Keeps, KeepsHeld, KeepsFiles, KeepsFormat
      <3>. USE DEF EarlyPcs, StartPcs, OutPcs
      <3>2. CASE Opens(t) \/ Takes(t) \/ Interprets(t)
        BY <2>1, <3>2 DEF Opens, Takes, Interprets, KeepsFiles, KeepsFormat
      <3>3. CASE Puts(t) \/ Replaces(t)
        BY <2>1, <3>3 DEF Puts, Replaces, KeepsFiles, KeepsFormat
      <3>4. CASE Installs(t) \/ Frees(t)
        BY <2>1, <3>4 DEF Installs, Frees, KeepsFormat, Steps, NoBprm
      <3>. QED  BY <1>1, <3>1, <3>2, <3>3, <3>4 DEF HoldStep
    <2>. QED  BY <2>2, <2>3 DEF HeldOK
  <1>2. CASE UNCHANGED <<pc, bprm>>
    BY <1>2 DEF HeldOK
  <1>. QED  BY <1>1, <1>2, HoldCases

-----------------------------------------------------------------------------
(* References are counted.                                                 *)

Ind(b) == IF b THEN 1 ELSE 0
FileRefs(b, f) == Ind(b.file = f) + Ind(b.interpreter = f) + Ind(b.executable = f)
FileDenials(b, f) == Ind(b.file = f) + Ind(b.interpreter = f)

\* The pairs of threads and fields that hold f, when linux_binprms are g.
AllFields == {"file", "interpreter", "executable"}
DeniedFields == {"file", "interpreter"}
FieldsWith(g, fields, f) == {x \in Thread \X fields : g[x[1]][x[2]] = f}
Elsewhere(g, t, fields, f) == {x \in Thread \X fields : x[1] # t /\ g[x[1]][x[2]] = f}

\* The threads whose format is m.
WithFormat(g, m) == {u \in Thread : g[u].fmt = m}

LEMMA AddIf ==
  ASSUME NEW S, IsFiniteSet(S), NEW x, x \notin S, NEW b \in BOOLEAN
  PROVE  /\ IsFiniteSet(S \cup (IF b THEN {x} ELSE {}))
         /\ Cardinality(S \cup (IF b THEN {x} ELSE {})) = Cardinality(S) + Ind(b)
  <1>1. CASE b
    <2>1. IsFiniteSet(S \cup {x}) /\ Cardinality(S \cup {x}) = Cardinality(S) + 1
      BY FS_AddElement
    <2>. QED  BY <1>1, <2>1 DEF Ind
  <1>2. CASE ~b
    <2>1. Cardinality(S) \in Nat /\ S \cup {} = S
      BY FS_CardinalityType
    <2>. QED  BY <1>2, <2>1 DEF Ind
  <1>. QED  BY <1>1, <1>2

LEMMA FieldsCount ==
  ASSUME NEW g \in [Thread -> Bprm], NEW t \in Thread, NEW f
  PROVE  /\ Cardinality(Elsewhere(g, t, AllFields, f)) \in Nat
         /\ Cardinality(Elsewhere(g, t, DeniedFields, f)) \in Nat
         /\ Cardinality(FieldsWith(g, AllFields, f))
              = Cardinality(Elsewhere(g, t, AllFields, f)) + FileRefs(g[t], f)
         /\ Cardinality(FieldsWith(g, DeniedFields, f))
              = Cardinality(Elsewhere(g, t, DeniedFields, f)) + FileDenials(g[t], f)
  <1>. DEFINE E3 == Elsewhere(g, t, AllFields, f)
              E2 == Elsewhere(g, t, DeniedFields, f)
              A == IF g[t].file = f THEN {<<t, "file">>} ELSE {}
              B == IF g[t].interpreter = f THEN {<<t, "interpreter">>} ELSE {}
              C == IF g[t].executable = f THEN {<<t, "executable">>} ELSE {}
  <1>1. IsFiniteSet(E3) /\ IsFiniteSet(E2)
    <2>1. IsFiniteSet(Thread \X AllFields)
      <3>1. IsFiniteSet(AllFields)
        <4>1. IsFiniteSet(({"file"} \cup {"interpreter"}) \cup {"executable"})
          BY FS_Singleton, FS_Union
        <4>2. AllFields = ({"file"} \cup {"interpreter"}) \cup {"executable"}
          BY DEF AllFields
        <4>. QED  BY <4>1, <4>2
      <3>. QED  BY <3>1, ExecAssumption, FS_Product
    <2>2. E3 \subseteq Thread \X AllFields /\ E2 \subseteq Thread \X AllFields
      BY DEF Elsewhere, AllFields, DeniedFields
    <2>. HIDE DEF E3, E2
    <2>. QED  BY <2>1, <2>2, FS_Subset
  <1>2. /\ FieldsWith(g, AllFields, f) = ((E3 \cup A) \cup B) \cup C
        /\ FieldsWith(g, DeniedFields, f) = (E2 \cup A) \cup B
    BY DEF FieldsWith, Elsewhere, AllFields, DeniedFields
  <1>3. /\ <<t, "file">> \notin E3 /\ <<t, "interpreter">> \notin E3 \cup A
        /\ <<t, "executable">> \notin (E3 \cup A) \cup B
        /\ <<t, "file">> \notin E2 /\ <<t, "interpreter">> \notin E2 \cup A
    BY DEF Elsewhere
  <1>. HIDE DEF E3, E2
  <1>4. /\ IsFiniteSet(E3 \cup A) /\ Cardinality(E3 \cup A) = Cardinality(E3) + Ind(g[t].file = f)
        /\ IsFiniteSet(E2 \cup A) /\ Cardinality(E2 \cup A) = Cardinality(E2) + Ind(g[t].file = f)
    BY <1>1, <1>3, AddIf
  <1>. HIDE DEF A
  <1>5. /\ IsFiniteSet((E3 \cup A) \cup B)
        /\ Cardinality((E3 \cup A) \cup B) = Cardinality(E3 \cup A) + Ind(g[t].interpreter = f)
        /\ IsFiniteSet((E2 \cup A) \cup B)
        /\ Cardinality((E2 \cup A) \cup B) = Cardinality(E2 \cup A) + Ind(g[t].interpreter = f)
    BY <1>3, <1>4, AddIf
  <1>. HIDE DEF B
  <1>6. Cardinality(((E3 \cup A) \cup B) \cup C)
          = Cardinality((E3 \cup A) \cup B) + Ind(g[t].executable = f)
    BY <1>3, <1>5, AddIf
  <1>. HIDE DEF C
  <1>7. /\ Cardinality(E3) \in Nat /\ Cardinality(E2) \in Nat
        /\ Ind(g[t].file = f) \in Int /\ Ind(g[t].interpreter = f) \in Int
        /\ Ind(g[t].executable = f) \in Int
    BY <1>1, FS_CardinalityType DEF Ind
  <1>8. /\ Cardinality(FieldsWith(g, AllFields, f))
             = Cardinality(E3) + FileRefs(g[t], f)
        /\ Cardinality(FieldsWith(g, DeniedFields, f))
             = Cardinality(E2) + FileDenials(g[t], f)
    <2>. DEFINE a == Ind(g[t].file = f)
                b == Ind(g[t].interpreter = f)
                c == Ind(g[t].executable = f)
    <2>1. FileRefs(g[t], f) = a + b + c /\ FileDenials(g[t], f) = a + b
      BY DEF FileRefs, FileDenials
    <2>2. /\ Cardinality(E3 \cup A) = Cardinality(E3) + a
          /\ Cardinality(E2 \cup A) = Cardinality(E2) + a
      BY <1>4
    <2>3. /\ Cardinality((E3 \cup A) \cup B) = Cardinality(E3 \cup A) + b
          /\ Cardinality((E2 \cup A) \cup B) = Cardinality(E2 \cup A) + b
      BY <1>5
    <2>4. Cardinality(((E3 \cup A) \cup B) \cup C) = Cardinality((E3 \cup A) \cup B) + c
      BY <1>6
    <2>5. a \in Int /\ b \in Int /\ c \in Int
      BY <1>7
    <2>. HIDE DEF a, b, c
    <2>6. /\ Cardinality(((E3 \cup A) \cup B) \cup C) = Cardinality(E3) + (a + b + c)
          /\ Cardinality((E2 \cup A) \cup B) = Cardinality(E2) + (a + b)
      BY <1>7, <2>2, <2>3, <2>4, <2>5
    <2>7. /\ Cardinality(FieldsWith(g, AllFields, f))
               = Cardinality(E3) + (a + b + c)
          /\ Cardinality(FieldsWith(g, DeniedFields, f)) = Cardinality(E2) + (a + b)
      BY <1>2, <2>6
    <2>. QED  BY <2>1, <2>7
  <1>. QED  BY <1>7, <1>8 DEF E3, E2

LEMMA IndIsInt ==
  \A b \in BOOLEAN : Ind(b) \in Int
  BY DEF Ind

\* The counts move with the linux_binprm of the one thread that moves.
LEMMA FieldsChange ==
  ASSUME NEW g \in [Thread -> Bprm], NEW h \in [Thread -> Bprm], NEW t \in Thread,
         \A u \in Thread \ {t} : h[u] = g[u], NEW f
  PROVE  /\ Cardinality(FieldsWith(h, AllFields, f))
              = Cardinality(FieldsWith(g, AllFields, f)) + (FileRefs(h[t], f) - FileRefs(g[t], f))
         /\ Cardinality(FieldsWith(h, DeniedFields, f))
              = Cardinality(FieldsWith(g, DeniedFields, f))
                  + (FileDenials(h[t], f) - FileDenials(g[t], f))
  <1>1. /\ Elsewhere(h, t, AllFields, f) = Elsewhere(g, t, AllFields, f)
        /\ Elsewhere(h, t, DeniedFields, f) = Elsewhere(g, t, DeniedFields, f)
    BY DEF Elsewhere
  <1>2. \A x \in {g, h} : FileRefs(x[t], f) \in Int /\ FileDenials(x[t], f) \in Int
    BY DEF FileRefs, FileDenials, Ind
  <1>3. /\ Cardinality(FieldsWith(g, AllFields, f))
             = Cardinality(Elsewhere(g, t, AllFields, f)) + FileRefs(g[t], f)
        /\ Cardinality(FieldsWith(g, DeniedFields, f))
             = Cardinality(Elsewhere(g, t, DeniedFields, f)) + FileDenials(g[t], f)
        /\ Cardinality(Elsewhere(g, t, AllFields, f)) \in Nat
        /\ Cardinality(Elsewhere(g, t, DeniedFields, f)) \in Nat
    BY FieldsCount
  <1>4. /\ Cardinality(FieldsWith(h, AllFields, f))
             = Cardinality(Elsewhere(h, t, AllFields, f)) + FileRefs(h[t], f)
        /\ Cardinality(FieldsWith(h, DeniedFields, f))
             = Cardinality(Elsewhere(h, t, DeniedFields, f)) + FileDenials(h[t], f)
    BY FieldsCount
  <1>. QED  BY <1>1, <1>2, <1>3, <1>4

LEMMA FormatsChange ==
  ASSUME NEW g \in [Thread -> Bprm], NEW h \in [Thread -> Bprm], NEW t \in Thread,
         \A u \in Thread \ {t} : h[u] = g[u], NEW m
  PROVE  Cardinality(WithFormat(h, m))
           = Cardinality(WithFormat(g, m)) + (Ind(h[t].fmt = m) - Ind(g[t].fmt = m))
  <1>. DEFINE E == {u \in Thread \ {t} : g[u].fmt = m}
              A(x) == IF x[t].fmt = m THEN {t} ELSE {}
              F(x) == WithFormat(x, m)
  <1>1. IsFiniteSet(E) /\ t \notin E
    BY ExecAssumption, FS_Subset
  <1>2. F(h) = E \cup A(h) /\ F(g) = E \cup A(g)
    BY DEF WithFormat
  <1>. HIDE DEF E
  <1>3. /\ Cardinality(E \cup A(h)) = Cardinality(E) + Ind(h[t].fmt = m)
        /\ Cardinality(E \cup A(g)) = Cardinality(E) + Ind(g[t].fmt = m)
    BY <1>1, AddIf
  <1>. DEFINE a == Ind(h[t].fmt = m)
              b == Ind(g[t].fmt = m)
  <1>4. /\ Cardinality(F(h)) = Cardinality(E) + a /\ Cardinality(F(g)) = Cardinality(E) + b
        /\ Cardinality(E) \in Nat /\ a \in Int /\ b \in Int
    BY <1>1, <1>2, <1>3, FS_CardinalityType, IndIsInt
  <1>5. Cardinality(F(h)) = Cardinality(F(g)) + (a - b)
    <2>. HIDE DEF F, a, b
    <2>. QED  BY <1>4
  <1>. QED  BY <1>5

\* What a step adds to and takes from the counts is what the thread now holds
\* and no longer holds.
LEMMA FilesCounted ==
  ASSUME TypesOK, HeldOK, NEW t \in Thread, HoldStep(t), NEW f \in File
  PROVE  /\ refs' \in [File -> Int] /\ denied' \in [File -> Int]
         /\ refs'[f] = refs[f] + (FileRefs(bprm'[t], f) - FileRefs(bprm[t], f))
         /\ denied'[f] = denied[f] + (FileDenials(bprm'[t], f) - FileDenials(bprm[t], f))
  <1>0. /\ refs \in [File -> Int] /\ denied \in [File -> Int] /\ refs[f] \in Int /\ denied[f] \in Int
        /\ NoFile # f
    BY ExecAssumption DEF TypesOK
  <1>. USE DEF FileRefs, FileDenials, Ind
  <1>1. CASE KeepsFiles(t) /\ UNCHANGED fileVars
    BY <1>0, <1>1 DEF KeepsFiles, fileVars
  <1>2. CASE Opens(t)
    <2>1. bprm[t].file = NoFile
      BY <1>2 DEF Opens, HeldOK, EarlyPcs
    <2>2. refs' = Add(refs, bprm'[t].file, 1) /\ denied' = Add(denied, bprm'[t].file, 1)
      BY <1>2 DEF Opens, Opened
    <2>3. /\ refs' \in [File -> Int] /\ refs'[f] = refs[f] + (IF bprm'[t].file = f THEN 1 ELSE 0)
          /\ denied' \in [File -> Int]
          /\ denied'[f] = denied[f] + (IF bprm'[t].file = f THEN 1 ELSE 0)
      BY <1>0, <2>2, AddTyped
    <2>. QED  BY <1>0, <1>2, <2>1, <2>3 DEF Opens
  <1>3. CASE Interprets(t)
    <2>1. bprm[t].interpreter = NoFile
      BY <1>3 DEF Interprets, HeldOK
    <2>2. refs' = Add(refs, bprm'[t].interpreter, 1) /\ denied' = Add(denied, bprm'[t].interpreter, 1)
      BY <1>3 DEF Interprets, Opened
    <2>3. /\ refs' \in [File -> Int] /\ refs'[f] = refs[f] + (IF bprm'[t].interpreter = f THEN 1 ELSE 0)
          /\ denied' \in [File -> Int]
          /\ denied'[f] = denied[f] + (IF bprm'[t].interpreter = f THEN 1 ELSE 0)
      BY <1>0, <2>2, AddTyped
    <2>. QED  BY <1>0, <1>3, <2>1, <2>3 DEF Interprets
  <1>4. CASE Replaces(t)
    <2>1. /\ denied' = Add(denied, bprm[t].file, -1)
          /\ bprm'[t].file = bprm[t].interpreter /\ bprm'[t].interpreter = NoFile
      BY <1>4 DEF Replaces, AllowWrite
    <2>2. /\ denied' \in [File -> Int]
          /\ denied'[f] = denied[f] + (IF bprm[t].file = f THEN -1 ELSE 0)
      BY <1>0, <2>1, AddTyped
    <2>3. CASE refs' = refs /\ bprm[t].executable = NoFile /\ bprm'[t].executable = bprm[t].file
      BY <1>0, <2>1, <2>2, <2>3
    <2>4. CASE refs' = Add(refs, bprm[t].file, -1) /\ bprm'[t].executable = bprm[t].executable
      <3>1. refs' \in [File -> Int] /\ refs'[f] = refs[f] + (IF bprm[t].file = f THEN -1 ELSE 0)
        BY <1>0, <2>4, AddTyped
      <3>. QED  BY <1>0, <2>1, <2>2, <2>4, <3>1
    <2>. QED  BY <1>4, <2>3, <2>4 DEF Replaces
  <1>5. CASE Installs(t)
    <2>1. /\ refs' = Add(refs, bprm[t].executable, -1) /\ UNCHANGED denied
          /\ bprm'[t].file = bprm[t].file /\ bprm'[t].interpreter = bprm[t].interpreter
          /\ bprm'[t].executable = NoFile
      BY <1>5 DEF Installs
    <2>2. refs' \in [File -> Int] /\ refs'[f] = refs[f] + (IF bprm[t].executable = f THEN -1 ELSE 0)
      BY <1>0, <2>1, AddTyped
    <2>. QED  BY <1>0, <2>1, <2>2
  <1>6. CASE Frees(t)
    <2>1. /\ refs' = Add(Add(refs, bprm[t].file, -1), bprm[t].executable, -1)
          /\ denied' = Add(denied, bprm[t].file, -1)
          /\ bprm'[t].file = NoFile /\ bprm'[t].interpreter = NoFile /\ bprm'[t].executable = NoFile
          /\ bprm[t].interpreter = NoFile
      BY <1>6 DEF Frees, NoBprm, HeldOK
    <2>. DEFINE r == Add(refs, bprm[t].file, -1)
    <2>2. r \in [File -> Int] /\ r[f] = refs[f] + (IF bprm[t].file = f THEN -1 ELSE 0)
      BY <1>0, AddTyped
    <2>. HIDE DEF r
    <2>3. /\ Add(r, bprm[t].executable, -1) \in [File -> Int]
          /\ Add(r, bprm[t].executable, -1)[f] = r[f] + (IF bprm[t].executable = f THEN -1 ELSE 0)
      BY <2>2, AddTyped
    <2>4. /\ denied' \in [File -> Int]
          /\ denied'[f] = denied[f] + (IF bprm[t].file = f THEN -1 ELSE 0)
      BY <1>0, <2>1, AddTyped
    <2>5. refs' = Add(r, bprm[t].executable, -1)
      BY <2>1 DEF r
    <2>. QED  BY <1>0, <2>1, <2>2, <2>3, <2>4, <2>5
  <1>. QED  BY <1>1, <1>2, <1>3, <1>4, <1>5, <1>6 DEF HoldStep, Keeps, KeepsHeld, Takes, Puts

LEMMA FormatsCounted ==
  ASSUME TypesOK, HeldOK, NEW t \in Thread, HoldStep(t)
  PROVE  /\ module_refs' \in [Format -> Int]
         /\ \A m \in Format :
              module_refs'[m] = module_refs[m] + (Ind(bprm'[t].fmt = m) - Ind(bprm[t].fmt = m))
  <1>0. module_refs \in [Format -> Int] /\ NoFormat \notin Format
    BY ExecAssumption DEF TypesOK
  <1>. USE DEF Ind
  <1>1. CASE KeepsFormat(t) /\ UNCHANGED module_refs
    BY <1>0, <1>1 DEF KeepsFormat
  <1>2. CASE PutFormat(t) /\ bprm'[t].fmt = NoFormat
    <2>1. module_refs' = Add(module_refs, bprm[t].fmt, -1)
      BY <1>2 DEF PutFormat
    <2>2. /\ module_refs' \in [Format -> Int]
          /\ \A m \in Format : module_refs'[m] = module_refs[m] + (IF bprm[t].fmt = m THEN -1 ELSE 0)
      BY <1>0, <2>1, AddTyped
    <2>. QED  BY <1>0, <1>2, <2>2
  <1>3. CASE Takes(t)
    <2>. DEFINE r == Add(module_refs, bprm[t].fmt, -1)
    <2>1. r \in [Format -> Int] /\ \A m \in Format : r[m] = module_refs[m] + (IF bprm[t].fmt = m THEN -1 ELSE 0)
      BY <1>0, AddTyped
    <2>2. module_refs' = Add(r, bprm'[t].fmt, 1)
      BY <1>3 DEF Takes, Taken
    <2>. HIDE DEF r
    <2>3. /\ module_refs' \in [Format -> Int]
          /\ \A m \in Format : module_refs'[m] = r[m] + (IF bprm'[t].fmt = m THEN 1 ELSE 0)
      BY <2>1, <2>2, AddTyped
    <2>. QED  BY <1>0, <2>1, <2>3
  <1>4. CASE Frees(t)
    <2>1. bprm'[t].fmt = NoFormat /\ bprm[t].fmt = NoFormat /\ UNCHANGED module_refs
      BY <1>4 DEF Frees, NoBprm, HeldOK, OutPcs, formatVars
    <2>. QED  BY <1>0, <2>1
  <1>. QED  BY <1>1, <1>2, <1>3, <1>4
            DEF HoldStep, Keeps, KeepsHeld, formatVars, Opens, Puts, Interprets, Replaces, Installs

LEMMA FilesTyped ==
  ASSUME TypesOK, NEW t \in Thread, HoldStep(t)
  PROVE  refs' \in [File -> Int] /\ denied' \in [File -> Int]
  <1>1. refs \in [File -> Int] /\ denied \in [File -> Int]
    BY DEF TypesOK
  <1>2. CASE UNCHANGED fileVars
    BY <1>1, <1>2 DEF fileVars
  <1>3. CASE Opens(t) \/ Interprets(t)
    <2>1. \E f : refs' = Add(refs, f, 1) /\ denied' = Add(denied, f, 1)
      BY <1>3 DEF Opens, Interprets, Opened
    <2>. QED  BY <1>1, <2>1, AddTyped
  <1>4. CASE Replaces(t) \/ Installs(t) \/ Frees(t)
    <2>1. denied' = denied \/ denied' = Add(denied, bprm[t].file, -1)
      BY <1>4 DEF Replaces, Installs, Frees, AllowWrite
    <2>2. \E f, g : refs' \in {refs, Add(refs, f, -1), Add(Add(refs, f, -1), g, -1)}
      BY <1>4 DEF Replaces, Installs, Frees
    <2>3. \A f : Add(refs, f, -1) \in [File -> Int] /\ Add(denied, f, -1) \in [File -> Int]
      BY <1>1, AddTyped
    <2>4. \A f, g : Add(Add(refs, f, -1), g, -1) \in [File -> Int]
      BY <2>3, AddTyped
    <2>. QED  BY <1>1, <2>1, <2>2, <2>3, <2>4
  <1>. QED  BY <1>2, <1>3, <1>4 DEF HoldStep, Keeps, KeepsHeld, Takes, Puts

LEMMA RefsPreserved ==
  ASSUME TypesOK, HeldOK, RefsBalanced, [ExecNext]_execVars
  PROVE  /\ RefsBalanced'
         /\ refs' \in [File -> Int] /\ denied' \in [File -> Int] /\ module_refs' \in [Format -> Int]
  <1>0. /\ \A f \in File : /\ refs[f] = Cardinality(FieldsWith(bprm, AllFields, f))
                          /\ denied[f] = Cardinality(FieldsWith(bprm, DeniedFields, f))
        /\ \A m \in Format : module_refs[m] = Cardinality(WithFormat(bprm, m))
    BY DEF RefsBalanced, HeldBy, DeniedBy, FieldsWith, AllFields, DeniedFields, WithFormat
  <1>1. ASSUME NEW t \in Thread, HoldStep(t)
        PROVE  /\ RefsBalanced'
               /\ refs' \in [File -> Int] /\ denied' \in [File -> Int]
               /\ module_refs' \in [Format -> Int]
    <2>1. /\ bprm \in [Thread -> Bprm] /\ bprm' \in [Thread -> Bprm]
          /\ \A u \in Thread \ {t} : bprm'[u] = bprm[u]
      BY <1>1 DEF HoldStep, OwnBprm, TypesOK
    <2>2. ASSUME NEW f \in File
          PROVE  /\ refs'[f] = Cardinality(FieldsWith(bprm', AllFields, f))
                 /\ denied'[f] = Cardinality(FieldsWith(bprm', DeniedFields, f))
      BY <1>0, <1>1, <2>1, FilesCounted, FieldsChange
    <2>3. ASSUME NEW m \in Format
          PROVE  module_refs'[m] = Cardinality(WithFormat(bprm', m))
      <3>1. Cardinality(WithFormat(bprm', m))
              = Cardinality(WithFormat(bprm, m)) + (Ind(bprm'[t].fmt = m) - Ind(bprm[t].fmt = m))
        BY <2>1, FormatsChange
      <3>. QED  BY <1>0, <1>1, <3>1, FormatsCounted
    <2>4. RefsBalanced'
      BY <2>2, <2>3 DEF RefsBalanced, HeldBy, DeniedBy, FieldsWith, AllFields, DeniedFields, WithFormat
    <2>5. refs' \in [File -> Int] /\ denied' \in [File -> Int]
      BY <1>1, FilesTyped
    <2>. QED  BY <1>1, <2>4, <2>5, FormatsCounted
  <1>2. CASE UNCHANGED <<pc, bprm, refs, denied, module_refs>>
    <2>1. \A f : HeldBy(f)' = HeldBy(f) /\ DeniedBy(f)' = DeniedBy(f)
      BY <1>2 DEF HeldBy, DeniedBy
    <2>2. \A m : {u \in Thread : bprm[u].fmt = m}' = {u \in Thread : bprm[u].fmt = m}
      BY <1>2
    <2>. QED  BY <1>2, <2>1, <2>2 DEF RefsBalanced, TypesOK
  <1>. QED  BY <1>1, <1>2, HoldCases

-----------------------------------------------------------------------------
(* The list of formats.                                                    *)

LEMMA RemovedOne ==
  ASSUME NEW S, NEW s \in Seq(S), NEW i \in 1..Len(s)
  PROVE  /\ RemoveAt(s, i) \in Seq(S)
         /\ \A j \in 1..Len(s) \ {i} :
              \E k \in 1..Len(RemoveAt(s, i)) : RemoveAt(s, i)[k] = s[j]
  <1>. DEFINE a == SubSeq(s, 1, i - 1)
              b == SubSeq(s, i + 1, Len(s))
  <1>1. /\ a \in Seq(S) /\ Len(a) = i - 1
        /\ b \in Seq(S) /\ Len(b) = Len(s) - i
        /\ \A k \in 1..(i - 1) : a[k] = s[k]
        /\ \A k \in 1..(Len(s) - i) : b[k] = s[i + k]
    BY SubSeqProperties, LenProperties
  <1>2. /\ a \o b \in Seq(S) /\ Len(a \o b) = Len(a) + Len(b)
        /\ \A k \in 1..Len(a) : (a \o b)[k] = a[k]
        /\ \A k \in 1..Len(b) : (a \o b)[Len(a) + k] = b[k]
    <2>. HIDE DEF a, b
    <2>1. /\ a \o b \in Seq(S) /\ Len(a \o b) = Len(a) + Len(b)
          /\ \A k \in 1..(Len(a) + Len(b)) :
               (a \o b)[k] = IF k <= Len(a) THEN a[k] ELSE b[k - Len(a)]
      BY <1>1, ConcatProperties
    <2>2. Len(a) \in Nat /\ Len(b) \in Nat
      BY <1>1, LenProperties
    <2>3. ASSUME NEW k \in 1..Len(b)
          PROVE  (a \o b)[Len(a) + k] = b[k]
      <3>1. Len(a) + k \in 1..(Len(a) + Len(b)) /\ ~(Len(a) + k <= Len(a)) /\ (Len(a) + k) - Len(a) = k
        BY <2>2
      <3>. QED  BY <2>1, <3>1
    <2>. QED  BY <2>1, <2>2, <2>3
  <1>. HIDE DEF a, b
  <1>3. RemoveAt(s, i) = a \o b
    BY DEF RemoveAt, a, b
  <1>4. ASSUME NEW j \in 1..Len(s) \ {i}
        PROVE  \E k \in 1..Len(a \o b) : (a \o b)[k] = s[j]
    <2>1. CASE j < i
      <3>1. j \in 1..Len(a) /\ j \in 1..(i - 1) /\ j \in 1..Len(a \o b)
        BY <1>1, <1>2, <2>1, LenProperties
      <3>. QED  BY <1>1, <1>2, <3>1
    <2>2. CASE j > i
      <3>1. /\ j - i \in 1..Len(b) /\ j - i \in 1..(Len(s) - i)
            /\ Len(a) + (j - i) \in 1..Len(a \o b) /\ i + (j - i) = j
        BY <1>1, <1>2, <2>2, LenProperties
      <3>2. (a \o b)[Len(a) + (j - i)] = s[j]
        BY <1>1, <1>2, <3>1
      <3>. QED  BY <3>1, <3>2
    <2>. QED  BY <2>1, <2>2
  <1>. QED  BY <1>2, <1>3, <1>4

\* Whatever happens to m, all other formats stay in the list.
LEMMA ListEffect ==
  ASSUME TypesOK, NEW m \in Format, ListStep(m)
  PROVE  /\ formats' \in Seq(Format) /\ module' \in [Format -> {"live", "going", "unloaded"}]
         /\ \A x \in Format \ {m} :
              /\ module'[x] = module[x]
              /\ x \in Range(formats) => x \in Range(formats')
         /\ \/ module'[m] = "unloaded" /\ module[m] = "going"
            \/ module'[m] = "live" /\ module[m] = "unloaded" /\ m \in Range(formats')
            \/ module'[m] = "going" /\ module_refs[m] = 0 /\ UNCHANGED formats /\ module[m] = "live"
  <1>0. formats \in Seq(Format) /\ DOMAIN formats = 1..Len(formats) /\ Len(formats) \in Nat
    BY LenProperties DEF TypesOK
  <1>1. CASE delete_module(m)
    BY <1>1 DEF delete_module, TypesOK
  <1>2. CASE unregister_binfmt(m)
    <2>1. PICK i \in 1..Len(formats) : formats[i] = m /\ formats' = RemoveAt(formats, i)
      BY <1>0, <1>2 DEF unregister_binfmt
    <2>2. /\ formats' \in Seq(Format) /\ DOMAIN formats' = 1..Len(formats')
          /\ \A j \in 1..Len(formats) \ {i} : \E k \in 1..Len(formats') : formats'[k] = formats[j]
      BY <1>0, <2>1, RemovedOne, LenProperties
    <2>3. \A x \in Format \ {m} : x \in Range(formats) => x \in Range(formats')
      BY <1>0, <2>1, <2>2 DEF Range
    <2>. QED  BY <1>2, <2>2, <2>3 DEF unregister_binfmt, TypesOK
  <1>3. ASSUME NEW insert \in BOOLEAN, register_binfmt(m, insert)
        PROVE  /\ formats' \in Seq(Format) /\ m \in Range(formats')
               /\ \A x \in Range(formats) : x \in Range(formats')
               /\ module[m] = "unloaded" /\ module' = [module EXCEPT ![m] = "live"]
    <2>1. module[m] = "unloaded" /\ module' = [module EXCEPT ![m] = "live"]
      BY <1>3 DEF register_binfmt
    <2>2. CASE formats' = <<m>> \o formats
      <3>1. /\ formats' \in Seq(Format) /\ Len(formats') = 1 + Len(formats)
            /\ DOMAIN formats' = 1..Len(formats') /\ formats'[1] = m
            /\ \A k \in 1..Len(formats) : formats'[1 + k] = formats[k]
        BY <1>0, <2>2, ConcatProperties, LenProperties
      <3>2. m \in Range(formats')
        BY <1>0, <3>1 DEF Range
      <3>3. ASSUME NEW k \in 1..Len(formats)
            PROVE  formats[k] \in Range(formats')
        <4>1. 1 + k \in DOMAIN formats' /\ formats'[1 + k] = formats[k]
          BY <1>0, <3>1
        <4>. QED  BY <4>1 DEF Range
      <3>. QED  BY <1>0, <2>1, <3>1, <3>2, <3>3 DEF Range
    <2>3. CASE formats' = Append(formats, m)
      <3>1. /\ formats' \in Seq(Format) /\ Len(formats') = Len(formats) + 1
            /\ DOMAIN formats' = 1..Len(formats') /\ formats'[Len(formats) + 1] = m
            /\ \A k \in 1..Len(formats) : formats'[k] = formats[k]
        BY <1>0, <2>3, AppendProperties, LenProperties
      <3>2. m \in Range(formats')
        BY <1>0, <3>1 DEF Range
      <3>3. ASSUME NEW k \in 1..Len(formats)
            PROVE  formats[k] \in Range(formats')
        <4>1. k \in DOMAIN formats' /\ formats'[k] = formats[k]
          BY <1>0, <3>1
        <4>. QED  BY <4>1 DEF Range
      <3>. QED  BY <1>0, <2>1, <3>1, <3>2, <3>3 DEF Range
    <2>. QED  BY <1>3, <2>2, <2>3 DEF register_binfmt
  <1>4. CASE \E insert \in BOOLEAN : register_binfmt(m, insert)
    <2>1. /\ formats' \in Seq(Format) /\ m \in Range(formats')
          /\ \A x \in Range(formats) : x \in Range(formats')
          /\ module[m] = "unloaded" /\ module' = [module EXCEPT ![m] = "live"]
      BY <1>3, <1>4
    <2>. QED  BY <2>1 DEF TypesOK
  <1>. QED  BY <1>1, <1>2, <1>4 DEF ListStep

LEMMA ListPreserved ==
  ASSUME TypesOK, ListOK, [ExecNext]_execVars
  PROVE  ListOK' /\ formats' \in Seq(Format) /\ module' \in [Format -> {"live", "going", "unloaded"}]
  <1>1. CASE UNCHANGED <<formats, module>>
    <2>1. Range(formats)' = Range(formats)
      BY <1>1 DEF Range
    <2>. QED  BY <1>1, <2>1 DEF ListOK, TypesOK
  <1>2. ASSUME NEW m \in Format, ListStep(m)
        PROVE  ListOK' /\ formats' \in Seq(Format)
               /\ module' \in [Format -> {"live", "going", "unloaded"}]
    <2>1. \A x \in Format \ {m} : module'[x] \in {"live", "going"} => x \in Range(formats')
      BY <1>2, ListEffect DEF ListOK
    <2>2. module'[m] \in {"live", "going"} => m \in Range(formats')
      BY <1>2, ListEffect DEF ListOK
    <2>. QED  BY <1>2, <2>1, <2>2, ListEffect DEF ListOK
  <1>. QED  BY <1>1, <1>2, HoldCases DEF HoldStep

\* A module that is removed is nobody's: the references are counted.
LEMMA UnusedIsFree ==
  ASSUME RefsBalanced, NEW m \in Format, module_refs[m] = 0, NEW t \in Thread
  PROVE  bprm[t].fmt # m
  <1>1. IsFiniteSet(WithFormat(bprm, m))
    BY ExecAssumption, FS_Subset DEF WithFormat
  <1>2. Cardinality(WithFormat(bprm, m)) = 0
    BY DEF RefsBalanced, WithFormat
  <1>3. WithFormat(bprm, m) = {}
    BY <1>1, <1>2, FS_EmptySet
  <1>. QED  BY <1>3 DEF WithFormat

InUse(fmt) == fmt \in Range(formats) /\ module[fmt] = "live"

LEMMA InUseIsFormatInUse ==
  FormatInUse <=> \A t \in Thread : bprm[t].fmt # NoFormat => InUse(bprm[t].fmt)
  BY DEF FormatInUse, InUse, Range

LEMMA FormatInUsePreserved ==
  ASSUME TypesOK, RefsBalanced, FormatInUse, [ExecNext]_execVars
  PROVE  FormatInUse'
  <1>0. \A t \in Thread : bprm[t].fmt # NoFormat => InUse(bprm[t].fmt)
    BY InUseIsFormatInUse
  <1>1. ASSUME NEW t \in Thread, HoldStep(t)
        PROVE  FormatInUse'
    <2>1. \A x : InUse(x)' = InUse(x)
      BY <1>1 DEF HoldStep, InUse, Range
    <2>2. \A u \in Thread \ {t} : bprm'[u] = bprm[u]
      BY <1>1 DEF HoldStep, OwnBprm
    <2>3. CASE Takes(t)
      <3>1. InUse(bprm'[t].fmt)
        BY <2>3 DEF Takes, Behind, InUse, Range
      <3>. QED  BY <1>0, <2>1, <2>2, <3>1 DEF FormatInUse, InUse, Range
    <2>4. CASE ~Takes(t)
      <3>1. bprm'[t].fmt \in {bprm[t].fmt, NoFormat}
        BY <1>1, <2>4 DEF HoldStep, Keeps, KeepsHeld, KeepsFormat, Opens, Puts, Interprets,
                          Replaces, Installs, Frees, NoBprm
      <3>. QED  BY <1>0, <2>1, <2>2, <3>1 DEF FormatInUse, InUse, Range
    <2>. QED  BY <2>3, <2>4
  <1>2. ASSUME NEW m \in Format, ListStep(m), UNCHANGED bprm
        PROVE  FormatInUse'
    <2>1. ASSUME NEW t \in Thread, bprm[t].fmt # NoFormat
          PROVE  InUse(bprm[t].fmt)'
      <3>1. bprm[t].fmt \in Format
        BY <2>1 DEF TypesOK, Bprm
      <3>2. CASE bprm[t].fmt = m
        <4>1. module[m] = "live"
          BY <1>0, <2>1, <3>2 DEF InUse
        <4>2. module_refs[m] = 0
          BY <1>2, <4>1, ListEffect
        <4>. QED  BY <3>2, <4>2, UnusedIsFree
      <3>3. CASE bprm[t].fmt # m
        BY <1>0, <1>2, <2>1, <3>1, <3>3, ListEffect DEF InUse
      <3>. QED  BY <3>2, <3>3
    <2>. QED  BY <1>2, <2>1 DEF FormatInUse, InUse, Range
  <1>3. CASE UNCHANGED <<bprm, formats, module>>
    BY <1>3 DEF FormatInUse
  <1>. QED  BY <1>1, <1>2, <1>3, HoldCases

-----------------------------------------------------------------------------
(* The invariant holds in every state.                                     *)

ThreadInv == LifeOK /\ CredOK /\ KillOK /\ WaitOK /\ AloneOK /\ LostOK
LockInv == GuardOK /\ UpdateOK /\ SeenOK
CountInv == HeldOK /\ ListOK /\ RefsBalanced /\ FormatInUse
ExecInv == TypesOK /\ ThreadInv /\ LockInv /\ CountInv

LEMMA TypesPreserved ==
  ASSUME TypesOK, HeldOK, ListOK, RefsBalanced, [ExecNext]_execVars
  PROVE  TypesOK'
  <1>1. ThreadTypes'
    BY ThreadTypesPreserved
  <1>2. refs' \in [File -> Int] /\ denied' \in [File -> Int] /\ module_refs' \in [Format -> Int]
    BY RefsPreserved
  <1>3. formats' \in Seq(Format) /\ module' \in [Format -> {"live", "going", "unloaded"}]
    BY ListPreserved
  <1>. QED  BY <1>1, <1>2, <1>3 DEF TypesOK, ThreadTypes

LEMMA ExecInvPreserved ==
  ASSUME ExecInv, [ExecNext]_execVars
  PROVE  ExecInv'
  <1>. USE DEF ExecInv, ThreadInv, LockInv, CountInv
  <1>1. TypesOK'
    BY TypesPreserved
  <1>2. ThreadInv'
    BY LifePreserved, CredPreserved, KillPreserved, WaitPreserved, AlonePreserved,
       LostPreserved
  <1>3. LockInv'
    BY GuardPreserved, UpdatePreserved, SeenPreserved
  <1>4. CountInv'
    BY HeldPreserved, ListPreserved, RefsPreserved, FormatInUsePreserved
  <1>. QED  BY <1>1, <1>2, <1>3, <1>4

LEMMA InitialTypes ==
  ASSUME ExecInit
  PROVE  TypesOK
  <1>1. NoBprm \in Bprm
    BY DEF NoBprm, Bprm
  <1>2. "user" \in Pcs
    BY DEF Pcs, StartPcs
  <1>. QED  BY <1>1, <1>2, ExecAssumption DEF ExecInit, TypesOK

LEMMA InitiallyUncounted ==
  ASSUME ExecInit
  PROVE  RefsBalanced
  <1>1. \A f \in File : HeldBy(f) = {} /\ DeniedBy(f) = {}
    BY ExecAssumption DEF ExecInit, NoBprm, HeldBy, DeniedBy
  <1>2. \A m \in Format : {t \in Thread : bprm[t].fmt = m} = {}
    BY ExecAssumption DEF ExecInit, NoBprm
  <1>3. Cardinality({}) = 0
    BY FS_EmptySet
  <1>. QED  BY <1>1, <1>2, <1>3 DEF RefsBalanced, ExecInit

LEMMA InitialInv ==
  ASSUME ExecInit
  PROVE  ExecInv
  <1>1. TypesOK /\ RefsBalanced
    BY InitialTypes, InitiallyUncounted
  <1>2. \A t \in Thread : pc[t] = "user" /\ bprm[t] = NoBprm /\ exit_state[t] = "alive" /\ ~killed[t]
    BY DEF ExecInit
  <1>3. LifeOK /\ KillOK /\ LostOK
    BY <1>2, ExecAssumption DEF ExecInit, LifeOK, KillOK, LostOK
  <1>4. CredOK /\ GuardOK /\ UpdateOK /\ SeenOK
    BY <1>2, ExecAssumption DEF ExecInit, CredOK, GuardOK, UpdateOK, SeenOK, NoBprm, CredPcs,
                                CheckedPcs, WaitPcs, StartPcs
  <1>5. WaitOK
    BY <1>2, ExecAssumption DEF ExecInit, WaitOK, WaitPcs
  <1>6. AloneOK
    BY <1>2 DEF ExecInit, AloneOK, Fate, NoBprm, AlonePcs, NewPcs, WaitPcs, CredPcs, CheckedPcs,
                OutPcs
  <1>7. HeldOK
    BY <1>2 DEF HeldOK, NoBprm
  <1>8. ListOK /\ FormatInUse
    BY <1>2 DEF ExecInit, ListOK, FormatInUse, NoBprm
  <1>. QED  BY <1>1, <1>3, <1>4, <1>5, <1>6, <1>7, <1>8 DEF ExecInv, ThreadInv, LockInv, CountInv

LEMMA ExecInvAlways == ExecSpec => []ExecInv
  BY InitialInv, ExecInvPreserved, PTL DEF ExecSpec

-----------------------------------------------------------------------------
(* What exec.c promises.                                                   *)

\* Past its point of no return execve does not return an error (bprm_execve): a
\* thread that runs in user mode has its address space, and no execve has killed
\* another thread of its program, whether that is dead by now or not.
THEOREM OldProgramIsWhole == ExecSpec => []NeverReturnsToOldProgram
  <1>1. ExecInv => NeverReturnsToOldProgram
    <2>. SUFFICES ASSUME ExecInv, NEW t \in Thread, Running(t)
                  PROVE  mm[t] = "old" /\ ~lost
      BY DEF NeverReturnsToOldProgram
    <2>1. mm[t] = "old"
      BY DEF ExecInv, ThreadInv, AloneOK, Fate
    <2>2. ~Committed(t)
      BY DEF Committed, WaitPcs, AlonePcs, NewPcs, Running
    <2>3. ~lost
      BY <2>2 DEF ExecInv, ThreadInv, LostOK, Alive, Running
    <2>. QED  BY <2>1, <2>3
  <1>. QED  BY <1>1, ExecInvAlways, PTL

\* The two BUG_ONs: when a thread gets the new address space every other thread
\* has exited and been reaped, and it is the leader, whoever was it before.
THEOREM SwitchesAlone == ExecSpec => []AloneInNewSpace
  <1>1. ExecInv => AloneInNewSpace
    BY DEF ExecInv, ThreadInv, AloneOK, Fate, Alone, AloneInNewSpace
  <1>. QED  BY <1>1, ExecInvAlways, PTL

\* Whatever function of execve fails, no thread that lives on takes
\* cred_guard_mutex or exec_update_lock with it to user mode.
THEOREM LocksAreReleased == ExecSpec => []LocksReleased
  <1>1. ExecInv => LocksReleased
    <2>. SUFFICES ASSUME ExecInv, NEW t \in Thread, pc[t] = "user"
                  PROVE  exec_update # t /\ (Running(t) => cred_guard # t)
      BY DEF LocksReleased, Running
    <2>1. exec_update # t
      BY DEF ExecInv, LockInv, UpdateOK
    <2>2. ~bprm[t].cred
      BY DEF ExecInv, ThreadInv, CredOK, StartPcs
    <2>3. cred_guard = t => group_exit
      BY <2>2 DEF ExecInv, LockInv, GuardOK
    <2>. QED  BY <2>1, <2>3 DEF ExecInv, ThreadInv, KillOK, Alive, Running
  <1>. QED  BY <1>1, ExecInvAlways, PTL

\* cred_guard_mutex keeps tracers away and in_exec keeps CLONE_FS away, so what
\* check_unsafe_exec saw still holds when the credentials are committed.
THEOREM CredentialsAreCurrent == ExecSpec => []UnsafeKnown
  <1>1. ExecInv => UnsafeKnown
    BY DEF ExecInv, LockInv, SeenOK, CheckedPcs, UnsafeKnown
  <1>. QED  BY <1>1, ExecInvAlways, PTL

\* Files and modules of formats are referenced as often as linux_binprms hold
\* them, through scripts, retries and every error path.
THEOREM ReferencesBalance == ExecSpec => []RefsBalanced
  <1>1. ExecInv => RefsBalanced
    BY DEF ExecInv, CountInv
  <1>. QED  BY <1>1, ExecInvAlways, PTL

\* The format that loads a binary without binfmt_lock is not unregistered
\* meanwhile, nor is its module removed.
THEOREM FormatsStay == ExecSpec => []FormatInUse
  <1>1. ExecInv => FormatInUse
    BY DEF ExecInv, CountInv
  <1>. QED  BY <1>1, ExecInvAlways, PTL

=============================================================================
