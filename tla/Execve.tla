------------------------------- MODULE Execve -------------------------------
(***************************************************************************)
(* test-applications/exec.c: execve(2) as the threads of one process call  *)
(* it, at a time. The caller prepares a linux_binprm, finds a format for   *)
(* the file, through interpreters where it is a script, and passes a point *)
(* of no return: it kills the other threads, waits for them, takes the     *)
(* place of the group leader, switches address space and credentials.      *)
(*                                                                         *)
(* pc[t] is the function that thread t runs next. What other kernel files  *)
(* do (exit, signals, ptrace, fork, modules, the formats) is modelled from *)
(* what exec.c expects of it. The strings are in ArgStack.                 *)
(***************************************************************************)
EXTENDS Integers, Sequences, FiniteSets, SequencesExt

CONSTANTS
  Thread, NoThread,
  FirstLeader,     \* the thread group leader when the process starts
  File, NoFile,
  Format, NoFormat,
  Registered,      \* the formats at the start, in their order
  MaxRewrites,     \* interpreters in a chain: 5 in the code
  MaxDisturbances  \* bound of the model: what the rest of the kernel does

ASSUME ExecAssumption ==
  /\ IsFiniteSet(Thread) /\ FirstLeader \in Thread
  /\ NoThread \notin Thread /\ "reader" \notin Thread
  /\ NoFile \notin File /\ NoFormat \notin Format
  /\ Registered \in Seq(Format)
  /\ MaxRewrites \in Nat /\ MaxDisturbances \in Nat

VARIABLES
  pc,              \* "user", or the next function of execve
  bprm,            \* struct linux_binprm of each thread
  mm,              \* "old", or "new": tsk->mm is the one that exec made
  killed,          \* fatal_signal_pending
  asleep,          \* in schedule(), not yet woken up
  exit_state,      \* "alive", "zombie" or "dead"
  leader,
  lost,            \* history: an execve killed threads of the program that runs
  group_exit,      \* SIGNAL_GROUP_EXIT
  group_exit_task, notify_count,
  cred_guard,      \* owner of cred_guard_mutex
  exec_update,     \* who holds exec_update_lock: a thread, "reader", NoThread
  ptraced,
  fs_shared,       \* another process uses the fs_struct: fs->users > n_fs
  in_exec,
  refs, denied,    \* of a file: references, and deny_write_access calls
  formats,         \* the list of registered formats
  module,          \* of a format: "live", "going" or "unloaded"
  module_refs,
  disturbances

threadVars == <<mm, killed, asleep, exit_state, leader, lost>>
groupVars == <<group_exit, group_exit_task, notify_count>>
safetyVars == <<ptraced, fs_shared, in_exec>>
fileVars == <<refs, denied>>
formatVars == <<formats, module, module_refs>>
kernelVars == <<pc, bprm, threadVars, groupVars, cred_guard, exec_update,
                safetyVars, fileVars, formatVars>>
execVars == <<kernelVars, disturbances>>

NoBprm ==
  [cred |-> FALSE, file |-> NoFile, interpreter |-> NoFile, executable |-> NoFile,
   have_execfd |-> FALSE, point_of_no_return |-> FALSE, unsafe |-> {},
   fmt |-> NoFormat, retried |-> FALSE, depth |-> 0, failed |-> FALSE]

ExecInit ==
  /\ pc = [t \in Thread |-> "user"]
  /\ bprm = [t \in Thread |-> NoBprm]
  /\ mm = [t \in Thread |-> "old"]
  /\ killed = [t \in Thread |-> FALSE]
  /\ asleep = [t \in Thread |-> FALSE]
  /\ exit_state = [t \in Thread |-> "alive"]
  /\ leader = FirstLeader /\ lost = FALSE
  /\ group_exit = FALSE /\ group_exit_task = NoThread /\ notify_count = 0
  /\ cred_guard = NoThread /\ exec_update = NoThread
  /\ ptraced = [t \in Thread |-> FALSE] /\ fs_shared = FALSE /\ in_exec = FALSE
  /\ refs = [f \in File |-> 0] /\ denied = [f \in File |-> 0]
  /\ formats = Registered
  /\ module = [m \in Format |-> IF m \in Range(Registered) THEN "live" ELSE "unloaded"]
  /\ module_refs = [m \in Format |-> 0]
  /\ disturbances = 0

-----------------------------------------------------------------------------
(* Steps of execve.                                                        *)

Goto(t, label) == pc' = [pc EXCEPT ![t] = label]
Add(counts, x, n) == IF x \in DOMAIN counts THEN [counts EXCEPT ![x] = @ + n] ELSE counts

\* search_binary_handler returns what load_binary returned, and drops the
\* reference to the format's module.
PutFormat(t) == module_refs' = Add(module_refs, bprm[t].fmt, -1)

\* Return an error of load_binary.
FailLoad(t) ==
  /\ Goto(t, "out")
  /\ PutFormat(t)
  /\ bprm' = [bprm EXCEPT ![t].failed = TRUE, ![t].fmt = NoFormat]
  /\ UNCHANGED <<formats, module>>

\* do_execveat_common up to bprm_execve; what fails there leaves nothing.
StartExec(t) ==
  /\ pc[t] = "user" /\ exit_state[t] = "alive" /\ ~killed[t]
  /\ Goto(t, "prepare_bprm_creds")
  /\ UNCHANGED <<bprm, threadVars, groupVars, cred_guard, exec_update, safetyVars,
                 fileVars, formatVars>>

\* An uncontended mutex is taken whatever signals are pending.
Interrupted(t) == cred_guard # NoThread /\ killed[t]

prepare_bprm_creds(t) ==
  /\ pc[t] = "prepare_bprm_creds"
  /\ \/ /\ cred_guard = NoThread
        /\ cred_guard' = t
        /\ bprm' = [bprm EXCEPT ![t].cred = TRUE]
        /\ Goto(t, "check_unsafe_exec")
     \/ /\ cred_guard = NoThread \/ Interrupted(t)
        /\ bprm' = [bprm EXCEPT ![t].failed = TRUE]
        /\ Goto(t, "free_bprm")
        /\ UNCHANGED cred_guard
  /\ UNCHANGED <<threadVars, groupVars, exec_update, safetyVars, fileVars, formatVars>>

NotMarked == in_exec   \* mutant: in_exec is not set
Marked == in_exec \/ ~fs_shared

\* in_exec keeps fork from sharing the fs_struct from here on.
check_unsafe_exec(t) ==
  /\ pc[t] = "check_unsafe_exec"
  /\ bprm' = [bprm EXCEPT ![t].unsafe =
                (IF ptraced[t] THEN {"PTRACE"} ELSE {}) \cup (IF fs_shared THEN {"SHARE"} ELSE {})]
  /\ in_exec' = Marked
  /\ Goto(t, "do_open_execat")
  /\ UNCHANGED <<threadVars, groupVars, cred_guard, exec_update, ptraced, fs_shared,
                 fileVars, formatVars>>

\* A file that is opened for execution cannot be written until
\* allow_write_access.
Opened(f) == refs' = Add(refs, f, 1) /\ denied' = Add(denied, f, 1)

do_open_execat(t) ==
  /\ pc[t] = "do_open_execat"
  /\ \/ \E f \in File :
          /\ Opened(f)
          /\ bprm' = [bprm EXCEPT ![t].file = f]
          /\ Goto(t, "search_binary_handler")
     \/ /\ bprm' = [bprm EXCEPT ![t].failed = TRUE]
        /\ Goto(t, "out_unmark")
        /\ UNCHANGED fileVars
  /\ UNCHANGED <<threadVars, groupVars, cred_guard, exec_update, safetyVars, formatVars>>

\* The formats behind fmt in the list whose modules are not being removed.
PositionOf(fmt) == IF \E i \in DOMAIN formats : formats[i] = fmt
                   THEN CHOOSE i \in DOMAIN formats : formats[i] = fmt ELSE 0
EvenGoing(fmt) == {i \in DOMAIN formats : i > PositionOf(fmt)}   \* mutant: __module_get
Behind(fmt) == {i \in DOMAIN formats : i > PositionOf(fmt) /\ module[formats[i]] = "live"}

\* try_module_get, after the reference to the last format is dropped.
Taken(old, next) == Add(Add(module_refs, old, -1), next, 1)

\* Under binfmt_lock: drop the format that did not know the file, and hold the
\* next one. At the end of the list request_module gives it a second chance.
search_binary_handler(t) ==
  LET fmt == bprm[t].fmt IN
  /\ pc[t] = "search_binary_handler"
  /\ \/ \E i \in Behind(fmt) :
          /\ \A j \in Behind(fmt) : i <= j
          /\ module_refs' = Taken(fmt, formats[i])
          /\ bprm' = [bprm EXCEPT ![t].fmt = formats[i]]
          /\ Goto(t, "load_binary")
     \/ /\ Behind(fmt) = {} /\ ~bprm[t].retried
        /\ PutFormat(t)
        /\ bprm' = [bprm EXCEPT ![t].fmt = NoFormat, ![t].retried = TRUE]
        /\ UNCHANGED pc
     \/ /\ Behind(fmt) = {} \/ fmt = NoFormat    \* or security_bprm_check failed
        /\ PutFormat(t)
        /\ bprm' = [bprm EXCEPT ![t].fmt = NoFormat, ![t].failed = TRUE]
        /\ Goto(t, "out")
  /\ UNCHANGED <<threadVars, groupVars, cred_guard, exec_update, safetyVars, fileVars,
                 formats, module>>

\* What a format does: it does not know the file, fails, opens an interpreter
\* and asks to go on with that one, or begins to load the binary.
load_binary(t) ==
  /\ pc[t] = "load_binary"
  /\ \/ Goto(t, "search_binary_handler") /\ UNCHANGED <<bprm, fileVars, formatVars>>
     \/ FailLoad(t) /\ UNCHANGED fileVars
     \/ \E f \in File, execfd \in BOOLEAN :
          /\ Opened(f)
          /\ bprm' = [bprm EXCEPT ![t].interpreter = f, ![t].fmt = NoFormat, ![t].retried = FALSE,
                                  ![t].have_execfd = @ \/ execfd]
          /\ PutFormat(t)
          /\ Goto(t, "exec_binprm")
          /\ UNCHANGED <<formats, module>>
     \/ Goto(t, "begin_new_exec") /\ UNCHANGED <<bprm, fileVars, formatVars>>
  /\ UNCHANGED <<threadVars, groupVars, cred_guard, exec_update, safetyVars>>

\* The interpreter becomes the file; the file may be kept for it to execute.
StillDenied(f) == denied   \* mutant: allow_write_access is forgotten
AllowWrite(f) == Add(denied, f, -1)

exec_binprm(t) ==
  LET b == bprm[t]
      keep == b.have_execfd /\ b.executable = NoFile
      failed == (b.have_execfd /\ ~keep) \/ b.depth + 1 > MaxRewrites
  IN
  /\ pc[t] = "exec_binprm"
  /\ denied' = AllowWrite(b.file)
  /\ refs' = IF keep THEN refs ELSE Add(refs, b.file, -1)
  /\ bprm' = [bprm EXCEPT ![t].file = b.interpreter, ![t].interpreter = NoFile,
                          ![t].executable = IF keep THEN b.file ELSE b.executable,
                          ![t].depth = b.depth + 1, ![t].failed = failed]
  /\ Goto(t, IF failed THEN "out" ELSE "search_binary_handler")
  /\ UNCHANGED <<threadVars, groupVars, cred_guard, exec_update, safetyVars, formatVars>>

-----------------------------------------------------------------------------
(* begin_new_exec: alone in the thread group.                              *)

begin_new_exec(t) ==
  /\ pc[t] = "begin_new_exec"
  /\ \/ FailLoad(t)
     \/ /\ bprm' = [bprm EXCEPT ![t].point_of_no_return = TRUE]
        /\ Goto(t, "de_thread")
        /\ UNCHANGED formatVars
  /\ UNCHANGED <<threadVars, groupVars, cred_guard, exec_update, safetyVars, fileVars>>

NotKilled(t) == {u \in Thread \ {t} : exit_state[u] # "dead" /\ ~killed[u]}   \* mutant: who is about to exit is not waited for
Others(t) == {u \in Thread \ {t} : exit_state[u] # "dead"}

\* Every other thread gets SIGKILL. The leader is not counted: it stays a
\* zombie, and is waited for afterwards.
ThreadsToWaitFor(t) == Cardinality(Others(t) \ {leader})

de_thread(t) ==
  /\ pc[t] = "de_thread"
  /\ \/ /\ Others(t) = {}
        /\ Goto(t, "unshare_files")
        /\ UNCHANGED <<bprm, threadVars, groupVars, formatVars>>
     \/ /\ Others(t) # {} /\ (group_exit \/ group_exit_task # NoThread)
        /\ FailLoad(t)
        /\ UNCHANGED <<threadVars, groupVars>>
     \/ /\ Others(t) # {} /\ ~group_exit /\ group_exit_task = NoThread
        /\ group_exit_task' = t
        /\ notify_count' = ThreadsToWaitFor(t)
        /\ killed' = [u \in Thread |-> killed[u] \/ (u # t /\ exit_state[u] = "alive")]
        /\ lost' = (lost \/ \E u \in Thread \ {t} : exit_state[u] = "alive")
        /\ Goto(t, "wait_for_threads")
        /\ UNCHANGED <<bprm, mm, asleep, exit_state, leader, group_exit, formatVars>>
  /\ UNCHANGED <<cred_guard, exec_update, safetyVars, fileVars>>

\* A killable sleep: a thread that has a fatal signal does not fall asleep.
Sleep(t, label) ==
  /\ asleep' = [asleep EXCEPT ![t] = ~killed[t]]
  /\ Goto(t, label)
  /\ UNCHANGED <<bprm, mm, killed, exit_state, leader, lost, formatVars>>

GroupDone == group_exit_task' = NoThread /\ notify_count' = 0 /\ UNCHANGED group_exit

wait_for_threads(t) ==
  /\ pc[t] = "wait_for_threads"
  /\ \/ /\ notify_count # 0
        /\ Sleep(t, "schedule")
        /\ UNCHANGED groupVars
     \/ /\ notify_count = 0
        /\ IF leader = t THEN Goto(t, "unshare_files") /\ GroupDone
                         ELSE Goto(t, "wait_for_leader") /\ UNCHANGED groupVars
        /\ UNCHANGED <<bprm, threadVars, formatVars>>
  /\ UNCHANGED <<cred_guard, exec_update, safetyVars, fileVars>>

\* Under tasklist_lock, so that the leader cannot exit between the look at its
\* exit_state and the sleep without seeing notify_count = -1.
CountUnset == UNCHANGED notify_count   \* mutant: exit_notify is not told
AskLeaderToNotify == notify_count' = -1

wait_for_leader(t) ==
  /\ pc[t] = "wait_for_leader"
  /\ \/ /\ exit_state[leader] # "zombie"
        /\ AskLeaderToNotify
        /\ Sleep(t, "schedule_leader")
        /\ UNCHANGED <<group_exit, group_exit_task>>
     \/ /\ exit_state[leader] = "zombie"
        /\ exit_state' = [exit_state EXCEPT ![leader] = "dead"]
        /\ leader' = t
        /\ GroupDone
        /\ Goto(t, "unshare_files")
        /\ UNCHANGED <<bprm, mm, killed, asleep, lost, formatVars>>
  /\ UNCHANGED <<cred_guard, exec_update, safetyVars, fileVars>>

\* Woken up: by the last thread, by the leader, or by a fatal signal.
schedule(t) ==
  /\ pc[t] \in {"schedule", "schedule_leader"}
  /\ ~asleep[t]
  /\ \/ killed[t] /\ FailLoad(t) /\ GroupDone
     \/ /\ ~killed[t]
        /\ Goto(t, IF pc[t] = "schedule" THEN "wait_for_threads" ELSE "wait_for_leader")
        /\ UNCHANGED <<bprm, groupVars, formatVars>>
  /\ UNCHANGED <<threadVars, cred_guard, exec_update, safetyVars, fileVars>>

-----------------------------------------------------------------------------
(* begin_new_exec: the new address space and credentials.                  *)

\* unshare_files and set_mm_exe_file may fail.
unshare_files(t) ==
  /\ pc[t] = "unshare_files"
  /\ \/ FailLoad(t)
     \/ Goto(t, "exec_mmap") /\ UNCHANGED <<bprm, formatVars>>
  /\ UNCHANGED <<threadVars, groupVars, cred_guard, exec_update, safetyVars, fileVars>>

\* A fatal signal interrupts the wait for the lock; so does a core dump.
exec_mmap(t) ==
  /\ pc[t] = "exec_mmap"
  /\ \/ /\ exec_update = NoThread
        /\ exec_update' = t
        /\ mm' = [mm EXCEPT ![t] = "new"]
        /\ Goto(t, "commit_creds")
        /\ UNCHANGED <<bprm, formatVars>>
     \/ killed[t] /\ FailLoad(t) /\ UNCHANGED <<mm, exec_update>>
  /\ UNCHANGED <<killed, asleep, exit_state, leader, lost, groupVars, cred_guard, safetyVars,
                 fileVars>>

\* unshare_sighand and set_cred_ucounts may fail, before commit_creds.
KeepUpdateLock == UNCHANGED exec_update   \* mutant: goto out for out_unlock
UnlockUpdate == exec_update' = NoThread

commit_creds(t) ==
  /\ pc[t] = "commit_creds"
  /\ \/ FailLoad(t) /\ UnlockUpdate
     \/ /\ bprm' = [bprm EXCEPT ![t].cred = FALSE]
        /\ Goto(t, "install_execfd")
        /\ UNCHANGED <<exec_update, formatVars>>
  /\ UNCHANGED <<threadVars, groupVars, cred_guard, safetyVars, fileVars>>

\* The descriptor takes over the reference to the executable.
install_execfd(t) ==
  /\ pc[t] = "install_execfd"
  /\ \/ /\ bprm[t].have_execfd
        /\ FailLoad(t)
        /\ UnlockUpdate
        /\ UNCHANGED refs
     \/ /\ refs' = Add(refs, bprm[t].executable, -1)
        /\ bprm' = [bprm EXCEPT ![t].executable = NoFile]
        /\ Goto(t, "setup_new_exec")
        /\ UNCHANGED <<exec_update, formatVars>>
  /\ UNCHANGED <<threadVars, groupVars, cred_guard, safetyVars, denied>>

setup_new_exec(t) ==
  /\ pc[t] = "setup_new_exec"
  /\ UnlockUpdate
  /\ cred_guard' = NoThread
  /\ Goto(t, "start_thread")
  /\ UNCHANGED <<bprm, threadVars, groupVars, safetyVars, fileVars, formatVars>>

\* The format maps the binary, calls finalize_exec and starts the program.
start_thread(t) ==
  /\ pc[t] = "start_thread"
  /\ \/ FailLoad(t)
     \/ /\ PutFormat(t)
        /\ bprm' = [bprm EXCEPT ![t].fmt = NoFormat]
        /\ Goto(t, "out_unmark")
        /\ UNCHANGED <<formats, module>>
  /\ UNCHANGED <<threadVars, groupVars, cred_guard, exec_update, safetyVars, fileVars>>

-----------------------------------------------------------------------------
(* The end of bprm_execve.                                                 *)

Everyone(dies) == killed' = [u \in Thread |-> killed[u] \/ (dies /\ exit_state[u] = "alive")]

\* Past the point of no return the thread must not return to the old program.
FatalInNewSpace(t) ==   \* mutant: an error is fatal after exec_mmap only
  bprm[t].point_of_no_return /\ ~killed[t] /\ mm[t] = "new"
FatalError(t) == bprm[t].point_of_no_return /\ ~killed[t]

out(t) ==
  /\ pc[t] = "out"
  /\ Everyone(FatalError(t))
  /\ group_exit' = (group_exit \/ FatalError(t))
  /\ asleep' = [u \in Thread |-> asleep[u] /\ ~killed'[u]]
  /\ Goto(t, "out_unmark")
  /\ UNCHANGED <<bprm, mm, exit_state, leader, lost, group_exit_task, notify_count, cred_guard,
                 exec_update, safetyVars, fileVars, formatVars>>

out_unmark(t) ==
  /\ pc[t] = "out_unmark"
  /\ in_exec' = FALSE
  /\ Goto(t, "free_bprm")
  /\ UNCHANGED <<bprm, threadVars, groupVars, cred_guard, exec_update, ptraced, fs_shared,
                 fileVars, formatVars>>

\* cred_guard_mutex is released by whoever still has the credentials. After an
\* execve that did not fail the new program runs, with all its threads.
free_bprm(t) ==
  /\ pc[t] = "free_bprm"
  /\ cred_guard' = IF bprm[t].cred THEN NoThread ELSE cred_guard
  /\ denied' = Add(denied, bprm[t].file, -1)
  /\ refs' = Add(Add(refs, bprm[t].file, -1), bprm[t].executable, -1)
  /\ mm' = IF bprm[t].failed THEN mm ELSE [mm EXCEPT ![t] = "old"]
  /\ lost' = (lost /\ bprm[t].failed)
  /\ bprm' = [bprm EXCEPT ![t] = NoBprm]
  /\ Goto(t, "user")
  /\ UNCHANGED <<killed, asleep, exit_state, leader, groupVars, exec_update, safetyVars, formatVars>>

-----------------------------------------------------------------------------
(* The rest of the kernel.                                                 *)

unchangedByExit == <<pc, bprm, mm, cred_guard, exec_update, safetyVars, fileVars, formatVars>>

\* exit_notify and __exit_signal wake the thread that waits in de_thread. A
\* leader stays a zombie as long as there are other threads.
Exit(u) ==
  /\ pc[u] = "user" /\ exit_state[u] = "alive"
  /\ exit_state' = [exit_state EXCEPT ![u] = IF u = leader /\ Others(u) # {} THEN "zombie" ELSE "dead"]
  /\ notify_count' = IF u # leader /\ notify_count > 0 THEN notify_count - 1 ELSE notify_count
  /\ asleep' = IF notify_count < 0 \/ (notify_count = 1 /\ notify_count' = 0)
               THEN [asleep EXCEPT ![group_exit_task] = FALSE] ELSE asleep
  /\ UNCHANGED <<unchangedByExit, killed, leader, lost, group_exit, group_exit_task>>

Disturb == disturbances < MaxDisturbances /\ disturbances' = disturbances + 1
Undo == UNCHANGED disturbances

\* SIGKILL, or exit_group.
KillGroup ==
  /\ Disturb /\ ~group_exit /\ \E u \in Thread : exit_state[u] = "alive"
  /\ group_exit' = TRUE
  /\ Everyone(TRUE)
  /\ asleep' = [u \in Thread |-> FALSE]
  /\ UNCHANGED <<unchangedByExit, exit_state, leader, lost, group_exit_task, notify_count>>

Running(u) == pc[u] = "user" /\ exit_state[u] = "alive" /\ ~killed[u]

clone(u) ==
  /\ Disturb /\ \E parent \in Thread : Running(parent)
  /\ ~group_exit /\ exit_state[u] = "dead"
  /\ exit_state' = [exit_state EXCEPT ![u] = "alive"]
  /\ killed' = [killed EXCEPT ![u] = FALSE]
  /\ mm' = [mm EXCEPT ![u] = "old"]
  /\ UNCHANGED <<pc, bprm, asleep, leader, lost, groupVars, cred_guard, exec_update, safetyVars,
                 fileVars, formatVars>>

unchangedBySafety == <<pc, bprm, threadVars, groupVars, cred_guard, exec_update, fileVars, formatVars>>

\* ptrace_attach takes cred_guard_mutex, and releases it at the end.
ptrace(u) ==
  /\ exit_state[u] = "alive"
  /\ \/ ptraced[u] /\ Undo
     \/ ~ptraced[u] /\ cred_guard = NoThread /\ Disturb
  /\ ptraced' = [ptraced EXCEPT ![u] = ~@]
  /\ UNCHANGED <<unchangedBySafety, fs_shared, in_exec>>

\* fork with CLONE_FS by one of the threads, and the end of that process.
fork_fs ==
  /\ \/ fs_shared /\ Undo
     \/ ~fs_shared /\ ~in_exec /\ (\E u \in Thread : Running(u)) /\ Disturb
  /\ fs_shared' = ~fs_shared
  /\ UNCHANGED <<unchangedBySafety, ptraced, in_exec>>

\* /proc reads what exec is about to replace.
down_read ==
  /\ Disturb /\ exec_update = NoThread /\ exec_update' = "reader"
  /\ UNCHANGED <<pc, bprm, threadVars, groupVars, cred_guard, safetyVars, fileVars, formatVars>>

up_read ==
  /\ Undo /\ exec_update = "reader" /\ exec_update' = NoThread
  /\ UNCHANGED <<pc, bprm, threadVars, groupVars, cred_guard, safetyVars, fileVars, formatVars>>

unchangedByModules == <<pc, bprm, threadVars, groupVars, cred_guard, exec_update, safetyVars, fileVars>>

register_binfmt(m, insert) ==
  /\ Undo /\ module[m] = "unloaded"
  /\ module' = [module EXCEPT ![m] = "live"]
  /\ formats' = IF insert THEN <<m>> \o formats ELSE Append(formats, m)
  /\ UNCHANGED <<unchangedByModules, module_refs>>

\* A module is removed when nobody holds it, and may no longer be taken then.
delete_module(m) ==
  /\ Disturb /\ module[m] = "live" /\ module_refs[m] = 0
  /\ module' = [module EXCEPT ![m] = "going"]
  /\ UNCHANGED <<unchangedByModules, module_refs, formats>>

unregister_binfmt(m) ==
  /\ Undo /\ module[m] = "going"
  /\ module' = [module EXCEPT ![m] = "unloaded"]
  /\ \E i \in DOMAIN formats : formats[i] = m /\ formats' = RemoveAt(formats, i)
  /\ UNCHANGED <<unchangedByModules, module_refs>>

-----------------------------------------------------------------------------

bprm_execve(t) ==
  \/ check_unsafe_exec(t) \/ do_open_execat(t) \/ search_binary_handler(t) \/ load_binary(t)
  \/ exec_binprm(t) \/ begin_new_exec(t) \/ de_thread(t) \/ wait_for_threads(t)
  \/ wait_for_leader(t) \/ schedule(t) \/ unshare_files(t) \/ exec_mmap(t) \/ commit_creds(t)
  \/ install_execfd(t) \/ setup_new_exec(t) \/ start_thread(t) \/ out(t) \/ out_unmark(t)
  \/ free_bprm(t)

ExecNext ==
  \/ \E t \in Thread : (StartExec(t) \/ prepare_bprm_creds(t) \/ bprm_execve(t)) /\ Undo
  \/ \E u \in Thread : (Exit(u) /\ Undo) \/ clone(u) \/ ptrace(u)
  \/ KillGroup \/ fork_fs \/ down_read \/ up_read
  \/ \E m \in Format : \/ \E insert \in BOOLEAN : register_binfmt(m, insert)
                        \/ delete_module(m) \/ unregister_binfmt(m)

\* The scheduler runs whoever can run, and a thread that was killed exits when
\* it returns to user mode. A mutex and a rw_semaphore are fair to waiters.
ExecFairness ==
  /\ \A t \in Thread :
       /\ WF_kernelVars(bprm_execve(t))
       /\ SF_kernelVars(prepare_bprm_creds(t)) /\ SF_kernelVars(exec_mmap(t))
       /\ WF_kernelVars(killed[t] /\ Exit(t))
  /\ WF_kernelVars(up_read)

ExecSpec == ExecInit /\ [][ExecNext]_execVars
FairExecSpec == ExecSpec /\ ExecFairness

-----------------------------------------------------------------------------
(* Properties.                                                             *)

\* The code never returns to the old program once that has lost its threads or
\* its address space (bprm_execve, "If past the point of no return"): while a
\* thread runs in user mode its address space is whole, and no execve has killed
\* a thread of its program, neither one that is yet to exit nor one that has
\* exited and been reaped: also when the error comes after de_thread and before
\* exec_mmap, with nobody else left.
NeverReturnsToOldProgram ==
  \A t \in Thread : Running(t) => mm[t] = "old" /\ ~lost

\* Whoever switches the address space is alone in the process and is its leader
\* (the BUG_ONs of de_thread and exec_mmap): also when it was not the leader,
\* and when threads were created, left or called execve at the same time.
AloneInNewSpace ==
  \A t \in Thread : (mm[t] = "new" /\ pc[t] # "user") =>
    leader = t /\ \A u \in Thread \ {t} : exit_state[u] = "dead"

\* Both locks are free again when execve returns, on every path, except that
\* the mutex may stay with a thread that dies: get_unused_fd_flags failed after
\* commit_creds, and free_bprm finds no credentials to put.
LocksReleased ==
  \A t \in Thread :
    /\ pc[t] = "user" => exec_update # t
    /\ Running(t) => cred_guard # t

\* The credentials are computed for what the process is when they take effect:
\* nobody attaches to it, or begins to share its fs_struct, unnoticed after
\* check_unsafe_exec has looked.
UnsafeKnown ==
  \A t \in Thread : pc[t] = "commit_creds" =>
    /\ ptraced[t] => "PTRACE" \in bprm[t].unsafe
    /\ fs_shared => "SHARE" \in bprm[t].unsafe

HeldBy(f) == {x \in Thread \X {"file", "interpreter", "executable"} : bprm[x[1]][x[2]] = f}
DeniedBy(f) == {x \in Thread \X {"file", "interpreter"} : bprm[x[1]][x[2]] = f}

\* Every reference to a file, every denial of write access and every reference
\* to a format's module is held by a linux_binprm: scripts, interpreters of
\* interpreters, formats that do not know the file and failures at each point
\* neither leak one nor release one twice.
RefsBalanced ==
  /\ \A f \in File :
       refs[f] = Cardinality(HeldBy(f)) /\ denied[f] = Cardinality(DeniedBy(f))
  /\ \A m \in Format : module_refs[m] = Cardinality({t \in Thread : bprm[t].fmt = m})

\* The list is walked without its lock while a format loads the binary, and the
\* walk goes on from that format: it is still registered.
FormatInUse ==
  \A t \in Thread : bprm[t].fmt # NoFormat =>
    /\ bprm[t].fmt \in {formats[i] : i \in DOMAIN formats}
    /\ module[bprm[t].fmt] = "live"

\* Every execve ends: no thread waits for ever, for the mutex of a thread that
\* waits for it to exit, or for threads and a leader that have exited already.
ExecEnds == \A t \in Thread : pc[t] # "user" ~> pc[t] = "user"

=============================================================================
