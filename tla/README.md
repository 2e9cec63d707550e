# Verification of C-FLAT for Raspberry Pi 3

TLA+ specifications of this repository's control-flow attestation: what the
trusted application measures, what the runtime that instrumented programs link
makes of it, what reaches the verifier, and what the programs that are measured
do. TLC checks the specifications on
small instances; TLAPS proves theorems about them for every value of their
constants. Paths below are relative to the repository.

## 1. The system

An LLVM pass inserts calls to hooks into a program. Each hook is a call into the
secure world (`TEEC_InvokeCommand`), where a trusted application (TA) extends a
hash chain, keeps a record per loop and a stack of calls. When the program asks
for an attestation the TA serializes the hash and the records.

| Component | State it keeps | Operations |
|---|---|---|
| Trusted application, `secure-world/ta/cflat_ta.c` | one `cflat_session_ctx` per session: `current_hash`, the SHA-256 operation, `is_initialized`, `loops[64]`, `loop_count`, `loop_depth`, `call_stack[32]`, `final_auth`, `auth_size`, the debug log | open, close, INIT, RECORD_NODE, LOOP_ENTER, LOOP_EXIT, LOOP_ITERATION, CALL_ENTER, CALL_RETURN, FINALIZE, GET_AUTH, GET_LOG |
| Runtime, `instrumentation/runtime/libcflat.c` | per process: a TEE context and a session, `initialized`, `needs_reinit`, a counter of world switches | seven hooks, `ensure_init` and `maybe_reinit` that they share, `cflat_finalize_and_print`, the destructor `cflat_cleanup` |
| LLVM pass, `instrumentation/llvm-pass/CFlatPass.cpp` | none at run time | before every branch `record_node`, before every direct call of a defined function `call_enter`, before every `ret` `call_return` |
| Host API, `secure-world/host/cflat_host.c` | a context, a session, `initialized` | the same commands, with an explicit `cflat_init` and results for the caller |
| OP-TEE (not in the repository) | TA instances and sessions | `TA_FLAGS` in `user_ta_header_defines.h` ask for a single instance, which takes a single session |
| Syringe pump, `test-applications/syringe/test_syringe.c` | bolus and menu, displayed volume, serial line, keypad, triggers | `run_one_loop`: feed a command, read the keys, the triggers and the line, move the motor. The case study that is measured |
| `test-applications/exec.c` (a Linux kernel file that serves as a workload) | per thread a `linux_binprm`, per process the locks and flags of `signal_struct`, the list of binary formats, the argument pages | `execve` from `do_execveat_common` to the new program, `register_binfmt`, `unregister_binfmt` |
| Embench programs, `test-applications/embench-iot-benchmarks/` | containers, heaps, digests, tables | containers of `sglib.h`, Montgomery multiplication, Huffman coding, SHA-256, AES, CRC-32; others that are not modelled |
| Simple tests, scripts | | small programs and build files |

How they interact: the program calls hooks synchronously and the runtime calls
the TA synchronously, so one process is a single thread of control. Concurrency
comes from several instrumented processes before one TA. The hooks ignore every
result they get. State is shared across a cycle in one place, the TA's session
context, that INIT is to reset; the runtime postpones this INIT from the end of
an attestation to the next *forward* hook (`needs_reinit`), so that returns that
are still pending fall into the old cycle.

What is hard about it, and what makes each part correct:

* **TA: three views of one nest.** A program's loops form a stack. The TA has a
  table that it searches by loop id, flags in its entries and a counter
  `loop_depth` beside it, each changed by different commands. It is correct if
  they agree with each other and with the program: the active records are those
  of the open loops, leaving a loop resumes the hash that this loop suspended,
  and a loop the TA refused (too deep, too many records) disturbs no other.
* **TA: re-use.** INIT resets counters and leaves arrays. It is correct if
  nothing of an earlier cycle shows in a later one.
* **TA: failures.** Allocation may fail in every INIT, between freeing one digest
  operation and having the next. No operation may leak, be used after it was
  freed, or be freed twice.
* **TA: boundaries.** Depth 16, 64 records, 32 calls, 32-bit counters, and the
  size of `final_auth`: an attestation is complete or it is not produced.
* **Runtime: cycles.** An attestation must hold one cycle of its own process, in
  order, whatever fails, whoever else uses the TA, wherever a process dies.
* **Runtime: initialization** happens in whichever hook comes first and is tried
  again by the next one; it must come to an end.
* **Calls.** The call stack must hold the open calls, although calls and returns
  are instrumented by different rules.
* **Pass.** What is logged at run time must be the path that was taken, through
  blocks with calls, functions that are skipped and calls through pointers.
* **Host API.** The application must know from results what is measured, whatever
  fails; the single session must not be lost; a retry for size must succeed.
* **Pump.** Four sources of boluses share one volume. Lines arrive in pieces into a
  buffer that is never cleared. Keys bounce, repeat and slide.
* **`exec.c`.** Threads kill each other, wait for each other and share locks, while
  the process is traced, its file system context shared, and formats unloaded.
  Errors after the point of no return must end the process; all others must give
  back exactly what was taken. Argument strings are copied backwards across pages.
* **Kernels.** Long sequences of insertions and deletions, indexes that wrap, carries,
  boundaries of blocks, tables and renamed registers.

## 2. Modules

| Module | Models |
|---|---|
| `CflatTA` | The TA. One variable per field of `cflat_session_ctx`, one action per entry point and command, `Next` a client that invokes anything at any time |
| `CflatTAProofs` | Theorems about `CflatTA`, proved with TLAPS |
| `Measurement` | What C-FLAT promises, without the table: a stack of suspended chains, a summary per loop, a report |
| `LoopProgram` | `CflatTA` composed with a program whose loops and calls are well nested (`frames`) and that calls all hooks; refines `Measurement` |
| `CycleIsolation` | `LoopProgram` with a second TA (`Twin`) that begins every cycle in a session of its own and is given the same commands |
| `Libcflat` | The runtime in several processes, call by call, composed with `CflatTA`; failures, busy TA, process exit and death |
| `LoopProgramProofs` | Programs are clients of `CflatTA`; the table of loop records follows the program's nest and the call stack its calls; the TA implements `Measurement` under every measurable program; a cycle's report (`CycleIsolation`) depends on nothing before the cycle; proved with TLAPS |
| `LibcflatProofs` | Processes are clients of `CflatTA`; what they print is their own cycle, proved with TLAPS |
| `CflatHost`, `CflatHostProofs` | The host API composed with `CflatTA`, under an application that calls any function at any time, and the proofs of its properties |
| `CFlatPass`, `CFlatPassProofs` | The pass, function by function over blocks and instructions, the execution of what it makes, and the proofs that the hooks tell it |
| `SyringePump`, `SyringePumpProofs` | The pump's main loop, one action per function that it calls, and the proofs of its properties |
| `Execve`, `ExecveProofs` | The threads of a process in `execve`, one action per section between two points where another thread may act, and the proofs of its safety properties |
| `ArgStack` | The argument pages of `exec.c`: limits, copying, removal of an argument, the move to the final place |
| `SglibArrays` | What `sglib.h` keeps in arrays: quicksort, hashed container, queue, heap, and the benchmark's allocator |
| `DlList` | The double linked list of `sglib.h`, link by link, with its merge sort |
| `WorkloadProofs` | The theorems about `ArgStack`, `SglibArrays`, `DlList` and `Crc32` |
| `Sglib`, `Mont64`, `Huffbench`, `NettleSha256`, `NettleAes`, `Crc32` | Other kernels of the Embench programs, `Sglib` the red-black tree; `BitWords` has C's operators on unsigned words |
| `Algorithms` | Composes `CFlatPass`, `ArgStack` and the kernels: a behaviour is a run of one of them |
| `MC*` | Instances for TLC: symmetry sets, small inputs, the constants and test vectors of the benchmarks |

### How the models correspond to the code

**Hashes.** SHA-256 is ideal. `update_hash` computes
`SHA256(current_hash || id)` starting from 32 zero bytes, so a hash *is* the
sequence of the identifiers that went into it; `ZeroHash` is the empty sequence.
Two hashes are equal exactly when their sequences are.

**`CflatTA`.** The C array `loops[]` is a function on `1 .. MaxLoopRecords` of
which `loop_count` slots are in use; slots beyond keep what an earlier cycle left
in them, as the code's do, because `RecordToEnter` sets every field but
`loop_hash` when it allocates. `SlotToEnter` is the first inactive record of the
loop, `SlotToExit` the *first* active one and `SlotToIterate` the *last* active
one: the three search loops of the code. `hash_op` distinguishes a null handle, a
live one, and one that dangles: `cmd_init` frees the operation, and a
`TEE_AllocateOperation` that fails may leave the handle as it was or clear it, so
the model takes both. A digest call or a free on a handle that is not valid
panics the TA, which the TEE then takes down (`Panic`). `ops_allocated` is the
number of operations that the TEE holds for the TA; it is no field of the code.
`reply` is what the client got. `cmd_finalize` is one action: force-close, then
serialize until a record does not fit `AuthCapacity`, the size of `final_auth`.

**`LoopProgram`.** `frames` is the control stack of the attested program, which
the TA never sees. Every hook is the TA command of its C function, guarded by
`Forward` where the function calls `maybe_reinit` and by `Backward` where it does
not. Constants choose the program: `MayRecurse` (a loop is entered again, through
a call, while it is open), `FinalizeInLoops`, `UnhookedCalls` (calls that the pass
skips). The current pass (v0.2) inserts no loop hooks; the runtime and the TA keep
them and the previous pass used them, so they are modelled.

**`Libcflat`.** `pc[p]` names the next TEE call of the hook that process `p` is
in, so that other processes run, calls fail and processes die between any two
calls. `holder` is the process whose session the TA serves; another one gets
`TEE_ERROR_BUSY`. `cycle[p]` is not in the code: it remembers which nodes the
program executed since its last attestation and whether a call failed, for the
properties to compare with.

**`CflatHost`.** A function of the API is one action, except `cflat_init`, which opens
a session and then invokes INIT: `pc = "init"` lies between the two. `Invoke` has
three outcomes: the TA runs the command, the call fails on its way, or the library is
not initialized and calls nothing. `known` is not in the code: it is the application's
account of chain, nest and attestation, kept by the results alone. `cflat_init` invokes
INIT once for a session, and a second `cflat_init` without `cflat_cleanup` meets its own
session and exits (`errx`).

**`CFlatPass`.** A function is a sequence of blocks, a block a sequence of instructions
that ends with a terminator. `run` takes the functions in any order and keeps in `inserted`
the hooks that it puts before each instruction (`Inserted`), which leaves the instructions
their places; then the program runs. `frames` are the functions it is in: a frame has the hooks
still to be called before its instruction. `log` and `open` are what the hooks were told;
`path`, `calls` and `unhooked` are history, written by the instructions themselves: what the
program did. The pass takes the address
that a block's first instruction has in the compiler for its identifier (`getBBID`);
the model takes the block's place in the program, which is what the address stands for.
That address is another one in each build, so hashes of two builds are not comparable.
Terminators are `br`, `ret` and `unreachable`: compiled C has no `invoke`.

**`SyringePump`.** Volumes are integers in microlitres. The stubs of the harness
return one value each; in the model pins and keypad return any. `millis` counts calls in
the harness, so `sinceLastPress` counts them, up to the largest delay it is compared
with. `plunger`, `lowest`, `line`, `lastLine` and `released` exist for the properties.

**`Execve`.** `pc[t]` names the function that thread `t` is in; a spin lock makes one
action, a sleep or a `mutex` a place between two. What lies outside the file is modelled as
`exec.c` uses it and marked external: signals and exit, `fork`, `ptrace`, modules, readers
of `exec_update_lock`. A function that may fail does so by choice. `lost` is history: `de_thread`
killed a thread of the program that still runs, whether that thread has exited since or not.

**`ArgStack`.** Memory is a function from addresses to characters, with pages of four. The
build has an MMU and a stack that grows down. `copy_strings` measures a string and then
copies it; another thread of the caller may rewrite it in between, which `faithful`
remembers. `remove_arg_zero` looks for a NUL from `p` on, and fails where the pages end first.

**Kernels.** Words are the sets of their one bits (`BitWords`), with the width the code
gives them, except that `Mont64` has words of four bits instead of 64 and `Huffbench` four
symbols, so that all inputs can be tried. The tables of `nettle-aes.c` (`dtable`, `itable`,
`mtable`) and `crc_32_tab` are given by the formula their comments state. `SglibArrays`,
`DlList` and `Sglib` have what `sglib-combined.c` instantiates of `sglib.h`. Quicksort goes turn by
turn: `sorting` is its stack of parts, `cut` the two indexes of the partition under way
(`_i_`, `_j_`), and an action is one turn of its loop: the two inner loops and what follows
them. The queue is the array with its two indexes `ai` and `aj`. The loops of the heap
are `Loop`, whose turn is `Up` or `Down`; a C list in a cell is a sequence. The double linked list
has its links: `next`, `previous` and the pointer `list`, which may point to any element; its sort follows
`next` from the first element, merges runs of 1, 2, 4 and so on, and links back. `spec` and `fifo` are not in the
code: they are what was put in and not taken out.

## 3. Runs

| Run | Result | Question |
|---|---|---|
| `ta_any_client` | pass | Can any sequence of commands break the TA's own invariants? |
| `program_nested_loops` | pass | Does the table of records implement a stack of chains? |
| `program_cycles` | pass | Do records and calls follow the program across cycles? |
| `cycles_isolated` | pass | Is a cycle independent of those before it? |
| `libcflat_two_processes` | pass | Does an attestation hold one cycle of its own process? Does initialization end? |
| `host_application` | pass | Does a careful application know what is measured? |
| `pump_any_input` | pass | Does the pump do what lines and keys say, and show what it did? |
| `execve_threads` | pass | Does `execve` replace a process with threads, or leave it whole? |
| `algorithms_small_inputs` | pass | Does an instrumented program log its path? Do the kernels compute what they are for? |
| `ta_failed_init` | violation | "Reset all state" after a failed INIT |
| `program_recursive_exit` | violation | "Restore pre-loop hash" under recursion |
| `cycles_stale_hash` | violation | "Reset all state" and `loop_hash` |

**`ta_any_client`** (134,810 states). `TypeOK`; `ActiveWithinDepth`: `loop_depth`
never falls below the number of active records, whichever commands a client
interleaves, so the underflow check of `loop_exit` never refuses an open loop;
`AuthComplete`: an attestation holds all records its header counts and fits the
buffer; `NoOperationLeak`: the TEE holds exactly the operation that `hash_op`
refers to. One loop that may hold two records (through double entry), depth two,
allocation failures, buffers that are too small and large enough.

**`program_nested_loops`** (212,203 states). Three loops nest three deep over a TA
with room for two, so both refusals happen and their exits arrive later.
`RecordsFollowNest` and
`ImplementsMeasurement`, the refinement: `pre_loop_hash` in the table is the
stack of suspended chains, the table is the summary, `final_auth` the report.
Refused loops and calls map to regions that are not measured. A loop that got a second
record on its next entry would have two sets of counts and break the refinement:
`OneRecordPerLoop` is not a run of its own, it is proved (`LoopHasOneRecord`).

**`program_cycles`** (1,138,040 states). Two loops, two calls, nest two, counters
modulo 2 so that they wrap, FINALIZE anywhere. `CallStackFollowsCalls`,
`ExitResumesChain`, `IterationCountsInnermost`. Chains have no nodes here: the
question is which record is touched, and entering a loop already changes the
hash.

**`cycles_isolated`** (838,407 states). The twin answers the same commands from
zeroed memory; answers and attestations must be equal. The nest is three, the call stack
holds two, and calls may have no hook: `EntriesAreOpenCalls` says what is left of
`CallStackFollowsCalls` then. A return that the TA was not told of, or refused, removes a caller's entry;
it is the last one, so entries go too early and never too late.

**`libcflat_two_processes`** (411,068 states). Two processes, two nodes per cycle,
any number of cycles and restarts, two faults of any kind. `AttestsOwnCycle` is an
action property about `PrintAttestation`; `AutoInitializes` is liveness.

**`host_application`** (7,159 states). Two loops over a TA with one record, depth two, one
fault, and an application that may die. `SessionTracked`, `ToldWhatIsMeasured`, and
`RetryFits`: the size that comes with -2 is enough until something new is finalized.

**`pump_any_input`** (11,724,975 states). Six lines, one of them without its newline, all
keys and none, both triggers, volumes of a few units. `UsedSinceLowest`, `LineObeyed`, and
`NoBounce`, with both delays: `keyDebounce` is two calls, so that a key pressed anew after
one call without a key is too early, and `keyRepeatDelay` three.

**`execve_threads`** (93,018 states). Three threads of one process, one file, one format that
may be unloaded, one script, one disturbance from the rest of the kernel. Six
invariants, and `ExecEnds`: no `execve` waits for ever.

**`algorithms_small_inputs`** (617,783 states). For the pass: programs of `main` and a
function, two blocks each, and a function of the runtime, with direct calls, calls through
pointers, calls of declarations that may call back, and calls of the runtime; `LogIsPath` and
`HooksPairCalls` compare, between any two instructions, what the hooks were told with the path.
For `exec.c`: strings around the
size of a page, limits at both ends (`ArgumentsIntact`,
`StringsAndPointersFit`). For `sglib.h`: all sequences of operations on four members, nine for
the trees, and all arrays of seven (`DlListLinked`, `DlListSorted`, `NothingLost`,
`RbTreeConsistent`, `QuickSorts`). For the others (`MontgomeryAgrees`, `HuffmanRestores`,
`AesIsFips`, `ShaIsFips`, `CrcByTable`): every input of small words, texts and
pieces, and the benchmarks' own test vectors with the values their `verify_benchmark` expects.

### What the violations show

* **`ta_failed_init`.** INIT, then INIT again with an allocation that fails:
  `is_initialized` is still set, the handle is freed or null. The next node makes
  a digest call on it, which panics the TA; a third INIT frees it again.
* **`program_recursive_exit`.** `loop_exit` searches from the front and closes the
  oldest activation. With recursion, the inner exit resumes the outer chain and
  the outer exit the inner one.
* **`cycles_stale_hash`.** A loop in its first pass is finalized before it is left;
  its record reports the `loop_hash` of whichever loop had the slot in the cycle
  before.

`AutoInitializes` excludes one state, `LostSession`: when the INIT of
`ensure_init` fails (`libcflat.c:53`), the session stays open and the runtime
forgets it; every later hook opens another, which the single-session TA refuses
as busy. Without the exclusion TLC finds the process that tries for ever.

### Where code and documents differ, without a run

* `README.md:149` says the call stack "tracks `call_enter`/`call_return` pairs". The `ret`
  of a function that is called through a pointer has a `call_return`, the call has no
  `call_enter` (`CFlatPass.cpp:111`): the return pops the caller. A call beyond depth 32 does the
  same, as the refused push is popped too. Hence `unhooked` in `HooksPairCalls` and
  `UnhookedCalls` in `LoopProgram`, which is FALSE where `CallStackFollowsCalls` is checked; it
  is TRUE for `EntriesAreOpenCalls`.
* `libcflat.c:66` says the deferred re-init "fires AFTER all pending call_returns from
  the previous cycle have completed". `maybe_reinit` looks at `needs_reinit` alone: a function
  that asks for an attestation and then branches re-initializes before its own
  `call_return`. `frames` marks such calls as forgotten.
* `README.md:142` says the final hash "uniquely identifies the exact sequence of basic
  blocks executed". A hook that meets a busy TA drops its node (`libcflat.c:81`) and a later
  one initializes: the attestation has the nodes from there on and no sign that it is
  partial. `AttestsOwnCycle` speaks of the nodes from the cycle's first INIT. It excludes cycles in
  which a call or the re-init failed (`missed`): a node that was lost leaves no trace, as the
  hooks ignore the result (`libcflat.c:91`), and after a re-init that failed the chain of the
  last cycle goes on, as `maybe_reinit` clears its flag all the same (`libcflat.c:74`).
  The property then says that such a failure stays within its cycle and process.
* `sglib.h` builds its heap along two trees: `SGLIB_HEAP_ADD_NEXT` climbs from `i` to `i/2`
  (229-237), `SGLIB___ARRAY_HEAP_DOWN` descends from `i` to `2i+1` and `2i+2` (70-88). The
  benchmark is to "print parameters in descending order" (`sglib-combined.c:431`); with its own
  hundred numbers 86 comes out before 87. `NothingLost` says what does hold.
* `verify_benchmark` of `nettle-sha256.c` compares `_SHA256_DIGEST_LENGTH` bytes, a length in
  words: eight of the 32. `ShaIsFips` compares the whole digest.
* `LocksReleased` makes one exception: when `get_unused_fd_flags` fails after
  `commit_creds` has taken the credentials, `free_bprm` finds none and leaves
  `cred_guard_mutex` to the dying process.

### Bounds, and why they are enough

The constants `MaxLoopDepth`, `MaxLoopRecords` and `MaxCallDepth` are the code's
limits (16, 64, 32) scaled down; the code compares with them only, so two is
enough to have inside, at and beyond a limit. `CounterMod` stands for 2^32. The
model's own bounds are `MaxChain` (nodes in one hash, guard of `CmdRecordNode`),
`MaxNest` (frames, guard of the actions that push), `MaxPath` (nodes in a cycle,
guard of `CallHook`) and `MaxFaults` (failed calls and allocations). A hash is told
apart by what it begins with and by one more node, so one or two nodes suffice;
`MaxChain` of `Libcflat` is large enough for the chain of all cycles whose re-init
may be lost, so its guard never blocks an invocation. One node identifier is enough
where the length of a path tells it from others; `cycles_isolated` has two, for the order of entries in the call stack. `BufferSizes` has a size below and
one above the attestation; `LoopProgram` and `Libcflat` take one that fits, as the
runtime's 8192 bytes always do. Node and loop identifiers are symmetric (the code
compares identifiers for equality only) and `SYMMETRY` is used in runs without
liveness.

`CflatHost` has one fault and one record for two loops: every refusal and every failure
happens, at every call, and a second one would meet the same code. `SyringePump` bounds
plunger and bolus by `MaxVolume`; clamping, doubling back and wrapping of the menu lie
within. `MaxDigits` leaves out numbers of ten digits and more, which may overflow the `int` of `toUInt`
(undefined behaviour, `test_syringe.c:85-95`), and `LineSize` lines longer than `serialStr`. Codes of more than 31 bits,
for which `1 << (clen - 1)` in `libhuffbench.c:462` and `532` is undefined, take texts of millions of
characters; those of `Huffbench` are a few characters long. `Execve` bounds the scripts (`MaxRewrites`) and what the rest of the kernel does
(`MaxDisturbances`, a clone, a `ptrace`, a kill of the group and the like); three threads are the leader, the
one that gets through and one that loses, and with a fourth nothing new would be waited for.
`ArgStack` scales pages, limits and strings down together: strings are empty, shorter
than, as long as, and longer than a page, at every alignment. Trees of nine
elements reach every case of the red-black fix-ups on both sides. Arrays of seven are the
shortest whose larger piece, if quicksort put it on top, could exceed half of the array.

`CFlatPass` bounds the calls that are open (`MaxFrames`) and
the events of a run (`MaxEvents`): with three frames a function of the runtime or a callback
lies between two functions of the program.

The deadlock check is on except in `execve_threads`, whose process may end, and in
`algorithms_small_inputs`, where a program or a computation ends.

### Fairness

`Libcflat` and `Execve` state fairness.

In `Libcflat`: `WF(InLibrary(p))`: a process that is inside the
runtime goes on, as its calls return and the scheduler runs it. `WF(Reap)`: the TEE
takes down an application that panicked. Nothing obliges a program to call a hook,
to ask for an attestation, or to exit: `AutoInitializes` says that a process that is
alone does not run `ensure_init` again and again, and assumes nothing of how often
it calls hooks.

In `Execve`: a thread that is inside `bprm_execve` goes on when it can (`WF`); a waiter
for `cred_guard_mutex` or `exec_update_lock` gets it in the end (`SF`: both are fair to
waiters); a thread that was killed exits (`WF`); a reader lets go of its lock (`WF`). Nothing
obliges a thread to call `execve`, to exit by itself, or the rest of the kernel to act.

The other modules have safety properties only.

## 4. Proofs

`CflatTAProofs` proves for all identifiers and all values of the limits, from
`LimitsAssumption` alone (limits are natural numbers, `CounterMod` positive):

* **`TypeCorrect`**, `Spec => []TypeOK`. One lemma per action. What needs an argument:
  `SlotToEnter` is a slot of the array whenever `EnterRefused` is false
  (`SlotToEnterInRange`), and the minimum or maximum of a non-empty set of slots is
  in it (`MinInSet`, `MaxInSet`).
* **`OperationsAccounted`**, `Spec => []NoOperationLeak`. The invariant is inductive with
  `TypeOK`: each action changes handle and count together.
* **`AttestationComplete`**, `Spec => []AuthComplete`. By `AllRecordsFit`: the bound that
  the serialization loop tests leaves room for exactly `MaxLoopRecords` records, so it
  never cuts one off; `loop_count` is below it by `TypeOK`.
* **`OpenLoopsWithinDepth`**, `Spec => []ActiveWithinDepth`. Entering adds one slot to
  `ActiveSlots` (`EnterOpensSlot`), leaving removes one (`ExitClosesSlot`), and the
  cardinalities of finite sets follow; FINALIZE empties the set, INIT empties the range
  of slots in use.

Each proof has a step per action and ends with PTL.

The theorems speak of any client, and two more modules prove that nothing else drives
the TA:

* **`ProgramIsClient`**, `ProgSpec => Spec` (`LoopProgramProofs`), and
  **`ProgramTypeCorrect`**, `ProgSpec => []ProgTypeOK`, together by induction: a loop hook
  is a client's command because the frame on top of the program's stack is well typed,
  and the frame is well typed because its slot is (`SlotToEnterInRange`).
  **`ProgramAttestationComplete`** follows with `AttestationComplete`.
* **`ProcessesAreClient`**, `LibSpec => Spec` (`LibcflatProofs`): the invariant is that a
  process is in a hook of the pass or in none; each call of the runtime is then a command
  of the TA or leaves it alone, deaths and lost calls included.
  **`ProcessesLeakNoOperation`** follows with `OperationsAccounted`.

**`AttestationsAreOwn`** (`LibcflatProofs`), `LibSpec => AttestsOwnCycle`, for any number of
processes, nodes, cycles and faults. The invariant `CycleInv` says what each process knows:
its statics follow from where it is (`StaticsOK`: `needs_reinit` is set exactly between an
attestation and the next forward hook); while no call of its cycle failed, its path is the
chain of the TA, plus the node that the hook under way has yet to send (`PathOK`), and the
hash that FINALIZE stored until it is printed; a process that believes in its session and has
it has an initialized TA (`ReadyFor`); and the TA's session is one live process's
(`HolderOK`). A step of one process leaves what `CycleInv` says of the others because it changes the TA only
while it holds the session (`OnlyHolder`). A re-init that is lost is the case that needs `missed`: the chain
goes on with the old cycle's nodes in front.

**`CflatHostProofs`** proves the three properties of `CflatHost`: `HostTracksSession`,
`HostKnowsMeasurement` and `RetrySucceeds`. The inductive invariant `HostInv` is `TypeOK`, the
type of `known`, `HostOK` (how `pc`, `initialized`, `session` and `is_initialized` go together,
and that a live session has a usable digest operation) and `Agrees` (the chain is the one
the application knows; the loops it knows are those with active records, each with the
chain that its record suspends; each has one record only). `Agrees` is needed for the hash
alone: the result of leaving a loop depends on what entering it stored. A failing
`cflat_init` is why `HostOK` speaks of `errx`.

**`LoopProgramProofs`** proves the four properties of `LoopProgram` that say that the table is a
stack: `TableFollowsNest`, `LoopHasOneRecord`, `ExitRestoresHash`, `IterationFindsRecord`,
for every number of loops, records, depth and nest and for chains of any length. They assume
`~MayRecurse`, without which `program_recursive_exit` refutes them, and `AlwaysAnswers`: no
allocation fails and every buffer offered holds a full attestation, as the runtime's
8192 bytes do (36 + 64 * 80). The invariant is `ProgOK`, that the control stack and the
session are what the hooks leave, with `ActiveWithinDepth`, and `NestInv`: a frame's slot
is active and holds the frame's loop, and each active slot is some frame's (`NestOK`);
frames have different loops (`IdsDiffer`); `loop_depth` is their number until the cycle is
finalized (`DepthOK`); and each loop has one record. `NestOK` needs `OneRecordPerLoop`, as `loop_exit`
looks for the first active record of an id and `loop_iteration` for the last.

Four results go on from there, each over all limits and nests:

* **`ProgramIsMeasured`** (`LoopProgramProofs`), `ProgSpec => ImplementsMeasurement`: the step
  simulation. `ProgOK` and `NestInv` say which record each step of the program finds, and each
  step is then a step of `Measurement` or a stutter: entering a loop suspends the chain in
  the record that the new frame names, leaving it resumes that chain, the summary of one loop
  changes at most, and FINALIZE reports what the table holds. Assumed (`Measurable`): no
  recursive loops, cycles that end outside loops, `AlwaysAnswers`, and a zero identifier that
  is no loop's.
* **`StackHoldsCalls`** (`LoopProgramProofs`), `ProgSpec => []CallStackFollowsCalls`. The invariant
  adds `ForgottenAreOutermost`: the calls that a re-init forgot lie below those of the
  current cycle, so a return pops either the top entry or, with an empty stack, nothing. It
  holds for recursive loops and for cycles that end anywhere. Assumed (`AllCallsTracked`):
  functions are entered by hooked calls, the nest fits the call stack, `AlwaysAnswers`.
* **`EntriesBelongToOpenCalls`** (`LoopProgramProofs`), `ProgSpec => []EntriesAreOpenCalls`, with no
  assumption: any program, any limit, allocations that fail. The map from entries to open calls
  is carried along: an accepted call extends it (`EntryPushed`); a return takes the last entry away, and
  the others are of calls further out than the last one's, so none is of the call that returns
  (`EntryPopped`); no other command touches more than the whole stack (`EntriesKept`).
* **`CyclesDoNotLeak`** (`LoopProgramProofs`), `IsoSpec => []CyclesIndependent`. The relation
  `Mirrored` between the TA and its twin is inductive: all is equal but the slots
  beyond `loop_count`, `final_auth` while `auth_size` is 0, and the `loop_hash` of active
  records, which `loop_enter` leaves as the slot held it. A report copies `loop_hash` only after `loop_exit` wrote it. Assumed
  (`Isolated`): no recursive loops, cycles that end outside loops, without which
  `cycles_stale_hash` refutes it, and `AlwaysAnswers`.

**`SyringePumpProofs`** proves the pump's three properties for lines of any characters, any
bolus sizes and delays. The invariant `PumpInv` has a part for each:

* **`UsedIsSinceLowest`**, `PumpSpec => []UsedSinceLowest`, from `VolumesOK`: `lowest` is below
  `plunger` and every bolus is a natural number. The last fact is that `toUInt` returns
  one, for every string: an induction over its loop (`NumberTyped`).
* **`LinesAreObeyed`**, `PumpSpec => LineObeyed`, from `SerialOK`: `serialStr` begins with the
  line's characters and `serialStrLen` counts them; what is still to be read fits; after
  an empty line the first character is that of the last line. `readSerial` appends the printable
  characters of a piece, again an induction, and `toUInt` reads only below its length (`SameNumber`).
* **`KeysDoNotBounce`**, `PumpSpec => NoBounce`, from `KeypadOK`: without a previous key the
  keypad was released.

Induction over data is out of the library's reach, whose theorems take an operator as a
parameter. `Least` states that a non-empty set of naturals has a least element, from the well-foundedness of `<`, and
`Induction` the principle for *sets* of naturals; what is to be shown is written as such a set. `LoopRuns`
then gives a loop a result, and recursive functions (not `RECURSIVE` operators) their
value at `n` from that at `n - 1`.

**`ExecveProofs`** proves the six safety properties of `Execve` for any number of threads (a
finite set), files, formats, interpreters and disturbances. All come from one inductive
invariant, `ExecInv`:

* `LifeOK`: who has exited is in no function of `execve`, and only the leader is a zombie.
* `CredOK`, `GuardOK`, `UpdateOK`: from `prepare_bprm_creds` to `commit_creds` the thread's
  `linux_binprm` has the credentials, which means `cred_guard_mutex`; whoever loses them without
  releasing it is about to die. Hence **`LocksAreReleased`**.
* `KillOK`, `WaitOK`: a live thread has a fatal signal only in a group that exits or that an
  `execve` waits for; the waiter is `group_exit_task`, has killed all others, and
  `notify_count` is the number of those it still waits for.
* `AloneOK` with `Fate`: behind `de_thread` a thread is the leader and all others are dead; past
  the point of no return it cannot get to user mode with an error and without a fatal signal. `NobodyClones`
  is why it stays alone: only a running thread clones. Hence **`SwitchesAlone`**.
* `LostOK`: once a `de_thread` has killed a thread of the program that runs (`lost`, which only the
  start of the new program takes back), nobody runs in user mode: whoever is alive has a fatal signal or is
  `Committed`, at a function from `de_thread` on where an error leads to the fatal signal of
  `bprm_execve`. This covers the errors of `unshare_files` and `set_mm_exe_file`, when
  the killed threads have exited and the address space is still the old one. Hence, with `KillOK`,
  **`OldProgramIsWhole`**.
* `SeenOK`: from `check_unsafe_exec` on the mutex keeps tracers away and `in_exec` keeps
  `CLONE_FS` away. It needs `CredOK`: `in_exec` is one flag for all threads, and it is the
  mutex that makes only one of them set and clear it. Hence **`CredentialsAreCurrent`**.
* `HeldOK`, `ListOK` and the counts themselves: which fields of a `linux_binprm` are empty at which
  function, so that nothing is overwritten. `FieldsChange` turns a step of one
  thread into a change of the cardinality by what this thread holds. Hence **`ReferencesBalance`**,
  and from a count of zero, which is nobody's, **`FormatsStay`**.

The proof has a lemma per function that says where the thread goes and what it keeps
(`ThreadCases`), and a lemma per part of the invariant that goes through these cases.

**`CFlatPassProofs`** proves both properties of the pass for every set of programs that LLVM
accepts (`PassAssumption`: `main` is defined, every function has a block, every block ends with
its only terminator, and branches lead to blocks of the function), any order of
instrumentation, and calls of any depth: **`HooksTellThePath`**, `PassSpec => []LogIsPath`, and
**`HooksAreBalanced`**, `PassSpec => []HooksPairCalls`. Between two instructions both say little
about the instant after a hook was called, so `PassInv` adds it:

* `InsertedOK`: what was inserted is what `Inserted` says, for the functions that the pass took.
* `FramesOK`: every frame is at an instruction of its function, and only the innermost one can
  have called a hook and not done its instruction yet. An instruction has one hook at most.
* `PathOK`: the log is the path, and ahead of it by that one hook.
* `OpenOK`: the open calls are those of the innermost frame, changed by that hook as the
  instruction will change them (`OpenThen`).
* `NestOK`: a frame's calls are its caller's and the call that made it, if a hook told of it; this
  is what a `ret` finds again. It holds only while no function was entered unhooked.

**`WorkloadProofs`** proves both properties of the argument pages for pages, limits and vectors of
any size: **`ArgumentsStayIntact`**, `ArgSpec => []ArgumentsIntact`, and
**`StringsFitWithPointers`**, `ArgSpec => []StringsAndPointersFit`. The invariant `ArgInv`:

* `TodoOK`, `PlacedOK`: what is still to copy is the rest of `CopyOrder`, and what was copied
  lies without gaps, each string with its NUL below the one before.
* `PieceOK`, `MemoryOK`: of the string under way all behind `pos` is in memory, of the
  others everything. A piece lies in one page (`PieceInPage`), which `get_arg_page` makes
  part of the area, so a piece never overwrites what is above it.
* `LimitOK`: `argmin` leaves `Room`, which has the pointers of all strings taken off already. That is
  all that `StringsAndPointersFit` needs, with `FrontOK`: `p` moves up when an argument is removed.
* `FrontOK`, `AreaOK`: `p` is where an argument begins, and the move shifts all by one distance
  to addresses that exist.

A loader finds strings by their NULs. `FirstNul` of where a string begins is where it ends,
because it has no NUL before (`StringFound`, with `Least`), and `StringsFrom` follows them by induction
over the number of strings. Where another thread rewrote a string (`~faithful`) the lengths still
hold, and with them the limits; what a search for NULs finds is then open, as in the code.

It also proves the two properties of `SglibArrays`, for any numbers, sizes and operations:

* **`QuicksortSorts`**, `ArraysSpec => []QuickSorts`. `SortOK`: the parts on the stack do not
  overlap (`Apart`), and only two elements of one part can be in the wrong order (`Ascends`), so with an
  empty stack none are; the array is a rearrangement of what was given (`Rearranged`, a
  bijection of indexes); the partition has passed nothing that is on the wrong side of the pivot (`CutOK`); the
  part at place `k` of the stack has at most `ArrayLength / 2^(k-1)` elements (`SplitHalves`: the
  smaller piece, at most half of the part that was cut, goes on top of the larger, which keeps
  the place of that part). Neighbours may be equally long.
* **`ContainersLoseNothing`**, `ArraysSpec => []NothingLost`, by `ContainersOK`: a cell holds each
  number of `spec` that hashes to it once (`HashOK`), and so the iterator's list, which goes through
  the cells, all numbers (`IteratedHolds`); the heap holds each number of `spec` once (`HeapOK`), whatever the loops exchange
  (`LoopHolds`); the queue's indexes stay in the array, are `Len(fifo)` apart and
  between them lies `fifo` (`QueueOK`); the allocator has handed out all that was asked
  for until a request failed, and was asked for more than it has after (`MemOK`).

About `DlList`, for any numbers and operations:

* **`LinksStayWhole`**, `DlListSpec => []DlListLinked`. `DlOK`: there is an order of the
  members of `spec` that `next` follows and `previous` follows back (`Linked`), and the list pointer is one
  of them. `Joined` and `Left` show that an element linked in at any place of it, or linked out, leaves
  such an order, `TurnedRound` the same of `sglib_dllist_reverse`. `FollowIs` shows that following links finds the
  order, so what `MembersFrom` meets from the list pointer both ways is `spec` (`MembersAre`).
* **`ListSortSorts`**, `DlListSpec => DlListSorted`. A merge of two ascending runs ascends
  (`MergeIs`), so after the round with runs of `n` the runs of `2 n` ascend, and they have the same elements
  (`BlockIs`, `MergeRunsIs`): no two positions take the same one, because the blocks that are merged do
  not share positions (`OneBlock`), so by counting none is lost. After as many rounds as there
  are elements a run is the whole list (`ListSortIs`), and linking it back gives the order that `DlOK`
  asks for (`SortLinks`).

**`TableSumsSerially`**, `CrcSpec => []TableIsSerial`, the first half of `CrcByTable`, for any number of octets: shifting a word is linear
(`ShiftedXor`), so eight shifts of a word are those of its low octet, which the table has, and of
the rest (`OctetXor`), and the rest only moves (`OctetHigh`). `CrcOK` adds that the words keep within
their width and an octet within eight bits (`OctetOfNat`).

The recursive functions of the model (`Iterated`, `Loop`, `Follow`, `OfA`, `ListSort`) are functions over the number
of turns. `Iterates` shows that such a function exists, `StaysIn` that what each turn keeps holds in the
end, both by the least counterexample (`Least`).

Assumptions: `LimitsAssumption`, `ProgramAssumption`, `LibAssumption`, `HostAssumption`,
`PumpAssumption`, `ExecAssumption`, `PassAssumption`, `ArgAssumption` and `SglibAssumption`,
which TLC evaluates in the runs of the MC modules. TLC checked each inductive invariant on
instances as small as those of the runs.

Only model-checked: `RbTreeConsistent`, whose trees `RECURSIVE` operators follow, which the
prover does not take; `HuffmanRestores`, for the same reason; `MontgomeryAgrees`, which is about bitwise operators that the prover does not have;
`ShaIsFips`, whose blocks a `RECURSIVE` operator cuts; `AesIsFips` and the second
half of `CrcByTable`, which compare with the values of test vectors. Liveness under fairness (`AutoInitializes`, `ExecEnds`) stays with
TLC as well, being out of the prover's reach.

## 5. Not modelled

* Contents of the hash (SHA-256 is ideal), byte order and layout of the attestation
  beyond sizes and order, `world_switch_count`, printed text, log messages.
* The debug log: `append_log` has no caller that is compiled, so `log_idx` stays 0 and
  GET_LOG always succeeds with nothing.
* TEE contexts that failed `ensure_init` calls leak: they are not bounded by the code
  and are freed when the process ends.
* Threads inside one process: the runtime's statics are not protected and no program
  of the repository starts threads.
* Pump: the screen, the LED, rounding of float, and lines longer than `serialStr`, whose
  writes beyond the array are undefined behaviour.
* `exec.c`: `uselib`, `kernel_execve`, `set_binfmt`, the computation of credentials
  (`bprm_fill_uid`, `bprm_creds_from_file`), `prepare_binprm`, `read_code`, dumpable flags and
  task names, and the configurations without an MMU or with a stack that grows up
  (`transfer_args_to_stack` among them).
* Embench programs whose work is floating point (`nbody`, `libst`, `libminver`,
  `basicmath_small`): out of TLC's reach. `primecount`, `libedn`, `libud`, `matmult-int` and `tarfind` are
  straight loops of arithmetic or comparison over fixed arrays: a model would have the
  program itself for its only reference. Containers of `sglib.h` that no program
  instantiates.
* Scripts and presentation.

## 6. Plan

Done: all components of section 1 that have discrete state. What could be added:

1. `Libcflat` with contexts that are counted.
2. The rest of `exec.c`, credentials first.
