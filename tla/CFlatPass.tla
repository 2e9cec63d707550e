------------------------------ MODULE CFlatPass ------------------------------
(***************************************************************************)
(* The instrumentation of CFlatPass.cpp and a run of what it makes: the    *)
(* pass rewrites each function by itself, then the program runs, from main *)
(* on, and the calls of the hooks are logged.  What the hooks do with them *)
(* is in modules Libcflat and LoopProgram.                                 *)
(*                                                                         *)
(* A function is a sequence of blocks, a block a sequence of instructions  *)
(* that ends in its terminator.  An instruction has an address, which no   *)
(* insertion changes: <<function, block, position>>.                       *)
(***************************************************************************)
EXTENDS Integers, Sequences

CONSTANTS
  PassPrograms,  \* what the compiler may hand over: function |-> blocks
  RuntimeNames,  \* the names that begin with __cflat_ or cflat_
  MAIN,
  MaxFrames,     \* bound of the model: calls open at a time
  MaxEvents      \* bound of the model: events before the last branch of a run

\* Plain instructions are left out, but for one that a block may begin with.
\* A call is direct or goes through a pointer; the callee of a direct call is
\* known to the pass.
Plain == [op |-> "plain"]
CallTo(f) == [op |-> "call", callee |-> f, direct |-> TRUE]
CallPointer(f) == [op |-> "call", callee |-> f, direct |-> FALSE]
Branch(targets) == [op |-> "br", targets |-> targets]
Ret == [op |-> "ret"]
Unreachable == [op |-> "unreachable"]

\* What the verifier of LLVM asks of a module.
WellFormedBlock(block, count) ==
  /\ Len(block) \in Nat \ {0}
  /\ \A k \in 1 .. Len(block) :
       LET i == block[k]
       IN /\ i.op \in {"plain", "call", "br", "ret", "unreachable"}
          /\ k = Len(block) <=> i.op \in {"br", "ret", "unreachable"}
          /\ i.op = "br" => i.targets \in Seq(1 .. count)
          /\ i.op = "call" => i.direct \in BOOLEAN
WellFormed(module) ==
  /\ MAIN \in DOMAIN module
  /\ \A f \in DOMAIN module :
       /\ Len(module[f]) \in Nat \ {0}
       /\ \A b \in 1 .. Len(module[f]) : WellFormedBlock(module[f][b], Len(module[f]))

ASSUME PassAssumption ==
  /\ \A module \in PassPrograms : WellFormed(module)
  /\ MaxFrames \in Nat /\ MaxEvents \in Nat

VARIABLES
  program,
  inserted,        \* the hooks inserted before an instruction
  uninstrumented,  \* the functions the pass has yet to run on
  frames,          \* of the run, innermost last: where it is in a function,
                   \* the hooks to call before it goes on, and, as history,
                   \* the addresses of the calls that it is in
  log,             \* the hooks called
  open,            \* the TA's call_stack, with room for every call
  path,            \* history: what the program did, in the terms of the hooks
  unhooked         \* history: a function of the program was entered otherwise than
                   \* by a direct call in a function the pass has rewritten

runVars == <<frames, log, open, path, unhooked>>
passVars == <<program, inserted, uninstrumented, runVars>>

Defined == DOMAIN program
Blocks(f) == 1 .. Len(program[f])
Positions(f, b) == 1 .. Len(program[f][b])

Hook(name, id) == [hook |-> name, id |-> id]

\* getBBID: the address of the block's first instruction.
getBBID(f, b) == <<f, b, 1>>

\* The hooks inserted before an instruction.
OnlyConditional(f, b, k) ==   \* mutant
  LET i == program[f][b][k]
  IN CASE i.op = "br" /\ Len(i.targets) > 1 -> << Hook("record_node", getBBID(f, b)) >>
       [] i.op = "ret" -> << Hook("call_return", getBBID(f, b)) >>
       [] i.op = "call" /\ i.direct /\ i.callee \in Defined \ RuntimeNames ->
            << Hook("call_enter", <<f, b, k>>) >>
       [] OTHER -> << >>
EveryDirectCall(f, b, k) ==   \* mutant
  LET i == program[f][b][k]
  IN CASE i.op = "br" -> << Hook("record_node", getBBID(f, b)) >>
       [] i.op = "ret" -> << Hook("call_return", getBBID(f, b)) >>
       [] i.op = "call" /\ i.direct /\ i.callee \notin RuntimeNames ->
            << Hook("call_enter", <<f, b, k>>) >>
       [] OTHER -> << >>
Inserted(f, b, k) ==
  LET i == program[f][b][k]
  IN CASE i.op = "br" -> << Hook("record_node", getBBID(f, b)) >>
       [] i.op = "ret" -> << Hook("call_return", getBBID(f, b)) >>
       [] i.op = "call" /\ i.direct /\ i.callee \in Defined \ RuntimeNames ->
            << Hook("call_enter", <<f, b, k>>) >>
       [] OTHER -> << >>

PassInitial(module) ==
  /\ program = module
  /\ inserted = [f \in Defined |-> [b \in Blocks(f) |-> [k \in Positions(f, b) |-> << >>]]]
  /\ uninstrumented = Defined
  /\ frames = << >> /\ log = << >> /\ open = << >> /\ path = << >> /\ unhooked = FALSE
PassInit == \E module \in PassPrograms : PassInitial(module)

\* run: one function of the module.
run(f) ==
  /\ f \in uninstrumented
  /\ inserted' = IF f \in RuntimeNames THEN inserted
                 ELSE [inserted EXCEPT ![f] = [b \in Blocks(f) |->
                                                 [k \in Positions(f, b) |-> Inserted(f, b, k)]]]
  /\ uninstrumented' = uninstrumented \ {f}
  /\ UNCHANGED <<program, runVars>>

-----------------------------------------------------------------------------
(* The run. *)

At(f, b, k, calls) == [fn |-> f, block |-> b, at |-> k, hooks |-> inserted[f][b][k], calls |-> calls]
Top == frames[Len(frames)]
Callers == SubSeq(frames, 1, Len(frames) - 1)
Replace(frame) == [frames EXCEPT ![Len(frames)] = frame]

Step == program[Top.fn][Top.block][Top.at]
Running == uninstrumented = {} /\ frames # << >>
Runs(op) == Running /\ Top.hooks = << >> /\ Step.op = op
\* The innermost frame past its instruction, which does not end the block.
Past == At(Top.fn, Top.block, Top.at + 1, Top.calls)

\* What a function that the pass rewrites does belongs to the path.
Noted(event) == IF Top.fn \in RuntimeNames THEN path ELSE Append(path, event)

Start ==
  /\ uninstrumented = {} /\ frames = << >> /\ log = << >>
  /\ frames' = << At(MAIN, 1, 1, << >>) >>
  /\ UNCHANGED <<program, inserted, uninstrumented, log, open, path, unhooked>>

\* call_enter pushes and call_return pops, if there is anything.
OpenAfter(h) ==
  CASE h.hook = "call_enter" -> Append(open, h.id)
    [] h.hook = "call_return" /\ open # << >> -> SubSeq(open, 1, Len(open) - 1)
    [] OTHER -> open

CallHook ==
  /\ Running /\ Top.hooks # << >>
  /\ log' = Append(log, Head(Top.hooks))
  /\ open' = OpenAfter(Head(Top.hooks))
  /\ frames' = Replace([Top EXCEPT !.hooks = Tail(@)])
  /\ UNCHANGED <<program, inserted, uninstrumented, path, unhooked>>

RunPlain ==
  /\ Runs("plain")
  /\ frames' = Replace(Past)
  /\ UNCHANGED <<program, inserted, uninstrumented, log, open, path, unhooked>>

\* A function of the program, called directly or through a pointer. The caller
\* goes on behind the call.
CallDefined ==
  LET address == <<Top.fn, Top.block, Top.at>>
      hooked == Step.direct /\ Top.fn \notin RuntimeNames
  IN /\ Runs("call") /\ Step.callee \in Defined
     /\ Len(frames) < MaxFrames
     /\ IF Step.callee \in RuntimeNames
        THEN /\ frames' = Append(Replace(Past), At(Step.callee, 1, 1, Top.calls))
             /\ UNCHANGED <<path, unhooked>>
        ELSE /\ frames' = Append(Replace(Past), At(Step.callee, 1, 1, Append(Top.calls, address)))
             /\ path' = IF hooked THEN Append(path, Hook("call_enter", address)) ELSE path
             /\ unhooked' = (unhooked \/ ~hooked)
     /\ UNCHANGED <<program, inserted, uninstrumented, log, open>>

\* A function of a library, which may call one of the program back.
CallExternal ==
  /\ Runs("call") /\ Step.callee \notin Defined
  /\ \/ /\ frames' = Replace(Past)
        /\ UNCHANGED unhooked
     \/ \E f \in Defined \ ({MAIN} \cup RuntimeNames) :
          /\ Len(frames) < MaxFrames
          /\ frames' = Append(Replace(Past), At(f, 1, 1, Top.calls))
          /\ unhooked' = TRUE
  /\ UNCHANGED <<program, inserted, uninstrumented, log, open, path>>

TakeBranch ==
  /\ Runs("br")
  /\ Len(path) < MaxEvents
  /\ \E k \in 1 .. Len(Step.targets) :
       frames' = Replace(At(Top.fn, Step.targets[k], 1, Top.calls))
  /\ path' = Noted(Hook("record_node", getBBID(Top.fn, Top.block)))
  /\ UNCHANGED <<program, inserted, uninstrumented, log, open, unhooked>>

Return ==
  /\ Runs("ret")
  /\ path' = Noted(Hook("call_return", getBBID(Top.fn, Top.block)))
  /\ frames' = Callers
  /\ UNCHANGED <<program, inserted, uninstrumented, log, open, unhooked>>

\* What is called before an unreachable, exit or abort, does not return.
End ==
  /\ Runs("unreachable")
  /\ frames' = << >>
  /\ UNCHANGED <<program, inserted, uninstrumented, log, open, path, unhooked>>

PassNext ==
  \/ \E f \in uninstrumented : run(f)
  \/ Start \/ CallHook \/ RunPlain \/ CallDefined \/ CallExternal
  \/ TakeBranch \/ Return \/ End

PassSpec == PassInit /\ [][PassNext]_passVars

-----------------------------------------------------------------------------
(* Properties. *)

\* No hook of the next instruction was called yet.
BetweenInstructions == Running /\ Top.hooks = inserted[Top.fn][Top.block][Top.at]

\* CFlatPass.cpp inserts hooks before instructions, function by function, by
\* their form alone. Between two instructions of any run, the hooks called so
\* far tell what it did: the blocks left and the functions called and left,
\* each once and in order, through calls, returns, functions of the runtime
\* and functions that libraries call back.
LogIsPath == BetweenInstructions => log = path

\* Where every function is entered by a direct call in instrumented code, the
\* calls that the hooks opened and did not close are those the program is in.
HooksPairCalls == BetweenInstructions /\ ~unhooked => open = Top.calls

=============================================================================
