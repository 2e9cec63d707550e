---------------------------- MODULE Measurement ----------------------------
(***************************************************************************)
(* What C-FLAT promises to measure, without the table of loop records the  *)
(* trusted application measures it with.                                   *)
(*                                                                         *)
(* A run of the attested program is a nest of regions. A loop is a region  *)
(* with a hash chain of its own: the chain of the code around it is        *)
(* suspended when the loop is entered and resumed, unchanged, when it is   *)
(* left. Other regions (function calls, and loops the TA has no room for)  *)
(* are not measured: they neither start a chain nor suspend one.           *)
(***************************************************************************)
EXTENDS Integers, Sequences

CONSTANTS NodeId, LoopId, NoId, CounterMod

VARIABLES
  chain,      \* the hash of the innermost measured region, as in CflatTA
  stack,      \* the open regions, outermost first
  summary,    \* what was measured of each loop since the last Reset
  report      \* the attestation, NoReport before Finalize

Unmeasured == [loop |-> NoId, hash |-> << >>]
NotEntered == [entries |-> 0, iterations |-> 0, before |-> << >>, body |-> << >>]
NoReport == [hash |-> << >>, loops |-> [l \in LoopId |-> NotEntered]]

Top == stack[Len(stack)]
Below == SubSeq(stack, 1, Len(stack) - 1)
Increment(n) == (n + 1) % CounterMod

Init ==
  /\ chain = << >>
  /\ stack = << >>
  /\ summary = [l \in LoopId |-> NotEntered]
  /\ report = NoReport

Node(n) ==
  /\ chain' = Append(chain, n)
  /\ UNCHANGED <<stack, summary, report>>

\* The body of the loop starts a chain with the loop's own identifier. What an
\* earlier pass through the body left is replaced when this one is over.
Enter(l) ==
  /\ chain' = << l >>
  /\ stack' = Append(stack, [loop |-> l, hash |-> chain])
  /\ summary' = [summary EXCEPT ![l].entries = Increment(@),
                                ![l].before = chain,
                                ![l].body = << >>]
  /\ UNCHANGED report

Iterate(l) ==
  /\ \E k \in 1 .. Len(stack) : stack[k].loop = l
  /\ summary' = [summary EXCEPT ![l].iterations = Increment(@)]
  /\ UNCHANGED <<chain, stack, report>>

\* Only the innermost region can end.
Exit ==
  /\ stack # << >>
  /\ Top # Unmeasured
  /\ chain' = Top.hash
  /\ stack' = Below
  /\ summary' = [summary EXCEPT ![Top.loop].body = chain]
  /\ UNCHANGED report

OpenUnmeasured ==
  /\ stack' = Append(stack, Unmeasured)
  /\ UNCHANGED <<chain, summary, report>>

CloseUnmeasured ==
  /\ stack # << >>
  /\ Top = Unmeasured
  /\ stack' = Below
  /\ UNCHANGED <<chain, summary, report>>

\* The report is taken between loops: no measured region is open.
Finalize ==
  /\ \A k \in 1 .. Len(stack) : stack[k] = Unmeasured
  /\ report' = [hash |-> chain, loops |-> summary]
  /\ UNCHANGED <<chain, stack, summary>>

\* A new cycle: the regions that are open are not part of it.
Reset ==
  /\ chain' = << >>
  /\ stack' = [k \in 1 .. Len(stack) |-> Unmeasured]
  /\ summary' = [l \in LoopId |-> NotEntered]
  /\ report' = NoReport

Next ==
  \/ \E n \in NodeId : Node(n)
  \/ \E l \in LoopId : Enter(l) \/ Iterate(l)
  \/ Exit \/ OpenUnmeasured \/ CloseUnmeasured
  \/ Finalize \/ Reset

Spec == Init /\ [][Next]_<<chain, stack, summary, report>>

=============================================================================
