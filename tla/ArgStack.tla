------------------------------ MODULE ArgStack ------------------------------
(***************************************************************************)
(* The data side of exec.c: how do_execveat_common lays the file name, the  *)
(* environment and the arguments out on the new stack, from the top down    *)
(* and page by page, and how remove_arg_zero and setup_arg_pages move the   *)
(* result.  Module Execve has the threads and the locks of the same call.   *)
(*                                                                         *)
(* A string is the sequence of its characters, numbers other than NUL.      *)
(* Memory that was never written is zero, as the kernel's new pages are.    *)
(***************************************************************************)
EXTENDS Integers, Sequences, SequencesExt

CONSTANTS
  PAGE_SIZE, PTR_SIZE,               \* bytes of a page and of a pointer
  STACK_TOP_MAX, MMAP_MIN_ADDR,
  MAX_ARG_STRLEN, MAX_ARG_STRINGS,
  STK_LIM, ARG_MAX, STACK_EXPAND,
  ArgCalls                           \* [filename, argv, envp, rlim, stack_top]

NUL == 0
UNSET == -1
String == Seq(Nat \ {NUL})

Larger(a, b) == IF a > b THEN a ELSE b
Smaller(a, b) == IF a < b THEN a ELSE b
PageOf(a) == a - (a % PAGE_SIZE)

\* The room for the strings and for the pointers to them.
Limit(rlim) == Larger(Smaller((STK_LIM \div 4) * 3, rlim \div 4), ARG_MAX)

\* Addresses do not wrap: the area that the strings may take is far smaller than
\* the address space above it.
ASSUME ArgAssumption ==
  /\ PAGE_SIZE \in Nat \ {0} /\ PTR_SIZE \in 1 .. PAGE_SIZE
  /\ {STACK_TOP_MAX, MMAP_MIN_ADDR, MAX_ARG_STRLEN, MAX_ARG_STRINGS,
      STK_LIM, ARG_MAX, STACK_EXPAND} \subseteq Nat
  /\ \A call \in ArgCalls :
       /\ call \in [filename : String, argv : Seq(String), envp : Seq(String),
                   rlim : Nat, stack_top : 0 .. STACK_TOP_MAX]
       /\ PTR_SIZE + Limit(call.rlim) <= STACK_TOP_MAX

VARIABLES
  args,      \* the call: what the caller passed, its stack limit, where the
             \* stack goes in the end
  stage,     \* "count", "copy", "loaded", "placed", or "failed"
  todo,      \* strings still to copy, [bytes, user]
  left,      \* bytes of the current string still to copy, and
  pos,       \* the address they end below
  p, argmin, argc, exec,             \* of struct linux_binprm
  vm_start, vm_end,                  \* of its stack area
  stack,     \* the bytes of the area
  placed,    \* history: the strings copied, newest first: [at, bytes]
  faithful   \* history: no other thread rewrote a string that was measured

argVars == <<args, stage, todo, left, pos, p, argmin, argc, exec,
             vm_start, vm_end, stack, placed, faithful>>
layoutVars == <<args, argmin, argc, vm_end>>

\* bprm_mm_init: a stack of one page; a pointer's room is left at its end.
ArgInitial(call) ==
  /\ args = call
  /\ stage = "count"
  /\ todo = << >> /\ left = << >> /\ pos = UNSET
  /\ vm_end = STACK_TOP_MAX /\ vm_start = STACK_TOP_MAX - PAGE_SIZE
  /\ p = STACK_TOP_MAX - PTR_SIZE
  /\ argmin = UNSET /\ argc = UNSET /\ exec = UNSET
  /\ stack = [a \in 0 .. STACK_TOP_MAX - 1 |-> NUL]
  /\ placed = << >> /\ faithful = TRUE
ArgInit == \E call \in ArgCalls : ArgInitial(call)

-----------------------------------------------------------------------------
(* The limits. *)

Counted(strings) == Len(strings) <= MAX_ARG_STRINGS

\* The room for strings, what the pointers to them need already taken off. A
\* pointer is counted for the empty string an empty argv gets.
PointersUncounted ==   \* mutant
  Limit(args.rlim)
Room ==
  Limit(args.rlim) - (Larger(Len(args.argv), 1) + Len(args.envp)) * PTR_SIZE

ByUser(strings) ==
  [k \in 1 .. Len(strings) |-> [bytes |-> Append(strings[k], NUL), user |-> TRUE]]
ByKernel(string) == << [bytes |-> Append(string, NUL), user |-> FALSE] >>

\* The last string of a vector is copied first.
CopyOrder ==
  ByKernel(args.filename) \o Reverse(ByUser(args.envp)) \o Reverse(ByUser(args.argv))
    \o (IF args.argv = << >> THEN ByKernel(<< >>) ELSE << >>)

\* count and bprm_stack_limits.
StackLimits ==
  /\ stage = "count"
  /\ IF Counted(args.argv) /\ Counted(args.envp) /\ Room > 0
     THEN /\ stage' = "copy"
          /\ argc' = Len(args.argv)
          /\ argmin' = p - Room
          /\ todo' = CopyOrder
     ELSE /\ stage' = "failed"
          /\ UNCHANGED <<argc, argmin, todo>>
  /\ UNCHANGED <<args, left, pos, p, exec, vm_start, vm_end, stack, placed, faithful>>

-----------------------------------------------------------------------------
(* The strings. *)

valid_arg_len(len) == len <= MAX_ARG_STRLEN

\* The length is taken, the string's room is taken off p.  If another thread
\* of the caller then writes the string, other bytes are copied, but no more.
CopyString(bytes) ==
  LET new == p - Len(bytes)
  IN /\ stage = "copy" /\ left = << >> /\ todo /= << >>
     /\ Len(bytes) = Len(Head(todo).bytes)
     /\ Head(todo).user \/ bytes = Head(todo).bytes
     /\ IF ~ valid_arg_len(Len(bytes))
        THEN /\ stage' = "failed"
             /\ UNCHANGED <<todo, left, pos, p, exec, placed, faithful>>
        ELSE /\ p' = new
             /\ pos' = p
             /\ IF new < argmin
                THEN /\ stage' = "failed"
                     /\ UNCHANGED <<todo, left, exec, placed, faithful>>
                ELSE /\ left' = bytes
                     /\ todo' = Tail(todo)
                     \* The file name is the first one copied.
                     /\ exec' = IF exec = UNSET THEN new ELSE exec
                     /\ placed' = << [at |-> new, bytes |-> bytes] >> \o placed
                     /\ faithful' = (faithful /\ bytes = Head(todo).bytes)
                     /\ UNCHANGED stage
  /\ UNCHANGED <<layoutVars, vm_start, stack>>

\* The end of the string that is in the page below pos.
WholeString == Len(left)   \* mutant
PieceLength ==
  Smaller(IF pos % PAGE_SIZE = 0 THEN PAGE_SIZE ELSE pos % PAGE_SIZE, Len(left))

\* The stack grows down to the page of an address.
get_arg_page(a) == vm_start' = Smaller(vm_start, PageOf(a))

\* One turn of the copy loops. One page alone is mapped: bytes past its end would
\* not be the stack's.
CopyPiece ==
  LET n == PieceLength
      from == pos - n
  IN /\ stage = "copy" /\ left /= << >>
     /\ stack' = [a \in DOMAIN stack |->
                  IF a \in from .. pos - 1 /\ PageOf(a) = PageOf(from)
                  THEN left[Len(left) - pos + a + 1] ELSE stack[a]]
     /\ get_arg_page(from)
     /\ left' = SubSeq(left, 1, Len(left) - n)
     /\ pos' = from
     /\ UNCHANGED <<layoutVars, stage, todo, p, exec, placed, faithful>>

\* No page to be had, a string that cannot be read, a fatal signal.
CopyFails ==
  /\ stage = "copy" /\ left /= << >>
  /\ stage' = "failed"
  /\ UNCHANGED <<layoutVars, todo, left, pos, p, exec, vm_start, stack, placed, faithful>>

AllCopied ==
  /\ stage = "copy" /\ left = << >> /\ todo = << >>
  /\ stage' = "loaded"
  /\ argc' = Larger(argc, 1)
  /\ UNCHANGED <<args, todo, left, pos, p, argmin, exec, vm_start, vm_end, stack, placed, faithful>>

-----------------------------------------------------------------------------
(* What a format does with them. *)

FirstNul(from) == CHOOSE a \in from .. vm_end - 1 :
                    stack[a] = NUL /\ \A b \in from .. a - 1 : stack[b] /= NUL

\* A script's interpreter takes the place of the first argument. Where no NUL
\* follows, the search ends at a page that is not there.
AfterFirst == FirstNul(p) + 1
remove_arg_zero ==
  /\ stage = "loaded" /\ argc > 0
  /\ \/ /\ \E a \in p .. vm_end - 1 : stack[a] = NUL
        /\ p' = AfterFirst
        /\ argc' = argc - 1
        /\ UNCHANGED stage
     \/ /\ \A a \in p .. vm_end - 1 : stack[a] # NUL
        /\ p' = vm_end
        /\ stage' = "failed"
        /\ UNCHANGED argc
  /\ UNCHANGED <<args, todo, left, pos, argmin, exec, vm_start, vm_end, stack, placed, faithful>>

\* setup_arg_pages and shift_arg_pages: the area moves down to its place, and
\* is then expanded, by STACK_EXPAND or up to the limit; the kernel does not
\* expand a stack below MMAP_MIN_ADDR.
StackShift == vm_end - args.stack_top
StackBase ==
  LET size == vm_end - vm_start
      limit == PageOf(args.rlim)
  IN IF size + STACK_EXPAND > limit THEN args.stack_top - limit
     ELSE args.stack_top - size - STACK_EXPAND

\* The pages at the new place are those of the old one.
shift_arg_pages ==
  stack' = [a \in DOMAIN stack |->
            IF a + StackShift \in vm_start .. vm_end - 1 THEN stack[a + StackShift] ELSE NUL]

\* The lock may be refused, and the area may not be moved or protected.
setup_arg_pages ==
  /\ stage = "loaded"
  /\ IF args.stack_top < MMAP_MIN_ADDR
        \/ vm_end - vm_start >= args.stack_top - MMAP_MIN_ADDR
     THEN /\ stage' = "failed"
          /\ UNCHANGED <<p, exec, vm_start, vm_end, stack>>
     ELSE /\ p' = p - StackShift
          /\ exec' = exec - StackShift
          /\ \/ stage' = "failed" /\ UNCHANGED <<vm_start, vm_end, stack>>
             \/ /\ stage' = IF StackBase < MMAP_MIN_ADDR THEN "failed" ELSE "placed"
                /\ vm_end' = args.stack_top
                /\ vm_start' = IF StackBase < MMAP_MIN_ADDR THEN vm_start - StackShift
                               ELSE Smaller(vm_start - StackShift, StackBase)
                /\ shift_arg_pages
  /\ UNCHANGED <<args, todo, left, pos, argmin, argc, placed, faithful>>

\* What another thread may have made of a string before it is copied.
Rewritten(bytes) == {[k \in 1 .. Len(bytes) |-> c] : c \in {NUL, 1}}

ArgNext ==
  \/ StackLimits
  \/ /\ todo /= << >>
     /\ \E bytes \in {Head(todo).bytes} \cup Rewritten(Head(todo).bytes) : CopyString(bytes)
  \/ CopyPiece \/ CopyFails \/ AllCopied
  \/ remove_arg_zero \/ setup_arg_pages

ArgSpec == ArgInit /\ [][ArgNext]_argVars

-----------------------------------------------------------------------------

(* Properties. *)

\* The addresses of strings that lie one after the other, from a on.
Starts(a, n) ==
  LET start[k \in 0 .. n] == IF k = 0 THEN a ELSE FirstNul(start[k - 1]) + 1
  IN start
StringAt(a) == [k \in 1 .. FirstNul(a) - a |-> stack[a + k - 1]]
StringsAt(a, n) == [k \in 1 .. n |-> StringAt(Starts(a, n)[k - 1])]

ArgumentsGiven == IF args.argv = << >> THEN << << >> >> ELSE args.argv

CopiedStays ==
  stage = "copy" =>
    /\ p >= argmin
    /\ \A k \in (IF left = << >> THEN 1 ELSE 2) .. Len(placed) :
         \A b \in DOMAIN placed[k].bytes : stack[placed[k].at + b - 1] = placed[k].bytes[b]

StringsFound ==
  stage \in {"loaded", "placed"} /\ faithful =>
    /\ StringsAt(p, argc + Len(args.envp))
         = SubSeq(ArgumentsGiven, Len(ArgumentsGiven) - argc + 1, Len(ArgumentsGiven))
             \o args.envp
    /\ StringsAt(exec, 1) = <<args.filename>>

\* exec.c: a string that was copied stays as it was while the others are copied
\* below it, page by page, and nothing is written below the limit. Where the
\* format's loader finds them, before and after the stack moved, are the
\* arguments, less one for a script, then the environment, and the file name.
ArgumentsIntact == CopiedStays /\ StringsFound

\* exec.c:479: "Limit to 1/4 of the max stack size or 3/4 of _STK_LIM", or ARG_MAX:
\* strings and the pointers to them, which are stored later, fit together.
StringsAndPointersFit ==
  stage = "loaded" =>
    STACK_TOP_MAX - PTR_SIZE - p + PTR_SIZE * (argc + Len(args.envp)) <= Limit(args.rlim)
=============================================================================
