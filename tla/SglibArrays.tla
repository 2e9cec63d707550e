---------------------------- MODULE SglibArrays ----------------------------
(***************************************************************************)
(* What embench-iot-benchmarks/sglib.h keeps in arrays, as sglib-combined.c *)
(* exercises it: quicksort, the hashed container of lists, queue and heap,  *)
(* and the allocator of the benchmark. It is all C macros; assert is empty. *)
(*                                                                         *)
(* A behaviour uses one container, any operations in any order. An element *)
(* is a number, and its own node: the benchmark adds a number once to each *)
(* container.                                                              *)
(***************************************************************************)
EXTENDS Integers, Sequences, SequencesExt, FiniteSets, FiniteSetsExt, Functions

CONSTANTS
  Number,         \* the numbers that are stored, positive
  TreeNumber,     \* those of the heap and of the tree
  HASH_TAB_SIZE,
  MAX_PARAMS,     \* size of the array of the queue and of the heap
  ArrayLength,    \* of the array to sort
  HEAP_SIZE, Sizes,   \* of the allocator: in all, and what is asked for
  MaxRequested    \* bound of the model, on what is asked for in all

ASSUME SglibAssumption ==
  /\ Number \cup TreeNumber \subseteq Nat \ {0} /\ IsFiniteSet(Number \cup TreeNumber)
  /\ HASH_TAB_SIZE \in Nat \ {0} /\ MAX_PARAMS \in Nat \ {0}
  /\ ArrayLength \in Nat /\ {HEAP_SIZE, MaxRequested} \cup Sizes \subseteq Nat

VARIABLES
  uses,      \* the container of this behaviour
  spec,      \* the numbers that were put in and not taken out
  fifo,      \* the same for the queue, in their order
  array,
  given,     \* history: the array as it was
  sorting,   \* the parts still to sort, as <<start, end>>; the last one is next
  cut,       \* the indexes between which its partition still looks, or << >>
  htab,
  queue, ai, aj,       \* the array of the queue, its first and its first free index
  heap,                \* the used part of the array of the heap
  mem                  \* of the allocator: heap_ptr, heap_requested, and a failure

specVars == <<spec, fifo>>
arrayVars == <<array, given, sorting, cut>>
queueVars == <<queue, ai, aj>>
arraysVars == <<uses, specVars, arrayVars, htab, queueVars, heap, mem>>

Null == 0
Swap(a, x, y) == [a EXCEPT ![x] = a[y], ![y] = a[x]]

ArraysInitial(container) ==
  /\ uses = container
  /\ spec = {} /\ fifo = << >>
  /\ array \in (IF uses = "array" THEN [0 .. ArrayLength - 1 -> Number] ELSE {<< >>})
  /\ given = array /\ cut = << >>
  /\ sorting = IF uses = "array" THEN <<<<0, ArrayLength>>>> ELSE << >>
  /\ htab = [h \in 0 .. HASH_TAB_SIZE - 1 |-> << >>]
  /\ queue = [k \in 0 .. MAX_PARAMS - 1 |-> Null] /\ ai = 0 /\ aj = 0
  /\ heap = << >>
  /\ mem = [ptr |-> 0, requested |-> 0, failed |-> FALSE]
ArraysInit ==
  \E container \in {"array", "hashed", "queue", "heap", "malloc"} : ArraysInitial(container)

Put(n) == spec' = spec \cup {n} /\ UNCHANGED fifo
Take(n) == spec' = spec \ {n} /\ UNCHANGED fifo

-----------------------------------------------------------------------------
(* SGLIB_ARRAY_QUICK_SORT.                                                 *)

PartStart == Last(sorting)[1]
PartEnd == Last(sorting)[2]
sortFrame == UNCHANGED <<uses, specVars, given, htab, queueVars, heap, mem>>

BeginPartition ==
  /\ uses = "array" /\ sorting # << >> /\ cut = << >> /\ PartEnd - PartStart > 2
  /\ cut' = <<PartStart + 1, PartEnd - 1>>
  /\ UNCHANGED <<array, sorting>>
  /\ sortFrame

\* The first index from cut[1] on, not above cut[2], whose element is above the
\* pivot, and the last one down to it whose element is below.
FirstAbove == Min({k \in cut[1] .. cut[2] : array[k] > array[PartStart]} \cup {cut[2] + 1})
LastBelow == Max({k \in FirstAbove .. cut[2] : array[k] < array[PartStart]} \cup {FirstAbove - 1})

Partitioning == uses = "array" /\ cut # << >> /\ cut[1] < cut[2]

Exchange ==
  /\ Partitioning /\ FirstAbove <= cut[2] /\ FirstAbove < LastBelow
  /\ array' = Swap(array, FirstAbove, LastBelow)
  /\ cut' = <<IF FirstAbove + 1 < LastBelow THEN FirstAbove + 1 ELSE FirstAbove,
              IF FirstAbove + 2 < LastBelow THEN LastBelow - 1 ELSE LastBelow>>
  /\ UNCHANGED sorting
  /\ sortFrame

\* The larger part waits on the stack, the smaller one is next.
PushSmaller(left, right) == <<left, right>>   \* mutant: the smaller part waits
PushLarger(left, right) ==
  IF left[2] - left[1] < right[2] - right[1] THEN <<right, left>> ELSE <<left, right>>

\* Nothing is left to exchange: the pivot goes to its place, and two parts are left.
PlacePivot ==
  /\ Partitioning /\ (FirstAbove > cut[2] \/ FirstAbove >= LastBelow)
  /\ LET mid == IF FirstAbove > cut[2] THEN cut[2] ELSE LastBelow
         lower == <<PartStart, mid>>
         upper == <<mid + 1, PartEnd>>
     IN /\ array' = Swap(array, mid, PartStart)
        /\ sorting' = Front(sorting) \o
             (CASE mid - PartStart > 1 /\ PartEnd - mid > 1 -> PushLarger(lower, upper)
                [] mid - PartStart > 1 /\ PartEnd - mid <= 1 -> <<lower>>
                [] OTHER -> <<upper>>)
  /\ cut' = << >>
  /\ sortFrame

OrderPair ==
  /\ uses = "array" /\ sorting # << >> /\ cut = << >> /\ PartEnd - PartStart <= 2
  /\ array' = IF PartEnd - PartStart = 2 /\ array[PartStart] > array[PartEnd - 1]
              THEN Swap(array, PartStart, PartEnd - 1) ELSE array
  /\ sorting' = Front(sorting)
  /\ UNCHANGED cut
  /\ sortFrame

-----------------------------------------------------------------------------
(* The hashed container, of lists.                                         *)

ilist_hash_function(n) == n
Cell(n) == ilist_hash_function(n) % HASH_TAB_SIZE

\* SGLIB_LIST_FIND_MEMBER in the element's cell.
hashed_find_member(n) == \E k \in DOMAIN htab[Cell(n)] : htab[Cell(n)][k] = n

hashed_add(n) ==
  /\ uses = "hashed"
  /\ IF hashed_find_member(n) THEN UNCHANGED <<specVars, htab>>
     ELSE Put(n) /\ htab' = [htab EXCEPT ![Cell(n)] = <<n>> \o @]
  /\ UNCHANGED <<uses, arrayVars, queueVars, heap, mem>>

Place(n) == CHOOSE k \in DOMAIN htab[Cell(n)] : htab[Cell(n)][k] = n
hashed_delete_if_member(n) ==
  /\ uses = "hashed"
  /\ IF hashed_find_member(n)
     THEN Take(n) /\ htab' = [htab EXCEPT ![Cell(n)] = RemoveAt(@, Place(n))]
     ELSE UNCHANGED <<specVars, htab>>
  /\ UNCHANGED <<uses, arrayVars, queueVars, heap, mem>>

\* What sglib_hashed_ilist_it_init and it_next return: cell after cell.
Iterated ==
  LET before[h \in 0 .. HASH_TAB_SIZE] == IF h = 0 THEN << >> ELSE before[h - 1] \o htab[h - 1]
  IN before[HASH_TAB_SIZE]

-----------------------------------------------------------------------------
(* The queue and the heap. Adding to a full one is left out: an assertion. *)

QueueIsFull == ai = (aj + 1) % MAX_PARAMS

queue_add(n) ==
  /\ uses = "queue" /\ ~QueueIsFull
  /\ fifo' = Append(fifo, n)
  /\ queue' = [queue EXCEPT ![aj] = n]
  /\ aj' = (aj + 1) % MAX_PARAMS
  /\ UNCHANGED <<uses, spec, ai, arrayVars, htab, heap, mem>>

NoWrap == ai + 1   \* mutant: the first index runs out of the array
NextFirst == (ai + 1) % MAX_PARAMS

queue_delete ==
  /\ uses = "queue" /\ ai # aj
  /\ fifo' = Tail(fifo)
  /\ ai' = NextFirst
  /\ UNCHANGED <<uses, spec, queue, aj, arrayVars, htab, heap, mem>>

\* heap[k + 1] is a[k] of the code. SGLIB_HEAP_ADD_NEXT: up, to a[k / 2].
Up(a, k) == IF k > 0 /\ a[k \div 2 + 1] < a[k + 1] THEN k \div 2 ELSE k

\* SGLIB___ARRAY_HEAP_DOWN: down, to the largest of a[2 k + 1] and a[2 k + 2].
Down(a, k) ==
  LET family == {k, 2 * k + 1, 2 * k + 2} \cap 0 .. Len(a) - 1
  IN CHOOSE m \in family :
       \A o \in family : a[o + 1] < a[m + 1] \/ (a[o + 1] = a[m + 1] /\ m <= o)

\* A loop that exchanges the element at k with another one, turn by turn. None
\* takes more turns than there are elements.
Turn(way, a, k) == IF way = "up" THEN Up(a, k) ELSE Down(a, k)
Loop(a, k, way) ==
  LET after[t \in 0 .. Len(a)] ==
        IF t = 0 THEN [a |-> a, k |-> k]
        ELSE LET m == Turn(way, after[t - 1].a, after[t - 1].k)
             IN [a |-> Swap(after[t - 1].a, after[t - 1].k + 1, m + 1), k |-> m]
  IN after[Len(a)].a

heap_add(n) ==
  /\ uses = "heap" /\ Len(heap) < MAX_PARAMS /\ n \notin spec /\ Put(n)
  /\ heap' = Loop(Append(heap, n), Len(heap), "up")
  /\ UNCHANGED <<uses, arrayVars, htab, queueVars, mem>>

\* The last element takes the place of the first.
LastFirst(a) == IF Len(a) = 1 THEN << >> ELSE [Front(a) EXCEPT ![1] = Last(a)]

heap_delete ==
  /\ uses = "heap" /\ heap # << >>
  /\ Take(heap[1])
  /\ heap' = Loop(LastFirst(heap), 0, "down")
  /\ UNCHANGED <<uses, arrayVars, htab, queueVars, mem>>

-----------------------------------------------------------------------------
(* malloc_beebs, calloc_beebs, and realloc_beebs as far as memory goes.    *)

malloc_beebs(size) ==
  /\ uses = "malloc" /\ mem.requested + size <= MaxRequested
  /\ LET fails == size = 0 \/ mem.ptr + size > HEAP_SIZE IN
       mem' = [ptr |-> IF fails THEN mem.ptr ELSE mem.ptr + size,
               requested |-> mem.requested + size,
               failed |-> mem.failed \/ (fails /\ size # 0)]
  /\ UNCHANGED <<uses, specVars, arrayVars, htab, queueVars, heap>>

init_heap_beebs ==
  /\ uses = "malloc"
  /\ mem' = [ptr |-> 0, requested |-> 0, failed |-> FALSE]
  /\ UNCHANGED <<uses, specVars, arrayVars, htab, queueVars, heap>>

check_heap_beebs == mem.requested <= HEAP_SIZE

-----------------------------------------------------------------------------

ArraysNext ==
  \/ BeginPartition \/ Exchange \/ PlacePivot \/ OrderPair
  \/ queue_delete \/ heap_delete \/ init_heap_beebs
  \/ \E n \in Number : hashed_add(n) \/ hashed_delete_if_member(n) \/ queue_add(n)
  \/ \E n \in TreeNumber : heap_add(n)
  \/ \E size \in Sizes : malloc_beebs(size)

ArraysSpec == ArraysInit /\ [][ArraysNext]_arraysVars

-----------------------------------------------------------------------------
(* Properties.                                                             *)

HashedComplete ==
  uses = "hashed" =>
    /\ \A n \in Number : hashed_find_member(n) = (n \in spec)
    /\ Len(Iterated) = Cardinality(spec) /\ Range(Iterated) = spec

QueueInOrder ==
  uses = "queue" =>
    /\ ai \in DOMAIN queue /\ aj \in DOMAIN queue
    /\ Len(fifo) = (aj - ai) % MAX_PARAMS
    /\ \A k \in DOMAIN fifo : fifo[k] = queue[(ai + k - 1) % MAX_PARAMS]

HeapKeepsElements ==
  uses = "heap" => Len(heap) = Cardinality(spec) /\ Range(heap) = spec

CheckHeapTells == uses = "malloc" => check_heap_beebs = ~mem.failed

\* The containers return what was put in and not taken out, at their limits too:
\* the iterator of the hashed container passes cells that are empty, the queue
\* keeps its order when its indexes wrap and reads nothing beyond its array,
\* the heap moves its last element. And check_heap_beebs tells the benchmark
\* whether an allocation failed since the last init_heap_beebs.
NothingLost ==
  HashedComplete /\ QueueInOrder /\ HeapKeepsElements /\ CheckHeapTells

Places(a, n) == {k \in 0 .. ArrayLength - 1 : a[k] = n}
ArraySorted ==
  uses = "array" /\ sorting = << >> =>
    /\ \A k \in 1 .. ArrayLength - 1 : array[k - 1] <= array[k]
    /\ \A n \in Number : Cardinality(Places(array, n)) = Cardinality(Places(given, n))

\* The parts on the stack are counted from 1 at the bottom. The smaller piece goes
\* on top and has at most half of the part it was cut from, the larger one takes
\* the place of that part: two neighbours may be equally long, but a part at
\* place k was halved k - 1 times.
StackHalves ==
  uses = "array" =>
    \A k \in DOMAIN sorting :
      2^(k - 1) * (sorting[k][2] - sorting[k][1]) <= ArrayLength

\* Quicksort "can sort up to 2^64 elements" with a stack of 64 parts (sglib.h:99):
\* the part at place k of the stack has at most the 2^(k - 1)-th part of the
\* array's elements, so an array of less than 2^64 never has 65 parts waiting.
\* And when nothing waits, the array has the numbers it was given, each as often,
\* in ascending order.
QuickSorts == StackHalves /\ ArraySorted

=============================================================================
