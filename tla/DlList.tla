------------------------------- MODULE DlList -------------------------------
(***************************************************************************)
(* The double linked list of embench-iot-benchmarks/sglib.h, as            *)
(* sglib-combined.c exercises it. The links are what can go wrong: it has  *)
(* its pointers, where the other lists are sequences.                      *)
(***************************************************************************)
EXTENDS SglibArrays

VARIABLES list, next, previous

listVars == <<list, next, previous>>
dlVars == <<arraysVars, listVars>>

ListInitial ==
  /\ list = Null
  /\ next = [n \in Number |-> Null] /\ previous = [n \in Number |-> Null]

-----------------------------------------------------------------------------
(* SGLIB_DL_LIST: list points to any element of the list.                  *)

\* What the lists leave alone.
othersFrame == UNCHANGED <<uses, arrayVars, htab, queueVars, heap, mem>>

\* The elements from n on, along link. No list has more than Number.
Follow(link, n) ==
  LET at[t \in 0 .. Cardinality(Number)] ==
        IF t = 0 THEN n ELSE LET m == at[t - 1] IN IF m = Null THEN Null ELSE link[m]
  IN [k \in 1 .. Cardinality({t \in 0 .. Cardinality(Number) : at[t] # Null}) |-> at[k - 1]]
GetFirst(n) == Last(Follow(previous, n))
GetLast(n) == Last(Follow(next, n))

SetLink(link, n, to) == IF n = Null THEN link ELSE [link EXCEPT ![n] = to]

\* SGLIB_DL_LIST_ADD is SGLIB_DL_LIST_ADD_BEFORE.
dllist_add(n) ==
  /\ uses = "dllist" /\ n \notin spec /\ Put(n)
  /\ IF list = Null
     THEN list' = n /\ next' = [next EXCEPT ![n] = Null] /\ previous' = [previous EXCEPT ![n] = Null]
     ELSE /\ next' = SetLink([next EXCEPT ![n] = list], previous[list], n)
          /\ previous' = [previous EXCEPT ![n] = previous[list], ![list] = n]
          /\ UNCHANGED list
  /\ othersFrame

dllist_add_after(n) ==
  /\ uses = "dllist" /\ n \notin spec /\ Put(n)
  /\ IF list = Null
     THEN list' = n /\ next' = [next EXCEPT ![n] = Null] /\ previous' = [previous EXCEPT ![n] = Null]
     ELSE /\ next' = [next EXCEPT ![n] = next[list], ![list] = n]
          /\ previous' = SetLink([previous EXCEPT ![n] = list], next[list], n)
          /\ UNCHANGED list
  /\ othersFrame

\* The members: those up to the list pointer, and those behind it.
MembersFrom(n) == Follow(previous, n) \o (IF n = Null THEN << >> ELSE Follow(next, next[n]))

BackOnly(n) == IF list = n THEN previous[n] ELSE list   \* mutant: the rest of the list is lost
AfterDelete(n) == IF list # n THEN list ELSE IF previous[n] # Null THEN previous[n] ELSE next[n]

dllist_delete_if_member(n) ==
  /\ uses = "dllist"
  /\ IF n \in Range(MembersFrom(list))
     THEN /\ previous' = SetLink(previous, next[n], previous[n])
          /\ next' = SetLink(next, previous[n], next[n])
          /\ list' = AfterDelete(n)
          /\ Take(n)
     ELSE UNCHANGED <<specVars, listVars>>
  /\ othersFrame

\* SGLIB_LIST_SORT: runs of n elements are merged, then of 2 n, and so on.
\* How many of the first elements of the merge of a and b are of a.
OfA(a, b) ==
  LET ofA[t \in 0 .. Len(a) + Len(b)] ==
        IF t = 0 THEN 0
        ELSE LET i == ofA[t - 1]
                 j == t - 1 - i
             IN IF i < Len(a) /\ (j < Len(b) => a[i + 1] < b[j + 1]) THEN i + 1 ELSE i
  IN ofA
Merge(a, b) ==
  LET ofA == OfA(a, b)
  IN [t \in 1 .. Len(a) + Len(b) |-> IF ofA[t] > ofA[t - 1] THEN a[ofA[t]] ELSE b[t - ofA[t]]]

\* The runs are numbered from 0. Those behind the end of s are empty.
Run(s, n, r) == SubSeq(s, n * r + 1, Min({n * r + n, Len(s)}))
MergeRuns(s, n) ==
  [k \in 1 .. Len(s) |->
     LET d == (k - 1) \div (2 * n)
     IN Merge(Run(s, n, 2 * d), Run(s, n, 2 * d + 1))[k - 2 * n * d]]

MergeOnce(s) == MergeRuns(s, 1)   \* mutant: only one round
ListSort(s) ==
  LET round[t \in 0 .. Len(s)] ==
        IF t = 0 THEN [s |-> s, n |-> 1]
        ELSE LET r == round[t - 1]
             IN IF Len(s) <= r.n THEN r ELSE [s |-> MergeRuns(r.s, r.n), n |-> 2 * r.n]
  IN round[Len(s)].s

\* The list is sorted along next, and then linked back.
LinkOne(s, link, d) ==
  [n \in Number |-> IF \E k \in DOMAIN s : s[k] = n
                    THEN LET k == CHOOSE x \in DOMAIN s : s[x] = n
                         IN IF k + d \in DOMAIN s THEN s[k + d] ELSE Null
                    ELSE link[n]]
LinkBack(s) == LinkOne(s, previous, -1)

dllist_sort ==
  /\ uses = "dllist"
  /\ IF list = Null THEN UNCHANGED listVars
     ELSE LET s == ListSort(Follow(next, GetFirst(list))) IN
          /\ next' = LinkOne(s, next, 1)
          /\ previous' = LinkBack(s)
          /\ list' = Head(s)
  /\ UNCHANGED specVars
  /\ othersFrame

dllist_reverse ==
  /\ uses = "dllist"
  /\ LET members == Range(MembersFrom(list)) IN
       /\ next' = [n \in Number |-> IF n \in members THEN previous[n] ELSE next[n]]
       /\ previous' = [n \in Number |-> IF n \in members THEN next[n] ELSE previous[n]]
  /\ UNCHANGED <<specVars, list>>
  /\ othersFrame

-----------------------------------------------------------------------------

DlListNext ==
  \/ dllist_sort \/ dllist_reverse
  \/ \E n \in Number :
       dllist_add(n) \/ dllist_add_after(n) \/ dllist_delete_if_member(n)

DlListSpec == ArraysInitial("dllist") /\ ListInitial /\ [][DlListNext]_dlVars

-----------------------------------------------------------------------------
(* Properties.                                                             *)

\* The links of the double linked list agree in both directions, whichever
\* element list points to, and lead to the members and to nothing else.
DlListLinked ==
  uses = "dllist" =>
    /\ \A n \in spec : /\ next[n] # Null => next[n] \in spec /\ previous[next[n]] = n
                      /\ previous[n] # Null => previous[n] \in spec /\ next[previous[n]] = n
    /\ (list = Null) = (spec = {})
    /\ Len(MembersFrom(list)) = Cardinality(spec) /\ Range(MembersFrom(list)) = spec

\* sglib_dllist_sort: the list begins with its least element and ascends.
DlListSorted ==
  [][dllist_sort /\ spec # {} =>
       /\ list' = Min(spec)
       /\ \A n \in spec : next'[n] # Null => n < next'[n]]_dlVars

=============================================================================
