------------------------------- MODULE Sglib -------------------------------
(***************************************************************************)
(* The containers of embench-iot-benchmarks/sglib.h that sglib-combined.c  *)
(* exercises: those of SglibArrays, the double linked list of DlList and   *)
(* the red-black tree.                                                     *)
(*                                                                         *)
(* A behaviour uses one container, any operations in any order.            *)
(***************************************************************************)
EXTENDS DlList

VARIABLE tree

sglibVars == <<dlVars, tree>>

Nil == << >>

SglibInitial(container) ==
  /\ ArraysInitial(container)
  /\ ListInitial
  /\ tree = Nil

Containers == {"array", "dllist", "hashed", "queue", "heap", "rbtree", "malloc"}
SglibInit == \E container \in Containers : SglibInitial(container)

-----------------------------------------------------------------------------
(* The red-black tree: Nil, or a node with a number, a colour, two sons.   *)

Opposite(side) == IF side = "left" THEN "right" ELSE "left"
IsRed(t) == t # Nil /\ t.red
Paint(t, red) == IF t = Nil THEN Nil ELSE [t EXCEPT !.red = red]

\* The node of t with son l at its side, and r at the opposite one.
Sons(t, side, l, r) == [t EXCEPT ![side] = l, ![Opposite(side)] = r]

\* SGLIB___RBTREE_FIX_INSERTION_DISCREPANCY: after an insertion at side.
FixInsertion(t, side) ==
  LET o == Opposite(side)
      b == t[side]
      c == b[o]
  IN CASE ~IsRed(b) \/ ~(IsRed(b[side]) \/ IsRed(b[o])) -> t
       [] IsRed(b) /\ IsRed(t[o]) /\ (IsRed(b[side]) \/ IsRed(b[o])) ->
            Paint(Sons(t, side, Paint(b, FALSE), Paint(t[o], FALSE)), TRUE)
       [] IsRed(b) /\ ~IsRed(t[o]) /\ IsRed(b[side]) ->
            Paint(Sons(b, side, b[side], Paint(Sons(t, side, b[o], t[o]), TRUE)), FALSE)
       [] OTHER ->
            Paint(Sons(c, side, Sons(b, side, b[side], c[side]),
                                Paint(Sons(t, side, c[o], t[o]), TRUE)), FALSE)

\* SGLIB___RBTREE_FIX_DELETION_DISCREPANCY: the subtree opposite to side has
\* lost a level of black nodes. res: so has the whole tree.
FixDeletion(t, side) ==
  LET o == Opposite(side)
      b == t[side]
      c == b[o]
      d == c[o]
      Over(top, l, r) == [t |-> Sons(top, side, l, r), res |-> FALSE]
      A(son) == Sons(t, side, son, t[o])
  IN CASE b = Nil -> [t |-> Paint(t, FALSE), res |-> FALSE]
       [] IsRed(b) /\ (c = Nil \/ (~IsRed(c[side]) /\ ~IsRed(d))) ->
            Over(Paint(b, FALSE), b[side], A(Paint(c, TRUE)))
       [] IsRed(b) /\ c # Nil /\ IsRed(d) ->
            Over(Paint(d, FALSE), Sons(b, side, b[side], Sons(c, side, c[side], d[side])), A(d[o]))
       [] IsRed(b) /\ c # Nil /\ IsRed(c[side]) /\ ~IsRed(d) ->
            Over(c, Sons(b, side, b[side], Paint(c[side], FALSE)), A(d))
       [] b # Nil /\ ~IsRed(b) /\ ~IsRed(b[side]) /\ ~IsRed(c) ->
            [t |-> Paint(Sons(t, side, Paint(b, TRUE), t[o]), FALSE), res |-> ~t.red]
       [] b # Nil /\ ~IsRed(b) /\ IsRed(b[side]) /\ ~IsRed(c) ->
            Over(Paint(b, t.red), Paint(b[side], FALSE), Paint(A(c), FALSE))
       [] OTHER ->
            Over(Paint(c, t.red), Sons(b, side, b[side], c[side]), Paint(A(c[o]), FALSE))

NoFix(t, side) == t   \* mutant: the discrepancy stays
FixIfBlack(t, side) == IF t.red THEN t ELSE FixInsertion(t, side)

RECURSIVE AddRecursive(_, _)
AddRecursive(t, n) ==
  LET side == IF n < t.n THEN "left" ELSE "right" IN
  IF t = Nil THEN [n |-> n, red |-> TRUE, left |-> Nil, right |-> Nil]
  ELSE FixIfBlack([t EXCEPT ![side] = AddRecursive(@, n)], side)

\* A son came back from a deletion: fix the tree when it has lost a level.
AfterDeletion(t, side, son) ==
  LET u == [t EXCEPT ![side] = son.t] IN
  IF son.res THEN FixDeletion(u, Opposite(side)) ELSE [t |-> u, res |-> FALSE]

\* The only son of a node that goes, in its place.
Promote(t, son) == [t |-> Paint(son, FALSE), res |-> ~t.red /\ ~IsRed(son)]

RECURSIVE DeleteRightmostLeaf(_)
DeleteRightmostLeaf(t) ==
  LET rest == DeleteRightmostLeaf(t.right) IN
  IF t.right = Nil THEN [leaf |-> t, del |-> Promote(t, t.left)]
  ELSE [leaf |-> rest.leaf, del |-> AfterDeletion(t, "right", rest.del)]

RECURSIVE DeleteRecursive(_, _)
DeleteRecursive(t, n) ==
  LET side == IF n < t.n THEN "left" ELSE "right"
      rightmost == DeleteRightmostLeaf(t.left)
  IN CASE n # t.n -> AfterDeletion(t, side, DeleteRecursive(t[side], n))
       [] n = t.n /\ t.left = Nil -> Promote(t, t.right)
       [] n = t.n /\ t.left # Nil ->
            AfterDeletion([t EXCEPT !.n = rightmost.leaf.n], "left", rightmost.del)

\* SGLIB___BIN_TREE_FIND_MEMBER.
RECURSIVE FindMember(_, _)
FindMember(t, n) ==
  t # Nil /\ (t.n = n \/ FindMember(IF n < t.n THEN t.left ELSE t.right, n))

rbtree_add_if_not_member(n) ==
  /\ uses = "rbtree"
  /\ IF FindMember(tree, n) THEN UNCHANGED <<specVars, tree>>
     ELSE Put(n) /\ tree' = Paint(AddRecursive(tree, n), FALSE)
  /\ UNCHANGED listVars
  /\ othersFrame

rbtree_delete_if_member(n) ==
  /\ uses = "rbtree"
  /\ IF FindMember(tree, n)
     THEN Take(n) /\ tree' = Paint(DeleteRecursive(tree, n).t, FALSE)
     ELSE UNCHANGED <<specVars, tree>>
  /\ UNCHANGED listVars
  /\ othersFrame

\* The iterator, a path of nodes and of how many of their sides were begun. It
\* stops when the last node has been visited as often as its order says.
RECURSIVE ComputeCurrent(_, _)
ComputeCurrent(path, order) ==
  LET top == Last(path)
      s == IF top.pass = 0 THEN top.t.left ELSE top.t.right
      begun == Append(Front(path), [top EXCEPT !.pass = @ + 1])
      moved == CASE top.pass >= 2 -> Front(path)
                 [] top.pass < 2 /\ s = Nil -> begun
                 [] OTHER -> Append(begun, [t |-> s, pass |-> 0])
  IN CASE path = << >> -> path
       [] path # << >> /\ moved # << >> /\ Last(moved).pass = order -> moved
       [] OTHER -> ComputeCurrent(moved, order)

\* All that it_next returns from path on.
RECURSIVE Visit(_, _)
Visit(path, order) ==
  IF path = << >> THEN << >> ELSE <<Last(path).t.n>> \o Visit(ComputeCurrent(path, order), order)

it_init(t, order) ==
  LET path == <<[t |-> t, pass |-> 0]>> IN
  IF t = Nil THEN << >> ELSE Visit(IF order = 0 THEN path ELSE ComputeCurrent(path, order), order)

\* sglib___rbtree_consistency_check: the numbers of black nodes on the paths of
\* t, {} when an assertion fails.
RECURSIVE ConsistencyCheck(_)
ConsistencyCheck(t) ==
  IF t = Nil THEN {0}
  ELSE LET deep == ConsistencyCheck(t.left) \cup ConsistencyCheck(t.right) IN
       IF /\ t.left # Nil => t.left.n <= t.n /\ ConsistencyCheck(t.left) # {}
          /\ t.right # Nil => t.n <= t.right.n /\ ConsistencyCheck(t.right) # {}
          /\ t.red => ~IsRed(t.left) /\ ~IsRed(t.right)
       THEN {IF t.red THEN d ELSE d + 1 : d \in deep} ELSE {}

-----------------------------------------------------------------------------

SglibNext ==
  \/ ArraysNext /\ UNCHANGED <<listVars, tree>>
  \/ DlListNext /\ UNCHANGED tree
  \/ \E n \in TreeNumber : rbtree_add_if_not_member(n) \/ rbtree_delete_if_member(n)

SglibSpec == SglibInit /\ [][SglibNext]_sglibVars

-----------------------------------------------------------------------------
(* Properties.                                                             *)

\* Whatever was added and deleted, the red-black tree passes the check of the
\* library, and the search and the three iterators find its elements.
RbTreeConsistent ==
  uses = "rbtree" =>
    /\ ~IsRed(tree)
    /\ Cardinality(ConsistencyCheck(tree)) = 1
    /\ \A n \in TreeNumber : FindMember(tree, n) = (n \in spec)
    /\ LET inorder == it_init(tree, 1) IN \A k \in 2 .. Len(inorder) : inorder[k - 1] < inorder[k]
    /\ \A order \in 0 .. 2 : /\ Len(it_init(tree, order)) = Cardinality(spec)
                           /\ Range(it_init(tree, order)) = spec

=============================================================================
