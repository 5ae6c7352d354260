------------------------------ MODULE ListHead ------------------------------
(***************************************************************************)
(* std/src/list.c with its pointers: anchors and nodes, each a pair of     *)
(* pointers.  IntrusiveList has the same lists as sequences; members is    *)
(* that view, kept beside the pointers for comparison only.                *)
(***************************************************************************)
EXTENDS IntrusiveList, FiniteSets

CONSTANTS Anchor, Node,
          Nil       \* the null pointer

ASSUME ListAssumption == Anchor \cap Node = {} /\ Nil \notin Anchor \cup Node

VARIABLES next, prev,  \* the two pointers of each list head
          members      \* the elements behind each anchor, first one first

listVars == <<next, prev, members>>

ListPtr == Anchor \cup Node

(* Anchors are initialised; a node need not be before it is added.         *)
ListInit ==
  /\ next = [p \in ListPtr |-> IF p \in Anchor THEN p ELSE Nil]
  /\ prev = next
  /\ members = [h \in Anchor |-> <<>>]

Linked(n) == \E h \in Anchor : Has(members[h], n)

(* list_link: n between p and q.  p and q may be the same.                 *)
Link_Bug(n, p, q) ==                     \* the successor keeps its old prev
  /\ next' = [next EXCEPT ![n] = q, ![p] = n]
  /\ prev' = [prev EXCEPT ![n] = p]
Link(n, p, q) ==
  /\ next' = [next EXCEPT ![n] = q, ![p] = n]
  /\ prev' = [prev EXCEPT ![n] = p, ![q] = n]

(* The place of p in the list of h, 0 for the anchor itself.               *)
Place(h, p) == IF p = h THEN 0 ELSE CHOOSE i \in DOMAIN members[h] : members[h][i] = p

(* std_list_add: behind p, the anchor of list h or a member of it.         *)
ListAdd(n, h, p) ==
  /\ ~Linked(n) /\ (p = h \/ Has(members[h], p))
  /\ Link(n, p, next[p])
  /\ members' = [members EXCEPT ![h] = InsertBefore(@, Place(h, p) + 1, n)]

(* std_list_add_tail: before p; before the anchor is the end of the list.  *)
ListAddTail(n, h, p) ==
  /\ ~Linked(n) /\ (p = h \/ Has(members[h], p))
  /\ Link(n, prev[p], p)
  /\ members' = [members EXCEPT ![h] = IF p = h THEN AddTail(@, n)
                                       ELSE InsertBefore(@, Place(h, p), n)]

(* The neighbours of n are linked to each other, and n gets both pointers. *)
Splice(n, ptr) ==
  /\ next' = [next EXCEPT ![prev[n]] = next[n], ![n] = ptr]
  /\ prev' = [prev EXCEPT ![next[n]] = prev[n], ![n] = ptr]

ListRemove(n, h, ptr) ==
  /\ Has(members[h], n)
  /\ Splice(n, ptr)
  /\ members' = [members EXCEPT ![h] = Unlink(@, n)]

ListDel(n, h) == ListRemove(n, h, Nil)

ListDelInit(n, h) == ListRemove(n, h, n)

(* std_list_init of a node that is in no list.                             *)
NodeInit(n) ==
  /\ ~Linked(n)
  /\ next' = [next EXCEPT ![n] = n] /\ prev' = [prev EXCEPT ![n] = n]
  /\ UNCHANGED members

ListNext ==
  \E n \in Node :
    \/ NodeInit(n)
    \/ \E h \in Anchor :
         \/ ListDel(n, h) \/ ListDelInit(n, h)
         \/ \E p \in ListPtr \ {n} : ListAdd(n, h, p) \/ ListAddTail(n, h, p)

ListSpec == ListInit /\ [][ListNext]_listVars

-----------------------------------------------------------------------------
(* The pointers are the lists (list.c:45-49): walking next from an anchor  *)
(* meets its elements in order and comes back, walking prev meets them     *)
(* backwards, an empty anchor points at itself, and a node outside every   *)
(* list points at nothing or at itself.  Executor, Reactor and IoDriver    *)
(* rest on this when they use IntrusiveList.                               *)
PointersMatch ==
  /\ \A h \in Anchor :
       LET q == members[h]
           ring(i) == IF i \in DOMAIN q THEN q[i] ELSE h
       IN  \A i \in 0 .. Len(q) : next[ring(i)] = ring(i + 1) /\ prev[ring(i + 1)] = ring(i)
  /\ \A n \in Node : ~Linked(n) => next[n] = prev[n] /\ next[n] \in {Nil, n}
=============================================================================
