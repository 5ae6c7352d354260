--------------------------- MODULE IntrusiveList ---------------------------
(***************************************************************************)
(* std/src/list.c as its clients see it: a list is the sequence of the     *)
(* elements linked behind its anchor, first element first.  Module         *)
(* ListHead has the pointers.  The preconditions are the source's: an      *)
(* element is added only while it is unlinked and deleted only while it is *)
(* linked.                                                                 *)
(*                                                                         *)
(* (Each *_Bug definition of this project is the definition after it with  *)
(* a plausible mistake; PROJECT.json names, under "mutants", the property  *)
(* that notices it.)                                                       *)
(***************************************************************************)
EXTENDS Naturals, Sequences

Has(q, x) == \E i \in DOMAIN q : q[i] = x

Distinct(q) == \A i, j \in DOMAIN q : q[i] = q[j] => i = j

(* std_list_add_tail before the anchor: push at the back.                  *)
AddTail_Bug(q, x) == <<x>> \o q      \* std_list_add: a stack, not a queue
AddTail(q, x) == Append(q, x)

(* std_list_add_tail before the element at position k, or before the       *)
(* anchor when k = Len(q) + 1.                                             *)
InsertBefore(q, k, x) ==
  [i \in 1 .. (Len(q) + 1) |-> IF i < k THEN q[i] ELSE IF i = k THEN x ELSE q[i - 1]]

(* std_list_del of the first element, and of any element.                  *)
PopFirst(q) == Tail(q)

Unlink(q, x) ==
  LET k == CHOOSE i \in DOMAIN q : q[i] = x
  IN  [i \in 1 .. (Len(q) - 1) |-> IF i < k THEN q[i] ELSE q[i + 1]]
=============================================================================
