------------------------------ MODULE Children ------------------------------
(***************************************************************************)
(* A future of combinators.c and the futures it owns.  Combinators and     *)
(* StateMachine have these variables in common.  A child keeps             *)
(* FutureContract; a call the contract forbids (a poll after READY, a      *)
(* second drop, any use of a dropped child) leaves it "broken".            *)
(***************************************************************************)
EXTENDS Naturals

VARIABLES
  self,   \* the owner, as FutureContract's status
  status, \* the children; "none" before they are built
  held,   \* the children a wake source holds a waker clone for
  woken   \* the children whose waker was called since they were last polled

Live == {"new", "pending"}

(* Rule 2 of combinators.c:31-39 and the contract of future.c:27-28: no    *)
(* child is polled after READY, dropped twice, or used after its drop.     *)
ChildrenRespected == \A c \in DOMAIN status : status[c] # "broken"
=============================================================================
