----------------------------- MODULE MCIoDriver -----------------------------
(***************************************************************************)
(* Small instances of IoDriver.  Two fds and one event per epoll_wait make *)
(* the event list overflow; two futures wait one after the other in the    *)
(* same slot, for one fd in both directions, or for two fds.               *)
(***************************************************************************)
EXTENDS IoDriver

CONSTANTS d1, d2, f1, f2

(* The second future's target beside the first one's, up to renaming.      *)
Pairs == {[f \in {f1, f2} |-> IF f = f1 THEN <<d1, "IN">> ELSE p] :
             p \in {<<d1, "IN">>, <<d1, "OUT">>, <<d2, "OUT">>}}
=============================================================================
