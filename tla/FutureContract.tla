--------------------------- MODULE FutureContract ---------------------------
(***************************************************************************)
(* What a future promises to whoever owns it, and what it may rely on: the *)
(* poll contract of cust_execution/src/future.c:17-28.  Every combinator   *)
(* assumes it of its children and has to keep it towards its owner.        *)
(***************************************************************************)
VARIABLES
  status, \* "none" (null or not built), "new", "pending", "ready", "dropped"
  held,   \* does a wake source hold a clone of the waker?
  woken   \* was the waker called since the last poll?

TypeOK == /\ status \in {"none", "new", "pending", "ready", "dropped"}
          /\ held \in BOOLEAN /\ woken \in BOOLEAN

Init == status = "none" /\ held = FALSE /\ woken = FALSE

Construct == /\ status = "none"
             /\ status' \in {"none", "new"}
             /\ UNCHANGED <<held, woken>>

(* PENDING only with a wake arranged; READY at most once, as the owner     *)
(* does not poll again.                                                    *)
Poll == /\ status \in {"new", "pending"}
        /\ status' \in {"pending", "ready"}
        /\ held' \in BOOLEAN /\ woken' \in BOOLEAN
        /\ status' = "pending" => held' \/ woken'

Wake == /\ held
        /\ woken' = TRUE
        /\ held' \in BOOLEAN
        /\ UNCHANGED status

(* A dropped future leaves no waker behind.                                *)
Drop == /\ status \in {"new", "pending", "ready"}
        /\ status' = "dropped"
        /\ held' = FALSE
        /\ UNCHANGED woken

Spec == Init /\ [][Construct \/ Poll \/ Wake \/ Drop]_<<status, held, woken>>
=============================================================================
