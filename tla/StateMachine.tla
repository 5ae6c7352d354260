---------------------------- MODULE StateMachine ----------------------------
(***************************************************************************)
(* cust_execution/src/combinators.c:300-434: the data-driven state machine *)
(* future.  Its state functions are the caller's: each may return any      *)
(* fresh child or the null future, and any successor.  The children keep   *)
(* FutureContract.                                                         *)
(***************************************************************************)
EXTENDS Children

CONSTANTS Leaf,      \* the futures the state functions return
          Null,      \* the null future
          NStates    \* sm_box.nstates; as a state it stands for cexec_sm_done()

ASSUME MachineAssumption == NStates \in Nat /\ Null \notin Leaf

VARIABLES
  phase,   \* "idle", or "polling" inside sm_poll
  state,   \* sm_box.state
  haveCur, \* sm_box.have_cur
  cur,     \* sm_box.cur
  curNext  \* sm_box.cur_next

smVars == <<self, phase, state, haveCur, cur, curNext, status, held, woken>>

SmTypeOK ==
  /\ self \in {"new", "pending", "ready", "dropped"}
  /\ phase \in {"idle", "polling"}
  /\ state \in 0 .. NStates /\ curNext \in 0 .. NStates
  /\ haveCur \in BOOLEAN
  /\ cur \in Leaf \cup {Null}
  /\ status \in [Leaf -> {"none", "new", "pending", "ready", "dropped", "broken"}]
  /\ held \subseteq Leaf /\ woken \subseteq Leaf

(* cexec_sm_in, with any start state.                                      *)
SmInit ==
  /\ self = "new"
  /\ phase = "idle"
  /\ state \in 0 .. NStates
  /\ haveCur = FALSE
  /\ cur = Null
  /\ curNext = 0
  /\ status = [c \in Leaf |-> "none"]
  /\ held = {} /\ woken = {}

-----------------------------------------------------------------------------
PollBegin ==
  /\ phase = "idle" /\ self \in Live
  /\ phase' = "polling"
  /\ UNCHANGED <<self, state, haveCur, cur, curNext, status, held, woken>>

PollDone ==
  /\ phase = "polling"
  /\ state >= NStates
  /\ self' = "ready"
  /\ phase' = "idle"
  /\ UNCHANGED <<state, haveCur, cur, curNext, status, held, woken>>

(* The state function of the current state builds the next future.  A leaf *)
(* that has been dropped may come back as a new future: a loop has no end. *)
EnterState ==
  /\ phase = "polling"
  /\ state < NStates /\ ~haveCur
  /\ curNext' \in 0 .. NStates
  /\ cur' \in {Null} \cup {c \in Leaf : status[c] \in {"none", "dropped"}}
  /\ haveCur' = TRUE
  /\ status' = [c \in Leaf |-> IF c = cur' THEN "new" ELSE status[c]]
  /\ UNCHANGED <<self, phase, state, held, woken>>

(* A no-I/O state: the edge is taken at once.                              *)
TakeEdge ==
  /\ phase = "polling"
  /\ state < NStates /\ haveCur /\ cur = Null
  /\ haveCur' = FALSE
  /\ state' = curNext
  /\ UNCHANGED <<self, phase, cur, curNext, status, held, woken>>

PolledTo(s) == [status EXCEPT ![cur] = IF @ \in Live THEN s ELSE "broken"]

(* The child is PENDING, and so is the machine.                            *)
ChildPending ==
  /\ phase = "polling"
  /\ state < NStates /\ haveCur /\ cur # Null
  /\ status' = PolledTo("pending")
  /\ \E h, k \in SUBSET {cur} : /\ h \cup k # {}
                                /\ held' = (held \ {cur}) \cup h
                                /\ woken' = (woken \ {cur}) \cup k
  /\ self' = "pending"
  /\ phase' = "idle"
  /\ UNCHANGED <<state, haveCur, cur, curNext>>

(* The child is READY: dropped, and on to the successor in this wake-up.   *)
ChildReady_Yield ==                      \* returns PENDING between two states
  /\ phase = "polling"
  /\ state < NStates /\ haveCur /\ cur # Null
  /\ status' = PolledTo("dropped")
  /\ held' = held \ {cur} /\ woken' = woken \ {cur}
  /\ haveCur' = FALSE
  /\ state' = curNext
  /\ self' = "pending" /\ phase' = "idle"
  /\ UNCHANGED <<cur, curNext>>

ChildReady ==
  /\ phase = "polling"
  /\ state < NStates /\ haveCur /\ cur # Null
  /\ status' = PolledTo("dropped")
  /\ held' = held \ {cur} /\ woken' = woken \ {cur}
  /\ haveCur' = FALSE
  /\ state' = curNext
  /\ UNCHANGED <<self, phase, cur, curNext>>

SmDrop_Bug ==                            \* drops what is in cur, done or not
  /\ phase = "idle" /\ self # "dropped"
  /\ self' = "dropped"
  /\ IF cur # Null
     THEN /\ status' = [status EXCEPT ![cur] = IF @ = "dropped" THEN "broken" ELSE "dropped"]
          /\ held' = held \ {cur}
     ELSE UNCHANGED <<status, held>>
  /\ UNCHANGED <<phase, state, haveCur, cur, curNext, woken>>

SmDrop ==
  /\ phase = "idle" /\ self # "dropped"
  /\ self' = "dropped"
  /\ IF haveCur /\ cur # Null
     THEN /\ status' = [status EXCEPT ![cur] = IF @ = "dropped" THEN "broken" ELSE "dropped"]
          /\ held' = held \ {cur}
     ELSE UNCHANGED <<status, held>>
  /\ UNCHANGED <<phase, state, haveCur, cur, curNext, woken>>

(* A wake source calls the waker it got through child c.                   *)
SmWake(c) ==
  /\ phase = "idle"
  /\ c \in held
  /\ woken' = woken \cup {c}
  /\ held' \in {held, held \ {c}}
  /\ UNCHANGED <<self, phase, state, haveCur, cur, curNext, status>>

SmNext == \/ PollBegin \/ PollDone \/ EnterState \/ TakeEdge
        \/ ChildPending \/ ChildReady \/ SmDrop
        \/ \E c \in Leaf : SmWake(c)

SmSafe == SmInit /\ [][SmNext]_smVars

(* The executor polls a woken task, a poll runs until it returns, wake     *)
(* sources fire, and a child that is polled again and again gets READY.    *)
SmSpec == /\ SmSafe
        /\ WF_smVars((self = "new" \/ woken # {}) /\ PollBegin)
        /\ WF_smVars(PollDone \/ EnterState \/ TakeEdge \/ ChildPending \/ ChildReady)
        /\ SF_smVars(ChildReady)
        /\ \A c \in Leaf : WF_smVars(SmWake(c) /\ c \in woken')

-----------------------------------------------------------------------------
(* The machine owns at most one child, cur, and exactly while have_cur     *)
(* says so; what it built before has been dropped, and nothing is left     *)
(* once it is READY or dropped (combinators.c:328-331, 398-404).           *)
OwnsOneChild ==
  \A c \in Leaf : status[c] \notin {"none", "dropped"} =>
                     haveCur /\ c = cur /\ self \notin {"ready", "dropped"}

(* The machine's books and its children's are right (combinators.c:328-404)*)
MachineSound == SmTypeOK /\ ChildrenRespected /\ OwnsOneChild

(* Between polls the machine keeps the poll contract of future.c:17-28: a  *)
(* PENDING machine has a child that waits and has a wake coming.           *)
PendingIsArranged == self = "pending" /\ phase = "idle" => cur \in held \cup woken

(* A machine whose children complete is never stuck in a state, or between *)
(* two: it completes, is dropped, or enters states again and again, which  *)
(* is what a loop is for (combinators.c:300-330, 389-398).                 *)
SmMovesOn == <>(self \in {"ready", "dropped"}) \/ []<><<EnterState>>_smVars
=============================================================================
