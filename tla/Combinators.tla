----------------------------- MODULE Combinators -----------------------------
(***************************************************************************)
(* cust_execution/src/combinators.c: map, then, join2 and select2.  The    *)
(* module is one combinator node, its owner, and its children.  A child is *)
(* any future that keeps FutureContract: what each poll returns, which     *)
(* wakers are held and when they are called is chosen freely.  The node is *)
(* shown to keep the same contract, so trees of nodes keep it too.         *)
(***************************************************************************)
EXTENDS Children

CONSTANT MaxPends   \* bound: how often a child may return PENDING

ASSUME CombinatorAssumption == MaxPends \in Nat

Child == {"a", "b"}
Kind  == {"map", "then", "join", "select"}

VARIABLES
  kind,  \* which constructor built the node
  stage, \* then_box.stage
  done,  \* join_box.a_done, b_done
  calls, \* the children polled by the node's last poll
  pends, \* how often each child returned PENDING
  out    \* what the children and fn wrote to the caller's out

vars == <<kind, self, stage, done, status, held, woken, calls, pends, out>>

Kids == IF kind = "map" THEN {"a"} ELSE Child

TypeOK ==
  /\ kind \in Kind
  /\ self \in {"none", "new", "pending", "ready", "dropped"}
  /\ stage \in {0, 1}
  /\ done \subseteq Child
  /\ status \in [Child -> {"none", "new", "pending", "ready", "dropped", "broken"}]
  /\ held \subseteq Child /\ woken \subseteq Child /\ calls \subseteq Child
  /\ pends \in [Child -> 0 .. MaxPends]
  /\ out \subseteq Child \cup {"mapped"}

Init ==
  /\ kind \in Kind
  /\ self = "none"
  /\ stage = 0
  /\ done = {}
  /\ status = [c \in Child |-> IF c \in Kids THEN "new" ELSE "none"]
  /\ held = {} /\ woken = {} /\ calls = {}
  /\ pends = [c \in Child |-> 0]
  /\ out = {}

-----------------------------------------------------------------------------
(* cexec_future_drop of the children in D.                                 *)
DropChildren(D) ==
  /\ status' = [c \in Child |->
                 IF c \notin D THEN status[c]
                 ELSE IF status[c] \in {"new", "pending", "ready"} THEN "dropped"
                 ELSE "broken"]
  /\ held' = held \ D

(* The constructor takes the children over, or drops them when it cannot   *)
(* allocate its box and returns the null future.                           *)
Construct ==
  /\ self = "none"
  /\ \A c \in Kids : status[c] = "new"
  /\ \/ self' = "new" /\ UNCHANGED <<status, held>>
     \/ self' = "none" /\ DropChildren(Kids)
  /\ UNCHANGED <<kind, stage, done, woken, calls, pends, out>>

MapIn     == kind = "map" /\ Construct
ThenIn    == kind = "then" /\ Construct
Join2In   == kind = "join" /\ Construct
Select2In == kind = "select" /\ Construct

(* The node polls the children in P; those in R are READY, those in D are  *)
(* dropped after that, and those in W write their output to out.           *)
PollChildren(P, R, D, W) ==
  /\ status' = [c \in Child |->
                 IF c \notin P THEN status[c]
                 ELSE IF status[c] \notin Live THEN "broken"
                 ELSE IF c \notin R THEN "pending"
                 ELSE IF c \in D THEN "dropped" ELSE "ready"]
  /\ \E h \in SUBSET (P \ R), k \in SUBSET P :
       /\ P \ R \subseteq h \cup k
       /\ held' = (held \ P) \cup h
       /\ woken' = (woken \ P) \cup k
  /\ \A c \in P \ R : pends[c] < MaxPends
  /\ pends' = [c \in Child |-> IF c \in P \ R THEN pends[c] + 1 ELSE pends[c]]
  /\ calls' = P
  /\ out' = out \cup W

Return(ready) == self' = IF ready THEN "ready" ELSE "pending"

(* map_poll: fn rewrites what the child wrote.                             *)
MapPoll ==
  /\ kind = "map"
  /\ \E R \in SUBSET {"a"} :
       /\ PollChildren({"a"}, R, {}, IF R = {"a"} THEN {"mapped"} ELSE {})
       /\ Return(R = {"a"})
  /\ UNCHANGED <<stage, done>>

(* then_poll: when a is READY, b is started in the same wake-up.           *)
ThenPoll_Bug ==                          \* b waits for another wake-up
  /\ kind = "then"
  /\ \E R \in SUBSET Child :
       LET P == IF stage = 0 THEN {"a"} ELSE {"b"}
       IN  /\ R \subseteq P
           /\ PollChildren(P, R, R \cap {"a"}, R \cap {"b"})
           /\ stage' = IF "a" \in R THEN 1 ELSE stage
           /\ Return("b" \in R)
  /\ UNCHANGED done

ThenPoll ==
  /\ kind = "then"
  /\ \E R \in SUBSET Child :
       LET P == IF stage = 1 THEN {"b"} ELSE IF "a" \in R THEN {"a", "b"} ELSE {"a"}
       IN  /\ R \subseteq P
           /\ PollChildren(P, R, R \cap {"a"}, R \cap {"b"})
           /\ stage' = IF "a" \in R THEN 1 ELSE stage
           /\ Return("b" \in R)
  /\ UNCHANGED done

(* join_poll: the children that are not done; a READY one is dropped.      *)
JoinPoll_Bug ==                          \* the flag of the other child is set
  /\ kind = "join"
  /\ \E R \in SUBSET (Child \ done) :
       /\ PollChildren(Child \ done, R, R, R)
       /\ done' = done \cup (IF R = {"a"} THEN {"b"} ELSE IF R = {"b"} THEN {"a"} ELSE R)
       /\ Return(done' = Child)
  /\ UNCHANGED stage

JoinPoll ==
  /\ kind = "join"
  /\ \E R \in SUBSET (Child \ done) :
       /\ PollChildren(Child \ done, R, R, R)
       /\ done' = done \cup R
       /\ Return(done' = Child)
  /\ UNCHANGED stage

(* select_poll: a first, and b only when a is not READY.                   *)
SelectPoll_Bug ==                        \* b is polled although a has won
  /\ kind = "select"
  /\ \E R \in SUBSET Child :
       /\ PollChildren(Child, R, {}, R)
       /\ Return(R # {})
  /\ UNCHANGED <<stage, done>>

SelectPoll ==
  /\ kind = "select"
  /\ \E R \in {{}, {"a"}, {"b"}} :
       /\ PollChildren(IF R = {"a"} THEN {"a"} ELSE Child, R, {}, R)
       /\ Return(R # {})
  /\ UNCHANGED <<stage, done>>

(* The owner polls a node that has not returned READY.                     *)
Poll ==
  /\ self \in Live
  /\ MapPoll \/ ThenPoll \/ JoinPoll \/ SelectPoll
  /\ UNCHANGED kind

(* The owner drops the node, and the node the children it still owns.      *)
DropNode(D) ==
  /\ self \in {"new", "pending", "ready"}
  /\ self' = "dropped"
  /\ DropChildren(D)
  /\ UNCHANGED <<kind, stage, done, woken, calls, pends, out>>

MapDrop == kind = "map" /\ DropNode({"a"})

ThenDrop_Bug == kind = "then" /\ DropNode(Child)     \* the spent a once more
ThenDrop == kind = "then" /\ DropNode(IF stage = 0 THEN Child ELSE {"b"})

JoinDrop == kind = "join" /\ DropNode(Child \ done)

(* Neither arm was dropped by the polls.                                   *)
SelectDrop == kind = "select" /\ DropNode(Child)

Drop == MapDrop \/ ThenDrop \/ JoinDrop \/ SelectDrop

(* A wake source calls the waker it got through child c.                   *)
Wake(c) ==
  /\ c \in held
  /\ woken' = woken \cup {c}
  /\ held' \in {held, held \ {c}}
  /\ UNCHANGED <<kind, self, stage, done, status, calls, pends, out>>

Next == \/ MapIn \/ ThenIn \/ Join2In \/ Select2In
        \/ Poll \/ Drop \/ \E c \in Child : Wake(c)

Safe == Init /\ [][Next]_vars

(* The executor polls a task that was woken, and wake sources fire.        *)
Spec == /\ Safe
        /\ WF_vars((self = "new" \/ woken # {}) /\ Poll)
        /\ \A c \in Child : WF_vars(Wake(c) /\ c \in woken')

-----------------------------------------------------------------------------
(* Ownership (combinators.c:26-29): once the node is dropped, or could not *)
(* be built, every child has been dropped and no wake source holds one of  *)
(* their wakers.                                                           *)
ChildrenReleased ==
  (self = "dropped" \/ (self = "none" /\ status["a"] # "new"))
     => /\ \A c \in Kids : status[c] = "dropped"
        /\ held = {}

(* The children are used and released as their contract asks               *)
(* (combinators.c:26-39).                                                  *)
ChildrenOwned == TypeOK /\ ChildrenRespected /\ ChildrenReleased

(* When the node is READY, out holds exactly the outputs it promises: fn   *)
(* of the child's, b's, both, or the winner's (combinators.c:41-45).       *)
OutputRight ==
  self = "ready" =>
    \/ kind = "map" /\ out = {"mapped"}
    \/ kind = "then" /\ out = {"b"}
    \/ kind = "join" /\ out = Child
    \/ kind = "select" /\ \E c \in Child : out = {c} /\ status[c] = "ready"

(* A child that called its waker is polled by the node's next poll, unless *)
(* that poll completes the node: no wake-up stops half way down the tree   *)
(* (rule 1 of combinators.c:31-39).                                        *)
WakeReachesChild ==
  [][Poll => self' = "ready" \/ {c \in woken : status[c] = "pending"} \subseteq calls']_vars

(* The node keeps the contract it demands of its children.                 *)
Node == INSTANCE FutureContract WITH status <- self, held <- held # {}, woken <- woken # {}

KeepsContract == Node!Spec

(* If its children complete, the node completes.                           *)
Completes == self = "new" ~> self \in {"ready", "dropped"}
=============================================================================
