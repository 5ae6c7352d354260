-------------------------- MODULE CombinatorsProofs --------------------------
(***************************************************************************)
(* A combinator keeps the poll contract if its children do, however often  *)
(* they return PENDING and whenever their wakers are called.  Trees of     *)
(* combinators keep it by applying the theorem at each node.  The state    *)
(* machine owns one child at a time and is PENDING only with a wake        *)
(* arranged, whatever its state functions return.                          *)
(***************************************************************************)
EXTENDS Combinators, StateMachine, TLAPS

(* A child that returned PENDING, and has a wake coming.                   *)
Waits(c) == status[c] = "pending" /\ c \in held \cup woken

(* The node before its first poll, while it waits, and when it is READY.   *)
Fresh == /\ \A c \in Kids : status[c] = "new"
         /\ stage = 0 /\ done = {} /\ out = {}

Waiting ==
  /\ self = "pending"
  /\ \/ kind = "map" /\ Waits("a") /\ out = {}
     \/ kind = "then" /\ stage = 0 /\ Waits("a") /\ status["b"] = "new" /\ out = {}
     \/ kind = "then" /\ stage = 1 /\ status["a"] = "dropped" /\ Waits("b") /\ out = {}
     \/ /\ kind = "join" /\ done # Child /\ out = done
        /\ \A c \in Child : IF c \in done THEN status[c] = "dropped" ELSE Waits(c)
     \/ kind = "select" /\ Waits("a") /\ Waits("b") /\ out = {}

Finished ==
  /\ self = "ready"
  /\ \/ kind = "map" /\ status["a"] = "ready" /\ out = {"mapped"}
     \/ /\ kind = "then" /\ stage = 1 /\ out = {"b"}
        /\ status["a"] = "dropped" /\ status["b"] = "ready"
     \/ kind = "join" /\ done = Child /\ out = Child /\ \A c \in Child : status[c] = "dropped"
     \/ /\ kind = "select"
        /\ \/ out = {"a"} /\ status["a"] = "ready" /\ status["b"] \in Live
           \/ out = {"b"} /\ status["b"] = "ready" /\ status["a"] = "pending"

Released == \A c \in Kids : status[c] = "dropped"

NodeInv ==
  /\ TypeOK
  /\ kind = "map" => status["b"] = "none"
  /\ \A c \in held : status[c] = "pending"
  /\ \/ self \in {"none", "new"} /\ Fresh
     \/ Waiting
     \/ Finished
     \/ self \in {"none", "dropped"} /\ Released

(* The children a node that is dropped still owns.                         *)
Owned ==
  CASE kind = "then" /\ stage = 1 -> {"b"}
    [] kind = "join" -> Child \ done
    [] OTHER -> Kids

-----------------------------------------------------------------------------
(* The four constructors and the four drops have the same shape.           *)
LEMMA NextShape ==
  ASSUME TypeOK
  PROVE  /\ Next <=> Construct \/ Poll \/ Drop \/ \E c \in Child : Wake(c)
         /\ Drop <=> DropNode(Owned)
<1>1. kind \in Kind /\ stage \in {0, 1}
  BY DEF TypeOK
<1>2. Drop <=> DropNode(Owned)
  <2>1. CASE kind = "map"
    BY <2>1 DEF Drop, MapDrop, ThenDrop, JoinDrop, SelectDrop, Owned, Kids
  <2>2. CASE kind = "then"
    BY <1>1, <2>2 DEF Drop, MapDrop, ThenDrop, JoinDrop, SelectDrop, Owned, Kids
  <2>3. CASE kind = "join"
    BY <2>3 DEF Drop, MapDrop, ThenDrop, JoinDrop, SelectDrop, Owned, Kids
  <2>4. CASE kind = "select"
    BY <2>4 DEF Drop, MapDrop, ThenDrop, JoinDrop, SelectDrop, Owned, Kids
  <2> QED BY <1>1, <2>1, <2>2, <2>3, <2>4 DEF Kind
<1> QED BY <1>1, <1>2 DEF Next, MapIn, ThenIn, Join2In, Select2In, Kind

LEMMA InitInv == Init => NodeInv
  BY CombinatorAssumption
  DEF Init, NodeInv, TypeOK, Fresh, Kids, Child, Kind

(* The common part of the four polls.                                      *)
LEMMA PollChildrenType ==
  ASSUME TypeOK, NEW P \in SUBSET Child, NEW R \in SUBSET P, NEW D \in SUBSET R,
         NEW W \in SUBSET (Child \cup {"mapped"}),
         PollChildren(P, R, D, W), kind' = kind,
         self' \in {"pending", "ready"}, stage' \in {0, 1}, done' \subseteq Child
  PROVE  TypeOK'
<1>1. status' \in [Child -> {"none", "new", "pending", "ready", "dropped", "broken"}]
  BY DEF PollChildren, TypeOK
<1>2. held' \subseteq Child /\ woken' \subseteq Child /\ calls' \subseteq Child
      /\ out' \subseteq Child \cup {"mapped"}
  BY DEF PollChildren, TypeOK
<1>3. pends' \in [Child -> 0 .. MaxPends]
  <2>1. \A c \in P \ R : pends[c] + 1 \in 0 .. MaxPends
    BY CombinatorAssumption DEF PollChildren, TypeOK
  <2> QED BY <2>1 DEF PollChildren, TypeOK
<1> QED BY <1>1, <1>2, <1>3 DEF TypeOK

(* What a poll leaves of each child, when only live children are polled.   *)
Effect(P, R, D, W) ==
  /\ \A c \in Child : c \notin P => status'[c] = status[c]
  /\ \A c \in P \ R : status'[c] = "pending" /\ c \in held' \cup woken'
  /\ \A c \in R : status'[c] = IF c \in D THEN "dropped" ELSE "ready"
  /\ \A c \in held' : status'[c] = "pending"
  /\ calls' = P /\ out' = out \cup W

LEMMA PollChildrenEffect ==
  ASSUME NodeInv, NEW P \in SUBSET Child, NEW R \in SUBSET P, NEW D \in SUBSET R,
         NEW W, PollChildren(P, R, D, W), \A c \in P : status[c] \in Live
  PROVE  Effect(P, R, D, W)
<1>1. \A c \in Child : status'[c] = IF c \notin P THEN status[c]
                                    ELSE IF c \notin R THEN "pending"
                                    ELSE IF c \in D THEN "dropped" ELSE "ready"
  BY DEF PollChildren
<1>2. PICK h \in SUBSET (P \ R), k \in SUBSET P :
        /\ P \ R \subseteq h \cup k
        /\ held' = (held \ P) \cup h
        /\ woken' = (woken \ P) \cup k
  BY DEF PollChildren
<1>3. held \subseteq Child /\ \A c \in held : status[c] = "pending"
  BY DEF NodeInv, TypeOK
<1> QED BY <1>1, <1>2, <1>3 DEF PollChildren, Effect

(* A node that is polled is fresh or waiting.                              *)
LEMMA PolledState ==
  ASSUME NodeInv, Poll
  PROVE  /\ kind' = kind /\ Kids' = Kids
         /\ (self = "new" /\ Fresh) \/ Waiting
  BY DEF NodeInv, Poll, Finished, Live, Kids, Released

LEMMA MapPollInv ==
  ASSUME NodeInv, Poll, MapPoll
  PROVE  NodeInv'
<1>1. PICK R \in SUBSET {"a"} :
        /\ PollChildren({"a"}, R, {}, IF R = {"a"} THEN {"mapped"} ELSE {})
        /\ Return(R = {"a"})
  BY DEF MapPoll
<1>2. PICK W \in SUBSET (Child \cup {"mapped"}) : W = IF R = {"a"} THEN {"mapped"} ELSE {}
  OBVIOUS
<1>3. PollChildren({"a"}, R, {}, W)
  BY <1>1, <1>2
<1>4. /\ kind = "map" /\ UNCHANGED <<kind, stage, done>>
      /\ self' = IF R = {"a"} THEN "ready" ELSE "pending"
  BY <1>1 DEF MapPoll, Return, Poll
<1>5. status["a"] \in Live /\ out = {}
  BY <1>4, PolledState DEF Waiting, Fresh, Waits, Kids, Live
<1>6. TypeOK'
  BY <1>3, <1>4, PollChildrenType DEF NodeInv, Child, TypeOK
<1>7. Effect({"a"}, R, {}, W)
  BY <1>3, <1>5, PollChildrenEffect DEF Child
<1>8. CASE R = {}
  <2>1. Waiting'
    BY <1>2, <1>4, <1>5, <1>7, <1>8 DEF Waiting, Waits, Effect
  <2> QED BY <1>4, <1>6, <1>7, <2>1 DEF NodeInv, Effect, Child
<1>9. CASE R = {"a"}
  <2>1. Finished'
    BY <1>2, <1>4, <1>5, <1>7, <1>9 DEF Finished, Effect
  <2> QED BY <1>4, <1>6, <1>7, <2>1 DEF NodeInv, Effect, Child
<1> QED BY <1>8, <1>9

LEMMA ThenPollInv ==
  ASSUME NodeInv, Poll, ThenPoll
  PROVE  NodeInv'
<1>1. PICK R \in SUBSET Child, P \in SUBSET Child :
        /\ P = IF stage = 1 THEN {"b"} ELSE IF "a" \in R THEN {"a", "b"} ELSE {"a"}
        /\ R \subseteq P
        /\ PollChildren(P, R, R \cap {"a"}, R \cap {"b"})
        /\ stage' = IF "a" \in R THEN 1 ELSE stage
        /\ Return("b" \in R)
  BY DEF ThenPoll, Child
<1>2. /\ kind = "then" /\ UNCHANGED <<kind, done>>
      /\ self' = IF "b" \in R THEN "ready" ELSE "pending"
  BY <1>1 DEF ThenPoll, Return, Poll
<1>3. /\ out = {} /\ stage \in {0, 1}
      /\ stage = 0 => status["a"] \in Live /\ status["b"] = "new"
      /\ stage = 1 => status["a"] = "dropped" /\ status["b"] = "pending"
  BY <1>2, PolledState DEF Waiting, Fresh, Waits, Kids, Live, Child
<1>4. \A c \in P : status[c] \in Live
  BY <1>1, <1>3 DEF Live
<1>5. R \cap {"a"} \in SUBSET R /\ R \cap {"b"} \in SUBSET (Child \cup {"mapped"})
  BY <1>1
<1>6. TypeOK'
  BY <1>1, <1>2, <1>3, <1>5, PollChildrenType DEF NodeInv, TypeOK
<1>7. Effect(P, R, R \cap {"a"}, R \cap {"b"})
  BY <1>1, <1>4, <1>5, PollChildrenEffect
<1>8. CASE "b" \in R
  <2>1. Finished'
    BY <1>1, <1>2, <1>3, <1>7, <1>8 DEF Finished, Effect, Child
  <2> QED BY <1>2, <1>6, <1>7, <2>1 DEF NodeInv, Effect
<1>9. CASE "b" \notin R
  <2>1. Waiting'
    BY <1>1, <1>2, <1>3, <1>7, <1>9 DEF Waiting, Waits, Effect, Child
  <2> QED BY <1>2, <1>6, <1>7, <2>1 DEF NodeInv, Effect
<1> QED BY <1>8, <1>9

LEMMA JoinPollInv ==
  ASSUME NodeInv, Poll, JoinPoll
  PROVE  NodeInv'
<1>1. PICK R \in SUBSET (Child \ done), P \in SUBSET Child :
        /\ P = Child \ done
        /\ PollChildren(P, R, R, R)
        /\ done' = done \cup R
        /\ Return(done' = Child)
  BY DEF JoinPoll
<1>2. /\ kind = "join" /\ UNCHANGED <<kind, stage>>
      /\ self' = IF done' = Child THEN "ready" ELSE "pending"
  BY <1>1 DEF JoinPoll, Return, Poll
<1>3. /\ done \subseteq Child /\ out = done
      /\ \A c \in Child : IF c \in done THEN status[c] = "dropped" ELSE status[c] \in Live
  BY <1>2, PolledState DEF Waiting, Fresh, Waits, Kids, Live, NodeInv, TypeOK
<1>4. R \in SUBSET P /\ R \in SUBSET R /\ R \in SUBSET (Child \cup {"mapped"})
      /\ \A c \in P : status[c] \in Live
  BY <1>1, <1>3
<1>5. TypeOK'
  BY <1>1, <1>2, <1>3, <1>4, PollChildrenType DEF NodeInv, TypeOK
<1>6. Effect(P, R, R, R)
  BY <1>1, <1>4, PollChildrenEffect
<1>7. \A c \in Child : IF c \in done' THEN status'[c] = "dropped"
                       ELSE status'[c] = "pending" /\ c \in held' \cup woken'
  BY <1>1, <1>3, <1>6 DEF Effect
<1>8. CASE done' = Child
  <2>1. Finished'
    BY <1>1, <1>2, <1>3, <1>6, <1>7, <1>8 DEF Finished, Effect
  <2> QED BY <1>2, <1>5, <1>6, <2>1 DEF NodeInv, Effect
<1>9. CASE done' # Child
  <2>1. Waiting'
    BY <1>1, <1>2, <1>3, <1>6, <1>7, <1>9 DEF Waiting, Waits, Effect
  <2> QED BY <1>2, <1>5, <1>6, <2>1 DEF NodeInv, Effect
<1> QED BY <1>8, <1>9

LEMMA SelectPollInv ==
  ASSUME NodeInv, Poll, SelectPoll
  PROVE  NodeInv'
<1>1. PICK R \in {{}, {"a"}, {"b"}}, P \in SUBSET Child :
        /\ P = IF R = {"a"} THEN {"a"} ELSE Child
        /\ PollChildren(P, R, {}, R)
        /\ Return(R # {})
  BY DEF SelectPoll, Child
<1>2. /\ kind = "select" /\ UNCHANGED <<kind, stage, done>>
      /\ self' = IF R # {} THEN "ready" ELSE "pending"
  BY <1>1 DEF SelectPoll, Return, Poll
<1>3. out = {} /\ \A c \in Child : status[c] \in Live
  BY <1>2, PolledState DEF Waiting, Fresh, Waits, Kids, Live, Child
<1>4. R \in SUBSET P /\ {} \in SUBSET R /\ R \in SUBSET (Child \cup {"mapped"})
  BY <1>1 DEF Child
<1>5. TypeOK'
  BY <1>1, <1>2, <1>4, PollChildrenType DEF NodeInv, TypeOK
<1>6. Effect(P, R, {}, R)
  BY <1>1, <1>3, <1>4, PollChildrenEffect
<1>7. CASE R # {}
  <2>1. Finished'
    BY <1>1, <1>2, <1>3, <1>6, <1>7 DEF Finished, Effect, Child
  <2> QED BY <1>2, <1>5, <1>6, <2>1 DEF NodeInv, Effect
<1>8. CASE R = {}
  <2>1. Waiting'
    BY <1>1, <1>2, <1>3, <1>6, <1>8 DEF Waiting, Waits, Effect, Child
  <2> QED BY <1>2, <1>5, <1>6, <2>1 DEF NodeInv, Effect
<1> QED BY <1>7, <1>8

LEMMA ConstructInv ==
  ASSUME NodeInv, Construct
  PROVE  NodeInv'
<1>1. UNCHANGED <<kind, stage, done, woken, calls, pends, out>> /\ Kids' = Kids
  BY DEF Construct, Kids
<1>2. self = "none" /\ \A c \in Kids : status[c] = "new"
  BY DEF Construct
<1>3. Fresh /\ held = {}
  BY <1>2 DEF NodeInv, Fresh, Waiting, Finished, Released, Kids, Child, TypeOK
<1>4. CASE self' = "new" /\ UNCHANGED <<status, held>>
  BY <1>1, <1>3, <1>4 DEF NodeInv, TypeOK, Fresh
<1>5. CASE self' = "none" /\ DropChildren(Kids)
  <2>1. held' = {} /\ \A c \in Child : status'[c] = IF c \in Kids THEN "dropped" ELSE status[c]
    BY <1>2, <1>3, <1>5 DEF DropChildren
  <2>2. TypeOK'
    BY <1>1, <1>5, <2>1 DEF NodeInv, TypeOK, DropChildren
  <2>3. Released'
    BY <1>1, <2>1 DEF Released, Kids, Child
  <2> QED BY <1>1, <1>5, <2>1, <2>2, <2>3 DEF NodeInv, Kids, Child
<1> QED BY <1>4, <1>5 DEF Construct

(* What the drop functions release is what the node still owns.            *)
LEMMA DropInv ==
  ASSUME NodeInv, Drop
  PROVE  NodeInv' /\ held' = {}
<1>0. DropNode(Owned) /\ kind \in Kind
  BY NextShape DEF NodeInv, TypeOK
<1>1. UNCHANGED <<kind, stage, done, woken, calls, pends, out>> /\ Kids' = Kids
      /\ self' = "dropped" /\ DropChildren(Owned) /\ Owned \subseteq Kids
  BY <1>0 DEF DropNode, Kids, Owned, Child
<1>2. /\ \A c \in Owned : status[c] \in {"new", "pending", "ready"}
      /\ \A c \in Kids \ Owned : status[c] = "dropped"
  <2>1. (self = "new" /\ Fresh) \/ Waiting \/ Finished
    BY <1>0 DEF NodeInv, DropNode, Released
  <2>2. CASE Fresh
    BY <2>2 DEF Fresh, Owned, Kids, Child, NodeInv, TypeOK
  <2>3. CASE Waiting
    BY <2>3 DEF Waiting, Waits, Owned, Kids, Child, NodeInv, TypeOK, Kind
  <2>4. CASE Finished
    BY <2>4 DEF Finished, Owned, Kids, Child, NodeInv, TypeOK, Kind, Live
  <2> QED BY <2>1, <2>2, <2>3, <2>4
<1>3. \A c \in Child : status'[c] = IF c \in Owned THEN "dropped" ELSE status[c]
  BY <1>1, <1>2 DEF DropChildren
<1>4. held' = held \ Owned
  BY <1>1 DEF DropChildren
<1>5. TypeOK'
  BY <1>1, <1>4 DEF NodeInv, TypeOK, DropChildren
<1>6. Released'
  BY <1>1, <1>2, <1>3 DEF Released, Kids, Child
<1>7. held' = {}
  <2>1. ASSUME NEW c \in held' PROVE FALSE
    <3>1. c \in held /\ c \notin Owned /\ c \in Child /\ status[c] = "pending"
      BY <1>4, <2>1 DEF NodeInv, TypeOK
    <3>2. c \notin Kids
      BY <1>2, <3>1
    <3> QED BY <3>1, <3>2 DEF Kids, NodeInv, Child
  <2> QED BY <2>1
<1>8. kind' = "map" => status'["b"] = "none"
  BY <1>1, <1>3 DEF NodeInv, Kids, Child
<1> QED BY <1>1, <1>5, <1>6, <1>7, <1>8 DEF NodeInv

LEMMA WakeInv ==
  ASSUME NodeInv, NEW c \in Child, Wake(c)
  PROVE  NodeInv'
<1>1. UNCHANGED <<kind, self, stage, done, status, calls, pends, out>> /\ Kids' = Kids
      /\ woken' = woken \cup {c} /\ held' \in {held, held \ {c}}
  BY DEF Wake, Kids
<1>2. TypeOK'
  BY <1>1 DEF NodeInv, TypeOK
<1>3. \A d \in Child : Waits(d) => Waits(d)'
  BY <1>1 DEF Waits
<1>4. Waiting => Waiting'
  BY <1>1, <1>3 DEF Waiting, Child
<1>5. (Fresh => Fresh') /\ (Finished => Finished') /\ (Released => Released')
  BY <1>1 DEF Fresh, Finished, Released
<1> QED BY <1>1, <1>2, <1>4, <1>5 DEF NodeInv

LEMMA StepInv == NodeInv /\ [Next]_vars => NodeInv'
<1>1. ASSUME NodeInv, UNCHANGED vars PROVE NodeInv'
  BY <1>1 DEF vars, NodeInv, TypeOK, Fresh, Waiting, Waits, Finished, Released, Kids
<1>2. ASSUME NodeInv, Poll PROVE NodeInv'
  BY <1>2, MapPollInv, ThenPollInv, JoinPollInv, SelectPollInv DEF Poll
<1> QED BY <1>1, <1>2, NextShape, ConstructInv, DropInv, WakeInv DEF NodeInv

(* Every child is used as its contract asks and released exactly once      *)
(* (combinators.c:26-39).                                                  *)
THEOREM ChildrenOwnedTheorem == Safe => []ChildrenOwned
<1>1. NodeInv => ChildrenRespected
  BY DEF NodeInv, ChildrenRespected, Fresh, Waiting, Waits, Finished, Released,
         Kids, Child, Kind, Live, TypeOK
<1>2. NodeInv => ChildrenReleased
  BY DEF NodeInv, ChildrenReleased, Fresh, Waiting, Finished, Released, Kids, Child, TypeOK
<1>3. NodeInv => ChildrenOwned
  BY <1>1, <1>2 DEF NodeInv, ChildrenOwned
<1> QED BY <1>3, InitInv, StepInv, PTL DEF Safe

(* The output is what the constructor promises (combinators.c:41-45).      *)
THEOREM OutputRightTheorem == Safe => []OutputRight
<1>1. NodeInv => OutputRight
  BY DEF NodeInv, OutputRight, Fresh, Waiting, Finished, Released, Child
<1> QED BY <1>1, InitInv, StepInv, PTL DEF Safe

(* No wake-up of a child stops at the node (combinators.c:31-34).          *)
THEOREM WakeReachesChildTheorem == Safe => WakeReachesChild
<1>1. NodeInv /\ [Next]_vars
        => [Poll => self' = "ready" \/ {c \in woken : status[c] = "pending"} \subseteq calls']_vars
  <2> SUFFICES ASSUME NodeInv, Poll, NEW c \in woken, status[c] = "pending"
               PROVE  self' = "ready" \/ c \in calls'
    OBVIOUS
  <2>1. c \in Child
    BY DEF NodeInv, TypeOK
  <2>2. /\ c \in Kids
        /\ kind = "then" => c = IF stage = 1 THEN "b" ELSE "a"
        /\ kind = "join" => c \notin done
    BY <2>1, PolledState DEF Fresh, Waiting, Kids, Child, NodeInv
  <2>3. CASE MapPoll
    BY <2>2, <2>3 DEF MapPoll, PollChildren, Kids
  <2>4. CASE ThenPoll
    BY <2>2, <2>4 DEF ThenPoll, PollChildren
  <2>5. CASE JoinPoll
    BY <2>1, <2>2, <2>5 DEF JoinPoll, PollChildren
  <2>6. CASE SelectPoll
    BY <2>1, <2>6 DEF SelectPoll, PollChildren, Return
  <2> QED BY <2>3, <2>4, <2>5, <2>6 DEF Poll
<1> QED BY <1>1, InitInv, StepInv, PTL DEF Safe, WakeReachesChild

(* The node keeps the contract it demands of its children: it is PENDING   *)
(* only with a wake arranged, and leaves no waker behind (future.c:17-28). *)
THEOREM KeepsContractTheorem == Safe => KeepsContract
<1> DEFINE S == Node!Construct \/ Node!Poll \/ Node!Wake \/ Node!Drop
<1>1. Init => Node!Init
  BY DEF Init, Node!Init
<1>2. NodeInv /\ NodeInv' /\ [Next]_vars => [S]_<<self, held # {}, woken # {}>>
  <2> SUFFICES ASSUME NodeInv, NodeInv', [Next]_vars
               PROVE  S \/ UNCHANGED <<self, held # {}, woken # {}>>
    OBVIOUS
  <2>1. CASE Construct
    <3>1. self = "none" /\ self' \in {"none", "new"} /\ woken' = woken
      BY <2>1 DEF Construct
    <3>2. held = {}
      BY <2>1 DEF Construct, NodeInv, Fresh, Waiting, Finished, Released, Kids, Child, TypeOK
    <3>3. held' = {}
      BY <2>1, <3>2 DEF Construct, DropChildren
    <3> QED BY <3>1, <3>2, <3>3 DEF Node!Construct
  <2>2. CASE Poll
    <3>1. self \in {"new", "pending"} /\ self' \in {"pending", "ready"}
      BY <2>2 DEF Poll, MapPoll, ThenPoll, JoinPoll, SelectPoll, Return, Live
    <3>2. self' = "pending" => Waiting'
      BY DEF NodeInv, Fresh, Finished
    <3>3. Waiting' => (held' # {} \/ woken' # {})
      BY DEF Waiting, Waits, Child, NodeInv, TypeOK
    <3> QED BY <3>1, <3>2, <3>3 DEF Node!Poll
  <2>3. ASSUME NEW c \in Child, Wake(c) PROVE S
    BY <2>3 DEF Wake, Node!Wake
  <2>4. CASE Drop
    BY <2>4, DropInv, NextShape DEF DropNode, NodeInv, Node!Drop
  <2>5. CASE UNCHANGED vars
    BY <2>5 DEF vars
  <2> QED BY <2>1, <2>2, <2>3, <2>4, <2>5, NextShape DEF NodeInv
<1>3. Node!Spec <=> Node!Init /\ [][S]_<<self, held # {}, woken # {}>>
  BY DEF Node!Spec
<1> HIDE DEF S
<1>4. Safe => Node!Init /\ [][S]_<<self, held # {}, woken # {}>>
  BY <1>1, <1>2, InitInv, StepInv, PTL DEF Safe
<1> QED BY <1>3, <1>4 DEF KeepsContract

-----------------------------------------------------------------------------
(* The state machine: while have_cur is set its child may be polled, and a *)
(* PENDING machine is inside a state whose child has a wake coming.        *)
MachineInv ==
  /\ MachineSound
  /\ phase = "polling" => self \in Live
  /\ self = "ready" => ~haveCur
  /\ haveCur /\ self # "dropped" => state < NStates /\ (cur # Null => status[cur] \in Live)
  /\ self = "pending" /\ phase = "idle" => haveCur /\ cur # Null /\ cur \in held \cup woken

LEMMA MachineInitInv == SmInit => MachineInv
<1> SUFFICES ASSUME SmInit PROVE MachineInv
  OBVIOUS
<1>1. 0 \in 0 .. NStates
  BY MachineAssumption
<1>2. SmTypeOK
  BY <1>1 DEF SmInit, SmTypeOK
<1> QED BY <1>2 DEF SmInit, MachineInv, MachineSound, ChildrenRespected, OwnsOneChild, Live

LEMMA MachineStepInv == MachineInv /\ [SmNext]_smVars => MachineInv'
<1> SUFFICES ASSUME MachineInv, [SmNext]_smVars PROVE MachineInv'
  OBVIOUS
<1> USE MachineAssumption
    DEF MachineInv, MachineSound, SmTypeOK, ChildrenRespected, OwnsOneChild, Live
<1>1. CASE PollBegin
  BY <1>1 DEF PollBegin
<1>2. CASE PollDone
  BY <1>2 DEF PollDone
<1>3. CASE EnterState
  BY <1>3 DEF EnterState
<1>4. CASE TakeEdge
  BY <1>4 DEF TakeEdge
<1>5. CASE ChildPending
  BY <1>5 DEF ChildPending, PolledTo
<1>6. CASE ChildReady
  BY <1>6 DEF ChildReady, PolledTo
<1>7. CASE SmDrop
  BY <1>7 DEF SmDrop
<1>8. ASSUME NEW c \in Leaf, SmWake(c) PROVE MachineInv'
  BY <1>8 DEF SmWake
<1>9. CASE UNCHANGED smVars
  BY <1>9 DEF smVars
<1> QED BY <1>1, <1>2, <1>3, <1>4, <1>5, <1>6, <1>7, <1>8, <1>9 DEF SmNext

(* The machine owns at most the child have_cur speaks of, polls and drops  *)
(* it as the contract asks, and has dropped what it built before           *)
(* (combinators.c:328-404), for any graph of states.                       *)
THEOREM MachineSoundTheorem == SmSafe => []MachineSound
<1>1. MachineInv => MachineSound
  BY DEF MachineInv
<1> QED BY <1>1, MachineInitInv, MachineStepInv, PTL DEF SmSafe

(* A machine that returned PENDING has a child that waits with a wake      *)
(* coming: no edge between two states loses the task (combinators.c:370-396)*)
THEOREM MachinePendingTheorem == SmSafe => []PendingIsArranged
<1>1. MachineInv => PendingIsArranged
  BY DEF MachineInv, PendingIsArranged
<1> QED BY <1>1, MachineInitInv, MachineStepInv, PTL DEF SmSafe
=============================================================================
