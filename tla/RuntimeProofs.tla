---------------------------- MODULE RuntimeProofs ----------------------------
(***************************************************************************)
(* The composition of executor, reactor and future trees, for any tasks    *)
(* and durations: the executor never stalls, and every task ends on time.  *)
(* What ReactorProofs shows of the reactor, and ExecutorProofs of the      *)
(* ready queue, is used as it stands, through instances of both.           *)
(***************************************************************************)
EXTENDS Runtime, IntrusiveListProofs, FiniteSetTheorems

XP == INSTANCE ExecutorProofs WITH Slot <- Leaf, HasPark <- TRUE, DriveAfterStall <- FALSE
RP == INSTANCE ReactorProofs WITH Sleep <- Leaf, Start <- 0, Late <- 0, Horizon <- 0

-----------------------------------------------------------------------------
(* The queue and its flags.                                                *)
ReadyOK == /\ ready \in Seq(Task) /\ queued \in [Task -> BOOLEAN] /\ Distinct(ready)
           /\ \A t \in Task : queued[t] <=> Has(ready, t)

(* The executor's part: queue, flags, live boxes and phases agree.         *)
QueueOK ==
  /\ ReadyOK
  /\ status \in [Task -> {"unborn", "live", "freed"}]
  /\ \A t \in Task : Has(ready, t) => status[t] = "live"
  /\ live = Cardinality(X!LiveTasks)
  /\ phase \in {"caller", "drive", "poll"}
  /\ current \in Task \cup {NoTask}
  /\ phase = "poll" <=> current # NoTask
  /\ current # NoTask => status[current] = "live"

(* block_on's report.                                                      *)
RootOK ==
  /\ doneRef \subseteq Task /\ root \in Task \cup {NoTask} /\ done \in BOOLEAN
  /\ root # NoTask => /\ root \in doneRef /\ status[root] # "unborn"
                      /\ status[root] = "freed" => done

TreeTypeOK ==
  /\ op \in [Task -> {"leaf", "then", "join", "select"}]
  /\ kind \in [Leaf -> {"sleep", "yield", "ready"}]
  /\ yielded \subseteq Leaf /\ spent \subseteq Leaf
  /\ pc \in {"none", "poll", "drop", "pending", "ready"} \X Child
  /\ pc[1] = "none" <=> current = NoTask
  /\ begun \in [Task -> Nat \cup {-1}] /\ ended \in [Task -> Nat \cup {-1}]

Leaves(t) == {l \in Leaf : l[1] = t}

(* Only sleeps have timers, only yields a flag, and only then and join     *)
(* drop children on the way; a timer holds its task's waker while it is    *)
(* linked.                                                                 *)
LeafOK ==
  /\ slot \in [Leaf -> Task \cup {NoTask}]
  /\ \A l \in Leaf :
       /\ kind[l] # "sleep" => ~armed[l] /\ state[l] = "pending"
       /\ kind[l] # "yield" => l \notin yielded
       /\ l \in spent => \/ op[l[1]] = "join"
                         \/ op[l[1]] = "then" /\ l[2] = "a"
       /\ l \in spent /\ kind[l] = "sleep" => state[l] = "dropped"
       /\ slot[l] = IF R!Linked(l) THEN l[1] ELSE NoTask

(* Not polled yet; polled and not READY yet; and with a wake arranged.     *)
Fresh(l) == state[l] = "pending" /\ ~armed[l] /\ l \notin yielded /\ l \notin spent

Polled(l) == \/ kind[l] = "sleep" /\ state[l] = "pending" /\ armed[l]
             \/ kind[l] = "yield" /\ l \in yielded

Waits(l) == Polled(l) /\ (Has(ready, l[1]) \/ R!Linked(l))

(* The leaves a tree is waiting for, or will be once it is polled.         *)
Active(t) ==
  {l \in Leaves(t) \ spent :
     l[2] = "b" => \/ op[t] \in {"join", "select"}
                   \/ op[t] = "then" /\ <<t, "a">> \in spent}

(* Those of the current task that this poll has still to poll, or to drop. *)
Ahead == {l \in Active(current) : /\ pc[1] \in {"poll", "drop"}
                                  /\ pc[2] = "a" \/ l[2] = "b"}

Unborn(t) == begun[t] = -1 /\ \A l \in Leaves(t) : Fresh(l)

(* A tree between its polls, and inside one.                               *)
Begun(t) ==
  /\ begun[t] # -1
  /\ \E l \in Leaves(t) : l \in Active(t)
  /\ \A l \in Leaves(t) : l \in Active(t) \/ l \in spent \/ Fresh(l)

Rests(t) == Begun(t) /\ \A l \in Active(t) : Waits(l)

InPoll ==
  /\ Begun(current)
  /\ \A l \in Active(current) : l \notin Ahead => Waits(l)
  /\ pc[1] \in {"poll", "drop"} => Here \in Active(current)
  /\ \A l \in Ahead : Fresh(l) \/ Polled(l) \/ (pc[1] = "drop" /\ l = Here)
  /\ pc[1] = "drop" => /\ kind[Here] = "sleep" => state[Here] = "ready"
                       /\ op[current] = "join" \/ (op[current] = "then" /\ pc[2] = "a")

TaskOK(t) ==
  /\ status[t] = "unborn" => Unborn(t)
  /\ status[t] = "freed" => \A l \in Leaves(t) : kind[l] = "sleep" => state[l] = "dropped"
  /\ status[t] = "live" /\ t # current => (Unborn(t) /\ Has(ready, t)) \/ Rests(t)
  /\ status[t] = "live" /\ t = current => \/ pc[1] = "ready" /\ begun[t] # -1
                                          \/ pc[1] # "ready" /\ InPoll
  /\ ended[t] # -1 => status[t] = "freed"

TreeOK == \A t \in Task : TaskOK(t)

RuntimeInv == QueueOK /\ RootOK /\ TreeTypeOK /\ LeafOK /\ TreeOK

-----------------------------------------------------------------------------
(* The clock when a leaf is first polled, and when it is READY.            *)
StartOf(l) == begun[l[1]] + (IF op[l[1]] = "then" /\ l[2] = "b" THEN Takes(<<l[1], "a">>) ELSE 0)
EndOf(l) == StartOf(l) + Takes(l)

LeafOnTime(l) ==
  /\ armed[l] /\ state[l] = "pending" => deadline[l] = EndOf(l)
  /\ l \in spent => EndOf(l) <= now
  /\ status[l[1]] = "live" /\ l \in Active(l[1]) /\ Polled(l) => now <= EndOf(l)

TaskOnTime(t) ==
  /\ begun[t] <= now
  /\ ended[t] # -1 => ended[t] = begun[t] + Span(t)

(* A poll reaches a leaf for the first time just when it starts, drops it  *)
(* just when it ends, and ends the tree on time.                           *)
PollOnTime ==
  /\ current # NoTask /\ pc[1] # "ready" =>
       \A l \in Ahead : Fresh(l) /\ (pc[1] = "drop" => l # Here) => now = StartOf(l)
  /\ pc[1] = "drop" => now = EndOf(Here)
  /\ pc[1] = "ready" => now = begun[current] + Span(current)

TimeOK == /\ \A l \in Leaf : LeafOnTime(l)
          /\ \A t \in Task : TaskOnTime(t)
          /\ PollOnTime

(* No deadline passes the end of the clock's type.                         *)
ClockInRange == \A d \in Dur : now + d <= MaxU64

Bounded == ClockInRange => TimeOK

-----------------------------------------------------------------------------
(* The reactor's part of the composition is what ReactorProofs is about:   *)
(* each step is one of the reactor or leaves it alone.                     *)
LEMMA ReactorSame == (R!Init => RP!Init) /\ ([R!Next]_R!vars => [RP!Next]_RP!vars)
<1>1. R!Init <=> RP!Init
  BY DEF R!Init, RP!Init, R!SleepIn, RP!SleepIn
<1>2. ASSUME NEW d PROVE R!Leading(d) = RP!Leading(d)
  BY DEF R!Leading, RP!Leading
<1>3. ASSUME NEW l PROVE /\ R!PollFirst(l) <=> RP!PollFirst(l)
                         /\ R!PollAgain(l) <=> RP!PollAgain(l)
                         /\ R!SleepDrop(l) <=> RP!SleepDrop(l)
  <2>1. R!ReactorInsert(l, R!AddU64(now, dur[l])) <=> RP!ReactorInsert(l, RP!AddU64(now, dur[l]))
    BY <1>2 DEF R!ReactorInsert, RP!ReactorInsert, R!InsertBefore, RP!InsertBefore,
                R!AddU64, RP!AddU64
  <2>2. /\ R!AddU64(now, dur[l]) = RP!AddU64(now, dur[l])
        /\ \A d : R!Reached(d) <=> RP!Reached(d)
    BY DEF R!AddU64, RP!AddU64, R!Reached, RP!Reached
  <2>3. R!PollFirst(l) <=> RP!PollFirst(l)
    BY <2>1, <2>2, Zenon DEF R!PollFirst, RP!PollFirst, R!timerVars, RP!timerVars
  <2>4. R!PollAgain(l) <=> RP!PollAgain(l)
    BY <2>2 DEF R!PollAgain, RP!PollAgain, R!timerVars, RP!timerVars
  <2>5. R!SleepDrop(l) <=> RP!SleepDrop(l)
    BY DEF R!SleepDrop, RP!SleepDrop, R!Unlink, RP!Unlink
  <2> QED BY <2>3, <2>4, <2>5
<1>4. ASSUME NEW t PROVE R!FireDue(t) <=> RP!FireDue(t)
  BY <1>2 DEF R!FireDue, RP!FireDue
<1>5. R!ReactorPark <=> RP!ReactorPark
  BY <1>4 DEF R!ReactorPark, RP!ReactorPark, R!WaitUntil, RP!WaitUntil
<1>6. R!ExternalFireDue <=> RP!ExternalFireDue
  BY <1>4 DEF R!ExternalFireDue, RP!ExternalFireDue
<1>7. R!Advance <=> RP!Advance
  BY DEF R!Advance, RP!Advance, R!timerVars, RP!timerVars
<1>8. [R!Next]_R!vars <=> [RP!Next]_RP!vars
  BY <1>3, <1>5, <1>6, <1>7 DEF R!Next, RP!Next, R!vars, RP!vars
<1> QED BY <1>1, <1>8

LEMMA LeafLemma ==
  /\ \A t \in Task, c \in Child : <<t, c>> \in Leaf /\ <<t, c>>[1] = t /\ <<t, c>>[2] = c
  /\ \A l \in Leaf : /\ l[1] \in Task /\ l[2] \in Child
                     /\ \A t \in Task, c \in Child : l[1] = t /\ l[2] = c => l = <<t, c>>
BY DEF Leaf, Child

LEMMA HereLemma ==
  ASSUME TreeTypeOK, pc[1] # "none" \/ current # NoTask, current \in Task \cup {NoTask}
  PROVE  /\ Here \in Leaf /\ Here[1] = current /\ Here[2] = pc[2] /\ current \in Task
         /\ pc[2] \in Child
         /\ \A l \in Leaf : l[1] = current /\ l[2] = pc[2] => l = Here
<1>1. current \in Task /\ pc[2] \in Child
  BY DEF TreeTypeOK
<1> QED BY <1>1, LeafLemma DEF Here

LEMMA ReactorStep ==
  ASSUME TreeTypeOK, current \in Task \cup {NoTask}, [Next]_vars
  PROVE  [R!Next]_R!vars
<1> DEFINE Goal == R!Next \/ UNCHANGED reactorVars
<1>2. ASSUME NEW l \in Leaf, DropLeaf(l) PROVE Goal
  BY <1>2 DEF DropLeaf, R!Next
<1>3. ASSUME PollSleep PROVE Goal
  <2>1. Here \in Leaf
    BY <1>3, HereLemma DEF PollSleep, Polling
  <2> QED BY <1>3, <2>1 DEF PollSleep, R!Next
<1>4. ASSUME DropSpent PROVE Goal
  <2>1. Here \in Leaf
    BY <1>4, HereLemma DEF DropSpent
  <2> QED BY <1>2, <1>4, <2>1 DEF DropSpent
<1>5. ASSUME DropOwned PROVE Goal
  <2>1. PICK l \in Leaf : DropLeaf(l)
    BY <1>5 DEF DropOwned, Owned
  <2> QED BY <1>2, <2>1
<1>6. ASSUME Park PROVE Goal
  BY <1>6 DEF Park, R!Next, reactorVars
<1>7. ASSUME \/ PollTask \/ PollReadyLeaf \/ PollYield \/ PollPending \/ PollReady \/ Finish
             \/ Run \/ \E t \in Task : Spawn(t) \/ BlockOn(t)
      PROVE Goal
  BY <1>7 DEF PollTask, PollReadyLeaf, PollYield, PollPending, PollReady, Finish, Run, Spawn, BlockOn
<1>8. ASSUME UNCHANGED vars PROVE Goal
  BY <1>8 DEF vars
<1>9. Goal
  BY <1>3, <1>4, <1>5, <1>6, <1>7, <1>8 DEF Next, Step
<1> QED BY <1>9 DEF reactorVars, R!vars

LEMMA RuntimeReactor ==
  ASSUME TreeTypeOK, current \in Task \cup {NoTask}, [Next]_vars, RP!ReactorInv
  PROVE  RP!ReactorInv'
BY ReactorStep, ReactorSame, RP!ReactorStepInv, RuntimeAssumption

-----------------------------------------------------------------------------
(* What the composition needs of the reactor's invariant.                  *)
ReactorOK ==
  /\ now \in Nat /\ pending \in Seq(Leaf) /\ dur \in [Leaf -> Dur]
  /\ deadline \in [Leaf -> 0 .. MaxU64]
  /\ armed \in [Leaf -> BOOLEAN] /\ fired \in [Leaf -> BOOLEAN]
  /\ state \in [Leaf -> {"pending", "ready", "dropped"}]
  /\ \A l \in Leaf : Has(pending, l) <=> R!Linked(l)
  /\ \A l \in Leaf : fired[l] => armed[l] /\ now >= deadline[l]

LEMMA ReactorFacts ==
  (RP!ReactorInv => ReactorOK) /\ (RP!ReactorInv' => ReactorOK')
BY DEF ReactorOK, RP!ReactorInv, RP!TimerInv, RP!TypeOK, RP!LinkedIffOutstanding, R!Linked, RP!Linked,
       RP!Has, Has

SameLeaf(l) == /\ state'[l] = state[l] /\ armed'[l] = armed[l]
               /\ l \in yielded' <=> l \in yielded
               /\ l \in spent' <=> l \in spent

(* A task that is not polled keeps its promise while its own leaves stay   *)
(* as they are and no wake of it is lost.                                  *)
LEMMA TaskFrame ==
  ASSUME NEW t \in Task, TaskOK(t), t # current, t # current',
         status'[t] = status[t], begun'[t] = begun[t], ended'[t] = ended[t],
         op' = op, kind' = kind,
         \A l \in Leaves(t) : SameLeaf(l),
         Has(ready, t) => Has(ready', t),
         \A l \in Leaves(t) : R!Linked(l) => R!Linked(l)' \/ Has(ready', t)
  PROVE  TaskOK(t)'
<1>1. ASSUME NEW l \in Leaves(t) PROVE (Fresh(l) => Fresh(l)') /\ (Polled(l) => Polled(l)')
  BY DEF Fresh, Polled, SameLeaf
<1>2. ASSUME NEW l \in Leaves(t), Waits(l) PROVE Waits(l)'
  <2>1. l[1] = t
    BY DEF Leaves
  <2> QED BY <1>1, <1>2, <2>1 DEF Waits
<1>3. Active(t)' = Active(t) /\ Active(t) \subseteq Leaves(t)
  BY LeafLemma DEF Active, Leaves, SameLeaf, Child
<1>4. Unborn(t) => Unborn(t)'
  BY <1>1 DEF Unborn
<1>5. Begun(t) => Begun(t)'
  BY <1>1, <1>3 DEF Begun, SameLeaf
<1>6. Rests(t) => Rests(t)'
  BY <1>2, <1>3, <1>5 DEF Rests
<1> QED BY <1>4, <1>6 DEF TaskOK, SameLeaf

-----------------------------------------------------------------------------
LEMMA QueueSame == /\ ReadyOK <=> XP!ReadyOK
                   /\ ReadyOK' <=> XP!ReadyOK'
                   /\ \A q, x : XP!Has(q, x) <=> Has(q, x)
BY DEF ReadyOK, XP!ReadyOK, XP!Distinct, Distinct, XP!Has, Has

LEMMA XPAssumption == /\ NoTask \notin Task
                      /\ XP!IsFiniteSet(Task)
                      /\ TRUE \in BOOLEAN /\ FALSE \in BOOLEAN
BY RuntimeAssumption DEF XP!IsFiniteSet, IsFiniteSet

LEMMA PushEffect ==
  ASSUME ReadyOK, NEW t \in Task, ~Has(ready, t), NEW b, X!ExecutorPush(t, b)
  PROVE  ReadyOK' /\ \A x \in Task : Has(ready', x) <=> (Has(ready, x) \/ x = t)
<1>1. /\ queued' = [queued EXCEPT ![t] = TRUE]
      /\ ready' = XP!AddTail(ready, t)
  BY DEF X!ExecutorPush, X!AddTail, XP!AddTail
<1> QED BY <1>1, QueueSame, XP!PushStep, XPAssumption

LEMMA WakeEffect ==
  ASSUME ReadyOK, current \in Task, X!WakeSelf
  PROVE  /\ ReadyOK' /\ \A x \in Task : Has(ready', x) <=> (Has(ready, x) \/ x = current)
         /\ UNCHANGED <<status, live, doneRef, slot, phase, current, root, done>>
<1>1. /\ XP!TaskWake(current)
      /\ UNCHANGED <<status, live, doneRef, slot, phase, current, root, done>>
  BY DEF X!WakeSelf, X!TaskWake, XP!TaskWake, X!AddTail, XP!AddTail, X!callerVars
<1> QED BY <1>1, QueueSame, XP!WakeStep, XPAssumption

LEMMA PopEffect ==
  ASSUME ReadyOK, X!PollNext
  PROVE  /\ ReadyOK' /\ current' \in Task /\ Has(ready, current')
         /\ \A x \in Task : Has(ready', x) <=> (Has(ready, x) /\ x # current')
         /\ phase = "drive" /\ phase' = "poll"
         /\ UNCHANGED <<status, live, doneRef, slot, root, done>>
<1>1. /\ ready # <<>> /\ ready' = XP!PopFirst(ready)
      /\ queued' = [queued EXCEPT ![Head(ready)] = FALSE]
      /\ current' = Head(ready)
      /\ phase = "drive" /\ phase' = "poll"
      /\ UNCHANGED <<status, live, doneRef, slot, root, done>>
  BY DEF X!PollNext, X!PopHead, X!PopFirst, XP!PopFirst, X!callerVars
<1> QED BY <1>1, QueueSame, XP!PopStep, XPAssumption

LEMMA DoneEffect ==
  ASSUME ReadyOK, current \in Task, X!PollReady
  PROVE  /\ ReadyOK'
         /\ \A x \in Task : Has(ready', x) <=> (Has(ready, x) /\ x # current)
         /\ phase' = "drive" /\ current' = NoTask
         /\ UNCHANGED <<doneRef, root>>
         /\ status' = [status EXCEPT ![current] = "freed"] /\ live' = live - 1
         /\ slot' = [l \in Leaf |-> IF slot[l] = current THEN NoTask ELSE slot[l]]
<1>1. XP!UnlinkIfQueued(current)
  BY DEF X!PollReady, X!UnlinkIfQueued, XP!UnlinkIfQueued, X!Unlink, XP!Unlink
<1>2. /\ phase' = "drive" /\ current' = NoTask
      /\ UNCHANGED <<doneRef, root>>
      /\ status' = [status EXCEPT ![current] = "freed"] /\ live' = live - 1
      /\ slot' = [l \in Leaf |-> IF slot[l] = current THEN NoTask ELSE slot[l]]
  BY DEF X!PollReady, X!TaskFree, X!FutureDrop
<1> QED BY <1>1, <1>2, QueueSame, XP!UnlinkStep, XPAssumption

-----------------------------------------------------------------------------
(* QueueOK when no task box is allocated or freed, and when one is.        *)
LEMMA QueueFrame ==
  ASSUME QueueOK, ReadyOK', UNCHANGED <<status, live>>,
         \A t \in Task : Has(ready', t) => status[t] = "live",
         phase' \in {"caller", "drive", "poll"}, current' \in Task \cup {NoTask},
         phase' = "poll" <=> current' # NoTask, current' # NoTask => status[current'] = "live"
  PROVE  QueueOK'
BY DEF QueueOK, X!LiveTasks

LEMMA LiveFinite == /\ IsFiniteSet(X!LiveTasks) /\ Cardinality(X!LiveTasks) \in Nat
                    /\ Cardinality(X!LiveTasks) = 0 <=> X!LiveTasks = {}
<1>1. IsFiniteSet(X!LiveTasks)
  BY RuntimeAssumption, FS_Subset DEF X!LiveTasks
<1> QED BY <1>1, FS_CardinalityType, FS_EmptySet

LEMMA QueueUp ==
  ASSUME QueueOK, NEW t \in Task, NEW b, X!ExecutorPush(t, b), UNCHANGED current,
         phase' \in {"caller", "drive"}, phase = "caller"
  PROVE  /\ QueueOK' /\ \A x \in Task : Has(ready', x) <=> (Has(ready, x) \/ x = t)
         /\ status[t] = "unborn" /\ t # current /\ current = NoTask
<1>1. /\ status[t] = "unborn" /\ status' = [status EXCEPT ![t] = "live"]
      /\ live' = live + 1 /\ ReadyOK
  BY DEF X!ExecutorPush, QueueOK
<1>2. ~Has(ready, t) /\ current = NoTask /\ t # NoTask
  BY <1>1, RuntimeAssumption DEF QueueOK
<1>3. ReadyOK' /\ \A x \in Task : Has(ready', x) <=> (Has(ready, x) \/ x = t)
  BY <1>1, <1>2, PushEffect
<1>4. X!LiveTasks' = X!LiveTasks \cup {t} /\ t \notin X!LiveTasks
  BY <1>1 DEF X!LiveTasks, QueueOK
<1>5. live' = Cardinality(X!LiveTasks')
  BY <1>1, <1>4, LiveFinite, FS_AddElement DEF QueueOK
<1> QED BY <1>1, <1>2, <1>3, <1>5 DEF QueueOK

LEMMA QueueDown ==
  ASSUME QueueOK, current # NoTask, X!PollReady
  PROVE  QueueOK'
<1>1. current \in Task /\ ReadyOK /\ status[current] = "live"
  BY DEF QueueOK
<1>2. /\ ReadyOK'
      /\ \A x \in Task : Has(ready', x) <=> (Has(ready, x) /\ x # current)
      /\ phase' = "drive" /\ current' = NoTask
      /\ status' = [status EXCEPT ![current] = "freed"] /\ live' = live - 1
  BY <1>1, DoneEffect
<1>3. X!LiveTasks' = X!LiveTasks \ {current} /\ current \in X!LiveTasks
  BY <1>1, <1>2 DEF X!LiveTasks, QueueOK
<1>4. live' = Cardinality(X!LiveTasks')
  BY <1>2, <1>3, LiveFinite, FS_RemoveElement DEF QueueOK
<1> QED BY <1>1, <1>2, <1>4 DEF QueueOK

-----------------------------------------------------------------------------
(* One lemma per action: each keeps the invariant.                         *)
LEMMA SpawnStep ==
  ASSUME RuntimeInv, NEW t \in Task, Spawn(t) \/ BlockOn(t)
  PROVE  RuntimeInv'
<1>1. /\ QueueOK /\ phase = "caller" /\ phase' \in {"caller", "drive"}
      /\ X!ExecutorPush(t, FALSE) \/ X!ExecutorPush(t, TRUE)
      /\ UNCHANGED <<slot, current, reactorVars, treeVars>>
      /\ \/ /\ X!ExecutorPush(t, FALSE) /\ UNCHANGED <<root, done>>
         \/ /\ X!ExecutorPush(t, TRUE) /\ root' = t /\ done' = FALSE
  BY DEF RuntimeInv, Spawn, BlockOn, X!Spawn, X!BlockOn, X!MayDrive, X!callerVars
<1>2. /\ QueueOK' /\ \A x \in Task : Has(ready', x) <=> (Has(ready, x) \/ x = t)
      /\ status[t] = "unborn" /\ t # current /\ current = NoTask
  BY <1>1, QueueUp
<1>3. /\ status' = [status EXCEPT ![t] = "live"] /\ status \in [Task -> {"unborn", "live", "freed"}]
      /\ doneRef \subseteq doneRef' /\ doneRef' \subseteq doneRef \cup {t}
      /\ \/ UNCHANGED <<root, done>>
         \/ t \in doneRef' /\ root' = t /\ done' = FALSE
  BY <1>1 DEF X!ExecutorPush, QueueOK
<1>4. RootOK'
  <2>1. RootOK /\ \A u \in Task : status'[u] = IF u = t THEN "live" ELSE status[u]
    BY <1>3 DEF RuntimeInv
  <2>2. CASE UNCHANGED <<root, done>>
    BY <1>2, <1>3, <2>1, <2>2 DEF RootOK
  <2>3. CASE t \in doneRef' /\ root' = t /\ done' = FALSE
    BY <1>3, <2>1, <2>3 DEF RootOK
  <2> QED BY <1>3, <2>2, <2>3
<1>5. TreeTypeOK' /\ LeafOK'
  BY <1>1 DEF RuntimeInv, TreeTypeOK, LeafOK, R!Linked, reactorVars, treeVars
<1>6. ASSUME NEW u \in Task PROVE TaskOK(u)'
  <2>1. CASE u = t
    <3>1. Unborn(t)
      BY <1>2 DEF RuntimeInv, TreeOK, TaskOK
    <3>2. Unborn(t)'
      BY <1>1, <3>1 DEF Unborn, Fresh, Leaves, reactorVars, treeVars
    <3>3. ended[t] = -1
      BY <1>2 DEF RuntimeInv, TreeOK, TaskOK
    <3> QED BY <1>1, <1>2, <1>3, <2>1, <3>2, <3>3 DEF TaskOK, treeVars
  <2>2. CASE u # t
    <3>1. status'[u] = status[u] /\ u # current /\ TaskOK(u) /\ u # current'
      BY <1>1, <1>2, <1>3, <2>2, RuntimeAssumption DEF RuntimeInv, TreeOK
    <3>2. \A l \in Leaves(u) : SameLeaf(l)
      BY <1>1 DEF SameLeaf, reactorVars, treeVars
    <3>3. /\ op' = op /\ kind' = kind /\ begun' = begun /\ ended' = ended
          /\ \A l : R!Linked(l)' <=> R!Linked(l)
      BY <1>1 DEF R!Linked, reactorVars, treeVars
    <3> QED BY <1>2, <3>1, <3>2, <3>3, TaskFrame
  <2> QED BY <2>1, <2>2
<1> QED BY <1>2, <1>4, <1>5, <1>6 DEF RuntimeInv, TreeOK

LEMMA ReturnStep ==
  ASSUME RuntimeInv, Run \/ Finish \/ UNCHANGED vars
  PROVE  RuntimeInv'
<1>1. /\ UNCHANGED <<status, queued, ready, live, doneRef, slot, current, reactorVars, treeVars>>
      /\ root' \in {root, NoTask} /\ done' = done
      /\ phase' = phase \/ (phase # "poll" /\ phase' \in {"caller", "drive"})
  BY DEF Run, Finish, X!Run, X!DriveReturn, X!MayDrive, X!taskVars, X!callerVars,
         vars, executorVars
<1>2. QueueOK'
  BY <1>1 DEF RuntimeInv, QueueOK, ReadyOK, X!LiveTasks
<1>3. RootOK'
  BY <1>1 DEF RuntimeInv, RootOK
<1>4. TreeTypeOK' /\ LeafOK'
  BY <1>1 DEF RuntimeInv, TreeTypeOK, LeafOK, R!Linked, reactorVars, treeVars
<1>5. TreeOK'
  BY <1>1 DEF RuntimeInv, TreeOK, TaskOK, Unborn, Rests, InPoll, Begun, Active, Ahead, Here, Waits, Polled,
              Fresh, Leaves, R!Linked, reactorVars, treeVars
<1> QED BY <1>2, <1>3, <1>4, <1>5 DEF RuntimeInv

LEMMA PollTaskStep ==
  ASSUME RuntimeInv, ReactorOK, PollTask
  PROVE  RuntimeInv'
<1>0. PICK h \in Task : h = current'
  BY PopEffect DEF RuntimeInv, QueueOK, PollTask
<1>1. /\ QueueOK /\ RootOK /\ TreeTypeOK /\ LeafOK /\ TreeOK
      /\ X!PollNext /\ pc' = <<"poll", FirstChild(h)>>
      /\ begun' = [begun EXCEPT ![h] = IF @ = -1 THEN now ELSE @]
      /\ UNCHANGED <<reactorVars, op, kind, yielded, spent, ended>>
  BY <1>0 DEF RuntimeInv, PollTask
<1>2. /\ ReadyOK' /\ h \in Task /\ Has(ready, h)
      /\ \A x \in Task : Has(ready', x) <=> (Has(ready, x) /\ x # h)
      /\ phase = "drive" /\ phase' = "poll"
      /\ UNCHANGED <<status, live, doneRef, slot, root, done>>
  BY <1>0, <1>1, PopEffect DEF QueueOK
<1>3. current = NoTask /\ h # NoTask /\ h # current /\ status[h] = "live"
  BY <1>1, <1>2, RuntimeAssumption DEF QueueOK
<1>4. QueueOK'
  <2>1. \A t \in Task : Has(ready', t) => status[t] = "live"
    BY <1>1, <1>2 DEF QueueOK
  <2> QED BY <1>0, <1>1, <1>2, <1>3, <2>1, QueueFrame
<1>5. RootOK'
  BY <1>1, <1>2 DEF RootOK
<1>6. FirstChild(h) \in Child /\ h = current'
  BY <1>0 DEF FirstChild, Child
<1>7. TreeTypeOK'
  <2>1. begun' \in [Task -> Nat \cup {-1}]
    BY <1>1, <1>2 DEF TreeTypeOK, ReactorOK
  <2>2. pc' \in {"none", "poll", "drop", "pending", "ready"} \X Child /\ pc'[1] = "poll"
    BY <1>1, <1>6
  <2> QED BY <1>1, <1>3, <1>6, <2>1, <2>2 DEF TreeTypeOK
<1>8. LeafOK'
  BY <1>1, <1>2 DEF LeafOK, R!Linked, reactorVars
<1>9. /\ \A l : SameLeaf(l) /\ (R!Linked(l)' <=> R!Linked(l)) /\ (Fresh(l)' <=> Fresh(l))
             /\ (Polled(l)' <=> Polled(l))
      /\ \A t \in Task : Active(t)' = Active(t)
  BY <1>1 DEF SameLeaf, R!Linked, Fresh, Polled, Active, Leaves, reactorVars
<1>10. ASSUME NEW u \in Task, u # h PROVE TaskOK(u)'
  <2>1. TaskOK(u) /\ u # current /\ u # current' /\ begun'[u] = begun[u]
    BY <1>1, <1>3, <1>6, <1>10, RuntimeAssumption DEF TreeOK, TreeTypeOK
  <2> QED BY <1>1, <1>2, <1>9, <1>10, <2>1, TaskFrame
<1>11. begun'[h] # -1
  BY <1>1, <1>2 DEF TreeTypeOK, ReactorOK
<1>12. \A l \in Leaves(h) : l \in Leaf /\ l[1] = h /\ l[2] \in {"a", "b"}
                             /\ (l = <<h, "a">> \/ l = <<h, "b">>)
  BY LeafLemma, <1>2 DEF Leaves, Child
<1>13. <<h, "a">> \in Leaves(h) /\ <<h, "b">> \in Leaves(h) /\ <<h, "a">>[2] = "a" /\ <<h, "b">>[2] = "b"
  BY LeafLemma, <1>2 DEF Leaves, Child
<1>14. /\ \E l \in Leaves(h) : l \in Active(h)
       /\ \A l \in Leaves(h) : l \in Active(h) \/ l \in spent \/ Fresh(l)
       /\ \A l \in Active(h) : Fresh(l) \/ Polled(l)
       /\ ended[h] = -1
  <2>1. TaskOK(h)
    BY <1>1, <1>2 DEF TreeOK
  <2>2. CASE Unborn(h)
    <3>1. \A l \in Leaves(h) : Fresh(l)
      BY <2>2 DEF Unborn
    <3>2. <<h, "a">> \in Active(h)
      BY <1>13, <3>1 DEF Active, Fresh
    <3> QED BY <1>3, <1>13, <2>1, <3>1, <3>2 DEF Active, TaskOK
  <2>3. CASE Rests(h)
    BY <1>3, <2>1, <2>3 DEF Rests, Begun, Waits, TaskOK
  <2> QED BY <1>3, <2>1, <2>2, <2>3 DEF TaskOK
<1>15. Begun(h)'
  BY <1>1, <1>9, <1>11, <1>14, <1>2 DEF Begun, Leaves
<1>16. Here' = <<h, FirstChild(h)>>
  BY <1>1, <1>6 DEF Here
<1>17. Here' \in Active(h)
  <2>1. CASE <<h, "a">> \in spent
    <3>1. <<h, "b">> \in Active(h)
      BY <1>12, <1>14, <2>1 DEF Active
    <3> QED BY <1>16, <2>1, <3>1 DEF FirstChild
  <2>2. CASE <<h, "a">> \notin spent
    BY <1>13, <1>16, <2>2 DEF FirstChild, Active
  <2> QED BY <2>1, <2>2
<1>18. \A l \in Active(h) : FirstChild(h) = "a" \/ l[2] = "b"
  BY <1>12, <1>13 DEF Active, FirstChild
<1>19. Ahead' = Active(h)
  BY <1>1, <1>2, <1>6, <1>9, <1>18 DEF Ahead
<1>20. InPoll'
  BY <1>1, <1>2, <1>6, <1>9, <1>14, <1>15, <1>17, <1>19 DEF InPoll
<1>21. TaskOK(h)'
  BY <1>1, <1>2, <1>3, <1>6, <1>14, <1>20 DEF TaskOK
<1> QED BY <1>4, <1>5, <1>7, <1>8, <1>10, <1>21 DEF RuntimeInv, TreeOK

-----------------------------------------------------------------------------
(* Inside a poll only the current task's leaves change, and wakes are only *)
(* added.                                                                  *)
LEMMA InsideOthers ==
  ASSUME RuntimeInv, UNCHANGED <<status, current, begun, ended, op, kind>>,
         \A l \in Leaf : l[1] # current => SameLeaf(l) /\ (R!Linked(l)' <=> R!Linked(l)),
         \A x \in Task : Has(ready, x) => Has(ready', x),
         NEW u \in Task, u # current
  PROVE  TaskOK(u)'
<1>1. TaskOK(u) /\ u # current'
  BY DEF RuntimeInv, TreeOK
<1>2. \A l \in Leaves(u) : SameLeaf(l) /\ (R!Linked(l)' <=> R!Linked(l))
  BY DEF Leaves
<1> QED BY <1>1, <1>2, TaskFrame

LEMMA InsideFacts ==
  ASSUME RuntimeInv, pc[1] # "none"
  PROVE  /\ current \in Task /\ current # NoTask /\ status[current] = "live" /\ phase = "poll"
         /\ TaskOK(current) /\ ended[current] = -1 /\ begun[current] # -1
         /\ pc[1] # "ready" => InPoll
         /\ Here \in Leaf /\ Here[1] = current /\ Here[2] = pc[2] /\ pc[2] \in {"a", "b"}
         /\ Here \in Leaves(current)
         /\ \A l \in Leaves(current) :
              /\ l \in Leaf /\ l[1] = current /\ l[2] \in {"a", "b"}
              /\ l[2] = pc[2] => l = Here
              /\ l = <<current, l[2]>>
<1>1. current \in Task /\ current # NoTask /\ status[current] = "live" /\ phase = "poll"
  BY DEF RuntimeInv, QueueOK, TreeTypeOK
<1>2. TaskOK(current) /\ TreeTypeOK
  BY <1>1 DEF RuntimeInv, TreeOK
<1>3. ended[current] = -1 /\ begun[current] # -1 /\ (pc[1] # "ready" => InPoll)
  BY <1>1, <1>2 DEF TaskOK, InPoll, Begun
<1>4. /\ Here \in Leaf /\ Here[1] = current /\ Here[2] = pc[2] /\ pc[2] \in {"a", "b"}
      /\ \A l \in Leaf : l[1] = current /\ l[2] = pc[2] => l = Here
  BY <1>1, <1>2, HereLemma DEF Child
<1>5. \A l \in Leaves(current) :
         l \in Leaf /\ l[1] = current /\ l[2] \in {"a", "b"} /\ l = <<current, l[2]>>
  BY <1>1, LeafLemma DEF Leaves, Child
<1> QED BY <1>1, <1>2, <1>3, <1>4, <1>5 DEF Leaves

LEMMA PendingStep ==
  ASSUME RuntimeInv, PollPending
  PROVE  RuntimeInv'
<1>1. /\ pc[1] = "pending" /\ phase' = "drive" /\ current' = NoTask /\ pc' = <<"none", "a">>
      /\ UNCHANGED <<status, queued, ready, live, doneRef, slot, root, done>>
      /\ UNCHANGED <<reactorVars, op, kind, yielded, spent, begun, ended>>
      /\ QueueOK /\ RootOK /\ TreeTypeOK /\ LeafOK /\ TreeOK
  BY DEF PollPending, RuntimeInv
<1>2. current \in Task /\ current # NoTask /\ status[current] = "live" /\ InPoll /\ ended[current] = -1
  BY <1>1, InsideFacts
<1>3. QueueOK'
  <2>1. ReadyOK' /\ \A t \in Task : Has(ready', t) => status[t] = "live"
    BY <1>1 DEF QueueOK, ReadyOK
  <2> QED BY <1>1, <2>1, QueueFrame
<1>4. RootOK' /\ LeafOK'
  BY <1>1 DEF RootOK, LeafOK, R!Linked, reactorVars
<1>5. TreeTypeOK'
  BY <1>1 DEF TreeTypeOK, Child
<1>6. \A l : SameLeaf(l) /\ (R!Linked(l)' <=> R!Linked(l))
  BY <1>1 DEF SameLeaf, R!Linked, reactorVars
<1>7. ASSUME NEW u \in Task PROVE TaskOK(u)'
  <2>1. CASE u # current
    <3>1. u # current' /\ TaskOK(u)
      BY <1>1, RuntimeAssumption DEF TreeOK
    <3> QED BY <1>1, <1>6, <2>1, <3>1, TaskFrame
  <2>2. CASE u = current
    <3>1. Begun(u) /\ \A l \in Active(u) : Waits(l)
      BY <1>1, <1>2, <2>2 DEF InPoll, Ahead
    <3>2. Rests(u)'
      BY <1>1, <3>1 DEF Rests, Begun, Active, Waits, Polled, Fresh, Leaves, R!Linked, reactorVars
    <3> QED BY <1>1, <1>2, <2>2, <3>2 DEF TaskOK
  <2> QED BY <2>1, <2>2
<1> QED BY <1>3, <1>4, <1>5, <1>7 DEF RuntimeInv, TreeOK

(* What a tree does after one of its leaves was polled.                    *)
LEMMA AfterChildCases ==
  ASSUME RuntimeInv, pc[1] = "poll", NEW r \in BOOLEAN, AfterChild(pc[2], r),
         NEW c \in Task, c = current
  PROVE  \/ /\ r /\ pc' = <<"ready", pc[2]>>
            /\ op[c] \in {"leaf", "select"} \/ (op[c] = "then" /\ pc[2] = "b")
         \/ /\ r /\ pc' = <<"drop", pc[2]>>
            /\ op[c] = "join" \/ (op[c] = "then" /\ pc[2] = "a")
         \/ /\ ~r /\ pc' = <<"poll", "b">> /\ pc[2] = "a" /\ <<c, "b">> \notin spent
            /\ op[c] \in {"join", "select"}
         \/ /\ ~r /\ pc' = <<"pending", pc[2]>>
            /\ op[c] \in {"leaf", "then"} \/ pc[2] = "b" \/ <<c, "b">> \in spent
<1>1. pc[2] \in {"a", "b"} /\ op[c] \in {"leaf", "then", "join", "select"}
  BY InsideFacts DEF RuntimeInv, TreeTypeOK
<1>2. pc' = CASE op[c] = "leaf"   -> <<IF r THEN "ready" ELSE "pending", pc[2]>>
              [] op[c] = "then"   -> IF ~r THEN <<"pending", pc[2]>>
                                     ELSE IF pc[2] = "a" THEN <<"drop", pc[2]>> ELSE <<"ready", pc[2]>>
              [] op[c] = "join"   -> IF r THEN <<"drop", pc[2]>>
                                     ELSE IF pc[2] = "a" /\ <<c, "b">> \notin spent
                                     THEN <<"poll", "b">> ELSE <<"pending", pc[2]>>
              [] op[c] = "select" -> IF r THEN <<"ready", pc[2]>>
                                     ELSE IF pc[2] = "a" THEN <<"poll", "b">> ELSE <<"pending", pc[2]>>
  BY DEF AfterChild
<1>3. op[c] = "select" => <<c, "b">> \notin spent
  BY LeafLemma DEF RuntimeInv, LeafOK, Child
<1> QED BY <1>1, <1>2, <1>3

(* The tree's own step after one of its leaves was polled.                 *)
LEMMA AfterChildStep ==
  ASSUME RuntimeInv, pc[1] = "poll", NEW r \in BOOLEAN, AfterChild(pc[2], r),
         NEW e \in Leaf, e = Here,
         UNCHANGED <<status, current, begun, ended, op, kind, spent>>,
         \A l \in Leaf : l # e => SameLeaf(l) /\ (R!Linked(l)' <=> R!Linked(l)),
         \A x \in Task : Has(ready, x) => Has(ready', x),
         r /\ kind[e] = "sleep" => state'[e] = "ready",
         ~r => Polled(e)' /\ (Has(ready', current) \/ R!Linked(e)')
  PROVE  TreeOK' /\ pc' \in {"poll", "drop", "pending", "ready"} \X Child
<1>0. PICK c \in Task : c = current
  BY InsideFacts
<1>1. /\ c = current /\ e = Here /\ status[c] = "live" /\ InPoll /\ ended[c] = -1 /\ begun[c] # -1
      /\ e[1] = c /\ e[2] = pc[2] /\ pc[2] \in {"a", "b"}
      /\ e \in Leaves(c)
      /\ \A l \in Leaves(c) : /\ l \in Leaf /\ l[1] = c /\ l[2] \in {"a", "b"}
                              /\ l[2] = pc[2] => l = e
                              /\ l = <<c, l[2]>>
  BY <1>0, InsideFacts
<1>20. /\ Begun(c) /\ e \in Active(c)
       /\ \A l \in Active(c) : l \notin Ahead => Waits(l)
       /\ \A l \in Ahead : Fresh(l) \/ Polled(l)
       /\ Ahead = {l \in Active(c) : pc[2] = "a" \/ l[2] = "b"}
  BY <1>1 DEF InPoll, Ahead
<1>2. \A u \in Task : u # current => TaskOK(u)'
  BY <1>1, InsideOthers
<1>3. Active(c)' = Active(c) /\ Active(c) \subseteq Leaves(c) /\ e \in Active(c) /\ e \notin spent
  BY <1>1 DEF Active, Leaves, InPoll
<1>4. op[c] \in {"leaf", "then", "join", "select"}
  BY <1>1 DEF RuntimeInv, TreeTypeOK
<1>5. \A l \in Leaves(c) : l # e => /\ Fresh(l) => Fresh(l)'
                                    /\ Polled(l) => Polled(l)'
                                    /\ Waits(l) => Waits(l)'
  BY <1>1 DEF Fresh, Polled, Waits, SameLeaf
<1>6. Begun(c)'
  BY <1>1, <1>20, <1>3, <1>5 DEF Begun, Leaves
<1>7. ~r => Waits(e)'
  <2>1. ~r => Polled(e)' /\ (Has(ready', c) \/ R!Linked(e)')
    BY <1>1 DEF Polled, R!Linked
  <2> QED BY <1>1, <2>1 DEF Waits
<1>9. \/ /\ r /\ pc' = <<"ready", pc[2]>>
         /\ op[c] \in {"leaf", "select"} \/ (op[c] = "then" /\ pc[2] = "b")
      \/ /\ r /\ pc' = <<"drop", pc[2]>>
         /\ op[c] = "join" \/ (op[c] = "then" /\ pc[2] = "a")
      \/ /\ ~r /\ pc' = <<"poll", "b">> /\ pc[2] = "a" /\ <<c, "b">> \notin spent
         /\ op[c] \in {"join", "select"}
      \/ /\ ~r /\ pc' = <<"pending", pc[2]>>
         /\ op[c] \in {"leaf", "then"} \/ pc[2] = "b" \/ <<c, "b">> \in spent
  BY <1>1, AfterChildCases
<1>10. pc' \in {"poll", "drop", "pending", "ready"} \X Child
  BY <1>1, <1>9 DEF Child
<1>11. \A l \in Active(c) : l # e /\ pc[2] = "b" => Waits(l)
  BY <1>1, <1>20, <1>3
<1>12. ASSUME pc' = <<"ready", pc[2]>> PROVE TaskOK(c)'
  BY <1>1, <1>12 DEF TaskOK
<1>13. ASSUME /\ r /\ pc' = <<"drop", pc[2]>>
              /\ op[c] = "join" \/ (op[c] = "then" /\ pc[2] = "a")
       PROVE  TaskOK(c)'
  <2>1. Here' = e /\ Ahead' = Ahead
    BY <1>1, <1>3, <1>13 DEF Here, Ahead
  <2>2. e \in Ahead /\ \A l \in Active(c) : l \notin Ahead => Waits(l)'
    BY <1>1, <1>3, <1>5, <1>20
  <2>3. \A l \in Ahead : l # e => Fresh(l)' \/ Polled(l)'
    BY <1>3, <1>5, <1>20
  <2>4. InPoll'
    BY <1>1, <1>3, <1>6, <1>13, <2>1, <2>2, <2>3 DEF InPoll
  <2> QED BY <1>1, <1>13, <2>4 DEF TaskOK
<1>14. ASSUME /\ ~r /\ pc' = <<"poll", "b">> /\ pc[2] = "a" /\ <<c, "b">> \notin spent
              /\ op[c] \in {"join", "select"}
       PROVE  TaskOK(c)'
  <2>1. PICK f \in Leaves(c) : f = <<c, "b">> /\ f[2] = "b" /\ f # e
    BY <1>1, <1>14, LeafLemma DEF Leaves, Child
  <2>2. Here' = f /\ f \in Active(c)
    BY <1>1, <1>14, <2>1 DEF Here, Active
  <2>3. f \in Ahead /\ (Fresh(f) \/ Polled(f))
    BY <1>1, <1>14, <1>20, <2>1, <2>2
  <2>4. Ahead' = {f}
    BY <1>1, <1>3, <1>14, <2>1, <2>2 DEF Ahead
  <2>5. \A l \in Active(c) : l # f => l = e
    BY <1>1, <1>3, <1>14, <2>1
  <2>6. InPoll'
    BY <1>1, <1>3, <1>5, <1>6, <1>7, <1>14, <2>1, <2>2, <2>3, <2>4, <2>5 DEF InPoll
  <2> QED BY <1>1, <1>14, <2>6 DEF TaskOK
<1>15. ASSUME ~r, pc' = <<"pending", pc[2]>>,
              op[c] \in {"leaf", "then"} \/ pc[2] = "b" \/ <<c, "b">> \in spent
       PROVE  TaskOK(c)'
  <2>1. \A l \in Active(c) : l # e => Waits(l)
    <3>1. ASSUME NEW l \in Active(c), l # e, pc[2] = "a" PROVE FALSE
      <4>1. l[2] = "b" /\ l = <<c, "b">> /\ l \notin spent /\ e = <<c, "a">>
        BY <1>1, <1>3, <3>1 DEF Active
      <4>2. op[c] = "then" /\ e \in spent
        BY <1>1, <1>15, <3>1, <4>1 DEF Active
      <4> QED BY <1>3, <4>2
    <3> QED BY <1>1, <1>11, <3>1
  <2>2. \A l \in Active(c) : Waits(l)'
    BY <1>3, <1>5, <1>7, <1>15, <2>1
  <2>3. Ahead' = {}
    BY <1>15 DEF Ahead
  <2>4. InPoll'
    BY <1>1, <1>3, <1>6, <1>15, <2>2, <2>3 DEF InPoll
  <2> QED BY <1>1, <1>15, <2>4 DEF TaskOK
<1>16. TaskOK(c)'
  BY <1>9, <1>12, <1>13, <1>14, <1>15
<1> QED BY <1>1, <1>2, <1>10, <1>16 DEF TreeOK

(* What polling a sleep does, seen from its task.                          *)
LEMMA SleepPollEffect ==
  ASSUME ReactorOK, NEW e \in Leaf, R!PollFirst(e) \/ R!PollAgain(e)
  PROVE  /\ \A l \in Leaf : l # e => state'[l] = state[l] /\ armed'[l] = armed[l]
         /\ fired' = fired /\ now' = now /\ dur' = dur
         /\ state[e] = "pending"
         /\ \/ state'[e] = "ready" /\ armed'[e] = armed[e]
            \/ state'[e] = "pending" /\ armed'[e] /\ ~fired[e]
         /\ R!PollAgain(e) => armed[e] /\ armed'[e]
         /\ R!PollFirst(e) => ~armed[e] /\ ~fired[e]
         /\ armed'[e] => state'[e] = "pending" \/ armed[e]
<1>1. ASSUME R!PollFirst(e)
      PROVE  /\ \A l \in Leaf : l # e => state'[l] = state[l] /\ armed'[l] = armed[l]
             /\ fired' = fired /\ now' = now /\ dur' = dur
             /\ state[e] = "pending" /\ ~armed[e] /\ ~fired[e]
             /\ \/ state'[e] = "ready" /\ armed'[e] = armed[e]
                \/ state'[e] = "pending" /\ armed'[e]
  <2>1. /\ state[e] = "pending" /\ ~armed[e]
        /\ fired' = fired /\ now' = now /\ dur' = dur
        /\ \/ state' = [state EXCEPT ![e] = "ready"] /\ armed' = armed
           \/ state' = state /\ armed' = [armed EXCEPT ![e] = TRUE]
    BY <1>1 DEF R!PollFirst, R!timerVars
  <2> QED BY <2>1 DEF ReactorOK
<1>2. ASSUME R!PollAgain(e)
      PROVE  /\ \A l \in Leaf : l # e => state'[l] = state[l] /\ armed'[l] = armed[l]
             /\ fired' = fired /\ now' = now /\ dur' = dur
             /\ state[e] = "pending" /\ armed[e] /\ armed'[e]
             /\ \/ state'[e] = "ready"
                \/ state'[e] = "pending" /\ ~fired[e]
             /\ armed' = armed
  <2>1. /\ state[e] = "pending" /\ armed[e]
        /\ fired' = fired /\ now' = now /\ dur' = dur /\ armed' = armed
        /\ state' = [state EXCEPT ![e] = IF now >= deadline[e] THEN "ready" ELSE @]
    BY <1>2 DEF R!PollAgain, R!Reached, R!timerVars
  <2> QED BY <2>1 DEF ReactorOK
<1>3. ~(R!PollFirst(e) /\ R!PollAgain(e))
  BY DEF R!PollFirst, R!PollAgain
<1> QED BY <1>1, <1>2, <1>3

LEMMA ReadyLeafStep ==
  ASSUME RuntimeInv, PollReadyLeaf
  PROVE  RuntimeInv'
<1>1. /\ pc[1] = "poll" /\ kind[Here] = "ready" /\ AfterChild(pc[2], TRUE)
      /\ UNCHANGED <<executorVars, reactorVars, op, kind, yielded, spent, begun, ended>>
      /\ QueueOK /\ RootOK /\ TreeTypeOK /\ LeafOK
  BY DEF PollReadyLeaf, Polling, RuntimeInv
<1>2. /\ UNCHANGED <<status, queued, ready, live, doneRef, slot, phase, current, root, done>>
      /\ UNCHANGED <<state, armed, fired>>
  BY <1>1 DEF executorVars, reactorVars
<1>3. Here \in Leaf /\ current # NoTask
  BY <1>1, InsideFacts
<1>4. \A l : SameLeaf(l) /\ (R!Linked(l)' <=> R!Linked(l))
  BY <1>1, <1>2 DEF SameLeaf, R!Linked
<1>5. TreeOK' /\ pc' \in {"poll", "drop", "pending", "ready"} \X Child
  <2>1. PICK e \in Leaf : e = Here
    BY <1>3
  <2>2. kind[e] # "sleep"
    BY <1>1, <2>1
  <2> QED BY <1>1, <1>2, <1>4, <2>1, <2>2, AfterChildStep
<1>6. QueueOK' /\ RootOK' /\ LeafOK'
  BY <1>1, <1>2 DEF QueueOK, ReadyOK, X!LiveTasks, RootOK, LeafOK, R!Linked
<1>7. TreeTypeOK'
  BY <1>1, <1>2, <1>3, <1>5 DEF TreeTypeOK
<1> QED BY <1>5, <1>6, <1>7 DEF RuntimeInv

LEMMA YieldStep ==
  ASSUME RuntimeInv, PollYield
  PROVE  RuntimeInv'
<1>1. /\ pc[1] = "poll" /\ kind[Here] = "yield" /\ AfterChild(pc[2], Here \in yielded)
      /\ IF Here \in yielded THEN UNCHANGED executorVars ELSE X!WakeSelf
      /\ yielded' = yielded \cup {Here}
      /\ UNCHANGED <<reactorVars, op, kind, spent, begun, ended>>
      /\ QueueOK /\ RootOK /\ TreeTypeOK /\ LeafOK
  BY DEF PollYield, Polling, RuntimeInv
<1>2. PICK e \in Leaf : e = Here
  BY <1>1, InsideFacts
<1>3. current \in Task /\ current # NoTask /\ status[current] = "live" /\ ReadyOK
  BY <1>1, InsideFacts DEF QueueOK
<1>4. /\ UNCHANGED <<status, live, doneRef, slot, phase, current, root, done, state, armed, fired>>
      /\ ReadyOK'
      /\ \A x \in Task : Has(ready', x) <=> (Has(ready, x) \/ (x = current /\ e \notin yielded))
  <2>1. CASE e \in yielded
    BY <1>1, <1>2, <1>3, <2>1 DEF executorVars, reactorVars, ReadyOK
  <2>2. CASE e \notin yielded
    BY <1>1, <1>2, <1>3, <2>2, WakeEffect DEF reactorVars
  <2> QED BY <2>1, <2>2
<1>5. QueueOK' /\ RootOK'
  <2>1. \A t \in Task : Has(ready', t) => status[t] = "live"
    BY <1>1, <1>3, <1>4 DEF QueueOK
  <2>2. QueueOK'
    BY <1>1, <1>4, <2>1, QueueFrame DEF QueueOK
  <2> QED BY <1>1, <1>4, <2>2 DEF RootOK
<1>6. \A l : R!Linked(l)' <=> R!Linked(l)
  BY <1>4 DEF R!Linked
<1>7. TreeOK' /\ pc' \in {"poll", "drop", "pending", "ready"} \X Child
  <2>1. PICK r \in BOOLEAN : r = IF e \in yielded THEN TRUE ELSE FALSE
    OBVIOUS
  <2>2. AfterChild(pc[2], r)
    BY <1>1, <1>2, <2>1 DEF AfterChild
  <2>3. \A l \in Leaf : l # e => SameLeaf(l)
    BY <1>1, <1>2, <1>4 DEF SameLeaf
  <2>4. ~r => Polled(e)' /\ Has(ready', current)
    BY <1>1, <1>2, <1>3, <1>4, <2>1 DEF Polled
  <2>5. kind[e] # "sleep"
    BY <1>1, <1>2
  <2> QED BY <1>1, <1>2, <1>4, <1>6, <2>2, <2>3, <2>4, <2>5, AfterChildStep
<1>8. LeafOK'
  BY <1>1, <1>2, <1>4, <1>6 DEF LeafOK
<1>9. TreeTypeOK'
  BY <1>1, <1>2, <1>3, <1>4, <1>7 DEF TreeTypeOK
<1> QED BY <1>5, <1>7, <1>8, <1>9 DEF RuntimeInv

LEMMA SleepStep ==
  ASSUME RuntimeInv, ReactorOK, PollSleep
  PROVE  RuntimeInv'
<1>1. PICK e \in Leaf : e = Here
  BY InsideFacts DEF PollSleep, Polling
<1>2. /\ pc[1] = "poll" /\ kind[e] = "sleep" /\ AfterChild(pc[2], state'[e] = "ready")
      /\ \/ R!PollFirst(e) /\ (IF armed'[e] THEN X!Arm(e) ELSE UNCHANGED executorVars)
         \/ R!PollAgain(e) /\ UNCHANGED executorVars
      /\ UNCHANGED <<op, kind, yielded, spent, begun, ended>>
      /\ QueueOK /\ RootOK /\ TreeTypeOK /\ LeafOK
  BY <1>1 DEF PollSleep, Polling, RuntimeInv
<1>3. /\ current \in Task /\ current # NoTask /\ status[current] = "live"
      /\ e[1] = current
  BY <1>1, <1>2, InsideFacts
<1>4. /\ \A l \in Leaf : l # e => state'[l] = state[l] /\ armed'[l] = armed[l]
      /\ fired' = fired
      /\ state[e] = "pending"
      /\ \/ state'[e] = "ready" /\ armed'[e] = armed[e]
         \/ state'[e] = "pending" /\ armed'[e] /\ ~fired[e]
      /\ R!PollAgain(e) => armed[e] /\ armed'[e]
      /\ R!PollFirst(e) => ~armed[e] /\ ~fired[e]
      /\ armed'[e] => state'[e] = "pending" \/ armed[e]
  BY <1>2, SleepPollEffect
<1>5. /\ UNCHANGED <<status, queued, ready, live, doneRef, phase, current, root, done>>
      /\ slot' = IF R!PollFirst(e) /\ armed'[e] THEN [slot EXCEPT ![e] = current] ELSE slot
  BY <1>2, <1>4 DEF X!Arm, X!taskVars, X!callerVars, executorVars
<1>6. QueueOK' /\ RootOK'
  BY <1>2, <1>5 DEF QueueOK, ReadyOK, X!LiveTasks, RootOK
<1>7. \A l \in Leaf : l # e => SameLeaf(l) /\ (R!Linked(l)' <=> R!Linked(l))
  BY <1>2, <1>4 DEF SameLeaf, R!Linked
<1>8. \/ state'[e] = "pending" /\ armed'[e] /\ R!Linked(e)'
      \/ state'[e] = "ready" /\ (R!Linked(e)' <=> R!Linked(e)) /\ armed'[e] = armed[e]
  BY <1>4 DEF R!Linked
<1>9. TreeOK' /\ pc' \in {"poll", "drop", "pending", "ready"} \X Child
  <2>1. PICK r \in BOOLEAN : r = (state'[e] = "ready")
    OBVIOUS
  <2>2. AfterChild(pc[2], r)
    BY <1>2, <2>1
  <2>3. ~r => Polled(e)' /\ R!Linked(e)'
    BY <1>2, <1>8, <2>1 DEF Polled
  <2> QED BY <1>1, <1>2, <1>5, <1>7, <2>1, <2>2, <2>3, AfterChildStep
<1>10. LeafOK'
  <2>1. slot' \in [Leaf -> Task \cup {NoTask}]
    BY <1>2, <1>3, <1>5 DEF LeafOK
  <2>2. ASSUME NEW l \in Leaf
        PROVE  /\ kind'[l] # "sleep" => ~armed'[l] /\ state'[l] = "pending"
               /\ l \in spent' /\ kind'[l] = "sleep" => state'[l] = "dropped"
               /\ slot'[l] = IF R!Linked(l)' THEN l[1] ELSE NoTask
    <3>1. CASE l # e
      BY <1>2, <1>4, <1>5, <1>7, <3>1 DEF LeafOK
    <3>2. CASE l = e
      <4>1. e \notin spent
        BY <1>2, <1>4 DEF LeafOK
      <4>2. R!PollFirst(e) => ~R!Linked(e)
        BY <1>4 DEF R!Linked
      <4>3. R!PollAgain(e) => (R!Linked(e)' <=> R!Linked(e)) \/ (R!Linked(e)' /\ R!Linked(e))
        BY <1>4, <1>8 DEF R!Linked
      <4>4. ~(R!PollFirst(e) /\ R!PollAgain(e))
        BY <1>4
      <4>5. slot'[e] = IF R!PollFirst(e) /\ armed'[e] THEN current ELSE slot[e]
        BY <1>2, <1>5 DEF LeafOK
      <4>6. slot'[e] = IF R!Linked(e)' THEN e[1] ELSE NoTask
        BY <1>2, <1>3, <1>4, <1>8, <4>2, <4>3, <4>4, <4>5 DEF LeafOK
      <4> QED BY <1>2, <3>2, <4>1, <4>6
    <3> QED BY <3>1, <3>2
  <2> QED BY <1>2, <2>1, <2>2 DEF LeafOK
<1>11. TreeTypeOK'
  BY <1>2, <1>3, <1>5, <1>9 DEF TreeTypeOK
<1> QED BY <1>6, <1>9, <1>10, <1>11 DEF RuntimeInv

-----------------------------------------------------------------------------
(* Dropping a leaf: a sleep is out of the reactor's list, and its slot is  *)
(* empty.                                                                  *)
LEMMA DropEffect ==
  ASSUME LeafOK, ReactorOK, NEW e \in Leaf, DropLeaf(e), kind' = kind
  PROVE  /\ \A l \in Leaf : l # e => state'[l] = state[l] /\ slot'[l] = slot[l]
         /\ armed' = armed /\ fired' = fired /\ now' = now /\ dur' = dur
         /\ state'[e] = IF kind[e] = "sleep" THEN "dropped" ELSE state[e]
         /\ slot' \in [Leaf -> Task \cup {NoTask}] /\ slot'[e] = NoTask
         /\ \A l \in Leaf : R!Linked(l)' <=> R!Linked(l) /\ l # e
         /\ UNCHANGED <<status, queued, ready, live, doneRef, phase, current, root, done>>
<1>1. /\ slot' = [slot EXCEPT ![e] = NoTask]
      /\ IF kind[e] = "sleep" THEN state' = [state EXCEPT ![e] = "dropped"] ELSE state' = state
      /\ armed' = armed /\ fired' = fired /\ now' = now /\ dur' = dur
      /\ UNCHANGED <<status, queued, ready, live, doneRef, phase, current, root, done>>
  BY DEF DropLeaf, R!SleepDrop, reactorVars
<1>2. /\ \A l \in Leaf : l # e => state'[l] = state[l] /\ slot'[l] = slot[l]
      /\ state'[e] = IF kind[e] = "sleep" THEN "dropped" ELSE state[e]
      /\ slot' \in [Leaf -> Task \cup {NoTask}] /\ slot'[e] = NoTask
  BY <1>1 DEF LeafOK, ReactorOK
<1>3. ~R!Linked(e)'
  BY <1>1, <1>2 DEF R!Linked, LeafOK
<1>4. \A l \in Leaf : l # e => (R!Linked(l)' <=> R!Linked(l))
  BY <1>1, <1>2 DEF R!Linked
<1> QED BY <1>1, <1>2, <1>3, <1>4

LEMMA DropSpentStep ==
  ASSUME RuntimeInv, ReactorOK, DropSpent
  PROVE  RuntimeInv'
<1>1. PICK c \in Task, e \in Leaf : c = current /\ e = Here
  BY InsideFacts DEF DropSpent
<1>2. /\ pc[1] = "drop" /\ DropLeaf(e) /\ spent' = spent \cup {e}
      /\ pc' = IF pc[2] = "a" /\ <<c, "b">> \notin spent THEN <<"poll", "b">>
               ELSE IF {<<c, x>> : x \in Child} \subseteq spent' THEN <<"ready", "a">>
               ELSE <<"pending", "a">>
      /\ UNCHANGED <<op, kind, yielded, begun, ended>>
      /\ QueueOK /\ RootOK /\ TreeTypeOK /\ LeafOK
  BY <1>1 DEF DropSpent, RuntimeInv
<1>3. /\ c # NoTask /\ status[c] = "live" /\ ended[c] = -1 /\ begun[c] # -1 /\ InPoll
      /\ e[1] = c /\ e[2] = pc[2] /\ pc[2] \in {"a", "b"} /\ e \in Leaves(c)
      /\ \A l \in Leaves(c) : l \in Leaf /\ l[1] = c /\ l[2] \in {"a", "b"} /\ l = <<c, l[2]>>
  BY <1>1, <1>2, InsideFacts
<1>4. /\ Begun(c) /\ e \in Active(c)
      /\ \A l \in Active(c) : l \notin Ahead => Waits(l)
      /\ \A l \in Ahead : l # e => Fresh(l) \/ Polled(l)
      /\ Ahead = {l \in Active(c) : pc[2] = "a" \/ l[2] = "b"}
      /\ op[c] = "join" \/ (op[c] = "then" /\ pc[2] = "a")
  BY <1>1, <1>2, <1>3 DEF InPoll, Ahead
<1>5. /\ \A l \in Leaf : l # e => state'[l] = state[l] /\ slot'[l] = slot[l]
      /\ armed' = armed /\ fired' = fired
      /\ state'[e] = IF kind[e] = "sleep" THEN "dropped" ELSE state[e]
      /\ slot' \in [Leaf -> Task \cup {NoTask}] /\ slot'[e] = NoTask
      /\ \A l \in Leaf : R!Linked(l)' <=> R!Linked(l) /\ l # e
      /\ UNCHANGED <<status, queued, ready, live, doneRef, phase, current, root, done>>
  BY <1>2, DropEffect
<1>6. QueueOK' /\ RootOK'
  BY <1>2, <1>5 DEF QueueOK, ReadyOK, X!LiveTasks, RootOK
<1>7. pc' \in {<<"poll", "b">>, <<"ready", "a">>, <<"pending", "a">>}
  BY <1>2
<1>8. TreeTypeOK'
  BY <1>1, <1>2, <1>3, <1>5, <1>7 DEF TreeTypeOK, Child
<1>9. LeafOK'
  <2>1. ASSUME NEW l \in Leaf
        PROVE  /\ kind'[l] # "sleep" => ~armed'[l] /\ state'[l] = "pending"
               /\ kind'[l] # "yield" => l \notin yielded'
               /\ l \in spent' => op'[l[1]] = "join" \/ (op'[l[1]] = "then" /\ l[2] = "a")
               /\ l \in spent' /\ kind'[l] = "sleep" => state'[l] = "dropped"
               /\ slot'[l] = IF R!Linked(l)' THEN l[1] ELSE NoTask
    <3>1. CASE l # e
      BY <1>2, <1>5, <3>1 DEF LeafOK
    <3>2. CASE l = e
      BY <1>2, <1>3, <1>4, <1>5, <3>2 DEF LeafOK
    <3> QED BY <3>1, <3>2
  <2> QED BY <1>5, <2>1 DEF LeafOK
<1>10. \A u \in Task : u # c => TaskOK(u)'
  <2>1. \A l \in Leaf : l[1] # c => SameLeaf(l) /\ (R!Linked(l)' <=> R!Linked(l))
    BY <1>2, <1>3, <1>5 DEF SameLeaf
  <2> QED BY <1>1, <1>2, <1>5, <2>1, InsideOthers
<1>11. \A l \in Leaves(c) : l # e => /\ Fresh(l) => Fresh(l)'
                                     /\ Polled(l) => Polled(l)'
                                     /\ Waits(l) => Waits(l)'
  BY <1>1, <1>2, <1>3, <1>5 DEF Fresh, Polled, Waits
<1>12. \A l \in Leaves(c) : l \in spent' <=> (l \in spent \/ l = e)
  BY <1>2
<1>13. ASSUME NEW f \in Leaves(c), f # e, f \notin spent,
              op[c] = "then" => f[2] = "b",
              \A l \in Leaves(c) : l = e \/ l = f
       PROVE  Active(c)' = {f} /\ Begun(c)'
  <2>1. <<c, "a">> \in spent' \/ op[c] = "join"
    BY <1>2, <1>3, <1>4
  <2>2. Active(c)' = {f}
    BY <1>2, <1>3, <1>4, <1>12, <1>13, <2>1 DEF Active
  <2> QED BY <1>2, <1>3, <1>12, <1>13, <2>2 DEF Begun, Leaves
<1>14. /\ \E f \in Leaves(c) : f = <<c, "a">> /\ f[2] = "a"
       /\ \E f \in Leaves(c) : f = <<c, "b">> /\ f[2] = "b"
  <2>1. \A x \in Child : <<c, x>> \in Leaf /\ <<c, x>>[1] = c /\ <<c, x>>[2] = x
    BY LeafLemma
  <2>2. "a" \in Child /\ "b" \in Child
    BY DEF Child
  <2>3. <<c, "a">> \in Leaves(c) /\ <<c, "b">> \in Leaves(c)
    BY <2>1, <2>2 DEF Leaves
  <2> QED BY <2>1, <2>2, <2>3
<1>15. ASSUME pc[2] = "a", <<c, "b">> \notin spent PROVE TaskOK(c)'
  <2>1. PICK f \in Leaves(c) : f = <<c, "b">> /\ f[2] = "b"
    BY <1>14
  <2>2. e = <<c, "a">> /\ f # e
    BY <1>3, <1>15, <2>1
  <2>3. \A l \in Leaves(c) : l = e \/ l = f
    BY <1>3, <2>1, <2>2
  <2>4. Active(c)' = {f} /\ Begun(c)'
    BY <1>13, <1>15, <2>1, <2>2, <2>3
  <2>5. pc' = <<"poll", "b">> /\ Here' = f /\ Ahead' = {f}
    BY <1>1, <1>2, <1>5, <1>15, <2>1, <2>4 DEF Here, Ahead
  <2>6. Fresh(f)' \/ Polled(f)'
    <3>1. CASE f \in Active(c)
      BY <1>4, <1>11, <1>15, <2>1, <2>2, <3>1
    <3>2. CASE f \notin Active(c)
      BY <1>4, <1>11, <1>15, <2>1, <2>2, <3>2 DEF Begun
    <3> QED BY <3>1, <3>2
  <2>7. InPoll'
    BY <1>1, <1>2, <1>5, <2>4, <2>5, <2>6 DEF InPoll
  <2> QED BY <1>1, <1>2, <1>3, <1>5, <2>5, <2>7 DEF TaskOK
<1>16. ASSUME {<<c, x>> : x \in Child} \subseteq spent', pc' = <<"ready", "a">> PROVE TaskOK(c)'
  BY <1>1, <1>2, <1>3, <1>5, <1>16 DEF TaskOK
<1>17. ASSUME ~(pc[2] = "a" /\ <<c, "b">> \notin spent),
              ~({<<c, x>> : x \in Child} \subseteq spent')
       PROVE  TaskOK(c)'
  <2>1. pc[2] = "b" /\ <<c, "a">> \notin spent
    BY <1>3, <1>12, <1>14, <1>17 DEF Child
  <2>2. PICK f \in Leaves(c) : f = <<c, "a">> /\ f[2] = "a"
    BY <1>14
  <2>3. e = <<c, "b">> /\ f # e /\ op[c] = "join"
    BY <1>3, <1>4, <2>1, <2>2
  <2>4. \A l \in Leaves(c) : l = e \/ l = f
    BY <1>3, <2>2, <2>3
  <2>5. Active(c)' = {f} /\ Begun(c)'
    BY <1>13, <2>1, <2>2, <2>3, <2>4
  <2>6. f \in Active(c) /\ f \notin Ahead
    BY <1>4, <2>1, <2>2 DEF Active
  <2>7. Waits(f)'
    BY <1>4, <1>11, <2>3, <2>6
  <2>8. pc' = <<"pending", "a">> /\ Ahead' = {}
    BY <1>2, <1>17 DEF Ahead
  <2>9. InPoll'
    BY <1>1, <1>2, <1>5, <2>5, <2>7, <2>8 DEF InPoll
  <2> QED BY <1>1, <1>2, <1>3, <1>5, <2>8, <2>9 DEF TaskOK
<1>18. TaskOK(c)'
  BY <1>2, <1>15, <1>16, <1>17
<1> QED BY <1>1, <1>6, <1>8, <1>9, <1>10, <1>18 DEF RuntimeInv, TreeOK

LEMMA DropOwnedStep ==
  ASSUME RuntimeInv, ReactorOK, DropOwned
  PROVE  RuntimeInv'
<1>1. PICK c \in Task : c = current
  BY InsideFacts DEF DropOwned
<1>2. PICK e \in Leaf : e[1] = c /\ e \notin spent /\ kind[e] = "sleep" /\ DropLeaf(e)
  BY <1>1 DEF DropOwned, Owned
<1>3. /\ pc[1] = "ready" /\ UNCHANGED <<op, kind, yielded, spent, pc, begun, ended>>
      /\ QueueOK /\ RootOK /\ TreeTypeOK /\ LeafOK
  BY DEF DropOwned, treeVars, RuntimeInv
<1>4. /\ \A l \in Leaf : l # e => state'[l] = state[l] /\ slot'[l] = slot[l]
      /\ armed' = armed /\ fired' = fired
      /\ state'[e] = "dropped"
      /\ slot' \in [Leaf -> Task \cup {NoTask}] /\ slot'[e] = NoTask
      /\ \A l \in Leaf : R!Linked(l)' <=> R!Linked(l) /\ l # e
      /\ UNCHANGED <<status, queued, ready, live, doneRef, phase, current, root, done>>
  BY <1>2, <1>3, DropEffect
<1>5. QueueOK' /\ RootOK' /\ TreeTypeOK'
  BY <1>3, <1>4 DEF QueueOK, ReadyOK, X!LiveTasks, RootOK, TreeTypeOK
<1>6. LeafOK'
  <2>1. ASSUME NEW l \in Leaf
        PROVE  /\ kind'[l] # "sleep" => ~armed'[l] /\ state'[l] = "pending"
               /\ l \in spent' /\ kind'[l] = "sleep" => state'[l] = "dropped"
               /\ slot'[l] = IF R!Linked(l)' THEN l[1] ELSE NoTask
    BY <1>2, <1>3, <1>4 DEF LeafOK
  <2> QED BY <1>3, <1>4, <2>1 DEF LeafOK
<1>7. \A u \in Task : u # c => TaskOK(u)'
  <2>1. \A l \in Leaf : l[1] # c => SameLeaf(l) /\ (R!Linked(l)' <=> R!Linked(l))
    BY <1>2, <1>3, <1>4 DEF SameLeaf
  <2> QED BY <1>1, <1>3, <1>4, <2>1, InsideOthers
<1>8. TaskOK(c)'
  <2>1. status[c] = "live" /\ ended[c] = -1 /\ begun[c] # -1
    BY <1>1, <1>3, InsideFacts
  <2> QED BY <1>1, <1>3, <1>4, <2>1 DEF TaskOK
<1> QED BY <1>5, <1>6, <1>7, <1>8 DEF RuntimeInv, TreeOK

LEMMA ReadyStep ==
  ASSUME RuntimeInv, ReactorOK, PollReady
  PROVE  RuntimeInv'
<1>1. PICK c \in Task : c = current
  BY InsideFacts DEF PollReady
<1>2. /\ pc[1] = "ready" /\ Owned(c) = {} /\ X!PollReady /\ pc' = <<"none", "a">>
      /\ ended' = [ended EXCEPT ![c] = now]
      /\ UNCHANGED <<reactorVars, op, kind, yielded, spent, begun>>
      /\ QueueOK /\ RootOK /\ TreeTypeOK /\ LeafOK
  BY <1>1 DEF PollReady, RuntimeInv
<1>3. c # NoTask /\ status[c] = "live" /\ begun[c] # -1 /\ ReadyOK
  BY <1>1, <1>2, InsideFacts DEF QueueOK
<1>4. /\ ReadyOK'
      /\ \A x \in Task : Has(ready', x) <=> (Has(ready, x) /\ x # c)
      /\ phase' = "drive" /\ current' = NoTask
      /\ UNCHANGED <<doneRef, root>>
      /\ status' = [status EXCEPT ![c] = "freed"] /\ live' = live - 1
      /\ slot' = [l \in Leaf |-> IF slot[l] = c THEN NoTask ELSE slot[l]]
  BY <1>1, <1>2, <1>3, DoneEffect
<1>5. QueueOK'
  BY <1>1, <1>2, <1>3, QueueDown
<1>6. \A u \in Task : status'[u] = IF u = c THEN "freed" ELSE status[u]
  BY <1>2, <1>4 DEF QueueOK
<1>7. RootOK'
  <2>1. /\ done' \in BOOLEAN /\ (done => done')
        /\ c = root /\ root \in doneRef => done'
    <3>1. X!WriteDone(c)
      BY <1>1, <1>2 DEF X!PollReady
    <3> QED BY <1>2, <3>1 DEF X!WriteDone, RootOK
  <2> QED BY <1>2, <1>4, <1>6, <2>1 DEF RootOK
<1>8. TreeTypeOK'
  <2>1. ended' \in [Task -> Nat \cup {-1}]
    BY <1>2 DEF TreeTypeOK, ReactorOK
  <2> QED BY <1>2, <1>4, <2>1 DEF TreeTypeOK, Child
<1>9. \A l : SameLeaf(l) /\ (R!Linked(l)' <=> R!Linked(l))
  BY <1>2 DEF SameLeaf, R!Linked, reactorVars
<1>10. \A l \in Leaf : kind[l] = "sleep" /\ l[1] = c => state[l] = "dropped"
  BY <1>2 DEF Owned, LeafOK
<1>11. \A l \in Leaf : R!Linked(l) => l[1] # c
  BY <1>2, <1>10 DEF R!Linked, LeafOK
<1>12. LeafOK'
  <2>1. slot' \in [Leaf -> Task \cup {NoTask}]
    BY <1>2, <1>4 DEF LeafOK
  <2>2. \A l \in Leaf : slot'[l] = IF R!Linked(l) THEN l[1] ELSE NoTask
    BY <1>2, <1>3, <1>4, <1>11 DEF LeafOK
  <2>3. \A l \in Leaf : slot'[l] = IF R!Linked(l)' THEN l[1] ELSE NoTask
    BY <1>9, <2>2
  <2> QED BY <1>2, <2>1, <2>3 DEF LeafOK, reactorVars
<1>13. ASSUME NEW u \in Task PROVE TaskOK(u)'
  <2>1. CASE u = c
    <3>1. \A l \in Leaves(c) : kind'[l] = "sleep" => state'[l] = "dropped"
      BY <1>2, <1>10 DEF Leaves, reactorVars
    <3> QED BY <1>4, <1>6, <2>1, <3>1 DEF TaskOK
  <2>2. CASE u # c
    <3>1. TaskOK(u) /\ u # current /\ u # current'
      BY <1>1, <1>4, <2>2, RuntimeAssumption DEF RuntimeInv, TreeOK
    <3>2. status'[u] = status[u] /\ ended'[u] = ended[u]
      BY <1>2, <1>6, <2>2 DEF TreeTypeOK
    <3> QED BY <1>2, <1>4, <1>9, <2>2, <3>1, <3>2, TaskFrame
  <2> QED BY <2>1, <2>2
<1> QED BY <1>5, <1>7, <1>8, <1>12, <1>13 DEF RuntimeInv, TreeOK

-----------------------------------------------------------------------------
(* A sequence of all the elements of a set, each once.                     *)
LEMMA EachOnce ==
  ASSUME NEW W, IsFiniteSet(W), NEW r \in [1 .. Cardinality(W) -> W],
         \A i, j \in 1 .. Cardinality(W) : r[i] = r[j] => i = j
  PROVE  r \in Seq(W) /\ Distinct(r) /\ \A x : Has(r, x) <=> x \in W
<1> DEFINE n == Cardinality(W)
<1>1. n \in Nat
  BY FS_CardinalityType
<1> HIDE DEF n
<1>2. r \in [1 .. n -> W] /\ \A i, j \in 1 .. n : r[i] = r[j] => i = j
  BY DEF n
<1>3. r \in Injection(1 .. n, W)
  BY <1>2 DEF Injection, IsInjective
<1>4. IsFiniteSet(1 .. n) /\ Cardinality(1 .. n) = n
  BY <1>1, FS_Interval
<1>5. r \in Surjection(1 .. n, W)
  BY <1>3, <1>4, FS_Injection DEF n
<1>6. r \in Seq(W) /\ DOMAIN r = 1 .. n
  BY <1>1, <1>2
<1>7. \A x \in W : \E i \in 1 .. n : r[i] = x
  BY <1>5 DEF Surjection
<1>8. \A i \in 1 .. n : r[i] \in W
  BY <1>2
<1>9. Distinct(r)
  BY <1>2, <1>6 DEF Distinct
<1>10. \A x : Has(r, x) <=> x \in W
  BY <1>6, <1>7, <1>8 DEF Has
<1> QED BY <1>6, <1>9, <1>10

(* What reactor_park takes off the list, when some timer is pending.       *)
LEMMA ParkEffect ==
  ASSUME RP!ReactorInv, R!ReactorPark, NEW n, n = now',
         NEW due, due = SubSeq(pending, 1, Len(pending) - Len(pending'))
  PROVE  /\ due \in Seq(Leaf)
         /\ \A l \in Leaf : Has(due, l) <=> R!Linked(l) /\ deadline[l] <= n
         /\ \A l \in Leaf : fired'[l] <=> fired[l] \/ (R!Linked(l) /\ deadline[l] <= n)
         /\ UNCHANGED <<dur, deadline, armed, state, startedAt>>
         /\ pending[1] \in Leaf /\ R!Linked(pending[1])
         /\ n = IF deadline[pending[1]] > now THEN deadline[pending[1]] ELSE now
         /\ \A l \in Leaf : R!Linked(l) => deadline[pending[1]] <= deadline[l]
         /\ n \in Nat /\ deadline \in [Leaf -> Nat]
<1>1. /\ RP!TypeOK /\ RP!ListOK /\ RP!Sorted
      /\ pending \in Seq(Leaf) /\ deadline \in [Leaf -> 0 .. MaxU64] /\ now \in Nat
      /\ \A l \in Leaf : Has(pending, l) <=> R!Linked(l)
      /\ \A i, j \in DOMAIN pending : i < j => deadline[pending[i]] <= deadline[pending[j]]
  BY DEF RP!ReactorInv, RP!ListOK, RP!Sorted, RP!LinkedIffOutstanding, RP!TypeOK,
         R!Linked, RP!Linked, RP!Has, Has
<1>2. /\ pending # <<>> /\ R!FireDue(n)
      /\ n \in (IF deadline[pending[1]] > now THEN deadline[pending[1]] ELSE now)
                .. ((IF deadline[pending[1]] > now THEN deadline[pending[1]] ELSE now) + 0)
      /\ UNCHANGED <<dur, deadline, armed, state, startedAt>>
  BY DEF R!ReactorPark, R!WaitUntil
<1>3. \A x \in 0 .. MaxU64 : x \in Nat
  BY RuntimeAssumption
<1>4. 1 \in DOMAIN pending /\ pending[1] \in Leaf /\ deadline \in [Leaf -> Nat]
  BY <1>1, <1>2, <1>3
<1>5. n \in Nat /\ n = IF deadline[pending[1]] > now THEN deadline[pending[1]] ELSE now
  BY <1>1, <1>2, <1>4
<1>6. R!Linked(pending[1])
  BY <1>1, <1>4 DEF Has
<1>7. \A l \in Leaf : R!Linked(l) => deadline[pending[1]] <= deadline[l]
  <2> SUFFICES ASSUME NEW l \in Leaf, R!Linked(l) PROVE deadline[pending[1]] <= deadline[l]
    OBVIOUS
  <2>1. PICK i \in DOMAIN pending : pending[i] = l
    BY <1>1 DEF Has
  <2>2. i = 1 \/ 1 < i
    BY <1>1
  <2> QED BY <1>1, <1>4, <2>1, <2>2
<1>8. \A d : R!Leading(d) = RP!Leading(d)
  BY DEF R!Leading, RP!Leading
<1>9. RP!FireDue(n) /\ pending' = SubSeq(pending, RP!Leading(n) + 1, Len(pending))
  BY <1>2, <1>8 DEF R!FireDue, RP!FireDue
<1>10. /\ RP!Leading(n) \in 0 .. Len(pending)
       /\ \A i \in DOMAIN pending : i <= RP!Leading(n) <=> deadline[pending[i]] <= n
  BY <1>1, <1>5, RP!LeadingLemma, RuntimeAssumption
<1>11. \A l \in Leaf : fired'[l] <=> fired[l] \/ (R!Linked(l) /\ deadline[l] <= n)
  <2>1. \A l \in Leaf : fired'[l] <=> (fired[l] \/ (RP!Linked(l) /\ deadline[l] <= n))
    BY <1>1, <1>2, <1>5, <1>9, RP!FireDueLemma, RuntimeAssumption
  <2> QED BY <2>1 DEF R!Linked, RP!Linked
<1>12. due = SubSeq(pending, 1, RP!Leading(n))
  <2>1. PICK k \in 0 .. Len(pending) : k = RP!Leading(n)
    BY <1>10
  <2>2. Len(pending') = Len(pending) - k
    BY <1>1, <1>9, <2>1
  <2>3. Len(pending) - Len(pending') = k
    BY <1>1, <2>1, <2>2
  <2> QED BY <2>1, <2>3
<1>13. due \in Seq(Leaf) /\ \A l \in Leaf : Has(due, l) <=> R!Linked(l) /\ deadline[l] <= n
  <2>1. PICK k \in 0 .. Len(pending) : k = RP!Leading(n)
    BY <1>10
  <2>2. due \in Seq(Leaf) /\ DOMAIN due = 1 .. k /\ \A i \in 1 .. k : due[i] = pending[i] /\ i \in DOMAIN pending
    BY <1>1, <1>12, <2>1
  <2>3. \A i \in DOMAIN pending : i \in 1 .. k <=> i <= k
    BY <1>1, <2>1
  <2> QED BY <1>1, <1>10, <2>1, <2>2, <2>3 DEF Has
<1> QED BY <1>2, <1>4, <1>5, <1>6, <1>7, <1>11, <1>13

LEMMA ParkStep ==
  ASSUME RuntimeInv, RP!ReactorInv, Park
  PROVE  /\ RuntimeInv'
         /\ phase' = "caller" => FALSE
<1>1. /\ phase = "drive" /\ ready = <<>> /\ live # 0
      /\ UNCHANGED <<status, live, doneRef, current, root, done, treeVars>>
      /\ QueueOK /\ RootOK /\ TreeTypeOK /\ LeafOK /\ TreeOK
      /\ current = NoTask
  BY DEF Park, RuntimeInv, QueueOK
<1>2. ReactorOK /\ \A t \in Task : ~Has(ready, t)
  BY <1>1, ReactorFacts DEF Has
(* A live task waits for a timer, so one is pending.                       *)
<1>3. pending # <<>>
  <2>1. PICK t \in Task : status[t] = "live"
    BY <1>1, LiveFinite DEF QueueOK, X!LiveTasks
  <2>2. Rests(t)
    BY <1>1, <1>2, <2>1, RuntimeAssumption DEF TreeOK, TaskOK
  <2>3. PICK l \in Leaves(t) : Waits(l)
    BY <2>2 DEF Rests, Begun
  <2>4. l \in Leaf /\ R!Linked(l)
    BY <1>2, <2>3 DEF Waits, Leaves
  <2> QED BY <1>2, <2>4 DEF ReactorOK, Has
<1> DEFINE dd == SubSeq(pending, 1, Len(pending) - Len(pending'))
<1>4. /\ R!ReactorPark /\ WakeOwners(dd)
      /\ phase' = IF ready' # <<>> THEN "drive" ELSE "caller"
  BY <1>3 DEF Park
<1> HIDE DEF dd
<1>5. PICK due, n : due = dd /\ n = now'
  OBVIOUS
<1>6. /\ due \in Seq(Leaf)
      /\ \A l \in Leaf : Has(due, l) <=> R!Linked(l) /\ deadline[l] <= n
      /\ \A l \in Leaf : fired'[l] <=> fired[l] \/ (R!Linked(l) /\ deadline[l] <= n)
      /\ UNCHANGED <<dur, deadline, armed, state, startedAt>>
      /\ pending[1] \in Leaf /\ R!Linked(pending[1])
      /\ n = IF deadline[pending[1]] > now THEN deadline[pending[1]] ELSE now
      /\ n \in Nat /\ deadline \in [Leaf -> Nat] /\ now \in Nat
  BY <1>2, <1>4, <1>5, ParkEffect DEF dd, ReactorOK
<1> DEFINE D == {l \in Leaf : R!Linked(l) /\ deadline[l] <= n}
           W == {l[1] : l \in D}
<1>7. \A l \in D : l \in Leaf /\ slot[l] = l[1] /\ l[1] \in Task
  BY <1>1, LeafLemma DEF LeafOK
<1>8. {slot[due[i]] : i \in DOMAIN due} = W
  <2>1. \A i \in DOMAIN due : due[i] \in D
    <3>1. \A i \in DOMAIN due : due[i] \in Leaf /\ Has(due, due[i])
      BY <1>6 DEF Has
    <3> QED BY <1>6, <3>1
  <2>2. \A l \in D : \E i \in DOMAIN due : due[i] = l
    BY <1>6 DEF Has
  <2> HIDE DEF D
  <2> QED BY <1>7, <2>1, <2>2
<1>9. W \subseteq Task /\ IsFiniteSet(W) /\ W # {}
  <2>1. W \subseteq Task
    BY <1>7
  <2>2. pending[1] \in D
    BY <1>6
  <2> HIDE DEF D
  <2>3. W # {}
    BY <2>2
  <2> HIDE DEF W
  <2> QED BY <2>1, <2>3, RuntimeAssumption, FS_Subset
<1> HIDE DEF W
<1>10. /\ ready' \in [1 .. Cardinality(W) -> W]
       /\ \A i, j \in DOMAIN ready' : i < j => ready'[i] # ready'[j]
       /\ queued' = [t \in Task |-> queued[t] \/ t \in W]
       /\ slot' = [l \in Leaf |-> IF \E i \in DOMAIN due : due[i] = l THEN NoTask ELSE slot[l]]
  <2>1. WakeOwners(due)
    BY <1>4, <1>5
  <2>2. /\ ready' \in [1 .. Cardinality(W) -> W]
        /\ queued' = [t \in Task |-> queued[t] \/ t \in W]
        /\ slot' = [l \in Leaf |-> IF \E i \in DOMAIN due : due[i] = l THEN NoTask ELSE slot[l]]
        /\ \A i, j \in DOMAIN ready' : i < j =>
             \E m \in DOMAIN due : /\ slot[due[m]] = ready'[i]
                                   /\ \A k \in 1 .. m : slot[due[k]] # ready'[j]
    BY <1>8, <2>1 DEF WakeOwners
  <2>3. \A m \in DOMAIN due : m \in 1 .. m
    BY <1>6
  <2> QED BY <2>2, <2>3
<1>11. ready' \in Seq(Task) /\ Distinct(ready') /\ \A x : Has(ready', x) <=> x \in W
  <2>1. Cardinality(W) \in Nat
    BY <1>9, FS_CardinalityType
  <2>2. \A i, j \in 1 .. Cardinality(W) : ready'[i] = ready'[j] => i = j
    <3>1. \A i, j \in 1 .. Cardinality(W) : i < j \/ j < i \/ i = j
      BY <2>1
    <3>2. DOMAIN ready' = 1 .. Cardinality(W)
      BY <1>10
    <3> QED BY <1>10, <3>1, <3>2
  <2>3. PICK r : r = ready'
    OBVIOUS
  <2>4. r \in Seq(W) /\ Distinct(r) /\ \A x : Has(r, x) <=> x \in W
    BY <1>9, <1>10, <2>2, <2>3, EachOnce
  <2>5. r \in Seq(Task)
    BY <1>9, <2>4
  <2> QED BY <2>3, <2>4, <2>5
<1>12. phase' = "drive"
  <2>1. \A x : ~Has(<<>>, x)
    BY DEF Has
  <2> QED BY <1>4, <1>9, <1>11, <2>1
<1>13. \A t \in W : status[t] = "live"
  <2> SUFFICES ASSUME NEW l \in Leaf, R!Linked(l) PROVE status[l[1]] = "live"
    BY DEF W
  <2>1. l[1] \in Task /\ l \in Leaves(l[1])
    BY LeafLemma DEF Leaves
  <2>2. kind[l] = "sleep" /\ armed[l] /\ state[l] # "dropped"
    BY <1>1 DEF R!Linked, LeafOK
  <2>3. TaskOK(l[1])
    BY <1>1, <2>1 DEF TreeOK
  <2>4. status[l[1]] # "unborn" /\ status[l[1]] # "freed"
    BY <2>1, <2>2, <2>3 DEF TaskOK, Unborn, Fresh
  <2> QED BY <1>1, <2>1, <2>4 DEF QueueOK
<1>14. QueueOK'
  <2>1. ReadyOK'
    BY <1>1, <1>2, <1>10, <1>11 DEF ReadyOK, QueueOK
  <2> QED BY <1>1, <1>11, <1>12, <1>13, <2>1, QueueFrame
<1>15. RootOK' /\ TreeTypeOK'
  BY <1>1 DEF RootOK, TreeTypeOK, treeVars
<1>16. \A l \in Leaf : R!Linked(l)' <=> R!Linked(l) /\ l \notin D
  BY <1>6 DEF R!Linked
<1>17. LeafOK'
  <2>1. \A l \in Leaf : slot'[l] = IF R!Linked(l)' THEN l[1] ELSE NoTask
    <3>1. \A l \in Leaf : slot'[l] = IF l \in D THEN NoTask ELSE slot[l]
      BY <1>6, <1>10 DEF Has
    <3> QED BY <1>1, <1>16, <3>1 DEF LeafOK
  <2>2. slot' \in [Leaf -> Task \cup {NoTask}]
    BY <1>1, <1>10 DEF LeafOK
  <2> QED BY <1>1, <1>6, <2>1, <2>2 DEF LeafOK, treeVars
<1>18. ASSUME NEW u \in Task PROVE TaskOK(u)'
  <2>1. TaskOK(u) /\ u # current /\ u # current'
    BY <1>1, RuntimeAssumption DEF TreeOK
  <2>2. \A l \in Leaves(u) : R!Linked(l) => R!Linked(l)' \/ Has(ready', u)
    BY <1>11, <1>16 DEF Leaves, W
  <2>3. \A l : SameLeaf(l)
    BY <1>1, <1>6 DEF SameLeaf, treeVars
  <2> QED BY <1>1, <1>2, <2>1, <2>2, <2>3, TaskFrame DEF treeVars
<1> QED BY <1>12, <1>14, <1>15, <1>17, <1>18 DEF RuntimeInv, TreeOK

-----------------------------------------------------------------------------
LEMMA RuntimeInit == Init => RuntimeInv /\ RP!ReactorInv
<1> SUFFICES ASSUME Init PROVE RuntimeInv /\ RP!ReactorInv
  OBVIOUS
<1>1. RP!ReactorInv
  BY ReactorSame, RP!ReactorInitInv, RuntimeAssumption DEF Init
<1>2. /\ status = [t \in Task |-> "unborn"] /\ queued = [t \in Task |-> FALSE]
      /\ ready = <<>> /\ live = 0 /\ doneRef = {} /\ slot = [l \in Leaf |-> NoTask]
      /\ phase = "caller" /\ current = NoTask /\ root = NoTask /\ done = FALSE
  BY DEF Init, X!Init
<1>3. /\ armed = [l \in Leaf |-> FALSE] /\ state = [l \in Leaf |-> "pending"]
  BY DEF Init, R!Init, R!SleepIn
<1>4. QueueOK
  <2>1. ready \in Seq(Task) /\ Distinct(ready) /\ \A x : ~Has(ready, x)
    BY <1>2 DEF Distinct, Has
  <2>2. live = Cardinality(X!LiveTasks)
    <3>1. X!LiveTasks = {}
      BY <1>2 DEF X!LiveTasks
    <3> QED BY <1>2, <3>1, FS_EmptySet
  <2> QED BY <1>2, <2>1, <2>2 DEF QueueOK, ReadyOK
<1>5. RootOK
  BY <1>2 DEF RootOK
<1>6. TreeTypeOK
  BY <1>2 DEF Init, TreeTypeOK, Child
<1>7. LeafOK
  BY <1>2, <1>3 DEF Init, LeafOK, R!Linked
<1>8. TreeOK
  BY <1>2, <1>3, RuntimeAssumption DEF Init, TreeOK, TaskOK, Unborn, Fresh, Leaves
<1> QED BY <1>1, <1>4, <1>5, <1>6, <1>7, <1>8 DEF RuntimeInv

LEMMA RuntimeStep ==
  ASSUME RuntimeInv, RP!ReactorInv, [Next]_vars
  PROVE  RuntimeInv' /\ RP!ReactorInv'
<1>1. ReactorOK
  BY ReactorFacts
<1>2. RP!ReactorInv'
  BY RuntimeReactor DEF RuntimeInv, QueueOK
<1>3. RuntimeInv'
  BY <1>1, PollTaskStep, ReadyLeafStep, YieldStep, SleepStep, DropSpentStep, PendingStep,
     DropOwnedStep, ReadyStep, ParkStep, ReturnStep, SpawnStep DEF Next, Step
<1> QED BY <1>2, <1>3

(* In every reachable state the executor's queue, the reactor's list and   *)
(* the trees of all tasks agree: a task that is not polled is queued, or   *)
(* each leaf it waits for has a linked timer holding its waker             *)
(* (executor.c:107-113, 177-218, reactor.c:185-284, future.c:16-26).       *)
THEOREM RuntimeInvariant == Safe => [](RuntimeInv /\ RP!ReactorInv)
<1>1. RuntimeInv /\ RP!ReactorInv /\ [Next]_vars => (RuntimeInv /\ RP!ReactorInv)'
  BY RuntimeStep
<1> QED BY <1>1, RuntimeInit, PTL DEF Safe

(* What the executor and the trees do to the reactor is what Reactor       *)
(* allows its callers (reactor.c:164-284, runtime.c:30-54): each step is   *)
(* one of Reactor's, so that what is shown there holds here.               *)
THEOREM ImplementsReactor == Safe => R!Safe
<1>1. RuntimeInv /\ [Next]_vars => [R!Next]_R!vars
  BY ReactorStep DEF RuntimeInv, QueueOK
<1>2. Init => R!Init
  BY DEF Init
<1>3. RuntimeInv /\ RP!ReactorInv => RuntimeInv
  OBVIOUS
<1> QED BY <1>1, <1>2, <1>3, RuntimeInvariant, PTL DEF Safe, R!Safe

(* The library's own futures and timers keep the promises Executor builds  *)
(* on (executor.c:17-22, 107-113, 154-218): no timer holds the waker of a  *)
(* task that is not live, the queue, its flags and the count agree, and a  *)
(* live task that is not being polled is queued or held by a timer.        *)
THEOREM ExecutorSound == Safe => [](X!QueueSound /\ X!NoLostWakeup)
<1>1. ASSUME RuntimeInv, RP!ReactorInv PROVE X!QueueSound /\ X!NoLostWakeup
  <2>1. QueueOK /\ RootOK /\ TreeTypeOK /\ LeafOK /\ TreeOK /\ ReactorOK
    BY <1>1, ReactorFacts DEF RuntimeInv
  <2>2. \A s \in Leaf : slot[s] # NoTask => slot[s] = s[1] /\ R!Linked(s)
    BY <2>1 DEF LeafOK
  <2>3. ASSUME NEW s \in Leaf, slot[s] # NoTask PROVE status[slot[s]] = "live"
    <3>1. slot[s] = s[1] /\ R!Linked(s) /\ s[1] \in Task /\ s \in Leaves(s[1])
      BY <2>2, <2>3, LeafLemma DEF Leaves
    <3>2. kind[s] = "sleep" /\ armed[s] /\ state[s] # "dropped"
      BY <2>1, <3>1 DEF R!Linked, LeafOK
    <3>3. TaskOK(s[1]) /\ status[s[1]] \in {"unborn", "live", "freed"}
      BY <2>1, <3>1 DEF TreeOK, QueueOK
    <3> QED BY <3>1, <3>2, <3>3 DEF TaskOK, Unborn, Fresh
  <2>4. ASSUME NEW t \in Task, status[t] = "live", t # current, ~Has(ready, t)
        PROVE  \E s \in Leaf : slot[s] = t
    <3>1. Rests(t)
      BY <2>1, <2>4 DEF TreeOK, TaskOK
    <3>2. PICK l \in Leaves(t) : Waits(l)
      BY <3>1 DEF Rests, Begun
    <3>3. l \in Leaf /\ l[1] = t /\ R!Linked(l)
      BY <2>4, <3>2 DEF Leaves, Waits
    <3> QED BY <2>1, <3>3 DEF LeafOK
  <2>5. X!NoLostWakeup
    BY <2>4 DEF X!NoLostWakeup, X!LiveTasks, X!Stored, X!Has, Has
  <2>6. X!OnlyLiveTasksReachable
    BY <2>1, <2>3 DEF X!OnlyLiveTasksReachable, QueueOK, ReadyOK, Has
  <2>7. X!QueueMatchesFlags /\ X!LiveCountExact
    <3>1. ReadyOK /\ live = Cardinality(X!LiveTasks)
      BY <2>1 DEF QueueOK
    <3>2. X!Distinct(ready) /\ \A t \in Task : queued[t] <=> X!Has(ready, t)
      BY ONLY <3>1 DEF ReadyOK, X!Has, Has, X!Distinct, Distinct
    <3>3. X!Cardinality(X!LiveTasks) = Cardinality(X!LiveTasks)
      BY ONLY DEF X!Cardinality, Cardinality
    <3> QED BY <3>1, <3>2, <3>3 DEF X!QueueMatchesFlags, X!LiveCountExact
  <2>8. X!TypeOK
    BY <2>1, LiveFinite DEF X!TypeOK, QueueOK, ReadyOK, RootOK, LeafOK
  <2> QED BY <2>5, <2>6, <2>7, <2>8 DEF X!QueueSound
<1>2. RuntimeInv /\ RP!ReactorInv => X!QueueSound /\ X!NoLostWakeup
  BY <1>1
<1> QED BY <1>2, RuntimeInvariant, PTL

(* The composition never stalls: run and block_on return only when every   *)
(* task is finished, and then no timer is pending (executor.c:213-214,     *)
(* runtime.c:84-137).                                                      *)
THEOREM StopsCleanTheorem == Safe => StopsClean
<1>1. RuntimeInv /\ RP!ReactorInv /\ RuntimeInv' /\ RP!ReactorInv' /\ [Next]_vars
        => [phase # "caller" /\ phase' = "caller"
              => X!LiveTasks' = {} /\ pending' = <<>> /\ (root' # NoTask => done')]_vars
  <2> SUFFICES ASSUME RuntimeInv, RP!ReactorInv, RuntimeInv', RP!ReactorInv', Next,
                      phase # "caller", phase' = "caller"
               PROVE  X!LiveTasks' = {} /\ pending' = <<>> /\ (root' # NoTask => done')
    OBVIOUS
  <2>1. ReactorOK /\ ReactorOK'
    BY ReactorFacts
  <2>2. Finish
    <3>1. ~Park
      BY ParkStep
    <3>2. ~PollTask /\ ~PollReady
      <4>1. ReadyOK /\ (pc[1] # "none" => current \in Task)
        BY InsideFacts DEF RuntimeInv, QueueOK
      <4>2. PollReady => phase' = "drive"
        BY <4>1, DoneEffect DEF PollReady
      <4> QED BY <4>1, <4>2, PopEffect DEF PollTask
    <3>3. ~(PollReadyLeaf \/ DropSpent \/ PollPending \/ DropOwned \/ PollYield \/ PollSleep)
      BY DEF PollReadyLeaf, PollYield, PollSleep, DropSpent, PollPending, DropOwned, DropLeaf,
             X!WakeSelf, X!Arm, executorVars
    <3>4. ~Run /\ \A t \in Task : ~Spawn(t) /\ ~BlockOn(t)
      BY DEF Run, Spawn, BlockOn, X!Run, X!BlockOn, X!MayDrive
    <3> QED BY <3>1, <3>2, <3>3, <3>4 DEF Next, Step
  <2>3. live' = 0 /\ X!LiveTasks' = {}
    <3>1. live' = 0 /\ UNCHANGED status
      BY <2>2 DEF Finish, X!DriveReturn, X!taskVars
    <3>2. live = Cardinality(X!LiveTasks) /\ live' = live
      BY <2>2 DEF Finish, X!DriveReturn, X!taskVars, RuntimeInv, QueueOK
    <3> QED BY <3>1, <3>2, LiveFinite DEF X!LiveTasks
  <2>4. \A t \in Task : status'[t] # "live"
    BY <2>3 DEF X!LiveTasks
  <2>5. ASSUME NEW l \in Leaf PROVE ~R!Linked(l)'
    <3>1. l[1] \in Task /\ l \in Leaves(l[1])
      BY LeafLemma DEF Leaves
    <3>2. TaskOK(l[1])' /\ LeafOK' /\ status'[l[1]] \in {"unborn", "freed"}
      BY <2>4, <3>1 DEF RuntimeInv, TreeOK, QueueOK
    <3>3. (kind'[l] = "sleep" => state'[l] = "dropped") \/ ~armed'[l]
      BY <3>1, <3>2 DEF TaskOK, Unborn, Fresh
    <3> QED BY <3>2, <3>3 DEF R!Linked, LeafOK
  <2>6. pending' = <<>>
    BY <2>1, <2>5 DEF ReactorOK, Has
  <2>7. root' # NoTask => done'
    BY <2>4 DEF RuntimeInv, RootOK, QueueOK
  <2> QED BY <2>3, <2>6, <2>7
<1> QED BY <1>1, RuntimeInvariant, PTL DEF StopsClean, Safe

-----------------------------------------------------------------------------
(* Time.                                                                   *)
LEMMA TimeFacts ==
  ASSUME TreeTypeOK, ReactorOK
  PROVE  /\ now \in Nat
         /\ \A l \in Leaf : /\ Takes(l) \in Nat /\ StartOf(l) \in Int /\ EndOf(l) \in Int
                            /\ EndOf(l) = StartOf(l) + Takes(l)
                            /\ kind[l] # "sleep" => Takes(l) = 0
                            /\ kind[l] = "sleep" => Takes(l) = dur[l]
         /\ \A t \in Task : begun[t] \in Int
<1>1. \A d \in Dur : d \in Nat
  <2>1. \A d \in 0 .. MaxU64 : d \in Nat
    BY RuntimeAssumption
  <2> QED BY <2>1, RuntimeAssumption
<1>2. \A l \in Leaf : Takes(l) \in Nat
  BY <1>1 DEF Takes, ReactorOK
<1>3. \A t \in Task : begun[t] \in Int
  BY DEF TreeTypeOK
<1>4. ASSUME NEW l \in Leaf PROVE StartOf(l) \in Int
  <2>1. l[1] \in Task /\ <<l[1], "a">> \in Leaf
    BY LeafLemma DEF Child
  <2>2. Takes(<<l[1], "a">>) \in Nat /\ begun[l[1]] \in Int
    BY <1>2, <1>3, <2>1
  <2> QED BY <2>2 DEF StartOf
<1>5. \A l \in Leaf : EndOf(l) \in Int /\ EndOf(l) = StartOf(l) + Takes(l)
  BY <1>2, <1>4 DEF EndOf
<1> QED BY <1>2, <1>3, <1>4, <1>5 DEF Takes, ReactorOK

LEMMA EndSame ==
  ASSUME NEW l \in Leaf, begun'[l[1]] = begun[l[1]], UNCHANGED <<op, kind, dur>>
  PROVE  StartOf(l)' = StartOf(l) /\ EndOf(l)' = EndOf(l)
BY DEF EndOf, StartOf, Takes

LEMMA LeafTimeFrame ==
  ASSUME NEW l \in Leaf, LeafOnTime(l), UNCHANGED <<now, op, kind, dur>>,
         begun'[l[1]] = begun[l[1]], SameLeaf(l), deadline'[l] = deadline[l],
         status'[l[1]] = "live" /\ l \in Active(l[1])' /\ Polled(l)
            => status[l[1]] = "live" /\ l \in Active(l[1])
  PROVE  LeafOnTime(l)'
<1>1. EndOf(l)' = EndOf(l)
  BY EndSame
<1>2. Polled(l)' <=> Polled(l)
  BY DEF Polled, SameLeaf
<1> QED BY <1>1, <1>2 DEF LeafOnTime, SameLeaf

LEMMA TaskTimeFrame ==
  ASSUME NEW t \in Task, TaskOnTime(t), UNCHANGED <<now, op, kind, dur>>,
         begun'[t] = begun[t], ended'[t] = ended[t]
  PROVE  TaskOnTime(t)'
BY DEF TaskOnTime, Span, Takes

LEMMA SpawnTime ==
  ASSUME RuntimeInv, TimeOK, NEW t \in Task, Spawn(t) \/ BlockOn(t)
  PROVE  TimeOK'
<1>1. /\ QueueOK /\ phase = "caller" /\ phase' \in {"caller", "drive"}
      /\ X!ExecutorPush(t, FALSE) \/ X!ExecutorPush(t, TRUE)
      /\ UNCHANGED <<current, reactorVars, treeVars>>
  BY DEF RuntimeInv, Spawn, BlockOn, X!Spawn, X!BlockOn, X!MayDrive
<1>2. current = NoTask /\ pc[1] = "none" /\ status[t] = "unborn" /\ status' = [status EXCEPT ![t] = "live"]
  BY <1>1 DEF X!ExecutorPush, QueueOK, RuntimeInv, TreeTypeOK
<1>3. /\ UNCHANGED <<now, op, kind, dur, begun, ended, pc, deadline>>
      /\ \A l : SameLeaf(l)
      /\ \A u \in Task : Active(u)' = Active(u)
  BY <1>1 DEF reactorVars, treeVars, SameLeaf, Active
<1>4. ASSUME NEW l \in Leaf PROVE LeafOnTime(l)'
  <2>1. l[1] \in Task /\ l \in Leaves(l[1])
    BY LeafLemma DEF Leaves
  <2>2. l[1] = t => ~Polled(l)
    BY <1>2, <2>1 DEF RuntimeInv, TreeOK, TaskOK, Unborn, Fresh, Polled
  <2>3. l[1] # t => status'[l[1]] = status[l[1]]
    BY <1>1, <1>2, <2>1 DEF QueueOK
  <2> QED BY <1>3, <2>1, <2>2, <2>3, LeafTimeFrame DEF TimeOK
<1>5. \A u \in Task : TaskOnTime(u)'
  BY <1>3, TaskTimeFrame DEF TimeOK
<1> QED BY <1>1, <1>2, <1>3, <1>4, <1>5 DEF TimeOK, PollOnTime

LEMMA ReturnTime ==
  ASSUME TimeOK, Run \/ Finish \/ UNCHANGED vars
  PROVE  TimeOK'
<1>1. UNCHANGED <<status, current, reactorVars, treeVars>>
  BY DEF Run, Finish, X!Run, X!DriveReturn, X!taskVars, vars, executorVars
<1>2. /\ UNCHANGED <<status, current, now, op, kind, dur, begun, ended, deadline, pc>>
      /\ \A l : SameLeaf(l)
      /\ \A u : Active(u)' = Active(u)
  BY <1>1 DEF reactorVars, treeVars, SameLeaf, Active, Leaves
<1>3. \A l \in Leaf : LeafOnTime(l)'
  BY <1>2, LeafTimeFrame DEF TimeOK
<1>4. \A u \in Task : TaskOnTime(u)'
  BY <1>2, TaskTimeFrame DEF TimeOK
<1>5. PollOnTime'
  BY <1>1 DEF TimeOK, PollOnTime, EndOf, StartOf, Takes, Span, Active,
              Ahead, Polled, Fresh, Here, Leaves, reactorVars, treeVars
<1> QED BY <1>3, <1>4, <1>5 DEF TimeOK

LEMMA PendingTime ==
  ASSUME RuntimeInv, TimeOK, PollPending
  PROVE  TimeOK'
<1>1. /\ current' = NoTask /\ pc' = <<"none", "a">>
      /\ UNCHANGED <<status, reactorVars, op, kind, yielded, spent, begun, ended>>
  BY DEF PollPending
<1>2. /\ UNCHANGED <<now, op, kind, dur, begun, ended, deadline>>
      /\ \A l : SameLeaf(l)
      /\ \A u : Active(u)' = Active(u)
  BY <1>1 DEF reactorVars, SameLeaf, Active, Leaves
<1>3. \A l \in Leaf : LeafOnTime(l)'
  BY <1>1, <1>2, LeafTimeFrame DEF TimeOK
<1>4. \A u \in Task : TaskOnTime(u)'
  BY <1>2, TaskTimeFrame DEF TimeOK
<1> QED BY <1>1, <1>3, <1>4 DEF TimeOK, PollOnTime

LEMMA PollTaskTime ==
  ASSUME RuntimeInv, ReactorOK, TimeOK, PollTask
  PROVE  TimeOK'
<1>0. PICK h \in Task : h = current'
  BY PopEffect DEF RuntimeInv, QueueOK, PollTask
<1>1. /\ QueueOK /\ X!PollNext /\ pc' = <<"poll", FirstChild(h)>>
      /\ begun' = [begun EXCEPT ![h] = IF @ = -1 THEN now ELSE @]
      /\ UNCHANGED <<reactorVars, op, kind, yielded, spent, ended>>
      /\ begun \in [Task -> Nat \cup {-1}]
  BY <1>0 DEF RuntimeInv, PollTask, TreeTypeOK
<1>2. Has(ready, h) /\ UNCHANGED status /\ status[h] = "live" /\ current = NoTask /\ now \in Nat
  BY <1>0, <1>1, PopEffect DEF QueueOK, ReactorOK
<1>3. /\ UNCHANGED <<now, op, kind, dur, ended, deadline>>
      /\ \A l : SameLeaf(l)
      /\ \A u : Active(u)' = Active(u)
      /\ \A u \in Task : u # h \/ begun[h] # -1 => begun'[u] = begun[u]
      /\ begun[h] = -1 => begun'[h] = now
  BY <1>1 DEF reactorVars, SameLeaf, Active, Leaves
<1>4. TaskOK(h) /\ h # current
  BY <1>2, RuntimeAssumption DEF RuntimeInv, TreeOK
<1>5. CASE begun[h] # -1
  <2>1. \A l \in Leaf : LeafOnTime(l)'
    BY <1>2, <1>3, <1>5, LeafLemma, LeafTimeFrame DEF TimeOK
  <2>2. \A u \in Task : TaskOnTime(u)'
    BY <1>3, <1>5, TaskTimeFrame DEF TimeOK
  <2>3. \A l \in Active(h) : Polled(l)
    BY <1>2, <1>4, <1>5 DEF TaskOK, Unborn, Rests, Waits
  <2>4. \A l \in Ahead' : ~Fresh(l)'
    <3>1. \A l : Polled(l)' <=> Polled(l)
      BY <1>3 DEF Polled, SameLeaf
    <3>2. \A l : ~(Polled(l)' /\ Fresh(l)')
      BY DEF Polled, Fresh
    <3> QED BY <1>0, <1>3, <2>3, <3>1, <3>2 DEF Ahead
  <2> QED BY <1>1, <2>1, <2>2, <2>4 DEF TimeOK, PollOnTime
<1>6. CASE begun[h] = -1
  <2>1. \A l \in Leaves(h) : Fresh(l) /\ ~Polled(l)
    BY <1>2, <1>4, <1>6 DEF TaskOK, Unborn, Rests, Begun, Fresh, Polled
  <2>2. ASSUME NEW l \in Leaf PROVE LeafOnTime(l)'
    <3>1. CASE l[1] = h
      <4>1. Fresh(l) /\ ~Polled(l)
        BY <2>1, <3>1 DEF Leaves
      <4> QED BY <1>3, <4>1 DEF LeafOnTime, Fresh, Polled, SameLeaf
    <3>2. CASE l[1] # h
      BY <1>2, <1>3, <3>2, LeafLemma, LeafTimeFrame DEF TimeOK
    <3> QED BY <3>1, <3>2
  <2>3. ASSUME NEW u \in Task PROVE TaskOnTime(u)'
    <3>1. CASE u = h
      <4>1. ended[h] = -1
        BY <1>2, <1>4 DEF TaskOK
      <4> QED BY <1>2, <1>3, <1>6, <3>1, <4>1 DEF TaskOnTime
    <3>2. CASE u # h
      BY <1>3, <3>2, TaskTimeFrame DEF TimeOK
    <3> QED BY <3>1, <3>2
  <2>4. ASSUME NEW l \in Ahead' PROVE StartOf(l)' = now
    <3>1. l \in Active(h) /\ l \in Leaves(h)
      BY <1>0, <1>3, <2>4 DEF Ahead, Active
    <3>2. <<h, "a">> \in Leaves(h) /\ l[1] = h
      BY <3>1, LeafLemma DEF Leaves, Child
    <3>3. <<h, "a">> \notin spent
      BY <2>1, <3>2 DEF Fresh
    <3>4. ~(op[h] = "then" /\ l[2] = "b")
      BY <3>1, <3>3 DEF Active
    <3> QED BY <1>2, <1>3, <1>6, <3>2, <3>4 DEF StartOf
  <2> QED BY <1>1, <1>3, <2>2, <2>3, <2>4 DEF TimeOK, PollOnTime
<1> QED BY <1>5, <1>6

(* The tree's own step, when the leaf is READY exactly at its end and is   *)
(* not polled PENDING after it.                                            *)
LEMMA AfterChildTime ==
  ASSUME RuntimeInv, ReactorOK, TimeOK, pc[1] = "poll", NEW r \in BOOLEAN, AfterChild(pc[2], r),
         NEW e \in Leaf, e = Here,
         UNCHANGED <<status, current, begun, ended, op, kind, spent, now, dur>>,
         \A l \in Leaf : l # e => SameLeaf(l) /\ deadline'[l] = deadline[l],
         now <= EndOf(e), r => now = EndOf(e),
         armed'[e] /\ state'[e] = "pending" => deadline'[e] = EndOf(e)
  PROVE  TimeOK'
<1>0. PICK c \in Task : c = current
  BY InsideFacts
<1>1. /\ c = current /\ c # NoTask /\ e[1] = c /\ e[2] = pc[2] /\ pc[2] \in {"a", "b"}
      /\ e \in Leaves(c) /\ InPoll
      /\ \A l \in Leaves(c) : l \in Leaf /\ l[1] = c /\ l[2] \in {"a", "b"} /\ l = <<c, l[2]>>
  BY <1>0, InsideFacts
<1>2. /\ e \in Active(c) /\ Active(c) \subseteq Leaves(c)
      /\ \A l \in Active(c) : l \notin Ahead => Polled(l)
      /\ \A l \in Ahead : Fresh(l) \/ Polled(l)
      /\ Ahead = {l \in Active(c) : pc[2] = "a" \/ l[2] = "b"}
      /\ status[c] = "live" /\ e \notin spent
  BY <1>0, <1>1, InsideFacts DEF InPoll, Ahead, Waits, Active
<1>3. \A t \in Task : Active(t)' = Active(t)
  <2>1. \A l \in Leaf : l \in spent' <=> l \in spent
    OBVIOUS
  <2> QED BY <2>1 DEF Active
<1>4. /\ now \in Nat
      /\ \A l \in Leaf : /\ Takes(l) \in Nat /\ StartOf(l) \in Int /\ EndOf(l) \in Int
                         /\ EndOf(l) = StartOf(l) + Takes(l)
      /\ begun[c] \in Int
  BY TimeFacts DEF RuntimeInv
<1>5. ASSUME NEW l \in Leaf PROVE LeafOnTime(l)'
  <2>1. CASE l # e
    BY <1>3, <2>1, LeafLemma, LeafTimeFrame DEF TimeOK
  <2>2. CASE l = e
    <3>1. EndOf(e)' = EndOf(e)
      BY EndSame
    <3> QED BY <1>2, <2>2, <3>1 DEF LeafOnTime
  <2> QED BY <2>1, <2>2
<1>6. \A u \in Task : TaskOnTime(u)'
  BY TaskTimeFrame DEF TimeOK
<1>7. \A l \in Active(c) : l \in Leaf /\ (Polled(l) => now <= EndOf(l))
  BY <1>1, <1>2 DEF TimeOK, LeafOnTime
<1>8. \A l \in Ahead : Fresh(l) => now = StartOf(l)
  BY <1>1 DEF TimeOK, PollOnTime
<1>9. \A l \in Leaf : EndOf(l)' = EndOf(l) /\ StartOf(l)' = StartOf(l)
  BY EndSame
<1>10. Span(c)' = Span(c)
  BY DEF Span, Takes
<1>11. ASSUME r, pc' = <<"ready", pc[2]>>,
              op[c] \in {"leaf", "select"} \/ (op[c] = "then" /\ pc[2] = "b")
       PROVE  now = begun[c] + Span(c)
  <2>1. now = StartOf(e) + Takes(e) /\ e = <<c, pc[2]>>
    BY <1>1, <1>4, <1>11
  <2>2. PICK ea \in Leaf, eb \in Leaf : ea = <<c, "a">> /\ eb = <<c, "b">>
    BY LeafLemma DEF Child
  <2>3. ea[1] = c /\ ea[2] = "a" /\ eb[1] = c /\ eb[2] = "b"
    BY <2>2
  <2>4. /\ StartOf(ea) = begun[c]
        /\ StartOf(eb) = begun[c] + (IF op[c] = "then" THEN Takes(ea) ELSE 0)
    BY <1>4, <2>2, <2>3 DEF StartOf
  <2>5. CASE op[c] = "leaf"
    <3>1. e = ea
      BY <1>1, <1>2, <2>1, <2>2, <2>5 DEF Active
    <3>2. Span(c) = Takes(ea)
      BY <2>2, <2>5 DEF Span
    <3> QED BY <2>1, <2>4, <3>1, <3>2
  <2>6. CASE op[c] = "then"
    <3>1. e = eb
      BY <1>11, <2>1, <2>2, <2>6
    <3>2. Span(c) = Takes(ea) + Takes(eb)
      BY <2>2, <2>6 DEF Span
    <3> QED BY <1>4, <2>1, <2>4, <2>6, <3>1, <3>2
  <2>7. CASE op[c] = "select"
    <3>1. Span(c) = IF Takes(ea) < Takes(eb) THEN Takes(ea) ELSE Takes(eb)
      BY <2>2, <2>7 DEF Span
    <3>2. ea \in Active(c) /\ eb \in Active(c)
      <4>1. ea \notin spent /\ eb \notin spent
        BY <2>3, <2>7 DEF RuntimeInv, LeafOK
      <4> QED BY <2>3, <2>7, <4>1 DEF Active, Leaves
    <3>3. CASE e = ea
      <4>1. eb \in Ahead
        BY <1>1, <1>2, <2>3, <3>2, <3>3
      <4>2. now <= StartOf(eb) + Takes(eb)
        BY <1>2, <1>4, <1>7, <1>8, <3>2, <4>1
      <4> QED BY <1>4, <2>1, <2>4, <2>7, <3>1, <3>3, <4>2
    <3>4. CASE e = eb
      <4>1. ea \notin Ahead
        BY <1>1, <1>2, <2>3, <3>4
      <4>2. now <= StartOf(ea) + Takes(ea)
        BY <1>2, <1>4, <1>7, <3>2, <4>1
      <4> QED BY <1>4, <2>1, <2>4, <2>7, <3>1, <3>4, <4>2
    <3> QED BY <1>1, <2>1, <2>2, <3>3, <3>4
  <2> QED BY <1>11, <2>5, <2>6, <2>7
<1>12. ASSUME pc' = <<"poll", "b">>, pc[2] = "a", NEW l \in Ahead', Fresh(l)'
       PROVE  now = StartOf(l)
  <2>1. l \in Active(c) /\ l[2] = "b" /\ l \in Leaf
    BY <1>1, <1>3, <1>7, <1>12 DEF Ahead
  <2>2. l \in Ahead /\ l # e
    BY <1>1, <1>2, <1>12, <2>1
  <2>3. Fresh(l)
    BY <1>12, <2>1, <2>2 DEF Fresh, SameLeaf
  <2> QED BY <1>8, <2>2, <2>3
<1>13. PollOnTime'
  <2>1. CASE /\ r /\ pc' = <<"ready", pc[2]>>
             /\ op[c] \in {"leaf", "select"} \/ (op[c] = "then" /\ pc[2] = "b")
    BY <1>1, <1>10, <1>11, <2>1 DEF PollOnTime
  <2>2. CASE r /\ pc' = <<"drop", pc[2]>>
    <3>1. Here' = e /\ Ahead' = Ahead
      BY <1>1, <1>3, <2>2 DEF Here, Ahead
    <3>2. now = EndOf(Here)'
      <4>1. now = EndOf(e)'
        BY <1>9, <2>2
      <4> QED BY <3>1, <4>1 DEF EndOf, StartOf, Takes
    <3>3. ASSUME NEW l \in Ahead, Fresh(l)', l # e PROVE now = StartOf(l)'
      <4>1. l \in Leaf /\ Fresh(l)
        BY <1>2, <1>7, <3>3 DEF Fresh, SameLeaf
      <4> QED BY <1>8, <1>9, <3>3, <4>1
    <3> QED BY <2>2, <3>1, <3>2, <3>3 DEF PollOnTime
  <2>3. CASE pc' = <<"poll", "b">> /\ pc[2] = "a"
    BY <1>3, <1>7, <1>9, <1>12, <1>1, <2>3 DEF PollOnTime, Ahead
  <2>4. CASE pc' = <<"pending", pc[2]>>
    BY <2>4 DEF PollOnTime, Ahead
  <2> QED BY <1>0, <2>1, <2>2, <2>3, <2>4, AfterChildCases
<1> QED BY <1>5, <1>6, <1>13 DEF TimeOK

(* What a poll knows of the leaf it is at.                                 *)
LEMMA HereTime ==
  ASSUME RuntimeInv, ReactorOK, TimeOK, pc[1] = "poll", NEW e \in Leaf, e = Here
  PROVE  /\ current \in Task /\ e \notin spent
         /\ Fresh(e) \/ Polled(e)
         /\ Fresh(e) => now = StartOf(e)
         /\ Polled(e) => now <= EndOf(e)
         /\ StartOf(e) <= now
         /\ now \in Nat /\ StartOf(e) \in Int /\ EndOf(e) = StartOf(e) + Takes(e) /\ Takes(e) \in Nat
<1>0. PICK c \in Task : c = current
  BY InsideFacts
<1>1. /\ c # NoTask /\ e[1] = c /\ e[2] = pc[2] /\ pc[2] \in {"a", "b"} /\ InPoll
      /\ status[c] = "live"
  BY <1>0, InsideFacts
<1>2. e \in Active(c) /\ e \in Ahead /\ (Fresh(e) \/ Polled(e)) /\ e \notin spent
  BY <1>0, <1>1 DEF InPoll, Ahead, Active
<1>3. /\ now \in Nat
      /\ \A l \in Leaf : /\ Takes(l) \in Nat /\ StartOf(l) \in Int /\ EndOf(l) \in Int
                         /\ EndOf(l) = StartOf(l) + Takes(l)
      /\ begun[c] \in Int
  BY TimeFacts DEF RuntimeInv
<1>4. Fresh(e) => now = StartOf(e)
  BY <1>0, <1>1, <1>2 DEF TimeOK, PollOnTime
<1>5. Polled(e) => now <= EndOf(e)
  BY <1>1, <1>2 DEF TimeOK, LeafOnTime
<1>6. begun[c] <= now
  BY DEF TimeOK, TaskOnTime
<1>7. StartOf(e) <= now
  <2>1. CASE op[c] = "then" /\ e[2] = "b"
    <3>1. PICK f \in Leaf : f = <<c, "a">> /\ f[1] = c /\ f[2] = "a"
      BY LeafLemma DEF Child
    <3>2. f \in spent
      BY <1>2, <2>1, <3>1 DEF Active
    <3>3. EndOf(f) <= now
      BY <3>2 DEF TimeOK, LeafOnTime
    <3>4. StartOf(f) = begun[c] /\ StartOf(e) = begun[c] + Takes(f)
      BY <1>1, <1>3, <2>1, <3>1 DEF StartOf
    <3> QED BY <1>3, <3>3, <3>4
  <2>2. CASE ~(op[c] = "then" /\ e[2] = "b")
    <3>1. StartOf(e) = begun[c]
      BY <1>1, <1>3, <2>2 DEF StartOf
    <3> QED BY <1>6, <3>1
  <2> QED BY <2>1, <2>2
<1> QED BY <1>0, <1>2, <1>3, <1>4, <1>5, <1>7

LEMMA ReadyLeafTime ==
  ASSUME RuntimeInv, ReactorOK, TimeOK, PollReadyLeaf
  PROVE  TimeOK'
<1>1. /\ pc[1] = "poll" /\ kind[Here] = "ready" /\ AfterChild(pc[2], TRUE)
      /\ UNCHANGED <<executorVars, reactorVars, op, kind, yielded, spent, begun, ended>>
      /\ LeafOK /\ TreeTypeOK
  BY DEF PollReadyLeaf, Polling, RuntimeInv
<1>2. PICK e \in Leaf : e = Here
  BY <1>1, InsideFacts
<1>3. /\ kind[e] = "ready" /\ ~Polled(e) /\ ~armed[e]
  BY <1>1, <1>2 DEF LeafOK, Polled
<1>4. Takes(e) = 0
  BY <1>3, TimeFacts, <1>1
<1>5. now = EndOf(e)
  BY <1>1, <1>2, <1>3, <1>4, HereTime
<1>6. /\ \A l : SameLeaf(l)
      /\ UNCHANGED <<status, current, begun, ended, op, kind, spent, now, dur, deadline, armed>>
  BY <1>1 DEF executorVars, reactorVars, SameLeaf
<1>7. now <= EndOf(e)
  BY <1>5 DEF ReactorOK
<1> QED BY <1>1, <1>2, <1>3, <1>5, <1>6, <1>7, AfterChildTime

LEMMA YieldTime ==
  ASSUME RuntimeInv, ReactorOK, TimeOK, PollYield
  PROVE  TimeOK'
<1>1. /\ pc[1] = "poll" /\ kind[Here] = "yield" /\ AfterChild(pc[2], Here \in yielded)
      /\ IF Here \in yielded THEN UNCHANGED executorVars ELSE X!WakeSelf
      /\ yielded' = yielded \cup {Here}
      /\ UNCHANGED <<reactorVars, op, kind, spent, begun, ended>>
      /\ LeafOK /\ TreeTypeOK
  BY DEF PollYield, Polling, RuntimeInv
<1>2. PICK e \in Leaf : e = Here
  BY <1>1, InsideFacts
<1>3. kind[e] = "yield" /\ ~armed[e]
  BY <1>1, <1>2 DEF LeafOK
<1>4. Takes(e) = 0
  BY <1>1, <1>3, TimeFacts
<1>5. now = EndOf(e) /\ now <= EndOf(e)
  BY <1>1, <1>2, <1>4, HereTime
<1>6. /\ UNCHANGED <<status, current, begun, ended, op, kind, spent, now, dur, deadline, armed, state>>
      /\ \A l \in Leaf : l # e => SameLeaf(l)
  <2>1. UNCHANGED <<status, current>>
    <3>1. X!WakeSelf => UNCHANGED <<status, current>>
      BY <1>1, InsideFacts, WakeEffect DEF RuntimeInv, QueueOK
    <3> QED BY <1>1, <3>1 DEF executorVars
  <2> QED BY <1>1, <1>2, <2>1 DEF reactorVars, SameLeaf
<1>7. PICK r \in BOOLEAN : r = IF e \in yielded THEN TRUE ELSE FALSE
  OBVIOUS
<1>8. AfterChild(pc[2], r)
  BY <1>1, <1>2, <1>7 DEF AfterChild
<1> QED BY <1>1, <1>2, <1>3, <1>5, <1>6, <1>8, AfterChildTime

(* A deadline that is in the clock's range is the end of its sleep.        *)
LEMMA InRange ==
  ASSUME ClockInRange, ReactorOK, NEW e \in Leaf
  PROVE  R!AddU64(now, dur[e]) = now + dur[e] /\ dur[e] \in Nat
<1>1. PICK d \in Dur : d = dur[e]
  <2>1. dur[e] \in Dur
    BY DEF ReactorOK
  <2> QED BY <2>1
<1>2. d \in Nat /\ MaxU64 \in Nat
  <2>1. d \in 0 .. MaxU64
    BY RuntimeAssumption
  <2> QED BY <2>1, RuntimeAssumption
<1>3. now + d <= MaxU64 /\ now \in Nat
  BY DEF ClockInRange, ReactorOK
<1>4. (now + d) % (MaxU64 + 1) = now + d
  BY <1>2, <1>3, NoWrap
<1> QED BY <1>1, <1>2, <1>4 DEF R!AddU64

LEMMA SleepTime ==
  ASSUME RuntimeInv, ReactorOK, TimeOK, ClockInRange, PollSleep
  PROVE  TimeOK'
<1>1. PICK e \in Leaf : e = Here
  BY InsideFacts DEF PollSleep, Polling
<1>2. /\ pc[1] = "poll" /\ kind[e] = "sleep" /\ AfterChild(pc[2], state'[e] = "ready")
      /\ \/ R!PollFirst(e) /\ (IF armed'[e] THEN X!Arm(e) ELSE UNCHANGED executorVars)
         \/ R!PollAgain(e) /\ UNCHANGED executorVars
      /\ UNCHANGED <<op, kind, yielded, spent, begun, ended>>
      /\ LeafOK /\ TreeTypeOK
  BY <1>1 DEF PollSleep, Polling, RuntimeInv
<1>3. /\ \A l \in Leaf : l # e => state'[l] = state[l] /\ armed'[l] = armed[l]
      /\ now' = now /\ dur' = dur /\ state[e] = "pending"
  BY <1>2, SleepPollEffect
<1>4. UNCHANGED <<status, current>>
  BY <1>2 DEF X!Arm, X!taskVars, X!callerVars, executorVars
<1>5. \A l \in Leaf : l # e => SameLeaf(l)
  BY <1>2, <1>3 DEF SameLeaf
<1>6. /\ now \in Nat /\ StartOf(e) \in Int /\ EndOf(e) = StartOf(e) + Takes(e)
      /\ Takes(e) = dur[e] /\ dur[e] \in Nat
      /\ Fresh(e) => now = StartOf(e)
      /\ Polled(e) => now <= EndOf(e)
      /\ Fresh(e) \/ Polled(e)
  BY <1>1, <1>2, HereTime, TimeFacts, InRange
<1>7. /\ \A l \in Leaf : l # e => deadline'[l] = deadline[l]
      /\ now <= EndOf(e) /\ (state'[e] = "ready" => now = EndOf(e))
      /\ armed'[e] /\ state'[e] = "pending" => deadline'[e] = EndOf(e)
  <2>1. CASE R!PollFirst(e)
    <3>1. ~armed[e] /\ now = StartOf(e)
      BY <1>2, <1>6, <2>1 DEF R!PollFirst, Polled
    <3>2. R!AddU64(now, dur[e]) = EndOf(e) /\ EndOf(e) = now + dur[e]
      <4>1. R!AddU64(now, dur[e]) = now + dur[e]
        BY InRange
      <4> QED BY <1>6, <3>1, <4>1
    <3>3. IF now >= EndOf(e)
          THEN deadline' = deadline /\ armed' = armed
          ELSE deadline' = [deadline EXCEPT ![e] = EndOf(e)] /\ state' = state
      BY <2>1, <3>2 DEF R!PollFirst, R!Reached, R!timerVars
    <3>4. CASE now >= EndOf(e)
      BY <1>6, <3>1, <3>2, <3>3, <3>4
    <3>5. CASE ~(now >= EndOf(e))
      BY <1>3, <1>6, <3>1, <3>2, <3>3, <3>5 DEF ReactorOK
    <3> QED BY <3>4, <3>5
  <2>2. CASE R!PollAgain(e)
    <3>1. /\ armed[e] /\ deadline' = deadline
          /\ state' = [state EXCEPT ![e] = IF now >= deadline[e] THEN "ready" ELSE @]
      BY <2>2 DEF R!PollAgain, R!Reached, R!timerVars
    <3>2. Polled(e) /\ deadline[e] = EndOf(e)
      BY <1>2, <1>3, <3>1 DEF Polled, TimeOK, LeafOnTime
    <3>3. state'[e] = IF now >= EndOf(e) THEN "ready" ELSE "pending"
      BY <1>3, <3>1, <3>2 DEF ReactorOK
    <3> QED BY <1>6, <3>1, <3>2, <3>3
  <2> QED BY <1>2, <2>1, <2>2
<1>8. PICK r \in BOOLEAN : r = (state'[e] = "ready")
  OBVIOUS
<1>9. AfterChild(pc[2], r)
  BY <1>2, <1>8
<1> QED BY <1>1, <1>2, <1>3, <1>4, <1>5, <1>7, <1>8, <1>9, AfterChildTime

LEMMA DropSpentTime ==
  ASSUME RuntimeInv, ReactorOK, TimeOK, DropSpent
  PROVE  TimeOK'
<1>1. PICK c \in Task, e \in Leaf : c = current /\ e = Here
  BY InsideFacts DEF DropSpent
<1>2. /\ pc[1] = "drop" /\ DropLeaf(e) /\ spent' = spent \cup {e}
      /\ pc' = IF pc[2] = "a" /\ <<c, "b">> \notin spent THEN <<"poll", "b">>
               ELSE IF {<<c, x>> : x \in Child} \subseteq spent' THEN <<"ready", "a">>
               ELSE <<"pending", "a">>
      /\ UNCHANGED <<op, kind, yielded, begun, ended>>
      /\ LeafOK /\ TreeTypeOK
  BY <1>1 DEF DropSpent, RuntimeInv
<1>3. /\ c # NoTask /\ status[c] = "live" /\ InPoll
      /\ e[1] = c /\ e[2] = pc[2] /\ pc[2] \in {"a", "b"} /\ e \in Leaves(c)
      /\ \A l \in Leaves(c) : l \in Leaf /\ l[1] = c /\ l[2] \in {"a", "b"} /\ l = <<c, l[2]>>
  BY <1>1, <1>2, InsideFacts
<1>4. /\ Begun(c) /\ e \in Active(c) /\ e \notin spent
      /\ Ahead = {l \in Active(c) : pc[2] = "a" \/ l[2] = "b"}
      /\ op[c] = "join" \/ (op[c] = "then" /\ pc[2] = "a")
      /\ \A l \in Leaves(c) : l \in Active(c) \/ l \in spent \/ Fresh(l)
  BY <1>1, <1>2, <1>3 DEF InPoll, Ahead, Active, Begun
<1>5. /\ \A l \in Leaf : l # e => state'[l] = state[l]
      /\ armed' = armed /\ now' = now /\ dur' = dur /\ deadline' = deadline
      /\ state'[e] = IF kind[e] = "sleep" THEN "dropped" ELSE state[e]
      /\ UNCHANGED <<status, current>>
  <2>1. deadline' = deadline
    BY <1>2 DEF DropLeaf, R!SleepDrop, reactorVars
  <2> QED BY <1>2, <2>1, DropEffect
<1>6. \A l \in Leaf : l # e => SameLeaf(l)
  BY <1>2, <1>5 DEF SameLeaf
<1>7. /\ now \in Nat
      /\ \A l \in Leaf : /\ Takes(l) \in Nat /\ StartOf(l) \in Int /\ EndOf(l) \in Int
                         /\ EndOf(l) = StartOf(l) + Takes(l)
      /\ begun[c] \in Int
  BY <1>2, TimeFacts
<1>8. /\ now = EndOf(e)
      /\ \A l \in Ahead : Fresh(l) /\ l # e => now = StartOf(l)
  BY <1>1, <1>2, <1>3 DEF TimeOK, PollOnTime
<1>9. \A l \in Leaf : EndOf(l)' = EndOf(l) /\ StartOf(l)' = StartOf(l)
  BY <1>2, <1>5, EndSame
<1>10. ASSUME NEW l \in Leaf PROVE LeafOnTime(l)'
  <2>1. CASE l # e
    <3>1. l[1] \in Task /\ l \in Leaves(l[1])
      BY LeafLemma DEF Leaves
    <3>2. l[1] = c /\ Polled(l) /\ l \in Active(c)' => l \in Active(c)
      <4>1. l \in Active(c)' => l \notin spent
        BY <1>2 DEF Active
      <4>2. ~(Fresh(l) /\ Polled(l))
        BY DEF Fresh, Polled
      <4> QED BY <1>4, <3>1, <4>1, <4>2
    <3>3. l[1] # c /\ l \in Active(l[1])' => l \in Active(l[1])
      <4> SUFFICES ASSUME l[1] # c, l \in Active(l[1])' PROVE l \in Active(l[1])
        OBVIOUS
      <4>1. <<l[1], "a">> \in spent' => <<l[1], "a">> \in spent
        BY <1>2, <1>3
      <4> QED BY <1>2, <4>1 DEF Active, Leaves
    <3> QED BY <1>2, <1>3, <1>5, <1>6, <2>1, <3>1, <3>2, <3>3, LeafTimeFrame DEF TimeOK
  <2>2. CASE l = e
    <3>1. e \notin Active(c)'
      BY <1>2 DEF Active
    <3>2. ~(armed'[e] /\ state'[e] = "pending")
      BY <1>2, <1>5 DEF LeafOK
    <3> QED BY <1>3, <1>5, <1>7, <1>8, <1>9, <2>2, <3>1, <3>2 DEF LeafOnTime
  <2> QED BY <2>1, <2>2
<1>11. \A u \in Task : TaskOnTime(u)'
  BY <1>2, <1>5, TaskTimeFrame DEF TimeOK
<1>12. PICK ea \in Leaves(c), eb \in Leaves(c) :
         ea = <<c, "a">> /\ eb = <<c, "b">> /\ ea[2] = "a" /\ eb[2] = "b" /\ ea[1] = c /\ eb[1] = c
  <2>1. \A x \in Child : <<c, x>> \in Leaf /\ <<c, x>>[1] = c /\ <<c, x>>[2] = x
    BY LeafLemma
  <2>2. "a" \in Child /\ "b" \in Child
    BY DEF Child
  <2>3. <<c, "a">> \in Leaves(c) /\ <<c, "b">> \in Leaves(c)
    BY <2>1, <2>2 DEF Leaves
  <2> QED BY <2>1, <2>2, <2>3
<1>13. /\ StartOf(ea) = begun[c]
       /\ StartOf(eb) = begun[c] + (IF op[c] = "then" THEN Takes(ea) ELSE 0)
       /\ ea \in Leaf /\ eb \in Leaf
  BY <1>3, <1>7, <1>12 DEF StartOf
<1>14. ASSUME pc[2] = "a", eb \notin spent, pc' = <<"poll", "b">> PROVE PollOnTime'
  <2>1. e = ea
    BY <1>3, <1>12, <1>14
  <2>2. ASSUME NEW l \in Ahead', Fresh(l)' PROVE now = StartOf(l)
    <3>1. l = eb /\ l # e
      BY <1>1, <1>5, <1>3, <1>12, <1>14, <2>1, <2>2 DEF Ahead, Active
    <3>2. Fresh(eb)
      BY <1>6, <1>13, <2>2, <3>1 DEF Fresh, SameLeaf
    <3>3. CASE op[c] = "then"
      BY <1>7, <1>8, <1>13, <2>1, <3>1, <3>3
    <3>4. CASE op[c] = "join"
      <4>1. eb \in Active(c)
        BY <1>3, <1>12, <1>14, <3>4 DEF Active
      <4> QED BY <1>4, <1>8, <1>14, <3>1, <3>2, <4>1
    <3> QED BY <1>4, <3>3, <3>4
  <2>3. \A l \in Ahead' : l \in Leaf
    BY DEF Ahead, Active, Leaves
  <2> QED BY <1>5, <1>9, <1>14, <2>2, <2>3 DEF PollOnTime
<1>15. ASSUME ea \in spent', eb \in spent', pc' = <<"ready", "a">> PROVE PollOnTime'
  <2>1. op[c] = "join"
    BY <1>2, <1>4, <1>3, <1>12, <1>13, <1>15 DEF LeafOK
  <2>2. EndOf(ea) <= now /\ EndOf(eb) <= now /\ (now = EndOf(ea) \/ now = EndOf(eb))
    <3>1. \A l \in spent' : l \in Leaf => EndOf(l) <= now
      BY <1>2, <1>7, <1>8 DEF TimeOK, LeafOnTime
    <3> QED BY <1>3, <1>8, <1>12, <1>13, <1>15, <3>1
  <2>3. Span(c) = IF Takes(ea) < Takes(eb) THEN Takes(eb) ELSE Takes(ea)
    BY <1>12, <2>1 DEF Span
  <2>4. now = begun[c] + Span(c)
    BY <1>7, <1>13, <2>1, <2>2, <2>3
  <2>5. Span(c)' = Span(c)
    BY <1>2, <1>5 DEF Span, Takes
  <2> QED BY <1>1, <1>2, <1>5, <1>15, <2>4, <2>5 DEF PollOnTime
<1>16. ASSUME pc' = <<"pending", "a">> PROVE PollOnTime'
  BY <1>16 DEF PollOnTime, Ahead
<1>17. PollOnTime'
  <2>1. CASE pc[2] = "a" /\ <<c, "b">> \notin spent
    BY <1>2, <1>12, <1>14, <2>1
  <2>2. CASE ~(pc[2] = "a" /\ <<c, "b">> \notin spent) /\ {<<c, x>> : x \in Child} \subseteq spent'
    BY <1>2, <1>12, <1>15, <2>2 DEF Child
  <2>3. CASE ~(pc[2] = "a" /\ <<c, "b">> \notin spent) /\ ~({<<c, x>> : x \in Child} \subseteq spent')
    BY <1>2, <1>16, <2>3
  <2> QED BY <2>1, <2>2, <2>3
<1> QED BY <1>10, <1>11, <1>17 DEF TimeOK

LEMMA DropOwnedTime ==
  ASSUME RuntimeInv, ReactorOK, TimeOK, DropOwned
  PROVE  TimeOK'
<1>1. PICK c \in Task : c = current
  BY InsideFacts DEF DropOwned
<1>2. PICK e \in Leaf : e[1] = c /\ e \notin spent /\ kind[e] = "sleep" /\ DropLeaf(e)
  BY <1>1 DEF DropOwned, Owned
<1>3. /\ pc[1] = "ready" /\ UNCHANGED <<op, kind, yielded, spent, pc, begun, ended>>
      /\ LeafOK
  BY DEF DropOwned, treeVars, RuntimeInv
<1>4. /\ \A l \in Leaf : l # e => SameLeaf(l)
      /\ armed' = armed /\ now' = now /\ dur' = dur /\ deadline' = deadline
      /\ state'[e] = "dropped" /\ UNCHANGED <<status, current>>
  <2>1. deadline' = deadline
    BY <1>2 DEF DropLeaf, R!SleepDrop, reactorVars
  <2> QED BY <1>2, <1>3, <2>1, DropEffect DEF SameLeaf
<1>5. \A u \in Task : Active(u)' = Active(u)
  BY <1>3 DEF Active
<1>6. ASSUME NEW l \in Leaf PROVE LeafOnTime(l)'
  <2>1. CASE l # e
    BY <1>3, <1>4, <1>5, <2>1, LeafLemma, LeafTimeFrame DEF TimeOK
  <2>2. CASE l = e
    <3>1. ~Polled(e)' /\ e \notin spent'
      BY <1>2, <1>3, <1>4 DEF Polled, LeafOK
    <3> QED BY <1>4, <2>2, <3>1 DEF LeafOnTime
  <2> QED BY <2>1, <2>2
<1>7. \A u \in Task : TaskOnTime(u)'
  BY <1>3, <1>4, TaskTimeFrame DEF TimeOK
<1>8. PollOnTime'
  <2>1. now = begun[c] + Span(c) /\ Span(c)' = Span(c)
    BY <1>1, <1>3, <1>4 DEF TimeOK, PollOnTime, Span, Takes
  <2> QED BY <1>1, <1>3, <1>4, <2>1 DEF PollOnTime
<1> QED BY <1>6, <1>7, <1>8 DEF TimeOK

LEMMA ReadyTime ==
  ASSUME RuntimeInv, ReactorOK, TimeOK, PollReady
  PROVE  TimeOK'
<1>1. PICK c \in Task : c = current
  BY InsideFacts DEF PollReady
<1>2. /\ pc[1] = "ready" /\ X!PollReady /\ pc' = <<"none", "a">>
      /\ ended' = [ended EXCEPT ![c] = now]
      /\ UNCHANGED <<reactorVars, op, kind, yielded, spent, begun>>
      /\ QueueOK /\ TreeTypeOK
  BY <1>1 DEF PollReady, RuntimeInv
<1>3. status' = [status EXCEPT ![c] = "freed"] /\ current' = NoTask
  BY <1>1, <1>2, DoneEffect DEF QueueOK
<1>4. \A u \in Task : status'[u] = "live" => status[u] = "live"
  BY <1>2, <1>3 DEF QueueOK
<1>5. /\ UNCHANGED <<now, op, kind, dur, begun, deadline>>
      /\ \A l : SameLeaf(l)
      /\ \A u \in Task : Active(u)' = Active(u)
  BY <1>2 DEF reactorVars, SameLeaf, Active
<1>6. \A l \in Leaf : LeafOnTime(l)'
  BY <1>4, <1>5, LeafLemma, LeafTimeFrame DEF TimeOK
<1>7. ASSUME NEW u \in Task PROVE TaskOnTime(u)'
  <2>1. CASE u = c
    <3>1. now = begun[c] + Span(c)
      BY <1>1, <1>2 DEF TimeOK, PollOnTime
    <3>2. ended'[c] = now /\ Span(c)' = Span(c)
      BY <1>2, <1>5 DEF TreeTypeOK, Span, Takes
    <3> QED BY <1>5, <2>1, <3>1, <3>2 DEF TimeOK, TaskOnTime
  <2>2. CASE u # c
    BY <1>2, <1>5, <2>2, TaskTimeFrame DEF TimeOK, TreeTypeOK
  <2> QED BY <2>1, <2>2
<1>8. PollOnTime'
  BY <1>2, <1>3 DEF PollOnTime
<1> QED BY <1>6, <1>7, <1>8 DEF TimeOK

(* The clock never jumps past the end of a leaf some task waits for.       *)
LEMMA ParkTime ==
  ASSUME RuntimeInv, RP!ReactorInv, TimeOK, Park
  PROVE  TimeOK'
<1>1. /\ phase = "drive" /\ ready = <<>> /\ live # 0
      /\ UNCHANGED <<status, live, doneRef, current, root, done, treeVars>>
      /\ QueueOK /\ LeafOK /\ TreeTypeOK /\ TreeOK /\ ReactorOK
      /\ current = NoTask /\ \A t \in Task : ~Has(ready, t)
  BY ReactorFacts DEF Park, RuntimeInv, QueueOK, Has
<1>2. /\ UNCHANGED <<op, kind, dur, begun, ended, yielded, spent, pc, state, armed, deadline>>
      /\ now' \in Nat /\ now <= now'
      /\ \A l \in Leaf : R!Linked(l) /\ now <= deadline[l] => now' <= deadline[l]
  <2>1. CASE pending = <<>>
    BY <1>1, <2>1 DEF Park, reactorVars, treeVars, ReactorOK
  <2>2. CASE pending # <<>>
    <3>1. PICK n : n = now'
      OBVIOUS
    <3>2. R!ReactorPark
      BY <2>2 DEF Park
    <3>3. /\ UNCHANGED <<dur, deadline, armed, state, startedAt>>
          /\ pending[1] \in Leaf
          /\ n = IF deadline[pending[1]] > now THEN deadline[pending[1]] ELSE now
          /\ \A l \in Leaf : R!Linked(l) => deadline[pending[1]] <= deadline[l]
          /\ n \in Nat /\ deadline \in [Leaf -> Nat]
      BY <3>1, <3>2, ParkEffect
    <3>4. PICK m \in Nat : m = deadline[pending[1]]
      BY <3>3
    <3>5. now <= n /\ \A l \in Leaf : R!Linked(l) /\ now <= deadline[l] => n <= deadline[l]
      BY <1>1, <3>3, <3>4 DEF ReactorOK
    <3> QED BY <1>1, <3>1, <3>3, <3>5 DEF treeVars
  <2> QED BY <2>1, <2>2
<1>3. \A l \in Leaf : EndOf(l)' = EndOf(l) /\ EndOf(l) \in Int /\ Polled(l)' = Polled(l)
                      /\ StartOf(l)' = StartOf(l)
  BY <1>1, <1>2, EndSame, TimeFacts DEF Polled
<1>4. \A u \in Task : Active(u)' = Active(u)
  BY <1>2 DEF Active
<1>5. ASSUME NEW l \in Leaf PROVE LeafOnTime(l)'
  <2>1. l[1] \in Task /\ LeafOnTime(l) /\ now \in Nat
    BY <1>1, LeafLemma DEF TimeOK, ReactorOK
  <2>2. ASSUME status'[l[1]] = "live", l \in Active(l[1]), Polled(l)
        PROVE  now' <= EndOf(l)
    <3>1. status[l[1]] = "live"
      BY <1>1, <2>2
    <3>2. TaskOK(l[1]) /\ l[1] # current
      BY <1>1, <2>1, RuntimeAssumption DEF TreeOK
    <3>3. Waits(l)
      BY <1>1, <2>1, <2>2, <3>1, <3>2 DEF TaskOK, Rests
    <3>4. R!Linked(l)
      BY <1>1, <2>1, <3>3 DEF Waits
    <3>5. armed[l] /\ state[l] = "pending"
      BY <1>1, <2>2, <3>4 DEF R!Linked, Polled, LeafOK
    <3>6. deadline[l] = EndOf(l) /\ now <= EndOf(l)
      BY <2>1, <2>2, <3>1, <3>5 DEF LeafOnTime
    <3> QED BY <1>2, <3>4, <3>6
  <2>3. l \in spent => EndOf(l) <= now'
    BY <1>2, <1>3, <2>1 DEF LeafOnTime
  <2>4. armed'[l] /\ state'[l] = "pending" => deadline'[l] = EndOf(l)
    BY <1>2, <2>1 DEF LeafOnTime
  <2> QED BY <1>2, <1>3, <1>4, <2>1, <2>2, <2>3, <2>4 DEF LeafOnTime
<1>6. ASSUME NEW u \in Task PROVE TaskOnTime(u)'
  <2>1. begun[u] <= now'
    <3>1. begun[u] \in Int /\ now \in Int /\ begun[u] <= now
      BY <1>1 DEF TimeOK, TaskOnTime, TreeTypeOK, ReactorOK
    <3> QED BY <1>2, <3>1
  <2>2. Span(u)' = Span(u)
    BY <1>2 DEF Span, Takes
  <2> QED BY <1>2, <2>1, <2>2 DEF TimeOK, TaskOnTime
<1>7. PollOnTime'
  <2>1. pc[1] = "none"
    BY <1>1 DEF TreeTypeOK
  <2> QED BY <1>1, <1>2, <2>1 DEF PollOnTime
<1> QED BY <1>5, <1>6, <1>7 DEF TimeOK

-----------------------------------------------------------------------------
(* Only a park moves the clock, and only forward.                          *)
LEMMA ClockGrows ==
  ASSUME RuntimeInv, RP!ReactorInv, [Next]_vars
  PROVE  now' \in Nat /\ now \in Nat /\ now <= now'
<1>1. RP!ReactorInv' /\ ReactorOK /\ now \in Nat /\ now' \in Nat
  BY RuntimeStep, ReactorFacts DEF ReactorOK
<1>2. Park => now <= now'
  <2> SUFFICES ASSUME Park, pending # <<>> PROVE now <= now'
    BY <1>1 DEF Park, reactorVars
  <2>1. PICK n : n = now'
    OBVIOUS
  <2>2. R!ReactorPark
    BY DEF Park
  <2>3. /\ n = IF deadline[pending[1]] > now THEN deadline[pending[1]] ELSE now
        /\ pending[1] \in Leaf /\ deadline \in [Leaf -> Nat]
    BY <2>1, <2>2, ParkEffect
  <2>4. PICK m \in Nat : m = deadline[pending[1]]
    BY <2>3
  <2> QED BY <1>1, <2>1, <2>3, <2>4
<1>3. ~Park => now' = now
  <2>1. PollSleep => now' = now
    BY DEF PollSleep, R!PollFirst, R!PollAgain
  <2>2. \A l : DropLeaf(l) => now' = now
    BY DEF DropLeaf, R!SleepDrop, reactorVars
  <2> QED BY <2>1, <2>2 DEF Next, Step, PollTask, PollReadyLeaf, PollYield, DropSpent, PollPending,
             DropOwned, PollReady, Finish, Run, Spawn, BlockOn, reactorVars, vars
<1> QED BY <1>1, <1>2, <1>3

LEMMA TimeStep ==
  ASSUME RuntimeInv, RP!ReactorInv, TimeOK, ClockInRange, [Next]_vars
  PROVE  TimeOK'
<1>1. ReactorOK
  BY ReactorFacts
<1> QED BY <1>1, PollTaskTime, ReadyLeafTime, YieldTime, SleepTime, DropSpentTime, PendingTime,
           DropOwnedTime, ReadyTime, ParkTime, ReturnTime, SpawnTime DEF Next, Step

LEMMA TimeInit == Init => TimeOK
<1> SUFFICES ASSUME Init PROVE TimeOK
  OBVIOUS
<1>1. /\ begun = [t \in Task |-> -1] /\ ended = [t \in Task |-> -1]
      /\ spent = {} /\ yielded = {} /\ pc = <<"none", "a">>
      /\ now = 0 /\ armed = [l \in Leaf |-> FALSE]
      /\ status = [t \in Task |-> "unborn"] /\ current = NoTask
  BY DEF Init, X!Init, R!Init, R!SleepIn
<1>2. \A l \in Leaf : LeafOnTime(l)
  BY <1>1, LeafLemma DEF LeafOnTime
<1>3. \A t \in Task : TaskOnTime(t)
  BY <1>1 DEF TaskOnTime
<1>4. PollOnTime
  BY <1>1 DEF PollOnTime
<1> QED BY <1>2, <1>3, <1>4 DEF TimeOK

(* However many tasks share the timeline, each one ends exactly when its   *)
(* sleeps demand, after the sum, the longer or the shorter of their        *)
(* durations (runtime.c:98-137), as long as no deadline passes the end of  *)
(* the clock's type, where AddU64 wraps and the sum means nothing.         *)
THEOREM OnTimeTheorem == Safe => [](ClockInRange => OnTime)
<1>1. Init => Bounded
  BY TimeInit DEF Bounded
<1>2. ASSUME RuntimeInv, RP!ReactorInv, Bounded, [Next]_vars PROVE Bounded'
  <2> SUFFICES ASSUME ClockInRange' PROVE TimeOK'
    BY DEF Bounded
  <2>1. ClockInRange
    <3>1. \A d \in Dur : d \in Int
      <4>1. \A d \in 0 .. MaxU64 : d \in Int
        BY RuntimeAssumption
      <4> QED BY <4>1, RuntimeAssumption
    <3>2. now' \in Nat /\ now \in Nat /\ now <= now' /\ MaxU64 \in Nat
      BY <1>2, ClockGrows, RuntimeAssumption
    <3>3. \A d \in Dur : now' + d <= MaxU64
      BY DEF ClockInRange
    <3> QED BY <3>1, <3>2, <3>3 DEF ClockInRange
  <2> QED BY <1>2, <2>1, TimeStep DEF Bounded
<1>3. Bounded => (ClockInRange => OnTime)
  BY DEF Bounded, TimeOK, TaskOnTime, OnTime
<1>4. RuntimeInv /\ RP!ReactorInv /\ Bounded /\ [Next]_vars => Bounded'
  BY <1>2
<1> QED BY <1>1, <1>3, <1>4, RuntimeInvariant, PTL DEF Safe
=============================================================================
