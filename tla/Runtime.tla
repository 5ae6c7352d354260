------------------------------ MODULE Runtime ------------------------------
(***************************************************************************)
(* cust_execution/src/runtime.c: an executor whose park hook is a timer    *)
(* reactor on a fake clock, driving tasks whose futures are trees: one     *)
(* leaf, or then, join2 or select2 over two leaves; a leaf is a sleep,     *)
(* yield_now or ready.                                                     *)
(*                                                                         *)
(* The module composes Executor (X) and Reactor (R): it takes their steps, *)
(* with the code between them, so that what Executor assumes of futures    *)
(* and of the park hook is here done by the library's own.  A task's poll  *)
(* is a sequence of polls and drops of its leaves, one step each.          *)
(***************************************************************************)
EXTENDS IntrusiveList, Integers, FiniteSets

CONSTANTS Task,     \* the task boxes that are ever spawned
          NoTask,   \* "no task": no current task, an empty waker
          Dur,      \* the durations of the sleeps
          MaxU64    \* the largest value of the clock's unsigned type

ASSUME RuntimeAssumption == /\ NoTask \notin Task /\ IsFiniteSet(Task)
                            /\ MaxU64 \in Nat /\ Dur \subseteq 0 .. MaxU64

Child == {"a", "b"}
Leaf  == Task \X Child

VARIABLES
  \* the executor
  status, queued, ready, live, doneRef, slot, phase, current, root, done,
  \* the reactor and its sleeps
  now, pending, dur, deadline, armed, fired, state, woken, startedAt,
  \* the trees
  op,       \* each task's tree: "leaf" (only child a), "then", "join" or "select"
  kind,     \* each leaf: "sleep", "yield" or "ready"
  yielded,  \* yield_box.yielded
  spent,    \* the leaves a then or join has seen READY and dropped
  pc,       \* inside a poll: what the tree does next, and to which child
  begun,    \* history: the clock at the first poll of each task
  ended     \* history: the clock when its future was READY

executorVars == <<status, queued, ready, live, doneRef, slot, phase, current, root, done>>
reactorVars  == <<now, pending, dur, deadline, armed, fired, state, woken, startedAt>>
treeVars     == <<op, kind, yielded, spent, pc, begun, ended>>

vars == <<executorVars, reactorVars, treeVars>>

(* runtime_wire: the reactor is the executor's park hook.  A timer holds   *)
(* the waker of the task that polls its sleep.                             *)
X == INSTANCE Executor WITH Slot <- Leaf, HasPark <- TRUE, DriveAfterStall <- FALSE
R == INSTANCE Reactor WITH Sleep <- Leaf, Start <- 0, Late <- 0, Horizon <- 0

Init ==
  /\ X!Init
  /\ R!Init
  /\ op \in [Task -> {"leaf", "then", "join", "select"}]
  /\ kind \in [Leaf -> {"sleep", "yield", "ready"}]
  /\ \A t \in Task : op[t] = "leaf" => kind[<<t, "b">>] = "ready"
  /\ \A l \in Leaf : kind[l] # "sleep" => dur[l] = CHOOSE d \in Dur : TRUE
  /\ yielded = {}
  /\ spent = {}
  /\ pc = <<"none", "a">>
  /\ begun = [t \in Task |-> -1]
  /\ ended = [t \in Task |-> -1]

-----------------------------------------------------------------------------
(* cexec_runtime_spawn, cexec_runtime_run, cexec_runtime_block_on.         *)
Spawn(t) == phase = "caller" /\ X!Spawn(t) /\ UNCHANGED <<reactorVars, treeVars>>
Run      == X!Run /\ UNCHANGED <<reactorVars, treeVars>>
BlockOn(t) == X!BlockOn(t) /\ UNCHANGED <<reactorVars, treeVars>>

(* executor_drive polls the tree of the task at the head: join and then    *)
(* skip the child they are through with.                                   *)
FirstChild(t) == IF <<t, "a">> \in spent THEN "b" ELSE "a"

PollTask ==
  /\ X!PollNext
  /\ pc' = <<"poll", FirstChild(current')>>
  /\ begun' = [begun EXCEPT ![current'] = IF @ = -1 THEN now ELSE @]
  /\ UNCHANGED <<reactorVars, op, kind, yielded, spent, ended>>

(* What the tree does after its child c returned r: then drops a and goes  *)
(* on with b in the same wake-up, join drops what is READY and always goes *)
(* on to b, select is READY with its first READY child.                    *)
AfterChild_Bug(c, r) ==                  \* join starts b when a is through
  pc' = CASE op[current] = "leaf"   -> <<IF r THEN "ready" ELSE "pending", c>>
          [] op[current] = "then"   -> IF ~r THEN <<"pending", c>>
                                       ELSE IF c = "a" THEN <<"drop", c>> ELSE <<"ready", c>>
          [] op[current] = "join"   -> IF r THEN <<"drop", c>> ELSE <<"pending", c>>
          [] op[current] = "select" -> IF r THEN <<"ready", c>>
                                       ELSE IF c = "a" THEN <<"poll", "b">> ELSE <<"pending", c>>

AfterChild(c, r) ==
  pc' = CASE op[current] = "leaf"   -> <<IF r THEN "ready" ELSE "pending", c>>
          [] op[current] = "then"   -> IF ~r THEN <<"pending", c>>
                                       ELSE IF c = "a" THEN <<"drop", c>> ELSE <<"ready", c>>
          [] op[current] = "join"   -> IF r THEN <<"drop", c>>
                                       ELSE IF c = "a" /\ <<current, "b">> \notin spent
                                       THEN <<"poll", "b">> ELSE <<"pending", c>>
          [] op[current] = "select" -> IF r THEN <<"ready", c>>
                                       ELSE IF c = "a" THEN <<"poll", "b">> ELSE <<"pending", c>>

Here == <<current, pc[2]>>
Polling(k) == pc[1] = "poll" /\ kind[Here] = k

(* ready_poll *)
PollReadyLeaf ==
  /\ Polling("ready")
  /\ AfterChild(pc[2], TRUE)
  /\ UNCHANGED <<executorVars, reactorVars, op, kind, yielded, spent, begun, ended>>

(* yield_poll: wakes its own task once.                                    *)
PollYield_Bug ==                         \* the flag is not set: READY never comes
  /\ Polling("yield")
  /\ X!WakeSelf
  /\ AfterChild(pc[2], FALSE)
  /\ UNCHANGED <<reactorVars, op, kind, yielded, spent, begun, ended>>

PollYield ==
  /\ Polling("yield")
  /\ IF Here \in yielded THEN UNCHANGED executorVars ELSE X!WakeSelf
  /\ yielded' = yielded \cup {Here}
  /\ AfterChild(pc[2], Here \in yielded)
  /\ UNCHANGED <<reactorVars, op, kind, spent, begun, ended>>

(* sleep_poll: the first PENDING leaves a clone of the waker in the timer. *)
PollSleep ==
  /\ Polling("sleep")
  /\ \/ R!PollFirst(Here) /\ (IF armed'[Here] THEN X!Arm(Here) ELSE UNCHANGED executorVars)
     \/ R!PollAgain(Here) /\ UNCHANGED executorVars
  /\ AfterChild(pc[2], state'[Here] = "ready")
  /\ UNCHANGED <<op, kind, yielded, spent, begun, ended>>

(* cexec_future_drop of a leaf: a linked timer is unlinked and its clone   *)
(* of the waker dropped.                                                   *)
DropLeaf(l) ==
  /\ IF kind[l] = "sleep" THEN R!SleepDrop(l) ELSE UNCHANGED reactorVars
  /\ slot' = [slot EXCEPT ![l] = NoTask]
  /\ UNCHANGED <<status, queued, ready, live, doneRef, phase, current, root, done>>

(* then_poll and join_poll drop a child that is READY and go on.           *)
DropSpent ==
  /\ pc[1] = "drop"
  /\ DropLeaf(Here)
  /\ spent' = spent \cup {Here}
  /\ pc' = IF pc[2] = "a" /\ <<current, "b">> \notin spent THEN <<"poll", "b">>
           ELSE IF {<<current, c>> : c \in Child} \subseteq spent' THEN <<"ready", "a">>
           ELSE <<"pending", "a">>
  /\ UNCHANGED <<op, kind, yielded, begun, ended>>

(* The task's poll returns PENDING.                                        *)
PollPending ==
  /\ pc[1] = "pending"
  /\ phase' = "drive"
  /\ current' = NoTask
  /\ pc' = <<"none", "a">>
  /\ UNCHANGED <<status, queued, ready, live, doneRef, slot, root, done>>
  /\ UNCHANGED <<reactorVars, op, kind, yielded, spent, begun, ended>>

(* It returned READY: the tree is dropped, with the leaves it still has.   *)
Owned_Bug(t) ==                          \* the loser of a select is left behind
  {l \in Leaf : l[1] = t /\ l \notin spent /\ kind[l] = "sleep" /\ state[l] = "ready"}

Owned(t) ==
  {l \in Leaf : l[1] = t /\ l \notin spent /\ kind[l] = "sleep" /\ state[l] # "dropped"}

DropOwned ==
  /\ pc[1] = "ready"
  /\ \E l \in Owned(current) : DropLeaf(l)
  /\ UNCHANGED treeVars

PollReady ==
  /\ pc[1] = "ready"
  /\ Owned(current) = {}
  /\ X!PollReady
  /\ ended' = [ended EXCEPT ![current] = now]
  /\ pc' = <<"none", "a">>
  /\ UNCHANGED <<reactorVars, op, kind, yielded, spent, begun>>

-----------------------------------------------------------------------------
(* The queue is drained.  reactor_park jumps to the earliest deadline and  *)
(* wakes the tasks of the timers that are due, in their order; it returns  *)
(* false, and the executor stops, when no timer is pending.                *)
(* The queue is empty, and each task is queued by its first timer.         *)
WakeOwners(due) ==
  LET woke == {slot[due[i]] : i \in DOMAIN due}
      sooner(t, u) == \E i \in DOMAIN due : /\ slot[due[i]] = t
                                            /\ \A j \in 1 .. i : slot[due[j]] # u
  IN  /\ ready' \in [1 .. Cardinality(woke) -> woke]
      /\ \A i, j \in DOMAIN ready' : i < j => sooner(ready'[i], ready'[j])
      /\ queued' = [t \in Task |-> queued[t] \/ t \in woke]
      /\ slot' = [l \in Leaf |-> IF \E i \in DOMAIN due : due[i] = l THEN NoTask ELSE slot[l]]

Park ==
  /\ phase = "drive" /\ ready = <<>> /\ live # 0
  /\ IF pending # <<>>
     THEN /\ R!ReactorPark
          /\ WakeOwners(SubSeq(pending, 1, Len(pending) - Len(pending')))
          /\ phase' = IF ready' # <<>> THEN "drive" ELSE "caller"
     ELSE phase' = "caller" /\ UNCHANGED <<queued, ready, slot, reactorVars>>
  /\ UNCHANGED <<status, live, doneRef, current, root, done, treeVars>>

Finish == live = 0 /\ X!DriveReturn /\ UNCHANGED <<reactorVars, treeVars>>

Step == \/ PollTask \/ PollReadyLeaf \/ PollYield \/ PollSleep \/ DropSpent
        \/ PollPending \/ DropOwned \/ PollReady \/ Park \/ Finish

Next == Step \/ Run \/ \E t \in Task : Spawn(t) \/ BlockOn(t)

Safe == Init /\ [][Next]_vars

(* One thread runs the executor, and nothing it calls blocks for ever.     *)
Spec == Safe /\ WF_vars(Step)

-----------------------------------------------------------------------------
(* The composition never stalls (executor.c:213-214): whatever the trees,  *)
(* run and block_on return with every task finished, so that block_on      *)
(* returns true, and the reactor is idle: the losing timers of selects     *)
(* were unlinked (runtime.c:84-137).                                       *)
StopsClean ==
  [][phase # "caller" /\ phase' = "caller"
       => X!LiveTasks' = {} /\ pending' = <<>> /\ (root' # NoTask => done')]_vars

(* On the fake clock a task takes exactly as long as its sleeps demand:    *)
(* the sum of a chain, the longer arm of a join, the shorter one of a      *)
(* select (runtime.c:98-137), however many tasks share the timeline.       *)
Takes(l) == IF kind[l] = "sleep" THEN dur[l] ELSE 0

Span(t) ==
  LET a == Takes(<<t, "a">>)
      b == Takes(<<t, "b">>)
  IN  CASE op[t] = "leaf" -> a
        [] op[t] = "then" -> a + b
        [] op[t] = "join" -> IF a < b THEN b ELSE a
        [] op[t] = "select" -> IF a < b THEN a ELSE b

OnTime == \A t \in Task : ended[t] # -1 => ended[t] = begun[t] + Span(t)

(* Every run and every block_on returns.                                   *)
RunEnds == phase # "caller" ~> phase = "caller"
=============================================================================
