------------------------------ MODULE Executor ------------------------------
(***************************************************************************)
(* cust_execution/src/executor.c: the single-threaded run loop.            *)
(*                                                                         *)
(* The executor, its ready queue and its task boxes are modelled exactly;  *)
(* the futures and the park hook are any that keep their contracts:        *)
(*   - a future that returns Pending has woken itself or has left a clone  *)
(*     of its waker with a wake source (future.c:16-26);                   *)
(*   - dropping a future takes its clones back from the wake sources;      *)
(*   - a park hook returns true exactly when it queued a task              *)
(*     (executor.c:40-49).                                                 *)
(* A wake source (a timer, an fd direction, a channel) is a slot that      *)
(* holds at most one waker.                                                *)
(***************************************************************************)
EXTENDS IntrusiveList, FiniteSets

CONSTANTS Task,            \* the task boxes that are ever spawned
          Slot,            \* the places where a wake source keeps a waker
          NoTask,          \* "no task": an empty slot, no current task, ...
          HasPark,         \* is a park hook installed?
          DriveAfterStall  \* does the caller keep driving the executor after
                           \* a block_on that returned false?

ASSUME ExecutorAssumption == /\ NoTask \notin Task
                             /\ IsFiniteSet(Task)
                             /\ HasPark \in BOOLEAN
                             /\ DriveAfterStall \in BOOLEAN

VARIABLES
  status,    \* the task box: "unborn", "live" (allocated) or "freed"
  queued,    \* task.queued
  ready,     \* cexec_executor.ready, head first
  live,      \* cexec_executor.live
  doneRef,   \* the tasks whose done pointer is not NULL
  slot,      \* the waker held by each wake source
  phase,     \* where control is: in the caller, in executor_drive, inside a
             \* future's poll, or inside the park hook
  current,   \* the task being polled
  root,      \* the task of the running, or the last, block_on
  done       \* that block_on's local variable `done`

vars == <<status, queued, ready, live, doneRef, slot, phase, current, root, done>>

taskVars   == <<status, queued, ready, live, doneRef>>
callerVars == <<root, done>>

LiveTasks == {t \in Task : status[t] = "live"}
Stored(t) == \E s \in Slot : slot[s] = t

TypeOK ==
  /\ status \in [Task -> {"unborn", "live", "freed"}]
  /\ queued \in [Task -> BOOLEAN]
  /\ ready \in Seq(Task)
  /\ live \in Nat
  /\ doneRef \in SUBSET Task
  /\ slot \in [Slot -> Task \cup {NoTask}]
  /\ phase \in {"caller", "drive", "poll", "park"}
  /\ current \in Task \cup {NoTask}
  /\ root \in Task \cup {NoTask}
  /\ done \in BOOLEAN

Init ==
  /\ status = [t \in Task |-> "unborn"]
  /\ queued = [t \in Task |-> FALSE]
  /\ ready = <<>>
  /\ live = 0
  /\ doneRef = {}
  /\ slot = [s \in Slot |-> NoTask]
  /\ phase = "caller"
  /\ current = NoTask
  /\ root = NoTask
  /\ done = FALSE

-----------------------------------------------------------------------------
(* task_wake: put the task on the ready queue unless it is there already.  *)
TaskWake(t) ==
  /\ queued' = [queued EXCEPT ![t] = TRUE]
  /\ ready' = IF queued[t] THEN ready ELSE AddTail(ready, t)
  /\ UNCHANGED <<status, live, doneRef>>

(* executor_push when the task box could be allocated.                     *)
ExecutorPush(t, hasDone) ==
  /\ status[t] = "unborn"
  /\ status' = [status EXCEPT ![t] = "live"]
  /\ queued' = [queued EXCEPT ![t] = TRUE]
  /\ ready' = AddTail(ready, t)
  /\ live' = live + 1
  /\ doneRef' = IF hasDone THEN doneRef \cup {t} ELSE doneRef

(* The wakers a future gave away are taken back when it is dropped.        *)
FutureDrop(t) == slot' = [s \in Slot |-> IF slot[s] = t THEN NoTask ELSE slot[s]]

-----------------------------------------------------------------------------
(* The caller.  A task may be spawned from outside the executor or from    *)
(* inside a poll.  A failed allocation drops the future and returns false  *)
(* with the executor unchanged.                                            *)
Spawn(t) ==
  /\ phase \in {"caller", "poll"}
  /\ ExecutorPush(t, FALSE)
  /\ UNCHANGED <<slot, phase, current, callerVars>>

MayDrive == /\ phase = "caller"
            /\ DriveAfterStall \/ \A t \in doneRef : status[t] # "live"

Run ==
  /\ MayDrive
  /\ phase' = "drive"
  /\ root' = NoTask
  /\ UNCHANGED <<taskVars, slot, current, done>>

BlockOn(t) ==
  /\ MayDrive
  /\ ExecutorPush(t, TRUE)
  /\ done' = FALSE
  /\ root' = t
  /\ phase' = "drive"
  /\ UNCHANGED <<slot, current>>

BlockOnOutOfMemory ==
  /\ MayDrive
  /\ done' = FALSE
  /\ root' = NoTask
  /\ UNCHANGED <<taskVars, slot, phase, current>>

-----------------------------------------------------------------------------
PopHead_Bug == ready' = PopFirst(ready) /\ UNCHANGED queued  \* flag left set

PopHead == /\ ready' = PopFirst(ready)
           /\ queued' = [queued EXCEPT ![Head(ready)] = FALSE]

(* executor_drive: pop the head, clear its flag, enter its future's poll.  *)
PollNext ==
  /\ phase = "drive"
  /\ ready # <<>>
  /\ PopHead
  /\ current' = Head(ready)
  /\ phase' = "poll"
  /\ UNCHANGED <<status, live, doneRef, slot, callerVars>>

(* What a future does while it is polled: wake itself (wake_by_ref), leave *)
(* a clone of its waker with a wake source, or take one back because the   *)
(* child that left it there is dropped.                                    *)
WakeSelf ==
  /\ phase = "poll"
  /\ TaskWake(current)
  /\ UNCHANGED <<slot, phase, current, callerVars>>

Arm(s) ==
  /\ phase = "poll"
  /\ slot[s] = NoTask
  /\ slot' = [slot EXCEPT ![s] = current]
  /\ UNCHANGED <<taskVars, phase, current, callerVars>>

Disarm(s) ==
  /\ phase = "poll"
  /\ slot[s] = current
  /\ slot' = [slot EXCEPT ![s] = NoTask]
  /\ UNCHANGED <<taskVars, phase, current, callerVars>>

(* A wake source fires: it consumes the waker it holds.  It may fire while *)
(* the executor is parked, from another future's poll, or between runs.    *)
FireSlot(s) ==
  /\ phase \in {"caller", "poll", "park"}
  /\ slot[s] # NoTask
  /\ TaskWake(slot[s])
  /\ slot' = [slot EXCEPT ![s] = NoTask]
  /\ UNCHANGED <<phase, current, callerVars>>

PollPending ==
  /\ phase = "poll"
  /\ queued[current] \/ Stored(current)
  /\ phase' = "drive"
  /\ current' = NoTask
  /\ UNCHANGED <<taskVars, slot, callerVars>>

WriteDone_Bug(t) == done' = TRUE  \* any completion sets the flag

(* `if (t->done) *t->done = true`.  A task left behind by an earlier       *)
(* block_on points into a stack frame that is gone; if another block_on is *)
(* running, its `done` may occupy the same place.                          *)
WriteDone(t) ==
  IF t \in doneRef /\ t # root /\ root # NoTask
  THEN done' \in {done, TRUE}
  ELSE done' = (done \/ (t \in doneRef /\ t = root))

UnlinkIfQueued_Bug(t) ==         \* the box is freed while it is still linked
  UNCHANGED <<ready, queued>>

(* A future may have woken its own task and still be Ready: the box is     *)
(* unlinked before it is freed.                                            *)
UnlinkIfQueued(t) ==
  /\ ready' = IF queued[t] THEN Unlink(ready, t) ELSE ready
  /\ queued' = [queued EXCEPT ![t] = FALSE]

TaskFree(t) ==
  status' = [status EXCEPT ![t] = "freed"] /\ live' = live - 1

PollReady ==
  /\ phase = "poll"
  /\ UnlinkIfQueued(current)
  /\ WriteDone(current)
  /\ FutureDrop(current)
  /\ TaskFree(current)
  /\ phase' = "drive"
  /\ current' = NoTask
  /\ UNCHANGED <<doneRef, root>>

(* The queue is drained: stop, or park on the external wake source.        *)
DriveReturn ==
  /\ phase = "drive"
  /\ ready = <<>>
  /\ live = 0 \/ ~HasPark
  /\ phase' = "caller"
  /\ UNCHANGED <<taskVars, slot, current, callerVars>>

Park ==
  /\ phase = "drive"
  /\ ready = <<>>
  /\ live # 0 /\ HasPark
  /\ phase' = "park"
  /\ UNCHANGED <<taskVars, slot, current, callerVars>>

ParkReturn ==
  /\ phase = "park"
  /\ phase' = IF ready # <<>> THEN "drive" ELSE "caller"
  /\ UNCHANGED <<taskVars, slot, current, callerVars>>

-----------------------------------------------------------------------------
Next ==
  \/ \E t \in Task : Spawn(t) \/ BlockOn(t)
  \/ \E s \in Slot : Arm(s) \/ Disarm(s) \/ FireSlot(s)
  \/ Run \/ BlockOnOutOfMemory
  \/ PollNext \/ WakeSelf \/ PollPending \/ PollReady
  \/ DriveReturn \/ Park \/ ParkReturn

(* The loop runs whenever it can, every poll returns, and so does the park *)
(* hook.  Nothing is assumed of wake sources or of the caller.             *)
Fairness == /\ WF_vars(PollNext)
            /\ WF_vars(PollPending \/ PollReady)
            /\ WF_vars(DriveReturn \/ Park)
            /\ WF_vars(ParkReturn)

Safe == Init /\ [][Next]_vars
Spec == Safe /\ Fairness

-----------------------------------------------------------------------------
(* task.queued is what keeps a task from being linked twice: it is set     *)
(* exactly for the tasks on the ready queue, and each is there once        *)
(* (executor.c:107-113, 149-153, 179-194).                                 *)
QueueMatchesFlags ==
  /\ \A t \in Task : queued[t] <=> Has(ready, t)
  /\ Distinct(ready)

(* Task lifetime (executor.c:17-22, 186-194): nothing that can still be    *)
(* polled or woken -- the queue, a stored waker, the current task -- is a  *)
(* task box that was freed or never allocated.                             *)
OnlyLiveTasksReachable ==
  /\ \A i \in DOMAIN ready : status[ready[i]] = "live"
  /\ \A s \in Slot : slot[s] # NoTask => status[slot[s]] = "live"
  /\ current # NoTask => status[current] = "live"

(* No wake is lost (executor.c:179-183): a live task that is not being     *)
(* polled is queued, or some wake source still holds its waker.  So when   *)
(* the executor stops with live tasks each of them can still be resumed.   *)
NoLostWakeup ==
  \A t \in LiveTasks : t = current \/ Has(ready, t) \/ Stored(t)

(* The counter that decides when executor_drive may return (executor.c:154,*)
(* 199, 207) is the number of task boxes allocated and not freed.          *)
LiveCountExact == live = Cardinality(LiveTasks)

(* The executor's own state is sound: types, the queue and its flags, the  *)
(* lifetimes of task boxes and their count agree (executor.c:17-22, 80-218)*)
QueueSound ==
  /\ TypeOK
  /\ QueueMatchesFlags
  /\ OnlyLiveTasksReachable
  /\ LiveCountExact

(* block_on reports whether its future completed (executor.c:225-230).     *)
BlockOnReport ==
  phase = "caller" /\ root # NoTask => (done <=> status[root] = "freed")

(* The executor keeps the promise of TaskScheduler, including that a woken *)
(* task is polled under a driven executor.                                 *)
TaskStateOf(t) ==
  CASE status[t] = "unborn" -> "unborn"
    [] status[t] = "freed"  -> "done"
    [] status[t] = "live" /\ t = current  -> IF queued[t] THEN "rerun" ELSE "running"
    [] OTHER -> IF queued[t] THEN "woken" ELSE "waiting"

Scheduler == INSTANCE TaskScheduler WITH
               st <- [t \in Task |-> TaskStateOf(t)],
               driving <- (phase # "caller")

ImplementsScheduler == Scheduler!Spec
=============================================================================
