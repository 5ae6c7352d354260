--------------------------- MODULE ExecutorProofs ---------------------------
(***************************************************************************)
(* The safety of the executor for any number of tasks and wake sources.    *)
(***************************************************************************)
EXTENDS Executor, IntrusiveListProofs, FiniteSetTheorems

(* A task is being polled exactly inside a poll.                           *)
PhaseOK == phase = "poll" <=> current # NoTask

QueueInv == /\ TypeOK
            /\ PhaseOK
            /\ QueueMatchesFlags
            /\ OnlyLiveTasksReachable
            /\ LiveCountExact

(* QueueMatchesFlags and the queue's part of TypeOK, in these terms.       *)
ReadyOK == /\ ready \in Seq(Task)
           /\ queued \in [Task -> BOOLEAN]
           /\ Distinct(ready)
           /\ \A t \in Task : queued[t] <=> Has(ready, t)

(* OnlyLiveTasksReachable without the queue's indices.                     *)
ReachOK == /\ \A t \in Task : Has(ready, t) => status[t] = "live"
           /\ \A s \in Slot : slot[s] # NoTask => status[slot[s]] = "live"
           /\ current # NoTask => status[current] = "live"

-----------------------------------------------------------------------------
(* What the four ways of changing the queue do to ReadyOK: each keeps it,  *)
(* and changes the membership of one task.                                 *)

LEMMA ReadyOKLemma == TypeOK => (QueueMatchesFlags <=> ReadyOK)
BY DEF TypeOK, QueueMatchesFlags, ReadyOK, Distinct, Has

LEMMA ReachOKLemma ==
  ready \in Seq(Task) => (OnlyLiveTasksReachable <=> ReachOK)
<1> SUFFICES ASSUME ready \in Seq(Task)
             PROVE  OnlyLiveTasksReachable <=> ReachOK
  OBVIOUS
<1>1. \A i \in DOMAIN ready : ready[i] \in Task
  OBVIOUS
<1> QED BY <1>1 DEF OnlyLiveTasksReachable, ReachOK, Has

(* executor_push of a box that is not on the queue (executor.c:149-153).   *)
LEMMA PushStep ==
  ASSUME ReadyOK, NEW t \in Task, ~Has(ready, t),
         queued' = [queued EXCEPT ![t] = TRUE],
         ready' = AddTail(ready, t)
  PROVE  ReadyOK' /\ \A x \in Task : Has(ready', x) <=> (Has(ready, x) \/ x = t)
<1>1. /\ ready' \in Seq(Task)
      /\ Distinct(ready')
      /\ \A x : Has(ready', x) <=> (Has(ready, x) \/ x = t)
  BY AddTailLemma DEF ReadyOK
<1>2. /\ queued' \in [Task -> BOOLEAN]
      /\ \A x \in Task : queued'[x] <=> (queued[x] \/ x = t)
  BY DEF ReadyOK
<1> QED BY <1>1, <1>2 DEF ReadyOK

(* task_wake, whether or not the task is queued already (executor.c:107-113).*)
LEMMA WakeStep ==
  ASSUME ReadyOK, NEW t \in Task, TaskWake(t)
  PROVE  ReadyOK' /\ \A x \in Task : Has(ready', x) <=> (Has(ready, x) \/ x = t)
<1>1. CASE queued[t]
  <2>1. ready' = ready /\ queued' = queued
    BY <1>1 DEF TaskWake, ReadyOK
  <2> QED BY <1>1, <2>1 DEF ReadyOK
<1>2. CASE ~queued[t]
  BY <1>2, PushStep DEF TaskWake, ReadyOK
<1> QED BY <1>1, <1>2

(* The pop of executor_drive (executor.c:177-180).                         *)
LEMMA PopStep ==
  ASSUME ReadyOK, ready # <<>>,
         ready' = PopFirst(ready),
         queued' = [queued EXCEPT ![Head(ready)] = FALSE]
  PROVE  /\ ReadyOK'
         /\ Head(ready) \in Task
         /\ Has(ready, Head(ready))
         /\ \A x \in Task : Has(ready', x) <=> (Has(ready, x) /\ x # Head(ready))
<1>1. /\ Head(ready) \in Task
      /\ Has(ready, Head(ready))
      /\ ready' \in Seq(Task)
      /\ Distinct(ready')
      /\ \A x : Has(ready', x) <=> (Has(ready, x) /\ x # Head(ready))
  BY PopLemma DEF ReadyOK
<1>2. /\ queued' \in [Task -> BOOLEAN]
      /\ \A x \in Task : queued'[x] <=> (queued[x] /\ x # Head(ready))
  BY <1>1 DEF ReadyOK
<1> QED BY <1>1, <1>2 DEF ReadyOK

(* The unlink of a completed task (executor.c:191-194).                    *)
LEMMA UnlinkStep ==
  ASSUME ReadyOK, NEW t \in Task, UnlinkIfQueued(t)
  PROVE  ReadyOK' /\ \A x \in Task : Has(ready', x) <=> (Has(ready, x) /\ x # t)
<1>1. /\ queued' \in [Task -> BOOLEAN]
      /\ \A x \in Task : queued'[x] <=> (queued[x] /\ x # t)
  BY DEF ReadyOK, UnlinkIfQueued
<1>2. CASE queued[t]
  <2>1. ready' = Unlink(ready, t)
    BY <1>2 DEF UnlinkIfQueued
  <2>2. Has(ready, t)
    BY <1>2 DEF ReadyOK
  <2>3. /\ ready' \in Seq(Task)
        /\ Distinct(ready')
        /\ \A x : Has(ready', x) <=> (Has(ready, x) /\ x # t)
    BY <2>1, <2>2, UnlinkLemma DEF ReadyOK
  <2> QED BY <1>1, <2>3 DEF ReadyOK
<1>3. CASE ~queued[t]
  <2>1. ready' = ready
    BY <1>3 DEF UnlinkIfQueued
  <2> QED BY <1>1, <1>3, <2>1 DEF ReadyOK
<1> QED BY <1>2, <1>3

-----------------------------------------------------------------------------
(* executor_push and completion move the live counter with the set of      *)
(* live tasks (executor.c:154, 199).                                       *)
LEMMA LiveUp ==
  ASSUME TypeOK, LiveCountExact, NEW t \in Task, NEW b, ExecutorPush(t, b)
  PROVE  live' \in Nat /\ LiveCountExact'
<1>1. LiveTasks' = LiveTasks \cup {t} /\ t \notin LiveTasks
  BY DEF LiveTasks, ExecutorPush, TypeOK
<1>2. IsFiniteSet(LiveTasks)
  BY ExecutorAssumption, FS_Subset DEF LiveTasks
<1>3. Cardinality(LiveTasks \cup {t}) = Cardinality(LiveTasks) + 1
  BY <1>1, <1>2, FS_AddElement
<1> QED BY <1>1, <1>3 DEF LiveCountExact, ExecutorPush, TypeOK

LEMMA LiveDown ==
  ASSUME TypeOK, LiveCountExact, NEW t \in Task, status[t] = "live",
         status' = [status EXCEPT ![t] = "freed"], live' = live - 1
  PROVE  live' \in Nat /\ LiveCountExact'
<1>1. LiveTasks' = LiveTasks \ {t} /\ t \in LiveTasks
  BY DEF LiveTasks, TypeOK
<1>2. IsFiniteSet(LiveTasks)
  BY ExecutorAssumption, FS_Subset DEF LiveTasks
<1>3. Cardinality(LiveTasks \ {t}) = Cardinality(LiveTasks) - 1
  BY <1>1, <1>2, FS_RemoveElement
<1>4. IsFiniteSet(LiveTasks \ {t}) /\ Cardinality(LiveTasks \ {t}) \in Nat
  BY <1>2, FS_RemoveElement, FS_CardinalityType
<1> QED BY <1>1, <1>3, <1>4 DEF LiveCountExact

(* The types of the executor's state, that a task is current exactly       *)
(* inside a poll, that the queue matches the queued flags without          *)
(* duplicates, and that only live boxes are reachable (executor.c:89-96,   *)
(* 107-113, 174-204) hold together in every reachable state.               *)
THEOREM QueueInvariant == Safe => []QueueInv
<1> USE ExecutorAssumption
<1>1. Init => QueueInv
  <2> SUFFICES ASSUME Init PROVE QueueInv
    OBVIOUS
  <2>0. <<>> \in Seq(Task) /\ 0 \in Nat
    OBVIOUS
  <2>1. TypeOK /\ PhaseOK
    BY <2>0, Zenon DEF Init, TypeOK, PhaseOK
  <2>2. DOMAIN ready = {}
    BY DEF Init
  <2>3. QueueMatchesFlags /\ OnlyLiveTasksReachable
    BY <2>2 DEF Init, QueueMatchesFlags, OnlyLiveTasksReachable, Has, Distinct
  <2>4. LiveTasks = {}
    BY DEF Init, LiveTasks
  <2>5. LiveCountExact
    BY <2>4, FS_EmptySet DEF Init, LiveCountExact
  <2> QED BY <2>1, <2>3, <2>5 DEF QueueInv
<1>2. QueueInv /\ [Next]_vars => QueueInv'
  <2> SUFFICES ASSUME QueueInv, [Next]_vars
               PROVE  QueueInv'
    OBVIOUS
  <2>0. TypeOK /\ PhaseOK /\ ReadyOK /\ ReachOK /\ LiveCountExact
    BY ReadyOKLemma, ReachOKLemma DEF QueueInv, TypeOK
  <2>1. SUFFICES TypeOK' /\ PhaseOK' /\ ReadyOK' /\ ReachOK' /\ LiveCountExact'
    <3>1. TypeOK' => (QueueMatchesFlags' <=> ReadyOK')
      BY DEF TypeOK, QueueMatchesFlags, ReadyOK, Distinct, Has
    <3>2. ASSUME TypeOK', ReachOK' PROVE OnlyLiveTasksReachable'
      <4>1. \A i \in DOMAIN ready' : ready'[i] \in Task
        BY <3>2 DEF TypeOK
      <4> QED BY <3>2, <4>1 DEF OnlyLiveTasksReachable, ReachOK, Has
    <3> QED BY <3>1, <3>2 DEF QueueInv
  <2> USE <2>0
  <2>2. ASSUME NEW t \in Task, Spawn(t)
        PROVE  TypeOK' /\ PhaseOK' /\ ReadyOK' /\ ReachOK' /\ LiveCountExact'
    <3>1. ~Has(ready, t)
      BY <2>2 DEF Spawn, ExecutorPush, ReachOK
    <3>2. ReadyOK' /\ \A x \in Task : Has(ready', x) <=> (Has(ready, x) \/ x = t)
      BY <2>2, <3>1, PushStep DEF Spawn, ExecutorPush
    <3>3. live' \in Nat /\ LiveCountExact'
      BY <2>2, LiveUp DEF Spawn
    <3> QED BY <2>2, <3>2, <3>3 DEF Spawn, ExecutorPush, TypeOK, PhaseOK, ReachOK,
                                    ReadyOK, callerVars
  <2>3. ASSUME NEW t \in Task, BlockOn(t)
        PROVE  TypeOK' /\ PhaseOK' /\ ReadyOK' /\ ReachOK' /\ LiveCountExact'
    <3>1. ~Has(ready, t)
      BY <2>3 DEF BlockOn, ExecutorPush, ReachOK
    <3>2. ReadyOK' /\ \A x \in Task : Has(ready', x) <=> (Has(ready, x) \/ x = t)
      BY <2>3, <3>1, PushStep DEF BlockOn, ExecutorPush
    <3>3. live' \in Nat /\ LiveCountExact'
      BY <2>3, LiveUp DEF BlockOn
    <3>4. phase = "caller" /\ current = NoTask
      BY <2>3 DEF BlockOn, MayDrive, PhaseOK
    <3>5. TypeOK' /\ PhaseOK'
      BY <2>3, <3>2, <3>3, <3>4 DEF BlockOn, ExecutorPush, TypeOK, PhaseOK, ReadyOK
    <3>6. ReachOK'
      BY <2>3, <3>2, <3>4 DEF BlockOn, ExecutorPush, TypeOK, ReachOK
    <3> QED BY <3>2, <3>3, <3>5, <3>6
  <2>4. ASSUME NEW s \in Slot, Arm(s) \/ Disarm(s)
        PROVE  TypeOK' /\ PhaseOK' /\ ReadyOK' /\ ReachOK' /\ LiveCountExact'
    <3>1. current \in Task
      BY <2>4 DEF Arm, Disarm, TypeOK, PhaseOK
    <3>2. UNCHANGED <<taskVars, phase, current, callerVars>>
      BY <2>4 DEF Arm, Disarm
    <3>3. /\ slot' \in [Slot -> Task \cup {NoTask}]
          /\ \A u \in Slot : slot'[u] \in {slot[u], current, NoTask}
      BY <2>4, <3>1 DEF Arm, Disarm, TypeOK
    <3> QED BY <3>1, <3>2, <3>3 DEF TypeOK, PhaseOK, ReachOK, ReadyOK,
                 LiveCountExact, LiveTasks, taskVars, callerVars
  <2>5. ASSUME NEW s \in Slot, FireSlot(s)
        PROVE  TypeOK' /\ PhaseOK' /\ ReadyOK' /\ ReachOK' /\ LiveCountExact'
    <3>1. slot[s] \in Task /\ TaskWake(slot[s]) /\ status[slot[s]] = "live"
      BY <2>5 DEF FireSlot, TypeOK, ReachOK
    <3>2. /\ ReadyOK'
          /\ \A x \in Task : Has(ready', x) <=> (Has(ready, x) \/ x = slot[s])
      BY <3>1, WakeStep
    <3> QED BY <2>5, <3>1, <3>2 DEF FireSlot, TaskWake, TypeOK, PhaseOK,
                                    ReachOK, ReadyOK, LiveCountExact,
                              LiveTasks, callerVars
  <2>6. ASSUME Run \/ BlockOnOutOfMemory \/ DriveReturn \/ Park \/ ParkReturn
        PROVE  TypeOK' /\ PhaseOK' /\ ReadyOK' /\ ReachOK' /\ LiveCountExact'
    BY <2>6 DEF Run, BlockOnOutOfMemory, DriveReturn, Park, ParkReturn, MayDrive,
                TypeOK, PhaseOK, ReachOK, ReadyOK,
                LiveCountExact, LiveTasks, taskVars, callerVars
  <2>7. ASSUME PollNext
        PROVE  TypeOK' /\ PhaseOK' /\ ReadyOK' /\ ReachOK' /\ LiveCountExact'
    <3>1. /\ ReadyOK'
          /\ Head(ready) \in Task
          /\ Has(ready, Head(ready))
          /\ \A x \in Task : Has(ready', x) <=> (Has(ready, x) /\ x # Head(ready))
      BY <2>7, PopStep DEF PollNext, PopHead
    <3> QED BY <2>7, <3>1 DEF PollNext, PopHead, TypeOK, PhaseOK, ReachOK, ReadyOK,
                              LiveCountExact, LiveTasks, callerVars
  <2>8. ASSUME WakeSelf
        PROVE  TypeOK' /\ PhaseOK' /\ ReadyOK' /\ ReachOK' /\ LiveCountExact'
    <3>1. current \in Task /\ TaskWake(current)
      BY <2>8 DEF WakeSelf, TypeOK, PhaseOK
    <3>2. /\ ReadyOK'
          /\ \A x \in Task : Has(ready', x) <=> (Has(ready, x) \/ x = current)
      BY <3>1, WakeStep
    <3> QED BY <2>8, <3>1, <3>2 DEF WakeSelf, TaskWake, TypeOK, PhaseOK,
                                    ReachOK, ReadyOK, LiveCountExact,
                              LiveTasks, callerVars
  <2>9. ASSUME PollPending
        PROVE  TypeOK' /\ PhaseOK' /\ ReadyOK' /\ ReachOK' /\ LiveCountExact'
    BY <2>9 DEF PollPending, TypeOK, PhaseOK, ReachOK, ReadyOK,
           LiveCountExact, LiveTasks, taskVars, callerVars
  <2>10. ASSUME PollReady
         PROVE  TypeOK' /\ PhaseOK' /\ ReadyOK' /\ ReachOK' /\ LiveCountExact'
    <3>1. current \in Task /\ UnlinkIfQueued(current)
      BY <2>10 DEF PollReady, TaskFree, TypeOK, PhaseOK
    <3>2. /\ ReadyOK'
          /\ \A x \in Task : Has(ready', x) <=> (Has(ready, x) /\ x # current)
      BY <3>1, UnlinkStep
    <3>3. live' \in Nat /\ LiveCountExact'
      BY <2>10, <3>1, LiveDown DEF PollReady, TaskFree, ReachOK, TypeOK
    <3>4. done' \in BOOLEAN
      BY <2>10 DEF PollReady, TaskFree, WriteDone, TypeOK
    <3> QED BY <2>10, <3>1, <3>2, <3>3, <3>4 DEF PollReady, TaskFree, FutureDrop, TypeOK,
                 PhaseOK, ReachOK, ReadyOK
  <2>11. CASE UNCHANGED vars
    BY <2>11 DEF vars, TypeOK, PhaseOK, ReachOK, ReadyOK, LiveCountExact, LiveTasks
  <2> QED BY <2>2, <2>3, <2>4, <2>5, <2>6, <2>7, <2>8, <2>9, <2>10, <2>11 DEF Next
<1> QED BY <1>1, <1>2, PTL DEF Safe

(* The executor's state is sound: its counter, its flags and its queue     *)
(* agree with the task boxes that are alive (executor.c:17-22, 80-218).    *)
THEOREM QueueSoundTheorem == Safe => []QueueSound
<1>1. QueueInv => QueueSound
  BY DEF QueueInv, QueueSound
<1> QED BY <1>1, QueueInvariant, PTL

-----------------------------------------------------------------------------
(* No wake is lost: every live task that is not being polled is queued or  *)
(* still known to a wake source, whatever the order of wakes and polls     *)
(* (executor.c:107-113, 177-183).                                          *)
THEOREM NoLostWakeupTheorem == Safe => []NoLostWakeup
<1> USE ExecutorAssumption
<1>1. Init => NoLostWakeup
  BY DEF Init, NoLostWakeup, LiveTasks
<1>2. QueueInv /\ NoLostWakeup /\ [Next]_vars => NoLostWakeup'
  <2> SUFFICES ASSUME QueueInv, NoLostWakeup, [Next]_vars,
                      NEW u \in Task, status'[u] = "live"
               PROVE  u = current' \/ Has(ready', u) \/ \E s \in Slot : slot'[s] = u
    BY DEF NoLostWakeup, LiveTasks, Has, Stored
  <2>0. TypeOK /\ PhaseOK /\ ReadyOK /\ ReachOK
    BY ReadyOKLemma, ReachOKLemma DEF QueueInv, TypeOK
  <2>1. status[u] = "live" =>
          u = current \/ Has(ready, u) \/ \E s \in Slot : slot[s] = u
    BY DEF NoLostWakeup, LiveTasks, Has, Stored
  <2> DEFINE Goal == u = current' \/ Has(ready', u) \/ \E s \in Slot : slot'[s] = u
  <2>2. ASSUME NEW t \in Task, Spawn(t) \/ BlockOn(t) PROVE Goal
    <3>1. /\ ExecutorPush(t, TRUE) \/ ExecutorPush(t, FALSE)
          /\ slot' = slot /\ current' = current
      BY <2>2 DEF Spawn, BlockOn
    <3>2. \A x \in Task : Has(ready', x) <=> (Has(ready, x) \/ x = t)
      BY <2>0, <3>1, PushStep DEF ExecutorPush, ReachOK
    <3>3. u = t \/ status[u] = "live"
      BY <2>0, <3>1 DEF ExecutorPush, TypeOK
    <3> QED BY <2>1, <3>1, <3>2, <3>3
  <2>3. ASSUME NEW s \in Slot, Arm(s) PROVE Goal
    <3>1. /\ status' = status /\ ready' = ready /\ current' = current
          /\ slot[s] = NoTask
          /\ \A v \in Slot : v # s => slot'[v] = slot[v]
      BY <2>0, <2>3 DEF Arm, TypeOK, taskVars
    <3> QED BY <2>1, <3>1
  <2>4. ASSUME NEW s \in Slot, Disarm(s) PROVE Goal
    <3>1. /\ status' = status /\ ready' = ready /\ current' = current
          /\ slot[s] = current
          /\ \A v \in Slot : v # s => slot'[v] = slot[v]
      BY <2>0, <2>4 DEF Disarm, TypeOK, taskVars
    <3> QED BY <2>1, <3>1
  <2>5. ASSUME NEW s \in Slot, FireSlot(s) PROVE Goal
    <3>1. /\ slot[s] \in Task /\ TaskWake(slot[s])
          /\ status' = status /\ current' = current
          /\ \A v \in Slot : v # s => slot'[v] = slot[v]
      BY <2>0, <2>5 DEF FireSlot, TaskWake, TypeOK
    <3>2. \A x \in Task : Has(ready', x) <=> (Has(ready, x) \/ x = slot[s])
      BY <2>0, <3>1, WakeStep
    <3> QED BY <2>1, <3>1, <3>2
  <2>6. ASSUME PollNext PROVE Goal
    <3>1. /\ \A x \in Task : Has(ready', x) <=> (Has(ready, x) /\ x # Head(ready))
          /\ current' = Head(ready) /\ current = NoTask
          /\ status' = status /\ slot' = slot
      BY <2>0, <2>6, PopStep DEF PollNext, PopHead, PhaseOK
    <3> QED BY <2>1, <3>1
  <2>7. ASSUME WakeSelf PROVE Goal
    <3>1. /\ current \in Task /\ TaskWake(current)
          /\ status' = status /\ current' = current /\ slot' = slot
      BY <2>0, <2>7 DEF WakeSelf, TaskWake, TypeOK, PhaseOK
    <3>2. \A x \in Task : Has(ready', x) <=> (Has(ready, x) \/ x = current)
      BY <2>0, <3>1, WakeStep
    <3> QED BY <2>1, <3>1, <3>2
  <2>8. ASSUME PollPending PROVE Goal
    <3>1. /\ status' = status /\ ready' = ready /\ slot' = slot
          /\ queued[current] \/ Stored(current)
          /\ current \in Task
      BY <2>0, <2>8 DEF PollPending, TypeOK, PhaseOK, taskVars
    <3>2. Has(ready, current) \/ \E s \in Slot : slot[s] = current
      BY <2>0, <3>1 DEF ReadyOK, Stored
    <3> QED BY <2>1, <3>1, <3>2
  <2>9. ASSUME PollReady PROVE Goal
    <3>1. /\ current \in Task /\ UnlinkIfQueued(current)
          /\ u # current /\ status[u] = "live"
          /\ \A s \in Slot : slot[s] = u => slot'[s] = u
      BY <2>0, <2>9 DEF PollReady, TaskFree, FutureDrop, TypeOK, PhaseOK
    <3>2. \A x \in Task : Has(ready', x) <=> (Has(ready, x) /\ x # current)
      BY <2>0, <3>1, UnlinkStep
    <3> QED BY <2>1, <3>1, <3>2
  <2>10. CASE Run \/ BlockOnOutOfMemory \/ DriveReturn \/ Park \/ ParkReturn
              \/ UNCHANGED vars
    BY <2>1, <2>10 DEF Run, BlockOnOutOfMemory, DriveReturn, Park, ParkReturn,
                       vars, taskVars, callerVars
  <2> QED BY <2>2, <2>3, <2>4, <2>5, <2>6, <2>7, <2>8, <2>9, <2>10 DEF Next
<1> QED BY <1>1, <1>2, QueueInvariant, PTL DEF Safe

-----------------------------------------------------------------------------
(* A block_on's frame: the done pointer of a task that is still live points*)
(* into the frame of the last block_on, whose flag tells whether its task  *)
(* is complete.                                                            *)
FrameInv ==
  /\ \A t \in doneRef : status[t] # "unborn" /\ (status[t] = "live" => t = root)
  /\ root # NoTask => root \in doneRef /\ (done <=> status[root] = "freed")

(* If the caller does not drive the executor again after a block_on that   *)
(* returned false, block_on returns true exactly when its future completed *)
(* (executor.c:225-240): no other task can write its flag.                 *)
THEOREM BlockOnReportTheorem ==
  ASSUME ~DriveAfterStall
  PROVE  Safe => []BlockOnReport
<1> USE ExecutorAssumption
<1>1. Init => FrameInv
  BY DEF Init, FrameInv
<1>2. QueueInv /\ FrameInv /\ [Next]_vars => FrameInv'
  <2> SUFFICES ASSUME QueueInv, FrameInv, [Next]_vars PROVE FrameInv'
    OBVIOUS
  <2>0. TypeOK /\ PhaseOK /\ ReachOK
    BY ReachOKLemma DEF QueueInv, TypeOK
  <2>1. ASSUME NEW t \in Task, Spawn(t) PROVE FrameInv'
    BY <2>0, <2>1 DEF Spawn, ExecutorPush, FrameInv, TypeOK, callerVars
  <2>2. ASSUME NEW t \in Task, BlockOn(t) PROVE FrameInv'
    <3>1. /\ \A x \in doneRef : status[x] # "live"
          /\ status' = [status EXCEPT ![t] = "live"]
          /\ doneRef' = doneRef \cup {t}
          /\ root' = t /\ done' = FALSE
      BY <2>2 DEF BlockOn, MayDrive, ExecutorPush
    <3> QED BY <2>0, <3>1 DEF FrameInv, TypeOK
  <2>3. CASE Run \/ BlockOnOutOfMemory
    <3>1. /\ \A x \in doneRef : status[x] # "live"
          /\ UNCHANGED <<status, doneRef>>
          /\ root' = NoTask
      BY <2>3 DEF Run, BlockOnOutOfMemory, MayDrive, taskVars
    <3> QED BY <3>1 DEF FrameInv
  <2>4. CASE PollReady
    <3>1. /\ current \in Task /\ status[current] = "live"
          /\ status' = [status EXCEPT ![current] = "freed"]
          /\ UNCHANGED <<doneRef, root>>
      BY <2>0, <2>4 DEF PollReady, TaskFree, TypeOK, PhaseOK, ReachOK
    <3>2. \A t \in doneRef : status'[t] # "unborn" /\ (status'[t] = "live" => t = root)
      BY <2>0, <3>1 DEF FrameInv, TypeOK
    <3>3. current \in doneRef => current = root
      BY <3>1 DEF FrameInv
    <3>4. done' = (done \/ (current \in doneRef /\ current = root))
      BY <2>4, <3>3 DEF PollReady, TaskFree, WriteDone
    <3>5. root # NoTask => root \in doneRef /\ (done' <=> status'[root] = "freed")
      <4>1. CASE current = root
        BY <2>0, <3>1, <3>4, <4>1 DEF FrameInv, TypeOK
      <4>2. CASE current # root
        BY <2>0, <3>1, <3>4, <4>2 DEF FrameInv, TypeOK
      <4> QED BY <4>1, <4>2
    <3> QED BY <3>1, <3>2, <3>5 DEF FrameInv
  <2>5. ASSUME NEW s \in Slot, Arm(s) \/ Disarm(s) \/ FireSlot(s) PROVE FrameInv'
    BY <2>5 DEF Arm, Disarm, FireSlot, TaskWake, FrameInv, taskVars, callerVars
  <2>6. CASE PollNext \/ WakeSelf \/ PollPending \/ DriveReturn \/ Park
             \/ ParkReturn \/ UNCHANGED vars
    BY <2>6 DEF PollNext, PopHead, WakeSelf, PollPending, DriveReturn, Park, ParkReturn,
                TaskWake, FrameInv, vars, taskVars, callerVars
  <2> QED BY <2>1, <2>2, <2>3, <2>4, <2>5, <2>6 DEF Next
<1>3. FrameInv => BlockOnReport
  BY DEF FrameInv, BlockOnReport
<1> QED BY <1>1, <1>2, <1>3, QueueInvariant, PTL DEF Safe

-----------------------------------------------------------------------------
(* The executor implements TaskScheduler's safety part: wakes coalesce but *)
(* are never dropped, one task is polled at a time, a completed task is    *)
(* never polled or woken again, and a drive ends only when no task is      *)
(* woken (executor.c:17-22, 107-113, 174-218).                             *)
THEOREM ImplementsSchedulerSafe == Safe => Scheduler!Safe
<1> USE ExecutorAssumption
<1> DEFINE S == [t \in Task |-> TaskStateOf(t)]
<1>1. Init => Scheduler!Init
  BY DEF Init, Scheduler!Init, TaskStateOf
<1>2. QueueInv /\ QueueInv' /\ [Next]_vars => [Scheduler!Next]_(Scheduler!vars)
  <2> SUFFICES ASSUME QueueInv, QueueInv', [Next]_vars
               PROVE  Scheduler!Next \/ UNCHANGED Scheduler!vars
    BY DEF Scheduler!vars
  <2>0. TypeOK /\ TypeOK' /\ PhaseOK /\ ReadyOK /\ ReachOK
    BY ReadyOKLemma, ReachOKLemma DEF QueueInv, TypeOK
  <2>1. \A t \in Task : TaskStateOf(t) =
          IF status[t] = "live"
          THEN IF t = current THEN IF queued[t] THEN "rerun" ELSE "running"
                              ELSE IF queued[t] THEN "woken" ELSE "waiting"
          ELSE IF status[t] = "freed" THEN "done" ELSE "unborn"
    BY <2>0 DEF TaskStateOf, TypeOK
  <2>2. \A t \in Task : TaskStateOf(t)' =
          IF status'[t] = "live"
          THEN IF t = current' THEN IF queued'[t] THEN "rerun" ELSE "running"
                               ELSE IF queued'[t] THEN "woken" ELSE "waiting"
          ELSE IF status'[t] = "freed" THEN "done" ELSE "unborn"
    BY <2>0 DEF TaskStateOf, TypeOK
  <2>k. ASSUME NEW t \in Task, NEW v, TaskStateOf(t)' = v,
               \A x \in Task : x # t => TaskStateOf(x)' = TaskStateOf(x)
        PROVE  S' = [S EXCEPT ![t] = v]
    BY <2>k
  <2>3. ASSUME NEW t \in Task, Spawn(t) PROVE Scheduler!Spawn(t)
    <3>1. /\ status[t] = "unborn" /\ t # current /\ UNCHANGED <<phase, current>>
          /\ status' = [status EXCEPT ![t] = "live"]
          /\ queued' = [queued EXCEPT ![t] = TRUE]
      BY <2>0, <2>3 DEF Spawn, ExecutorPush, ReachOK
    <3>2. TaskStateOf(t) = "unborn"
      BY <2>1, <3>1
    <3>3. S' = [S EXCEPT ![t] = "woken"]
      <4>1. \A x \in Task : /\ x # t => queued'[x] = queued[x] /\ status'[x] = status[x]
                            /\ x # t => (x = current' <=> x = current)
        BY <2>0, <3>1 DEF TypeOK
      <4>2. TaskStateOf(t)' = "woken"
        BY <2>0, <2>2, <3>1 DEF TypeOK
      <4>3. \A x \in Task : x # t => TaskStateOf(x)' = TaskStateOf(x)
        BY <2>1, <2>2, <4>1
      <4> QED BY <3>1, <2>k, <4>2, <4>3
    <3> QED BY <3>1, <3>2, <3>3 DEF Scheduler!Spawn
  <2>4. ASSUME NEW t \in Task, BlockOn(t) PROVE Scheduler!BlockOn(t)
    <3>1. /\ status[t] = "unborn" /\ t # current /\ UNCHANGED current
          /\ phase = "caller" /\ phase' = "drive"
          /\ status' = [status EXCEPT ![t] = "live"]
          /\ queued' = [queued EXCEPT ![t] = TRUE]
      BY <2>0, <2>4 DEF BlockOn, MayDrive, ExecutorPush, ReachOK
    <3>2. TaskStateOf(t) = "unborn"
      BY <2>1, <3>1
    <3>3. S' = [S EXCEPT ![t] = "woken"]
      <4>1. \A x \in Task : /\ x # t => queued'[x] = queued[x] /\ status'[x] = status[x]
                            /\ x # t => (x = current' <=> x = current)
        BY <2>0, <3>1 DEF TypeOK
      <4>2. TaskStateOf(t)' = "woken"
        BY <2>0, <2>2, <3>1 DEF TypeOK
      <4>3. \A x \in Task : x # t => TaskStateOf(x)' = TaskStateOf(x)
        BY <2>1, <2>2, <4>1
      <4> QED BY <3>1, <2>k, <4>2, <4>3
    <3> QED BY <3>1, <3>2, <3>3 DEF Scheduler!BlockOn
  <2>5. ASSUME NEW t \in Task, status[t] = "live", TaskWake(t),
               UNCHANGED <<phase, current>>
        PROVE  Scheduler!Wake(t) \/ UNCHANGED Scheduler!vars
    <3>1. /\ queued' = [queued EXCEPT ![t] = TRUE]
          /\ UNCHANGED <<status, phase, current>>
      BY <2>5 DEF TaskWake
    <3>0. \A x \in Task : x # t => TaskStateOf(x)' = TaskStateOf(x)
      <4>1. \A x \in Task : /\ x # t => queued'[x] = queued[x]
                           /\ status'[x] = status[x]
        BY <2>0, <3>1 DEF TypeOK
      <4> QED BY <2>1, <2>2, <3>1, <4>1
    <3>2. CASE queued[t]
      <4>1. S' = S
        BY <2>0, <2>1, <2>2, <3>1, <3>2 DEF TypeOK
      <4> QED BY <3>1, <4>1 DEF Scheduler!vars
    <3>3. CASE ~queued[t] /\ t = current
      <4>1. TaskStateOf(t) = "running" /\ TaskStateOf(t)' = "rerun"
        BY <2>0, <2>1, <2>2, <2>5, <3>1, <3>3 DEF TypeOK
      <4>2. S' = [S EXCEPT ![t] = "rerun"]
        BY <2>k, <3>0, <4>1
      <4> QED BY <3>1, <4>1, <4>2 DEF Scheduler!Wake
    <3>4. CASE ~queued[t] /\ t # current
      <4>1. TaskStateOf(t) = "waiting" /\ TaskStateOf(t)' = "woken"
        BY <2>0, <2>1, <2>2, <2>5, <3>1, <3>4 DEF TypeOK
      <4>2. S' = [S EXCEPT ![t] = "woken"]
        BY <2>k, <3>0, <4>1
      <4> QED BY <3>1, <4>1, <4>2 DEF Scheduler!Wake
    <3> QED BY <3>2, <3>3, <3>4
  <2>6. ASSUME NEW s \in Slot, FireSlot(s)
        PROVE  \E t \in Task : Scheduler!Wake(t) \/ UNCHANGED Scheduler!vars
    <3>1. /\ slot[s] \in Task /\ status[slot[s]] = "live" /\ TaskWake(slot[s])
          /\ UNCHANGED <<phase, current>>
      BY <2>0, <2>6 DEF FireSlot, TypeOK, ReachOK
    <3> QED BY <2>5, <3>1
  <2>7. ASSUME WakeSelf
        PROVE  \E t \in Task : Scheduler!Wake(t) \/ UNCHANGED Scheduler!vars
    <3>1. /\ current \in Task /\ status[current] = "live" /\ TaskWake(current)
          /\ UNCHANGED <<phase, current>>
      BY <2>0, <2>7 DEF WakeSelf, TypeOK, PhaseOK, ReachOK
    <3> QED BY <2>5, <3>1
  <2>8. ASSUME PollNext PROVE \E t \in Task : Scheduler!Poll(t)
    <3>1. PICK t \in Task : t = Head(ready) /\ queued[t] /\ status[t] = "live"
      BY <2>0, <2>8, PopStep DEF PollNext, PopHead, ReadyOK, ReachOK
    <3>2. /\ current = NoTask /\ current' = t
          /\ phase = "drive" /\ phase' = "poll"
          /\ queued' = [queued EXCEPT ![t] = FALSE]
          /\ status' = status
      BY <2>0, <2>8, <3>1 DEF PollNext, PopHead, PhaseOK
    <3>3. \A x \in Task : TaskStateOf(x) \notin {"running", "rerun"}
      BY <2>1, <3>2
    <3>4. TaskStateOf(t) = "woken"
      BY <2>1, <3>1, <3>2
    <3>5. S' = [S EXCEPT ![t] = "running"]
      <4>1. \A x \in Task : /\ x # t => queued'[x] = queued[x] /\ status'[x] = status[x]
                            /\ x # t => (x = current' <=> x = current)
        BY <2>0, <3>1, <3>2 DEF TypeOK
      <4>2. TaskStateOf(t)' = "running"
        BY <2>0, <2>2, <3>1, <3>2 DEF TypeOK
      <4>3. \A x \in Task : x # t => TaskStateOf(x)' = TaskStateOf(x)
        BY <2>1, <2>2, <4>1
      <4> QED BY <3>1, <2>k, <4>2, <4>3
    <3>6. Scheduler!Poll(t)
      BY <3>1, <3>2, <3>3, <3>4, <3>5 DEF Scheduler!Poll, Scheduler!Polled
    <3> QED BY <3>6
  <2>9. ASSUME PollPending PROVE Scheduler!Suspend(current)
    <3>1. /\ current \in Task /\ status[current] = "live"
          /\ phase = "poll" /\ phase' = "drive" /\ current' = NoTask
          /\ UNCHANGED <<status, queued>>
      BY <2>0, <2>9 DEF PollPending, TypeOK, PhaseOK, ReachOK, taskVars
    <3>2. CASE queued[current]
      <4>1. S' = [S EXCEPT ![current] = "woken"] /\ TaskStateOf(current) = "rerun"
        BY <2>1, <2>2, <3>1, <3>2
      <4> QED BY <3>1, <4>1 DEF Scheduler!Suspend
    <3>3. CASE ~queued[current]
      <4>1. S' = [S EXCEPT ![current] = "waiting"] /\ TaskStateOf(current) = "running"
        BY <2>1, <2>2, <3>1, <3>3
      <4> QED BY <3>1, <4>1 DEF Scheduler!Suspend
    <3> QED BY <3>2, <3>3
  <2>10. ASSUME PollReady PROVE \E t \in Task : Scheduler!Finish(t)
    <3>1. PICK t \in Task :
          /\ t = current /\ status[t] = "live"
          /\ phase = "poll" /\ phase' = "drive" /\ current' = NoTask
          /\ status' = [status EXCEPT ![t] = "freed"]
          /\ queued' = [queued EXCEPT ![t] = FALSE]
      BY <2>0, <2>10 DEF PollReady, TaskFree, UnlinkIfQueued, TypeOK, PhaseOK, ReachOK
    <3>2. TaskStateOf(t) \in {"running", "rerun"}
      BY <2>1, <3>1
    <3>3. S' = [S EXCEPT ![t] = "done"]
      <4>1. \A x \in Task : /\ x # t => queued'[x] = queued[x] /\ status'[x] = status[x]
                            /\ x # t => (x = current' <=> x = current)
        BY <2>0, <3>1 DEF TypeOK
      <4>2. TaskStateOf(t)' = "done"
        BY <2>0, <2>2, <3>1 DEF TypeOK
      <4>3. \A x \in Task : x # t => TaskStateOf(x)' = TaskStateOf(x)
        BY <2>1, <2>2, <4>1
      <4> QED BY <3>1, <2>k, <4>2, <4>3
    <3> QED BY <3>1, <3>2, <3>3 DEF Scheduler!Finish
  <2>11. ASSUME DriveReturn \/ (ParkReturn /\ ready = <<>>) PROVE Scheduler!Stop
    <3>1. /\ ready = <<>> /\ current = NoTask
          /\ phase # "caller" /\ phase' = "caller"
          /\ UNCHANGED <<status, queued, current>>
      BY <2>0, <2>11 DEF DriveReturn, ParkReturn, PhaseOK, taskVars
    <3>2. \A t \in Task : ~queued[t]
      BY <2>0, <3>1 DEF ReadyOK, Has
    <3>3. \A t \in Task : TaskStateOf(t) \notin {"woken", "running", "rerun"}
      BY <2>1, <3>1, <3>2
    <3>4. S' = S
      BY <2>1, <2>2, <3>1
    <3> QED BY <3>1, <3>3, <3>4 DEF Scheduler!Stop
  <2>12. ASSUME Run PROVE Scheduler!Run
    <3>1. /\ UNCHANGED <<status, queued, current>>
          /\ phase = "caller" /\ phase' = "drive"
      BY <2>12 DEF Run, MayDrive, taskVars
    <3>2. S' = S
      BY <2>1, <2>2, <3>1
    <3> QED BY <3>1, <3>2 DEF Scheduler!Run
  <2>13. ASSUME \/ \E s \in Slot : Arm(s) \/ Disarm(s)
                \/ BlockOnOutOfMemory \/ Park
                \/ ParkReturn /\ ready # <<>>
                \/ UNCHANGED vars
         PROVE  UNCHANGED Scheduler!vars
    <3>1. /\ UNCHANGED <<status, queued, current>>
          /\ phase = "caller" <=> phase' = "caller"
      BY <2>0, <2>13 DEF Arm, Disarm, BlockOnOutOfMemory, Park, ParkReturn, vars, taskVars
    <3>2. S' = S
      BY <2>1, <2>2, <3>1
    <3> QED BY <3>1, <3>2 DEF Scheduler!vars
  <2> QED
    <3>1. PollPending => current \in Task
      BY <2>0 DEF PollPending, TypeOK, PhaseOK
    <3> HIDE DEF S
    <3> QED BY <2>3, <2>4, <2>6, <2>7, <2>8, <2>9, <2>10, <2>11, <2>12, <2>13,
               <3>1 DEF Next, Scheduler!Next
<1> QED BY <1>1, <1>2, QueueInvariant, PTL DEF Safe, Scheduler!Safe
=============================================================================
