--------------------------- MODULE TaskScheduler ---------------------------
(***************************************************************************)
(* What the executor of cust_execution promises its callers, without its   *)
(* queue, its flags or its wake sources.  Each task is a small state       *)
(* machine; a wake is remembered until the task has been polled once more, *)
(* any number of wakes before that poll count as one, and a completed task *)
(* is never polled or woken again.  While the executor is being driven a   *)
(* woken task is eventually polled, and it stops only when none is woken.  *)
(*                                                                         *)
(* Module Executor implements this specification.                          *)
(***************************************************************************)
CONSTANTS Task      \* the task boxes that are ever spawned

VARIABLES st,       \* state of each task, see TaskState
          driving   \* is somebody inside run or block_on?

vars == <<st, driving>>

\* "rerun" is a task that was woken while its own poll is in progress.
TaskState == {"unborn", "woken", "running", "rerun", "waiting", "done"}

TypeOK == st \in [Task -> TaskState] /\ driving \in BOOLEAN

Init == st = [t \in Task |-> "unborn"] /\ driving = FALSE

Polled == {t \in Task : st[t] \in {"running", "rerun"}}

-----------------------------------------------------------------------------
(* A spawned task is runnable at once; block_on also starts to drive.      *)
Spawn(t) == /\ st[t] = "unborn"
            /\ st' = [st EXCEPT ![t] = "woken"]
            /\ UNCHANGED driving

BlockOn(t) == /\ ~driving
              /\ st[t] = "unborn"
              /\ st' = [st EXCEPT ![t] = "woken"]
              /\ driving' = TRUE

Run == ~driving /\ driving' = TRUE /\ UNCHANGED st

(* A wake that finds the task already woken is absorbed (a stutter).       *)
Wake(t) == /\ \/ /\ st[t] = "waiting"
                 /\ st' = [st EXCEPT ![t] = "woken"]
              \/ /\ st[t] = "running"
                 /\ st' = [st EXCEPT ![t] = "rerun"]
           /\ UNCHANGED driving

Poll(t) == /\ driving
           /\ Polled = {}
           /\ st[t] = "woken"
           /\ st' = [st EXCEPT ![t] = "running"]
           /\ UNCHANGED driving

Suspend(t) == /\ \/ /\ st[t] = "running"
                    /\ st' = [st EXCEPT ![t] = "waiting"]
                 \/ /\ st[t] = "rerun"
                    /\ st' = [st EXCEPT ![t] = "woken"]
              /\ UNCHANGED driving

Finish(t) == /\ st[t] \in {"running", "rerun"}
             /\ st' = [st EXCEPT ![t] = "done"]
             /\ UNCHANGED driving

Stop == /\ driving
        /\ \A t \in Task : st[t] \notin {"woken", "running", "rerun"}
        /\ driving' = FALSE
        /\ UNCHANGED st

Next == \/ \E t \in Task : \/ Spawn(t) \/ BlockOn(t) \/ Wake(t)
                           \/ Poll(t) \/ Suspend(t) \/ Finish(t)
        \/ Run
        \/ Stop

Safe == Init /\ [][Next]_vars

(* No starvation: a task that keeps becoming eligible is polled, however   *)
(* often the others are woken.                                             *)
Spec == Safe /\ \A t \in Task : SF_vars(Poll(t))
=============================================================================
