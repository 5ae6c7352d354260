------------------------------ MODULE Reactor ------------------------------
(***************************************************************************)
(* cust_execution/src/reactor.c: the sorted list of pending timers, the    *)
(* clock behind it, and the sleep futures whose timers are linked into it. *)
(*                                                                         *)
(* Waking is modelled by a flag per sleep: its task's waker was called     *)
(* since the sleep was last polled.  A task may poll a sleep at any time,  *)
(* woken or not (a sibling of the same task woke it), and may drop it at   *)
(* any time (the losing arm of a select).  The clock is the system clock,  *)
(* which runs on its own and may oversleep a wait, or the fake one, which  *)
(* only jumps to the deadline waited for or is advanced by the caller.     *)
(***************************************************************************)
EXTENDS IntrusiveList, Integers

CONSTANTS Sleep,    \* the sleep futures ever created
          Dur,      \* the durations they are created with
          MaxU64,   \* the largest value of the clock's unsigned type
          Start,    \* the clock when the reactor is initialised
          Late,     \* by how much a wait may overshoot (0: fake clock)
          Horizon   \* bound: the clock runs on its own up to this reading

ASSUME ReactorAssumption == /\ MaxU64 \in Nat
                            /\ Dur \subseteq 0 .. MaxU64
                            /\ Start \in Nat /\ Late \in Nat /\ Horizon \in Nat

VARIABLES
  now,       \* the clock
  pending,   \* reactor.pending, earliest deadline first
  dur,       \* sleep_box.dur_ns
  deadline,  \* timer.deadline (0 until the sleep is armed)
  armed,     \* sleep_box.armed
  fired,     \* timer.fired (FALSE until the sleep is armed)
  state,     \* the future: "pending" until it is "ready", then "dropped"
  woken,     \* was the timer's waker called since the sleep's last poll?
  startedAt  \* history: the clock at the sleep's first poll

vars == <<now, pending, dur, deadline, armed, fired, state, woken, startedAt>>

timerVars == <<pending, deadline, armed, fired>>

TypeOK ==
  /\ now \in Nat
  /\ pending \in Seq(Sleep)
  /\ dur \in [Sleep -> Dur]
  /\ deadline \in [Sleep -> 0 .. MaxU64]
  /\ armed \in [Sleep -> BOOLEAN]
  /\ fired \in [Sleep -> BOOLEAN]
  /\ state \in [Sleep -> {"pending", "ready", "dropped"}]
  /\ woken \in [Sleep -> BOOLEAN]
  /\ startedAt \in [Sleep -> Nat \cup {-1}]

(* Sleeps made by cexec_sleep_in: nobody has polled them.                  *)
SleepIn ==
  /\ dur \in [Sleep -> Dur]
  /\ deadline = [s \in Sleep |-> 0]
  /\ armed = [s \in Sleep |-> FALSE]
  /\ fired = [s \in Sleep |-> FALSE]
  /\ state = [s \in Sleep |-> "pending"]
  /\ woken = [s \in Sleep |-> FALSE]
  /\ startedAt = [s \in Sleep |-> -1]

(* cexec_reactor_init                                                      *)
Init ==
  /\ now = Start
  /\ pending = <<>>
  /\ SleepIn

-----------------------------------------------------------------------------
(* `now + dur` in the clock's unsigned type.                               *)
AddU64(a, b) == (a + b) % (MaxU64 + 1)

(* How many timers at the front have a deadline of at most d: the timers   *)
(* that reactor_insert walks past and that fire_due takes off.             *)
Leading(d) ==
  CHOOSE k \in 0 .. Len(pending) :
    /\ \A i \in 1 .. k : deadline[pending[i]] <= d
    /\ k < Len(pending) => deadline[pending[k + 1]] > d

Linked(s) == armed[s] /\ ~fired[s] /\ state[s] # "dropped"

(* reactor_insert: before the first timer with a later deadline.           *)
ReactorInsert_Bug(s, d) == pending' = AddTail(pending, s)     \* unsorted
ReactorInsert(s, d) == pending' = InsertBefore(pending, Leading(d) + 1, s)

(* cexec_reactor_fire_due, given the clock reading t.                      *)
FireDue_Bug(t) ==                      \* fires the front without looking
  LET k == IF pending = <<>> THEN 0 ELSE 1
      due == {pending[i] : i \in 1 .. k}
  IN  /\ pending' = SubSeq(pending, k + 1, Len(pending))
      /\ fired' = [s \in Sleep |-> fired[s] \/ s \in due]
      /\ woken' = [s \in Sleep |-> woken[s] \/ s \in due]

FireDue(t) ==
  LET k == Leading(t)
      due == {pending[i] : i \in 1 .. k}
  IN  /\ pending' = SubSeq(pending, k + 1, Len(pending))
      /\ fired' = [s \in Sleep |-> fired[s] \/ s \in due]
      /\ woken' = [s \in Sleep |-> woken[s] \/ s \in due]

-----------------------------------------------------------------------------
(* sleep_poll.  The first poll fixes the deadline and links the timer,     *)
(* unless the deadline has been reached already.                           *)
Reached(d) == now >= d

PollFirst(s) ==
  /\ state[s] = "pending" /\ ~armed[s]
  /\ LET d == AddU64(now, dur[s])
     IN  IF Reached(d)
         THEN /\ state' = [state EXCEPT ![s] = "ready"]
              /\ UNCHANGED timerVars
         ELSE /\ deadline' = [deadline EXCEPT ![s] = d]
              /\ ReactorInsert(s, d)
              /\ armed' = [armed EXCEPT ![s] = TRUE]
              /\ UNCHANGED <<fired, state>>
  /\ startedAt' = [startedAt EXCEPT ![s] = now]
  /\ UNCHANGED <<now, dur, woken>>

PollAgain_Bug(s) ==                    \* trusts the wake, not the clock
  /\ state[s] = "pending" /\ armed[s]
  /\ state' = [state EXCEPT ![s] = "ready"]
  /\ woken' = [woken EXCEPT ![s] = FALSE]
  /\ UNCHANGED <<now, dur, timerVars, startedAt>>

PollAgain(s) ==
  /\ state[s] = "pending" /\ armed[s]
  /\ state' = [state EXCEPT ![s] = IF Reached(deadline[s]) THEN "ready" ELSE @]
  /\ woken' = [woken EXCEPT ![s] = FALSE]
  /\ UNCHANGED <<now, dur, timerVars, startedAt>>

(* sleep_drop: a timer that has not fired is still linked, so unlink it.   *)
SleepDrop(s) ==
  /\ state[s] # "dropped"
  /\ state' = [state EXCEPT ![s] = "dropped"]
  /\ pending' = IF armed[s] /\ ~fired[s] THEN Unlink(pending, s) ELSE pending
  /\ UNCHANGED <<now, dur, deadline, armed, fired, woken, startedAt>>

-----------------------------------------------------------------------------
(* reactor_park with a timer pending: wait until the earliest deadline,    *)
(* then fire what is due.  With none it returns false and does nothing.    *)
WaitUntil_Bug(d) ==                    \* returns one tick early
  now' = IF d > now THEN d - 1 ELSE now
WaitUntil(d) ==
  \E t \in (IF d > now THEN d ELSE now) .. ((IF d > now THEN d ELSE now) + Late) :
    now' = t

ReactorPark ==
  /\ pending # <<>>
  /\ WaitUntil(deadline[pending[1]])
  /\ FireDue(now')
  /\ UNCHANGED <<dur, deadline, armed, state, startedAt>>

(* fire_due called by another parker with a clock reading of its own: the  *)
(* I/O driver does so after each epoll_wait.                               *)
ExternalFireDue ==
  /\ FireDue(now)
  /\ UNCHANGED <<now, dur, deadline, armed, state, startedAt>>

(* The system clock runs; cexec_fake_clock_advance moves the fake one.     *)
Advance ==
  /\ now < Horizon
  /\ now' = now + 1
  /\ UNCHANGED <<dur, timerVars, state, woken, startedAt>>

Next ==
  \/ \E s \in Sleep : PollFirst(s) \/ PollAgain(s) \/ SleepDrop(s)
  \/ ReactorPark \/ ExternalFireDue \/ Advance

Safe == Init /\ [][Next]_vars

(* The executor polls what was woken (executor.c:176-194).  Nothing makes  *)
(* it park: it does so when no task is queued, and the tasks decide that.  *)
Spec == /\ Safe
        /\ \A s \in Sleep : WF_vars(woken[s] /\ PollAgain(s))

-----------------------------------------------------------------------------
(* The list is sorted, so that its front is the next timer to fire         *)
(* (reactor.c:152, 204-216): reactor_park waits for the right deadline and *)
(* fire_due may stop at the first timer that is not due.                   *)
Sorted == \A i, j \in DOMAIN pending :
            i < j => deadline[pending[i]] <= deadline[pending[j]]

(* A timer is linked exactly while its sleep is armed, not fired and not   *)
(* dropped, and only once (reactor.c:194-201, 262-265, 272-283): nothing   *)
(* in the list is freed memory, and no drop unlinks an unlinked timer.     *)
LinkedIffOutstanding ==
  /\ \A s \in Sleep : Has(pending, s) <=> Linked(s)
  /\ Distinct(pending)

(* The list is sound: typed, sorted and complete (reactor.c:138-284).      *)
TimersSound == TypeOK /\ Sorted /\ LinkedIffOutstanding

(* The poll contract (future.c:16-26) across wakes, spurious polls and     *)
(* overshooting waits: a sleep that returned Pending is either linked, or  *)
(* it has been woken and its next poll will find the deadline reached.     *)
PendingIsArranged ==
  \A s \in Sleep : state[s] = "pending" /\ armed[s] =>
                     \/ Has(pending, s)
                     \/ woken[s] /\ now >= deadline[s]

(* A sleep whose deadline is representable is Ready no earlier than its    *)
(* duration after its first poll (reactor.c:248-270), however often it is  *)
(* polled or woken in between.                                             *)
NotEarly ==
  \A s \in Sleep : state[s] = "ready" /\ startedAt[s] + dur[s] <= MaxU64
                     => now >= startedAt[s] + dur[s]

(* A park with a timer outstanding wakes a task (reactor.c:218-229): the   *)
(* executor, which stops when park makes no progress, cannot stop while a  *)
(* timer is pending.                                                       *)
ParkWakes ==
  [][ReactorPark => \E s \in Sleep : woken'[s] /\ fired'[s] /\ ~fired[s]]_vars

(* As long as the executor comes back to the park while timers are         *)
(* pending, every sleep that was polled once completes, unless it is       *)
(* dropped.  Tasks that wake themselves in every poll keep the executor    *)
(* from the park (executor.c:176, 213), and all sleeps from completing.    *)
ParksRecur == []<>(pending = <<>>) \/ []<><<ReactorPark>>_vars

SleepsEnd ==
  ParksRecur => \A s \in Sleep : armed[s] ~> state[s] \in {"ready", "dropped"}
=============================================================================
