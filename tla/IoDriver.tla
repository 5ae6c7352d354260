------------------------------ MODULE IoDriver ------------------------------
(***************************************************************************)
(* cust_execution/src/io.c: the epoll driver.  One park serves the timers  *)
(* and the fds; readable/writable futures arm one of the two slots of a    *)
(* registered fd, and the park clears the slot when it fires it.           *)
(*                                                                         *)
(* The kernel is external: an epoll set with an interest mask per fd, and  *)
(* level-triggered readiness that comes and goes by itself.  The reactor   *)
(* inside the driver (module Reactor) is reduced to its earliest timer,    *)
(* whose distance is counted in epoll_waits: a deadline further away than  *)
(* the longest timeout epoll_wait takes needs more than one.               *)
(***************************************************************************)
EXTENDS Integers, FiniteSets

CONSTANTS Fd,         \* the descriptors
          Fut,        \* the readable/writable futures ever created
          NoFut,      \* an empty slot
          Targets,    \* what the futures are created for: an fd and a direction
          MaxEvents,  \* IO_MAX_EVENTS
          MaxWaits    \* bound: timers are at most this many waits away

Dir  == {"IN", "OUT"}       \* EPOLLIN, EPOLLOUT: the read and the write slot
Slot == Fd \X Dir

ASSUME IoAssumption == /\ IsFiniteSet(Fd) /\ NoFut \notin Fut
                       /\ MaxEvents \in Nat \ {0}
                       /\ MaxWaits \in Nat \ {0}
                       /\ Targets \subseteq [Fut -> Slot]

VARIABLES
  registered, \* the fds with an io_sched in driver.fds
  slot,       \* read_waker/write_waker of each fd, NoFut when not armed
  armed,      \* driver.armed
  mask,       \* kernel: the interest mask of each fd in the epoll set
  ready,      \* kernel: the events that hold for each fd now
  timer,      \* waits until the earliest timer is due; -1 when none is pending
  target,     \* the slot each future is for: interest_box.fd and want_write
  fut,        \* "new", "pending" and "ready" by its last poll, or "dropped"
  boxArmed,   \* interest_box.armed: the future has set its slot, once
  woken,      \* was the waker of the future called since its last poll?
  orphaned,   \* history: the futures whose fd was removed while they waited
  robbed,     \* history: those whose slot the drop of a READY future cancelled
  phase,      \* "run", "wait" inside io_driver_park's epoll_wait, "closed"
  result      \* what the last park returned: "none" before the first one

driverVars == <<registered, slot, armed, mask>>
history == <<orphaned, robbed>>

vars == <<driverVars, ready, timer, target, fut, boxArmed, woken, history, phase, result>>

TypeOK ==
  /\ registered \subseteq Fd
  /\ slot \in [Slot -> Fut \cup {NoFut}]
  /\ armed \in Nat
  /\ mask \in [Fd -> SUBSET Dir]
  /\ ready \in [Fd -> SUBSET (Dir \cup {"HUP"})]
  /\ timer \in {-1} \cup (1 .. MaxWaits)
  /\ target \in [Fut -> Slot]
  /\ fut \in [Fut -> {"new", "pending", "ready", "dropped"}]
  /\ boxArmed \in [Fut -> BOOLEAN]
  /\ woken \in [Fut -> BOOLEAN]
  /\ orphaned \subseteq Fut /\ robbed \subseteq Fut
  /\ phase \in {"run", "wait", "closed"}
  /\ result \in {"none", "true", "false"}

(* cexec_readable_in, cexec_writable_in: futures that have no slot yet.    *)
InterestNew ==
  /\ fut = [f \in Fut |-> "new"]
  /\ boxArmed = [f \in Fut |-> FALSE]

Init ==
  /\ registered = {}
  /\ slot = [p \in Slot |-> NoFut]
  /\ armed = 0
  /\ mask = [d \in Fd |-> {}]
  /\ ready = [d \in Fd |-> {}]
  /\ timer = -1
  /\ target \in Targets
  /\ InterestNew
  /\ woken = [f \in Fut |-> FALSE]
  /\ orphaned = {} /\ robbed = {}
  /\ phase = "run"
  /\ result = "none"

-----------------------------------------------------------------------------
ArmedSlots == {p \in Slot : slot[p] # NoFut}
ArmedDirs(d) == {r \in Dir : slot[<<d, r>>] # NoFut}
Awaiting(f) == fut[f] = "pending"
Live(f) == fut[f] \in {"new", "pending"}

(* io.c:47-48: at most one waiter per slot.  A future that is READY waits  *)
(* no longer, whether its owner has dropped it or not.                     *)
MayArm(f) == \A g \in Fut \ {f} : Awaiting(g) => target[g] # target[f]

(* sched_update_interest, for the fds in D and the slots after this step.  *)
UpdateInterest_Bug(D) ==                 \* a direction is never dropped
  mask' = [d \in Fd |-> IF d \in D THEN mask[d] \cup ArmedDirs(d)' ELSE mask[d]]

UpdateInterest(D) ==
  mask' = [d \in Fd |-> IF d \in D THEN ArmedDirs(d)' ELSE mask[d]]

(* cexec_io_add; it has no effect on a registered fd, nor when the         *)
(* allocation or EPOLL_CTL_ADD fails.                                      *)
IoAdd(d) ==
  /\ phase = "run"
  /\ d \notin registered
  /\ registered' = registered \cup {d}
  /\ mask' = [mask EXCEPT ![d] = {}]
  /\ UNCHANGED <<slot, armed, ready, timer, target, fut, boxArmed, woken, phase, result, history>>

(* sched_free: out of the epoll set and the table, armed slots released.   *)
(* io.c:45-47 asks the clients to keep an fd until nobody waits for it; the *)
(* driver frees it all the same, and the waiting future is not woken.      *)
SchedFree_Bug(D) ==                      \* the count keeps the freed slots
  /\ registered' = registered \ D
  /\ slot' = [p \in Slot |-> IF p[1] \in D THEN NoFut ELSE slot[p]]
  /\ mask' = [d \in Fd |-> IF d \in D THEN {} ELSE mask[d]]
  /\ orphaned' = orphaned \cup {slot[p] : p \in {q \in ArmedSlots : q[1] \in D}}
  /\ UNCHANGED <<armed, robbed>>

SchedFree(D) ==
  /\ registered' = registered \ D
  /\ slot' = [p \in Slot |-> IF p[1] \in D THEN NoFut ELSE slot[p]]
  /\ armed' = armed - Cardinality({p \in ArmedSlots : p[1] \in D})
  /\ mask' = [d \in Fd |-> IF d \in D THEN {} ELSE mask[d]]
  /\ orphaned' = orphaned \cup {slot[p] : p \in {q \in ArmedSlots : q[1] \in D}}
  /\ UNCHANGED robbed

IoRemove(d) ==
  /\ phase = "run"
  /\ d \in registered
  /\ SchedFree({d})
  /\ UNCHANGED <<ready, timer, target, fut, boxArmed, woken, phase, result>>

(* cexec_io_driver_close *)
DriverClose ==
  /\ phase = "run"
  /\ SchedFree(registered)
  /\ phase' = "closed"
  /\ UNCHANGED <<ready, timer, target, fut, boxArmed, woken, result>>

-----------------------------------------------------------------------------
(* interest_poll.  An fd that is not registered is reported ready.         *)
PollUnregistered(f) ==
  /\ phase = "run"
  /\ Live(f) /\ target[f][1] \notin registered
  /\ fut' = [fut EXCEPT ![f] = "ready"]
  /\ woken' = [woken EXCEPT ![f] = FALSE]
  /\ UNCHANGED <<driverVars, ready, timer, target, boxArmed, phase, result, history>>

SetSlot(p, f) == slot' = [slot EXCEPT ![p] = f] /\ armed' = armed + 1

PollFirst(f) ==
  /\ phase = "run"
  /\ Live(f) /\ target[f][1] \in registered /\ ~boxArmed[f] /\ MayArm(f)
  /\ SetSlot(target[f], f)
  /\ UpdateInterest({target[f][1]})
  /\ boxArmed' = [boxArmed EXCEPT ![f] = TRUE]
  /\ fut' = [fut EXCEPT ![f] = "pending"]
  /\ UNCHANGED <<registered, ready, timer, target, woken, phase, result, history>>

PollAgain(f) ==
  /\ phase = "run"
  /\ Live(f) /\ target[f][1] \in registered /\ boxArmed[f]
  /\ fut' = [fut EXCEPT ![f] = IF slot[target[f]] = NoFut THEN "ready" ELSE @]
  /\ woken' = [woken EXCEPT ![f] = FALSE]
  /\ UNCHANGED <<driverVars, ready, timer, target, boxArmed, phase, result, history>>

(* interest_drop: the slot, if it is armed, is cancelled.  boxArmed stays  *)
(* set when the future gets READY (io.c:282-286), and the test does not    *)
(* ask whose waker is in the slot: another future may have armed it since. *)
CancelSlot_Bug(p) ==                     \* both directions of the fd
  /\ slot' = [q \in Slot |-> IF q[1] = p[1] THEN NoFut ELSE slot[q]]
  /\ armed' = armed - Cardinality({q \in ArmedSlots : q[1] = p[1]})

CancelSlot(p) == slot' = [slot EXCEPT ![p] = NoFut] /\ armed' = armed - 1

Cancels(f) == boxArmed[f] /\ target[f][1] \in registered /\ slot[target[f]] # NoFut

InterestDrop_Bug(f) ==                   \* the slot keeps the dead waker
  /\ phase # "wait" /\ fut[f] # "dropped"
  /\ fut' = [fut EXCEPT ![f] = "dropped"]
  /\ woken' = [woken EXCEPT ![f] = FALSE]
  /\ UNCHANGED <<driverVars, ready, timer, target, boxArmed, phase, result, history>>

InterestDrop(f) ==
  /\ phase # "wait" /\ fut[f] # "dropped"
  /\ IF Cancels(f)
     THEN /\ CancelSlot(target[f])
          /\ UpdateInterest({target[f][1]})
          /\ robbed' = robbed \cup (IF fut[f] = "ready" THEN {slot[target[f]]} ELSE {})
          /\ UNCHANGED <<registered, orphaned>>
     ELSE UNCHANGED <<driverVars, history>>
  /\ fut' = [fut EXCEPT ![f] = "dropped"]
  /\ woken' = [woken EXCEPT ![f] = FALSE]
  /\ UNCHANGED <<ready, timer, target, boxArmed, phase, result>>

-----------------------------------------------------------------------------
(* The kernel: readiness comes, and goes except for a hang-up.  A          *)
(* direction no future is for is never asked for, and is left out.         *)
KernelReady(d) ==
  \E e \in {target[f][2] : f \in {g \in Fut : target[g][1] = d}} \cup {"HUP"} :
    /\ e \notin ready[d]
    /\ ready' = [ready EXCEPT ![d] = @ \cup {e}]
    /\ UNCHANGED <<driverVars, timer, target, fut, boxArmed, woken, phase, result, history>>

KernelClear(d) ==
  \E e \in Dir :
    /\ e \in ready[d]
    /\ ready' = [ready EXCEPT ![d] = @ \ {e}]
    /\ UNCHANGED <<driverVars, timer, target, fut, boxArmed, woken, phase, result, history>>

(* A sleep is armed in the driver's reactor; the model keeps the earliest. *)
ArmTimer ==
  /\ phase = "run"
  /\ timer = -1
  /\ timer' \in 1 .. MaxWaits
  /\ UNCHANGED <<driverVars, ready, target, fut, boxArmed, woken, phase, result, history>>

(* The sleep is dropped before it fires.                                   *)
CancelTimer ==
  /\ phase = "run"
  /\ timer # -1
  /\ timer' = -1
  /\ UNCHANGED <<driverVars, ready, target, fut, boxArmed, woken, phase, result, history>>

-----------------------------------------------------------------------------
(* io_driver_park: nothing to wait for, or into epoll_wait.  The executor  *)
(* parks only when every woken task has been polled (executor.c:169-217).  *)
Drained == \A f \in Fut : ~woken[f]
NothingToWaitFor == timer = -1 /\ armed = 0

ParkIdle ==
  /\ phase = "run" /\ Drained
  /\ NothingToWaitFor
  /\ result' = "false"
  /\ UNCHANGED <<driverVars, ready, timer, target, fut, boxArmed, woken, phase, history>>

ParkWait ==
  /\ phase = "run" /\ Drained
  /\ ~NothingToWaitFor
  /\ phase' = "wait"
  /\ UNCHANGED <<driverVars, ready, timer, target, fut, boxArmed, woken, result, history>>

(* What epoll reports of fd d: what it asked for, and a hang-up unasked.   *)
Reported(d) == ready[d] \cap (mask[d] \cup {"HUP"})

Reporting == {d \in registered : Reported(d) # {}}

(* The slots an event list for the fds in D fires: a hang-up fires both.   *)
FiredSlots(D) ==
  {p \in ArmedSlots : /\ p[1] \in D
                      /\ p[2] \in Reported(p[1]) \/ "HUP" \in Reported(p[1])}

(* Wake and clear the fired slots, recompute the interest of every fd that *)
(* was reported, and fire the timer when t says it is due.                 *)
HandleEvents_Bug(D, t) ==                \* all slots of the fd are cleared
  LET fired == FiredSlots(D)
  IN  /\ slot' = [p \in Slot |-> IF p[1] \in D THEN NoFut ELSE slot[p]]
      /\ armed' = armed - Cardinality({p \in ArmedSlots : p[1] \in D})
      /\ woken' = [f \in Fut |-> woken[f] \/ \E p \in fired : slot[p] = f]
      /\ UpdateInterest(D)
      /\ timer' = IF t = 0 THEN -1 ELSE t
      /\ result' = IF fired # {} \/ t = 0 THEN "true" ELSE "false"

HandleEvents(D, t) ==
  LET fired == FiredSlots(D)
  IN  /\ slot' = [p \in Slot |-> IF p \in fired THEN NoFut ELSE slot[p]]
      /\ armed' = armed - Cardinality(fired)
      /\ woken' = [f \in Fut |-> woken[f] \/ \E p \in fired : slot[p] = f]
      /\ UpdateInterest(D)
      /\ timer' = IF t = 0 THEN -1 ELSE t
      /\ result' = IF fired # {} \/ t = 0 THEN "true" ELSE "false"

(* epoll_wait returns as many ready fds as it can; meanwhile the timer may *)
(* have become due.                                                        *)
ParkEvents ==
  /\ phase = "wait"
  /\ \E D \in SUBSET Reporting, t \in {timer} \cup (IF timer = 1 THEN {0} ELSE {}) :
       /\ D # {}
       /\ Cardinality(D) = MaxEvents \/ (Cardinality(D) < MaxEvents /\ D = Reporting)
       /\ HandleEvents(D, t)
  /\ phase' = "run"
  /\ UNCHANGED <<registered, ready, target, fut, boxArmed, history>>

(* epoll_wait times out.                                                   *)
ParkTimeout ==
  /\ phase = "wait"
  /\ Reporting = {}
  /\ timer # -1
  /\ HandleEvents({}, timer - 1)
  /\ phase' = "run"
  /\ UNCHANGED <<registered, ready, target, fut, boxArmed, history>>

Next ==
  \/ \E d \in Fd : IoAdd(d) \/ IoRemove(d) \/ KernelReady(d) \/ KernelClear(d)
  \/ \E f \in Fut : PollUnregistered(f) \/ PollFirst(f) \/ PollAgain(f) \/ InterestDrop(f)
  \/ ArmTimer \/ CancelTimer \/ DriverClose
  \/ ParkIdle \/ ParkWait \/ ParkEvents \/ ParkTimeout

Safe == Init /\ [][Next]_vars

(* epoll_wait reports what is ready or times out, and a woken task polls   *)
(* its futures.  Nothing makes the executor park: it does so when no task  *)
(* is queued (executor.c:176, 213), and the tasks decide that.             *)
Spec == /\ Safe
        /\ WF_vars(ParkEvents \/ ParkTimeout)
        /\ \A f \in Fut : WF_vars(woken[f] /\ (PollAgain(f) \/ PollUnregistered(f)))

-----------------------------------------------------------------------------
(* driver.armed is the number of armed slots (io.c:85, 151-163, 225-236,   *)
(* 278, 301): too high and the driver blocks forever with nothing to wait  *)
(* for; too low and it gives up while a future waits.                      *)
ArmedCountExact == armed = Cardinality(ArmedSlots)

(* The kernel watches a direction of a registered fd exactly while a       *)
(* future waits for it (io.c:20-28, 113-122): no busy loop on a writable   *)
(* socket, and no event that nobody asked epoll for.                       *)
MaskMatchesSlots == \A d \in registered : mask[d] = ArmedDirs(d)

(* The driver's count, the kernel's masks and the slots agree              *)
(* (io.c:85, 113-163, 225-236, 278, 301).                                  *)
BooksAgree == TypeOK /\ ArmedCountExact /\ MaskMatchesSlots

(* A slot belongs to a future that is alive and waits for it, on an fd     *)
(* that is registered (io.c:165-182, 289-308): no waker of a dropped or    *)
(* completed future is ever called.                                        *)
SlotOwnerWaits ==
  \A p \in ArmedSlots : /\ p[1] \in registered
                        /\ Awaiting(slot[p]) /\ target[slot[p]] = p

(* The poll contract (future.c:21-25) for fds: a future that returned      *)
(* Pending is in its slot, or has been woken since, whatever the other     *)
(* direction, the other fds and the park do.  Two things leave it behind:  *)
(* a client that removes the fd under it (io.c:45-47), and the drop of a   *)
(* future that was READY already and once had the same slot (io.c:291).    *)
(* The drop of one that still waits never does.                            *)
PendingIsArranged ==
  \A f \in Fut :
    Awaiting(f) => slot[target[f]] = f \/ woken[f] \/ f \in orphaned \cup robbed

(* What io.c:294-296 says of the drop: a future dropped before firing      *)
(* cancels "our slot", the one that holds its own waker.  The futures      *)
(* whose fd was kept for as long as they waited (io.c:45-47) are meant.    *)
DropCancelsOwnSlot ==
  [][\A f \in Fut \ orphaned :
       InterestDrop(f) => \A p \in ArmedSlots : slot'[p] # slot[p] => slot[p] = f]_vars

(* The park makes progress while anything is outstanding (executor.c:40-49,*)
(* io.c:198-200): it returns false only when there is no timer and no      *)
(* armed slot, or for one of two reasons: a hang-up on an fd that nobody   *)
(* waits for ended the wait (io.c:219-244), or the longest wait epoll_wait *)
(* takes ended before the next deadline (io.c:208-209).                    *)
NothingOutstanding == timer = -1 /\ ArmedSlots = {}

UnaskedHangUp == \E d \in registered : "HUP" \in ready[d] /\ ArmedDirs(d) = {}

Parks == (ParkIdle \/ ParkEvents \/ ParkTimeout) /\ phase' = "run"

ParkMakesProgress ==
  [][Parks /\ result' = "false" => NothingOutstanding \/ UnaskedHangUp \/ timer > 1]_vars

(* What executor.c:44-46 says of the park: false means that nothing can    *)
(* wake a task any more.                                                   *)
ParkFalseIsStall == [][Parks /\ result' = "false" => NothingOutstanding]_vars

(* A future whose direction stays ready completes, even when more fds are  *)
(* ready than one epoll_wait reports (io.c:215-238), unless its client     *)
(* takes the fd or the driver away, the drop of a READY future takes its   *)
(* slot, or a hang-up ends the run.  The executor must park again and      *)
(* again: tasks that wake themselves in every poll keep it from that.      *)
IsReady(f) == target[f][2] \in ready[target[f][1]]

GivenUp(f) == f \in orphaned \cup robbed \/ phase = "closed" \/ UnaskedHangUp

ParksRecur == []<>(phase = "wait")

ReadyCompletes ==
  ParksRecur =>
    \A f \in Fut : (Awaiting(f) /\ IsReady(f)) ~> (~Awaiting(f) \/ ~IsReady(f) \/ GivenUp(f))
=============================================================================
