--------------------------- MODULE IoDriverProofs ---------------------------
(***************************************************************************)
(* The safety of the epoll driver for any number of fds and futures and    *)
(* any length of the event list, with hang-ups.                            *)
(***************************************************************************)
EXTENDS IoDriver, FiniteSetTheorems, TLAPS

(* At most one future waits in a slot: what MayArm asks of the clients.    *)
OneWaiter ==
  \A f, g \in Fut : Awaiting(f) /\ Awaiting(g) /\ target[f] = target[g] => f = g

(* A future that waits has set its slot, a new one has not.                *)
BoxInv == \A f \in Fut : /\ Awaiting(f) => boxArmed[f]
                         /\ boxArmed[f] => fut[f] # "new"

IoInv == /\ TypeOK
         /\ ArmedCountExact
         /\ MaskMatchesSlots
         /\ SlotOwnerWaits
         /\ OneWaiter
         /\ BoxInv

-----------------------------------------------------------------------------
(* The slots of finitely many fds are finite in number.                    *)
LEMMA ArmedFinite == IsFiniteSet(ArmedSlots)
<1>1. IsFiniteSet(Dir)
  <2>1. Dir = {"IN"} \cup {"OUT"}
    BY DEF Dir
  <2> QED BY <2>1, FS_Singleton, FS_Union
<1>2. IsFiniteSet(Slot)
  BY <1>1, FS_Product, IoAssumption DEF Slot
<1>3. ArmedSlots \in SUBSET Slot
  BY DEF ArmedSlots
<1> QED BY <1>2, <1>3, FS_Subset

(* Arming a free slot adds one to the count.                               *)
LEMMA ArmLemma ==
  ASSUME TypeOK, NEW p \in Slot, slot[p] = NoFut, NEW f \in Fut,
         slot' = [slot EXCEPT ![p] = f]
  PROVE  Cardinality(ArmedSlots') = Cardinality(ArmedSlots) + 1
<1>1. f # NoFut
  BY IoAssumption
<1>2. ASSUME NEW q \in Slot
      PROVE  slot'[q] # NoFut <=> (slot[q] # NoFut \/ q = p)
  BY <1>1 DEF TypeOK
<1>3. ArmedSlots' = ArmedSlots \cup {p} /\ p \notin ArmedSlots
  BY <1>2 DEF ArmedSlots
<1> QED BY <1>3, ArmedFinite, FS_AddElement

(* Clearing some armed slots takes their number off the count.             *)
LEMMA ClearLemma ==
  ASSUME NEW S \in SUBSET Slot, S \subseteq ArmedSlots,
         \A q \in Slot : slot'[q] = IF q \in S THEN NoFut ELSE slot[q]
  PROVE  Cardinality(ArmedSlots') = Cardinality(ArmedSlots) - Cardinality(S)
<1>1. ArmedSlots = ArmedSlots' \cup S /\ ArmedSlots' \cap S = {}
  BY DEF ArmedSlots
<1>2. IsFiniteSet(S) /\ IsFiniteSet(ArmedSlots')
  BY <1>1, ArmedFinite, FS_Subset
<1>3. Cardinality(ArmedSlots') \in Nat /\ Cardinality(S) \in Nat /\ Cardinality({}) = 0
  BY <1>2, FS_CardinalityType, FS_EmptySet
<1>4. Cardinality(ArmedSlots' \cup S)
        = Cardinality(ArmedSlots') + Cardinality(S) - Cardinality(ArmedSlots' \cap S)
  BY <1>2, FS_Union
<1>5. Cardinality(ArmedSlots) = Cardinality(ArmedSlots') + Cardinality(S) - 0
  BY <1>1, <1>3, <1>4, Zenon
<1> QED BY <1>3, <1>5

(* Recomputing the interest of the fds whose slots changed keeps every     *)
(* mask right (sched_update_interest, io.c:113-122).                       *)
LEMMA InterestLemma ==
  ASSUME TypeOK, MaskMatchesSlots, NEW D \in SUBSET Fd, UpdateInterest(D),
         registered' = registered,
         \A q \in Slot : q[1] \notin D => slot'[q] = slot[q]
  PROVE  MaskMatchesSlots' /\ mask' \in [Fd -> SUBSET Dir]
<1>1. \A d \in Fd : ArmedDirs(d)' \in SUBSET Dir
  BY DEF ArmedDirs
<1>2. mask' \in [Fd -> SUBSET Dir]
  BY <1>1 DEF UpdateInterest, TypeOK
<1>3. ASSUME NEW d \in registered PROVE mask'[d] = ArmedDirs(d)'
  <2>1. d \in Fd
    BY DEF TypeOK
  <2>2. CASE d \in D
    BY <2>1, <2>2 DEF UpdateInterest
  <2>3. CASE d \notin D
    <3>1. ASSUME NEW r \in Dir PROVE slot'[<<d, r>>] = slot[<<d, r>>]
      BY <2>1, <2>3 DEF Slot
    <3>2. ArmedDirs(d)' = ArmedDirs(d)
      BY <3>1 DEF ArmedDirs
    <3>3. mask'[d] = mask[d]
      BY <2>1, <2>3 DEF UpdateInterest
    <3> QED BY <3>2, <3>3 DEF MaskMatchesSlots
  <2> QED BY <2>2, <2>3
<1> QED BY <1>2, <1>3 DEF MaskMatchesSlots

(* sched_free of the fds in D: their slots are gone from the table, the    *)
(* count and the epoll set alike (io.c:151-163).                           *)
LEMMA SchedFreeLemma ==
  ASSUME IoInv, NEW D \in SUBSET Fd, SchedFree(D), UNCHANGED <<fut, target>>
  PROVE  /\ registered' \subseteq Fd
         /\ slot' \in [Slot -> Fut \cup {NoFut}]
         /\ armed' \in Nat
         /\ mask' \in [Fd -> SUBSET Dir]
         /\ ArmedCountExact' /\ MaskMatchesSlots' /\ SlotOwnerWaits'
         /\ \A p \in Slot : slot'[p] = slot[p] \/ p[1] \in D
<1> USE DEF IoInv
<1>1. PICK S \in SUBSET Slot : S = {p \in ArmedSlots : p[1] \in D}
  BY DEF ArmedSlots
<1>2. slot' \in [Slot -> Fut \cup {NoFut}] /\ registered' \subseteq Fd
  BY DEF SchedFree, TypeOK
<1>3. mask' \in [Fd -> SUBSET Dir]
  BY DEF SchedFree, TypeOK
<1>4. \A q \in Slot : slot'[q] = IF q \in S THEN NoFut ELSE slot[q]
  BY <1>1 DEF SchedFree, ArmedSlots, TypeOK
<1>5. Cardinality(ArmedSlots') = Cardinality(ArmedSlots) - Cardinality(S)
  <2>1. S \subseteq ArmedSlots
    BY <1>1
  <2> QED BY <1>4, <2>1, ClearLemma
<1>6. ArmedCountExact'
  <2>1. armed' = armed - Cardinality(S)
    BY <1>1 DEF SchedFree
  <2> QED BY <1>5, <2>1 DEF ArmedCountExact
<1>7. armed' \in Nat
  <2>1. ArmedSlots' \subseteq ArmedSlots
    BY <1>4 DEF ArmedSlots
  <2>2. IsFiniteSet(ArmedSlots')
    BY <2>1, ArmedFinite, FS_Subset
  <2> QED BY <1>6, <2>2, FS_CardinalityType DEF ArmedCountExact
<1>8. MaskMatchesSlots'
  <2>1. ASSUME NEW d \in registered' PROVE mask'[d] = ArmedDirs(d)'
    <3>1. d \in registered /\ d \in Fd /\ d \notin D
      BY <2>1 DEF SchedFree, TypeOK
    <3>2. ASSUME NEW r \in Dir PROVE slot'[<<d, r>>] = slot[<<d, r>>]
      BY <3>1 DEF SchedFree, Slot
    <3>3. ArmedDirs(d)' = ArmedDirs(d)
      BY <3>2 DEF ArmedDirs
    <3>4. mask'[d] = mask[d]
      BY <3>1 DEF SchedFree
    <3> QED BY <3>1, <3>3, <3>4 DEF MaskMatchesSlots
  <2> QED BY <2>1 DEF MaskMatchesSlots
<1>9. SlotOwnerWaits'
  <2>1. ASSUME NEW p \in Slot, slot'[p] # NoFut
        PROVE  p[1] \in registered' /\ fut'[slot'[p]] = "pending" /\ target'[slot'[p]] = p
    <3>1. p \in ArmedSlots /\ p[1] \notin D /\ slot'[p] = slot[p]
      BY <1>1, <1>4, <2>1 DEF ArmedSlots
    <3> QED BY <3>1 DEF SlotOwnerWaits, SchedFree, Awaiting
  <2> QED BY <2>1 DEF SlotOwnerWaits, ArmedSlots, Awaiting
<1>10. \A p \in Slot : slot'[p] = slot[p] \/ p[1] \in D
  BY DEF SchedFree
<1> QED BY <1>2, <1>3, <1>6, <1>7, <1>8, <1>9, <1>10

(* Waking and clearing the fired slots (io.c:219-245).                     *)
LEMMA HandleEventsLemma ==
  ASSUME IoInv, NEW D \in SUBSET Fd, NEW t, t \in {-1} \cup (0 .. MaxWaits),
         HandleEvents(D, t), UNCHANGED <<registered, fut, target>>
  PROVE  /\ slot' \in [Slot -> Fut \cup {NoFut}]
         /\ armed' \in Nat
         /\ mask' \in [Fd -> SUBSET Dir]
         /\ timer' \in {-1} \cup (1 .. MaxWaits)
         /\ woken' \in [Fut -> BOOLEAN]
         /\ result' \in {"true", "false"}
         /\ ArmedCountExact' /\ MaskMatchesSlots' /\ SlotOwnerWaits'
         /\ \A f \in Fut : woken[f] => woken'[f]
         /\ \A p \in Slot : slot[p] \in Fut /\ slot'[p] # slot[p] => woken'[slot[p]]
<1> USE DEF IoInv
<1>1. PICK S \in SUBSET Slot : S = FiredSlots(D)
  BY DEF FiredSlots, ArmedSlots
<1>2. /\ slot' = [p \in Slot |-> IF p \in S THEN NoFut ELSE slot[p]]
      /\ armed' = armed - Cardinality(S)
      /\ woken' = [f \in Fut |-> woken[f] \/ \E p \in S : slot[p] = f]
      /\ UpdateInterest(D)
      /\ timer' = IF t = 0 THEN -1 ELSE t
      /\ result' = IF S # {} \/ t = 0 THEN "true" ELSE "false"
  BY <1>1 DEF HandleEvents
<1>3. S \subseteq ArmedSlots /\ \A p \in S : p[1] \in D
  BY <1>1 DEF FiredSlots
<1>4. slot' \in [Slot -> Fut \cup {NoFut}]
  BY <1>2 DEF TypeOK
<1>5. \A q \in Slot : slot'[q] = IF q \in S THEN NoFut ELSE slot[q]
  BY <1>2
<1>6. Cardinality(ArmedSlots') = Cardinality(ArmedSlots) - Cardinality(S)
  BY <1>3, <1>5, ClearLemma
<1>7. ArmedCountExact'
  BY <1>2, <1>6 DEF ArmedCountExact
<1>8. armed' \in Nat
  <2>1. ArmedSlots' \subseteq ArmedSlots
    BY <1>5 DEF ArmedSlots
  <2>2. IsFiniteSet(ArmedSlots')
    BY <2>1, ArmedFinite, FS_Subset
  <2> QED BY <1>7, <2>2, FS_CardinalityType DEF ArmedCountExact
<1>9. MaskMatchesSlots' /\ mask' \in [Fd -> SUBSET Dir]
  <2>1. \A q \in Slot : q[1] \notin D => slot'[q] = slot[q]
    BY <1>3, <1>5
  <2> QED BY <1>2, <2>1, InterestLemma
<1>10. SlotOwnerWaits'
  <2>1. ASSUME NEW p \in Slot, slot'[p] # NoFut
        PROVE  p[1] \in registered' /\ fut'[slot'[p]] = "pending" /\ target'[slot'[p]] = p
    <3>1. p \in ArmedSlots /\ slot'[p] = slot[p]
      BY <1>5, <2>1 DEF ArmedSlots
    <3> QED BY <3>1 DEF SlotOwnerWaits, Awaiting
  <2> QED BY <2>1 DEF SlotOwnerWaits, ArmedSlots, Awaiting
<1>11. woken' \in [Fut -> BOOLEAN] /\ \A f \in Fut : woken[f] => woken'[f]
  <2>1. \A f \in Fut : (woken[f] \/ \E p \in S : slot[p] = f) \in BOOLEAN
    BY DEF TypeOK
  <2> QED BY <1>2, <2>1, Zenon
<1>12. \A p \in Slot : slot[p] \in Fut /\ slot'[p] # slot[p] => woken'[slot[p]]
  BY <1>2, <1>5
<1>13. timer' \in {-1} \cup (1 .. MaxWaits) /\ result' \in {"true", "false"}
  BY <1>2
<1> QED BY <1>4, <1>7, <1>8, <1>9, <1>10, <1>11, <1>12, <1>13

-----------------------------------------------------------------------------
LEMMA InitInv == Init => IoInv /\ PendingIsArranged
<1> SUFFICES ASSUME Init PROVE IoInv /\ PendingIsArranged
  OBVIOUS
<1>1. TypeOK
  BY IoAssumption DEF Init, InterestNew, TypeOK
<1>2. ArmedSlots = {}
  BY DEF Init, ArmedSlots
<1>3. ArmedCountExact
  BY <1>2, FS_EmptySet DEF Init, ArmedCountExact
<1>4. MaskMatchesSlots /\ SlotOwnerWaits /\ OneWaiter /\ BoxInv /\ PendingIsArranged
  BY <1>2 DEF Init, InterestNew, MaskMatchesSlots, SlotOwnerWaits, OneWaiter, BoxInv,
              PendingIsArranged, Awaiting, ArmedSlots, ArmedDirs
<1> QED BY <1>1, <1>3, <1>4 DEF IoInv

(* Arming a slot: the first poll of a future.                              *)
LEMMA PollFirstInv ==
  ASSUME IoInv, NEW f \in Fut, PollFirst(f)
  PROVE  IoInv' /\ (PendingIsArranged => PendingIsArranged')
<1> USE DEF IoInv
<1>1. PICK p \in Slot : p = target[f]
  BY DEF TypeOK
<1>2. p[1] \in Fd /\ p[1] \in registered
  BY <1>1 DEF PollFirst, TypeOK
<1>3. slot[p] = NoFut
  <2>1. ASSUME slot[p] # NoFut PROVE FALSE
    <3>1. /\ slot[p] \in Fut /\ Awaiting(slot[p]) /\ target[slot[p]] = p
      BY <2>1 DEF SlotOwnerWaits, ArmedSlots, TypeOK
    <3>2. slot[p] # f
      BY <3>1 DEF PollFirst, BoxInv
    <3> QED BY <1>1, <3>1, <3>2 DEF PollFirst, MayArm
  <2> QED BY <2>1
<1>4. /\ slot' = [slot EXCEPT ![p] = f] /\ armed' = armed + 1
      /\ UpdateInterest({p[1]})
      /\ fut' = [fut EXCEPT ![f] = "pending"] /\ fut[f] = "new"
      /\ boxArmed' = [boxArmed EXCEPT ![f] = TRUE]
      /\ UNCHANGED <<registered, ready, timer, target, woken, orphaned, robbed, phase, result>>
  BY <1>1 DEF PollFirst, SetSlot, Live, BoxInv, Awaiting, history
<1>5. MaskMatchesSlots' /\ mask' \in [Fd -> SUBSET Dir]
  <2>1. \A q \in Slot : q[1] \notin {p[1]} => slot'[q] = slot[q]
    BY <1>4
  <2> QED BY <1>2, <1>4, <2>1, InterestLemma
<1>6. TypeOK'
  BY <1>4, <1>5 DEF TypeOK
<1>7. ArmedCountExact'
  BY <1>3, <1>4, ArmLemma DEF ArmedCountExact
<1>8. ASSUME NEW q \in Slot, slot'[q] # NoFut
      PROVE  q[1] \in registered' /\ fut'[slot'[q]] = "pending" /\ target'[slot'[q]] = q
  <2>1. CASE q = p
    BY <1>1, <1>2, <1>4, <2>1 DEF TypeOK
  <2>2. CASE q # p
    BY <1>4, <1>8, <2>2 DEF SlotOwnerWaits, ArmedSlots, Awaiting, TypeOK
  <2> QED BY <2>1, <2>2
<1>9. SlotOwnerWaits'
  BY <1>8 DEF SlotOwnerWaits, ArmedSlots, Awaiting
<1>10. OneWaiter'
  <2>1. \A g \in Fut \ {f} : fut[g] = "pending" => target[g] # target[f]
    BY DEF PollFirst, MayArm, Awaiting
  <2>2. \A g \in Fut \ {f} : fut'[g] = fut[g]
    BY <1>4 DEF TypeOK
  <2> QED BY <1>4, <2>1, <2>2 DEF OneWaiter, Awaiting
<1>11. PendingIsArranged => PendingIsArranged'
  <2>1. ASSUME PendingIsArranged, NEW g \in Fut, fut'[g] = "pending"
        PROVE  slot'[target'[g]] = g \/ woken'[g] \/ g \in orphaned' \cup robbed'
    <3>1. CASE g = f
      BY <1>1, <1>4, <3>1 DEF TypeOK
    <3>2. CASE g # f
      <4>1. fut[g] = "pending" /\ target[g] \in Slot
        BY <1>4, <2>1, <3>2 DEF TypeOK
      <4>2. target[g] # p
        BY <1>1, <3>2, <4>1 DEF PollFirst, MayArm, Awaiting
      <4> QED BY <1>4, <2>1, <4>1, <4>2 DEF PendingIsArranged, Awaiting, TypeOK
    <3> QED BY <3>1, <3>2
  <2> QED BY <2>1 DEF PendingIsArranged, Awaiting
<1>12. BoxInv'
  <2>1. ASSUME NEW g \in Fut
        PROVE  (fut'[g] = "pending" => boxArmed'[g]) /\ (boxArmed'[g] => fut'[g] # "new")
    <3>1. CASE g = f
      BY <1>4, <3>1 DEF TypeOK
    <3>2. CASE g # f
      BY <1>4, <3>2 DEF TypeOK, BoxInv, Awaiting
    <3> QED BY <3>1, <3>2
  <2> QED BY <2>1 DEF BoxInv, Awaiting
<1> QED BY <1>5, <1>6, <1>7, <1>9, <1>10, <1>11, <1>12

(* A step of a future that has no armed slot, or gives it up, and leaves   *)
(* the driver alone.                                                       *)
LEMMA RetireInv ==
  ASSUME IoInv, NEW f \in Fut, NEW v \in {"ready", "dropped"},
         \A p \in ArmedSlots : slot[p] # f,
         fut' = [fut EXCEPT ![f] = v], woken' = [woken EXCEPT ![f] = FALSE],
         UNCHANGED <<driverVars, ready, timer, target, boxArmed, history, phase, result>>
  PROVE  IoInv' /\ (PendingIsArranged => PendingIsArranged')
<1> USE DEF IoInv
<1>1. UNCHANGED <<registered, slot, armed, mask, ready, timer, target, boxArmed, orphaned, robbed, phase, result>>
  BY DEF driverVars, history
<1>2. TypeOK'
  BY <1>1 DEF TypeOK
<1>3. ArmedSlots' = ArmedSlots /\ \A d : ArmedDirs(d)' = ArmedDirs(d)
  BY <1>1 DEF ArmedSlots, ArmedDirs
<1>4. ArmedCountExact' /\ MaskMatchesSlots'
  BY <1>1, <1>3 DEF ArmedCountExact, MaskMatchesSlots
<1>5. \A g \in Fut : /\ fut'[g] = "pending" <=> (fut[g] = "pending" /\ g # f)
                     /\ g # f => woken'[g] = woken[g]
  BY DEF TypeOK
<1>6. \A p \in ArmedSlots : slot[p] \in Fut
  BY DEF ArmedSlots, TypeOK
<1>7. SlotOwnerWaits'
  BY <1>1, <1>3, <1>5, <1>6 DEF SlotOwnerWaits, Awaiting
<1>8. OneWaiter'
  BY <1>1, <1>5 DEF OneWaiter, Awaiting
<1>9. PendingIsArranged => PendingIsArranged'
  BY <1>1, <1>5 DEF PendingIsArranged, Awaiting
<1>10. BoxInv'
  BY <1>1 DEF BoxInv, Awaiting, TypeOK
<1> QED BY <1>2, <1>4, <1>7, <1>8, <1>9, <1>10

LEMMA PollUnregisteredInv ==
  ASSUME IoInv, NEW f \in Fut, PollUnregistered(f)
  PROVE  IoInv' /\ (PendingIsArranged => PendingIsArranged')
<1>1. \A p \in ArmedSlots : slot[p] # f
  BY DEF PollUnregistered, IoInv, SlotOwnerWaits
<1> QED BY <1>1, RetireInv DEF PollUnregistered

LEMMA PollAgainInv ==
  ASSUME IoInv, NEW f \in Fut, PollAgain(f)
  PROVE  IoInv' /\ (PendingIsArranged => PendingIsArranged')
<1>1. CASE slot[target[f]] = NoFut
  <2>1. \A p \in ArmedSlots : slot[p] # f
    BY <1>1 DEF IoInv, SlotOwnerWaits, ArmedSlots
  <2>2. fut' = [fut EXCEPT ![f] = "ready"]
    BY <1>1 DEF PollAgain
  <2> QED BY <2>1, <2>2, RetireInv DEF PollAgain
<1>2. CASE slot[target[f]] # NoFut
  <2>1. fut' = fut /\ woken' = [woken EXCEPT ![f] = FALSE]
        /\ UNCHANGED <<registered, slot, armed, mask, ready, timer, target, boxArmed, orphaned, robbed, phase, result>>
    BY <1>2 DEF PollAgain, driverVars, history, IoInv, TypeOK
  <2>2. slot[target[f]] = f
    <3>1. PICK p \in Slot : p = target[f]
      BY DEF IoInv, TypeOK
    <3>2. slot[p] \in Fut /\ Awaiting(slot[p]) /\ target[slot[p]] = p
      BY <1>2, <3>1 DEF IoInv, SlotOwnerWaits, ArmedSlots, TypeOK
    <3>3. Awaiting(f)
      BY DEF IoInv, BoxInv, PollAgain, Live, Awaiting
    <3> QED BY <3>1, <3>2, <3>3 DEF IoInv, OneWaiter
  <2>3. TypeOK'
    BY <2>1 DEF IoInv, TypeOK
  <2>4. ArmedSlots' = ArmedSlots /\ \A d : ArmedDirs(d)' = ArmedDirs(d)
    BY <2>1 DEF ArmedSlots, ArmedDirs
  <2>5. ArmedCountExact' /\ MaskMatchesSlots' /\ SlotOwnerWaits' /\ OneWaiter'
    BY <2>1, <2>4 DEF IoInv, ArmedCountExact, MaskMatchesSlots, SlotOwnerWaits,
                      OneWaiter, Awaiting
  <2>6. PendingIsArranged => PendingIsArranged'
    BY <2>1, <2>2 DEF PendingIsArranged, Awaiting, IoInv, TypeOK
  <2>7. BoxInv'
    BY <2>1 DEF IoInv, BoxInv, Awaiting
  <2> QED BY <2>3, <2>5, <2>6, <2>7 DEF IoInv
<1> QED BY <1>1, <1>2

(* Dropping a future clears its slot, or the one its successor has armed.  *)
LEMMA InterestDropInv ==
  ASSUME IoInv, NEW f \in Fut, InterestDrop(f)
  PROVE  IoInv' /\ (PendingIsArranged => PendingIsArranged')
<1>1. PICK p \in Slot : p = target[f]
  BY DEF IoInv, TypeOK
<1>2. /\ fut' = [fut EXCEPT ![f] = "dropped"] /\ woken' = [woken EXCEPT ![f] = FALSE]
      /\ UNCHANGED <<ready, timer, target, boxArmed, phase, result>>
  BY DEF InterestDrop
<1>3. CASE ~Cancels(f)
  <2>1. UNCHANGED <<driverVars, history>>
    BY <1>3 DEF InterestDrop
  <2>2. \A q \in ArmedSlots : slot[q] # f
    BY <1>3 DEF IoInv, SlotOwnerWaits, BoxInv, ArmedSlots, Cancels
  <2> QED BY <1>2, <2>1, <2>2, RetireInv
<1>4. CASE Cancels(f)
  <2>1. /\ slot' = [slot EXCEPT ![p] = NoFut] /\ armed' = armed - 1
        /\ UpdateInterest({p[1]}) /\ registered' = registered
    BY <1>1, <1>4 DEF InterestDrop, CancelSlot
  <2>2. /\ orphaned' = orphaned
        /\ robbed' = robbed \cup (IF fut[f] = "ready" THEN {slot[p]} ELSE {})
    BY <1>1, <1>4 DEF InterestDrop
  <2>a. slot[p] \in Fut /\ Awaiting(slot[p]) /\ target[slot[p]] = p
    BY <1>1, <1>4 DEF IoInv, SlotOwnerWaits, ArmedSlots, TypeOK, Cancels
  <2>b. slot[p] # f => fut[f] = "ready"
    <3>1. fut[f] \in {"pending", "ready"}
      BY <1>4 DEF IoInv, BoxInv, TypeOK, Cancels, InterestDrop
    <3> QED BY <1>1, <2>a, <3>1 DEF IoInv, OneWaiter, Awaiting
  <2>3. p[1] \in Fd /\ p \in ArmedSlots
    BY <1>1, <1>4 DEF IoInv, TypeOK, ArmedSlots, Cancels
  <2>4. \A q \in Slot : slot'[q] = IF q \in {p} THEN NoFut ELSE slot[q]
    BY <2>1 DEF IoInv, TypeOK
  <2>5. Cardinality(ArmedSlots') = Cardinality(ArmedSlots) - 1
    <3>1. {p} \subseteq ArmedSlots /\ {p} \in SUBSET Slot
      BY <2>3
    <3>2. Cardinality(ArmedSlots') = Cardinality(ArmedSlots) - Cardinality({p})
      BY <2>4, <3>1, ClearLemma
    <3>3. Cardinality({p}) = 1
      BY FS_Singleton
    <3> QED BY <3>2, <3>3
  <2>6. ArmedCountExact'
    BY <2>1, <2>5 DEF IoInv, ArmedCountExact
  <2>7. armed' \in Nat
    <3>1. ArmedSlots' \subseteq ArmedSlots
      BY <2>4 DEF ArmedSlots
    <3>2. IsFiniteSet(ArmedSlots')
      BY <3>1, ArmedFinite, FS_Subset
    <3> QED BY <2>6, <3>2, FS_CardinalityType DEF ArmedCountExact
  <2>8. MaskMatchesSlots' /\ mask' \in [Fd -> SUBSET Dir]
    <3>1. \A q \in Slot : q[1] \notin {p[1]} => slot'[q] = slot[q]
      BY <2>4
    <3> QED BY <2>1, <2>3, <3>1, InterestLemma DEF IoInv
  <2>9. TypeOK'
    BY <1>2, <2>1, <2>2, <2>a, <2>7, <2>8 DEF IoInv, TypeOK
  <2>10. \A g \in Fut : /\ fut'[g] = "pending" <=> (fut[g] = "pending" /\ g # f)
                        /\ g # f => woken'[g] = woken[g]
    BY <1>2 DEF IoInv, TypeOK
  <2>11. ASSUME NEW q \in Slot, slot'[q] # NoFut
         PROVE  q[1] \in registered' /\ fut'[slot'[q]] = "pending" /\ target'[slot'[q]] = q
    <3>1. q # p /\ slot'[q] = slot[q] /\ q \in ArmedSlots
      BY <2>4, <2>11 DEF ArmedSlots
    <3>2. q[1] \in registered /\ slot[q] \in Fut /\ fut[slot[q]] = "pending" /\ target[slot[q]] = q
      BY <3>1 DEF IoInv, SlotOwnerWaits, ArmedSlots, Awaiting, TypeOK
    <3> QED BY <1>1, <1>2, <2>1, <2>10, <3>1, <3>2
  <2>12. SlotOwnerWaits'
    BY <2>11 DEF SlotOwnerWaits, ArmedSlots, Awaiting
  <2>13. OneWaiter'
    BY <1>2, <2>10 DEF IoInv, OneWaiter, Awaiting
  <2>14. ASSUME PendingIsArranged, NEW g \in Fut, fut'[g] = "pending"
         PROVE  slot'[target'[g]] = g \/ woken'[g] \/ g \in orphaned' \cup robbed'
    <3>1. g # f /\ fut[g] = "pending" /\ target[g] \in Slot
      BY <2>10, <2>14 DEF IoInv, TypeOK
    <3>2. slot[target[g]] = g \/ woken[g] \/ g \in orphaned \cup robbed
      BY <2>14, <3>1 DEF PendingIsArranged, Awaiting
    <3>3. CASE target[g] = p /\ slot[p] = g
      BY <2>2, <2>b, <3>1, <3>3
    <3>4. CASE target[g] # p \/ slot[p] # g
      BY <1>2, <2>2, <2>4, <2>10, <3>1, <3>2, <3>4
    <3> QED BY <3>3, <3>4
  <2>15. PendingIsArranged => PendingIsArranged'
    BY <2>14 DEF PendingIsArranged, Awaiting
  <2>16. BoxInv'
    BY <1>2, <2>10 DEF IoInv, BoxInv, Awaiting, TypeOK
  <2> QED BY <2>6, <2>8, <2>9, <2>12, <2>13, <2>15, <2>16 DEF IoInv
<1> QED BY <1>3, <1>4

(* Taking an fd away keeps the books; the future that waits for it is left *)
(* behind.                                                                 *)
LEMMA RemoveInv ==
  ASSUME IoInv, NEW D \in SUBSET Fd, SchedFree(D),
         phase' \in {"run", "closed"}, UNCHANGED <<ready, timer, target, fut, boxArmed, woken, result>>
  PROVE  IoInv' /\ (PendingIsArranged => PendingIsArranged')
<1>1. /\ registered' \subseteq Fd /\ slot' \in [Slot -> Fut \cup {NoFut}]
      /\ armed' \in Nat /\ mask' \in [Fd -> SUBSET Dir]
      /\ ArmedCountExact' /\ MaskMatchesSlots' /\ SlotOwnerWaits'
      /\ \A p \in Slot : slot'[p] = slot[p] \/ p[1] \in D
  BY SchedFreeLemma
<1>2. TypeOK'
  <2>1. orphaned' \subseteq Fut /\ robbed' \subseteq Fut
    BY DEF SchedFree, ArmedSlots, IoInv, TypeOK
  <2> QED BY <1>1, <2>1 DEF IoInv, TypeOK
<1>3. OneWaiter' /\ BoxInv'
  BY DEF IoInv, OneWaiter, BoxInv, Awaiting
<1>4. ASSUME PendingIsArranged, NEW f \in Fut, fut'[f] = "pending"
      PROVE  slot'[target'[f]] = f \/ woken'[f] \/ f \in orphaned' \cup robbed'
  <2>1. PICK p \in Slot : p = target[f]
    BY DEF IoInv, TypeOK
  <2>2. slot[p] = f \/ woken[f] \/ f \in orphaned \cup robbed
    BY <1>4, <2>1 DEF PendingIsArranged, Awaiting
  <2>3. /\ orphaned' = orphaned \cup {slot[q] : q \in {r \in ArmedSlots : r[1] \in D}}
        /\ robbed' = robbed
    BY DEF SchedFree
  <2>4. ASSUME slot[p] = f, p[1] \in D PROVE f \in orphaned'
    <3>1. p \in ArmedSlots
      BY <2>4, IoAssumption DEF ArmedSlots
    <3> QED BY <2>3, <2>4, <3>1
  <2> QED BY <1>1, <2>1, <2>2, <2>3, <2>4
<1> QED BY <1>1, <1>2, <1>3, <1>4 DEF IoInv, PendingIsArranged, Awaiting

LEMMA ParkReturnInv ==
  ASSUME IoInv, ParkEvents \/ ParkTimeout
  PROVE  IoInv' /\ (PendingIsArranged => PendingIsArranged')
<1>1. PICK D \in SUBSET Fd, t \in {-1} \cup (0 .. MaxWaits) : HandleEvents(D, t)
  <2>1. CASE ParkEvents
    <3>1. PICK D \in SUBSET Reporting, t \in {timer} \cup (IF timer = 1 THEN {0} ELSE {}) :
            HandleEvents(D, t)
      BY <2>1 DEF ParkEvents
    <3>2. D \in SUBSET Fd
      BY <3>1 DEF Reporting, IoInv, TypeOK
    <3>3. t \in {-1} \cup (0 .. MaxWaits)
      BY <3>1, IoAssumption DEF IoInv, TypeOK
    <3> QED BY <3>1, <3>2, <3>3
  <2>2. CASE ParkTimeout
    <3>1. HandleEvents({}, timer - 1) /\ timer # -1
      BY <2>2 DEF ParkTimeout
    <3>2. timer - 1 \in {-1} \cup (0 .. MaxWaits)
      BY <3>1, IoAssumption DEF IoInv, TypeOK
    <3> QED BY <3>1, <3>2
  <2> QED BY <2>1, <2>2
<1>2. phase' = "run" /\ UNCHANGED <<registered, ready, target, fut, boxArmed, orphaned, robbed>>
  BY DEF ParkEvents, ParkTimeout, history
<1>3. /\ slot' \in [Slot -> Fut \cup {NoFut}]
      /\ armed' \in Nat /\ mask' \in [Fd -> SUBSET Dir]
      /\ timer' \in {-1} \cup (1 .. MaxWaits)
      /\ woken' \in [Fut -> BOOLEAN] /\ result' \in {"true", "false"}
      /\ ArmedCountExact' /\ MaskMatchesSlots' /\ SlotOwnerWaits'
      /\ \A f \in Fut : woken[f] => woken'[f]
      /\ \A p \in Slot : slot[p] \in Fut /\ slot'[p] # slot[p] => woken'[slot[p]]
  BY <1>1, <1>2, HandleEventsLemma
<1>4. TypeOK'
  BY <1>2, <1>3 DEF IoInv, TypeOK
<1>5. OneWaiter' /\ BoxInv'
  BY <1>2 DEF IoInv, OneWaiter, BoxInv, Awaiting
<1>6. ASSUME PendingIsArranged, NEW f \in Fut, fut'[f] = "pending"
      PROVE  slot'[target'[f]] = f \/ woken'[f] \/ f \in orphaned' \cup robbed'
  <2>1. target[f] \in Slot /\ (slot[target[f]] = f \/ woken[f] \/ f \in orphaned \cup robbed)
    BY <1>2, <1>6 DEF IoInv, TypeOK, PendingIsArranged, Awaiting
  <2> QED BY <1>2, <1>3, <2>1
<1> QED BY <1>3, <1>4, <1>5, <1>6 DEF IoInv, PendingIsArranged, Awaiting

(* The steps that change neither a slot nor a future.                      *)
LEMMA FrameInv ==
  ASSUME IoInv, TypeOK',
         UNCHANGED <<slot, armed, target, fut, boxArmed, woken, orphaned, robbed>>,
         \A d \in registered' : d \notin registered => mask'[d] = {},
         registered \subseteq registered',
         \A d \in registered : mask'[d] = mask[d]
  PROVE  IoInv' /\ (PendingIsArranged => PendingIsArranged')
<1>1. ArmedSlots' = ArmedSlots /\ \A d : ArmedDirs(d)' = ArmedDirs(d)
  BY DEF ArmedSlots, ArmedDirs
<1>2. ASSUME NEW d \in registered', d \notin registered PROVE ArmedDirs(d) = {}
  <2>1. ASSUME NEW r \in Dir PROVE slot[<<d, r>>] = NoFut
    BY <1>2 DEF IoInv, SlotOwnerWaits, ArmedSlots, Slot, TypeOK
  <2> QED BY <2>1 DEF ArmedDirs
<1>3. MaskMatchesSlots'
  BY <1>1, <1>2 DEF IoInv, MaskMatchesSlots
<1>4. ArmedCountExact' /\ SlotOwnerWaits' /\ OneWaiter' /\ BoxInv'
  BY <1>1 DEF IoInv, ArmedCountExact, SlotOwnerWaits, OneWaiter, BoxInv, Awaiting
<1> QED BY <1>3, <1>4 DEF IoInv, PendingIsArranged, Awaiting

LEMMA StepInv ==
  ASSUME IoInv, [Next]_vars
  PROVE  IoInv' /\ (PendingIsArranged => PendingIsArranged')
<1>1. ASSUME NEW d \in Fd, IoAdd(d) PROVE IoInv' /\ (PendingIsArranged => PendingIsArranged')
  <2>1. TypeOK'
    BY <1>1 DEF IoAdd, history, IoInv, TypeOK
  <2>2. /\ mask'[d] = {} /\ registered' = registered \cup {d}
        /\ \A e \in registered : mask'[e] = mask[e]
        /\ UNCHANGED <<slot, armed, target, fut, boxArmed, woken, orphaned, robbed>>
    BY <1>1 DEF IoAdd, history, IoInv, TypeOK
  <2> QED BY <2>1, <2>2, FrameInv
<1>2. ASSUME NEW d \in Fd, IoRemove(d)
      PROVE IoInv' /\ (PendingIsArranged => PendingIsArranged')
  <2>1. {d} \in SUBSET Fd
    BY <1>2
  <2>2. SchedFree({d}) /\ phase' \in {"run", "closed"}
        /\ UNCHANGED <<ready, timer, target, fut, boxArmed, woken, result>>
    BY <1>2 DEF IoRemove
  <2> QED BY <2>1, <2>2, RemoveInv
<1>3. ASSUME DriverClose
      PROVE IoInv' /\ (PendingIsArranged => PendingIsArranged')
  <2>1. PICK D \in SUBSET Fd : D = registered
    BY DEF IoInv, TypeOK
  <2>2. /\ SchedFree(D)
        /\ phase' \in {"run", "closed"}
        /\ UNCHANGED <<ready, timer, target, fut, boxArmed, woken, result>>
    BY <1>3, <2>1 DEF DriverClose, SchedFree
  <2> QED BY <2>2, RemoveInv
<1>4. ASSUME (\E d \in Fd : KernelReady(d) \/ KernelClear(d))
             \/ ArmTimer \/ CancelTimer \/ ParkIdle \/ ParkWait
      PROVE  IoInv' /\ (PendingIsArranged => PendingIsArranged')
  <2>1. UNCHANGED <<registered, slot, armed, mask, target, fut, boxArmed, woken, orphaned, robbed>>
    BY <1>4 DEF KernelReady, KernelClear, ArmTimer, CancelTimer, ParkIdle, ParkWait, driverVars, history
  <2>2. ready' \in [Fd -> SUBSET (Dir \cup {"HUP"})]
    <3>1. ready \in [Fd -> SUBSET (Dir \cup {"HUP"})]
      BY DEF IoInv, TypeOK
    <3>2. ASSUME NEW d \in Fd, KernelReady(d)
          PROVE  ready' \in [Fd -> SUBSET (Dir \cup {"HUP"})]
      <4>1. target \in [Fut -> Fd \X Dir]
        BY DEF IoInv, TypeOK, Slot
      <4>2. \A f \in Fut : target[f][2] \in Dir
        BY <4>1
      <4>3. PICK e \in Dir \cup {"HUP"} : ready' = [ready EXCEPT ![d] = @ \cup {e}]
        BY <3>2, <4>2 DEF KernelReady
      <4> QED BY <3>1, <4>3
    <3>3. ASSUME NEW d \in Fd, KernelClear(d)
          PROVE  ready' \in [Fd -> SUBSET (Dir \cup {"HUP"})]
      BY <3>1, <3>3 DEF KernelClear
    <3>4. ASSUME ArmTimer \/ CancelTimer \/ ParkIdle \/ ParkWait
          PROVE  ready' \in [Fd -> SUBSET (Dir \cup {"HUP"})]
      BY <3>1, <3>4 DEF ArmTimer, CancelTimer, ParkIdle, ParkWait
    <3> QED BY <1>4, <3>2, <3>3, <3>4
  <2>3. timer' \in {-1} \cup (1 .. MaxWaits)
    BY <1>4, IoAssumption
    DEF KernelReady, KernelClear, ArmTimer, CancelTimer, ParkIdle, ParkWait, IoInv, TypeOK
  <2>4. phase' \in {"run", "wait", "closed"} /\ result' \in {"none", "true", "false"}
    BY <1>4 DEF KernelReady, KernelClear, ArmTimer, CancelTimer, ParkIdle, ParkWait,
                IoInv, TypeOK
  <2>5. TypeOK'
    BY <2>1, <2>2, <2>3, <2>4 DEF IoInv, TypeOK
  <2> QED BY <2>1, <2>5, FrameInv
<1>5. ASSUME UNCHANGED vars PROVE IoInv' /\ (PendingIsArranged => PendingIsArranged')
  <2>1. TypeOK'
    BY <1>5 DEF vars, driverVars, history, IoInv, TypeOK
  <2> QED BY <1>5, <2>1, FrameInv DEF vars, driverVars, history
<1> QED
  BY <1>1, <1>2, <1>3, <1>4, <1>5, PollUnregisteredInv, PollFirstInv, PollAgainInv,
     InterestDropInv, ParkReturnInv
  DEF Next

(* The driver's count and the kernel's interest masks agree with the slots *)
(* (io.c:113-182, 219-238, 265-308).                                       *)
THEOREM BooksTheorem == Safe => []BooksAgree
<1>1. IoInv => BooksAgree
  BY DEF IoInv, BooksAgree
<1> QED BY <1>1, InitInv, StepInv, PTL DEF Safe

(* No waker of a completed or dropped future is left in a slot             *)
(* (io.c:165-182, 289-308).                                                *)
THEOREM SlotOwnerTheorem == Safe => []SlotOwnerWaits
<1>1. IoInv => SlotOwnerWaits
  BY DEF IoInv
<1> QED BY <1>1, InitInv, StepInv, PTL DEF Safe

(* A future that returned Pending is in its slot or has been woken, unless *)
(* its client removed the fd under it, or the drop of a READY future that  *)
(* once had the same slot cancelled it (future.c:21-25, io.c:45-48, 291).  *)
THEOREM PendingTheorem == Safe => []PendingIsArranged
<1> DEFINE I == IoInv /\ PendingIsArranged
<1>1. Init => I
  BY InitInv
<1>2. I /\ [Next]_vars => I'
  BY StepInv
<1>3. I => PendingIsArranged
  OBVIOUS
<1> HIDE DEF I
<1> QED BY <1>1, <1>2, <1>3, PTL DEF Safe

-----------------------------------------------------------------------------
(* The park returns false with something outstanding only after a hang-up  *)
(* nobody asked for or the first part of a long wait: every other event it *)
(* is told of is one some future waits for (io.c:198-200, executor.c:40-49).*)
THEOREM ParkProgressTheorem == Safe => ParkMakesProgress
<1>1. Init => IoInv
  BY InitInv
<1>2. IoInv /\ [Next]_vars => IoInv'
  BY StepInv
<1>3. IoInv /\ [Next]_vars
        => [Parks /\ result' = "false"
              => NothingOutstanding \/ UnaskedHangUp \/ timer > 1]_vars
  <2> SUFFICES ASSUME IoInv, result' = "false", ParkIdle \/ ParkEvents \/ ParkTimeout
               PROVE  NothingOutstanding \/ UnaskedHangUp \/ timer > 1
    BY DEF Parks
  <2>1. ASSUME ParkEvents PROVE UnaskedHangUp
    <3>1. PICK D \in SUBSET Reporting, t \in {timer} \cup (IF timer = 1 THEN {0} ELSE {}) :
            D # {} /\ HandleEvents(D, t)
      BY <2>1 DEF ParkEvents
    <3>2. PICK d \in D : Reported(d) # {} /\ d \in registered /\ d \in Fd
      BY <3>1 DEF Reporting, IoInv, TypeOK
    <3>3. FiredSlots(D) = {}
      BY <3>1 DEF HandleEvents
    <3>4. ASSUME NEW r \in mask[d], r \in ready[d] PROVE FALSE
      <4>1. r \in Dir /\ slot[<<d, r>>] # NoFut
        BY <3>2, <3>4 DEF IoInv, MaskMatchesSlots, ArmedDirs
      <4>2. <<d, r>> \in ArmedSlots
        BY <3>2, <4>1 DEF ArmedSlots, Slot
      <4> QED BY <3>2, <3>3, <3>4, <4>2 DEF FiredSlots, Reported
    <3>5. "HUP" \in ready[d] /\ "HUP" \in Reported(d)
      BY <3>2, <3>4 DEF Reported
    <3>6. ASSUME NEW r \in ArmedDirs(d) PROVE FALSE
      <4>1. <<d, r>> \in ArmedSlots
        BY <3>2 DEF ArmedDirs, ArmedSlots, Slot
      <4> QED BY <3>2, <3>3, <3>5, <4>1 DEF FiredSlots
    <3> QED BY <3>2, <3>5, <3>6 DEF UnaskedHangUp
  <2>2. ASSUME ParkTimeout PROVE timer > 1
    <3>1. HandleEvents({}, timer - 1) /\ timer # -1 /\ timer \in {-1} \cup (1 .. MaxWaits)
      BY <2>2 DEF ParkTimeout, IoInv, TypeOK
    <3>2. timer # 1
      BY <3>1 DEF HandleEvents
    <3> QED BY <3>1, <3>2, IoAssumption
  <2>3. ASSUME ParkIdle PROVE NothingOutstanding
    BY <2>3, ArmedFinite, FS_EmptySet
    DEF ParkIdle, NothingToWaitFor, NothingOutstanding, IoInv, ArmedCountExact
  <2> QED BY <2>1, <2>2, <2>3
<1> QED BY <1>1, <1>2, <1>3, PTL DEF Safe, ParkMakesProgress
=============================================================================
