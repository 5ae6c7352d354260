--------------------------- MODULE ReactorProofs ---------------------------
(***************************************************************************)
(* The safety of the timer reactor for any sleeps, durations and clock.    *)
(***************************************************************************)
EXTENDS Reactor, IntrusiveListProofs

(* What the deadline of an armed timer is, and that the reactor fires only *)
(* timers that are due.  A "dropped" sleep keeps its last values.          *)
TimerInv ==
  \A s \in Sleep :
    /\ armed[s] => /\ startedAt[s] \in Nat
                   /\ deadline[s] = AddU64(startedAt[s], dur[s])
    /\ fired[s] => armed[s] /\ now >= deadline[s]

ReactorInv == /\ TypeOK
              /\ Sorted
              /\ LinkedIffOutstanding
              /\ PendingIsArranged
              /\ TimerInv
              /\ NotEarly

-----------------------------------------------------------------------------
(* The leading timers of a sorted list are exactly those that are due.     *)
LEMMA LeadingLemma ==
  ASSUME TypeOK, Sorted, NEW d \in Nat
  PROVE  /\ Leading(d) \in 0 .. Len(pending)
         /\ \A i \in DOMAIN pending : i <= Leading(d) <=> deadline[pending[i]] <= d
<1> DEFINE n == Len(pending)
           T == {i \in 1 .. n : deadline[pending[i]] > d} \cup {n + 1}
           P(k) == /\ \A i \in 1 .. k : deadline[pending[i]] <= d
                   /\ k < n => deadline[pending[k + 1]] > d
<1>1. /\ n \in Nat /\ DOMAIN pending = 1 .. n
      /\ \A i \in 1 .. n : pending[i] \in Sleep /\ deadline[pending[i]] \in Nat
  BY DEF TypeOK
<1>2. T \in SUBSET Nat /\ T # {}
  BY <1>1
<1>3. PICK x \in T : \A y \in T : x <= y
  BY <1>2, LeastNumber
<1>4. x \in Nat /\ x - 1 \in 0 .. n /\ (x - 1) + 1 = x
  BY <1>1, <1>3
<1>5. ASSUME NEW i \in 1 .. (x - 1) PROVE deadline[pending[i]] <= d
  <2>1. i \in 1 .. n /\ ~ (x <= i)
    BY <1>1, <1>4
  <2>2. i \notin T
    BY <1>3, <2>1
  <2> QED BY <1>1, <2>1, <2>2
<1>6. x - 1 < n => deadline[pending[(x - 1) + 1]] > d
  BY <1>1, <1>3, <1>4
<1>7. \E k \in 0 .. n : P(k)
  <2>1. P(x - 1)
    BY <1>5, <1>6
  <2> QED BY <1>4, <2>1
<1>8. Leading(d) \in 0 .. n /\ P(Leading(d))
  <2>1. Leading(d) = CHOOSE k \in 0 .. n : P(k)
    BY DEF Leading
  <2> HIDE DEF P
  <2> QED BY <1>7, <2>1
<1> DEFINE k == Leading(d)
<1>9. k \in 0 .. n /\ P(k)
  BY <1>8
<1> HIDE DEF k
<1>10. ASSUME NEW i \in 1 .. n, ~ (i <= k) PROVE ~ (deadline[pending[i]] <= d)
  <2>1. k + 1 \in 1 .. n /\ deadline[pending[k + 1]] > d /\ (k + 1 < i \/ k + 1 = i)
    BY <1>1, <1>9, <1>10
  <2>2. deadline[pending[k + 1]] <= deadline[pending[i]]
    BY <1>1, <2>1 DEF Sorted
  <2> QED BY <1>1, <2>1, <2>2
<1>11. \A i \in 1 .. n : i <= k => deadline[pending[i]] <= d
  BY <1>1, <1>9
<1> QED BY <1>1, <1>9, <1>10, <1>11 DEF k

(* Sorted and LinkedIffOutstanding as a statement about the list's ends.   *)
ListOK == /\ pending \in Seq(Sleep)
          /\ Distinct(pending)
          /\ \A s \in Sleep : Has(pending, s) <=> Linked(s)
          /\ \A i, j \in DOMAIN pending :
               i < j => deadline[pending[i]] <= deadline[pending[j]]

(* cexec_reactor_fire_due takes off the list exactly the timers that are   *)
(* due, and marks exactly those as fired and woken (reactor.c:185-202).    *)
LEMMA FireDueLemma ==
  ASSUME TypeOK, ListOK, NEW t \in Nat, FireDue(t),
         UNCHANGED <<deadline, armed, state>>
  PROVE  /\ ListOK'
         /\ fired' \in [Sleep -> BOOLEAN] /\ woken' \in [Sleep -> BOOLEAN]
         /\ \A s \in Sleep :
              /\ fired'[s] <=> (fired[s] \/ (Linked(s) /\ deadline[s] <= t))
              /\ woken'[s] <=> (woken[s] \/ (Linked(s) /\ deadline[s] <= t))
              /\ Has(pending', s) <=> (Has(pending, s) /\ ~(deadline[s] <= t))
<1> DEFINE n == Len(pending)
           k == Leading(t)
           due == {pending[i] : i \in 1 .. k}
<1>0. Sorted
  BY DEF ListOK, Sorted
<1>1. /\ k \in 0 .. n
      /\ \A i \in DOMAIN pending : i <= k <=> deadline[pending[i]] <= t
  BY <1>0, LeadingLemma
<1>2. /\ n \in Nat /\ DOMAIN pending = 1 .. n
      /\ \A i \in 1 .. n : pending[i] \in Sleep
  BY DEF TypeOK
<1>3. pending' = SubSeq(pending, k + 1, n)
  BY DEF FireDue
<1>4. /\ fired' = [s \in Sleep |-> fired[s] \/ s \in due]
      /\ woken' = [s \in Sleep |-> woken[s] \/ s \in due]
  BY DEF FireDue
<1> HIDE DEF k
<1>5. /\ pending' \in Seq(Sleep)
      /\ DOMAIN pending' = 1 .. (n - k)
      /\ \A i \in 1 .. (n - k) : pending'[i] = pending[i + k]
  BY <1>1, <1>3, DropFirstLemma DEF TypeOK
<1>6. \A s \in Sleep : s \in due <=> (Has(pending, s) /\ deadline[s] <= t)
  BY <1>1, <1>2 DEF Has
<1>7. \A s \in Sleep : s \in due <=> (Linked(s) /\ deadline[s] <= t)
  BY <1>6 DEF ListOK
<1> HIDE DEF due
<1>8. /\ fired' \in [Sleep -> BOOLEAN] /\ woken' \in [Sleep -> BOOLEAN]
      /\ \A s \in Sleep :
           /\ fired'[s] <=> (fired[s] \/ (Linked(s) /\ deadline[s] <= t))
           /\ woken'[s] <=> (woken[s] \/ (Linked(s) /\ deadline[s] <= t))
  BY <1>4, <1>7 DEF TypeOK
<1>9. ASSUME NEW i \in DOMAIN pending'
      PROVE  /\ i + k \in DOMAIN pending /\ pending'[i] = pending[i + k]
             /\ ~(deadline[pending[i + k]] <= t)
             /\ i \in Int /\ k \in Int
  BY <1>1, <1>2, <1>5
<1>10. ASSUME NEW i \in DOMAIN pending, ~(deadline[pending[i]] <= t)
       PROVE  i - k \in DOMAIN pending' /\ pending'[i - k] = pending[i]
  <2>1. ~(i <= k) /\ i \in 1 .. n /\ k \in 0 .. n
    BY <1>1, <1>2, <1>10
  <2>2. i - k \in 1 .. (n - k) /\ (i - k) + k = i
    BY <1>2, <2>1
  <2> QED BY <1>5, <2>2
<1>11. \A s \in Sleep : Has(pending', s) <=> (Has(pending, s) /\ ~(deadline[s] <= t))
  <2>1. ASSUME NEW s \in Sleep, Has(pending', s)
        PROVE  Has(pending, s) /\ ~(deadline[s] <= t)
    <3>1. PICK i \in DOMAIN pending' : pending'[i] = s
      BY <2>1 DEF Has
    <3> QED BY <1>9, <3>1 DEF Has
  <2>2. ASSUME NEW s \in Sleep, Has(pending, s), ~(deadline[s] <= t)
        PROVE  Has(pending', s)
    <3>1. PICK i \in DOMAIN pending : pending[i] = s
      BY <2>2 DEF Has
    <3> QED BY <1>10, <2>2, <3>1 DEF Has
  <2> QED BY <2>1, <2>2
<1>12. ASSUME NEW i \in DOMAIN pending', NEW j \in DOMAIN pending',
              pending'[i] = pending'[j]
       PROVE  i = j
  <2>1. i + k = j + k
    BY <1>9, <1>12 DEF ListOK, Distinct
  <2> QED BY <1>9, <2>1
<1>13. \A i, j \in DOMAIN pending' :
         i < j => deadline'[pending'[i]] <= deadline'[pending'[j]]
  <2> SUFFICES ASSUME NEW i \in DOMAIN pending', NEW j \in DOMAIN pending', i < j
               PROVE  deadline[pending'[i]] <= deadline[pending'[j]]
    OBVIOUS
  <2>1. i + k < j + k
    BY <1>9
  <2> QED BY <1>9, <2>1 DEF ListOK
<1>14. \A s \in Sleep : Has(pending', s) <=> Linked(s)'
  BY <1>8, <1>11 DEF ListOK, Linked
<1> QED BY <1>5, <1>8, <1>11, <1>12, <1>13, <1>14 DEF ListOK, Distinct

(* Linking an armed timer, and unlinking one in sleep_drop, keep the list  *)
(* sorted and complete (reactor.c:204-216, 262-263, 279-281).              *)
LEMMA InsertStep ==
  ASSUME TypeOK, ListOK, NEW s \in Sleep, NEW d \in Nat,
         ~armed[s], ~fired[s], state[s] = "pending",
         deadline' = [deadline EXCEPT ![s] = d],
         armed' = [armed EXCEPT ![s] = TRUE],
         ReactorInsert(s, d), UNCHANGED <<fired, state>>
  PROVE  ListOK' /\ \A x \in Sleep : Has(pending', x) <=> (Has(pending, x) \/ x = s)
<1> DEFINE n == Len(pending)
           k == Leading(d)
<1>0. Sorted
  BY DEF ListOK, Sorted
<1>1. /\ k \in 0 .. n
      /\ \A i \in DOMAIN pending : i <= k <=> deadline[pending[i]] <= d
  BY <1>0, LeadingLemma
<1>2. /\ n \in Nat /\ DOMAIN pending = 1 .. n
      /\ \A i \in 1 .. n : pending[i] \in Sleep /\ deadline[pending[i]] \in Nat
  BY DEF TypeOK
<1>3. ~Has(pending, s)
  BY DEF ListOK, Linked
<1>4. pending' = InsertBefore(pending, k + 1, s)
  BY DEF ReactorInsert
<1> HIDE DEF k
<1>5. k + 1 \in 1 .. (Len(pending) + 1)
  BY <1>1, <1>2
<1>6. /\ pending' \in Seq(Sleep) /\ Distinct(pending')
      /\ \A x : Has(pending', x) <=> (Has(pending, x) \/ x = s)
  BY <1>3, <1>4, <1>5, InsertLemma DEF ListOK
<1>7. /\ DOMAIN pending' = 1 .. (n + 1)
      /\ \A i \in 1 .. (n + 1) :
           pending'[i] = IF i < k + 1 THEN pending[i]
                         ELSE IF i = k + 1 THEN s ELSE pending[i - 1]
  BY <1>2, <1>4 DEF InsertBefore
<1>8. deadline'[s] = d /\ \A x \in Sleep : x # s => deadline'[x] = deadline[x]
  BY DEF TypeOK
<1>9. \A i \in 1 .. n : deadline'[pending[i]] = deadline[pending[i]]
  BY <1>2, <1>3, <1>8 DEF Has
<1>10. \A i \in DOMAIN pending' :
         /\ i < k + 1 => deadline'[pending'[i]] = deadline[pending[i]] /\ i \in 1 .. n
         /\ i = k + 1 => deadline'[pending'[i]] = d
         /\ i > k + 1 => deadline'[pending'[i]] = deadline[pending[i - 1]] /\ i - 1 \in 1 .. n
  BY <1>1, <1>2, <1>7, <1>8, <1>9
<1>11. ASSUME NEW i \in DOMAIN pending', NEW j \in DOMAIN pending', i < j
       PROVE  deadline'[pending'[i]] <= deadline'[pending'[j]]
  <2>0. i \in Int /\ j \in Int /\ k \in Int
    BY <1>1, <1>2, <1>7
  <2>1. CASE j < k + 1
    BY <1>2, <1>10, <1>11, <2>0, <2>1 DEF ListOK
  <2>2. CASE j = k + 1
    <3>1. i \in 1 .. n /\ i <= k /\ deadline'[pending'[i]] = deadline[pending[i]]
      BY <1>10, <1>11, <2>0, <2>2
    <3> QED BY <1>1, <1>2, <1>10, <2>2, <3>1
  <2>3. CASE i = k + 1
    <3>1. j - 1 \in 1 .. n /\ ~(j - 1 <= k)
          /\ deadline'[pending'[j]] = deadline[pending[j - 1]]
      BY <1>10, <1>11, <2>0, <2>3
    <3>2. deadline'[pending'[i]] = d
      BY <1>10, <2>3
    <3>3. ~(deadline[pending[j - 1]] <= d) /\ deadline[pending[j - 1]] \in Nat
      BY <1>1, <1>2, <3>1
    <3> QED BY <3>1, <3>2, <3>3
  <2>4. CASE i < k + 1 /\ j > k + 1
    <3>1. /\ i \in 1 .. n /\ j - 1 \in 1 .. n /\ i < j - 1
          /\ deadline'[pending'[i]] = deadline[pending[i]]
          /\ deadline'[pending'[j]] = deadline[pending[j - 1]]
      BY <1>10, <1>11, <2>0, <2>4
    <3> QED BY <1>2, <3>1 DEF ListOK
  <2>5. CASE i > k + 1
    <3>1. /\ i - 1 \in 1 .. n /\ j - 1 \in 1 .. n /\ i - 1 < j - 1
          /\ deadline'[pending'[i]] = deadline[pending[i - 1]]
          /\ deadline'[pending'[j]] = deadline[pending[j - 1]]
      BY <1>10, <1>11, <2>0, <2>5
    <3> QED BY <1>2, <3>1 DEF ListOK
  <2> QED BY <2>0, <1>11, <2>1, <2>2, <2>3, <2>4, <2>5
<1>12. \A x \in Sleep : Linked(x)' <=> (Linked(x) \/ x = s)
  BY DEF Linked, TypeOK
<1> QED BY <1>6, <1>11, <1>12 DEF ListOK

LEMMA DropStep ==
  ASSUME TypeOK, ListOK, NEW s \in Sleep, SleepDrop(s)
  PROVE  ListOK' /\ \A x \in Sleep : Has(pending', x) <=> (Has(pending, x) /\ x # s)
<1>1. /\ UNCHANGED <<deadline, armed, fired>>
      /\ \A x \in Sleep : x # s => state'[x] = state[x]
      /\ state'[s] = "dropped" /\ state[s] # "dropped"
  BY DEF SleepDrop, TypeOK
<1>2. \A x \in Sleep : Linked(x)' <=> (Linked(x) /\ x # s)
  BY <1>1 DEF Linked
<1>3. CASE Linked(s)
  <2>1. pending' = Unlink(pending, s) /\ Has(pending, s)
    BY <1>3 DEF SleepDrop, Linked, ListOK
  <2>2. /\ pending' \in Seq(Sleep) /\ Distinct(pending')
        /\ \A x : Has(pending', x) <=> (Has(pending, x) /\ x # s)
    BY <2>1, UnlinkLemma DEF ListOK
  <2> DEFINE k == CHOOSE i \in DOMAIN pending : pending[i] = s
  <2>3. k \in DOMAIN pending
    BY <2>1 DEF Has
  <2>4. pending' = [i \in 1 .. (Len(pending) - 1) |->
                      IF i < k THEN pending[i] ELSE pending[i + 1]]
    BY <2>1 DEF Unlink
  <2>5. Len(pending) \in Nat /\ DOMAIN pending = 1 .. Len(pending)
    BY DEF ListOK
  <2> HIDE DEF k
  <2> DEFINE at(i) == IF i < k THEN i ELSE i + 1
  <2>6. ASSUME NEW i \in DOMAIN pending'
        PROVE  at(i) \in DOMAIN pending /\ pending'[i] = pending[at(i)] /\ i \in Int
    BY <2>3, <2>4, <2>5
  <2>7. ASSUME NEW i \in DOMAIN pending', NEW j \in DOMAIN pending', i < j
        PROVE  deadline[pending'[i]] <= deadline[pending'[j]]
    <3>1. at(i) < at(j)
      BY <2>3, <2>5, <2>6, <2>7
    <3> HIDE DEF at
    <3> QED BY <2>6, <3>1 DEF ListOK
  <2> QED BY <1>1, <1>2, <2>2, <2>7 DEF ListOK
<1>4. CASE ~Linked(s)
  <2>1. pending' = pending /\ ~Has(pending, s)
    BY <1>1, <1>4 DEF SleepDrop, Linked, ListOK
  <2> QED BY <1>1, <1>2, <2>1 DEF ListOK
<1> QED BY <1>3, <1>4

-----------------------------------------------------------------------------
(* The invariant is inductive.                                             *)
LEMMA ReactorInitInv == Init => ReactorInv
<1> USE ReactorAssumption
<1> SUFFICES ASSUME Init PROVE ReactorInv
  OBVIOUS
<1>1. <<>> \in Seq(Sleep) /\ DOMAIN pending = {} /\ -1 \in Nat \cup {-1} /\ 0 \in 0 .. MaxU64
  BY DEF Init, SleepIn
<1>2. TypeOK
  BY <1>1, Zenon DEF Init, SleepIn, TypeOK
<1>3. Sorted /\ LinkedIffOutstanding
  BY <1>1 DEF Init, SleepIn, Sorted, LinkedIffOutstanding, Linked, Has, Distinct
<1>4. PendingIsArranged /\ TimerInv /\ NotEarly
  BY DEF Init, SleepIn, PendingIsArranged, TimerInv, NotEarly
<1> QED BY <1>2, <1>3, <1>4 DEF ReactorInv

LEMMA ReactorStepInv == ReactorInv /\ [Next]_vars => ReactorInv'
<1> USE ReactorAssumption
<1>10. \A a, b \in Nat : AddU64(a, b) \in 0 .. MaxU64 /\ (a + b <= MaxU64 => AddU64(a, b) = a + b)
  BY NoWrap, Remainder DEF AddU64
<1> SUFFICES ASSUME ReactorInv, [Next]_vars PROVE ReactorInv'
  OBVIOUS
<1>0. TypeOK /\ ListOK /\ PendingIsArranged /\ TimerInv /\ NotEarly
  BY DEF ReactorInv, ListOK, Sorted, LinkedIffOutstanding, TypeOK
<1> DEFINE Goal == TypeOK' /\ ListOK' /\ PendingIsArranged' /\ TimerInv' /\ NotEarly'
<1>1. SUFFICES Goal
  BY DEF ReactorInv, ListOK, Sorted, LinkedIffOutstanding, TypeOK
<1>2. \A x \in Sleep : dur[x] \in Nat
  <2>1. \A n \in Dur : n \in Nat
    <3>1. \A n \in 0 .. MaxU64 : n \in Nat
      OBVIOUS
    <3> QED BY <3>1
  <2>2. \A x \in Sleep : dur[x] \in Dur
    BY <1>0 DEF TypeOK
  <2> QED BY <2>1, <2>2
<1>3. ASSUME NEW s \in Sleep, PollFirst(s), Reached(AddU64(now, dur[s])) PROVE Goal
  <2>1. /\ state' = [state EXCEPT ![s] = "ready"]
        /\ startedAt' = [startedAt EXCEPT ![s] = now]
        /\ UNCHANGED <<timerVars, now, dur, woken>>
        /\ ~armed[s] /\ state[s] = "pending"
        /\ now >= AddU64(now, dur[s])
    BY <1>3 DEF PollFirst, Reached
  <2>2. TypeOK'
    BY <1>0, <2>1 DEF TypeOK, timerVars
  <2>3. ListOK'
    BY <1>0, <2>1 DEF ListOK, Linked, timerVars, TypeOK
  <2>4. PendingIsArranged'
    BY <1>0, <2>1 DEF PendingIsArranged, timerVars, TypeOK
  <2>5. TimerInv'
    BY <1>0, <2>1 DEF TimerInv, timerVars, TypeOK
  <2>6. NotEarly'
    BY <1>10, <1>0, <1>2, <2>1 DEF NotEarly, timerVars, TypeOK
  <2> QED BY <2>2, <2>3, <2>4, <2>5, <2>6
<1>4. ASSUME NEW s \in Sleep, PollFirst(s), ~Reached(AddU64(now, dur[s])) PROVE Goal
  <2> DEFINE d == AddU64(now, dur[s])
  <2>1. /\ deadline' = [deadline EXCEPT ![s] = d]
        /\ ReactorInsert(s, d)
        /\ armed' = [armed EXCEPT ![s] = TRUE]
        /\ startedAt' = [startedAt EXCEPT ![s] = now]
        /\ UNCHANGED <<fired, state, now, dur, woken>>
        /\ ~armed[s] /\ state[s] = "pending"
    BY <1>4 DEF PollFirst
  <2>2. d \in Nat /\ d \in 0 .. MaxU64 /\ ~fired[s]
    <3>1. now \in Nat /\ dur[s] \in Nat /\ ~fired[s]
      BY <1>0, <1>2, <2>1 DEF TypeOK, TimerInv
    <3>2. AddU64(now, dur[s]) \in 0 .. MaxU64
      BY <1>10, <3>1
    <3> QED BY <3>1, <3>2
  <2> HIDE DEF d
  <2>3. ListOK' /\ \A x \in Sleep : Has(pending', x) <=> (Has(pending, x) \/ x = s)
    BY <1>0, <2>1, <2>2, InsertStep
  <2>4. TypeOK'
    BY <1>0, <2>1, <2>2, <2>3 DEF TypeOK, ListOK
  <2>5. PendingIsArranged'
    BY <1>0, <2>1, <2>3 DEF PendingIsArranged, TypeOK
  <2>6. TimerInv'
    BY <1>0, <2>1, <2>2 DEF TimerInv, TypeOK, d
  <2>7. NotEarly'
    BY <1>0, <2>1 DEF NotEarly, TypeOK
  <2> QED BY <2>3, <2>4, <2>5, <2>6, <2>7
<1>5. ASSUME NEW s \in Sleep, PollAgain(s) PROVE Goal
  <2>1. /\ state[s] = "pending" /\ armed[s]
        /\ state' = [state EXCEPT ![s] = IF now >= deadline[s] THEN "ready" ELSE @]
        /\ woken' = [woken EXCEPT ![s] = FALSE]
        /\ UNCHANGED <<now, dur, timerVars, startedAt>>
    BY <1>5 DEF PollAgain, Reached
  <2>2. TypeOK'
    BY <1>0, <2>1 DEF TypeOK, timerVars
  <2>3. ListOK'
    BY <1>0, <2>1 DEF ListOK, Linked, timerVars, TypeOK
  <2>4. ASSUME NEW x \in Sleep, state'[x] = "pending", armed'[x]
        PROVE  Has(pending', x) \/ (woken'[x] /\ now' >= deadline'[x])
    <3>1. CASE x = s
      <4>1. ~(now >= deadline[s])
        BY <1>0, <2>1, <2>4, <3>1 DEF TypeOK
      <4>2. Linked(s)
        BY <1>0, <2>1, <4>1 DEF TimerInv, Linked
      <4> QED BY <1>0, <2>1, <3>1, <4>2 DEF ListOK, timerVars
    <3>2. CASE x # s
      BY <1>0, <2>1, <2>4, <3>2 DEF PendingIsArranged, timerVars, TypeOK
    <3> QED BY <3>1, <3>2
  <2>5. TimerInv'
    BY <1>0, <2>1 DEF TimerInv, timerVars, TypeOK
  <2>6. ASSUME NEW x \in Sleep, state'[x] = "ready", startedAt[x] + dur[x] <= MaxU64
        PROVE  now >= startedAt[x] + dur[x]
    <3>1. CASE x = s
      <4>1. now >= deadline[s]
        BY <1>0, <2>1, <2>6, <3>1 DEF TypeOK
      <4>2. deadline[s] = startedAt[s] + dur[s]
        BY <1>10, <1>0, <1>2, <2>1, <2>6, <3>1 DEF TimerInv
      <4> QED BY <3>1, <4>1, <4>2
    <3>2. CASE x # s
      BY <1>0, <2>1, <2>6, <3>2 DEF NotEarly, TypeOK
    <3> QED BY <3>1, <3>2
  <2>7. NotEarly'
    BY <2>1, <2>6 DEF NotEarly
  <2> QED BY <2>2, <2>3, <2>4, <2>5, <2>7 DEF PendingIsArranged
<1>6. ASSUME NEW s \in Sleep, SleepDrop(s) PROVE Goal
  <2>1. /\ state' = [state EXCEPT ![s] = "dropped"]
        /\ UNCHANGED <<now, dur, deadline, armed, fired, woken, startedAt>>
    BY <1>6 DEF SleepDrop
  <2>2. ListOK' /\ \A x \in Sleep : Has(pending', x) <=> (Has(pending, x) /\ x # s)
    BY <1>0, <1>6, DropStep
  <2>3. TypeOK'
    BY <1>0, <2>1, <2>2 DEF TypeOK, ListOK
  <2>4. PendingIsArranged'
    BY <1>0, <2>1, <2>2 DEF PendingIsArranged, TypeOK
  <2>5. TimerInv' /\ NotEarly'
    BY <1>0, <2>1 DEF TimerInv, NotEarly, TypeOK
  <2> QED BY <2>2, <2>3, <2>4, <2>5
<1>7. ASSUME ReactorPark \/ ExternalFireDue PROVE Goal
  <2>1. /\ now' \in Nat /\ now' >= now /\ FireDue(now')
        /\ UNCHANGED <<dur, deadline, armed, state, startedAt>>
    <3>1. CASE ReactorPark
      <4>1. deadline[pending[1]] \in Nat /\ now \in Nat
        BY <1>0, <3>1 DEF ReactorPark, TypeOK
      <4> QED BY <3>1, <4>1 DEF ReactorPark, WaitUntil
    <3>2. CASE ExternalFireDue
      BY <1>0, <3>2 DEF ExternalFireDue, TypeOK
    <3> QED BY <1>7, <3>1, <3>2
  <2> DEFINE t == now'
  <2>2. /\ ListOK'
        /\ fired' \in [Sleep -> BOOLEAN] /\ woken' \in [Sleep -> BOOLEAN]
        /\ \A s \in Sleep :
             /\ fired'[s] <=> (fired[s] \/ (Linked(s) /\ deadline[s] <= t))
             /\ woken'[s] <=> (woken[s] \/ (Linked(s) /\ deadline[s] <= t))
             /\ Has(pending', s) <=> (Has(pending, s) /\ ~(deadline[s] <= t))
    BY <1>0, <2>1, FireDueLemma
  <2>3. TypeOK'
    BY <1>0, <2>1, <2>2 DEF TypeOK, ListOK
  <2>4. ASSUME NEW x \in Sleep, state'[x] = "pending", armed'[x]
        PROVE  Has(pending', x) \/ (woken'[x] /\ now' >= deadline'[x])
    <3>1. CASE Has(pending, x)
      <4>1. Linked(x)
        BY <1>0, <3>1 DEF ListOK
      <4>2. CASE deadline[x] <= t
        BY <1>0, <2>1, <2>2, <4>1, <4>2 DEF TypeOK
      <4>3. CASE ~(deadline[x] <= t)
        BY <2>2, <3>1, <4>3
      <4> QED BY <4>2, <4>3
    <3>2. CASE ~Has(pending, x)
      BY <1>0, <2>1, <2>2, <2>4, <3>2 DEF PendingIsArranged, TypeOK
    <3> QED BY <3>1, <3>2
  <2>5. TimerInv'
    <3> SUFFICES ASSUME NEW x \in Sleep
                 PROVE  /\ armed'[x] => /\ startedAt'[x] \in Nat
                                        /\ deadline'[x] = AddU64(startedAt'[x], dur'[x])
                        /\ fired'[x] => armed'[x] /\ now' >= deadline'[x]
      BY DEF TimerInv, AddU64
    <3>1. now \in Nat /\ deadline[x] \in Nat
      BY <1>0 DEF TypeOK
    <3>2. fired'[x] => armed[x] /\ now' >= deadline[x]
      BY <1>0, <2>1, <2>2, <3>1 DEF TimerInv, Linked
    <3> QED BY <1>0, <2>1, <3>2 DEF TimerInv
  <2>6. NotEarly'
    <3> SUFFICES ASSUME NEW x \in Sleep, state'[x] = "ready",
                        startedAt'[x] + dur'[x] <= MaxU64
                 PROVE  now' >= startedAt'[x] + dur'[x]
      BY DEF NotEarly
    <3>1. now >= startedAt[x] + dur[x]
      BY <1>0, <2>1 DEF NotEarly
    <3>2. now \in Nat /\ startedAt[x] \in Int /\ dur[x] \in Nat
      BY <1>0, <1>2 DEF TypeOK
    <3> QED BY <2>1, <3>1, <3>2
  <2> QED BY <2>2, <2>3, <2>4, <2>5, <2>6 DEF PendingIsArranged
<1>8. CASE Advance
  <2>1. /\ now' = now + 1 /\ now \in Nat
        /\ UNCHANGED <<dur, timerVars, state, woken, startedAt>>
    BY <1>0, <1>8 DEF Advance, TypeOK
  <2>2. TypeOK' /\ ListOK'
    BY <1>0, <2>1 DEF TypeOK, ListOK, Linked, timerVars
  <2>3. \A x \in Sleep : deadline[x] \in Nat /\ startedAt[x] \in Int
    BY <1>0 DEF TypeOK
  <2>4. PendingIsArranged'
    BY <1>0, <2>1, <2>3 DEF PendingIsArranged, timerVars
  <2>5. TimerInv'
    BY <1>0, <2>1, <2>3 DEF TimerInv, timerVars, AddU64
  <2>6. NotEarly'
    BY <1>0, <1>2, <2>1, <2>3 DEF NotEarly, timerVars
  <2> QED BY <2>2, <2>4, <2>5, <2>6
<1>9. CASE UNCHANGED vars
  BY <1>0, <1>9 DEF vars, timerVars, TypeOK, ListOK, Linked, PendingIsArranged,
                    TimerInv, NotEarly, AddU64
<1> QED BY <1>3, <1>4, <1>5, <1>6, <1>7, <1>8, <1>9 DEF Next

(* The reactor's invariant: its list is sorted and holds exactly the       *)
(* outstanding timers, no sleep that returned Pending is forgotten, and    *)
(* none ends early unless its deadline overflows (reactor.c:138-284).      *)
THEOREM ReactorInvariant == Safe => []ReactorInv
BY ReactorInitInv, ReactorStepInv, PTL DEF Safe

(* The list is typed, sorted and complete (reactor.c:138-284).             *)
THEOREM TimersSoundTheorem == Safe => []TimersSound
<1>1. ReactorInv => TimersSound
  BY DEF ReactorInv, TimersSound
<1> QED BY <1>1, ReactorInvariant, PTL

(* No sleep whose deadline is representable is Ready before its time       *)
(* (reactor.c:248-270).                                                    *)
THEOREM NotEarlyTheorem == Safe => []NotEarly
<1>1. ReactorInv => NotEarly
  BY DEF ReactorInv
<1> QED BY <1>1, ReactorInvariant, PTL

(* A sleep that returned Pending is always linked, or woken and due: the   *)
(* poll contract of future.c:21-25 for the reactor.                        *)
THEOREM PendingIsArrangedTheorem == Safe => []PendingIsArranged
<1>1. ReactorInv => PendingIsArranged
  BY DEF ReactorInv
<1> QED BY <1>1, ReactorInvariant, PTL

(* reactor_park wakes a task whenever a timer is pending, so the executor  *)
(* never stops while a sleep is outstanding (reactor.c:218-229).           *)
THEOREM ParkWakesTheorem == Safe => ParkWakes
<1>1. ReactorInv /\ [Next]_vars
        => [ReactorPark => \E s \in Sleep : woken'[s] /\ fired'[s] /\ ~fired[s]]_vars
  <2> SUFFICES ASSUME ReactorInv, ReactorPark
               PROVE  \E s \in Sleep : woken'[s] /\ fired'[s] /\ ~fired[s]
    OBVIOUS
  <2>0. TypeOK /\ ListOK
    BY DEF ReactorInv, ListOK, Sorted, LinkedIffOutstanding, TypeOK
  <2> DEFINE f == pending[1]
  <2>1. /\ 1 \in DOMAIN pending /\ f \in Sleep /\ Has(pending, f)
        /\ deadline[f] \in Nat /\ now \in Nat
    BY <2>0 DEF ReactorPark, TypeOK, Has
  <2>2. Linked(f)
    BY <2>0, <2>1 DEF ListOK
  <2>3. now' \in Nat /\ now' >= deadline[f]
    BY <2>1 DEF ReactorPark, WaitUntil
  <2>4. FireDue(now') /\ UNCHANGED <<deadline, armed, state>>
    BY DEF ReactorPark
  <2> HIDE DEF f
  <2>5. \A s \in Sleep : /\ fired'[s] <=> (fired[s] \/ (Linked(s) /\ deadline[s] <= now'))
                         /\ woken'[s] <=> (woken[s] \/ (Linked(s) /\ deadline[s] <= now'))
    BY <2>0, <2>3, <2>4, FireDueLemma
  <2>6. woken'[f] /\ fired'[f] /\ ~fired[f]
    BY <2>1, <2>2, <2>3, <2>5 DEF Linked
  <2> QED BY <2>1, <2>6
<1> QED BY <1>1, ReactorInvariant, PTL DEF ParkWakes, Safe
=============================================================================
