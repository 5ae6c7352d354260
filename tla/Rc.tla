--------------------------------- MODULE Rc ---------------------------------
(***************************************************************************)
(* std/src/rc.c: a reference count for one thread.  A get is made only     *)
(* through a reference that is held (rc.c:51-57).                          *)
(***************************************************************************)
EXTENDS Naturals

CONSTANTS MaxCount,  \* the largest u32
          MaxRefs    \* bound: so many references at a time, at most MaxCount

ASSUME RcAssumption == MaxCount \in Nat /\ MaxRefs \in 1 .. MaxCount

VARIABLES rcCount,    \* std_rc.count
          rcHeld,     \* the references the program holds
          rcReleases  \* how often release was called

rcVars == <<rcCount, rcHeld, rcReleases>>

RcInit == rcCount = 1 /\ rcHeld = 1 /\ rcReleases = 0

RcGet ==
  /\ rcHeld \in 1 .. MaxRefs - 1
  /\ rcHeld' = rcHeld + 1
  /\ rcCount' = (rcCount + 1) % (MaxCount + 1)
  /\ UNCHANGED rcReleases

RcPut_Bug ==                             \* looks before it counts down
  /\ rcHeld > 0
  /\ rcHeld' = rcHeld - 1
  /\ rcCount' = rcCount - 1
  /\ rcReleases' = IF rcCount = 0 THEN rcReleases + 1 ELSE rcReleases

RcPut ==
  /\ rcHeld > 0
  /\ rcHeld' = rcHeld - 1
  /\ rcCount' = rcCount - 1
  /\ rcReleases' = IF rcCount' = 0 THEN rcReleases + 1 ELSE rcReleases

RcNext == RcGet \/ RcPut

RcSpec == RcInit /\ [][RcNext]_rcVars

-----------------------------------------------------------------------------
(* release is called once, by the put of the last reference, and not while *)
(* a reference is held (rc.c:72-82).                                       *)
RcReleasedOnce == /\ rcCount = rcHeld
                  /\ rcReleases = IF rcHeld = 0 THEN 1 ELSE 0
=============================================================================
