--------------------------------- MODULE Arc ---------------------------------
(***************************************************************************)
(* std/src/arc.c: a reference count shared by threads.  Each atomic        *)
(* operation, and what comes after it, is a step of its own.               *)
(*                                                                         *)
(* Memory order is modelled by what each thread is certain to see of the   *)
(* threads' writes to the object: a release operation on the count         *)
(* publishes what its thread sees, later ones keep it (a release           *)
(* sequence), and the acquire fence of the thread that read the count      *)
(* makes what was published there visible.  Relaxed operations do neither. *)
(***************************************************************************)
EXTENDS Naturals, FiniteSets

CONSTANTS Thread,
          First,       \* the thread that makes the object
          NoThread,    \* the owner of a reference that is not in use
          Ref,         \* bound: the references there may be at a time
          MaxArcCount  \* the largest u32

ASSUME ArcAssumption == /\ IsFiniteSet(Thread) /\ First \in Thread /\ NoThread \notin Thread
                        /\ IsFiniteSet(Ref) /\ Ref # {}
                        /\ MaxArcCount \in Nat /\ Cardinality(Ref) <= MaxArcCount

VARIABLES
  arcCount,  \* std_arc.count
  owner,     \* the thread that holds each reference
  at,        \* where a thread is in std_arc_put: "out", "fence", "release"
  sees,      \* the threads whose writes each thread is certain to see
  published, \* the writes published on the count
  read,      \* what a thread's decrement found published
  wrote,     \* the threads that wrote to the object
  releases   \* how often release was called

arcVars == <<arcCount, owner, at, sees, published, read, wrote, releases>>

Held == {r \in Ref : owner[r] # NoThread}

ArcInit ==
  /\ arcCount = 1
  /\ \E r \in Ref : owner = [x \in Ref |-> IF x = r THEN First ELSE NoThread]
  /\ at = [t \in Thread |-> "out"]
  /\ sees = [t \in Thread |-> {}]
  /\ published = {}
  /\ read = [t \in Thread |-> {}]
  /\ wrote = {}
  /\ releases = 0

Holder(t) == \E r \in Ref : owner[r] = t

(* A thread that holds a reference makes another.                          *)
ArcGet(t) ==
  /\ Holder(t)
  /\ \E r \in Ref \ Held : owner' = [owner EXCEPT ![r] = t]
  /\ arcCount' = (arcCount + 1) % (MaxArcCount + 1)
  /\ UNCHANGED <<at, sees, published, read, wrote, releases>>

(* The program hands a reference to another thread, through something that *)
(* synchronises (arc.c:48-51), and writes to the object through its own.   *)
HandOver(r, u) ==
  /\ r \in Held /\ u # owner[r] /\ at[u] = "out"
  /\ owner' = [owner EXCEPT ![r] = u]
  /\ sees' = [sees EXCEPT ![u] = @ \cup sees[owner[r]]]
  /\ UNCHANGED <<arcCount, at, published, read, wrote, releases>>

Write(t) ==
  /\ Holder(t) /\ t \notin wrote
  /\ wrote' = wrote \cup {t}
  /\ sees' = [sees EXCEPT ![t] = @ \cup {t}]
  /\ UNCHANGED <<arcCount, owner, at, published, read, releases>>

(* std_arc_put: atomic_fetch_sub with release order.                       *)
ArcPut_Bug(t, r) ==                      \* count down, then look at the count
  /\ owner[r] = t
  /\ owner' = [owner EXCEPT ![r] = NoThread]
  /\ arcCount' = arcCount - 1
  /\ published' = published \cup sees[t]
  /\ read' = [read EXCEPT ![t] = published]
  /\ at' = [at EXCEPT ![t] = "fence"]
  /\ UNCHANGED <<sees, wrote, releases>>

ArcPut(t, r) ==
  /\ owner[r] = t
  /\ owner' = [owner EXCEPT ![r] = NoThread]
  /\ arcCount' = arcCount - 1
  /\ published' = published \cup sees[t]
  /\ read' = [read EXCEPT ![t] = published]
  /\ at' = [at EXCEPT ![t] = IF arcCount = 1 THEN "fence" ELSE "out"]
  /\ UNCHANGED <<sees, wrote, releases>>

(* The acquire fence on the path of the last one.                          *)
ArcFence_Bug(t) ==                       \* no fence
  /\ at[t] = "fence"
  /\ at' = [at EXCEPT ![t] = "release"]
  /\ UNCHANGED <<sees, arcCount, owner, published, read, wrote, releases>>

ArcFence(t) ==
  /\ at[t] = "fence"
  /\ sees' = [sees EXCEPT ![t] = @ \cup read[t]]
  /\ at' = [at EXCEPT ![t] = "release"]
  /\ UNCHANGED <<arcCount, owner, published, read, wrote, releases>>

ArcRelease(t) ==
  /\ at[t] = "release"
  /\ releases' = releases + 1
  /\ at' = [at EXCEPT ![t] = "out"]
  /\ UNCHANGED <<arcCount, owner, sees, published, read, wrote>>

ArcNext ==
  \/ \E t \in Thread : ArcGet(t) \/ Write(t) \/ ArcFence(t) \/ ArcRelease(t)
  \/ \E t \in Thread, r \in Ref : HandOver(r, t) \/ ArcPut(t, r)

ArcSpec == ArcInit /\ [][ArcNext]_arcVars

-----------------------------------------------------------------------------
(* Whichever threads drop the last references at once, exactly one of them *)
(* releases the object, and only when nobody holds it (arc.c:63-85).       *)
ArcReleasedOnce ==
  /\ arcCount = Cardinality(Held)
  /\ releases + Cardinality({t \in Thread : at[t] # "out"}) = IF Held = {} THEN 1 ELSE 0

(* The thread that releases sees every write any owner ever made to the    *)
(* object (arc.c:67-75).                                                   *)
DestructorSeesAll == \A t \in Thread : at[t] = "release" => wrote \subseteq sees[t]
=============================================================================
