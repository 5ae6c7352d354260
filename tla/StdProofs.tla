------------------------------ MODULE StdProofs ------------------------------
(***************************************************************************)
(* What is proved of cust_std.  Rc and Arc: an object is released once,    *)
(* after its last use, for any number of threads and references below the  *)
(* width of the counter.  The list of list.h: the pointers always spell    *)
(* the lists the callers meant.  Vec and string: the block is what the     *)
(* bookkeeping says, for any width of usize and any element type, and the  *)
(* contents are those of a sequence.  The hash map: its probes end and     *)
(* find what is stored, its iterator misses and repeats nothing, and it is *)
(* a finite map, for any keys and hash function.                           *)
(***************************************************************************)
EXTENDS Rc, Arc, ListHead, Vec, HashMap, IntrusiveListProofs, FiniteSetTheorems

-----------------------------------------------------------------------------
(* Rc.  The counter is the number of references, which never reaches the   *)
(* width of its type.                                                      *)
RcInv == /\ rcHeld \in 0 .. MaxRefs
         /\ rcReleases \in Nat
         /\ RcReleasedOnce

(* release is called by the put of the last reference and by no other      *)
(* (rc.c:72-82).                                                           *)
THEOREM RcReleasedOnceTheorem == RcSpec => []RcReleasedOnce
<1> USE RcAssumption
<1>1. RcInit => RcInv
  BY DEF RcInit, RcInv, RcReleasedOnce
<1>2. RcInv /\ [RcNext]_rcVars => RcInv'
  <2> SUFFICES ASSUME RcInv, [RcNext]_rcVars PROVE RcInv'
    OBVIOUS
  <2>1. CASE RcGet
    <3>1. rcCount + 1 \in Nat /\ rcCount + 1 <= MaxCount
      BY <2>1 DEF RcGet, RcInv, RcReleasedOnce
    <3>2. rcCount' = rcCount + 1
      BY <2>1, <3>1, NoWrap DEF RcGet
    <3> QED BY <2>1, <3>2 DEF RcGet, RcInv, RcReleasedOnce
  <2>2. CASE RcPut
    BY <2>2 DEF RcPut, RcInv, RcReleasedOnce
  <2>3. CASE UNCHANGED rcVars
    BY <2>3 DEF rcVars, RcInv, RcReleasedOnce
  <2> QED BY <2>1, <2>2, <2>3 DEF RcNext
<1>3. RcInv => RcReleasedOnce
  BY DEF RcInv
<1> QED BY <1>1, <1>2, <1>3, PTL DEF RcSpec

-----------------------------------------------------------------------------
(* Arc.                                                                    *)
ArcTypeOK ==
  /\ owner \in [Ref -> Thread \cup {NoThread}]
  /\ at \in [Thread -> {"out", "fence", "release"}]
  /\ sees \in [Thread -> SUBSET Thread]
  /\ read \in [Thread -> SUBSET Thread]
  /\ published \subseteq Thread /\ wrote \subseteq Thread
  /\ releases \in Nat

(* The threads inside std_arc_put that found themselves last.              *)
Leaving == {t \in Thread : at[t] # "out"}

(* As long as a reference is held nobody releases; after that exactly one  *)
(* thread is on its way, or has been.                                      *)
LastOne ==
  /\ Held # {} => releases = 0 /\ Leaving = {}
  /\ Held = {} => \/ releases = 1 /\ Leaving = {}
                  \/ releases = 0 /\ \E t \in Thread : Leaving = {t}

(* What was written is published, or some owner is certain to see it; the  *)
(* thread that is last has it, or gets it with the fence.                  *)
WritesReach ==
  /\ Held # {} => \A w \in wrote : w \in published \/ \E r \in Held : w \in sees[owner[r]]
  /\ \A t \in Thread : /\ at[t] = "fence" => wrote \subseteq sees[t] \cup read[t]
                       /\ at[t] = "release" => wrote \subseteq sees[t]

ArcInv == /\ ArcTypeOK
          /\ arcCount = Cardinality(Held)
          /\ LastOne
          /\ WritesReach

LEMMA ArcInitInv == ArcInit => ArcInv
<1> SUFFICES ASSUME ArcInit PROVE ArcInv
  OBVIOUS
<1>1. PICK r \in Ref : owner = [x \in Ref |-> IF x = r THEN First ELSE NoThread]
  BY DEF ArcInit
<1>2. Held = {r}
  BY <1>1, ArcAssumption DEF Held
<1>3. Cardinality(Held) = 1
  BY <1>2, FS_Singleton
<1>4. ArcTypeOK
  BY <1>1, ArcAssumption DEF ArcInit, ArcTypeOK
<1>5. LastOne
  BY <1>2 DEF ArcInit, LastOne, Leaving
<1>6. WritesReach
  BY DEF ArcInit, WritesReach
<1> QED BY <1>3, <1>4, <1>5, <1>6 DEF ArcInit, ArcInv

LEMMA HeldFinite == IsFiniteSet(Held) /\ Cardinality(Held) <= Cardinality(Ref)
BY ArcAssumption, FS_Subset DEF Held

(* What a thread does to the references it holds.                          *)
LEMMA GetInv ==
  ASSUME ArcInv, NEW t \in Thread, ArcGet(t)
  PROVE  ArcInv'
<1> USE DEF ArcInv, ArcTypeOK
<1>1. PICK r \in Ref \ Held : owner' = [owner EXCEPT ![r] = t]
  BY DEF ArcGet
<1>2. Held' = Held \cup {r}
  BY <1>1, ArcAssumption DEF Held
<1>3. Cardinality(Held') = Cardinality(Held) + 1
  BY <1>1, <1>2, HeldFinite, FS_AddElement
<1>4. Cardinality(Held') <= MaxArcCount /\ Cardinality(Held) \in Nat
  <2>1. IsFiniteSet(Held') /\ Cardinality(Held') <= Cardinality(Ref)
    BY ArcAssumption, FS_Subset DEF Held
  <2>2. Cardinality(Ref) \in Nat /\ Cardinality(Held') \in Nat /\ Cardinality(Held) \in Nat
    BY <2>1, ArcAssumption, HeldFinite, FS_CardinalityType
  <2> QED BY <2>1, <2>2, ArcAssumption
<1>5. arcCount' = Cardinality(Held')
  BY <1>3, <1>4, NoWrap, ArcAssumption DEF ArcGet
<1>6. Held # {}
  <2>1. PICK x \in Ref : owner[x] = t
    BY DEF ArcGet, Holder
  <2> QED BY <2>1, ArcAssumption DEF Held
<1>7. LastOne'
  BY <1>2, <1>6 DEF ArcGet, LastOne, Leaving
<1>8. WritesReach'
  BY <1>1, <1>2, <1>6 DEF ArcGet, WritesReach, Held
<1> QED BY <1>1, <1>5, <1>7, <1>8 DEF ArcGet

LEMMA HandOverInv ==
  ASSUME ArcInv, NEW u \in Thread, NEW r \in Ref, HandOver(r, u)
  PROVE  ArcInv'
<1> USE DEF ArcInv, ArcTypeOK, HandOver
<1>1. Held' = Held /\ Held # {}
  BY ArcAssumption DEF Held
<1>2. owner[r] \in Thread
  BY DEF Held
<1>3. ArcTypeOK'
  BY <1>2
<1>4. LastOne'
  BY <1>1 DEF LastOne, Leaving
<1>5. WritesReach'
  <2>1. ASSUME NEW w \in wrote, NEW x \in Held, w \in sees[owner[x]]
        PROVE  w \in sees'[owner'[x]]
    <3>1. owner[x] \in Thread /\ x \in Ref
      BY DEF Held
    <3> QED BY <2>1, <3>1, <1>2
  <2>2. \A t \in Thread : at[t] = "out"
    BY <1>1 DEF LastOne, Leaving
  <2> QED BY <1>1, <2>1, <2>2 DEF WritesReach
<1> QED BY <1>1, <1>3, <1>4, <1>5

LEMMA WriteInv ==
  ASSUME ArcInv, NEW t \in Thread, Write(t)
  PROVE  ArcInv'
<1> USE DEF ArcInv, ArcTypeOK, Write
<1>1. Held' = Held
  BY DEF Held
<1>2. PICK r \in Held : owner[r] = t
  BY ArcAssumption DEF Holder, Held
<1>3. LastOne'
  BY <1>1 DEF LastOne, Leaving
<1>4. WritesReach'
  <2>1. \A x \in Thread : at[x] = "out"
    BY <1>2 DEF LastOne, Leaving
  <2>2. ASSUME NEW w \in wrote', w \notin published
        PROVE  \E x \in Held : w \in sees'[owner[x]]
    <3>1. CASE w = t
      BY <3>1, <1>2
    <3>2. CASE w \in wrote
      <4>1. PICK x \in Held : w \in sees[owner[x]]
        BY <2>2, <3>2, <1>2 DEF WritesReach
      <4>2. owner[x] \in Thread
        BY DEF Held
      <4> QED BY <4>1, <4>2
    <3> QED BY <3>1, <3>2
  <2> QED BY <1>1, <2>1, <2>2 DEF WritesReach
<1> QED BY <1>1, <1>3, <1>4

(* The thread whose decrement finds a count of one holds the last          *)
(* reference, and sees or has read whatever was written.                   *)
LEMMA PutInv ==
  ASSUME ArcInv, NEW t \in Thread, NEW r \in Ref, ArcPut(t, r)
  PROVE  ArcInv'
<1> USE DEF ArcInv, ArcTypeOK, ArcPut
<1>1. r \in Held /\ Held' = Held \ {r}
  BY ArcAssumption DEF Held
<1>2. Cardinality(Held') = Cardinality(Held) - 1 /\ Cardinality(Held) \in Nat
  BY <1>1, HeldFinite, FS_RemoveElement, FS_CardinalityType
<1>3. releases = 0 /\ \A x \in Thread : at[x] = "out"
  BY <1>1 DEF LastOne, Leaving
<1>4. arcCount = 1 <=> Held' = {}
  <2>1. IsFiniteSet(Held')
    BY <1>1, HeldFinite, FS_RemoveElement
  <2> QED BY <1>2, <2>1, FS_EmptySet
<1>5. CASE arcCount = 1
  <2>1. Leaving' = {t}
    BY <1>3, <1>5 DEF Leaving
  <2>2. wrote \subseteq sees[t] \cup published
    BY <1>1, <1>4, <1>5 DEF WritesReach
  <2>3. WritesReach'
    BY <1>3, <1>4, <1>5, <2>2 DEF WritesReach
  <2> QED BY <1>2, <1>3, <1>4, <1>5, <2>1, <2>3 DEF LastOne
<1>6. CASE arcCount # 1
  <2>1. Leaving' = {}
    BY <1>3, <1>6 DEF Leaving
  <2>2. ASSUME NEW w \in wrote, w \notin published'
        PROVE  \E x \in Held' : w \in sees[owner'[x]]
    <3>1. PICK x \in Held : w \in sees[owner[x]]
      BY <1>1, <2>2 DEF WritesReach
    <3>2. x # r
      BY <2>2, <3>1
    <3> QED BY <1>1, <3>1, <3>2 DEF Held
  <2>3. WritesReach'
    BY <1>3, <1>6, <2>2 DEF WritesReach
  <2> QED BY <1>2, <1>3, <1>4, <1>6, <2>1, <2>3 DEF LastOne
<1> QED BY <1>5, <1>6

LEMMA ReleaseInv ==
  ASSUME ArcInv, NEW t \in Thread, ArcFence(t) \/ ArcRelease(t)
  PROVE  ArcInv'
<1> USE DEF ArcInv, ArcTypeOK
<1>1. Held' = Held
  BY DEF Held, ArcFence, ArcRelease
<1>2. t \in Leaving /\ Held = {} /\ releases = 0 /\ Leaving = {t}
  BY DEF ArcFence, ArcRelease, LastOne, Leaving
<1>3. CASE ArcFence(t)
  <2>1. Leaving' = {t}
    BY <1>2, <1>3 DEF ArcFence, Leaving
  <2> QED BY <1>1, <1>2, <1>3, <2>1 DEF ArcFence, LastOne, WritesReach
<1>4. CASE ArcRelease(t)
  <2>1. Leaving' = {}
    BY <1>2, <1>4 DEF ArcRelease, Leaving
  <2>2. ArcTypeOK' /\ arcCount' = Cardinality(Held') /\ wrote \subseteq sees[t]
    BY <1>1, <1>2, <1>4 DEF ArcRelease, LastOne, WritesReach
  <2>3. LastOne' /\ WritesReach'
    BY <1>1, <1>2, <1>4, <2>1 DEF ArcRelease, LastOne, WritesReach
  <2> QED BY <1>1, <1>2, <1>4, <2>1, <2>2, <2>3 DEF ArcRelease
<1> QED BY <1>3, <1>4

(* The three parts above hold in every state, whatever the threads do with *)
(* their references (arc.c:43-86): they are inductive together.            *)
THEOREM ArcInvariant == ArcSpec => []ArcInv
<1>1. ArcInv /\ [ArcNext]_arcVars => ArcInv'
  <2> SUFFICES ASSUME ArcInv, [ArcNext]_arcVars PROVE ArcInv'
    OBVIOUS
  <2>1. CASE UNCHANGED arcVars
    BY <2>1 DEF arcVars, ArcInv, ArcTypeOK, LastOne, Leaving, WritesReach, Held
  <2> QED BY <2>1, GetInv, HandOverInv, WriteInv, PutInv, ReleaseInv DEF ArcNext
<1> QED BY <1>1, ArcInitInv, PTL DEF ArcSpec

(* Whichever threads drop the last references at once, exactly one of them *)
(* releases the object, and only when nobody holds it (arc.c:63-85).       *)
THEOREM ArcReleasedOnceTheorem == ArcSpec => []ArcReleasedOnce
<1>1. ArcInv => ArcReleasedOnce
  <2> SUFFICES ASSUME ArcInv
               PROVE  releases + Cardinality(Leaving) = IF Held = {} THEN 1 ELSE 0
    BY DEF ArcInv, ArcReleasedOnce, Leaving
  <2>1. Cardinality({}) = 0 /\ \A t \in Thread : Cardinality({t}) = 1
    BY FS_EmptySet, FS_Singleton
  <2> QED BY <2>1 DEF ArcInv, LastOne
<1> QED BY <1>1, ArcInvariant, PTL

(* The thread that releases sees every write any owner ever made, through  *)
(* the release decrements and its own acquire fence (arc.c:67-75).         *)
THEOREM DestructorSeesAllTheorem == ArcSpec => []DestructorSeesAll
<1>1. ArcInv => DestructorSeesAll
  BY DEF ArcInv, WritesReach, DestructorSeesAll
<1> QED BY <1>1, ArcInvariant, PTL

-----------------------------------------------------------------------------
(* list.c.  A list with its anchor at both ends, and the pointers along    *)
(* it.                                                                     *)
Ring(q, h) == [i \in 0 .. Len(q) + 1 |-> IF i \in DOMAIN q THEN q[i] ELSE h]

Joined(r, k, nx, pv) == \A i \in 0 .. k : nx[r[i]] = r[i + 1] /\ pv[r[i + 1]] = r[i]

OnRing(h, p) == p = h \/ Has(members[h], p)

ListTypeOK == /\ next \in [ListPtr -> ListPtr \cup {Nil}]
              /\ prev \in [ListPtr -> ListPtr \cup {Nil}]
              /\ members \in [Anchor -> Seq(Node)]

(* No node is in two lists, or twice in one.                               *)
Members == /\ \A h \in Anchor : Distinct(members[h])
           /\ \A g, h \in Anchor, n \in Node : Has(members[g], n) /\ Has(members[h], n) => g = h

Rings == \A h \in Anchor : Joined(Ring(members[h], h), Len(members[h]), next, prev)

Loose == \A n \in Node : ~Linked(n) => next[n] = prev[n] /\ next[n] \in {Nil, n}

ListInv == ListTypeOK /\ Members /\ Rings /\ Loose

(* The facts about one ring.                                               *)
LEMMA RingFacts ==
  ASSUME NEW q \in Seq(Node), Distinct(q), NEW h \in Anchor
  PROVE  /\ Len(q) \in Nat
         /\ Ring(q, h)[0] = h /\ Ring(q, h)[Len(q) + 1] = h
         /\ \A i \in 1 .. Len(q) : Ring(q, h)[i] = q[i]
         /\ \A i \in 0 .. Len(q) + 1 : Ring(q, h)[i] = h \/ Has(q, Ring(q, h)[i])
         /\ \A i \in 0 .. Len(q) + 1 : Ring(q, h)[i] \in ListPtr
         /\ \A i, j \in 0 .. Len(q) : Ring(q, h)[i] = Ring(q, h)[j] => i = j
         /\ \A i, j \in 1 .. Len(q) + 1 : Ring(q, h)[i] = Ring(q, h)[j] => i = j
<1> DEFINE r == Ring(q, h)
<1>1. /\ Len(q) \in Nat /\ DOMAIN q = 1 .. Len(q) /\ \A i \in 1 .. Len(q) : q[i] \in Node
      /\ h \notin Node
  BY ListAssumption
<1>2. \A i \in 0 .. Len(q) + 1 : r[i] = IF i \in 1 .. Len(q) THEN q[i] ELSE h
  BY <1>1 DEF Ring
<1> HIDE DEF r
<1>3. 0 \in 0 .. Len(q) + 1 /\ Len(q) + 1 \in 0 .. Len(q) + 1
  BY <1>1
<1>4. r[0] = h /\ r[Len(q) + 1] = h
  BY <1>1, <1>2, <1>3
<1>5. \A i \in 1 .. Len(q) : r[i] = q[i]
  BY <1>1, <1>2
<1>6. \A i \in 0 .. Len(q) + 1 : (r[i] = h \/ Has(q, r[i])) /\ r[i] \in ListPtr
  BY <1>1, <1>2 DEF Has, ListPtr
<1>7. \A i, j \in 0 .. Len(q) : r[i] = r[j] => i = j
  BY <1>1, <1>2 DEF Distinct
<1>8. \A i, j \in 1 .. Len(q) + 1 : r[i] = r[j] => i = j
  BY <1>1, <1>2 DEF Distinct
<1> QED BY <1>1, <1>4, <1>5, <1>6, <1>7, <1>8 DEF r

(* list_link of n between two neighbours, and the list with n in between.  *)
LEMMA JoinedLink ==
  ASSUME NEW S, NEW nx \in [ListPtr -> S], NEW pv \in [ListPtr -> S], NEW N \in Nat, NEW r,
         \A i \in 0 .. N + 1 : r[i] \in ListPtr,
         \A i, j \in 0 .. N : r[i] = r[j] => i = j,
         \A i, j \in 1 .. N + 1 : r[i] = r[j] => i = j,
         Joined(r, N, nx, pv),
         NEW n \in ListPtr, \A i \in 0 .. N + 1 : r[i] # n,
         NEW k \in 0 .. N, NEW s,
         \A i \in 0 .. N + 2 : s[i] = IF i <= k THEN r[i] ELSE IF i = k + 1 THEN n ELSE r[i - 1]
  PROVE  Joined(s, N + 1, [nx EXCEPT ![n] = r[k + 1], ![r[k]] = n],
                          [pv EXCEPT ![n] = r[k], ![r[k + 1]] = n])
<1> DEFINE mx == [nx EXCEPT ![n] = r[k + 1], ![r[k]] = n]
           mv == [pv EXCEPT ![n] = r[k], ![r[k + 1]] = n]
<1>1. k \in Nat /\ k <= N /\ r[k] \in ListPtr /\ r[k + 1] \in ListPtr /\ r[k] # n /\ r[k + 1] # n
  OBVIOUS
<1>2. mx[n] = r[k + 1] /\ mx[r[k]] = n /\ \A p \in ListPtr : p # n /\ p # r[k] => mx[p] = nx[p]
  BY <1>1
<1>3. mv[n] = r[k] /\ mv[r[k + 1]] = n /\ \A p \in ListPtr : p # n /\ p # r[k + 1] => mv[p] = pv[p]
  BY <1>1
<1> HIDE DEF mx, mv
<1>4. ASSUME NEW i \in 0 .. N + 1 PROVE mx[s[i]] = s[i + 1] /\ mv[s[i + 1]] = s[i]
  <2>1. i + 1 \in 0 .. N + 2 /\ i \in 0 .. N + 2 /\ i \in Nat
    OBVIOUS
  <2>2. CASE i < k
    <3>1. s[i] = r[i] /\ s[i + 1] = r[i + 1] /\ i \in 0 .. N /\ i + 1 \in 1 .. N + 1
      BY <1>1, <2>1, <2>2
    <3>2. nx[r[i]] = r[i + 1] /\ pv[r[i + 1]] = r[i]
      BY <3>1 DEF Joined
    <3>3. r[i] # r[k] /\ r[i + 1] # r[k + 1]
      BY <1>1, <2>2, <3>1
    <3> QED BY <1>1, <1>2, <1>3, <3>1, <3>2, <3>3
  <2>3. CASE i = k
    <3>1. s[i] = r[k] /\ s[i + 1] = n
      BY <1>1, <2>1, <2>3
    <3> QED BY <1>2, <1>3, <3>1
  <2>4. CASE i = k + 1
    <3>1. s[i] = n /\ s[i + 1] = r[k + 1]
      BY <1>1, <2>1, <2>4
    <3> QED BY <1>2, <1>3, <3>1
  <2>5. CASE i > k + 1
    <3>1. PICK j \in Nat : j = i - 1
      BY <2>1, <2>5
    <3>2. s[i] = r[j] /\ s[i + 1] = r[j + 1] /\ j \in 0 .. N /\ j + 1 \in 1 .. N + 1 /\ j > k
      BY <1>1, <2>1, <2>5, <3>1
    <3>3. nx[r[j]] = r[j + 1] /\ pv[r[j + 1]] = r[j]
      BY <3>2 DEF Joined
    <3>4. r[j] # r[k] /\ r[j + 1] # r[k + 1]
      BY <1>1, <3>2
    <3> QED BY <1>1, <1>2, <1>3, <3>2, <3>3, <3>4
  <2> QED BY <1>1, <2>1, <2>2, <2>3, <2>4, <2>5
<1> QED BY <1>4 DEF Joined, mx, mv

(* list_unlink of the k-th, and the list without it.                       *)
LEMMA JoinedSplice ==
  ASSUME NEW S, NEW nx \in [ListPtr -> S], NEW pv \in [ListPtr -> S], NEW N \in Nat, NEW r,
         \A i \in 0 .. N + 1 : r[i] \in ListPtr,
         \A i, j \in 0 .. N : r[i] = r[j] => i = j,
         \A i, j \in 1 .. N + 1 : r[i] = r[j] => i = j,
         Joined(r, N, nx, pv),
         NEW k \in 1 .. N, NEW x, NEW s,
         \A i \in 0 .. N : s[i] = IF i < k THEN r[i] ELSE r[i + 1]
  PROVE  Joined(s, N - 1, [nx EXCEPT ![r[k - 1]] = r[k + 1], ![r[k]] = x],
                          [pv EXCEPT ![r[k + 1]] = r[k - 1], ![r[k]] = x])
<1> DEFINE mx == [nx EXCEPT ![r[k - 1]] = r[k + 1], ![r[k]] = x]
           mv == [pv EXCEPT ![r[k + 1]] = r[k - 1], ![r[k]] = x]
<1>1. PICK m \in Nat : m = k - 1
  OBVIOUS
<1>2. /\ k = m + 1 /\ k <= N /\ k \in Nat
      /\ r[m] \in ListPtr /\ r[k] \in ListPtr /\ r[k + 1] \in ListPtr
  BY <1>1
<1>3. r[m] # r[k] /\ r[k + 1] # r[k]
  BY <1>2
<1>4. mx[r[m]] = r[k + 1] /\ \A p \in ListPtr : p # r[m] /\ p # r[k] => mx[p] = nx[p]
  BY <1>1, <1>2, <1>3
<1>5. mv[r[k + 1]] = r[m] /\ \A p \in ListPtr : p # r[k + 1] /\ p # r[k] => mv[p] = pv[p]
  BY <1>1, <1>2, <1>3
<1> HIDE DEF mx, mv
<1>6. ASSUME NEW i \in 0 .. N - 1 PROVE mx[s[i]] = s[i + 1] /\ mv[s[i + 1]] = s[i]
  <2>1. i + 1 \in 0 .. N /\ i \in 0 .. N /\ i \in Nat
    OBVIOUS
  <2>2. CASE i < m
    <3>1. s[i] = r[i] /\ s[i + 1] = r[i + 1] /\ i \in 0 .. N /\ i + 1 \in 1 .. N + 1 /\ i + 1 < k
      BY <1>2, <2>1, <2>2
    <3>2. nx[r[i]] = r[i + 1] /\ pv[r[i + 1]] = r[i]
      BY <3>1 DEF Joined
    <3>3. r[i] # r[m] /\ r[i] # r[k] /\ r[i + 1] # r[k] /\ r[i + 1] # r[k + 1]
      BY <1>2, <2>2, <3>1
    <3> QED BY <1>4, <1>5, <2>1, <3>1, <3>2, <3>3
  <2>3. CASE i = m
    <3>1. s[i] = r[m] /\ s[i + 1] = r[k + 1]
      BY <1>2, <2>1, <2>3
    <3> QED BY <1>4, <1>5, <3>1
  <2>4. CASE i > m
    <3>1. PICK j \in Nat : j = i + 1
      BY <2>1
    <3>2. s[i] = r[j] /\ s[i + 1] = r[j + 1] /\ j \in 0 .. N /\ j + 1 \in 1 .. N + 1 /\ j > k
      BY <1>2, <2>1, <2>4, <3>1
    <3>3. nx[r[j]] = r[j + 1] /\ pv[r[j + 1]] = r[j]
      BY <3>2 DEF Joined
    <3>4. r[j] # r[m] /\ r[j] # r[k] /\ r[j + 1] # r[k] /\ r[j + 1] # r[k + 1]
      BY <1>2, <3>2
    <3> QED BY <1>4, <1>5, <3>2, <3>3, <3>4
  <2> QED BY <1>2, <2>1, <2>2, <2>3, <2>4
<1> QED BY <1>6 DEF Joined, mx, mv

LEMMA JoinedHere ==
  ASSUME ListInv, NEW h \in Anchor, NEW q, q = members[h], NEW r, r = Ring(q, h)
  PROVE  /\ q \in Seq(Node) /\ Distinct(q) /\ Len(q) \in Nat
         /\ r[0] = h /\ r[Len(q) + 1] = h
         /\ \A i \in 1 .. Len(q) : r[i] = q[i]
         /\ \A i \in 0 .. Len(q) + 1 : OnRing(h, r[i]) /\ r[i] \in ListPtr
         /\ \A i, j \in 0 .. Len(q) : r[i] = r[j] => i = j
         /\ \A i, j \in 1 .. Len(q) + 1 : r[i] = r[j] => i = j
         /\ Joined(r, Len(q), next, prev)
<1>1. q \in Seq(Node) /\ Distinct(q) /\ Joined(r, Len(q), next, prev)
  BY DEF ListInv, ListTypeOK, Members, Rings
<1>2. /\ Len(q) \in Nat
      /\ r[0] = h /\ r[Len(q) + 1] = h
      /\ \A i \in 1 .. Len(q) : r[i] = q[i]
      /\ \A i \in 0 .. Len(q) + 1 : r[i] = h \/ Has(q, r[i])
      /\ \A i \in 0 .. Len(q) + 1 : r[i] \in ListPtr
      /\ \A i, j \in 0 .. Len(q) : r[i] = r[j] => i = j
      /\ \A i, j \in 1 .. Len(q) + 1 : r[i] = r[j] => i = j
  BY <1>1, RingFacts
<1> QED BY <1>1, <1>2 DEF OnRing

(* The rings of two lists, and a node in no list, have nothing in common.  *)
LEMMA Apart ==
  ASSUME ListInv, NEW g \in Anchor, NEW h \in Anchor, g # h, NEW p \in ListPtr, OnRing(g, p)
  PROVE  ~OnRing(h, p)
<1>1. \A f \in Anchor : OnRing(f, p) => IF p \in Anchor THEN p = f ELSE p \in Node /\ Has(members[f], p)
  <2> SUFFICES ASSUME NEW f \in Anchor, OnRing(f, p)
               PROVE  IF p \in Anchor THEN p = f ELSE p \in Node /\ Has(members[f], p)
    OBVIOUS
  <2>1. members[f] \in Seq(Node)
    BY DEF ListInv, ListTypeOK
  <2>2. Has(members[f], p) => p \in Node
    BY <2>1 DEF Has
  <2> QED BY <2>2, ListAssumption DEF OnRing
<1> QED BY <1>1 DEF ListInv, Members

(* A list is not touched by what happens to pointers outside its ring.     *)
LEMMA OtherRing ==
  ASSUME ListInv, NEW g \in Anchor, members'[g] = members[g],
         \A p \in ListPtr : OnRing(g, p) => next'[p] = next[p] /\ prev'[p] = prev[p]
  PROVE  Joined(Ring(members'[g], g), Len(members'[g]), next', prev')
<1> DEFINE q == members[g]
           r == Ring(q, g)
<1>1. /\ Len(q) \in Nat /\ Joined(r, Len(q), next, prev)
      /\ \A i \in 0 .. Len(q) + 1 : OnRing(g, r[i]) /\ r[i] \in ListPtr
  BY JoinedHere
<1> HIDE DEF q, r
<1>2. Joined(r, Len(q), next', prev')
  <2> SUFFICES ASSUME NEW i \in 0 .. Len(q) PROVE next'[r[i]] = r[i + 1] /\ prev'[r[i + 1]] = r[i]
    BY DEF Joined
  <2>1. i \in 0 .. Len(q) + 1 /\ i + 1 \in 0 .. Len(q) + 1
    BY <1>1
  <2> QED BY <1>1, <2>1 DEF Joined
<1> QED BY <1>2 DEF q, r

LEMMA AddBetween ==
  ASSUME ListInv, NEW n \in Node, ~Linked(n), NEW h \in Anchor, NEW k \in 0 .. Len(members[h]),
         Link(n, Ring(members[h], h)[k], Ring(members[h], h)[k + 1]),
         members' = [members EXCEPT ![h] = InsertBefore(@, k + 1, n)]
  PROVE  ListInv'
<1> DEFINE q == members[h]
           r == Ring(q, h)
           w == InsertBefore(q, k + 1, n)
           s == Ring(w, h)
<1>1. /\ q \in Seq(Node) /\ Distinct(q) /\ Len(q) \in Nat
      /\ \A i \in 0 .. Len(q) + 1 : OnRing(h, r[i]) /\ r[i] \in ListPtr
      /\ \A i, j \in 0 .. Len(q) : r[i] = r[j] => i = j
      /\ \A i, j \in 1 .. Len(q) + 1 : r[i] = r[j] => i = j
      /\ Joined(r, Len(q), next, prev)
  BY JoinedHere
<1>2. ~Has(q, n) /\ n \in ListPtr /\ n \notin Anchor
  BY ListAssumption DEF Linked, ListPtr
<1>3. k + 1 \in 1 .. (Len(q) + 1) /\ k \in Nat /\ k <= Len(q)
  BY <1>1
<1>4. w \in Seq(Node) /\ Distinct(w) /\ \A x : Has(w, x) <=> Has(q, x) \/ x = n
  BY <1>1, <1>2, <1>3, InsertLemma
<1>5. w = [i \in 1 .. (Len(q) + 1) |-> IF i < k + 1 THEN q[i] ELSE IF i = k + 1 THEN n ELSE q[i - 1]]
  BY DEF InsertBefore
<1>6. Len(w) = Len(q) + 1 /\ DOMAIN w = 1 .. (Len(q) + 1) /\ DOMAIN q = 1 .. Len(q)
  BY <1>1, <1>4, <1>5
<1>7. \A i \in 0 .. Len(q) + 2 : s[i] = IF i <= k THEN r[i] ELSE IF i = k + 1 THEN n ELSE r[i - 1]
  <2> SUFFICES ASSUME NEW i \in 0 .. Len(q) + 2
               PROVE  s[i] = IF i <= k THEN r[i] ELSE IF i = k + 1 THEN n ELSE r[i - 1]
    OBVIOUS
  <2>1. s[i] = IF i \in 1 .. Len(q) + 1 THEN w[i] ELSE h
    BY <1>1, <1>6 DEF Ring
  <2>2. \A j \in 0 .. Len(q) + 1 : r[j] = IF j \in 1 .. Len(q) THEN q[j] ELSE h
    BY <1>1, <1>6 DEF Ring
  <2> HIDE DEF s, w, r, q
  <2>3. CASE i <= k
    <3>1. i \in 0 .. Len(q) + 1 /\ (i \in 1 .. Len(q) + 1 <=> i \in 1 .. Len(q)) /\ i < k + 1
      BY <1>1, <1>3, <2>3
    <3> QED BY <1>5, <2>1, <2>2, <2>3, <3>1
  <2>4. CASE i = k + 1
    BY <1>1, <1>3, <1>5, <2>1, <2>4
  <2>5. CASE i > k + 1
    <3>1. PICK j \in Nat : j = i - 1
      BY <1>3, <2>5
    <3>2. /\ j \in 0 .. Len(q) + 1 /\ (i \in 1 .. Len(q) + 1 <=> j \in 1 .. Len(q))
          /\ ~(i <= k) /\ i # k + 1 /\ ~(i < k + 1)
      BY <1>1, <1>3, <2>5, <3>1
    <3> QED BY <1>5, <2>1, <2>2, <3>1, <3>2
  <2> QED BY <1>3, <2>3, <2>4, <2>5
<1>8. next' = [next EXCEPT ![n] = r[k + 1], ![r[k]] = n] /\ prev' = [prev EXCEPT ![n] = r[k], ![r[k + 1]] = n]
  BY DEF Link
<1>9. members' \in [Anchor -> Seq(Node)] /\ members'[h] = w /\ \A g \in Anchor : g # h => members'[g] = members[g]
  BY <1>4 DEF ListInv, ListTypeOK
<1>10. \A i \in 0 .. Len(q) + 1 : r[i] # n
  BY <1>1, <1>2 DEF OnRing
<1>11. r[k] \in ListPtr /\ r[k + 1] \in ListPtr /\ OnRing(h, r[k]) /\ OnRing(h, r[k + 1])
  BY <1>1, <1>3
<1> HIDE DEF q, r, w, s
<1>12. Joined(s, Len(w), next', prev')
  <2>1. next \in [ListPtr -> ListPtr \cup {Nil}] /\ prev \in [ListPtr -> ListPtr \cup {Nil}]
        /\ n \in ListPtr /\ Len(q) \in Nat /\ k \in 0 .. Len(q)
    BY <1>1, <1>2, <1>3 DEF ListInv, ListTypeOK
  <2>2. Joined(s, Len(q) + 1, [next EXCEPT ![n] = r[k + 1], ![r[k]] = n],
                              [prev EXCEPT ![n] = r[k], ![r[k + 1]] = n])
    BY ONLY <1>1, <1>7, <1>10, <2>1, JoinedLink
  <2> QED BY <1>6, <1>8, <2>2
<1>13. ListTypeOK'
  BY <1>2, <1>8, <1>9, <1>11 DEF ListInv, ListTypeOK
<1>14. Members'
  BY <1>1, <1>4, <1>9 DEF ListInv, Members, Linked, q
<1>15. Rings'
  <2> SUFFICES ASSUME NEW g \in Anchor
               PROVE  Joined(Ring(members'[g], g), Len(members'[g]), next', prev')
    BY DEF Rings
  <2>1. CASE g = h
    BY <1>9, <1>12, <2>1 DEF s
  <2>2. CASE g # h
    <3>1. ASSUME NEW p \in ListPtr, OnRing(g, p) PROVE p # n /\ p # r[k] /\ p # r[k + 1]
      BY <1>2, <1>11, <2>2, <3>1, Apart DEF OnRing, Linked
    <3>2. \A p \in ListPtr : OnRing(g, p) => next'[p] = next[p] /\ prev'[p] = prev[p]
      BY <1>8, <3>1 DEF ListInv, ListTypeOK
    <3> QED BY <1>9, <2>2, <3>2, OtherRing
  <2> QED BY <2>1, <2>2
<1>16. Loose'
  <2> SUFFICES ASSUME NEW m \in Node, ~Linked(m)' PROVE next'[m] = prev'[m] /\ next'[m] \in {Nil, m}
    BY DEF Loose
  <2>1. ~Linked(m) /\ m # n
    BY <1>4, <1>9 DEF Linked, q
  <2>2. m \in ListPtr /\ m # r[k] /\ m # r[k + 1]
    BY <1>11, <2>1, ListAssumption DEF Linked, OnRing, ListPtr, q
  <2>3. next'[m] = next[m] /\ prev'[m] = prev[m]
    BY <1>8, <2>1, <2>2 DEF ListInv, ListTypeOK
  <2> QED BY <2>1, <2>3 DEF ListInv, Loose
<1> QED BY <1>13, <1>14, <1>15, <1>16 DEF ListInv

(* Where an element of a list is.                                          *)
LEMMA PlaceLemma ==
  ASSUME ListInv, NEW h \in Anchor, NEW p, OnRing(h, p)
  PROVE  /\ Place(h, p) \in 0 .. Len(members[h])
         /\ Ring(members[h], h)[Place(h, p)] = p
         /\ p # h => Place(h, p) \in 1 .. Len(members[h])
<1> DEFINE q == members[h]
<1>1. q \in Seq(Node) /\ Len(q) \in Nat /\ DOMAIN q = 1 .. Len(q)
      /\ Ring(q, h)[0] = h /\ \A i \in 1 .. Len(q) : Ring(q, h)[i] = q[i]
  BY JoinedHere
<1>2. CASE p = h
  BY <1>1, <1>2 DEF Place
<1>3. CASE p # h
  <2>1. \E i \in DOMAIN q : q[i] = p
    BY <1>3 DEF OnRing, Has
  <2>2. Place(h, p) \in DOMAIN q /\ q[Place(h, p)] = p
    BY <1>3, <2>1 DEF Place
  <2> QED BY <1>1, <1>3, <2>2
<1> QED BY <1>2, <1>3

LEMMA ListAddInv ==
  ASSUME ListInv, NEW n \in Node, NEW h \in Anchor, NEW p \in ListPtr \ {n}, ListAdd(n, h, p)
  PROVE  ListInv'
<1> DEFINE k == Place(h, p)
<1>1. ~Linked(n) /\ OnRing(h, p) /\ Link(n, p, next[p])
      /\ members' = [members EXCEPT ![h] = InsertBefore(@, k + 1, n)]
  BY DEF ListAdd, OnRing
<1>2. k \in 0 .. Len(members[h]) /\ Ring(members[h], h)[k] = p
  BY <1>1, PlaceLemma
<1> HIDE DEF k
<1>3. next[p] = Ring(members[h], h)[k + 1]
  BY <1>2 DEF ListInv, Rings, Joined
<1> QED BY <1>1, <1>2, <1>3, AddBetween

LEMMA ListAddTailInv ==
  ASSUME ListInv, NEW n \in Node, NEW h \in Anchor, NEW p \in ListPtr \ {n}, ListAddTail(n, h, p)
  PROVE  ListInv'
<1> DEFINE q == members[h]
           r == Ring(q, h)
<1>1. /\ ~Linked(n) /\ OnRing(h, p) /\ Link(n, prev[p], p)
      /\ members' = [members EXCEPT ![h] = IF p = h THEN AddTail(@, n)
                                           ELSE InsertBefore(@, Place(h, p), n)]
  BY DEF ListAddTail, OnRing
<1>2. q \in Seq(Node) /\ Len(q) \in Nat /\ r[Len(q) + 1] = h /\ Joined(r, Len(q), next, prev)
  BY JoinedHere
<1>3. PICK k \in 0 .. Len(q) :
        r[k + 1] = p /\ members' = [members EXCEPT ![h] = InsertBefore(@, k + 1, n)]
  <2>1. CASE p = h
    <3>1. AddTail(q, n) = InsertBefore(q, Len(q) + 1, n)
      BY <1>2 DEF AddTail, InsertBefore
    <3>2. members' = [members EXCEPT ![h] = InsertBefore(@, Len(q) + 1, n)]
      BY <1>1, <2>1, <3>1
    <3>3. Len(q) \in 0 .. Len(q)
      BY <1>2
    <3> QED BY <1>2, <2>1, <3>2, <3>3
  <2>2. CASE p # h
    <3>1. Place(h, p) \in 1 .. Len(q) /\ r[Place(h, p)] = p
      BY <1>1, <2>2, PlaceLemma
    <3>2. PICK i \in 1 .. Len(q) : i = Place(h, p)
      BY <3>1
    <3>3. i - 1 \in 0 .. Len(q) /\ (i - 1) + 1 = i
      BY <1>2
    <3>4. members' = [members EXCEPT ![h] = InsertBefore(@, i, n)]
      BY <1>1, <2>2, <3>2
    <3> QED BY <3>1, <3>2, <3>3, <3>4
  <2> QED BY <2>1, <2>2
<1>4. prev[p] = r[k]
  BY <1>2, <1>3 DEF Joined
<1> QED BY <1>1, <1>3, <1>4, AddBetween

LEMMA ListRemoveInv ==
  ASSUME ListInv, NEW n \in Node, NEW h \in Anchor, NEW ptr \in {Nil, n}, ListRemove(n, h, ptr)
  PROVE  ListInv'
<1> DEFINE q == members[h]
           r == Ring(q, h)
           w == Unlink(q, n)
           s == Ring(w, h)
<1>1. /\ q \in Seq(Node) /\ Distinct(q) /\ Len(q) \in Nat
      /\ \A i \in 0 .. Len(q) + 1 : OnRing(h, r[i]) /\ r[i] \in ListPtr
      /\ \A i, j \in 0 .. Len(q) : r[i] = r[j] => i = j
      /\ \A i, j \in 1 .. Len(q) + 1 : r[i] = r[j] => i = j
      /\ Joined(r, Len(q), next, prev)
  BY JoinedHere
<1>2. Has(q, n) /\ n \in ListPtr /\ n \notin Anchor
  BY ListAssumption DEF ListRemove, ListPtr
<1>3. PICK k \in 1 .. Len(q) : k = Place(h, n) /\ r[k] = n
  BY <1>2, PlaceLemma DEF OnRing
<1>4. k \in Nat /\ k - 1 \in 0 .. Len(q) /\ (k - 1) + 1 = k /\ k \in 0 .. Len(q) /\ k <= Len(q)
  BY <1>1
<1>5. prev[n] = r[k - 1] /\ next[n] = r[k + 1]
  BY <1>1, <1>3, <1>4 DEF Joined
<1>6. next' = [next EXCEPT ![r[k - 1]] = r[k + 1], ![n] = ptr] /\ prev' = [prev EXCEPT ![r[k + 1]] = r[k - 1], ![n] = ptr]
  BY <1>5 DEF ListRemove, Splice
<1>7. w \in Seq(Node) /\ Distinct(w) /\ \A x : Has(w, x) <=> Has(q, x) /\ x # n
  BY <1>1, <1>2, UnlinkLemma
<1>8. w = [i \in 1 .. (Len(q) - 1) |-> IF i < k THEN q[i] ELSE q[i + 1]]
  BY <1>2, <1>3, ListAssumption DEF Unlink, Place
<1>9. Len(w) = Len(q) - 1 /\ DOMAIN w = 1 .. (Len(q) - 1) /\ DOMAIN q = 1 .. Len(q)
  BY <1>1, <1>4, <1>7, <1>8
<1>10. \A i \in 0 .. Len(q) : s[i] = IF i < k THEN r[i] ELSE r[i + 1]
  <2> SUFFICES ASSUME NEW i \in 0 .. Len(q)
               PROVE  s[i] = IF i < k THEN r[i] ELSE r[i + 1]
    OBVIOUS
  <2>1. s[i] = IF i \in 1 .. Len(q) - 1 THEN w[i] ELSE h
    BY <1>1, <1>9 DEF Ring
  <2>2. \A j \in 0 .. Len(q) + 1 : r[j] = IF j \in 1 .. Len(q) THEN q[j] ELSE h
    BY <1>1, <1>9 DEF Ring
  <2> HIDE DEF s, w, r, q
  <2>3. CASE i < k
    <3>1. i \in 0 .. Len(q) + 1 /\ (i \in 1 .. Len(q) - 1 <=> i \in 1 .. Len(q))
      BY <1>1, <1>4, <2>3
    <3> QED BY <1>8, <2>1, <2>2, <2>3, <3>1
  <2>4. CASE ~(i < k)
    <3>1. PICK j \in Nat : j = i + 1
      OBVIOUS
    <3>2. j \in 0 .. Len(q) + 1 /\ (i \in 1 .. Len(q) - 1 <=> j \in 1 .. Len(q))
      BY <1>1, <1>4, <2>4, <3>1
    <3> QED BY <1>8, <2>1, <2>2, <2>4, <3>1, <3>2
  <2> QED BY <2>3, <2>4
<1>11. members' \in [Anchor -> Seq(Node)] /\ members'[h] = w /\ \A g \in Anchor : g # h => members'[g] = members[g]
  BY <1>7 DEF ListInv, ListTypeOK, ListRemove
<1>12. r[k - 1] \in ListPtr /\ r[k + 1] \in ListPtr /\ OnRing(h, r[k - 1]) /\ OnRing(h, r[k + 1])
  BY <1>1, <1>4
<1>13. r[k - 1] # n /\ r[k + 1] # n
  BY <1>1, <1>3, <1>4
<1> HIDE DEF q, r, w, s
<1>14. Joined(s, Len(w), next', prev')
  <2>1. next \in [ListPtr -> ListPtr \cup {Nil}] /\ prev \in [ListPtr -> ListPtr \cup {Nil}]
        /\ Len(q) \in Nat /\ k \in 1 .. Len(q)
    BY <1>1 DEF ListInv, ListTypeOK
  <2>2. Joined(s, Len(q) - 1, [next EXCEPT ![r[k - 1]] = r[k + 1], ![r[k]] = ptr],
                              [prev EXCEPT ![r[k + 1]] = r[k - 1], ![r[k]] = ptr])
    BY ONLY <1>1, <1>10, <2>1, JoinedSplice
  <2> QED BY <1>3, <1>6, <1>9, <2>2
<1>15. ListTypeOK'
  BY <1>2, <1>6, <1>11, <1>12 DEF ListInv, ListTypeOK
<1>16. Members'
  BY <1>1, <1>7, <1>11 DEF ListInv, Members, q
<1>17. Rings'
  <2> SUFFICES ASSUME NEW g \in Anchor
               PROVE  Joined(Ring(members'[g], g), Len(members'[g]), next', prev')
    BY DEF Rings
  <2>1. CASE g = h
    BY <1>11, <1>14, <2>1 DEF s
  <2>2. CASE g # h
    <3>1. ASSUME NEW p \in ListPtr, OnRing(g, p) PROVE p # n /\ p # r[k - 1] /\ p # r[k + 1]
      BY <1>2, <1>12, <2>2, <3>1, Apart DEF OnRing, q
    <3>2. \A p \in ListPtr : OnRing(g, p) => next'[p] = next[p] /\ prev'[p] = prev[p]
      BY <1>6, <3>1 DEF ListInv, ListTypeOK
    <3> QED BY <1>11, <2>2, <3>2, OtherRing
  <2> QED BY <2>1, <2>2
<1>18. Loose'
  <2> SUFFICES ASSUME NEW m \in Node, ~Linked(m)' PROVE next'[m] = prev'[m] /\ next'[m] \in {Nil, m}
    BY DEF Loose
  <2>1. CASE m = n
    BY <1>2, <1>6, <2>1 DEF ListInv, ListTypeOK
  <2>2. CASE m # n
    <3>1. ~Linked(m)
      BY <1>7, <1>11, <2>2 DEF Linked, q
    <3>2. m \in ListPtr /\ m # r[k - 1] /\ m # r[k + 1]
      BY <1>12, <3>1, ListAssumption DEF Linked, OnRing, ListPtr, q
    <3>3. next'[m] = next[m] /\ prev'[m] = prev[m]
      BY <1>6, <2>2, <3>2 DEF ListInv, ListTypeOK
    <3> QED BY <3>1, <3>3 DEF ListInv, Loose
  <2> QED BY <2>1, <2>2
<1> QED BY <1>15, <1>16, <1>17, <1>18 DEF ListInv

LEMMA NodeInitInv ==
  ASSUME ListInv, NEW n \in Node, NodeInit(n)
  PROVE  ListInv'
<1>1. /\ ~Linked(n) /\ n \in ListPtr /\ n \notin Anchor /\ members' = members
      /\ next' = [next EXCEPT ![n] = n] /\ prev' = [prev EXCEPT ![n] = n]
  BY ListAssumption DEF NodeInit, ListPtr
<1>2. ListTypeOK' /\ Members'
  BY <1>1 DEF ListInv, ListTypeOK, Members
<1>3. Rings'
  <2> SUFFICES ASSUME NEW g \in Anchor
               PROVE  Joined(Ring(members'[g], g), Len(members'[g]), next', prev')
    BY DEF Rings
  <2>1. ASSUME NEW p \in ListPtr, OnRing(g, p) PROVE next'[p] = next[p] /\ prev'[p] = prev[p]
    BY <1>1, <2>1 DEF OnRing, Linked, ListInv, ListTypeOK
  <2> QED BY <1>1, <2>1, OtherRing
<1>4. Loose'
  BY <1>1 DEF ListInv, ListTypeOK, Loose, Linked, ListPtr
<1> QED BY <1>2, <1>3, <1>4 DEF ListInv

LEMMA ListInitInv == ListInit => ListInv
<1> SUFFICES ASSUME ListInit PROVE ListInv
  OBVIOUS
<1> USE ListAssumption DEF ListInit
<1>1. <<>> \in Seq(Node) /\ Len(<<>>) = 0 /\ DOMAIN <<>> = {}
  OBVIOUS
<1>2. ListTypeOK
  BY <1>1 DEF ListTypeOK, ListPtr
<1>3. Members /\ \A n \in Node : ~Linked(n)
  BY <1>1 DEF Members, Distinct, Has, Linked
<1>4. Rings
  <2> SUFFICES ASSUME NEW h \in Anchor, NEW i \in 0 .. 0
               PROVE  LET r == Ring(<<>>, h) IN next[r[i]] = r[i + 1] /\ prev[r[i + 1]] = r[i]
    BY <1>1 DEF Rings, Joined
  <2>1. Ring(<<>>, h)[0] = h /\ Ring(<<>>, h)[1] = h
    BY <1>1 DEF Ring
  <2>2. next[h] = h /\ prev[h] = h /\ i = 0 /\ i + 1 = 1
    BY DEF ListPtr
  <2> QED BY <2>1, <2>2
<1>5. Loose
  BY DEF Loose, ListPtr
<1> QED BY <1>2, <1>3, <1>4, <1>5 DEF ListInv

LEMMA ListStepInv == ListInv /\ [ListNext]_listVars => ListInv'
<1> SUFFICES ASSUME ListInv, [ListNext]_listVars PROVE ListInv'
  OBVIOUS
<1>1. CASE UNCHANGED listVars
  BY <1>1 DEF listVars, ListInv, ListTypeOK, Members, Rings, Loose, Linked
<1>2. CASE ListNext
  <2> SUFFICES ASSUME NEW n \in Node,
                      \/ NodeInit(n)
                      \/ \E h \in Anchor :
                           \/ ListDel(n, h) \/ ListDelInit(n, h)
                           \/ \E p \in ListPtr \ {n} : ListAdd(n, h, p) \/ ListAddTail(n, h, p)
               PROVE  ListInv'
    BY <1>2 DEF ListNext
  <2>1. CASE NodeInit(n)
    BY <2>1, NodeInitInv
  <2>2. ASSUME NEW h \in Anchor, ListDel(n, h) \/ ListDelInit(n, h) PROVE ListInv'
    BY <2>2, ListRemoveInv DEF ListDel, ListDelInit
  <2>3. ASSUME NEW h \in Anchor, NEW p \in ListPtr \ {n}, ListAdd(n, h, p) \/ ListAddTail(n, h, p)
        PROVE  ListInv'
    BY <2>3, ListAddInv, ListAddTailInv
  <2> QED BY <2>1, <2>2, <2>3
<1> QED BY <1>1, <1>2

(* Whatever is added to and deleted from any number of lists, the pointers *)
(* of list.c are the sequences that Executor, Reactor and IoDriver take    *)
(* them for (list.c:45-49).                                                *)
THEOREM PointersMatchTheorem == ListSpec => []PointersMatch
<1>1. ListInv => PointersMatch
  <2> SUFFICES ASSUME ListInv PROVE PointersMatch
    OBVIOUS
  <2>1. ASSUME NEW h \in Anchor, NEW i \in 0 .. Len(members[h])
        PROVE  LET q == members[h]
                   ring(j) == IF j \in DOMAIN q THEN q[j] ELSE h
               IN  next[ring(i)] = ring(i + 1) /\ prev[ring(i + 1)] = ring(i)
    <3> DEFINE q == members[h]
               r == Ring(q, h)
    <3>1. Len(q) \in Nat /\ Joined(r, Len(q), next, prev)
      BY JoinedHere
    <3>2. r[i] = (IF i \in DOMAIN q THEN q[i] ELSE h)
          /\ r[i + 1] = (IF i + 1 \in DOMAIN q THEN q[i + 1] ELSE h)
      BY <3>1 DEF Ring
    <3>3. next[r[i]] = r[i + 1] /\ prev[r[i + 1]] = r[i]
      BY <3>1 DEF Joined
    <3> HIDE DEF r
    <3> QED BY <3>2, <3>3
  <2> QED BY <2>1 DEF PointersMatch, ListInv, Loose
<1> QED BY <1>1, ListInitInv, ListStepInv, PTL DEF ListSpec

-----------------------------------------------------------------------------
(* vec.c and string.c.  Products and remainders first.                     *)
LEMMA MulNat ==
  ASSUME NEW a \in Nat, NEW b \in Nat
  PROVE  a * b \in Nat
OBVIOUS

LEMMA MulMono ==
  ASSUME NEW a \in Nat, NEW b \in Nat, NEW c \in Nat, a <= b
  PROVE  a * c <= b * c
OBVIOUS

LEMMA ModUnique ==
  ASSUME NEW a \in Nat \ {0}, NEW k \in Nat, NEW r \in 0 .. a - 1
  PROVE  (a * k + r) % a = r
OBVIOUS

LEMMA Multiple ==
  ASSUME NEW a \in Nat \ {0}, NEW m \in Nat, m % a = 0
  PROVE  \E k \in Nat : m = a * k
<1>1. m = a * (m \div a)
  OBVIOUS
<1>2. m \div a \in Nat
  OBVIOUS
<1> QED BY <1>1, <1>2

LEMMA RoundUpExact ==
  ASSUME VecAssumption, NEW a \in 1 .. MaxUsize, (MaxUsize + 1) % a = 0,
         NEW n \in 0 .. MaxUsize, NEW e \in Nat, NEW c \in Nat, e % a = 0, n = c * e
  PROVE  RoundUp(n, a) = n
<1> USE DEF VecAssumption
<1>0. a \in Nat \ {0}
  OBVIOUS
<1>1. PICK p \in Nat : MaxUsize + 1 = a * p
  <2>1. MaxUsize + 1 \in Nat
    OBVIOUS
  <2> QED BY <1>0, <2>1, Multiple
<1>2. PICK q \in Nat : e = a * q
  BY <1>0, Multiple
<1>3. PICK r \in Nat : n = a * r
  <2>1. n = a * (c * q)
    BY <1>2
  <2> QED BY <2>1, MulNat
<1>4. n + a - 1 <= MaxUsize
  <2>1. a * r < a * p
    BY <1>1, <1>3
  <2>2. r < p
    BY <2>1
  <2>3. a * (r + 1) <= a * p
    BY <2>2
  <2>4. a * (r + 1) = a * r + a
    OBVIOUS
  <2> QED BY <1>1, <1>3, <2>3, <2>4
<1>5. (n + a - 1) % (MaxUsize + 1) = n + a - 1
  BY <1>4, NoWrap
<1>6. (n + a - 1) % a = a - 1
  <2>1. a - 1 \in 0 .. a - 1 /\ n + a - 1 = a * r + (a - 1)
    BY <1>0, <1>3
  <2> QED BY <1>0, <2>1, ModUnique
<1> QED BY <1>5, <1>6 DEF RoundUp

-----------------------------------------------------------------------------
(* Vecs and strings: the sequence, the capacity and the block agree.       *)
VecTypeOK ==
  /\ esize \in 0 .. MaxUsize /\ align \in 1 .. MaxUsize
  /\ (MaxUsize + 1) % align = 0 /\ esize % align = 0
  /\ seq \in Seq(Elem \cup {NULL})
  /\ vecCap \in 0 .. MaxUsize /\ touched \in Nat

(* A block b that holds c elements of the type in use.                     *)
Fits(b, c) ==
  /\ b # NoBlock => /\ b.size = c * esize /\ b.align = align /\ b.bytes >= c * esize
                    /\ esize # 0
  /\ b = NoBlock => c * esize = 0

VecInv == VecTypeOK /\ Len(seq) <= vecCap /\ touched <= vecCap /\ Fits(block, vecCap)

LEMMA NextCapLemma ==
  ASSUME VecAssumption, NEW c, NEW need \in 0 .. MaxUsize
  PROVE  NextCap(c, need) \in need .. MaxUsize
<1> DEFINE first == IF c < FirstCap THEN FirstCap ELSE c
           fit   == {x \in need .. MaxUsize : \E k \in 0 .. Bits : x = first * 2 ^ k}
<1>1. NextCap(c, need) = IF fit = {} THEN need ELSE CHOOSE x \in fit : \A y \in fit : x <= y
  BY DEF NextCap
<1>2. fit \in SUBSET (need .. MaxUsize) /\ fit \in SUBSET Nat /\ MaxUsize \in Nat
  BY DEF VecAssumption
<1> HIDE DEF fit
<1>3. CASE fit = {}
  BY <1>1, <1>2, <1>3
<1>4. CASE fit # {}
  <2>1. \E x \in fit : \A y \in fit : x <= y
    BY <1>2, <1>4, LeastNumber
  <2> QED BY <1>1, <1>2, <1>4, <2>1
<1> QED BY <1>3, <1>4

(* A fresh block has what was asked for, also when its size was rounded.   *)
LEMMA SysAllocateLemma ==
  ASSUME VecAssumption, VecInv, NEW c \in Nat, NEW n \in CheckedMul(c, esize),
         NEW b \in SysAllocate(n, align), b # NoBlock
  PROVE  n = c * esize /\ n # 0 /\ b.size = n /\ Fits(b, c)
<1>1. n = c * esize /\ n \in 0 .. MaxUsize
  BY DEF CheckedMul
<1>2. n # 0 /\ b = Block(n, align)
  BY DEF SysAllocate
<1>3. RoundUp(n, align) = n
  <2>1. /\ align \in 1 .. MaxUsize /\ (MaxUsize + 1) % align = 0
        /\ esize \in Nat /\ esize % align = 0
    BY DEF VecInv, VecTypeOK, VecAssumption
  <2> QED BY <1>1, <2>1, RoundUpExact
<1>4. b.size = n /\ b.align = align /\ b.bytes = n
  BY <1>2, <1>3 DEF Block
<1>5. esize # 0
  BY <1>1, <1>2
<1> QED BY <1>1, <1>2, <1>4, <1>5 DEF Fits

(* Growth copies all the elements.                                         *)
LEMMA MovedLemma ==
  ASSUME VecAssumption, VecInv, NEW c \in Nat, vecCap <= c, NEW n, n = c * esize
  PROVE  Moved(n) = seq
<1>1. /\ seq \in Seq(Elem \cup {NULL}) /\ Len(seq) \in Nat /\ DOMAIN seq = 1 .. Len(seq)
      /\ Len(seq) <= vecCap /\ vecCap \in Nat /\ esize \in Nat
  BY DEF VecInv, VecTypeOK, VecAssumption
<1>2. ASSUME NEW i \in DOMAIN seq PROVE i * esize <= Copied(vecCap * esize, n)
  <2>1. i \in Nat /\ i <= vecCap
    BY <1>1
  <2>2. i * esize <= vecCap * esize /\ vecCap * esize <= c * esize
    BY <1>1, <2>1, MulMono
  <2>3. i * esize \in Nat /\ vecCap * esize \in Nat /\ c * esize \in Nat
    BY <1>1, <2>1, MulNat
  <2> QED BY <2>2, <2>3 DEF Copied
<1>3. Moved(n) = [i \in DOMAIN seq |-> seq[i]]
  BY <1>2 DEF Moved
<1>4. seq = [i \in DOMAIN seq |-> seq[i]]
  BY <1>1
<1> QED BY <1>3, <1>4

(* What every call that may grow the storage rests on.                     *)
LEMMA ReserveLemma ==
  ASSUME VecAssumption, VecInv, NEW extra \in Nat, NEW r \in Reserve(extra)
  PROVE  /\ r.seq = seq /\ r.ok \in BOOLEAN
         /\ r.cap \in 0 .. MaxUsize /\ Len(seq) <= r.cap /\ Fits(r.block, r.cap)
         /\ r.ok => Len(seq) + extra <= r.cap
<1> DEFINE newCap == NextCap(vecCap, Len(seq) + extra)
<1>1. /\ Len(seq) \in Nat /\ Len(seq) <= vecCap /\ vecCap \in 0 .. MaxUsize /\ MaxUsize \in Nat
      /\ esize \in Nat
  BY DEF VecInv, VecTypeOK, VecAssumption
<1>2. Unchanged.seq = seq /\ Unchanged.ok = TRUE /\ Unchanged.cap = vecCap /\ Unchanged.block = block
  BY DEF Unchanged
<1>3. Failed.seq = seq /\ Failed.ok = FALSE /\ Failed.cap = vecCap /\ Failed.block = block
  BY DEF Failed, Unchanged
<1>4. CASE vecCap - Len(seq) >= extra
  <2>1. r = Unchanged
    BY <1>1, <1>4 DEF Reserve
  <2>2. Len(seq) + extra <= vecCap
    BY <1>1, <1>4
  <2>3. r.seq = seq /\ r.ok = TRUE /\ r.cap = vecCap /\ r.block = block
    BY <1>2, <2>1
  <2> QED BY <1>1, <2>2, <2>3 DEF VecInv
<1>5. CASE r = Failed
  BY <1>1, <1>3, <1>5 DEF VecInv
<1>6. CASE vecCap - Len(seq) < extra /\ r # Failed
  <2>1. extra <= MaxUsize - Len(seq)
    BY <1>1, <1>6 DEF Reserve
  <2>2. newCap \in (Len(seq) + extra) .. MaxUsize
    BY <1>1, <2>1, NextCapLemma
  <2>3. newCap \in Nat /\ vecCap <= newCap /\ Len(seq) + extra <= newCap /\ newCap \in 0 .. MaxUsize
        /\ Len(seq) <= newCap
    BY <1>1, <1>6, <2>2
  <2>4. CASE esize = 0
    <3>1. r = [Unchanged EXCEPT !.cap = newCap]
      BY <1>1, <1>6, <2>1, <2>4 DEF Reserve
    <3>2. r.seq = seq /\ r.ok = TRUE /\ r.cap = newCap /\ r.block = block
      BY <3>1 DEF Unchanged
    <3>3. Fits(block, newCap)
      BY <2>3, <2>4 DEF VecInv, Fits
    <3> QED BY <2>3, <3>2, <3>3
  <2>5. CASE esize # 0
    <3> DEFINE grown == {[ok |-> TRUE, block |-> b, cap |-> newCap, seq |-> Moved(b.size)] :
                            b \in (UNION {SysAllocate(n, align) : n \in CheckedMul(newCap, esize)})
                                   \ {NoBlock}}
    <3>1. ~(vecCap - Len(seq) >= extra) /\ ~(extra > MaxUsize - Len(seq))
      BY <1>1, <1>6, <2>1
    <3>2. r \in grown
      BY <1>6, <2>5, <3>1 DEF Reserve
    <3>3. PICK b \in (UNION {SysAllocate(n, align) : n \in CheckedMul(newCap, esize)}) \ {NoBlock} :
            r = [ok |-> TRUE, block |-> b, cap |-> newCap, seq |-> Moved(b.size)]
      BY <3>2
    <3>4. PICK n \in CheckedMul(newCap, esize) : b \in SysAllocate(n, align)
      BY <3>3
    <3>5. n = newCap * esize /\ b.size = n /\ Fits(b, newCap)
      <4>1. b # NoBlock /\ newCap \in Nat
        BY <2>3, <3>3
      <4> QED BY ONLY VecAssumption, VecInv, <3>4, <4>1, SysAllocateLemma
    <3>6. Moved(b.size) = seq
      BY <2>3, <3>5, MovedLemma
    <3> QED BY <2>3, <3>3, <3>5, <3>6
  <2> QED BY <2>4, <2>5
<1> QED BY <1>1, <1>4, <1>5, <1>6

LEMMA SameType ==
  ASSUME type' = type
  PROVE  esize' = esize /\ align' = align /\ NoBlock' = NoBlock
BY DEF esize, align, NoBlock

LEMMA GrowInv ==
  ASSUME VecAssumption, VecInv, NEW s \in Seq(Elem \cup {NULL}), NEW extra \in Nat,
         Len(s) <= extra, ReserveAndWrite(extra, s)
  PROVE  /\ VecInv' /\ got' = NULL
         /\ (ok' = TRUE /\ seq' = seq \o s) \/ (ok' = FALSE /\ seq' = seq)
<1>1. PICK r \in Reserve(extra) :
        /\ block' = r.block /\ vecCap' = r.cap /\ ok' = r.ok
        /\ seq' = IF r.ok THEN r.seq \o s ELSE r.seq
        /\ touched' = IF r.ok THEN Len(seq) + Len(s) ELSE 0
  BY DEF ReserveAndWrite
<1>2. /\ r.seq = seq /\ r.ok \in BOOLEAN
      /\ r.cap \in 0 .. MaxUsize /\ Len(seq) <= r.cap /\ Fits(r.block, r.cap)
      /\ r.ok => Len(seq) + extra <= r.cap
  BY ReserveLemma
<1>3. seq \in Seq(Elem \cup {NULL}) /\ Len(seq) \in Nat /\ Len(s) \in Nat
  BY DEF VecInv, VecTypeOK
<1>4a. r.ok => Len(seq) + Len(s) <= r.cap
  <2>1. r.cap \in Nat
    BY <1>2 DEF VecAssumption
  <2> QED BY <1>2, <1>3, <2>1
<1>4. seq \o s \in Seq(Elem \cup {NULL}) /\ Len(seq \o s) = Len(seq) + Len(s)
  BY <1>3, ConcatProperties
<1>5. PICK q \in Seq(Elem \cup {NULL}), c \in 0 .. MaxUsize :
        seq' = q /\ vecCap' = c /\ Len(q) <= c
  BY <1>1, <1>2, <1>3, <1>4, <1>4a
<1>6. PICK m \in Nat : touched' = m /\ m <= vecCap'
  BY <1>1, <1>2, <1>3, <1>4a
<1>7. type' = type /\ kind' = kind /\ got' = NULL
  BY DEF ReserveAndWrite
<1>8. Fits(block, vecCap)'
  BY <1>1, <1>2, <1>7, SameType DEF Fits
<1>9. VecInv'
  BY <1>5, <1>6, <1>7, <1>8, SameType DEF VecInv, VecTypeOK
<1>10. CASE r.ok = TRUE
  <2>1. ok' = TRUE /\ seq' = seq \o s
    BY <1>1, <1>2, <1>10
  <2> QED BY <1>7, <1>9, <2>1
<1>11. CASE r.ok = FALSE
  <2>1. ok' = FALSE /\ seq' = seq
    BY <1>1, <1>2, <1>11
  <2> QED BY <1>7, <1>9, <2>1
<1> QED BY <1>2, <1>10, <1>11

LEMMA StringAsCstrInv ==
  ASSUME VecAssumption, VecInv, StringAsCstr
  PROVE  VecInv' /\ seq' = seq /\ ok' \in BOOLEAN /\ got' \in {NULL, seq}
<1>1. PICK r \in Reserve(1) :
        /\ block' = r.block /\ vecCap' = r.cap /\ ok' = r.ok /\ seq' = r.seq
        /\ touched' = IF r.ok THEN Len(seq) + 1 ELSE 0
        /\ got' = IF r.ok THEN r.seq ELSE NULL
  BY DEF StringAsCstr
<1>2. /\ r.seq = seq /\ r.ok \in BOOLEAN
      /\ r.cap \in 0 .. MaxUsize /\ Len(seq) <= r.cap /\ Fits(r.block, r.cap)
      /\ r.ok => Len(seq) + 1 <= r.cap
  BY ReserveLemma
<1>3. seq \in Seq(Elem \cup {NULL}) /\ Len(seq) \in Nat
  BY DEF VecInv, VecTypeOK
<1>4. PICK c \in 0 .. MaxUsize : vecCap' = c /\ Len(seq) <= c
  BY <1>1, <1>2
<1>5. PICK m \in Nat : touched' = m /\ m <= vecCap'
  BY <1>1, <1>2, <1>3
<1>6. type' = type
  BY DEF StringAsCstr
<1>7. Fits(block, vecCap)'
  BY <1>1, <1>2, <1>6, SameType DEF Fits
<1>8. VecInv'
  BY <1>1, <1>2, <1>3, <1>4, <1>5, <1>6, <1>7, SameType DEF VecInv, VecTypeOK
<1> QED BY <1>1, <1>2, <1>8

(* The calls that leave the storage alone, or give it back.                *)
LEMMA KeepStorage ==
  ASSUME VecAssumption, VecInv, UNCHANGED <<kind, type, block, vecCap>>, touched' = 0,
         seq' \in Seq(Elem \cup {NULL}), Len(seq') <= Len(seq)
  PROVE  VecInv'
<1>1. PICK q \in Seq(Elem \cup {NULL}) : seq' = q /\ Len(q) <= Len(seq)
  OBVIOUS
<1>2. Len(q) \in Nat /\ Len(seq) \in Nat /\ Len(seq) <= vecCap /\ vecCap \in Nat
  BY DEF VecInv, VecTypeOK, VecAssumption
<1>3. Len(q) <= vecCap
  BY <1>1, <1>2
<1>4. Fits(block, vecCap)'
  BY SameType DEF VecInv, Fits
<1> QED BY <1>1, <1>2, <1>3, <1>4, SameType DEF VecInv, VecTypeOK

LEMMA VecPopInv ==
  ASSUME VecAssumption, VecInv, VecPop
  PROVE  VecInv' /\ Contract!Pop
<1>1. seq \in Seq(Elem \cup {NULL}) /\ Len(seq) \in Nat
  BY DEF VecInv, VecTypeOK
<1>2. CASE seq = <<>>
  <2>1. SubSeq(seq, 1, Len(seq) - 1) = <<>>
    BY <1>1, <1>2
  <2>2. seq' = seq
    BY <1>2, <2>1 DEF VecPop
  <2> QED BY <1>1, <1>2, <2>2, KeepStorage DEF VecPop, Contract!Pop
<1>3. CASE seq # <<>>
  <2>1. Len(seq) - 1 \in 0 .. Len(seq)
    BY <1>1, <1>3
  <2>2. SubSeq(seq, 1, Len(seq) - 1) \in Seq(Elem \cup {NULL})
        /\ Len(SubSeq(seq, 1, Len(seq) - 1)) = Len(seq) - 1
    <3>1. \A i \in 1 .. Len(seq) - 1 : seq[i] \in Elem \cup {NULL}
      BY <1>1
    <3>2. 1 \in Int /\ Len(seq) - 1 \in Int
      BY <1>1
    <3>3. Len(SubSeq(seq, 1, Len(seq) - 1)) = IF 1 <= Len(seq) - 1 THEN (Len(seq) - 1) - 1 + 1 ELSE 0
      BY ONLY <1>1, <3>1, <3>2, SubSeqProperties
    <3>4. SubSeq(seq, 1, Len(seq) - 1) \in Seq(Elem \cup {NULL})
      BY ONLY <1>1, <3>1, <3>2, SubSeqProperties
    <3>5. CASE Len(seq) = 1
      BY <3>3, <3>4, <3>5
    <3>6. CASE 1 <= Len(seq) - 1
      BY <1>1, <3>3, <3>4, <3>6
    <3>7. PICK n \in Nat : Len(seq) = n
      BY <1>1
    <3>8. n = 1 \/ 1 <= n - 1
      <4>1. n - 1 \in 0 .. n
        BY <2>1, <3>7
      <4> QED BY <4>1
    <3> QED BY <3>5, <3>6, <3>7, <3>8
  <2>3. VecInv'
    BY <1>1, <2>2, KeepStorage DEF VecPop
  <2> QED BY <1>3, <2>3 DEF VecPop, Contract!Pop
<1> QED BY <1>2, <1>3

LEMMA VecClearInv ==
  ASSUME VecAssumption, VecInv, ClearElements
  PROVE  VecInv' /\ Contract!Emptied
<1>1. <<>> \in Seq(Elem \cup {NULL}) /\ Len(<<>>) = 0 /\ Len(seq) \in Nat
  BY DEF VecInv, VecTypeOK
<1> QED BY <1>1, KeepStorage DEF ClearElements, Contract!Emptied

LEMMA VecFreeInv ==
  ASSUME VecAssumption, VecInv, FreeBlock
  PROVE  VecInv' /\ (Contract!Emptied \/ Contract!Keep)
<1>1. /\ seq \in Seq(Elem \cup {NULL}) /\ Len(seq) \in Nat
      /\ <<>> \in Seq(Elem \cup {NULL}) /\ Len(<<>>) = 0
  BY DEF VecInv, VecTypeOK
<1>2. CASE block = NoBlock
  BY <1>1, <1>2, KeepStorage DEF FreeBlock, Contract!Keep
<1>3. CASE block # NoBlock
  <2>1. /\ block' = NoBlock /\ vecCap' = 0 /\ seq' = <<>> /\ type' = type
        /\ touched' = 0 /\ got' = NULL /\ ok' = TRUE
    BY <1>3 DEF FreeBlock
  <2>2. 0 * esize = 0 /\ 0 \in 0 .. MaxUsize
    BY DEF VecInv, VecTypeOK, VecAssumption
  <2>3. VecInv'
    BY <1>1, <2>1, <2>2, SameType DEF VecInv, VecTypeOK, Fits
  <2> QED BY <2>1, <2>3 DEF Contract!Emptied
<1> QED BY <1>2, <1>3

LEMMA VecGetInv ==
  ASSUME VecAssumption, VecInv, NEW i \in 1 .. Len(seq) + 1, VecGet(i)
  PROVE  VecInv' /\ Contract!Get
<1>1. seq \in Seq(Elem \cup {NULL}) /\ Len(seq) \in Nat
  BY DEF VecInv, VecTypeOK
<1>2. VecInv'
  BY <1>1, KeepStorage DEF VecGet
<1>3. Contract!Get
  BY DEF VecGet, Contract!Get
<1> QED BY <1>2, <1>3

(* Up to two elements, or none, at the end.                                *)
LEMMA AppendStep ==
  ASSUME NEW n \in 0 .. 2, NEW s \in [1 .. n -> Elem \cup {NULL}], got' = NULL,
         seq \in Seq(Elem \cup {NULL}),
         (ok' = TRUE /\ seq' = seq \o s) \/ (ok' = FALSE /\ seq' = seq)
  PROVE  Contract!Push \/ Contract!Keep
<1>1. CASE n = 0
  <2>1. s = <<>>
    BY <1>1
  <2>2. seq' = seq
    BY <2>1
  <2> QED BY <2>2 DEF Contract!Keep
<1>2. CASE n \in 1 .. 2
  BY <1>2 DEF Contract!Push, Contract!Append_
<1> QED BY <1>1, <1>2


(* A call that appends what it was given.                                  *)
LEMMA PushInv ==
  ASSUME VecAssumption, VecInv, NEW n \in 0 .. 2, NEW s \in [1 .. n -> Elem \cup {NULL}],
         NEW extra \in Nat, n <= extra, ReserveAndWrite(extra, s)
  PROVE  VecInv' /\ (Contract!Push \/ Contract!Keep)
<1>1. s \in Seq(Elem \cup {NULL}) /\ Len(s) = n
  OBVIOUS
<1>2. seq \in Seq(Elem \cup {NULL})
  BY DEF VecInv, VecTypeOK
<1>3. /\ VecInv' /\ got' = NULL
      /\ (ok' = TRUE /\ seq' = seq \o s) \/ (ok' = FALSE /\ seq' = seq)
  BY <1>1, GrowInv
<1> QED BY <1>2, <1>3, AppendStep

LEMMA VecInitInv == VecInit => VecInv /\ Contract!Init
<1> SUFFICES ASSUME VecInit PROVE VecInv /\ Contract!Init
  OBVIOUS
<1> USE VecAssumption DEF VecAssumption
<1>1. esize \in 0 .. MaxUsize /\ align \in 1 .. MaxUsize /\ (MaxUsize + 1) % align = 0
      /\ esize % align = 0
  <2>1. CASE kind = "vec"
    BY <2>1 DEF VecInit, esize, align
  <2>2. CASE kind # "vec"
    <3>1. esize = 1 /\ align = 1
      BY <2>2 DEF VecInit, esize, align
    <3>2. (MaxUsize + 1) % 1 = 0 /\ 1 % 1 = 0
      OBVIOUS
    <3> QED BY <3>1, <3>2
  <2> QED BY <2>1, <2>2
<1>2. <<>> \in Seq(Elem \cup {NULL}) /\ Len(<<>>) = 0
  OBVIOUS
<1>3. 0 * esize = 0
  BY <1>1
<1> QED BY <1>1, <1>2, <1>3 DEF VecInit, VecInv, VecTypeOK, Fits, Contract!Init

(* Every call keeps the invariant, and is a step of the contract.          *)
ContractStep == Contract!Push \/ Contract!Pop \/ Contract!Get \/ Contract!Keep \/ Contract!Emptied

LEMMA VecStepInv ==
  ASSUME VecAssumption, VecInv, [VecNext]_vecVars
  PROVE  VecInv' /\ (ContractStep \/ UNCHANGED <<seq, got, ok>>)
<1> DEFINE Goal == VecInv' /\ (ContractStep \/ UNCHANGED <<seq, got, ok>>)
<1>1. ASSUME NEW n \in 0 .. MaxUsize, ReserveAndWrite(n, <<>>) PROVE Goal
  <2>1. 0 \in 0 .. 2 /\ <<>> \in [1 .. 0 -> Elem \cup {NULL}] /\ n \in Nat /\ 0 <= n
    OBVIOUS
  <2> QED BY <1>1, <2>1, PushInv DEF ContractStep
<1>2. ASSUME NEW v \in Elem, VecPush(v) \/ StringPushByte(v) PROVE Goal
  <2>1. PICK w \in Elem \cup {NULL} : ReserveAndWrite(1, <<w>>)
    BY <1>2 DEF VecPush, StringPushByte
  <2>2. 1 \in 0 .. 2 /\ <<w>> \in [1 .. 1 -> Elem \cup {NULL}] /\ 1 \in Nat /\ 1 <= 1
    OBVIOUS
  <2> QED BY <2>1, <2>2, PushInv DEF ContractStep
<1>3. ASSUME NEW n \in 0 .. 2, NEW s \in [1 .. n -> Elem], StringPushStr(s) PROVE Goal
  <2>1. s \in [1 .. n -> Elem \cup {NULL}] /\ Len(s) = n /\ n \in Nat /\ n <= n
    OBVIOUS
  <2>2. ReserveAndWrite(n, s)
    BY <1>3, <2>1 DEF StringPushStr
  <2> QED BY <2>1, <2>2, PushInv DEF ContractStep
<1>4. ASSUME NEW i \in 1 .. Len(seq) + 1, VecGet(i) PROVE Goal
  BY <1>4, VecGetInv DEF ContractStep
<1>5. CASE VecPop
  BY <1>5, VecPopInv DEF ContractStep
<1>6. CASE VecClear \/ StringClear
  BY <1>6, VecClearInv DEF VecClear, StringClear, ContractStep
<1>7. CASE VecFree \/ StringFree
  BY <1>7, VecFreeInv DEF VecFree, StringFree, ContractStep
<1>8. CASE StringAsCstr
  BY <1>8, StringAsCstrInv DEF Contract!Keep, ContractStep
<1>9. CASE UNCHANGED vecVars
  <2>1. UNCHANGED <<kind, type, block, vecCap, seq, got, ok, touched>>
    BY <1>9 DEF vecVars
  <2> QED BY <2>1, SameType DEF VecInv, VecTypeOK, Fits
<1> QED
  <2>1. CASE VecNext
    BY <1>1, <1>2, <1>3, <1>4, <1>5, <1>6, <1>7, <1>8, <2>1 DEF VecNext, VecReserve, StringReserve
  <2> QED BY <1>9, <2>1

(* The block holds what its bookkeeping says, for every width of usize and *)
(* every element type (vec.c:35-43, string.c:70-75, alloc.c:21-29).        *)
THEOREM StorageSoundTheorem == VecSpec => []StorageSound
<1>1. VecInv /\ [VecNext]_vecVars => VecInv'
  BY VecAssumption, VecStepInv
<1>2. VecInv => StorageSound
  BY VecAssumption DEF VecInv, VecTypeOK, Fits, StorageSound, VecAssumption
<1> QED BY VecInitInv, <1>1, <1>2, PTL DEF VecSpec

(* Vec and string are sequences: growth, also when it fails, leaves the    *)
(* elements as they were, and a call changes them as its name says         *)
(* (vec.c:27-48, string.c:62-80).                                          *)
THEOREM ImplementsSequenceTheorem == VecSpec => ImplementsSequence
<1>1. VecInv /\ [VecNext]_vecVars => VecInv' /\ [ContractStep]_<<seq, got, ok>>
  BY VecAssumption, VecStepInv
<1>2. Contract!Spec <=> Contract!Init /\ [][ContractStep]_<<seq, got, ok>>
  BY DEF Contract!Spec, ContractStep
<1>3. VecSpec => Contract!Init /\ [][ContractStep]_<<seq, got, ok>>
  BY VecInitInv, <1>1, PTL DEF VecSpec
<1> QED BY <1>2, <1>3 DEF ImplementsSequence
-----------------------------------------------------------------------------
(* The hash map.  A table T of n slots is in order (TableOK) when no key   *)
(* is stored twice and no EMPTY slot lies between the home of a stored key *)
(* and its slot.                                                           *)
USE HashMapAssumption

Offset(T, n, j, o) ==
  /\ o \in 0 .. n-1
  /\ Probe(T[j][1], n, o) = j
  /\ \A p \in 0 .. o-1 : T[Probe(T[j][1], n, p)] # Empty

TableOK(T, n) ==
  /\ \A a, b \in Full(T) : T[a][1] = T[b][1] => a = b
  /\ \A j \in Full(T) : \E o \in 0 .. n-1 : Offset(T, n, j, o)

HasEmpty(T, n) == \E j \in 0 .. n-1 : T[j] = Empty

(* Every probe stays inside the table, and reaches every slot of it.       *)
LEMMA ProbeRange ==
  ASSUME NEW n \in Nat, n > 0, NEW k \in Key
  PROVE  /\ \A o \in 0 .. n-1 : Probe(k, n, o) \in 0 .. n-1
         /\ \A j \in 0 .. n-1 : \E o \in 0 .. n-1 : Probe(k, n, o) = j
<1> DEFINE h == Hash[k] % n
<1>1. h \in 0 .. n-1
  <2>1. Hash[k] \in Nat
    OBVIOUS
  <2>2. PICK m \in Nat : n = m + 1
    <3>1. n - 1 \in Nat /\ n = (n - 1) + 1
      OBVIOUS
    <3> QED BY <3>1
  <2>3. Hash[k] % (m + 1) \in 0 .. m
    BY <2>1, Remainder
  <2> QED BY <2>2, <2>3
<1> HIDE DEF h
<1>2. \A o \in 0 .. n-1 : Probe(k, n, o) = IF h + o < n THEN h + o ELSE h + o - n
  BY DEF Probe, h
<1>3. ASSUME NEW j \in 0 .. n-1
      PROVE  \E o \in 0 .. n-1 : Probe(k, n, o) = j
  <2>1. CASE j >= h
    <3>1. j - h \in 0 .. n-1 /\ Probe(k, n, j - h) = j
      BY <1>1, <1>2, <2>1
    <3> QED BY <3>1
  <2>2. CASE j < h
    <3>1. j - h + n \in 0 .. n-1 /\ Probe(k, n, j - h + n) = j
      BY <1>1, <1>2, <2>2
    <3> QED BY <3>1
  <2> QED BY <1>1, <2>1, <2>2
<1> QED BY <1>1, <1>2, <1>3

(* Min is the least element.                                               *)
LEMMA MinIsLeast ==
  ASSUME NEW S \in SUBSET Nat, S # {}
  PROVE  Min(S) \in S /\ \A x \in S : Min(S) <= x
<1>1. PICK x \in S : \A y \in S : x <= y
  BY LeastNumber
<1> QED BY <1>1 DEF Min

(* Looking a key up.                                                       *)
LEMMA FindLemma ==
  ASSUME NEW n \in Nat, n > 0, NEW T \in Tables(n), TableOK(T, n), HasEmpty(T, n), NEW k \in Key
  PROVE  /\ k \in KeysOf(T) => /\ FindIndex(T, n, k) \in Full(T)
                               /\ T[FindIndex(T, n, k)][1] = k
         /\ k \notin KeysOf(T) => FindIndex(T, n, k) = -1
<1> DEFINE S == Stops(T, n, k)
           m == Min(S)
           j == Probe(k, n, m)
<1>1. DOMAIN T = 0 .. n-1
  BY DEF Tables
<1>2. m \in S /\ \A x \in S : m <= x
  <2>1. PICK e \in 0 .. n-1 : T[e] = Empty
    BY DEF HasEmpty
  <2>2. PICK o \in 0 .. n-1 : Probe(k, n, o) = e
    BY ProbeRange
  <2>3. o \in S /\ S \subseteq Nat
    BY <2>1, <2>2 DEF Stops
  <2> QED BY <2>3, MinIsLeast
<1>3. m \in 0 .. n-1 /\ j \in 0 .. n-1 /\ (T[j] = Empty \/ Holds(T, j, k))
  BY <1>2, ProbeRange DEF Stops
<1>4. FindIndex(T, n, k) = IF T[j] = Empty THEN -1 ELSE j
  BY DEF FindIndex
<1>5. T[j] # Empty => j \in Full(T) /\ T[j][1] = k /\ k \in KeysOf(T)
  BY <1>3 DEF Holds, KeysOf
<1>6. ASSUME k \in KeysOf(T) PROVE T[j] # Empty
  <2>1. PICK a \in Full(T) : T[a][1] = k
    BY <1>6 DEF KeysOf
  <2>2. PICK o \in 0 .. n-1 : Offset(T, n, a, o)
    BY <2>1 DEF TableOK
  <2>3. o \in S
    BY <2>1, <2>2 DEF Offset, Stops, Holds
  <2>4. CASE m = o
    BY <2>1, <2>2, <2>4 DEF Offset, Full
  <2>5. CASE m # o
    <3>1. m \in 0 .. o-1
      BY <1>2, <1>3, <2>3, <2>5
    <3> QED BY <2>1, <2>2, <3>1 DEF Offset
  <2> QED BY <2>4, <2>5
<1> HIDE DEF m, j, S
<1> QED BY <1>4, <1>5, <1>6

(* The slot an insertion takes.                                            *)
LEMMA SlotForLemma ==
  ASSUME NEW n \in Nat, n > 0, NEW T \in Tables(n), HasEmpty(T, n), NEW k \in Key
  PROVE  /\ SlotFor(T, n, k) \in (0 .. n-1) \ Full(T)
         /\ \E o \in 0 .. n-1 : /\ Probe(k, n, o) = SlotFor(T, n, k)
                                /\ \A p \in 0 .. o-1 : Probe(k, n, p) \in Full(T)
<1> DEFINE S == FreeOffsets(T, n, k)
           m == Min(S)
<1>1. m \in S /\ \A x \in S : m <= x
  <2>1. PICK e \in 0 .. n-1 : T[e] = Empty
    BY DEF HasEmpty
  <2>2. PICK o \in 0 .. n-1 : Probe(k, n, o) = e
    BY ProbeRange
  <2>3. o \in S /\ S \subseteq Nat
    BY <2>1, <2>2 DEF FreeOffsets, Full
  <2> QED BY <2>3, MinIsLeast
<1>2. m \in 0 .. n-1 /\ Probe(k, n, m) \in (0 .. n-1) \ Full(T)
  BY <1>1, ProbeRange DEF FreeOffsets
<1>3. \A p \in 0 .. m-1 : Probe(k, n, p) \in Full(T)
  <2> SUFFICES ASSUME NEW p \in 0 .. m-1, Probe(k, n, p) \notin Full(T) PROVE FALSE
    OBVIOUS
  <2>1. p \in S
    BY <1>2 DEF FreeOffsets
  <2> QED BY <1>1, <1>2, <2>1
<1>4. SlotFor(T, n, k) = Probe(k, n, m)
  BY DEF SlotFor
<1> HIDE DEF m, S
<1> QED BY <1>2, <1>3, <1>4

(* Storing a new key where SlotFor says.                                   *)
Inserted(T, U, n, j, k, v) == j = SlotFor(T, n, k) /\ U = [T EXCEPT ![j] = <<k, v>>]

Stored(T, U, j, k, v) ==
  /\ KeysOf(U) = KeysOf(T) \cup {k}
  /\ Full(U) = Full(T) \cup {j}
  /\ U[j] = <<k, v>>
  /\ \A a \in Full(T) : U[a] = T[a]

LEMMA InsertTable ==
  ASSUME NEW n \in Nat, n > 0, NEW T \in Tables(n), TableOK(T, n), HasEmpty(T, n),
         NEW k \in Key, NEW v \in Val, k \notin KeysOf(T), NEW j, NEW U, Inserted(T, U, n, j, k, v)
  PROVE  /\ U \in Tables(n) /\ TableOK(U, n)
         /\ j \in (0 .. n-1) \ Full(T)
         /\ Stored(T, U, j, k, v)
<1>1. PICK o \in 0 .. n-1 : /\ Probe(k, n, o) = j
                            /\ \A p \in 0 .. o-1 : Probe(k, n, p) \in Full(T)
  BY SlotForLemma DEF Inserted
<1>2. j \in (0 .. n-1) \ Full(T)
  BY SlotForLemma DEF Inserted
<1>3. <<k, v>> \in Key \X Val /\ <<k, v>> \notin {Empty, Tombstone}
  OBVIOUS
<1>4. U \in Tables(n)
  BY <1>2, <1>3 DEF Tables, Inserted
<1>5. /\ DOMAIN T = 0 .. n-1 /\ DOMAIN U = 0 .. n-1
      /\ U[j] = <<k, v>> /\ \A a \in 0 .. n-1 : a # j => U[a] = T[a]
  BY <1>2 DEF Tables, Inserted
<1>6. Full(U) = Full(T) \cup {j}
  BY <1>2, <1>3, <1>5 DEF Full
<1>7. \A a \in Full(T) : a \in 0 .. n-1 /\ a # j /\ U[a] = T[a] /\ T[a][1] \in KeysOf(T)
  BY <1>2, <1>5 DEF Full, KeysOf
<1>8. KeysOf(U) = KeysOf(T) \cup {k}
  BY <1>5, <1>6, <1>7 DEF KeysOf
<1>9. \A a, b \in Full(U) : U[a][1] = U[b][1] => a = b
  BY <1>5, <1>6, <1>7 DEF TableOK
<1>10. \A a \in 0 .. n-1 : T[a] # Empty => U[a] # Empty
  BY <1>3, <1>5
<1>11. ASSUME NEW a \in Full(U) PROVE \E x \in 0 .. n-1 : Offset(U, n, a, x)
  <2>1. CASE a = j
    <3>1. \A p \in 0 .. o-1 : U[Probe(k, n, p)] # Empty
      BY <1>1, <1>7, <1>10 DEF Full
    <3> QED BY <1>1, <1>5, <2>1, <3>1 DEF Offset
  <2>2. CASE a # j
    <3>1. a \in Full(T) /\ U[a] = T[a]
      BY <1>6, <1>7, <2>2
    <3>2. PICK x \in 0 .. n-1 : Offset(T, n, a, x)
      BY <3>1 DEF TableOK
    <3>3. T[a][1] \in Key
      BY <3>1 DEF Full, Tables
    <3>. \A p \in 0 .. n-1 : Probe(T[a][1], n, p) \in 0 .. n-1
      BY <3>3, ProbeRange
    <3>4. \A p \in 0 .. x-1 : Probe(T[a][1], n, p) \in 0 .. n-1
      OBVIOUS
    <3>5. Offset(U, n, a, x)
      BY <1>10, <3>1, <3>2, <3>4 DEF Offset
    <3> QED BY <3>5
  <2> QED BY <2>1, <2>2
<1> QED BY <1>2, <1>4, <1>5, <1>6, <1>7, <1>8, <1>9, <1>11 DEF TableOK, Stored

(* Writing another value, or a tombstone, over an entry.                   *)
Written(T, U, j, e) == U = [T EXCEPT ![j] = e]

LEMMA OverwriteTable ==
  ASSUME NEW n \in Nat, NEW T \in Tables(n), TableOK(T, n),
         NEW j \in Full(T), NEW k \in Key, T[j][1] = k, NEW v \in Val,
         NEW U, Written(T, U, j, <<k, v>>)
  PROVE  /\ U \in Tables(n) /\ TableOK(U, n)
         /\ Full(U) = Full(T) /\ KeysOf(U) = KeysOf(T)
         /\ U[j] = <<k, v>> /\ \A a \in Full(T) : a # j => U[a] = T[a]
<1>1. <<k, v>> \in Key \X Val /\ <<k, v>> \notin {Empty, Tombstone}
  OBVIOUS
<1>2. /\ U \in Tables(n) /\ DOMAIN T = 0 .. n-1 /\ DOMAIN U = 0 .. n-1
      /\ U[j] = <<k, v>> /\ \A a \in 0 .. n-1 : a # j => U[a] = T[a]
      /\ j \in 0 .. n-1
  BY <1>1 DEF Tables, Full, Written
<1>3. Full(U) = Full(T)
  BY <1>1, <1>2 DEF Full
<1>4. \A a \in Full(T) : a \in 0 .. n-1 /\ U[a][1] = T[a][1]
  BY <1>2 DEF Full
<1>5. KeysOf(U) = KeysOf(T)
  BY <1>3, <1>4 DEF KeysOf
<1>6. \A a \in 0 .. n-1 : T[a] # Empty => U[a] # Empty
  BY <1>1, <1>2
<1>7. ASSUME NEW a \in Full(U) PROVE \E x \in 0 .. n-1 : Offset(U, n, a, x)
  <2>1. PICK x \in 0 .. n-1 : Offset(T, n, a, x)
    BY <1>3 DEF TableOK
  <2>2. T[a][1] \in Key
    BY <1>3 DEF Full, Tables
  <2>3. n > 0
    BY <1>2
  <2>4. \A p \in 0 .. n-1 : Probe(T[a][1], n, p) \in 0 .. n-1
    BY <2>2, <2>3, ProbeRange
  <2>5. \A p \in 0 .. x-1 : U[Probe(T[a][1], n, p)] # Empty
    BY <1>6, <2>1, <2>4 DEF Offset
  <2>6. Offset(U, n, a, x)
    BY <1>3, <1>4, <2>1, <2>5 DEF Offset
  <2> QED BY <2>6
<1>8. \A a, b \in Full(U) : U[a][1] = U[b][1] => a = b
  BY <1>3, <1>4 DEF TableOK
<1> QED BY <1>2, <1>3, <1>5, <1>7, <1>8 DEF TableOK, Full

LEMMA RemoveTable ==
  ASSUME NEW n \in Nat, NEW T \in Tables(n), TableOK(T, n), NEW j \in Full(T),
         NEW U, Written(T, U, j, Tombstone)
  PROVE  /\ U \in Tables(n) /\ TableOK(U, n)
         /\ j \in 0 .. n-1
         /\ Full(U) = Full(T) \ {j} /\ KeysOf(U) = KeysOf(T) \ {T[j][1]}
         /\ \A a \in 0 .. n-1 : U[a] = IF a = j THEN Tombstone ELSE T[a]
<1>2. /\ U \in Tables(n) /\ DOMAIN T = 0 .. n-1 /\ DOMAIN U = 0 .. n-1
      /\ \A a \in 0 .. n-1 : U[a] = IF a = j THEN Tombstone ELSE T[a]
      /\ j \in 0 .. n-1
  BY DEF Tables, Full, Written
<1>3. Full(U) = Full(T) \ {j}
  BY <1>2 DEF Full
<1>4. \A a \in Full(U) : a \in 0 .. n-1 /\ U[a] = T[a]
  BY <1>2, <1>3 DEF Full
<1>5. KeysOf(U) = KeysOf(T) \ {T[j][1]}
  BY <1>3, <1>4 DEF KeysOf, TableOK
<1>6. \A a \in 0 .. n-1 : T[a] # Empty => U[a] # Empty
  BY <1>2
<1>7. ASSUME NEW a \in Full(U) PROVE \E x \in 0 .. n-1 : Offset(U, n, a, x)
  <2>1. PICK x \in 0 .. n-1 : Offset(T, n, a, x)
    BY <1>3 DEF TableOK
  <2>2. T[a][1] \in Key
    BY <1>3 DEF Full, Tables
  <2>3. n > 0
    BY <1>2
  <2>4. \A p \in 0 .. n-1 : Probe(T[a][1], n, p) \in 0 .. n-1
    BY <2>2, <2>3, ProbeRange
  <2>5. \A p \in 0 .. x-1 : U[Probe(T[a][1], n, p)] # Empty
    BY <1>6, <2>1, <2>4 DEF Offset
  <2>6. Offset(U, n, a, x)
    BY <1>3, <1>4, <2>1, <2>5 DEF Offset
  <2> QED BY <2>6
<1>8. \A a, b \in Full(U) : U[a][1] = U[b][1] => a = b
  BY <1>3, <1>4 DEF TableOK
<1> QED BY <1>2, <1>3, <1>5, <1>7, <1>8 DEF TableOK

LEMMA EmptyTableLemma ==
  ASSUME NEW n \in Nat
  PROVE  /\ EmptyTable(n) \in Tables(n) /\ TableOK(EmptyTable(n), n)
         /\ Full(EmptyTable(n)) = {} /\ KeysOf(EmptyTable(n)) = {}
         /\ \A j \in 0 .. n-1 : EmptyTable(n)[j] = Empty
BY DEF EmptyTable, Tables, TableOK, Full, KeysOf

-----------------------------------------------------------------------------
Dead(T) == {j \in DOMAIN T : T[j] = Tombstone}

LEMMA Finite ==
  ASSUME NEW n \in Nat, NEW T \in Tables(n)
  PROVE  /\ IsFiniteSet(Full(T)) /\ Cardinality(Full(T)) \in Nat
         /\ IsFiniteSet(Dead(T)) /\ Cardinality(Dead(T)) \in Nat
         /\ Full(T) \cap Dead(T) = {} /\ Full(T) \cup Dead(T) \subseteq 0 .. n-1
<1>1. Full(T) \subseteq 0 .. n-1 /\ Dead(T) \subseteq 0 .. n-1 /\ Full(T) \cap Dead(T) = {}
  BY DEF Full, Dead, Tables
<1>2. IsFiniteSet(0 .. n-1)
  BY FS_Interval
<1>3. IsFiniteSet(Full(T)) /\ IsFiniteSet(Dead(T))
  BY <1>1, <1>2, FS_Subset
<1> QED BY <1>1, <1>3, FS_CardinalityType

(* A table with fewer used slots than slots has an EMPTY one.              *)
LEMMA EmptySlotLemma ==
  ASSUME NEW n \in Nat, NEW T \in Tables(n),
         Cardinality(Full(T)) + Cardinality(Dead(T)) < n
  PROVE  HasEmpty(T, n)
<1> SUFFICES ASSUME \A j \in 0 .. n-1 : T[j] # Empty PROVE FALSE
  BY DEF HasEmpty
<1>1. Full(T) \cup Dead(T) = 0 .. n-1
  BY DEF Full, Dead, Tables
<1>2. Cardinality(0 .. n-1) = n
  BY FS_Interval
<1>3. Cardinality(Full(T) \cup Dead(T)) = Cardinality(Full(T)) + Cardinality(Dead(T))
  <2>1. Cardinality(Full(T) \cap Dead(T)) = 0
    BY Finite, FS_EmptySet
  <2>2. Cardinality(Full(T) \cup Dead(T))
          = Cardinality(Full(T)) + Cardinality(Dead(T)) - Cardinality(Full(T) \cap Dead(T))
    BY Finite, FS_Union
  <2> QED BY <2>1, <2>2, Finite
<1>4. Cardinality(Full(T) \cup Dead(T)) = n
  BY <1>1, <1>2
<1> QED BY <1>3, <1>4, Finite


(* The storage of the map between two steps.                               *)
LoadOK == cap # 0 => cap >= 2 /\ (len + tombstones) * 4 <= cap * 3

MovedEntries == {slots[j] : j \in {x \in Full(slots) : x < oldSlot}}

RehashOK ==
  phase # "idle" =>
    /\ freshCap >= 2 /\ (len + 1) * 4 <= freshCap * 3
    /\ op[1] \notin KeysOf(slots)
    /\ Dead(fresh) = {} /\ TableOK(fresh, freshCap)
    /\ Cardinality(Full(fresh)) = Cardinality({x \in Full(slots) : x < oldSlot})
    /\ {fresh[j] : j \in Full(fresh)} = MovedEntries

CountsOK == len = Cardinality(Full(slots)) /\ tombstones = Cardinality(Dead(slots))

Inv == TypeOK /\ CountsOK /\ TableOK(slots, cap) /\ LoadOK /\ RehashOK

(* What the invariant says of the probes.                                  *)
LEMMA InvProbes ==
  ASSUME Inv
  PROVE  /\ cap # 0 => HasEmpty(slots, cap)
         /\ phase # "idle" => HasEmpty(fresh, freshCap)
<1>1. cap \in Nat /\ slots \in Tables(cap) /\ len \in Nat /\ tombstones \in Nat
  BY DEF Inv, TypeOK
<1>2. ASSUME cap # 0 PROVE HasEmpty(slots, cap)
  <2>1. len + tombstones < cap
    BY <1>1, <1>2 DEF Inv, LoadOK
  <2> QED BY <1>1, <2>1, EmptySlotLemma DEF Inv, CountsOK
<1>3. ASSUME phase # "idle" PROVE HasEmpty(fresh, freshCap)
  <2>1. freshCap \in Nat /\ fresh \in Tables(freshCap) /\ oldSlot \in 0 .. cap
    BY <1>3 DEF Inv, TypeOK
  <2>2. IsFiniteSet(Full(slots))
    BY <1>1, Finite
  <2>3. Cardinality({x \in Full(slots) : x < oldSlot}) <= Cardinality(Full(slots))
    BY <2>2, FS_Subset
  <2>4. Cardinality(Dead(fresh)) = 0
    BY <1>3, FS_EmptySet DEF Inv, RehashOK
  <2>5. Cardinality(Full(fresh)) \in Nat /\ Cardinality(Full(fresh)) <= len
    BY <1>3, <2>1, <2>3, Finite DEF Inv, RehashOK, CountsOK
  <2>6. Cardinality(Full(fresh)) + Cardinality(Dead(fresh)) < freshCap
    BY <1>1, <1>3, <2>1, <2>4, <2>5 DEF Inv, RehashOK
  <2> QED BY <2>1, <2>6, EmptySlotLemma
<1> QED BY <1>2, <1>3

LEMMA PresentLemma ==
  ASSUME Inv, NEW k \in Key
  PROVE  /\ Present(k) <=> k \in KeysOf(slots)
         /\ Present(k) => /\ FindIndex(slots, cap, k) \in Full(slots)
                          /\ slots[FindIndex(slots, cap, k)][1] = k
<1>1. cap \in Nat /\ slots \in Tables(cap) /\ TableOK(slots, cap)
  BY DEF Inv, TypeOK
<1>2. Full(slots) \subseteq 0 .. cap-1
  BY <1>1 DEF Full, Tables
<1>3. CASE cap = 0
  <2>1. Full(slots) = {}
    BY <1>2, <1>3
  <2> QED BY <1>3, <2>1 DEF Present, FindIndex, KeysOf
<1>4. CASE cap # 0
  <2>1. /\ k \in KeysOf(slots) => /\ FindIndex(slots, cap, k) \in Full(slots)
                                  /\ slots[FindIndex(slots, cap, k)][1] = k
        /\ k \notin KeysOf(slots) => FindIndex(slots, cap, k) = -1
    BY <1>1, <1>4, InvProbes, FindLemma
  <2> QED BY <1>2, <2>1 DEF Present
<1> QED BY <1>3, <1>4

(* Storing a new key in T, with tombs tombstones, as InsertAbsent does.    *)
LEMMA InsertCounts ==
  ASSUME NEW n \in Nat, n > 0, NEW T \in Tables(n), TableOK(T, n), HasEmpty(T, n),
         NEW k \in Key, NEW v \in Val, k \notin KeysOf(T), NEW j, NEW U, Inserted(T, U, n, j, k, v)
  PROVE  /\ Dead(U) = Dead(T) \ {j}
         /\ Cardinality(Full(U)) = Cardinality(Full(T)) + 1
         /\ Cardinality(Dead(U)) = IF T[j] = Tombstone THEN Cardinality(Dead(T)) - 1
                                                       ELSE Cardinality(Dead(T))
<1>1. j \in (0 .. n-1) \ Full(T) /\ Full(U) = Full(T) \cup {j} /\ U \in Tables(n)
  BY InsertTable DEF Stored
<1>2. <<k, v>> # Tombstone
  OBVIOUS
<1>3. Dead(U) = Dead(T) \ {j} /\ (j \in Dead(T) <=> T[j] = Tombstone)
  BY <1>1, <1>2 DEF Dead, Tables, Inserted
<1>4. Cardinality(Full(T) \cup {j}) = Cardinality(Full(T)) + 1
  BY <1>1, Finite, FS_AddElement
<1>5. Cardinality(Dead(T) \ {j}) = IF j \in Dead(T) THEN Cardinality(Dead(T)) - 1
                                                     ELSE Cardinality(Dead(T))
  BY Finite, FS_RemoveElement
<1> QED BY <1>1, <1>3, <1>4, <1>5


-----------------------------------------------------------------------------
(* The counters are exact, the load factor leaves an EMPTY slot, no key is *)
(* stored twice, no EMPTY slot interrupts a probe, and a rehash has copied *)
(* what it has passed (hashmap.c:143-228).                                 *)
LEMMA InitInv == Init => Inv
<1> SUFFICES ASSUME Init PROVE Inv
  OBVIOUS
<1>1. Dead(slots) = {}
  BY DEF Init, Dead, EmptyTable
<1>2. Cardinality(Full(slots)) = 0 /\ Cardinality(Dead(slots)) = 0
  <2>1. Full(slots) = {}
    BY DEF Init, Full, EmptyTable
  <2>2. Cardinality({}) = 0
    BY FS_EmptySet
  <2> QED BY <1>1, <2>1, <2>2, Zenon
<1> QED BY <1>2, EmptyTableLemma
        DEF Init, Inv, TypeOK, CountsOK, LoadOK, RehashOK

(* The state after InsertAbsent(T, n, tombs, k, v).                        *)
LEMMA InsertStep ==
  ASSUME NEW n \in Nat, n >= 2, NEW T \in Tables(n), TableOK(T, n), HasEmpty(T, n),
         NEW k \in Key, NEW v \in Val, k \notin KeysOf(T),
         NEW tombs \in Nat, tombs = Cardinality(Dead(T)), len = Cardinality(Full(T)),
         (len + tombs + 1) * 4 <= n * 3,
         InsertAbsent(T, n, tombs, k, v)
  PROVE  /\ slots' \in Tables(n) /\ TableOK(slots', n)
         /\ len' \in Nat /\ tombstones' \in Nat
         /\ len' = Cardinality(Full(slots')) /\ tombstones' = Cardinality(Dead(slots'))
         /\ (len' + tombstones') * 4 <= n * 3
<1> DEFINE j == SlotFor(T, n, k)
<1>1. PICK U : Inserted(T, U, n, j, k, v)
  BY DEF Inserted
<1>2. U \in Tables(n) /\ TableOK(U, n)
  BY <1>1, InsertTable
<1>3. /\ Cardinality(Full(U)) = Cardinality(Full(T)) + 1
      /\ Cardinality(Dead(U)) = IF T[j] = Tombstone THEN Cardinality(Dead(T)) - 1
                                                    ELSE Cardinality(Dead(T))
  BY <1>1, InsertCounts
<1>4. /\ slots' = U
      /\ len' = len + 1
      /\ tombstones' = IF T[j] = Tombstone THEN tombs - 1 ELSE tombs
  BY <1>1 DEF InsertAbsent, Inserted
<1>5. Cardinality(Dead(U)) \in Nat /\ Cardinality(Full(T)) \in Nat
  BY <1>2, Finite
<1> HIDE DEF j
<1>6. len' \in Nat /\ tombstones' \in Nat /\ (len' + tombstones') * 4 <= n * 3
  BY <1>3, <1>4, <1>5
<1> QED BY <1>2, <1>3, <1>4, <1>6


(* One step of rehash copies one entry.                                    *)
LEMMA MoveStep ==
  ASSUME Inv, RehashMove
  PROVE  RehashOK' /\ fresh' \in Tables(freshCap)
<1>1. /\ phase = "rehash" /\ oldSlot < cap /\ oldSlot \in Nat /\ cap \in Nat
      /\ slots \in Tables(cap) /\ TableOK(slots, cap)
      /\ freshCap \in Nat /\ fresh \in Tables(freshCap)
      /\ UNCHANGED <<slots, cap, len, tombstones, phase, op, freshCap>> /\ oldSlot' = oldSlot + 1
  BY DEF RehashMove, Inv, TypeOK, tableVars
<1>2. /\ freshCap >= 2 /\ (len + 1) * 4 <= freshCap * 3
      /\ op[1] \notin KeysOf(slots)
      /\ Dead(fresh) = {} /\ TableOK(fresh, freshCap)
      /\ Cardinality(Full(fresh)) = Cardinality({x \in Full(slots) : x < oldSlot})
      /\ {fresh[j] : j \in Full(fresh)} = MovedEntries
  BY <1>1 DEF Inv, RehashOK
<1>3. Full(slots) \subseteq 0 .. cap-1
  BY <1>1 DEF Full, Tables
<1>4. CASE oldSlot \notin Full(slots)
  <2>1. fresh' = fresh
    BY <1>4 DEF RehashMove
  <2>2. {x \in Full(slots) : x < oldSlot + 1} = {x \in Full(slots) : x < oldSlot}
    BY <1>1, <1>3, <1>4
  <2> QED BY <1>1, <1>2, <2>1, <2>2 DEF RehashOK, MovedEntries
<1>5. CASE oldSlot \in Full(slots)
  <2>1. PICK k \in Key, v \in Val : slots[oldSlot] = <<k, v>>
    BY <1>1, <1>5 DEF Full, Tables
  <2>2. k \notin KeysOf(fresh)
    <3> SUFFICES ASSUME NEW a \in Full(fresh), fresh[a][1] = k PROVE FALSE
      BY DEF KeysOf
    <3>1. PICK x \in Full(slots) : x < oldSlot /\ fresh[a] = slots[x]
      BY <1>2 DEF MovedEntries
    <3>2. slots[x][1] = slots[oldSlot][1]
      BY <2>1, <3>1
    <3> QED BY <1>1, <1>3, <1>5, <3>1, <3>2 DEF TableOK
  <2>3. PICK j, U : Inserted(fresh, U, freshCap, j, k, v)
    BY DEF Inserted
  <2>4. fresh' = U
    BY <1>5, <2>1, <2>3 DEF RehashMove, Inserted
  <2>5. HasEmpty(fresh, freshCap)
    BY <1>1, InvProbes
  <2>6. U \in Tables(freshCap) /\ TableOK(U, freshCap) /\ Stored(fresh, U, j, k, v)
    BY <1>1, <1>2, <2>2, <2>3, <2>5, InsertTable
  <2>7. Dead(U) = Dead(fresh) \ {j} /\ Cardinality(Full(U)) = Cardinality(Full(fresh)) + 1
    BY <1>1, <1>2, <2>2, <2>3, <2>5, InsertCounts
  <2>8. Cardinality({x \in Full(slots) : x < oldSlot + 1}) = Cardinality({x \in Full(slots) : x < oldSlot}) + 1
    <3> DEFINE D == {x \in Full(slots) : x < oldSlot}
    <3>1. IsFiniteSet(D)
      BY <1>1, Finite, FS_Subset
    <3>2. oldSlot \notin D /\ {x \in Full(slots) : x < oldSlot + 1} = D \cup {oldSlot}
      BY <1>1, <1>3, <1>5
    <3> HIDE DEF D
    <3>3. Cardinality(D \cup {oldSlot}) = Cardinality(D) + 1
      BY <3>1, <3>2, FS_AddElement
    <3> QED BY <3>2, <3>3 DEF D
  <2>9. {U[a] : a \in Full(U)} = {slots[x] : x \in {y \in Full(slots) : y < oldSlot + 1}}
    <3>1. {U[a] : a \in Full(U)} = {fresh[a] : a \in Full(fresh)} \cup {<<k, v>>}
      BY <2>6 DEF Stored
    <3>2. {y \in Full(slots) : y < oldSlot + 1} = {y \in Full(slots) : y < oldSlot} \cup {oldSlot}
      BY <1>1, <1>3, <1>5
    <3> QED BY <1>2, <2>1, <3>1, <3>2 DEF MovedEntries
  <2>10. Dead(U) = {}
    BY <1>2, <2>7
  <2>11. Cardinality(Full(fresh')) = Cardinality({x \in Full(slots') : x < oldSlot'})
    BY <1>1, <1>2, <2>4, <2>7, <2>8
  <2>12. {fresh'[a] : a \in Full(fresh')} = MovedEntries'
    BY <1>1, <2>4, <2>9 DEF MovedEntries
  <2>13. TableOK(fresh', freshCap') /\ Dead(fresh') = {}
    BY <1>1, <2>4, <2>6, <2>10
  <2>14. (len' + 1) * 4 <= freshCap' * 3 /\ freshCap' >= 2 /\ op'[1] \notin KeysOf(slots')
    BY <1>1, <1>2
  <2> QED BY <2>4, <2>6, <2>11, <2>12, <2>13, <2>14 DEF RehashOK
<1> QED BY <1>4, <1>5

(* When rehash has passed every old slot, fresh holds the same entries.    *)
LEMMA MoveEnd ==
  ASSUME Inv, phase = "rehash", oldSlot = cap
  PROVE  /\ {fresh[j] : j \in Full(fresh)} = {slots[j] : j \in Full(slots)}
         /\ KeysOf(fresh) = KeysOf(slots)
         /\ Cardinality(Full(fresh)) = len /\ Cardinality(Dead(fresh)) = 0
<1>1. /\ slots \in Tables(cap) /\ cap \in Nat
      /\ len = Cardinality(Full(slots))
      /\ Dead(fresh) = {}
      /\ Cardinality(Full(fresh)) = Cardinality({x \in Full(slots) : x < oldSlot})
      /\ {fresh[j] : j \in Full(fresh)} = MovedEntries
  BY DEF Inv, TypeOK, RehashOK, CountsOK
<1>2. {x \in Full(slots) : x < oldSlot} = Full(slots)
  BY <1>1 DEF Full, Tables
<1>3. {fresh[j] : j \in Full(fresh)} = {slots[j] : j \in Full(slots)}
  BY <1>1, <1>2 DEF MovedEntries
<1>4. \A T : KeysOf(T) = {e[1] : e \in {T[j] : j \in Full(T)}}
  BY DEF KeysOf
<1>5. KeysOf(fresh) = KeysOf(slots)
  BY <1>3, <1>4
<1>6. Cardinality(Dead(fresh)) = 0
  BY <1>1, FS_EmptySet
<1> QED BY <1>1, <1>2, <1>3, <1>5, <1>6


LEMMA NextInv == Inv /\ [Next]_vars => Inv'
<1> SUFFICES ASSUME Inv, [Next]_vars PROVE Inv'
  OBVIOUS
<1>1. /\ cap \in Nat /\ slots \in Tables(cap) /\ len \in Nat /\ tombstones \in Nat
      /\ TableOK(slots, cap) /\ CountsOK /\ LoadOK /\ it \in Nat \cup {-1} /\ seen \subseteq Key
  BY DEF Inv, TypeOK
<1>2. ASSUME NEW k \in Key, NEW v \in Val, Overwrite(k, v) PROVE Inv'
  <2> DEFINE j == FindIndex(slots, cap, k)
  <2>1. j \in Full(slots) /\ slots[j][1] = k
    BY <1>2, PresentLemma DEF Overwrite
  <2>2. PICK U : Written(slots, U, j, <<k, v>>)
    BY DEF Written
  <2> HIDE DEF j
  <2>3. U \in Tables(cap) /\ TableOK(U, cap) /\ Full(U) = Full(slots)
    BY <1>1, <2>1, <2>2, OverwriteTable
  <2>4. Dead(U) = Dead(slots)
    <3>1. <<k, v>> # Tombstone /\ slots[j] # Tombstone /\ j \in DOMAIN slots
      BY <2>1 DEF Full
    <3> QED BY <2>2, <3>1 DEF Dead, Written
  <2>5. /\ slots' = U /\ phase' = "idle"
        /\ UNCHANGED <<cap, len, tombstones, it, seen>>
    BY <1>2, <2>2 DEF Overwrite, rehashVars, j, Written
  <2> QED BY <1>1, <2>3, <2>4, <2>5 DEF Inv, TypeOK, CountsOK, LoadOK, RehashOK
<1>3. ASSUME NEW k \in Key, NEW v \in Val, InsertNew(k, v) PROVE Inv'
  <2>1. k \notin KeysOf(slots) /\ cap >= 2 /\ (len + tombstones + 1) * 4 <= cap * 3
    BY <1>1, <1>3, PresentLemma DEF InsertNew, HasRoom, LoadOK
  <2>2. HasEmpty(slots, cap)
    BY <2>1, InvProbes
  <2>3. InsertAbsent(slots, cap, tombstones, k, v)
    BY <1>3 DEF InsertNew
  <2>4. /\ slots' \in Tables(cap) /\ TableOK(slots', cap)
        /\ len' \in Nat /\ tombstones' \in Nat
        /\ len' = Cardinality(Full(slots')) /\ tombstones' = Cardinality(Dead(slots'))
        /\ (len' + tombstones') * 4 <= cap * 3
    BY <1>1, <2>1, <2>2, <2>3, InsertStep DEF CountsOK
  <2>5. phase' = "idle" /\ it' = -1 /\ seen' = {} /\ cap' = cap
    BY <1>3 DEF InsertNew, rehashVars
  <2> QED BY <1>1, <2>1, <2>4, <2>5 DEF Inv, TypeOK, CountsOK, LoadOK, RehashOK
<1>4. ASSUME NEW k \in Key, NEW v \in Val, RehashStart(k, v) PROVE Inv'
  <2>1. /\ UNCHANGED <<slots, cap, len, tombstones>> /\ phase' = "alloc" /\ op' = <<k, v>>
        /\ freshCap' = NewCap /\ fresh' = EmptyTable(NewCap) /\ oldSlot' = 0
        /\ it' = -1 /\ seen' = {} /\ ~HasRoom
    BY <1>4 DEF RehashStart, tableVars
  <2>2. k \notin KeysOf(slots)
    BY <1>4, PresentLemma DEF RehashStart
  <2>3. NewCap \in Nat /\ NewCap >= 2 /\ (len + 1) * 4 <= NewCap * 3
    <3>1. CASE cap = 0
      <4>1. Full(slots) = {}
        BY <1>1, <3>1 DEF Full, Tables
      <4>2. len = 0
        BY <1>1, <4>1, FS_EmptySet DEF CountsOK
      <4> QED BY <3>1, <4>2 DEF NewCap
    <3>2. CASE cap # 0
      BY <1>1, <3>2 DEF NewCap, LoadOK
    <3> QED BY <3>1, <3>2
  <2>4. /\ fresh' \in Tables(freshCap') /\ TableOK(fresh', freshCap')
        /\ Full(fresh') = {} /\ Dead(fresh') = {}
    <3>1. PICK n \in Nat : n = NewCap
      BY <2>3
    <3>2. EmptyTable(n) \in Tables(n) /\ TableOK(EmptyTable(n), n) /\ Full(EmptyTable(n)) = {}
      BY EmptyTableLemma
    <3>3. Dead(EmptyTable(n)) = {}
      BY DEF Dead, EmptyTable
    <3> QED BY <2>1, <3>1, <3>2, <3>3
  <2>5. {x \in Full(slots') : x < oldSlot'} = {}
    BY <1>1, <2>1 DEF Full, Tables
  <2>6. RehashOK'
    <3>1. {fresh'[j] : j \in Full(fresh')} = MovedEntries'
      BY <2>4, <2>5 DEF MovedEntries
    <3>2. Cardinality(Full(fresh')) = Cardinality({x \in Full(slots') : x < oldSlot'})
      BY <2>4, <2>5
    <3>3. op'[1] \notin KeysOf(slots') /\ freshCap' >= 2 /\ (len' + 1) * 4 <= freshCap' * 3
      BY <2>1, <2>2, <2>3
    <3> QED BY <2>4, <3>1, <3>2, <3>3 DEF RehashOK
  <2> QED BY <1>1, <2>1, <2>3, <2>4, <2>6 DEF Inv, TypeOK, CountsOK, LoadOK
<1>5. CASE RehashMove
  <2>1. /\ UNCHANGED <<slots, cap, len, tombstones, phase, op, freshCap, it, seen>>
        /\ oldSlot' = oldSlot + 1 /\ oldSlot < cap /\ phase = "rehash"
    BY <1>5 DEF RehashMove, tableVars
  <2>2. RehashOK' /\ fresh' \in Tables(freshCap)
    BY <1>5, MoveStep
  <2> QED BY <1>1, <2>1, <2>2 DEF Inv, TypeOK, CountsOK, LoadOK
<1>6. CASE RehashDone
  <2>1. /\ phase = "rehash" /\ oldSlot = cap /\ cap' = freshCap /\ phase' = "idle"
        /\ InsertAbsent(fresh, freshCap, 0, op[1], op[2])
        /\ UNCHANGED <<it, seen>>
    BY <1>6 DEF RehashDone, RehashOver
  <2>2. /\ freshCap \in Nat /\ freshCap >= 2 /\ (len + 1) * 4 <= freshCap * 3
        /\ fresh \in Tables(freshCap) /\ TableOK(fresh, freshCap)
        /\ op[1] \in Key /\ op[2] \in Val /\ op[1] \notin KeysOf(fresh)
        /\ 0 = Cardinality(Dead(fresh)) /\ len = Cardinality(Full(fresh))
    BY <2>1, MoveEnd DEF Inv, TypeOK, RehashOK
  <2>3. HasEmpty(fresh, freshCap)
    BY <2>1, InvProbes
  <2>4. (len + 0 + 1) * 4 <= freshCap * 3
    BY <1>1, <2>2
  <2>5. /\ slots' \in Tables(freshCap) /\ TableOK(slots', freshCap)
        /\ len' \in Nat /\ tombstones' \in Nat
        /\ len' = Cardinality(Full(slots')) /\ tombstones' = Cardinality(Dead(slots'))
        /\ (len' + tombstones') * 4 <= freshCap * 3
    BY <2>1, <2>2, <2>3, <2>4, InsertStep
  <2> QED BY <1>1, <2>1, <2>2, <2>5 DEF Inv, TypeOK, CountsOK, LoadOK, RehashOK
<1>7. ASSUME NEW k \in Key, Remove(k) PROVE Inv'
  <2> DEFINE j == FindIndex(slots, cap, k)
  <2>1. CASE Present(k)
    <3>1. j \in Full(slots) /\ slots[j][1] = k
      BY <2>1, PresentLemma
    <3>2. PICK U : Written(slots, U, j, Tombstone)
      BY DEF Written
    <3>3. /\ slots' = U /\ len' = len - 1 /\ tombstones' = tombstones + 1
          /\ UNCHANGED <<cap, phase, it, seen>> /\ phase = "idle"
      BY <1>7, <2>1, <3>2 DEF Remove, rehashVars, Written
    <3> HIDE DEF j
    <3>4. /\ U \in Tables(cap) /\ TableOK(U, cap) /\ j \in 0 .. cap-1
          /\ Full(U) = Full(slots) \ {j}
          /\ \A a \in 0 .. cap-1 : U[a] = IF a = j THEN Tombstone ELSE slots[a]
      BY <1>1, <3>1, <3>2, RemoveTable
    <3>5. Dead(U) = Dead(slots) \cup {j} /\ j \notin Dead(slots)
      BY <1>1, <3>1, <3>4 DEF Dead, Full, Tables
    <3>6. Cardinality(Full(slots) \ {j}) = Cardinality(Full(slots)) - 1
      BY <1>1, <3>1, Finite, FS_RemoveElement
    <3>7. Cardinality(Dead(slots) \cup {j}) = Cardinality(Dead(slots)) + 1
      BY <1>1, <3>5, Finite, FS_AddElement
    <3>8. Cardinality(Full(U)) \in Nat
      BY <1>1, <3>4, Finite
    <3>9. CountsOK' /\ len' \in Nat /\ tombstones' \in Nat
      BY <1>1, <3>3, <3>4, <3>5, <3>6, <3>7, <3>8 DEF CountsOK
    <3>10. LoadOK'
      BY <1>1, <3>3, <3>9 DEF LoadOK
    <3> QED BY <1>1, <3>3, <3>4, <3>9, <3>10 DEF Inv, TypeOK, RehashOK
  <2>2. CASE ~Present(k)
    <3>1. UNCHANGED <<slots, cap, len, tombstones, phase, it, seen>> /\ phase = "idle"
      BY <1>7, <2>2 DEF Remove, rehashVars
    <3> QED BY <1>1, <3>1 DEF Inv, TypeOK, CountsOK, LoadOK, RehashOK
  <2> QED BY <2>1, <2>2
<1>8. CASE Clear \/ Free
  <2>1. PICK n \in {cap, 0} : /\ slots' = EmptyTable(n) /\ cap' = n
                              /\ len' = 0 /\ tombstones' = 0
                              /\ phase' = "idle" /\ UNCHANGED <<it, seen>>
    BY <1>8 DEF Clear, Free, rehashVars
  <2>2. n \in Nat /\ (n # 0 => n >= 2)
    BY <1>1 DEF LoadOK
  <2>3. /\ EmptyTable(n) \in Tables(n) /\ TableOK(EmptyTable(n), n)
        /\ Full(EmptyTable(n)) = {}
    BY <2>2, EmptyTableLemma
  <2>4. Dead(EmptyTable(n)) = {}
    BY DEF Dead, EmptyTable
  <2>5. Cardinality({}) = 0
    BY FS_EmptySet
  <2>6. slots' \in Tables(cap') /\ TableOK(slots', cap') /\ cap' \in Nat
    BY <2>1, <2>2, <2>3
  <2>7. Full(slots') = {} /\ Dead(slots') = {}
    BY <2>1, <2>3, <2>4
  <2>8. CountsOK'
    BY <2>1, <2>5, <2>7 DEF CountsOK
  <2>9. LoadOK'
    BY <2>1, <2>2 DEF LoadOK
  <2> QED BY <1>1, <2>1, <2>6, <2>8, <2>9 DEF Inv, TypeOK, RehashOK
<1>9. CASE \/ \E k \in Key : InsertFails(k) \/ Get(k)
           \/ IterNew
  <2>1. UNCHANGED <<slots, cap, len, tombstones, phase>> /\ phase = "idle"
    BY <1>9 DEF InsertFails, Get, IterNew, tableVars, rehashVars
  <2>2. it' \in Nat \cup {-1} /\ seen' \subseteq Key
    BY <1>1, <1>9 DEF InsertFails, Get, IterNew
  <2> QED BY <1>1, <2>1, <2>2 DEF Inv, TypeOK, CountsOK, LoadOK, RehashOK
<1>10. CASE IterNext
  <2>1. UNCHANGED <<slots, cap, len, tombstones, phase>> /\ phase = "idle"
    BY <1>10 DEF IterNext, tableVars, rehashVars
  <2>2. it' \in Nat \cup {-1} /\ seen' \subseteq Key
    <3>1. CASE Ahead = {}
      BY <1>1, <1>10, <3>1 DEF IterNext
    <3>2. CASE Ahead # {}
      <4>1. Ahead \subseteq Full(slots) /\ Ahead \subseteq Nat
        BY <1>1 DEF Ahead, Full, Tables
      <4>2. Min(Ahead) \in Ahead
        BY <3>2, <4>1, MinIsLeast
      <4>3. Min(Ahead) \in Nat /\ slots[Min(Ahead)][1] \in Key
        BY <1>1, <4>1, <4>2 DEF Full, Tables
      <4> QED BY <1>1, <1>10, <3>2, <4>3 DEF IterNext
    <3> QED BY <3>1, <3>2
  <2> QED BY <1>1, <2>1, <2>2 DEF Inv, TypeOK, CountsOK, LoadOK, RehashOK
<1>11. CASE RehashAlloc \/ UNCHANGED vars
  <2>1. /\ UNCHANGED <<slots, cap, len, tombstones, op, fresh, freshCap, oldSlot, it, seen>>
        /\ phase' \in {"idle", "alloc", "rehash"} /\ (phase' # "idle" => phase # "idle")
    BY <1>11 DEF Inv, TypeOK, RehashAlloc, vars, tableVars, rehashVars
  <2>2. TypeOK' /\ CountsOK' /\ LoadOK' /\ TableOK(slots', cap')
    BY <2>1 DEF Inv, TypeOK, CountsOK, LoadOK
  <2>3. MovedEntries' = MovedEntries
    BY <2>1 DEF MovedEntries
  <2>4. RehashOK'
    BY <2>1, <2>3 DEF Inv, RehashOK
  <2> QED BY <2>2, <2>4 DEF Inv
<1>12. CASE RehashFails
  <2>1. UNCHANGED <<slots, cap, len, tombstones, it, seen>> /\ phase' = "idle"
    BY <1>12 DEF RehashFails, RehashOver, tableVars
  <2> QED BY <1>1, <2>1 DEF Inv, TypeOK, CountsOK, LoadOK, RehashOK
<1> QED BY <1>2, <1>3, <1>4, <1>5, <1>6, <1>7, <1>8, <1>9, <1>10, <1>11, <1>12 DEF Next

(* The arrays of the table and of an unfinished rehash are all the map     *)
(* holds (hashmap.c:151-196).                                              *)
LEMMA ArraysStep == Inv /\ ArraysOwned /\ [Next]_vars => ArraysOwned'
<1> SUFFICES ASSUME Inv, ArraysOwned, [Next]_vars PROVE ArraysOwned'
  OBVIOUS
<1> USE DEF ArraysOwned, OwnArrays
<1>1. CASE \E k \in Key, v \in Val : RehashStart(k, v)
  <2>1. /\ phase = "idle" /\ phase' = "alloc" /\ freshArrays' = 0
        /\ UNCHANGED <<cap, arrays>>
    BY <1>1 DEF RehashStart, tableVars
  <2> QED BY <2>1
<1>2. CASE RehashAlloc
  BY <1>2 DEF RehashAlloc, tableVars
<1>3. CASE RehashFails
  <2>1. /\ phase = "alloc" /\ phase' = "idle" /\ freshArrays' = 0
        /\ arrays' = arrays - freshArrays /\ cap' = cap
    BY <1>3 DEF RehashFails, RehashOver, tableVars
  <2> QED BY <2>1
<1>4. CASE RehashDone
  <2>1. /\ phase = "rehash" /\ phase' = "idle" /\ freshArrays' = 0
        /\ arrays' = arrays - OwnArrays /\ cap' = freshCap
    BY <1>4 DEF RehashDone, RehashOver
  <2>2. freshCap # 0
    BY <2>1 DEF Inv, TypeOK, RehashOK
  <2> QED BY <2>1, <2>2
<1>5. CASE Free
  <2>1. /\ phase = "idle" /\ UNCHANGED <<phase, freshArrays>>
        /\ arrays' = arrays - OwnArrays /\ cap' = 0
    BY <1>5 DEF Free, rehashVars
  <2> QED BY <2>1
<1>6. CASE \/ \E k \in Key, v \in Val : Overwrite(k, v) \/ InsertNew(k, v)
           \/ \E k \in Key : InsertFails(k) \/ Get(k) \/ Remove(k)
           \/ RehashMove \/ Clear \/ IterNew \/ IterNext \/ UNCHANGED vars
  <2>1. UNCHANGED <<cap, phase, freshArrays, arrays>>
    BY <1>6 DEF Overwrite, InsertNew, InsertFails, Get, Remove, RehashMove, Clear, IterNew,
                IterNext, vars, tableVars, rehashVars
  <2> QED BY <2>1
<1> QED BY <1>1, <1>2, <1>3, <1>4, <1>5, <1>6 DEF Next

(* Every probe ends (hashmap.c:213-228): a table in use, and the one rehash*)
(* fills, always has an EMPTY slot.                                        *)
THEOREM ProbesEnd == Spec => []ProbeEnds
<1>1. Inv => ProbeEnds
  BY InvProbes DEF ProbeEnds, HasEmpty
<1> QED BY <1>1, InitInv, NextInv, PTL DEF Spec

(* The table stays sound whatever the keys, the hash function and the      *)
(* capacities: typed, its FULL and TOMBSTONE slots counted, every entry    *)
(* found at its slot (hashmap.c:201-228), and no array leaked or given     *)
(* back twice, whichever allocation of a rehash fails (hashmap.c:151-196). *)
THEOREM TableSoundTheorem == Spec => []TableSound
<1>1. Inv => CountsExact
  BY DEF Inv, TypeOK, Tables, CountsOK, CountsExact, Dead
<1>2. Inv => EntriesFound
  <2> SUFFICES ASSUME Inv, NEW j \in Full(slots)
               PROVE  FindIndex(slots, cap, slots[j][1]) = j
    BY DEF EntriesFound
  <2>1. slots \in Tables(cap) /\ TableOK(slots, cap)
    BY DEF Inv, TypeOK
  <2>2. PICK k \in Key : slots[j][1] = k
    BY <2>1 DEF Full, Tables
  <2>3. k \in KeysOf(slots)
    BY <2>2 DEF KeysOf
  <2> QED BY <2>1, <2>2, <2>3, PresentLemma DEF TableOK
<1>3. Inv /\ ArraysOwned => TableSound
  BY <1>1, <1>2 DEF Inv, TableSound
<1>4. Init => ArraysOwned
  BY DEF Init, ArraysOwned, OwnArrays
<1> QED BY <1>3, <1>4, InitInv, NextInv, ArraysStep, PTL DEF Spec

-----------------------------------------------------------------------------
(* The caller's iterator stands where the keys it returned end: a FULL     *)
(* slot lies before it exactly when its key was returned.                  *)
IterInv ==
  /\ phase # "idle" => it = -1
  /\ it # -1 => \A j \in Full(slots) : slots[j][1] \in seen <=> j < it

(* What std_hashmap_iter_next takes: the first FULL slot at or after it.   *)
LEMMA AheadLemma ==
  ASSUME Inv, IterInv, it # -1, Ahead # {}
  PROVE  /\ Min(Ahead) \in Full(slots) /\ Min(Ahead) \in Nat
         /\ slots[Min(Ahead)][1] \notin seen
         /\ \A a \in Full(slots) : a < Min(Ahead) + 1 <=> a < it \/ a = Min(Ahead)
<1>1. cap \in Nat /\ slots \in Tables(cap) /\ it \in Nat
  BY DEF Inv, TypeOK
<1>2. Full(slots) \subseteq Nat /\ Ahead \subseteq Full(slots)
  BY <1>1 DEF Ahead, Full, Tables
<1>3. Min(Ahead) \in Ahead /\ \A x \in Ahead : Min(Ahead) <= x
  BY <1>2, MinIsLeast
<1> DEFINE m == Min(Ahead)
<1>4. m \in Full(slots) /\ m \in Nat /\ m >= it /\ \A x \in Ahead : m <= x
  BY <1>2, <1>3 DEF Ahead
<1> HIDE DEF m
<1>5. slots[m][1] \notin seen
  BY <1>1, <1>4 DEF IterInv
<1>6. ASSUME NEW a \in Full(slots) PROVE a < m + 1 <=> a < it \/ a = m
  <2>1. a \in Nat /\ (a >= it => a \in Ahead)
    BY <1>2 DEF Ahead
  <2> QED BY <1>1, <1>4, <2>1
<1> QED BY <1>4, <1>5, <1>6 DEF m

LEMMA IterStep == Inv /\ IterInv /\ [Next]_vars => IterInv'
<1> SUFFICES ASSUME Inv, IterInv, [Next]_vars PROVE IterInv'
  OBVIOUS
<1>1. cap \in Nat /\ slots \in Tables(cap) /\ it \in Nat \cup {-1} /\ TableOK(slots, cap)
  BY DEF Inv, TypeOK
<1>2. CASE \/ \E k \in Key, v \in Val : InsertNew(k, v) \/ RehashStart(k, v)
           \/ \E k \in Key : InsertFails(k)
  <2>1. it' = -1
    BY <1>2 DEF InsertNew, RehashStart, InsertFails
  <2> QED BY <2>1 DEF IterInv
<1>3. CASE RehashAlloc \/ RehashFails \/ RehashMove \/ RehashDone
  <2>1. it = -1 /\ it' = it
    BY <1>3 DEF RehashAlloc, RehashFails, RehashMove, RehashDone, IterInv
  <2> QED BY <2>1 DEF IterInv
<1>9. ASSUME NEW k \in Key, NEW v \in Val, Overwrite(k, v) PROVE IterInv'
  <2> DEFINE j == FindIndex(slots, cap, k)
  <2>1. j \in Full(slots) /\ slots[j][1] = k
    BY <1>9, PresentLemma DEF Overwrite
  <2>2. PICK U : Written(slots, U, j, <<k, v>>)
    BY DEF Written
  <2>3. slots' = U /\ UNCHANGED <<phase, it, seen>>
    BY <1>9, <2>2 DEF Overwrite, rehashVars, Written
  <2> HIDE DEF j
  <2>4. Full(U) = Full(slots)
    BY <1>1, <2>1, <2>2, OverwriteTable
  <2>5. \A a \in Full(slots) : U[a][1] = slots[a][1]
    BY <2>1, <2>2 DEF Full, Written
  <2> QED BY <2>3, <2>4, <2>5 DEF IterInv
<1>4. CASE (\E k \in Key : Get(k)) \/ UNCHANGED vars
  <2>1. UNCHANGED <<slots, phase, it, seen>>
    BY <1>4 DEF Get, vars, tableVars, rehashVars
  <2> QED BY <2>1 DEF IterInv
<1>5. ASSUME NEW k \in Key, Remove(k) PROVE IterInv'
  <2>1. phase' = phase /\ it' = it /\ seen' = seen
    BY <1>5 DEF Remove, rehashVars
  <2>2. \A j \in Full(slots') : j \in Full(slots) /\ slots'[j] = slots[j]
    <3>1. slots' = slots \/ \E d : slots' = [slots EXCEPT ![d] = Tombstone]
      BY <1>5 DEF Remove
    <3> QED BY <3>1 DEF Full
  <2> QED BY <2>1, <2>2 DEF IterInv
<1>6. CASE Clear \/ Free
  <2>1. PICK n \in {cap, 0} : slots' = EmptyTable(n)
    BY <1>6 DEF Clear, Free
  <2>2. Full(slots') = {}
    BY <2>1 DEF Full, EmptyTable
  <2>3. phase' = phase /\ it' = it
    BY <1>6 DEF Clear, Free, rehashVars
  <2> QED BY <2>2, <2>3 DEF IterInv
<1>7. CASE IterNew
  <2>1. it' = 0 /\ seen' = {} /\ slots' = slots /\ phase' = "idle"
    BY <1>7 DEF IterNew, tableVars, rehashVars
  <2>2. \A j \in Full(slots) : j \in Nat
    BY <1>1 DEF Full, Tables
  <2> QED BY <2>1, <2>2 DEF IterInv
<1>8. CASE IterNext
  <2>1. phase = "idle" /\ phase' = phase /\ slots' = slots /\ it \in Nat
    BY <1>1, <1>8 DEF IterNext, tableVars, rehashVars
  <2>2. CASE Ahead = {}
    <3>1. seen' = seen /\ it' = IF it < cap THEN cap ELSE it
      BY <1>8, <2>2 DEF IterNext
    <3>2. \A j \in Full(slots) : j \in 0 .. cap-1 /\ j < it
      BY <1>1, <2>1, <2>2 DEF Ahead, Full, Tables
    <3>3. \A j \in Full(slots) : j < it'
      BY <1>1, <2>1, <3>1, <3>2
    <3> QED BY <2>1, <3>1, <3>2, <3>3 DEF IterInv
  <2>3. CASE Ahead # {}
    <3> DEFINE m == Min(Ahead)
    <3>1. it' = m + 1 /\ seen' = seen \cup {slots[m][1]}
      BY <1>8, <2>3 DEF IterNext
    <3>2. /\ m \in Full(slots) /\ m \in Nat
          /\ \A a \in Full(slots) : a < m + 1 <=> a < it \/ a = m
      BY <2>1, <2>3, AheadLemma
    <3> HIDE DEF m
    <3>3. \A a \in Full(slots) : slots[a][1] = slots[m][1] => a = m
      BY <1>1, <3>2 DEF TableOK
    <3>4. \A a \in Full(slots) : slots[a][1] \in seen <=> a < it
      BY <2>1 DEF IterInv
    <3> QED BY <2>1, <3>1, <3>2, <3>3, <3>4 DEF IterInv
  <2> QED BY <2>2, <2>3
<1> QED BY <1>2, <1>3, <1>4, <1>5, <1>6, <1>7, <1>8, <1>9 DEF Next

LEMMA InitIter == Init => IterInv
BY DEF Init, IterInv

(* An exhausted iterator has returned every key still in the map, whatever *)
(* was removed or overwritten while it ran (hashmap.c:402-425).            *)
THEOREM IterSeesAllTheorem == Spec => []IterSeesAll
<1>1. Inv /\ IterInv => IterSeesAll
  <2> SUFFICES ASSUME Inv, IterInv, it # -1, it >= cap, NEW j \in Full(slots)
               PROVE  slots[j][1] \in seen
    BY DEF IterSeesAll, KeysOf
  <2>1. cap \in Nat /\ it \in Nat /\ j \in 0 .. cap-1
    BY DEF Inv, TypeOK, Full, Tables
  <2> QED BY <2>1 DEF IterInv
<1> QED BY <1>1, InitInv, NextInv, InitIter, IterStep, PTL DEF Spec

(* An iterator returns no key twice, whatever is removed or overwritten    *)
(* while it runs (hashmap.c:402-425).                                      *)
THEOREM IterNoRepeatTheorem == Spec => IterNoRepeat
<1>1. Inv /\ IterInv /\ [Next]_vars => [IterNext /\ ret'[1] = "item" => ret'[2] \notin seen]_vars
  <2> SUFFICES ASSUME Inv, IterInv, IterNext, ret'[1] = "item"
               PROVE  ret'[2] \notin seen
    OBVIOUS
  <2>1. it # -1
    BY DEF IterNext
  <2>2. Ahead # {}
    <3>1. Ahead = {} => ret'[1] = "end"
      BY DEF IterNext
    <3> QED BY <3>1
  <2>3. ret'[2] = slots[Min(Ahead)][1]
    BY <2>2 DEF IterNext
  <2> QED BY <2>1, <2>2, <2>3, AheadLemma
<1> QED BY <1>1, InitInv, NextInv, InitIter, IterStep, PTL DEF Spec, IterNoRepeat

-----------------------------------------------------------------------------
(* The map a table holds, by its entries.                                  *)
LEMMA MapOfLemma ==
  ASSUME NEW n \in Nat, NEW T \in Tables(n), TableOK(T, n)
  PROVE  /\ DOMAIN MapOf(T) = KeysOf(T)
         /\ MapOf(T) = [x \in KeysOf(T) |-> MapOf(T)[x]]
         /\ \A j \in Full(T) : T[j][1] \in KeysOf(T) /\ MapOf(T)[T[j][1]] = T[j][2]
<1>1. DOMAIN MapOf(T) = KeysOf(T) /\ MapOf(T) = [x \in KeysOf(T) |-> MapOf(T)[x]]
  BY DEF MapOf
<1>2. ASSUME NEW j \in Full(T)
      PROVE  T[j][1] \in KeysOf(T) /\ MapOf(T)[T[j][1]] = T[j][2]
  <2> DEFINE c == CHOOSE a \in Full(T) : T[a][1] = T[j][1]
  <2>1. c \in Full(T) /\ T[c][1] = T[j][1]
    OBVIOUS
  <2>2. c = j
    BY <2>1 DEF TableOK
  <2>3. T[j][1] \in KeysOf(T)
    BY DEF KeysOf
  <2>4. MapOf(T)[T[j][1]] = T[c][2]
    BY <2>3 DEF MapOf
  <2> QED BY <2>2, <2>3, <2>4
<1> QED BY <1>1, <1>2

(* Two tables with the same entries hold the same map.                     *)
LEMMA SameMap ==
  ASSUME NEW n \in Nat, NEW T \in Tables(n), TableOK(T, n),
         NEW m \in Nat, NEW U \in Tables(m), TableOK(U, m),
         {T[j] : j \in Full(T)} = {U[j] : j \in Full(U)}
  PROVE  MapOf(T) = MapOf(U)
<1>1. \A j \in Full(U) : \E a \in Full(T) : T[a] = U[j]
  OBVIOUS
<1>2. \A j \in Full(T) : \E a \in Full(U) : U[a] = T[j]
  OBVIOUS
<1>3. KeysOf(T) = KeysOf(U)
  BY <1>1, <1>2 DEF KeysOf
<1>4. ASSUME NEW x \in KeysOf(U) PROVE MapOf(T)[x] = MapOf(U)[x]
  <2>1. PICK j \in Full(U) : x = U[j][1]
    BY DEF KeysOf
  <2>2. PICK a \in Full(T) : T[a] = U[j]
    BY <1>1
  <2>3. MapOf(U)[x] = U[j][2]
    BY <2>1, MapOfLemma
  <2>4. MapOf(T)[T[a][1]] = T[a][2]
    BY MapOfLemma
  <2> QED BY <2>1, <2>2, <2>3, <2>4
<1> HIDE DEF MapOf
<1>5. MapOf(T) = [x \in KeysOf(T) |-> MapOf(T)[x]] /\ MapOf(U) = [x \in KeysOf(U) |-> MapOf(U)[x]]
  BY MapOfLemma
<1> QED BY <1>3, <1>4, <1>5

(* A table U that has the entries of T for the keys other than k.          *)
KeepsOthers(T, U, k) == \A a \in Full(T) : T[a][1] # k => a \in Full(U) /\ U[a] = T[a]

Updated(f, k, v) == [x \in DOMAIN f \cup {k} |-> IF x = k THEN v ELSE f[x]]

LEMMA MapOfUpdate ==
  ASSUME NEW n \in Nat, NEW T \in Tables(n), TableOK(T, n),
         NEW m \in Nat, NEW U \in Tables(m), TableOK(U, m),
         NEW k \in Key, NEW v \in Val, KeysOf(U) = KeysOf(T) \cup {k},
         NEW j \in Full(U), U[j] = <<k, v>>, KeepsOthers(T, U, k)
  PROVE  MapOf(U) = Updated(MapOf(T), k, v)
<1>1. DOMAIN MapOf(T) = KeysOf(T)
  BY MapOfLemma
<1>2. MapOf(U)[k] = v
  <2>1. MapOf(U)[U[j][1]] = U[j][2]
    BY MapOfLemma
  <2> QED BY <2>1
<1>3. ASSUME NEW x \in KeysOf(T), x # k PROVE MapOf(U)[x] = MapOf(T)[x]
  <2>1. PICK a \in Full(T) : x = T[a][1]
    BY DEF KeysOf
  <2>2. a \in Full(U) /\ U[a] = T[a]
    BY <1>3, <2>1 DEF KeepsOthers
  <2>3. MapOf(T)[T[a][1]] = T[a][2] /\ MapOf(U)[U[a][1]] = U[a][2]
    BY <2>2, MapOfLemma
  <2> QED BY <2>1, <2>2, <2>3
<1>4. MapOf(U) = [x \in KeysOf(U) |-> MapOf(U)[x]]
  BY MapOfLemma
<1> QED BY <1>1, <1>2, <1>3, <1>4 DEF Updated

Without(f, k) == [x \in DOMAIN f \ {k} |-> f[x]]

LEMMA MapOfRemove ==
  ASSUME NEW n \in Nat, NEW T \in Tables(n), TableOK(T, n),
         NEW U \in Tables(n), TableOK(U, n),
         NEW k \in Key, KeysOf(U) = KeysOf(T) \ {k}, KeepsOthers(T, U, k)
  PROVE  MapOf(U) = Without(MapOf(T), k)
<1>1. DOMAIN MapOf(T) = KeysOf(T)
  BY MapOfLemma
<1>2. ASSUME NEW x \in KeysOf(T), x # k PROVE MapOf(U)[x] = MapOf(T)[x]
  <2>1. PICK a \in Full(T) : x = T[a][1]
    BY DEF KeysOf
  <2>2. a \in Full(U) /\ U[a] = T[a]
    BY <1>2, <2>1 DEF KeepsOthers
  <2>3. MapOf(T)[T[a][1]] = T[a][2] /\ MapOf(U)[U[a][1]] = U[a][2]
    BY <2>2, MapOfLemma
  <2> QED BY <2>1, <2>2, <2>3
<1>3. MapOf(U) = [x \in KeysOf(U) |-> MapOf(U)[x]]
  BY MapOfLemma
<1> QED BY <1>1, <1>2, <1>3 DEF Without

(* What each call does to the map.                                         *)
LEMMA InsertMap ==
  ASSUME NEW n \in Nat, n > 0, NEW T \in Tables(n), TableOK(T, n), HasEmpty(T, n), NEW tombs,
         NEW k \in Key, NEW v \in Val, k \notin KeysOf(T), InsertAbsent(T, n, tombs, k, v)
  PROVE  MapOf(slots') = Updated(MapOf(T), k, v) /\ ret' = <<"inserted", k>>
<1>1. PICK j, U : Inserted(T, U, n, j, k, v)
  BY DEF Inserted
<1>2. slots' = U /\ ret' = <<"inserted", k>>
  BY <1>1 DEF InsertAbsent, Inserted
<1>3. U \in Tables(n) /\ TableOK(U, n) /\ Stored(T, U, j, k, v)
  BY <1>1, InsertTable
<1>4. KeepsOthers(T, U, k) /\ j \in Full(U)
  BY <1>3 DEF Stored, KeepsOthers
<1>5. MapOf(U) = Updated(MapOf(T), k, v)
  BY <1>3, <1>4, MapOfUpdate DEF Stored
<1> QED BY <1>2, <1>5

LEMMA OverwriteMap ==
  ASSUME Inv, NEW k \in Key, NEW v \in Val, Overwrite(k, v)
  PROVE  /\ k \in KeysOf(slots)
         /\ MapOf(slots') = Updated(MapOf(slots), k, v)
         /\ ret' = <<"replaced", k, MapOf(slots)[k]>>
<1> DEFINE j == FindIndex(slots, cap, k)
<1>1. j \in Full(slots) /\ slots[j][1] = k /\ k \in KeysOf(slots)
  BY PresentLemma DEF Overwrite
<1>2. cap \in Nat /\ slots \in Tables(cap) /\ TableOK(slots, cap)
  BY DEF Inv, TypeOK
<1>3. PICK U : Written(slots, U, j, <<k, v>>)
  BY DEF Written
<1>4. slots' = U /\ ret' = <<"replaced", k, slots[j][2]>>
  BY <1>3 DEF Overwrite, Written
<1> HIDE DEF j
<1>5. /\ U \in Tables(cap) /\ TableOK(U, cap) /\ Full(U) = Full(slots)
      /\ KeysOf(U) = KeysOf(slots)
      /\ U[j] = <<k, v>> /\ \A a \in Full(slots) : a # j => U[a] = slots[a]
  BY <1>1, <1>2, <1>3, OverwriteTable
<1>6. KeepsOthers(slots, U, k) /\ KeysOf(U) = KeysOf(slots) \cup {k}
  BY <1>1, <1>5 DEF KeepsOthers
<1>7. MapOf(U) = Updated(MapOf(slots), k, v)
  BY <1>1, <1>2, <1>5, <1>6, MapOfUpdate
<1>8. MapOf(slots)[slots[j][1]] = slots[j][2]
  BY <1>1, <1>2, MapOfLemma
<1> QED BY <1>1, <1>4, <1>7, <1>8

LEMMA RemoveMap ==
  ASSUME Inv, NEW k \in Key, Remove(k)
  PROVE  /\ MapOf(slots') = Without(MapOf(slots), k)
         /\ ret' = IF k \in KeysOf(slots) THEN <<"removed", k>> ELSE <<"absent", k>>
<1> DEFINE j == FindIndex(slots, cap, k)
<1>1. cap \in Nat /\ slots \in Tables(cap) /\ TableOK(slots, cap)
  BY DEF Inv, TypeOK
<1>2. CASE Present(k)
  <2>1. j \in Full(slots) /\ slots[j][1] = k /\ k \in KeysOf(slots)
    BY <1>2, PresentLemma
  <2>2. PICK U : Written(slots, U, j, Tombstone)
    BY DEF Written
  <2>3. slots' = U /\ ret' = <<"removed", k>>
    BY <1>2, <2>2 DEF Remove, Written
  <2> HIDE DEF j
  <2>4. /\ U \in Tables(cap) /\ TableOK(U, cap)
        /\ Full(U) = Full(slots) \ {j} /\ KeysOf(U) = KeysOf(slots) \ {k}
        /\ \A a \in 0 .. cap-1 : U[a] = IF a = j THEN Tombstone ELSE slots[a]
    BY <1>1, <2>1, <2>2, RemoveTable
  <2>5. Full(slots) \subseteq 0 .. cap-1
    BY <1>1 DEF Full, Tables
  <2>6. KeepsOthers(slots, U, k)
    BY <2>1, <2>4, <2>5 DEF KeepsOthers
  <2>7. MapOf(U) = Without(MapOf(slots), k)
    BY <1>1, <2>4, <2>6, MapOfRemove
  <2> QED BY <2>1, <2>3, <2>7
<1>3. CASE ~Present(k)
  <2>1. k \notin KeysOf(slots) /\ slots' = slots /\ ret' = <<"absent", k>>
    BY <1>3, PresentLemma DEF Remove
  <2>2. KeysOf(slots) = KeysOf(slots) \ {k} /\ KeepsOthers(slots, slots, k)
    BY <2>1 DEF KeepsOthers
  <2>3. MapOf(slots) = Without(MapOf(slots), k)
    BY <1>1, <2>2, MapOfRemove
  <2> QED BY <2>1, <2>3
<1> QED BY <1>2, <1>3

LEMMA RehashDoneMap ==
  ASSUME Inv, RehashDone
  PROVE  /\ op \in Key \X Val /\ op[1] \notin KeysOf(slots)
         /\ MapOf(slots') = Updated(MapOf(slots), op[1], op[2])
         /\ ret' = <<"inserted", op[1]>>
<1>1. /\ phase = "rehash" /\ oldSlot = cap /\ InsertAbsent(fresh, freshCap, 0, op[1], op[2])
  BY DEF RehashDone
<1>2. /\ cap \in Nat /\ slots \in Tables(cap) /\ TableOK(slots, cap)
      /\ freshCap \in Nat /\ freshCap >= 2
      /\ fresh \in Tables(freshCap) /\ TableOK(fresh, freshCap)
      /\ op \in Key \X Val /\ op[1] \in Key /\ op[2] \in Val /\ op[1] \notin KeysOf(slots)
  BY <1>1 DEF Inv, TypeOK, RehashOK
<1>3. /\ {fresh[j] : j \in Full(fresh)} = {slots[j] : j \in Full(slots)}
      /\ op[1] \notin KeysOf(fresh)
  BY <1>1, <1>2, MoveEnd
<1>4. MapOf(fresh) = MapOf(slots)
  BY <1>2, <1>3, SameMap
<1>5. HasEmpty(fresh, freshCap)
  BY <1>1, InvProbes
<1>6. /\ MapOf(slots') = Updated(MapOf(fresh), op[1], op[2])
      /\ ret' = <<"inserted", op[1]>>
  BY <1>1, <1>2, <1>3, <1>5, InsertMap
<1> QED BY <1>2, <1>4, <1>6

(* The table implements a map: whatever the keys, the hash function and    *)
(* the capacities, every call returns what a finite map would return and   *)
(* leaves what it would leave (hashmap.c:309-327, 357-425).                *)
THEOREM ImplementsMapTheorem == Spec => ImplementsMap
<1>1. Init => Map!Init
  <2>1. MapOf(EmptyTable(0)) = Map!EmptyMap
    BY EmptyTableLemma DEF MapOf, Map!EmptyMap
  <2> QED BY <2>1 DEF Init, Map!Init
<1>2. Inv /\ [Next]_vars => [Map!Next]_<<MapOf(slots), ret>>
  <2> SUFFICES ASSUME Inv, [Next]_vars
               PROVE  Map!Next \/ (MapOf(slots') = MapOf(slots) /\ ret' = ret)
    OBVIOUS
  <2>1. cap \in Nat /\ slots \in Tables(cap) /\ TableOK(slots, cap)
    BY DEF Inv, TypeOK
  <2>2. DOMAIN MapOf(slots) = KeysOf(slots)
    BY <2>1, MapOfLemma
  <2>3. ASSUME NEW k \in Key, NEW v \in Val, Overwrite(k, v) PROVE Map!Next
    <3>1. Map!Insert(k, v)
      BY <2>2, <2>3, OverwriteMap DEF Map!Insert, Updated
    <3> QED BY <3>1 DEF Map!Next
  <2>4. ASSUME NEW k \in Key, NEW v \in Val, InsertNew(k, v) PROVE Map!Next
    <3>1. k \notin KeysOf(slots) /\ cap > 0 /\ InsertAbsent(slots, cap, tombstones, k, v)
      BY <2>1, <2>4, PresentLemma DEF InsertNew, HasRoom
    <3>2. HasEmpty(slots, cap)
      BY <3>1, InvProbes
    <3>3. MapOf(slots') = Updated(MapOf(slots), k, v) /\ ret' = <<"inserted", k>>
      BY <2>1, <3>1, <3>2, InsertMap
    <3>4. Map!Insert(k, v)
      BY <2>2, <3>1, <3>3 DEF Map!Insert, Updated
    <3> QED BY <3>4 DEF Map!Next
  <2>5. CASE RehashDone
    <3>1. Map!Insert(op[1], op[2])
      BY <2>2, <2>5, RehashDoneMap DEF Map!Insert, Updated
    <3>2. op[1] \in Key /\ op[2] \in Val
      BY <2>5, RehashDoneMap
    <3> QED BY <3>1, <3>2 DEF Map!Next
  <2>6. ASSUME NEW k \in Key, InsertFails(k) PROVE Map!Next
    <3>1. Map!InsertFails(k)
      BY <2>2, <2>6, PresentLemma DEF InsertFails, Map!InsertFails, tableVars
    <3> QED BY <3>1 DEF Map!Next
  <2>7. ASSUME NEW k \in Key, Get(k) PROVE Map!Next
    <3>1. /\ Present(k) <=> k \in KeysOf(slots)
          /\ Present(k) => MapOf(slots)[k] = slots[FindIndex(slots, cap, k)][2]
      BY <2>1, PresentLemma, MapOfLemma
    <3>2. Map!Get(k)
      BY <2>2, <2>7, <3>1 DEF Get, Map!Get, tableVars
    <3> QED BY <3>2 DEF Map!Next
  <2>8. ASSUME NEW k \in Key, Remove(k) PROVE Map!Next
    <3>1. Map!Remove(k)
      BY <2>2, <2>8, RemoveMap DEF Map!Remove, Without
    <3> QED BY <3>1 DEF Map!Next
  <2>9. CASE Clear \/ Free
    <3>1. PICK n \in {cap, 0} : slots' = EmptyTable(n) /\ ret' = <<"cleared">>
      BY <2>9 DEF Clear, Free
    <3>2. MapOf(EmptyTable(n)) = Map!EmptyMap
      BY <2>1, EmptyTableLemma DEF MapOf, Map!EmptyMap
    <3>3. Map!Clear
      BY <3>1, <3>2 DEF Map!Clear
    <3> QED BY <3>3 DEF Map!Next
  <2>10. CASE IterNext
    <3>1. slots' = slots
      BY <2>10 DEF IterNext, tableVars
    <3>2. CASE Ahead = {}
      BY <2>10, <3>1, <3>2 DEF IterNext, Map!Next, Map!End
    <3>3. CASE Ahead # {}
      <4> DEFINE j == Min(Ahead)
      <4>1. j \in Full(slots)
        <5>1. Ahead \subseteq Full(slots) /\ Ahead \subseteq Nat
          BY <2>1 DEF Ahead, Full, Tables
        <5> QED BY <3>3, <5>1, MinIsLeast
      <4>2. ret' = <<"item", slots[j][1], slots[j][2]>>
        BY <2>10, <3>3 DEF IterNext
      <4> HIDE DEF j
      <4>3. slots[j][1] \in KeysOf(slots) /\ MapOf(slots)[slots[j][1]] = slots[j][2]
        BY <2>1, <4>1, MapOfLemma
      <4>4. Map!Item
        BY <2>2, <3>1, <4>2, <4>3 DEF Map!Item
      <4> QED BY <4>4 DEF Map!Next
    <3> QED BY <3>2, <3>3
  <2>11. CASE \/ \E k \in Key, v \in Val : RehashStart(k, v)
              \/ RehashAlloc \/ RehashMove \/ IterNew \/ UNCHANGED vars
    <3>1. slots' = slots /\ ret' = ret
      BY <2>11 DEF RehashStart, RehashAlloc, RehashMove, IterNew, vars, tableVars
    <3> QED BY <3>1
  <2>12. CASE RehashFails
    <3>1. op[1] \in Key /\ op[1] \notin KeysOf(slots)
      BY <2>12 DEF RehashFails, Inv, TypeOK, RehashOK
    <3>2. Map!InsertFails(op[1])
      BY <2>2, <2>12, <3>1 DEF RehashFails, Map!InsertFails, tableVars
    <3> QED BY <3>1, <3>2 DEF Map!Next
  <2> QED BY <2>3, <2>4, <2>5, <2>6, <2>7, <2>8, <2>9, <2>10, <2>11, <2>12 DEF Next
<1>3. Map!Spec <=> Map!Init /\ [][Map!Next]_<<MapOf(slots), ret>>
  BY DEF Map!Spec
<1>4. Spec => Map!Init /\ [][Map!Next]_<<MapOf(slots), ret>>
  BY <1>1, <1>2, InitInv, NextInv, PTL DEF Spec
<1> QED BY <1>3, <1>4 DEF ImplementsMap
=============================================================================
