------------------------ MODULE IntrusiveListProofs ------------------------
(***************************************************************************)
(* What the operations of IntrusiveList do to membership and distinctness, *)
(* and three facts about numbers that other proofs share.                  *)
(***************************************************************************)
EXTENDS IntrusiveList, Integers, SequenceTheorems, WellFoundedInduction, TLAPS

-----------------------------------------------------------------------------
(* The least-number principle, for a set: what replaces induction where a  *)
(* property of all positions of a list or table is proved.                 *)
LEMMA LeastNumber ==
  ASSUME NEW T \in SUBSET Nat, T # {}
  PROVE  \E x \in T : \A y \in T : x <= y
<1> DEFINE R == OpToRel(<, Nat)
<1>1. IsWellFoundedOn(R, Nat)
  BY NatLessThanWellFounded
<1>2. \A x, y \in Nat : <<y, x>> \in R <=> y < x
  BY DEF OpToRel
<1> HIDE DEF R
<1>3. PICK x \in T : \A y \in T : ~ (<<y, x>> \in R)
  BY <1>1, WFMin
<1>4. ASSUME NEW y \in T PROVE x <= y
  <2>1. x \in Nat /\ y \in Nat
    OBVIOUS
  <2>2. ~ (<<y, x>> \in R)
    BY <1>3
  <2>3. ~ (y < x)
    BY <1>2, <2>1, <2>2, Zenon
  <2> QED BY <2>1, <2>3
<1> QED BY <1>4

(* A sum that fits its unsigned type is not reduced.                       *)
LEMMA NoWrap ==
  ASSUME NEW a \in Nat, NEW m \in Nat, a <= m
  PROVE  a % (m + 1) = a
OBVIOUS

LEMMA Remainder ==
  ASSUME NEW a \in Nat, NEW m \in Nat
  PROVE  a % (m + 1) \in 0 .. m
OBVIOUS

-----------------------------------------------------------------------------
(* Each operation on a list without duplicates changes the membership of   *)
(* one element and keeps the list free of duplicates.                      *)

(* std_list_add_tail of an element that is not linked.                     *)
LEMMA AddTailLemma ==
  ASSUME NEW S, NEW q \in Seq(S), NEW t \in S, Distinct(q), ~Has(q, t)
  PROVE  /\ AddTail(q, t) \in Seq(S)
         /\ Distinct(AddTail(q, t))
         /\ \A x : Has(AddTail(q, t), x) <=> (Has(q, x) \/ x = t)
<1> DEFINE r == AddTail(q, t)
<1>1. /\ r \in Seq(S)
      /\ DOMAIN r = 1 .. (Len(q) + 1)
      /\ DOMAIN q = 1 .. Len(q)
      /\ Len(q) \in Nat
      /\ r[Len(q) + 1] = t
      /\ \A i \in 1 .. Len(q) : r[i] = q[i]
  BY DEF AddTail
<1> HIDE DEF r
<1>2. Distinct(r)
  BY <1>1 DEF Distinct, Has
<1>3. \A x : Has(r, x) <=> (Has(q, x) \/ x = t)
  BY <1>1 DEF Has
<1> QED BY <1>1, <1>2, <1>3 DEF r

(* std_list_del of the head.                                               *)
LEMMA PopLemma ==
  ASSUME NEW S, NEW q \in Seq(S), q # <<>>, Distinct(q)
  PROVE  /\ PopFirst(q) \in Seq(S)
         /\ Head(q) \in S
         /\ Has(q, Head(q))
         /\ Distinct(PopFirst(q))
         /\ \A x : Has(PopFirst(q), x) <=> (Has(q, x) /\ x # Head(q))
<1> DEFINE r == PopFirst(q)
<1>1. /\ r \in Seq(S)
      /\ Len(q) \in Nat \ {0}
      /\ DOMAIN q = 1 .. Len(q)
      /\ DOMAIN r = 1 .. (Len(q) - 1)
      /\ Head(q) = q[1]
      /\ \A i \in 1 .. (Len(q) - 1) : r[i] = q[i + 1]
  BY DEF PopFirst
<1> HIDE DEF r
<1>2. Head(q) \in S /\ Has(q, Head(q))
  BY <1>1 DEF Has
<1>3. ASSUME NEW i \in DOMAIN r, NEW j \in DOMAIN r, r[i] = r[j]
      PROVE  i = j
  <2>1. /\ i + 1 \in DOMAIN q /\ j + 1 \in DOMAIN q
        /\ q[i + 1] = q[j + 1]
        /\ i \in Int /\ j \in Int
    BY <1>1, <1>3
  <2>2. i + 1 = j + 1
    BY <2>1 DEF Distinct
  <2> QED BY <2>1, <2>2
<1>4. ASSUME NEW x PROVE Has(r, x) <=> (Has(q, x) /\ x # Head(q))
  <2>1. ASSUME NEW i \in DOMAIN r, r[i] = x
        PROVE  Has(q, x) /\ x # Head(q)
    BY <1>1, <2>1 DEF Distinct, Has
  <2>2. ASSUME NEW i \in DOMAIN q, q[i] = x, x # Head(q)
        PROVE  Has(r, x)
    <3>1. i - 1 \in DOMAIN r /\ r[i - 1] = q[(i - 1) + 1]
      BY <1>1, <2>2
    <3> QED BY <1>1, <2>2, <3>1 DEF Has
  <2> QED BY <2>1, <2>2 DEF Has
<1>5. Distinct(r)
  BY <1>3 DEF Distinct
<1> QED BY <1>1, <1>2, <1>4, <1>5 DEF r

(* std_list_add_tail of an unlinked element before any position.           *)
LEMMA InsertLemma ==
  ASSUME NEW S, NEW q \in Seq(S), NEW t \in S, NEW k \in 1 .. (Len(q) + 1),
         Distinct(q), ~Has(q, t)
  PROVE  /\ InsertBefore(q, k, t) \in Seq(S)
         /\ Distinct(InsertBefore(q, k, t))
         /\ \A x : Has(InsertBefore(q, k, t), x) <=> (Has(q, x) \/ x = t)
<1> DEFINE r == InsertBefore(q, k, t)
<1>1. /\ Len(q) \in Nat /\ k \in Nat
      /\ DOMAIN q = 1 .. Len(q) /\ \A i \in DOMAIN q : q[i] \in S
  OBVIOUS
<1>2. r = [i \in 1 .. (Len(q) + 1) |->
             IF i < k THEN q[i] ELSE IF i = k THEN t ELSE q[i - 1]]
  BY DEF InsertBefore
<1>3. r \in Seq(S)
  <2>1. Len(q) + 1 \in Nat
    BY <1>1
  <2>2. \A i \in 1 .. (Len(q) + 1) :
          (IF i < k THEN q[i] ELSE IF i = k THEN t ELSE q[i - 1]) \in S
    BY <1>1
  <2> QED BY <1>2, <2>1, <2>2
<1>4. /\ DOMAIN r = 1 .. (Len(q) + 1)
      /\ \A i \in 1 .. (Len(q) + 1) :
           r[i] = IF i < k THEN q[i] ELSE IF i = k THEN t ELSE q[i - 1]
  BY <1>2
<1> HIDE DEF r
<1> DEFINE at(i) == IF i < k THEN i ELSE i - 1
<1>5. ASSUME NEW i \in DOMAIN r, i # k
      PROVE  at(i) \in DOMAIN q /\ r[i] = q[at(i)] /\ r[i] # t
  <2>1. at(i) \in DOMAIN q /\ r[i] = q[at(i)]
    BY <1>1, <1>4, <1>5
  <2> QED BY <2>1 DEF Has
<1>6. k \in DOMAIN r /\ r[k] = t
  BY <1>1, <1>4
<1>7. ASSUME NEW i \in DOMAIN r, NEW j \in DOMAIN r, r[i] = r[j]
      PROVE  i = j
  <2>1. CASE i = k \/ j = k
    BY <1>5, <1>6, <1>7, <2>1
  <2>2. CASE i # k /\ j # k
    <3>1. /\ at(i) \in DOMAIN q /\ at(j) \in DOMAIN q /\ q[at(i)] = q[at(j)]
          /\ i \in Int /\ j \in Int
      BY <1>4, <1>5, <1>7, <2>2
    <3>2. at(i) = at(j)
      <4> HIDE DEF at
      <4> QED BY <3>1 DEF Distinct
    <3> QED BY <1>1, <2>2, <3>1, <3>2
  <2> QED BY <2>1, <2>2
<1>8. Distinct(r)
  BY <1>7 DEF Distinct
<1>9. ASSUME NEW x PROVE Has(r, x) <=> (Has(q, x) \/ x = t)
  <2>1. Has(r, x) => (Has(q, x) \/ x = t)
    BY <1>5, <1>6 DEF Has
  <2>2. ASSUME NEW i \in DOMAIN q, q[i] = x PROVE Has(r, x)
    <3>1. CASE i < k
      <4>1. i \in DOMAIN r /\ r[i] = x
        BY <1>1, <1>4, <2>2, <3>1
      <4> QED BY <4>1 DEF Has
    <3>2. CASE ~(i < k)
      <4>1. i + 1 \in DOMAIN r /\ ~(i + 1 < k) /\ i + 1 # k /\ (i + 1) - 1 = i
        BY <1>1, <1>4, <3>2
      <4>2. r[i + 1] = x
        BY <1>4, <2>2, <4>1
      <4> QED BY <4>1, <4>2 DEF Has
    <3> QED BY <3>1, <3>2
  <2> QED BY <1>6, <2>1, <2>2 DEF Has
<1> QED BY <1>3, <1>8, <1>9 DEF r

(* Popping the first k elements.                                           *)
LEMMA DropFirstLemma ==
  ASSUME NEW S, NEW q \in Seq(S), NEW k \in 0 .. Len(q)
  PROVE  /\ SubSeq(q, k + 1, Len(q)) \in Seq(S)
         /\ DOMAIN SubSeq(q, k + 1, Len(q)) = 1 .. (Len(q) - k)
         /\ \A i \in 1 .. (Len(q) - k) : SubSeq(q, k + 1, Len(q))[i] = q[i + k]
<1> DEFINE n == Len(q)
           r == SubSeq(q, k + 1, n)
<1>1. n \in Nat /\ DOMAIN q = 1 .. n /\ \A i \in 1 .. n : q[i] \in S
  OBVIOUS
<1>2. k \in Nat /\ k + 1 \in Int /\ \A i \in (k + 1) .. n : q[i] \in S
  BY <1>1
<1> HIDE DEF n
<1>3. /\ r \in Seq(S)
      /\ Len(r) = IF k + 1 <= n THEN n - (k + 1) + 1 ELSE 0
      /\ \A i \in 1 .. (n - (k + 1) + 1) : r[i] = q[(k + 1) + i - 1]
  BY <1>1, <1>2, SubSeqProperties
<1>4. k <= n
  BY <1>1 DEF n
<1> HIDE DEF r
<1>5. DOMAIN r = 1 .. (n - k)
  <2>1. Len(r) = n - k
    BY <1>1, <1>2, <1>3, <1>4
  <2> QED BY <1>3, <2>1
<1>6. \A i \in 1 .. (n - k) : r[i] = q[i + k]
  BY <1>1, <1>2, <1>3
<1> QED BY <1>3, <1>5, <1>6 DEF r, n

(* std_list_del of a member anywhere in the queue.                         *)
LEMMA UnlinkLemma ==
  ASSUME NEW S, NEW q \in Seq(S), NEW t, Distinct(q), Has(q, t)
  PROVE  /\ Unlink(q, t) \in Seq(S)
         /\ Distinct(Unlink(q, t))
         /\ \A x : Has(Unlink(q, t), x) <=> (Has(q, x) /\ x # t)
<1> DEFINE k == CHOOSE i \in DOMAIN q : q[i] = t
           r == Unlink(q, t)
<1>1. k \in DOMAIN q /\ q[k] = t
  BY DEF Has
<1>2. Len(q) \in Nat /\ DOMAIN q = 1 .. Len(q) /\ \A i \in DOMAIN q : q[i] \in S
  OBVIOUS
<1>3. r = [i \in 1 .. (Len(q) - 1) |-> IF i < k THEN q[i] ELSE q[i + 1]]
  BY DEF Unlink
<1> HIDE DEF k
<1>4. r \in Seq(S)
  <2>1. Len(q) - 1 \in Nat
    BY <1>1, <1>2
  <2>2. \A i \in 1 .. (Len(q) - 1) : (IF i < k THEN q[i] ELSE q[i + 1]) \in S
    BY <1>1, <1>2
  <2> QED BY <1>3, <2>1, <2>2
<1>5. /\ DOMAIN r = 1 .. (Len(q) - 1)
      /\ \A i \in 1 .. (Len(q) - 1) : r[i] = IF i < k THEN q[i] ELSE q[i + 1]
  BY <1>3
<1> HIDE DEF r
<1> DEFINE at(i) == IF i < k THEN i ELSE i + 1
<1>6. ASSUME NEW i \in DOMAIN r, NEW j \in DOMAIN r, r[i] = r[j]
      PROVE  i = j
  <2>1. /\ at(i) \in DOMAIN q /\ r[i] = q[at(i)]
        /\ at(j) \in DOMAIN q /\ r[j] = q[at(j)]
        /\ i \in Int /\ j \in Int /\ k \in Int
    BY <1>1, <1>2, <1>5
  <2>2. at(i) = at(j)
    <3> HIDE DEF at
    <3> QED BY <1>6, <2>1 DEF Distinct
  <2> QED BY <2>1, <2>2
<1>8. Distinct(r)
  BY <1>6 DEF Distinct
<1>9. ASSUME NEW x PROVE Has(r, x) <=> (Has(q, x) /\ x # t)
  <2>1. ASSUME NEW i \in DOMAIN r, r[i] = x
        PROVE  Has(q, x) /\ x # t
    BY <1>1, <1>2, <1>5, <2>1 DEF Distinct, Has
  <2>2. ASSUME NEW i \in DOMAIN q, q[i] = x, x # t
        PROVE  Has(r, x)
    <3>1. CASE i < k
      <4>1. i \in DOMAIN r /\ r[i] = x
        BY <1>1, <1>2, <1>5, <2>2, <3>1
      <4> QED BY <4>1 DEF Has
    <3>2. CASE ~(i < k)
      <4>1. i # k
        BY <1>1, <2>2
      <4>2. i - 1 \in DOMAIN r /\ ~(i - 1 < k) /\ (i - 1) + 1 = i
        BY <1>1, <1>2, <1>5, <3>2, <4>1
      <4>3. r[i - 1] = x
        BY <1>5, <2>2, <4>2
      <4> QED BY <4>2, <4>3 DEF Has
    <3> QED BY <3>1, <3>2
  <2> QED BY <2>1, <2>2 DEF Has
<1> QED BY <1>4, <1>9, <1>8 DEF r
=============================================================================
