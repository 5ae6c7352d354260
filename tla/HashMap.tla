------------------------------ MODULE HashMap ------------------------------
(***************************************************************************)
(* std/src/hashmap.c: the open-addressing hash map with linear probing and *)
(* tombstones.  The ctrl, keys and values arrays are one function, slots,  *)
(* from 0 .. cap-1: a slot is Empty, a Tombstone, or a pair <<key, value>>.*)
(* Keys stand for their classes under key_eq, which hash must respect.     *)
(*                                                                         *)
(* Each call is one step, except that rehash allocates one array and moves *)
(* one old slot per step.  Keys and values have a size, so that all three  *)
(* arrays are allocated.                                                   *)
(* A probe is described by the offsets o = 0, 1, ... from the home slot.   *)
(***************************************************************************)
EXTENDS Integers, FiniteSetsExt

CONSTANTS Key, Val,
          Hash,             \* m->hash
          Empty, Tombstone, \* SLOT_EMPTY, SLOT_TOMBSTONE
          InitialCap,       \* the first capacity (8 in the code)
          MaxCap            \* the largest capacity the allocator grants

ASSUME HashMapAssumption ==
  /\ Hash \in [Key -> Nat]
  /\ Empty # Tombstone /\ {Empty, Tombstone} \cap (Key \X Val) = {}
  /\ InitialCap \in Nat /\ InitialCap >= 2
  /\ MaxCap \in Nat

VARIABLES
  slots,      \* m->ctrl, m->keys, m->values
  cap,        \* m->cap
  len,        \* m->len
  tombstones, \* m->tombstones
  phase,      \* "idle", or in rehash: "alloc" and then "rehash", the copy
  op,         \* the key and value whose insertion rehashes
  fresh,      \* new_ctrl, new_keys, new_values
  freshCap,   \* new_cap
  freshArrays,\* how many of the three new arrays have been allocated
  arrays,     \* the arrays the allocator has handed out and not got back
  oldSlot,    \* the old slot rehash moves next
  it,         \* iter.slot of the caller's iterator; -1 when it has none
  seen,       \* history: the keys that iterator has returned
  ret         \* the result of the last call

tableVars == <<slots, cap, len, tombstones>>
rehashVars == <<phase, op, fresh, freshCap, oldSlot, freshArrays>>

vars == <<tableVars, rehashVars, arrays, it, seen, ret>>

Tables(n) == [0 .. n-1 -> (Key \X Val) \cup {Empty, Tombstone}]

TypeOK ==
  /\ cap \in Nat /\ slots \in Tables(cap)
  /\ len \in Nat /\ tombstones \in Nat
  /\ phase \in {"idle", "alloc", "rehash"}
  /\ phase # "idle" => /\ op \in Key \X Val
                       /\ freshCap \in Nat /\ fresh \in Tables(freshCap)
                       /\ oldSlot \in 0 .. cap
  /\ it \in Nat \cup {-1}
  /\ seen \subseteq Key

EmptyTable(n) == [j \in 0 .. n-1 |-> Empty]

Init ==
  /\ slots = EmptyTable(0) /\ cap = 0 /\ len = 0 /\ tombstones = 0
  /\ phase = "idle"
  /\ op = <<>> /\ fresh = EmptyTable(0) /\ freshCap = 0 /\ oldSlot = 0
  /\ freshArrays = 0 /\ arrays = 0
  /\ it = -1 /\ seen = {}
  /\ ret = <<"none">>

-----------------------------------------------------------------------------
(* Probing.  The capacity n is a power of two, so that h & (n - 1) is the  *)
(* remainder and the walk wraps around at the end of the table.            *)
Probe(k, n, o) == LET s == (Hash[k] % n) + o IN IF s < n THEN s ELSE s - n

Full(T) == {j \in DOMAIN T : T[j] \notin {Empty, Tombstone}}
Holds(T, j, k) == j \in Full(T) /\ T[j][1] = k

Stops(T, n, k) ==
  {o \in 0 .. n-1 : T[Probe(k, n, o)] = Empty \/ Holds(T, Probe(k, n, o), k)}

(* The walk to the first EMPTY slot takes the first TOMBSTONE it passed,   *)
(* if any: either way the first slot that is not FULL.                     *)
FreeOffsets(T, n, k) == {o \in 0 .. n-1 : Probe(k, n, o) \notin Full(T)}

(* The index of k, or -1.                                                  *)
FindIndex_Bug(T, n, k) ==                \* a tombstone ends the probe
  IF n = 0 THEN -1
  ELSE LET j == Probe(k, n, Min(Stops(T, n, k) \cup FreeOffsets(T, n, k)))
       IN  IF j \in Full(T) THEN j ELSE -1

FindIndex(T, n, k) ==
  IF n = 0 THEN -1
  ELSE LET j == Probe(k, n, Min(Stops(T, n, k))) IN IF T[j] = Empty THEN -1 ELSE j

Present(k) == FindIndex(slots, cap, k) # -1

SlotFor_Bug(T, n, k) == Probe(k, n, 0)                 \* no probing

SlotFor(T, n, k) == Probe(k, n, Min(FreeOffsets(T, n, k)))

InsertAbsent(T, n, tombs, k, v) ==
  /\ slots' = [T EXCEPT ![SlotFor(T, n, k)] = <<k, v>>]
  /\ len' = len + 1
  /\ tombstones' = IF T[SlotFor(T, n, k)] = Tombstone THEN tombs - 1 ELSE tombs
  /\ ret' = <<"inserted", k>>

-----------------------------------------------------------------------------
(* std_hashmap_insert_move.  An iterator is not used after the insertion   *)
(* of a new key, which may resize (hashmap.c:404-405), nor after a failed  *)
(* one; a call that only replaces a value moves no entry.                  *)
Overwrite(k, v) ==
  /\ phase = "idle"
  /\ Present(k)
  /\ LET j == FindIndex(slots, cap, k)
     IN  /\ slots' = [slots EXCEPT ![j] = <<k, v>>]
         /\ ret' = <<"replaced", k, slots[j][2]>>
  /\ UNCHANGED <<cap, len, tombstones, rehashVars, arrays, it, seen>>

(* ensure_one: no more than three quarters of the slots are in use.        *)
HasRoom_Bug == cap # 0 /\ (len + 1) * 4 <= cap * 3      \* tombstones are free

HasRoom == cap # 0 /\ (len + tombstones + 1) * 4 <= cap * 3

NewCap == IF cap = 0 THEN InitialCap
          ELSE IF (len + 1) * 4 > cap * 3 THEN cap * 2 ELSE cap

InsertNew(k, v) ==
  /\ phase = "idle"
  /\ ~Present(k) /\ HasRoom
  /\ InsertAbsent(slots, cap, tombstones, k, v)
  /\ it' = -1 /\ seen' = {}
  /\ UNCHANGED <<cap, rehashVars, arrays>>

(* A size overflows before rehash has allocated anything.                  *)
InsertFails(k) ==
  /\ phase = "idle"
  /\ ~Present(k) /\ ~HasRoom
  /\ ret' = <<"oom", k>>
  /\ it' = -1 /\ seen' = {}
  /\ UNCHANGED <<tableVars, rehashVars, arrays>>

RehashStart(k, v) ==
  /\ phase = "idle"
  /\ ~Present(k) /\ ~HasRoom
  /\ phase' = "alloc"
  /\ op' = <<k, v>>
  /\ freshCap' = NewCap
  /\ fresh' = EmptyTable(NewCap)
  /\ oldSlot' = 0 /\ freshArrays' = 0
  /\ it' = -1 /\ seen' = {}
  /\ UNCHANGED <<tableVars, arrays, ret>>

(* The control bytes, the keys and the values, one after the other.        *)
RehashAlloc ==
  /\ phase = "alloc"
  /\ freshCap <= MaxCap
  /\ freshArrays' = freshArrays + 1 /\ arrays' = arrays + 1
  /\ phase' = IF freshArrays = 2 THEN "rehash" ELSE "alloc"
  /\ UNCHANGED <<tableVars, op, fresh, freshCap, oldSlot, it, seen, ret>>

(* The end of rehash: the insertion and its new arrays are forgotten.      *)
RehashOver == /\ phase' = "idle" /\ op' = <<>>
              /\ fresh' = EmptyTable(0) /\ freshCap' = 0 /\ oldSlot' = 0 /\ freshArrays' = 0

(* One of the allocations fails: those before it are given back.           *)
RehashFails_Bug ==                       \* the keys stay allocated
  /\ phase = "alloc"
  /\ arrays' = arrays - (IF freshArrays > 0 THEN 1 ELSE 0)
  /\ ret' = <<"oom", op[1]>>
  /\ RehashOver
  /\ UNCHANGED <<tableVars, it, seen>>

RehashFails ==
  /\ phase = "alloc"
  /\ arrays' = arrays - freshArrays
  /\ ret' = <<"oom", op[1]>>
  /\ RehashOver
  /\ UNCHANGED <<tableVars, it, seen>>

RehashMove ==
  /\ phase = "rehash"
  /\ oldSlot < cap
  /\ fresh' = IF oldSlot \in Full(slots)
              THEN [fresh EXCEPT ![SlotFor(fresh, freshCap, slots[oldSlot][1])] = slots[oldSlot]]
              ELSE fresh
  /\ oldSlot' = oldSlot + 1
  /\ UNCHANGED <<tableVars, phase, op, freshCap, freshArrays, arrays, it, seen, ret>>

(* free_arrays, which a map that has no storage has none to give back.     *)
OwnArrays == IF cap = 0 THEN 0 ELSE 3

(* The arrays are exchanged, and insert_absent follows.                    *)
RehashDone ==
  /\ phase = "rehash"
  /\ oldSlot = cap
  /\ cap' = freshCap
  /\ InsertAbsent(fresh, freshCap, 0, op[1], op[2])
  /\ arrays' = arrays - OwnArrays
  /\ RehashOver
  /\ UNCHANGED <<it, seen>>

(* std_hashmap_get and std_hashmap_contains                                *)
Get(k) ==
  /\ phase = "idle"
  /\ ret' = IF Present(k) THEN <<"found", k, slots[FindIndex(slots, cap, k)][2]>>
            ELSE <<"absent", k>>
  /\ UNCHANGED <<tableVars, rehashVars, arrays, it, seen>>

Remove_Bug(k) ==                         \* the slot becomes EMPTY
  /\ phase = "idle"
  /\ IF Present(k)
     THEN /\ slots' = [slots EXCEPT ![FindIndex(slots, cap, k)] = Empty]
          /\ len' = len - 1
          /\ ret' = <<"removed", k>>
          /\ UNCHANGED tombstones
     ELSE ret' = <<"absent", k>> /\ UNCHANGED <<slots, len, tombstones>>
  /\ UNCHANGED <<cap, rehashVars, arrays, it, seen>>

Remove(k) ==
  /\ phase = "idle"
  /\ IF Present(k)
     THEN /\ slots' = [slots EXCEPT ![FindIndex(slots, cap, k)] = Tombstone]
          /\ len' = len - 1 /\ tombstones' = tombstones + 1
          /\ ret' = <<"removed", k>>
     ELSE ret' = <<"absent", k>> /\ UNCHANGED <<slots, len, tombstones>>
  /\ UNCHANGED <<cap, rehashVars, arrays, it, seen>>

Clear ==
  /\ phase = "idle"
  /\ slots' = EmptyTable(cap) /\ len' = 0 /\ tombstones' = 0
  /\ ret' = <<"cleared">>
  /\ UNCHANGED <<cap, rehashVars, arrays, it, seen>>

Free ==
  /\ phase = "idle"
  /\ slots' = EmptyTable(0) /\ cap' = 0 /\ len' = 0 /\ tombstones' = 0
  /\ arrays' = arrays - OwnArrays
  /\ ret' = <<"cleared">>
  /\ UNCHANGED <<rehashVars, it, seen>>

-----------------------------------------------------------------------------
IterNew ==
  /\ phase = "idle"
  /\ it' = 0 /\ seen' = {}
  /\ UNCHANGED <<tableVars, rehashVars, arrays, ret>>

Ahead_Bug == {j \in Full(slots) : j > it}              \* a slot is skipped

Ahead == {j \in Full(slots) : j >= it}

IterNext ==
  /\ phase = "idle" /\ it # -1
  /\ IF Ahead = {}
     THEN /\ it' = IF it < cap THEN cap ELSE it
          /\ ret' = <<"end">>
          /\ UNCHANGED seen
     ELSE LET j == Min(Ahead)
          IN  /\ it' = j + 1
              /\ seen' = seen \cup {slots[j][1]}
              /\ ret' = <<"item", slots[j][1], slots[j][2]>>
  /\ UNCHANGED <<tableVars, rehashVars, arrays>>

Next ==
  \/ \E k \in Key, v \in Val : Overwrite(k, v) \/ InsertNew(k, v) \/ RehashStart(k, v)
  \/ RehashAlloc \/ RehashFails \/ RehashMove \/ RehashDone
  \/ \E k \in Key : InsertFails(k) \/ Get(k) \/ Remove(k)
  \/ Clear \/ Free \/ IterNew \/ IterNext

Spec == Init /\ [][Next]_vars

-----------------------------------------------------------------------------
(* The two counters that decide when the table grows or is cleaned         *)
(* (hashmap.c:201-211) count the FULL and the TOMBSTONE slots.             *)
CountsExact ==
  /\ len = Cardinality(Full(slots))
  /\ tombstones = Cardinality({j \in 0 .. cap-1 : slots[j] = Tombstone})

(* "The 0.75 load-factor invariant guarantees an EMPTY slot exists, so the *)
(* probe always terminates" (hashmap.c:213-215): so do the walks for a     *)
(* free slot in insert_absent and rehash.                                  *)
ProbeEnds ==
  /\ cap # 0 => \E j \in 0 .. cap-1 : slots[j] = Empty
  /\ phase # "idle" => \E j \in 0 .. freshCap-1 : fresh[j] = Empty

(* Every entry is found, at its own slot, whatever was inserted, removed   *)
(* and moved before (hashmap.c:216-228): no key is stored twice, and no    *)
(* EMPTY slot interrupts the probe for a stored key.                       *)
EntriesFound == \A j \in Full(slots) : FindIndex(slots, cap, slots[j][1]) = j

(* The map holds the three arrays of its table and what a rehash has       *)
(* allocated so far: none is leaked or given back twice when an allocation *)
(* fails, after an exchange of tables, or by free (hashmap.c:151-196).     *)
ArraysOwned ==
  /\ arrays = OwnArrays + freshArrays
  /\ freshArrays \in CASE phase = "idle" -> {0} [] phase = "alloc" -> 0 .. 2 [] OTHER -> {3}

(* The table is sound: typed, counted right, every entry can be found      *)
(* (hashmap.c:201-228), and its storage is accounted for.                  *)
TableSound == TypeOK /\ CountsExact /\ EntriesFound /\ ArraysOwned

(* The hash map implements a map (hashmap.c:309-327, 357-395).             *)
KeysOf(T) == {T[j][1] : j \in Full(T)}

MapOf(T) == [k \in KeysOf(T) |-> T[CHOOSE j \in Full(T) : T[j][1] = k][2]]

Map == INSTANCE MapContract WITH contents <- MapOf(slots)

ImplementsMap == Map!Spec

(* An exhausted iterator has returned every key still in the map, although *)
(* entries may be removed or overwritten and the map cleared or freed      *)
(* while it runs (hashmap.c:402-425).                                      *)
IterSeesAll == it # -1 /\ it >= cap => KeysOf(slots) \subseteq seen

(* An iterator returns no key twice, whatever is removed or overwritten    *)
(* while it runs, a key it has returned included (hashmap.c:402-425).      *)
IterNoRepeat == [][IterNext /\ ret'[1] = "item" => ret'[2] \notin seen]_vars
=============================================================================
