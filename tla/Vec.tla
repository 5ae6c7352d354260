--------------------------------- MODULE Vec ---------------------------------
(***************************************************************************)
(* std/src/vec.c and string.c over the system allocator of alloc.c: one    *)
(* container, of either kind, and the block it owns.  A string is a vec of *)
(* bytes that has push_str and as_cstr in place of pop and get.  usize is  *)
(* narrow, so that lengths, capacities and byte counts meet its end; any   *)
(* allocation may fail.                                                    *)
(*                                                                         *)
(* Names have a prefix where other modules that share an instance with     *)
(* this one have the same variable or action.                              *)
(***************************************************************************)
EXTENDS Integers, Sequences

CONSTANTS Elem,      \* the elements, of a size other than 0
          NULL,      \* no element; also what a zero-sized element looks like
          Bits,      \* the width of usize
          MaxUsize,  \* (usize)-1
          FirstCap,  \* the first capacity: 8 in the code
          HeapMax,   \* the allocator has no block of more bytes than this
          MaxAlign,  \* alignof(max_align_t)
          Layout     \* the element types: pairs of a size and an alignment

(* As C has it, the size of a type is a multiple of its alignment, which   *)
(* is a power of two.                                                      *)
ASSUME VecAssumption ==
  /\ NULL \notin Elem
  /\ Bits \in Nat /\ MaxUsize \in Nat /\ MaxUsize + 1 = 2 ^ Bits /\ FirstCap \in 1 .. MaxUsize
  /\ HeapMax \in 0 .. MaxUsize /\ MaxAlign \in Nat \ {0}
  /\ \A t \in Layout : /\ t[1] \in 0 .. MaxUsize
                       /\ t[2] \in 1 .. MaxUsize /\ (MaxUsize + 1) % t[2] = 0
                       /\ t[1] % t[2] = 0

VARIABLES
  kind,    \* "vec" or "string"
  type,    \* elem_size and elem_align
  block,   \* the block behind data, as the allocator knows it
  vecCap,  \* cap
  seq,     \* the len elements in use
  got, ok, \* the element and the bool the last call returned
  touched  \* the highest element the last call wrote

vecVars == <<kind, type, block, vecCap, seq, got, ok, touched>>

esize == type[1]
align == type[2]
NoBlock == [size |-> 0, align |-> 0, bytes |-> 0]

VecInit ==
  /\ kind \in {"vec", "string"}
  /\ type \in IF kind = "vec" THEN Layout ELSE {<<1, 1>>}
  /\ block = NoBlock /\ vecCap = 0 /\ seq = <<>>
  /\ got = NULL /\ ok = TRUE /\ touched = 0

-----------------------------------------------------------------------------
(* The allocator.  A block knows the size and alignment it was asked for   *)
(* and the bytes it has; over-aligned sizes are rounded up, and may wrap.  *)
RoundUp(size, al) == LET n == (size + al - 1) % (MaxUsize + 1) IN n - (n % al)

Block(size, al) ==
  [size |-> size, align |-> al, bytes |-> IF al <= MaxAlign THEN size ELSE RoundUp(size, al)]

SysAllocate(size, al) ==
  IF size # 0 /\ Block(size, al).bytes <= HeapMax THEN {Block(size, al), NoBlock} ELSE {NoBlock}

(* sys_reallocate: how many bytes of the old block the new one has.        *)
Copied(old, new) == IF old < new THEN old ELSE new

-----------------------------------------------------------------------------
(* next_cap: the first doubling that is enough, or need itself when the    *)
(* next doubling would wrap.                                               *)
NextCap(current, need) ==
  LET first == IF current < FirstCap THEN FirstCap ELSE current
      fit   == {c \in need .. MaxUsize : \E k \in 0 .. Bits : c = first * 2 ^ k}
  IN  IF fit = {} THEN need ELSE CHOOSE c \in fit : \A e \in fit : c <= e

CheckedMul_Bug(a, b) == {(a * b) % (MaxUsize + 1)}
CheckedMul(a, b) == {a * b} \cap (0 .. MaxUsize)    \* empty: it would wrap

Unchanged == [ok |-> TRUE, block |-> block, cap |-> vecCap, seq |-> seq]
Failed_Bug ==                            \* data = realloc(data, ...)
  [ok |-> FALSE, block |-> NoBlock, cap |-> vecCap, seq |-> <<>>]

Failed == [Unchanged EXCEPT !.ok = FALSE]

(* What is left of the elements when the storage moves to n bytes.         *)
Moved(n) ==
  [i \in DOMAIN seq |-> IF block = NoBlock \/ i * esize <= Copied(vecCap * esize, n)
                        THEN seq[i] ELSE NULL]

(* std_vec_reserve, cstd_string_reserve: what may come of it.              *)
Reserve(extra) ==
  LET newCap == NextCap(vecCap, Len(seq) + extra)
  IN  CASE vecCap - Len(seq) >= extra -> {Unchanged}
        [] vecCap - Len(seq) < extra /\ extra > MaxUsize - Len(seq) -> {Failed}
        [] vecCap - Len(seq) < extra /\ extra <= MaxUsize - Len(seq) /\ esize = 0 ->
             {[Unchanged EXCEPT !.cap = newCap]}
        [] OTHER ->
             {Failed} \cup
             {[ok |-> TRUE, block |-> b, cap |-> newCap, seq |-> Moved(b.size)] :
                b \in (UNION {SysAllocate(n, align) : n \in CheckedMul(newCap, esize)}) \ {NoBlock}}

(* A call that reserves, and on success writes s behind the elements.      *)
ReserveAndWrite(extra, s) ==
  /\ \E r \in Reserve(extra) :
       /\ block' = r.block /\ vecCap' = r.cap /\ ok' = r.ok
       /\ seq' = IF r.ok THEN r.seq \o s ELSE r.seq
       /\ touched' = IF r.ok THEN Len(seq) + Len(s) ELSE 0
  /\ got' = NULL
  /\ UNCHANGED <<kind, type>>

(* with_capacity_in is this on a new container.                            *)
VecReserve(extra)    == kind = "vec" /\ ReserveAndWrite(extra, <<>>)
StringReserve(extra) == kind = "string" /\ ReserveAndWrite(extra, <<>>)

(* A zero-sized element is not read.                                       *)
VecPush(v) == kind = "vec" /\ ReserveAndWrite(1, <<IF esize = 0 THEN NULL ELSE v>>)

StringPushByte(b) == kind = "string" /\ ReserveAndWrite(1, <<b>>)

(* push_str and push_cstr, with a view into other memory.                  *)
StringPushStr(s) == kind = "string" /\ ReserveAndWrite(Len(s), s)

(* cstd_string_as_cstr: a NUL behind the last byte, not counted.           *)
StringAsCstr ==
  /\ kind = "string"
  /\ \E r \in Reserve(1) :
       /\ block' = r.block /\ vecCap' = r.cap /\ ok' = r.ok
       /\ seq' = r.seq
       /\ touched' = IF r.ok THEN Len(seq) + 1 ELSE 0
       /\ got' = IF r.ok THEN r.seq ELSE NULL
  /\ UNCHANGED <<kind, type>>

VecPop ==
  /\ kind = "vec"
  /\ ok' = (seq # <<>>)
  /\ got' = IF seq = <<>> THEN NULL ELSE seq[Len(seq)]
  /\ seq' = SubSeq(seq, 1, Len(seq) - 1)
  /\ touched' = 0
  /\ UNCHANGED <<kind, type, block, vecCap>>

(* std_vec_get and get_const; NULL out of range and for zero-sized types.  *)
VecGet(i) ==
  /\ kind = "vec"
  /\ got' = IF i <= Len(seq) THEN seq[i] ELSE NULL
  /\ ok' = (got' # NULL)
  /\ touched' = 0
  /\ UNCHANGED <<kind, type, block, vecCap, seq>>

ClearElements ==
  /\ seq' = <<>>
  /\ got' = NULL /\ ok' = TRUE /\ touched' = 0
  /\ UNCHANGED <<kind, type, block, vecCap>>

VecClear    == kind = "vec" /\ ClearElements
StringClear == kind = "string" /\ ClearElements

(* Without storage, as for zero-sized elements, free does nothing.         *)
FreeBlock ==
  /\ IF block = NoBlock THEN UNCHANGED <<block, vecCap, seq>>
     ELSE block' = NoBlock /\ vecCap' = 0 /\ seq' = <<>>
  /\ got' = NULL /\ ok' = TRUE /\ touched' = 0
  /\ UNCHANGED <<kind, type>>

VecFree    == kind = "vec" /\ FreeBlock
StringFree == kind = "string" /\ FreeBlock

VecNext ==
  \/ \E n \in 0 .. MaxUsize : VecReserve(n) \/ StringReserve(n)
  \/ \E v \in Elem : VecPush(v) \/ StringPushByte(v)
  \/ \E n \in 0 .. 2 : \E s \in [1 .. n -> Elem] : StringPushStr(s)
  \/ \E i \in 1 .. Len(seq) + 1 : VecGet(i)
  \/ VecPop \/ VecClear \/ VecFree
  \/ StringAsCstr \/ StringClear \/ StringFree

VecSpec == VecInit /\ [][VecNext]_vecVars

-----------------------------------------------------------------------------
(* The storage is what the bookkeeping says (vec.c:35-43, string.c:70-75,  *)
(* alloc.c:21-29): the block was asked for with exactly the size and       *)
(* alignment that will be handed back, it has at least those bytes, the    *)
(* elements fit, and no call wrote behind them: no product of capacity and *)
(* size, no doubling and no rounding has wrapped.                          *)
StorageSound ==
  /\ Len(seq) <= vecCap /\ vecCap <= MaxUsize /\ touched <= vecCap
  /\ block # NoBlock => /\ block.size = vecCap * esize /\ block.align = align
                        /\ block.bytes >= vecCap * esize
  /\ block = NoBlock => vecCap * esize = 0

(* It is a sequence, whose contents survive growth and failed growth.      *)
Contract == INSTANCE SequenceContract WITH Val <- Elem \cup {NULL}
ImplementsSequence == Contract!Spec
=============================================================================
