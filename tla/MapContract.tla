---------------------------- MODULE MapContract ----------------------------
(***************************************************************************)
(* What std/src/hashmap.c promises its callers: a finite map from keys to  *)
(* values.  ret is the result of the last call with the key it was called  *)
(* with; an insertion of a new key may fail for want of memory and then    *)
(* changes nothing (hashmap.c:309-327).                                    *)
(***************************************************************************)
CONSTANTS Key, Val

VARIABLES contents, ret

EmptyMap == [k \in {} |-> k]

Init == contents = EmptyMap /\ ret = <<"none">>

Insert(k, v) ==
  /\ ret' = IF k \in DOMAIN contents THEN <<"replaced", k, contents[k]>> ELSE <<"inserted", k>>
  /\ contents' = [x \in DOMAIN contents \cup {k} |-> IF x = k THEN v ELSE contents[x]]

InsertFails(k) ==
  /\ ret' = <<"oom", k>>
  /\ k \notin DOMAIN contents
  /\ UNCHANGED contents

Get(k) ==
  /\ ret' = IF k \in DOMAIN contents THEN <<"found", k, contents[k]>> ELSE <<"absent", k>>
  /\ UNCHANGED contents

Remove(k) ==
  /\ ret' = IF k \in DOMAIN contents THEN <<"removed", k>> ELSE <<"absent", k>>
  /\ contents' = [x \in DOMAIN contents \ {k} |-> contents[x]]

Clear == ret' = <<"cleared">> /\ contents' = EmptyMap

(* What an iterator returns is in the map; which entry is not promised.    *)
Item == /\ \E k \in DOMAIN contents : ret' = <<"item", k, contents[k]>>
        /\ UNCHANGED contents

End == ret' = <<"end">> /\ UNCHANGED contents

Next == \/ \E k \in Key, v \in Val : Insert(k, v)
        \/ \E k \in Key : InsertFails(k) \/ Get(k) \/ Remove(k)
        \/ Clear \/ Item \/ End

Spec == Init /\ [][Next]_<<contents, ret>>
=============================================================================
