---------------------------- MODULE MCContainers ----------------------------
(***************************************************************************)
(* Small instances of the parts of std that keep no state in common: a     *)
(* behaviour is one of Vec, HashMap, ListHead, Rc or Arc, and the others   *)
(* rest.                                                                   *)
(***************************************************************************)
EXTENDS Vec, HashMap, ListHead, Rc, Arc, TLC

VARIABLE part

allVars == <<part, vecVars, vars, listVars, rcVars, arcVars>>

AllInit ==
  /\ part \in {"vec", "map", "list", "rc", "arc"}
  /\ VecInit /\ Init /\ ListInit /\ RcInit /\ ArcInit
  /\ part # "vec" => kind = "string"

AllNext ==
  \/ part = "vec" /\ VecNext /\ UNCHANGED <<part, vars, listVars, rcVars, arcVars>>
  \/ part = "map" /\ Next /\ UNCHANGED <<part, vecVars, listVars, rcVars, arcVars>>
  \/ part = "list" /\ ListNext /\ UNCHANGED <<part, vecVars, vars, rcVars, arcVars>>
  \/ part = "rc" /\ RcNext /\ UNCHANGED <<part, vecVars, vars, listVars, arcVars>>
  \/ part = "arc" /\ ArcNext /\ UNCHANGED <<part, vecVars, vars, listVars, rcVars>>

AllSpec == AllInit /\ [][AllNext]_allVars

(* The element types: zero-sized, a byte, three bytes, and an over-aligned *)
(* word.                                                                   *)
Layouts == {<<0, 1>>, <<1, 1>>, <<3, 1>>, <<4, 4>>}

(* Two keys share their home slot at the end of the table, so that their   *)
(* probes wrap around, in every capacity.                                  *)
CONSTANTS k1, k2, k3, k4

Colliding == k1 :> 7 @@ k2 :> 7 @@ k3 :> 0 @@ k4 :> 6

(* Nothing reads the result of the last call on the map, so that states    *)
(* that differ in it alone are one; every step is compared with the map's  *)
(* contract all the same.                                                  *)
NoResult == <<part, vecVars, tableVars, rehashVars, arrays, it, seen, listVars, rcVars, arcVars>>

(* References are alike.                                                   *)
Symmetry == Permutations(Ref)
=============================================================================
