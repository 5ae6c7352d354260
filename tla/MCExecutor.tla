----------------------------- MODULE MCExecutor -----------------------------
(***************************************************************************)
(* Finite instances of Executor.  The state space is finite without bounds:*)
(* every task box is used once.                                            *)
(***************************************************************************)
EXTENDS Executor, TLC

Symmetry == Permutations(Task) \cup Permutations(Slot)
=============================================================================
