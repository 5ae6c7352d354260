-------------------------- MODULE SequenceContract --------------------------
(***************************************************************************)
(* What vec.c and string.c promise: the container is a sequence.  A call   *)
(* that needs memory may fail; then the sequence is as it was.             *)
(***************************************************************************)
EXTENDS Naturals, Sequences

CONSTANTS Val,  \* the elements
          NULL  \* no element: an index out of range, an empty vec

VARIABLES seq,  \* the contents
          got,  \* the element or sequence the last call gave the caller
          ok    \* did the last call succeed?

(* Several elements at once: push_str.                                     *)
Append_(s) == \/ ok' = TRUE /\ seq' = seq \o s
              \/ ok' = FALSE /\ UNCHANGED seq

Push == /\ \E n \in 1 .. 2 : \E s \in [1 .. n -> Val] : Append_(s)
        /\ got' = NULL

Pop == /\ ok' = (seq # <<>>)
       /\ seq' = IF seq = <<>> THEN seq ELSE SubSeq(seq, 1, Len(seq) - 1)
       /\ got' = IF seq = <<>> THEN NULL ELSE seq[Len(seq)]

Get == /\ \E i \in 1 .. Len(seq) + 1 :
            got' = IF i <= Len(seq) THEN seq[i] ELSE NULL
       /\ ok' = (got' # NULL)
       /\ UNCHANGED seq

(* reserve and as_cstr                                                     *)
Keep == ok' \in BOOLEAN /\ got' \in {NULL, seq} /\ UNCHANGED seq

Emptied == seq' = <<>> /\ ok' = TRUE /\ got' = NULL

Init == seq = <<>> /\ got = NULL /\ ok = TRUE

Spec == Init /\ [][Push \/ Pop \/ Get \/ Keep \/ Emptied]_<<seq, got, ok>>
=============================================================================
