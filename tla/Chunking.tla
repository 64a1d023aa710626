------------------------------ MODULE Chunking ------------------------------
(***************************************************************************)
(* Bounded work: fan-out, the claims, the retention sweeps and the tick    *)
(* jobs all take the first rows by id, up to a cap.  The cap itself is     *)
(* left open: a chunk is any set of first rows, but never none of some.    *)
(***************************************************************************)
EXTENDS Integers

Chunks(S) == {C \in SUBSET S : /\ C = {} => S = {}
                               /\ \A x \in C, y \in S \ C : x < y}
=============================================================================
