------------------------------ MODULE MCOutbox ------------------------------
(***************************************************************************)
(* Small instances of Outbox for TLC: two events about one subject, so     *)
(* that the second queues behind the first, and two worker processes, so   *)
(* that one can take over from the other, or overlap it.                   *)
(***************************************************************************)
EXTENDS Outbox, TLC

MCEvents == {1, 2}
MCSubjectOf == [e \in MCEvents |-> "listing"]
MCSubscribers == [e \in MCEvents |-> Adapters]

\* Every deployment registers the adapter; or one forgets it.
SameDeployment == {Adapters}
AnyDeployment == {Adapters, {}}

WorkerSymmetry == Permutations(Workers)
=============================================================================
