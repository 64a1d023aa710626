-------------------------- MODULE DeliveryContract --------------------------
(***************************************************************************)
(* What the outbox promises a subscriber, without workers, claims, clocks  *)
(* or retries: deliveries are published to streams (one per adapter and    *)
(* subject), each is settled in stream order, a settled one stays settled, *)
(* and only a dead one can be reopened.                                    *)
(***************************************************************************)
EXTENDS Naturals

CONSTANTS Deliveries, StreamOf

VARIABLES
    outcome,   \* outcome[d]: "none" until published, then pending, delivered or dead
    position,  \* position[d]: 0 until published, then its place in the order of publication
    reopened   \* reopened[d]: d was dead once and has been put back

contractVars == <<outcome, position, reopened>>

Ahead(c, d) == /\ StreamOf[c] = StreamOf[d]
               /\ outcome[c] # "none"
               /\ position[c] < position[d]

ContractInit == /\ outcome = [d \in Deliveries |-> "none"]
                /\ position = [d \in Deliveries |-> 0]
                /\ reopened = [d \in Deliveries |-> FALSE]

\* A set of deliveries joins the end of its streams.
Publish(S) ==
    /\ \A d \in S : outcome[d] = "none"
    /\ outcome' = [d \in Deliveries |-> IF d \in S THEN "pending" ELSE outcome[d]]
    /\ position' \in [Deliveries -> Nat]
    /\ \A d \in Deliveries \ S : position'[d] = position[d]
    /\ \A d \in S, c \in Deliveries : outcome[c] # "none" => position[c] < position'[d]
    /\ UNCHANGED reopened

\* The outcome of d: nothing ahead of it waits, but for what was reopened.
Settle(d) ==
    /\ outcome[d] = "pending"
    /\ \A c \in Deliveries : Ahead(c, d) => outcome[c] # "pending" \/ reopened[c]
    /\ \E o \in {"delivered", "dead"} : outcome' = [outcome EXCEPT ![d] = o]
    /\ UNCHANGED <<position, reopened>>

Reopen(d) ==
    /\ outcome[d] = "dead"
    /\ outcome' = [outcome EXCEPT ![d] = "pending"]
    /\ reopened' = [reopened EXCEPT ![d] = TRUE]
    /\ UNCHANGED position

ContractNext == \/ \E S \in SUBSET Deliveries : Publish(S)
                \/ \E d \in Deliveries : Settle(d) \/ Reopen(d)

ContractSpec == ContractInit /\ [][ContractNext]_contractVars
=============================================================================
