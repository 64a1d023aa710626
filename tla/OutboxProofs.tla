---------------------------- MODULE OutboxProofs ----------------------------
(***************************************************************************)
(* The safety of module Outbox for any number of workers, events and       *)
(* adapters, and any value of its bounds.                                  *)
(*                                                                         *)
(* The argument: while no lock connection has been lost, every process     *)
(* that is not down holds the lock, so at most one is up (LockInv).  What  *)
(* that one holds between a claim and a record can then be moved by nobody *)
(* else but an admin's replay, and a replay only touches dead letters,     *)
(* which nobody holds (HeldInv).  The stream order of a batch survives     *)
(* because only fan-out and replay make a delivery pending: the first      *)
(* needs the lock, the second leaves a mark (OrderInv).                    *)
(***************************************************************************)
EXTENDS Outbox, TLAPS

\* Facts that hold whatever happens to the lock: a delivery exists only for a
\* fanned-out event, unused columns are at their defaults, a worker's clock is
\* never ahead.
TableInv ==
    /\ \A d \in D : status[d] = "none" => attempt[d] = 0 /\ replays[d] = 0
    /\ \A d \in D : status[d] # "none" => evState[d[1]] = "dispatched"
    /\ \A e \in Events : order[e] # 0 => evState[e] = "dispatched"
    /\ \A e \in Events : order[e] < nextOrder
    /\ \A e \in Events : nulled[e] => evState[e] = "dispatched"

WorkerInv ==
    \A w \in Workers :
        /\ now[w] <= clock
        /\ phase[w] \notin {"drain", "handling"} => batch[w] = {}
        /\ phase[w] # "nulling" => nulls[w] = {}
        /\ phase[w] = "handling" => row[w].d \notin batch[w] /\ status[row[w].d] # "none"
        /\ \A d \in batch[w] : status[d] # "none"
        /\ \A e \in nulls[w] : evState[e] = "dispatched"

LockInv == lockDrops = 0 => \A w \in Workers : phase[w] # "down" => lockHolder = w

HeldInv ==
    lockDrops = 0 =>
        \A w \in Workers :
            /\ \A d \in batch[w] : status[d] = "pending"
            /\ phase[w] = "handling" => /\ status[row[w].d] = "pending"
                                        /\ nextAt[row[w].d] = row[w].nextAt
                                        /\ attempt[row[w].d] = row[w].attempt

OrderInv ==
    lockDrops = 0 =>
        \A w \in Workers : \A d \in Held(w) : \A c \in D :
            Earlier(c, d) => status[c] # "pending" \/ replays[c] > 0

NullInv ==
    lockDrops = 0 =>
        \A w \in Workers : \A d \in D :
            d[1] \in nulls[w] => status[d] # "pending" \/ replays[d] > 0

BaseInv == TypeOK /\ TableInv /\ WorkerInv /\ PendingHasBudget /\ RetryHorizon

Inv == BaseInv /\ LockInv /\ HeldInv /\ OrderInv /\ NullInv /\ PayloadPresent

-----------------------------------------------------------------------------
(* Types.                                                                   *)

\* A worker that fetched nothing has a row all the same: D is not empty.
LEMMA NoRowType == NoRow \in Row
  <1>1. PICK e \in Events, a \in Adapters : TRUE
    BY OutboxAssumption
  <1>2. <<e, a>> \in D
    BY DEF D
  <1>3. (CHOOSE d \in D : TRUE) \in D
    BY <1>2
  <1> QED
    BY <1>3 DEF NoRow, Row

\* RetryDelays: whatever hint a subscriber sent, the delay is clamped to the cap.
LEMMA DelayBound == \A n \in Nat : \A delay \in RetryDelays(n) :
                        delay \in Nat /\ delay <= BackoffCap
  BY OutboxAssumption DEF RetryDelays, Backoff, Lesser, Greater

\* _record writes a status, an attempt count and a schedule of the right types.
LEMMA RecordType ==
  ASSUME TypeOK, NEW w \in Workers, NEW st \in {"pending", "delivered", "dead"},
         NEW att \in Nat, NEW at \in Nat, Record(w, st, att, at)
  PROVE  /\ status' \in [D -> {"none", "pending", "delivered", "dead"}]
         /\ attempt' \in [D -> Nat]
         /\ nextAt' \in [D -> Nat]
  BY DEF TypeOK, Record, Row

\* attempt_delivery records one outcome: what it may be, and of which row.
LEMMA AttemptIsRecord ==
  ASSUME TypeOK, NEW w \in Workers, AttemptDelivery(w)
  PROVE  \E st \in {"pending", "delivered", "dead"}, att \in Nat, at \in Nat :
            /\ Record(w, st, att, at)
            /\ st = "pending" => att < MaxAttempts /\ at <= now[w] + BackoffCap
  <1> DEFINE d == row[w].d
             completed == row[w].attempt + 1
  <1>1. d \in D /\ completed \in Nat /\ attempt[d] \in Nat /\ nextAt[d] \in Nat /\ now[w] \in Nat
    BY DEF TypeOK, Row
  <1>2. CASE Record(w, "dead", attempt[d], nextAt[d])
    BY <1>1, <1>2
  <1>3. CASE Record(w, "delivered", completed, nextAt[d])
    BY <1>1, <1>3
  <1>4. CASE Record(w, "dead", completed, nextAt[d])
    BY <1>1, <1>4
  <1>5. ASSUME NEW delay \in RetryDelays(completed), MayRetry(completed),
               Record(w, "pending", completed, now[w] + delay)
        PROVE  \E st \in {"pending", "delivered", "dead"}, att \in Nat, at \in Nat :
                  /\ Record(w, st, att, at)
                  /\ st = "pending" => att < MaxAttempts /\ at <= now[w] + BackoffCap
    <2>1. delay \in Nat /\ delay <= BackoffCap
      BY <1>1, <1>5, DelayBound
    <2>2. now[w] + delay \in Nat /\ now[w] + delay <= now[w] + BackoffCap
      BY <1>1, <2>1, OutboxAssumption
    <2>3. completed < MaxAttempts
      BY <1>5 DEF MayRetry
    <2> HIDE DEF completed
    <2> QED
      BY <1>1, <1>5, <2>2, <2>3
  <1> QED
    BY <1>2, <1>3, <1>4, <1>5 DEF AttemptDelivery

\* TypeOK is inductive by itself.
LEMMA TypeStep == TypeOK /\ [Next]_vars => TypeOK'
  <1> SUFFICES ASSUME TypeOK, [Next]_vars PROVE TypeOK'
    OBVIOUS
  <1> USE OutboxAssumption, NoWorkerAssumption
  <1>1. CASE Tick
    BY <1>1 DEF Tick, TypeOK, events, deliveries, worker, process
  <1>2. ASSUME NEW e \in Events, Emit(e) PROVE TypeOK'
    BY <1>2 DEF Emit, TypeOK, deliveries, worker, process
  <1>3. ASSUME NEW d \in D, Replay(d) PROVE TypeOK'
    BY <1>3 DEF Replay, TypeOK, events, worker, process
  <1>4. ASSUME NEW w \in Workers, Start(w) PROVE TypeOK'
    BY <1>4 DEF Start, TypeOK, events, deliveries
  <1>5. ASSUME NEW w \in Workers, Crash(w) PROVE TypeOK'
    BY <1>5, NoRowType DEF Crash, TypeOK, events, deliveries
  <1>6. ASSUME NEW w \in Workers, Reap(w) \/ LoseLock(w) PROVE TypeOK'
    BY <1>6 DEF Reap, LoseLock, TypeOK, events, deliveries, worker
  <1>7. ASSUME NEW w \in Workers, StartPass(w) PROVE TypeOK'
    BY <1>7 DEF StartPass, Chunks, TypeOK, events, deliveries, process
  <1>8. ASSUME NEW w \in Workers, FanOut(w) PROVE TypeOK'
    BY <1>8 DEF FanOut, TypeOK, process
  <1>9. ASSUME NEW w \in Workers, Claim(w) PROVE TypeOK'
    BY <1>9 DEF Claim, Batches, TypeOK, events, process
  <1>10. ASSUME NEW w \in Workers, Fetch(w) PROVE TypeOK'
    <2>1. PICK d \in batch[w] :
            row' = [row EXCEPT ![w] = [d |-> d, attempt |-> attempt[d], nextAt |-> nextAt[d]]]
      BY <1>10 DEF Fetch
    <2>2. d \in D /\ d[1] \in Events
      BY DEF TypeOK, D
    <2>3. row' \in [Workers -> Row]
      BY <2>1, <2>2 DEF TypeOK, Row
    <2>4. batch' \in [Workers -> SUBSET D]
      BY <1>10 DEF Fetch, TypeOK
    <2> QED
      BY <1>10, <2>3, <2>4 DEF Fetch, TypeOK, events, deliveries, process
  <1>11. ASSUME NEW w \in Workers, Finish(w) PROVE TypeOK'
    <2>1. /\ status' \in [D -> {"none", "pending", "delivered", "dead"}]
          /\ attempt' \in [D -> Nat]
          /\ nextAt' \in [D -> Nat]
      BY <1>11, AttemptIsRecord, RecordType DEF Finish
    <2> QED
      BY <1>11, <2>1, NoRowType DEF Finish, TypeOK, events, process
  <1>12. ASSUME NEW w \in Workers, EndPass(w) PROVE TypeOK'
    BY <1>12 DEF EndPass, TypeOK, events, deliveries, process
  <1>13. ASSUME NEW w \in Workers, NullSelect(w) PROVE TypeOK'
    BY <1>13 DEF NullSelect, Chunks, TypeOK, events, deliveries, process
  <1>14. ASSUME NEW w \in Workers, NullApply(w) PROVE TypeOK'
    <2>1. nulled' \in [Events -> BOOLEAN]
      BY <1>14, Zenon DEF NullApply
    <2> QED
      BY <1>14, <2>1 DEF NullApply, TypeOK, events, deliveries, process
  <1>15. CASE UNCHANGED vars
    BY <1>15 DEF vars, TypeOK, events, deliveries, worker, process
  <1> QED
    BY <1>1, <1>2, <1>3, <1>4, <1>5, <1>6, <1>7, <1>8, <1>9, <1>10, <1>11, <1>12, <1>13, <1>14,
       <1>15 DEF Next, WorkerStep

\* The empty tables and the workers that are down have their types.
LEMMA TypeInit == Init => TypeOK
  BY OutboxAssumption, NoRowType DEF Init, TypeOK

\* The tables and the workers' memory keep their types (TypeOK) for every set of
\* workers, events and adapters.
THEOREM TypeCorrect == Spec => []TypeOK
  BY TypeInit, TypeStep, PTL DEF Spec

-----------------------------------------------------------------------------
(* What needs no lock.                                                      *)

\* A delivery is an event and an adapter.
LEMMA DType == \A d \in D : d[1] \in Events /\ d[2] \in Adapters
  BY DEF D

\* Nothing is pending and nobody has fetched a row at the start.
LEMMA BaseInit == Init => BaseInv
  <1> SUFFICES ASSUME Init PROVE BaseInv
    OBVIOUS
  <1> USE OutboxAssumption, DType DEF Init
  <1>1. TableInv
    BY DEF TableInv
  <1>2. WorkerInv
    BY DEF WorkerInv
  <1>3. PendingHasBudget /\ RetryHorizon
    BY DEF PendingHasBudget, RetryHorizon
  <1> QED
    BY <1>1, <1>2, <1>3, TypeInit DEF BaseInv

\* fan_out_once is the only step that creates deliveries, and only of an event
\* that has none yet.
LEMMA TableStep == BaseInv /\ [Next]_vars => TableInv'
  <1> SUFFICES ASSUME BaseInv, [Next]_vars PROVE TableInv'
    OBVIOUS
  <1>0. TypeOK /\ TableInv /\ WorkerInv
    BY DEF BaseInv
  <1> USE <1>0, DType, OutboxAssumption
  <1>1. CASE \/ Tick \/ UNCHANGED vars
             \/ \E w \in Workers : \/ Start(w) \/ Crash(w) \/ Reap(w) \/ LoseLock(w)
                                   \/ StartPass(w) \/ Fetch(w) \/ EndPass(w) \/ NullSelect(w)
    <2>1. UNCHANGED <<events, status, attempt, replays>>
      BY <1>1 DEF Tick, Start, Crash, Reap, LoseLock, StartPass, Fetch, EndPass, NullSelect,
                  vars, deliveries
    <2> QED
      BY <2>1 DEF TableInv, events
  <1>2. ASSUME NEW e \in Events, Emit(e) PROVE TableInv'
    BY <1>2 DEF Emit, TableInv, TypeOK, deliveries
  <1>3. ASSUME NEW d \in D, Replay(d) PROVE TableInv'
    BY <1>3 DEF Replay, Replayable, TableInv, TypeOK, events
  <1>4. ASSUME NEW w \in Workers, FanOut(w) PROVE TableInv'
    <2>1. PICK e \in todo[w] :
            IF ~StillPending(e)
            THEN UNCHANGED <<evState, order, nextOrder, status, nextAt>>
            ELSE LET made == {d \in D : /\ d[1] = e
                                        /\ d[2] \in Subscribers[e] \cap registered[w]
                                        /\ status[d] = "none"}
                 IN /\ status' = [d \in D |-> IF d \in made THEN "pending" ELSE status[d]]
                    /\ evState' = [evState EXCEPT ![e] = "dispatched"]
                    /\ order' = [order EXCEPT ![e] = nextOrder]
                    /\ nextOrder' = nextOrder + 1
      BY <1>4, Zenon DEF FanOut
    <2>2. e \in Events /\ UNCHANGED <<nulled, attempt, replays>>
      BY <1>4 DEF FanOut, TypeOK
    <2>3. CASE ~StillPending(e)
      BY <2>1, <2>2, <2>3 DEF TableInv
    <2>4. CASE StillPending(e)
      <3>1. \A d \in D : status'[d] = "none" => status[d] = "none"
        BY <2>1, <2>4
      <3>2. \A d \in D : status'[d] # "none" => status[d] # "none" \/ d[1] = e
        BY <2>1, <2>4
      <3>3. \A f \in Events : evState[f] = "dispatched" \/ f = e => evState'[f] = "dispatched"
        BY <2>1, <2>2, <2>4 DEF TypeOK
      <3>4. \A f \in Events : order'[f] < nextOrder'
        BY <2>1, <2>2, <2>4 DEF TypeOK, TableInv
      <3>5. \A f \in Events : order'[f] # 0 => order[f] # 0 \/ f = e
        BY <2>1, <2>2, <2>4 DEF TypeOK
      <3> QED
        BY <2>2, <3>1, <3>2, <3>3, <3>4, <3>5 DEF TableInv
    <2> QED
      BY <2>3, <2>4
  <1>5. ASSUME NEW w \in Workers, Claim(w) PROVE TableInv'
    BY <1>5 DEF Claim, TableInv, events
  <1>6. ASSUME NEW w \in Workers, Finish(w) PROVE TableInv'
    <2>1. PICK st \in {"pending", "delivered", "dead"}, att \in Nat, at \in Nat :
             Record(w, st, att, at)
      BY <1>6, AttemptIsRecord DEF Finish
    <2>2. status[row[w].d] # "none" /\ row[w].d \in D
      BY <1>6 DEF Finish, WorkerInv, TypeOK, Row
    <2>3. \A d \in D : /\ status'[d] = "none" <=> status[d] = "none"
                       /\ status[d] = "none" => attempt'[d] = attempt[d]
      BY <2>1, <2>2 DEF Record, TypeOK
    <2> QED
      BY <1>6, <2>3 DEF Finish, TableInv, events
  <1>7. ASSUME NEW w \in Workers, NullApply(w) PROVE TableInv'
    BY <1>7 DEF NullApply, TableInv, WorkerInv, TypeOK, deliveries
  <1> QED
    BY <1>1, <1>2, <1>3, <1>4, <1>5, <1>6, <1>7 DEF Next, WorkerStep

\* A step of w leaves the memory of the others alone.
LEMMA WorkerStepInv == BaseInv /\ [Next]_vars => WorkerInv'
  <1> SUFFICES ASSUME BaseInv, [Next]_vars PROVE WorkerInv'
    OBVIOUS
  <1>0. TypeOK /\ TableInv /\ WorkerInv
    BY DEF BaseInv
  <1> USE <1>0, OutboxAssumption DEF WorkerInv
  <1>1. CASE Tick \/ UNCHANGED vars
    <2>1. clock <= clock' /\ clock \in Nat /\ clock' \in Nat
      BY <1>1 DEF Tick, vars, TypeOK
    <2>2. UNCHANGED <<evState, status, phase, now, batch, row, nulls>>
      BY <1>1 DEF Tick, vars, events, deliveries, worker
    <2>3. \A w \in Workers : now[w] \in Nat
      BY DEF TypeOK
    <2> QED
      BY <2>1, <2>2, <2>3
  <1>2. ASSUME NEW e \in Events, Emit(e) PROVE WorkerInv'
    BY <1>2 DEF Emit, TypeOK, deliveries, worker
  <1>3. ASSUME NEW d \in D, Replay(d) PROVE WorkerInv'
    BY <1>3 DEF Replay, TypeOK, events, worker, Row
  <1>4. ASSUME NEW w \in Workers, Start(w) \/ Crash(w) \/ Reap(w) \/ LoseLock(w) PROVE WorkerInv'
    <2>1. CASE Start(w)
      BY <2>1 DEF Start, TypeOK, events, deliveries
    <2>2. CASE Crash(w)
      BY <2>2 DEF Crash, TypeOK, events, deliveries
    <2>3. CASE Reap(w) \/ LoseLock(w)
      BY <2>3 DEF Reap, LoseLock, events, deliveries, worker
    <2> QED
      BY <1>4, <2>1, <2>2, <2>3
  <1>5. ASSUME NEW w \in Workers, StartPass(w) \/ EndPass(w) PROVE WorkerInv'
    <2>1. CASE StartPass(w)
      BY <2>1 DEF StartPass, TypeOK, events, deliveries
    <2>2. CASE EndPass(w)
      BY <2>2 DEF EndPass, TypeOK, events, deliveries
    <2> QED
      BY <1>5, <2>1, <2>2
  <1>6. ASSUME NEW w \in Workers, FanOut(w) PROVE WorkerInv'
    <2>1. \A d \in D : status[d] # "none" => status'[d] # "none"
      BY <1>6 DEF FanOut
    <2>2. \A e \in Events : evState[e] = "dispatched" => evState'[e] = "dispatched"
      BY <1>6 DEF FanOut, TypeOK
    <2> QED
      BY <1>6, <2>1, <2>2 DEF FanOut, TypeOK, Row
  <1>7. ASSUME NEW w \in Workers, Claim(w) PROVE WorkerInv'
    BY <1>7 DEF Claim, Batches, Claimable, TypeOK, events
  <1>8. ASSUME NEW w \in Workers, Fetch(w) PROVE WorkerInv'
    BY <1>8 DEF Fetch, TypeOK, events, deliveries, Row
  <1>9. ASSUME NEW w \in Workers, Finish(w) PROVE WorkerInv'
    <2>1. PICK st \in {"pending", "delivered", "dead"}, att \in Nat, at \in Nat :
             Record(w, st, att, at)
      BY <1>9, AttemptIsRecord DEF Finish
    <2>2. \A d \in D : status[d] # "none" => status'[d] # "none"
      BY <2>1 DEF Record, TypeOK
    <2> QED
      BY <1>9, <2>2 DEF Finish, TypeOK, Row, events
  <1>10. ASSUME NEW w \in Workers, NullSelect(w) \/ NullApply(w) PROVE WorkerInv'
    <2>1. CASE NullSelect(w)
      BY <2>1 DEF NullSelect, Chunks, Expired, TypeOK, events, deliveries
    <2>2. CASE NullApply(w)
      BY <2>2 DEF NullApply, TypeOK, deliveries
    <2> QED
      BY <1>10, <2>1, <2>2
  <1> QED
    BY <1>1, <1>2, <1>3, <1>4, <1>5, <1>6, <1>7, <1>8, <1>9, <1>10 DEF Next, WorkerStep

\* Only fan-out, a claim, a record and a replay touch a pending delivery.
LEMMA PendingStep == BaseInv /\ [Next]_vars => PendingHasBudget' /\ RetryHorizon'
  <1> SUFFICES ASSUME BaseInv, [Next]_vars PROVE PendingHasBudget' /\ RetryHorizon'
    OBVIOUS
  <1> DEFINE Far == Greater(Visibility, BackoffCap)
  <1>0. /\ TypeOK /\ TableInv /\ WorkerInv /\ PendingHasBudget /\ RetryHorizon
        /\ Far \in Nat /\ Visibility <= Far /\ BackoffCap <= Far
        /\ \A w \in Workers : now[w] \in Nat /\ now[w] <= clock
        /\ clock \in Nat
    BY OutboxAssumption DEF BaseInv, Greater, WorkerInv, TypeOK
  <1> HIDE DEF Far
  <1> SUFFICES ASSUME NEW d \in D, status'[d] = "pending"
               PROVE  attempt'[d] < MaxAttempts /\ nextAt'[d] <= clock' + Far
    BY DEF PendingHasBudget, RetryHorizon, Far
  <1> USE <1>0, OutboxAssumption DEF PendingHasBudget, RetryHorizon
  <1>1. status[d] = "pending" => attempt[d] < MaxAttempts /\ nextAt[d] <= clock + Far
    BY DEF Far
  <1>2. CASE Tick
    BY <1>1, <1>2 DEF Tick, deliveries, TypeOK
  <1>3. CASE /\ UNCHANGED <<status, attempt, nextAt, clock>>
    BY <1>1, <1>3
  <1>4. ASSUME NEW c \in D, Replay(c)
        PROVE  attempt'[d] < MaxAttempts /\ nextAt'[d] <= clock' + Far
    BY <1>1, <1>4 DEF Replay, TypeOK
  <1>5. ASSUME NEW w \in Workers, FanOut(w)
        PROVE  attempt'[d] < MaxAttempts /\ nextAt'[d] <= clock' + Far
    <2>1. UNCHANGED <<attempt, clock>>
      BY <1>5 DEF FanOut
    <2>2. \/ status[d] = "pending" /\ nextAt'[d] = nextAt[d]
          \/ status[d] = "none" /\ nextAt'[d] = now[w]
      BY <1>5 DEF FanOut
    <2> QED
      BY <1>1, <2>1, <2>2 DEF TableInv
  <1>6. ASSUME NEW w \in Workers, Claim(w)
        PROVE  attempt'[d] < MaxAttempts /\ nextAt'[d] <= clock' + Far
    <2>1. UNCHANGED <<status, attempt, clock>>
      BY <1>6 DEF Claim
    <2>2. nextAt'[d] = nextAt[d] \/ nextAt'[d] = now[w] + Visibility
      BY <1>6 DEF Claim
    <2> QED
      BY <1>1, <2>1, <2>2
  <1>7. ASSUME NEW w \in Workers, Finish(w)
        PROVE  attempt'[d] < MaxAttempts /\ nextAt'[d] <= clock' + Far
    <2>1. PICK st \in {"pending", "delivered", "dead"}, att \in Nat, at \in Nat :
             /\ Record(w, st, att, at)
             /\ st = "pending" => att < MaxAttempts /\ at <= now[w] + BackoffCap
      BY <1>7, AttemptIsRecord DEF Finish
    <2>2. \/ status'[d] = status[d] /\ attempt'[d] = attempt[d] /\ nextAt'[d] = nextAt[d]
          \/ status'[d] = st /\ attempt'[d] = att /\ nextAt'[d] = at
      BY <2>1 DEF Record, TypeOK
    <2>3. clock' = clock
      BY <1>7 DEF Finish
    <2> QED
      BY <1>1, <2>1, <2>2, <2>3
  <1>8. CASE \/ UNCHANGED vars
             \/ \E e \in Events : Emit(e)
             \/ \E w \in Workers : \/ Start(w) \/ Crash(w) \/ Reap(w) \/ LoseLock(w)
                                   \/ StartPass(w) \/ Fetch(w) \/ EndPass(w)
                                   \/ NullSelect(w) \/ NullApply(w)
    BY <1>3, <1>8 DEF vars, Emit, Start, Crash, Reap, LoseLock, StartPass, Fetch, EndPass,
                      NullSelect, NullApply, deliveries
  <1> QED
    BY <1>2, <1>4, <1>5, <1>6, <1>7, <1>8 DEF Next, WorkerStep

\* BaseInv is inductive, lost locks included.
LEMMA BaseStep == BaseInv /\ [Next]_vars => BaseInv'
  BY TypeStep, TableStep, WorkerStepInv, PendingStep DEF BaseInv

\* BaseInv holds throughout, whatever is lost, killed or replayed.
LEMMA BaseCorrect == Spec => []BaseInv
  BY BaseInit, BaseStep, PTL DEF Spec

\* MAX_ATTEMPTS bounds every delivery (PendingHasBudget), even when workers overlap
\* and record outcomes on rows they read long ago.
THEOREM BudgetCorrect == Spec => []PendingHasBudget
  <1>1. BaseInv => PendingHasBudget
    BY DEF BaseInv
  <1> QED
    BY <1>1, BaseCorrect, PTL

\* A pending delivery comes due within the claim deadline or the backoff cap
\* (RetryHorizon), for every crash, overlap and Retry-After.
THEOREM HorizonCorrect == Spec => []RetryHorizon
  <1>1. BaseInv => RetryHorizon
    BY DEF BaseInv
  <1> QED
    BY <1>1, BaseCorrect, PTL

\* fan_out_once's re-check under the row lock suffices without the advisory lock:
\* no event is ever fanned out twice (FannedOutOnce).
THEOREM FanOutCorrect == Spec => FannedOutOnce
  <1>1. BaseInv /\ [Next]_vars => [\A e \in Events : order[e] # 0 => order'[e] = order[e]]_vars
    <2> SUFFICES ASSUME BaseInv, Next, NEW e \in Events, order[e] # 0
                 PROVE  order'[e] = order[e]
      OBVIOUS
    <2>1. evState[e] = "dispatched" /\ order \in [Events -> Nat]
      BY DEF BaseInv, TableInv, TypeOK
    <2>2. ASSUME NEW w \in Workers, FanOut(w) PROVE order'[e] = order[e]
      BY <2>1, <2>2 DEF FanOut, StillPending
    <2>3. CASE UNCHANGED order
      BY <2>3
    <2>4. Next => UNCHANGED order \/ \E w \in Workers : FanOut(w)
      BY DEF Next, WorkerStep, Tick, Emit, Replay, Start, Crash, Reap, LoseLock, StartPass, Claim,
             Fetch, Finish, EndPass, NullSelect, NullApply, events
    <2> QED
      BY <2>2, <2>3, <2>4
  <1> QED
    BY <1>1, BaseCorrect, PTL DEF Spec, FannedOutOnce

-----------------------------------------------------------------------------
(* What the lock gives.                                                     *)

\* The advisory lock is free while every process is down.
LEMMA LockInit == Init => LockInv
  BY DEF Init, LockInv

\* Start takes a free lock, and only Reap (of a dead holder) and LoseLock free it.
LEMMA LockStep == BaseInv /\ LockInv /\ [Next]_vars => LockInv'
  <1> SUFFICES ASSUME TypeOK, LockInv, [Next]_vars, lockDrops' = 0, NEW v \in Workers,
                      phase'[v] # "down"
               PROVE  lockHolder' = v
    BY DEF LockInv, BaseInv
  <1> USE NoWorkerAssumption, OutboxAssumption DEF LockInv
  <1>1. ASSUME NEW w \in Workers, Start(w) PROVE lockHolder' = v
    BY <1>1 DEF Start, Acquire, TypeOK
  <1>2. ASSUME NEW w \in Workers, Crash(w) PROVE lockHolder' = v
    BY <1>2 DEF Crash, TypeOK
  <1>3. ASSUME NEW w \in Workers, Reap(w) PROVE lockHolder' = v
    BY <1>3 DEF Reap, worker
  <1>4. ASSUME NEW w \in Workers, LoseLock(w) PROVE lockHolder' = v
    BY <1>4 DEF LoseLock, TypeOK
  <1>5. ASSUME NEW w \in Workers, WorkerStep(w) PROVE lockHolder' = v
    <2>1. UNCHANGED <<lockHolder, lockDrops>>
      BY <1>5 DEF WorkerStep, StartPass, FanOut, Claim, Fetch, Finish, EndPass, NullSelect,
                  NullApply, process
    <2>2. phase[w] # "down" /\ (v # w => phase'[v] = phase[v])
      BY <1>5 DEF WorkerStep, StartPass, FanOut, Claim, Fetch, Finish, EndPass, NullSelect,
                  NullApply, TypeOK
    <2> QED
      BY <2>1, <2>2
  <1>6. CASE UNCHANGED <<phase, lockHolder, lockDrops>>
    BY <1>6
  <1>7. CASE \/ Tick \/ UNCHANGED vars
             \/ (\E e \in Events : Emit(e)) \/ (\E d \in D : Replay(d))
    BY <1>6, <1>7 DEF Tick, vars, Emit, Replay, worker, process
  <1> QED
    BY <1>1, <1>2, <1>3, <1>4, <1>5, <1>7 DEF Next

\* At most one process is up.
LEMMA UpAlone ==
  ASSUME LockInv, lockDrops = 0, NEW v \in Workers, NEW w \in Workers,
         phase[v] # "down", phase[w] # "down"
  PROVE  v = w
  BY DEF LockInv

\* A worker that is not draining holds nothing.
LEMMA HeldUp ==
  ASSUME BaseInv, NEW w \in Workers, NEW d \in Held(w)
  PROVE  phase[w] \in {"drain", "handling"} /\ d \in D
  BY DEF BaseInv, WorkerInv, TypeOK, Held, Row

\* While no lock is lost, what the one live worker has claimed nobody else can move:
\* a claim takes pending rows only, a replay takes dead ones only.
LEMMA HeldStep == BaseInv /\ LockInv /\ HeldInv /\ [Next]_vars => HeldInv'
  <1> SUFFICES ASSUME BaseInv, LockInv, HeldInv, [Next]_vars, lockDrops' = 0, NEW v \in Workers
               PROVE  /\ \A d \in batch'[v] : status'[d] = "pending"
                      /\ phase'[v] = "handling" => /\ status'[row'[v].d] = "pending"
                                                   /\ nextAt'[row'[v].d] = row'[v].nextAt
                                                   /\ attempt'[row'[v].d] = row'[v].attempt
    BY DEF HeldInv
  <1> DEFINE Goal == /\ \A d \in batch'[v] : status'[d] = "pending"
                     /\ phase'[v] = "handling" => /\ status'[row'[v].d] = "pending"
                                                  /\ nextAt'[row'[v].d] = row'[v].nextAt
                                                  /\ attempt'[row'[v].d] = row'[v].attempt
  <1> SUFFICES Goal
    OBVIOUS
  <1>0. TypeOK /\ WorkerInv /\ TypeOK'
    BY TypeStep DEF BaseInv
  <1>1. lockDrops = 0
    BY <1>0, OutboxAssumption DEF Next, WorkerStep, Tick, Emit, Replay, Start, Crash, Reap, LoseLock,
          StartPass, FanOut, Claim, Fetch, Finish, EndPass, NullSelect, NullApply, vars, process,
          TypeOK
  <1>2. /\ \A d \in batch[v] : status[d] = "pending" /\ d \in D
        /\ phase[v] = "handling" => /\ row[v].d \in D /\ row[v].d \notin batch[v]
                                    /\ status[row[v].d] = "pending"
                                    /\ nextAt[row[v].d] = row[v].nextAt
                                    /\ attempt[row[v].d] = row[v].attempt
    BY <1>0, <1>1 DEF HeldInv, WorkerInv, TypeOK, Row
  <1>3. CASE UNCHANGED <<status, nextAt, attempt, batch, row, phase>>
    BY <1>2, <1>3
  <1>4. ASSUME NEW d \in D, Replay(d) PROVE Goal
    BY <1>0, <1>2, <1>4 DEF Replay, Replayable, TypeOK, worker
  <1>5. ASSUME NEW w \in Workers, Start(w) \/ StartPass(w) \/ EndPass(w) \/ NullSelect(w)
                                    \/ NullApply(w)
        PROVE Goal
    <2>1. UNCHANGED <<status, nextAt, attempt, batch, row>>
      BY <1>5 DEF Start, StartPass, EndPass, NullSelect, NullApply, deliveries
    <2>2. phase'[v] = phase[v] \/ phase'[v] # "handling"
      BY <1>0, <1>5 DEF Start, StartPass, EndPass, NullSelect, NullApply, TypeOK
    <2> QED
      BY <1>2, <2>1, <2>2
  <1>6. ASSUME NEW w \in Workers, Crash(w) PROVE Goal
    BY <1>0, <1>2, <1>6 DEF Crash, TypeOK, deliveries
  <1>7. ASSUME NEW w \in Workers, FanOut(w) PROVE Goal
    <2>1. phase[w] = "fanout" /\ UNCHANGED <<attempt, batch, row, phase>>
      BY <1>7 DEF FanOut
    <2>2. v = w \/ phase[v] = "down"
      BY <1>1, <2>1, UpAlone
    <2>3. batch[v] = {} /\ phase[v] # "handling"
      BY <1>0, <2>1, <2>2 DEF WorkerInv
    <2> QED
      BY <2>1, <2>3
  <1>8. ASSUME NEW w \in Workers, Claim(w) PROVE Goal
    <2>1. phase[w] = "fanout" /\ UNCHANGED <<status, attempt, row>>
      BY <1>8 DEF Claim
    <2>2. v = w \/ phase[v] = "down"
      BY <1>1, <2>1, UpAlone
    <2>3. CASE v # w
      <3>1. batch'[v] = {} /\ phase'[v] # "handling"
        BY <1>0, <1>8, <2>2, <2>3 DEF Claim, WorkerInv, TypeOK
      <3> QED
        BY <3>1
    <2>4. CASE v = w
      BY <1>0, <1>8, <2>1, <2>4 DEF Claim, Batches, Claimable, TypeOK
    <2> QED
      BY <2>3, <2>4
  <1>9. ASSUME NEW w \in Workers, Fetch(w) PROVE Goal
    BY <1>0, <1>2, <1>9 DEF Fetch, TypeOK, deliveries
  <1>10. ASSUME NEW w \in Workers, Finish(w) PROVE Goal
    <2>1. phase[w] = "handling" /\ UNCHANGED batch /\ phase' = [phase EXCEPT ![w] = "drain"]
      BY <1>10 DEF Finish
    <2>2. v = w \/ phase[v] = "down"
      BY <1>1, <2>1, UpAlone
    <2>3. phase'[v] # "handling"
      BY <1>0, <2>1, <2>2 DEF TypeOK
    <2>4. v # w => batch[v] = {}
      BY <1>0, <2>2 DEF WorkerInv
    <2>5. PICK st \in {"pending", "delivered", "dead"}, att \in Nat, at \in Nat :
             Record(w, st, att, at)
      BY <1>0, <1>10, AttemptIsRecord DEF Finish
    <2>6. \A d \in batch[w] : d # row[w].d /\ d \in D
      BY <1>0, <2>1 DEF WorkerInv, TypeOK
    <2>7. \A d \in batch[w] : status'[d] = status[d]
      BY <1>0, <2>5, <2>6 DEF Record, TypeOK
    <2> QED
      BY <1>2, <2>1, <2>3, <2>4, <2>7
  <1>11. CASE \/ Tick \/ UNCHANGED vars \/ (\E e \in Events : Emit(e))
              \/ \E w \in Workers : Reap(w) \/ LoseLock(w)
    BY <1>3, <1>11 DEF Tick, vars, Emit, Reap, LoseLock, worker, deliveries
  <1> QED
    BY <1>4, <1>5, <1>6, <1>7, <1>8, <1>9, <1>10, <1>11 DEF Next, WorkerStep

\* While somebody holds a delivery, nobody fans out: only a replay can make a
\* delivery pending that was not, and a replay counts.
LEMMA PendingSource ==
  ASSUME BaseInv, LockInv, HeldInv, [Next]_vars, lockDrops = 0, NEW c \in D,
         status'[c] = "pending", status[c] # "pending"
  PROVE  \/ replays'[c] > 0
         \/ \E w \in Workers : FanOut(w) /\ status[c] = "none"
  <1>0. TypeOK
    BY DEF BaseInv
  <1>1. ASSUME NEW d \in D, Replay(d) PROVE replays'[c] > 0
    BY <1>0, <1>1, OutboxAssumption DEF Replay, TypeOK
  <1>2. ASSUME NEW w \in Workers, FanOut(w) PROVE status[c] = "none"
    BY <1>2 DEF FanOut
  <1>3. ASSUME NEW w \in Workers, Finish(w) PROVE FALSE
    <2>1. PICK st \in {"pending", "delivered", "dead"}, att \in Nat, at \in Nat :
             Record(w, st, att, at)
      BY <1>0, <1>3, AttemptIsRecord DEF Finish
    <2>2. status[row[w].d] = "pending"
      BY <1>3 DEF Finish, HeldInv
    <2> QED
      BY <1>0, <2>1, <2>2 DEF Record, TypeOK
  <1>4. UNCHANGED status \/ \/ \E d \in D : Replay(d)
                           \/ \E w \in Workers : FanOut(w) \/ Finish(w)
    BY DEF Next, WorkerStep, Tick, Emit, Start, Crash, Reap, LoseLock, StartPass, Claim,
           Fetch, EndPass, NullSelect, NullApply, vars, deliveries
  <1> QED
    BY <1>1, <1>2, <1>3, <1>4

\* Replays are never taken back.
LEMMA ReplaysGrow ==
  ASSUME TypeOK, [Next]_vars, NEW c \in D, replays[c] > 0
  PROVE  replays'[c] > 0
  <1>1. ASSUME NEW d \in D, Replay(d) PROVE replays'[c] > 0
    BY <1>1, OutboxAssumption DEF Replay, TypeOK
  <1>2. UNCHANGED replays \/ \E d \in D : Replay(d)
    BY DEF Next, WorkerStep, Tick, Emit, Start, Crash, Reap, LoseLock, StartPass, FanOut, Claim,
           Fetch, Finish, EndPass, NullSelect, NullApply, vars, deliveries
  <1> QED
    BY <1>1, <1>2

\* Lost lock connections are never taken back.
LEMMA DropsStay == TypeOK /\ [Next]_vars /\ lockDrops' = 0 => lockDrops = 0
  BY OutboxAssumption DEF Next, WorkerStep, Tick, Emit, Replay, Start, Crash, Reap, LoseLock,
     StartPass, FanOut, Claim, Fetch, Finish, EndPass, NullSelect, NullApply, vars, process, TypeOK

\* What a worker holds after a step it held before, or has just claimed.
LEMMA HeldSource ==
  ASSUME TypeOK, [Next]_vars, NEW v \in Workers, NEW d \in Held(v)'
  PROVE  d \in Held(v) \/ Claim(v)
  <1>1. ASSUME NEW w \in Workers, Fetch(w) PROVE d \in Held(v)
    BY <1>1 DEF Fetch, Held, TypeOK
  <1>2. ASSUME NEW w \in Workers, Claim(w), v # w PROVE d \in Held(v)
    BY <1>2 DEF Claim, Held, TypeOK
  <1>3. ASSUME NEW w \in Workers, Finish(w) PROVE d \in Held(v)
    BY <1>3 DEF Finish, Held, TypeOK
  <1>4. ASSUME NEW w \in Workers, Crash(w) PROVE d \in Held(v)
    BY <1>4 DEF Crash, Held, TypeOK
  <1>5. ASSUME NEW w \in Workers, Start(w) \/ StartPass(w) \/ EndPass(w) \/ NullSelect(w)
                                    \/ NullApply(w)
        PROVE d \in Held(v)
    <2>1. UNCHANGED <<batch, row>>
      BY <1>5 DEF Start, StartPass, EndPass, NullSelect, NullApply
    <2>2. phase'[v] = phase[v] \/ phase'[v] # "handling"
      BY <1>5 DEF Start, StartPass, EndPass, NullSelect, NullApply, TypeOK
    <2> QED
      BY <2>1, <2>2 DEF Held
  <1>6. CASE UNCHANGED <<batch, row, phase>>
    BY <1>6 DEF Held
  <1>7. CASE \/ Tick \/ UNCHANGED vars \/ (\E e \in Events : Emit(e)) \/ (\E c \in D : Replay(c))
             \/ \E w \in Workers : Reap(w) \/ LoseLock(w) \/ FanOut(w)
    BY <1>6, <1>7 DEF Tick, vars, Emit, Replay, Reap, LoseLock, FanOut, worker
  <1> QED
    BY <1>1, <1>2, <1>3, <1>4, <1>5, <1>7 DEF Next, WorkerStep

\* The claim's head-of-line rule lasts until the record.
LEMMA OrderStep == BaseInv /\ LockInv /\ HeldInv /\ OrderInv /\ [Next]_vars => OrderInv'
  <1> SUFFICES ASSUME BaseInv, LockInv, HeldInv, OrderInv, [Next]_vars, lockDrops' = 0,
                      NEW v \in Workers, NEW d \in Held(v)', NEW c \in D, Earlier(c, d)',
                      status'[c] = "pending"
               PROVE  replays'[c] > 0
    BY DEF OrderInv, TypeOK
  <1>0. TypeOK /\ TypeOK' /\ lockDrops = 0
    BY TypeStep, DropsStay DEF BaseInv
  <1>1. CASE Claim(v)
    <2>1. UNCHANGED <<status, order>>
      BY <1>1 DEF Claim, events
    <2>2. phase'[v] = "drain" /\ d \in batch'[v]
      BY <1>0, <1>1 DEF Claim, Held, TypeOK
    <2>3. Claimable(d, now[v])
      BY <1>0, <1>1, <2>2 DEF Claim, Batches, TypeOK
    <2>4. Earlier(c, d)
      BY <2>1 DEF Earlier
    <2> QED
      BY <2>1, <2>3, <2>4 DEF Claimable
  <1>2. CASE d \in Held(v)
    <2>1. phase[v] \in {"drain", "handling"} /\ d \in D
      BY <1>2, HeldUp
    <2>2. \A w \in Workers : ~FanOut(w)
      <3> SUFFICES ASSUME NEW w \in Workers, FanOut(w) PROVE FALSE
        OBVIOUS
      <3>1. phase[w] = "fanout"
        BY DEF FanOut
      <3>2. v = w
        BY <1>0, <2>1, <3>1, UpAlone
      <3> QED
        BY <2>1, <3>1, <3>2
    <2>3. UNCHANGED order
      BY <2>2 DEF Next, WorkerStep, Tick, Emit, Replay, Start, Crash, Reap, LoseLock, StartPass,
             Claim, Fetch, Finish, EndPass, NullSelect, NullApply, vars, events
    <2>4. status[c] # "pending" \/ replays[c] > 0
      BY <1>0, <1>2, <2>3 DEF OrderInv, Earlier
    <2>5. CASE status[c] # "pending"
      BY <1>0, <2>2, <2>5, PendingSource
    <2>6. CASE replays[c] > 0
      BY <1>0, <2>6, ReplaysGrow
    <2> QED
      BY <2>4, <2>5, <2>6
  <1> QED
    BY <1>0, <1>1, <1>2, HeldSource

\* Between the two statements of null_event_payloads only a replay can make a
\* delivery of a selected event pending.
LEMMA NullStep == BaseInv /\ LockInv /\ HeldInv /\ NullInv /\ [Next]_vars => NullInv'
  <1> SUFFICES ASSUME BaseInv, LockInv, HeldInv, NullInv, [Next]_vars, lockDrops' = 0,
                      NEW v \in Workers, NEW d \in D, d[1] \in nulls'[v], status'[d] = "pending"
               PROVE  replays'[d] > 0
    BY DEF NullInv
  <1>0. TypeOK /\ WorkerInv /\ lockDrops = 0
    BY DropsStay DEF BaseInv
  <1>1. CASE NullSelect(v)
    <2>1. Expired(d[1], now[v]) /\ status' = status
      BY <1>0, <1>1 DEF NullSelect, Chunks, TypeOK, deliveries
    <2>2. d = <<d[1], d[2]>> /\ d[2] \in Adapters
      BY DEF D
    <2> QED
      BY <2>1, <2>2 DEF Expired
  <1>2. CASE d[1] \in nulls[v]
    <2>1. phase[v] = "nulling"
      BY <1>0, <1>2 DEF WorkerInv
    <2>2. \A w \in Workers : ~FanOut(w)
      <3> SUFFICES ASSUME NEW w \in Workers, FanOut(w) PROVE FALSE
        OBVIOUS
      <3>1. phase[w] = "fanout"
        BY DEF FanOut
      <3>2. v = w
        BY <1>0, <2>1, <3>1, UpAlone
      <3> QED
        BY <2>1, <3>1, <3>2
    <2>3. CASE status[d] # "pending"
      BY <1>0, <2>2, <2>3, PendingSource
    <2>4. CASE replays[d] > 0
      BY <1>0, <2>4, ReplaysGrow
    <2> QED
      BY <1>0, <1>2, <2>3, <2>4 DEF NullInv
  <1>3. nulls'[v] \subseteq nulls[v] \/ NullSelect(v)
    <2>1. ASSUME NEW w \in Workers, Crash(w) \/ NullApply(w) PROVE nulls'[v] \subseteq nulls[v]
      BY <1>0, <2>1 DEF Crash, NullApply, TypeOK
    <2>2. ASSUME NEW w \in Workers, NullSelect(w), w # v PROVE nulls'[v] = nulls[v]
      BY <1>0, <2>2 DEF NullSelect, TypeOK
    <2>3. UNCHANGED nulls \/ \E w \in Workers : Crash(w) \/ NullApply(w) \/ NullSelect(w)
      BY DEF Next, WorkerStep, Tick, Emit, Replay, Start, Reap, LoseLock, StartPass, FanOut, Claim,
             Fetch, Finish, EndPass, vars, worker
    <2> QED
      BY <2>1, <2>2, <2>3
  <1> QED
    BY <1>1, <1>2, <1>3

\* NullApply nulls only what NullSelect found with nothing pending.
LEMMA PayloadStep ==
  BaseInv /\ LockInv /\ HeldInv /\ NullInv /\ PayloadPresent /\ [Next]_vars => PayloadPresent'
  <1> SUFFICES ASSUME BaseInv, LockInv, HeldInv, NullInv, PayloadPresent, [Next]_vars,
                      lockDrops' = 0, NEW d \in D, status'[d] = "pending", replays'[d] = 0
               PROVE  ~nulled'[d[1]]
    BY DEF PayloadPresent
  <1>0. TypeOK /\ TableInv /\ TypeOK' /\ lockDrops = 0 /\ d[1] \in Events
    BY DropsStay, TypeStep, DType DEF BaseInv
  <1>1. replays[d] = 0
    <2>1. ~(replays[d] > 0)
      <3> SUFFICES ASSUME replays[d] > 0 PROVE FALSE
        OBVIOUS
      <3>1. replays'[d] > 0
        BY <1>0, ReplaysGrow
      <3> QED
        BY <3>1
    <2> QED
      BY <1>0, <2>1, OutboxAssumption DEF TypeOK
  <1>2. CASE status[d] = "pending"
    <2>1. ~nulled[d[1]]
      BY <1>0, <1>1, <1>2 DEF PayloadPresent
    <2>2. ASSUME NEW w \in Workers, NullApply(w) PROVE ~nulled'[d[1]]
      <3>1. d[1] \notin nulls[w]
        BY <1>0, <1>1, <1>2 DEF NullInv
      <3> QED
        BY <1>0, <2>1, <2>2, <3>1 DEF NullApply
    <2>3. UNCHANGED nulled \/ \E w \in Workers : NullApply(w)
      BY DEF Next, WorkerStep, Tick, Emit, Replay, Start, Crash, Reap, LoseLock, StartPass,
             FanOut, Claim, Fetch, Finish, EndPass, NullSelect, vars, events
    <2> QED
      BY <2>1, <2>2, <2>3
  <1>3. CASE status[d] # "pending"
    <2>1. PICK w \in Workers : FanOut(w)
      BY <1>0, <1>3, PendingSource
    <2>2. evState[d[1]] = "pending"
      BY <1>3, <2>1 DEF FanOut, StillPending
    <2> QED
      BY <1>0, <2>1, <2>2 DEF FanOut, TableInv
  <1> QED
    BY <1>2, <1>3

\* The inductive invariant holds at the start.
LEMMA InvInit == Init => Inv
  BY BaseInit, LockInit, OutboxAssumption
     DEF Init, Inv, HeldInv, OrderInv, NullInv, PayloadPresent, Held

\* Inv is inductive: one lemma above per conjunct.
LEMMA InvStep == Inv /\ [Next]_vars => Inv'
  BY BaseStep, LockStep, HeldStep, OrderStep, NullStep, PayloadStep DEF Inv

\* The inductive invariant of the whole module.
THEOREM Invariance == Spec => []Inv
  BY InvInit, InvStep, PTL DEF Spec

\* The advisory lock keeps two processes from holding one delivery (OneHandler).
THEOREM LockCorrect == Spec => []OneHandler
  <1>1. Inv => OneHandler
    <2> SUFFICES ASSUME Inv, lockDrops = 0, NEW v \in Workers, NEW w \in Workers, v # w,
                        NEW d \in Held(v), d \in Held(w)
                 PROVE  FALSE
      BY DEF OneHandler
    <2>1. phase[v] # "down" /\ phase[w] # "down"
      BY HeldUp DEF Inv
    <2> QED
      BY <2>1, UpAlone DEF Inv
  <1> QED
    BY <1>1, Invariance, PTL

\* _record's guard never fails while the lock is kept: the outcome of a handler is
\* applied to the row as it was claimed (OutcomeIsRecorded).
THEOREM OutcomeCorrect == Spec => []OutcomeIsRecorded
  <1>1. Inv => OutcomeIsRecorded
    BY DEF Inv, HeldInv, OutcomeIsRecorded
  <1> QED
    BY <1>1, Invariance, PTL

\* Order per adapter and subject (StreamOrder), from the head-of-line rule of
\* _claim and the singleton lock.
THEOREM OrderCorrect == Spec => []StreamOrder
  <1>1. Inv => StreamOrder
    BY DEF Inv, OrderInv, StreamOrder, Held
  <1> QED
    BY <1>1, Invariance, PTL

\* null_event_payloads spares what is still to be delivered (PayloadPresent).
THEOREM PayloadCorrect == Spec => []PayloadPresent
  <1>1. Inv => PayloadPresent
    BY DEF Inv
  <1> QED
    BY <1>1, Invariance, PTL

-----------------------------------------------------------------------------
(* The worker implements the contract.                                      *)

Position == [d \in D |-> IF status[d] = "none" THEN 0 ELSE order[d[1]]]
Reopened == [d \in D |-> replays[d] > 0]

\* Nothing is published at the start.
LEMMA ContractInitially == Init => Contract!ContractInit
  <1> SUFFICES ASSUME Init PROVE Contract!ContractInit
    OBVIOUS
  <1>1. status = [d \in D |-> "none"]
    BY DEF Init
  <1>2. \A d \in D : (replays[d] > 0) = FALSE
    BY DEF Init
  <1>3. Reopened = [d \in D |-> FALSE]
    BY <1>2, Zenon DEF Reopened
  <1>4. Position = [d \in D |-> 0]
    BY <1>1 DEF Position
  <1> QED
    BY <1>1, <1>3, <1>4, Zenon DEF Contract!ContractInit, Reopened, Position

\* One event's fan-out publishes the deliveries it made, after all others.
LEMMA FanOutPublishes ==
  ASSUME Inv, NEW w \in Workers, FanOut(w)
  PROVE  (\E S \in SUBSET D : Contract!Publish(S)) \/ UNCHANGED Contract!contractVars
  <1>0. TypeOK /\ TableInv
    BY DEF Inv, BaseInv
  <1>1. PICK e \in todo[w] :
            IF ~StillPending(e)
            THEN UNCHANGED <<evState, order, nextOrder, status, nextAt>>
            ELSE LET made == {d \in D : /\ d[1] = e
                                        /\ d[2] \in Subscribers[e] \cap registered[w]
                                        /\ status[d] = "none"}
                 IN /\ status' = [d \in D |-> IF d \in made THEN "pending" ELSE status[d]]
                    /\ order' = [order EXCEPT ![e] = nextOrder]
    BY Zenon DEF FanOut
  <1>2. e \in Events /\ UNCHANGED replays
    BY <1>0 DEF FanOut, TypeOK
  <1>3. CASE ~StillPending(e)
    BY <1>1, <1>2, <1>3 DEF Contract!contractVars
  <1>4. CASE StillPending(e)
    <2>0. PICK S \in SUBSET D : S = {d \in D : /\ d[1] = e
                                               /\ d[2] \in Subscribers[e] \cap registered[w]
                                               /\ status[d] = "none"}
      OBVIOUS
    <2>1. /\ status' = [d \in D |-> IF d \in S THEN "pending" ELSE status[d]]
          /\ order' = [order EXCEPT ![e] = nextOrder]
      BY <1>1, <1>4, <2>0
    <2>2. \A d \in D : status[d] # "none" => d[1] # e
      BY <1>0, <1>4 DEF TableInv, StillPending
    <2>3. \A d \in D : order'[d[1]] \in Nat
      BY <1>0, <1>2, <2>1, DType DEF TypeOK
    <2>4. Position' \in [D -> Nat]
      BY <2>3 DEF Position
    <2>5. \A d \in D \ S : Position'[d] = Position[d]
      BY <1>0, <1>2, <2>0, <2>1, <2>2, DType DEF Position, TypeOK
    <2>6. \A d \in S : Position'[d] = nextOrder
      BY <1>0, <1>2, <2>0, <2>1 DEF Position, TypeOK
    <2>7. \A c \in D : status[c] # "none" => Position[c] < nextOrder
      BY <1>0, DType DEF Position, TableInv
    <2>8. \A d \in S, c \in D : status[c] # "none" => Position[c] < Position'[d]
      BY <2>6, <2>7
    <2>9. \A d \in S : status[d] = "none"
      BY <2>0
    <2>10. Reopened' = Reopened
      BY <1>2, Zenon DEF Reopened
    <2>11. Contract!Publish(S)
      BY <2>1, <2>4, <2>5, <2>8, <2>9, <2>10, Zenon DEF Contract!Publish, Position, Reopened
    <2> QED
      BY <2>11
  <1> QED
    BY <1>3, <1>4

\* The record of an outcome settles the delivery, or leaves it pending.
LEMMA FinishSettles ==
  ASSUME Inv, lockDrops = 0, NEW w \in Workers, Finish(w)
  PROVE  (\E d \in D : Contract!Settle(d)) \/ UNCHANGED Contract!contractVars
  <1> DEFINE d == row[w].d
  <1>0. /\ TypeOK /\ d \in D /\ phase[w] = "handling" /\ status[d] = "pending"
        /\ UNCHANGED <<order, replays>>
    BY DEF Inv, BaseInv, HeldInv, TypeOK, Row, Finish, events
  <1>1. PICK st \in {"pending", "delivered", "dead"}, att \in Nat, at \in Nat :
             Record(w, st, att, at)
    BY <1>0, AttemptIsRecord DEF Finish
  <1>2. UNCHANGED status \/ (st # "pending" /\ status' = [status EXCEPT ![d] = st])
    BY <1>0, <1>1 DEF Record, TypeOK
  <1>3. \A c \in D : Contract!Ahead(c, d) => status[c] # "pending" \/ Reopened[c]
    <2> SUFFICES ASSUME NEW c \in D, Contract!Ahead(c, d), status[c] = "pending"
                 PROVE  Reopened[c]
      OBVIOUS
    <2>1. Earlier(c, d)
      BY <1>0 DEF Contract!Ahead, Earlier
    <2>2. d \in Held(w)
      BY <1>0 DEF Held
    <2>3. replays[c] > 0
      BY <2>1, <2>2 DEF Inv, OrderInv
    <2> QED
      BY <2>3 DEF Reopened
  <1>4. Reopened' = Reopened
    BY <1>0, Zenon DEF Reopened
  <1>5. Position' = Position
    <2>1. \A c \in D : status'[c] = "none" <=> status[c] = "none"
      BY <1>0, <1>2 DEF TypeOK
    <2> QED
      BY <1>0, <2>1 DEF Position
  <1>6. CASE UNCHANGED status
    BY <1>4, <1>5, <1>6, Zenon DEF Contract!contractVars, Position, Reopened
  <1>7. CASE st # "pending" /\ status' = [status EXCEPT ![d] = st]
    <2>1. \E o \in {"delivered", "dead"} : status' = [status EXCEPT ![d] = o]
      BY <1>7
    <2>2. Contract!Settle(d)
      BY <1>0, <1>3, <1>4, <1>5, <2>1, Zenon DEF Contract!Settle, Position, Reopened
    <2>3. \E c \in D : Contract!Settle(c)
      <3> USE <1>0
      <3> WITNESS d \in D
      <3> QED
        BY <2>2
    <2> QED
      BY <2>3
  <1> QED
    BY <1>2, <1>6, <1>7

\* A replay reopens a dead letter.
LEMMA ReplayReopens ==
  ASSUME Inv, NEW d \in D, Replay(d)
  PROVE  Contract!Reopen(d)
  <1>0. /\ TypeOK /\ status[d] = "dead" /\ UNCHANGED order
        /\ status' = [status EXCEPT ![d] = "pending"]
    BY DEF Inv, BaseInv, Replay, Replayable, events
  <1>1. (replays'[d] > 0) = TRUE
    BY <1>0, OutboxAssumption DEF Replay, TypeOK
  <1>2. \A c \in D : c # d => replays'[c] = replays[c]
    BY <1>0 DEF Replay, TypeOK
  <1>3. Reopened' = [Reopened EXCEPT ![d] = TRUE]
    BY <1>1, <1>2, Zenon DEF Reopened
  <1>4. Position' = Position
    <2>1. \A c \in D : status'[c] = "none" <=> status[c] = "none"
      BY <1>0 DEF TypeOK
    <2> QED
      BY <1>0, <2>1 DEF Position
  <1> QED
    BY <1>0, <1>3, <1>4, Zenon DEF Contract!Reopen, Position, Reopened

\* Every step is a step of the contract, or leaves what the subscriber sees alone.
LEMMA ContractStep ==
  ASSUME Inv, lockDrops = 0, [Next]_vars
  PROVE  [Contract!ContractNext]_Contract!contractVars
  <1>1. ASSUME NEW w \in Workers, FanOut(w)
        PROVE  [Contract!ContractNext]_Contract!contractVars
    BY <1>1, FanOutPublishes DEF Contract!ContractNext
  <1>2. ASSUME NEW w \in Workers, Finish(w)
        PROVE  [Contract!ContractNext]_Contract!contractVars
    BY <1>2, FinishSettles DEF Contract!ContractNext
  <1>3. ASSUME NEW d \in D, Replay(d)
        PROVE  [Contract!ContractNext]_Contract!contractVars
    BY <1>3, ReplayReopens DEF Contract!ContractNext
  <1>4. CASE UNCHANGED <<status, order, replays>>
    BY <1>4 DEF Contract!contractVars
  <1>5. \/ UNCHANGED <<status, order, replays>>
        \/ \E d \in D : Replay(d)
        \/ \E w \in Workers : FanOut(w) \/ Finish(w)
    BY DEF Next, WorkerStep, Tick, Emit, Start, Crash, Reap, LoseLock, StartPass, Claim,
           Fetch, EndPass, NullSelect, NullApply, vars, events, deliveries
  <1> QED
    BY <1>1, <1>2, <1>3, <1>4, <1>5

\* Refinement: a deployment that never loses its lock connection implements the
\* delivery contract -- streams settle in order, delivered is final, and only a
\* replay reopens a dead letter (ImplementsContract).
THEOREM Refinement ==
  ASSUME MaxLockDrops = 0
  PROVE  Spec => ImplementsContract
  <1>1. Inv => lockDrops = 0
    BY DEF Inv, BaseInv, TypeOK
  <1>2. Inv /\ [Next]_vars => [Contract!ContractNext]_Contract!contractVars
    BY <1>1, ContractStep
  <1> QED
    BY <1>2, ContractInitially, Invariance, PTL DEF Spec, ImplementsContract, Contract!ContractSpec
=============================================================================
