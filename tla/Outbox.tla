------------------------------- MODULE Outbox -------------------------------
(***************************************************************************)
(* The transactional outbox and the worker that drains it                  *)
(* (audit/outbox.py, audit/worker/drain.py, audit/worker/loop.py,          *)
(* audit/worker/singleton.py), with the two other writers of its tables:   *)
(* the admin's delivery.replay (audit/deliveries.py) and the payload       *)
(* retention job (audit/worker/retention.py).                              *)
(*                                                                         *)
(* One action is one database transaction, or one statement where the code *)
(* runs statements on their own.  A worker reads the clock once per pass   *)
(* (now[w]) while the clock runs on; whatever it read stays with it until  *)
(* it is used, and any other process may step in between.                  *)
(*                                                                         *)
(* Times are small naturals: one unit stands for whatever the constants    *)
(* make of it, and only their order and their differences matter.          *)
(***************************************************************************)
EXTENDS Integers, Chunking

CONSTANTS
    Workers,          \* processes that may run the worker command
    Events,           \* outbox_events ids, in the order the ids are allocated
    Adapters,         \* subscriber ids
    SubjectOf,        \* SubjectOf[e]: the subject of event e
    Subscribers,      \* Subscribers[e]: adapters whose patterns and wants() accept e
    Deployments,      \* the adapter registries a worker may be started with
    MaxAttempts,      \* MAX_ATTEMPTS
    BackoffCap,       \* BACKOFF_CAP_SECONDS
    Visibility,       \* CLAIM_VISIBILITY_SECONDS
    Retention,        \* RETENTION
    Hints,            \* retry_after hints a subscriber may return; 0 is no hint
    MaxClock,         \* bound: the horizon of the clock and of every retry
    MaxCrashes,       \* bound: worker processes killed
    MaxLockDrops,     \* bound: advisory-lock connections lost under a live worker
    MaxReplays        \* bound: replays of one delivery

ASSUME OutboxAssumption ==
    /\ Events \subseteq Nat \ {0} /\ Events # {} /\ Adapters # {}
    /\ Subscribers \in [Events -> SUBSET Adapters]
    /\ Deployments \subseteq SUBSET Adapters
    /\ MaxAttempts \in Nat \ {0} /\ BackoffCap \in Nat
    /\ Visibility \in Nat \ {0} /\ Retention \in Nat
    /\ Hints \subseteq Nat /\ 0 \in Hints
    /\ MaxClock \in Nat /\ MaxCrashes \in Nat
    /\ MaxLockDrops \in Nat /\ MaxReplays \in Nat

\* The lock is free.  A worker is never this value.
CONSTANT NoWorker
ASSUME NoWorkerAssumption == NoWorker \notin Workers

VARIABLES
    clock,       \* the wall clock
    evState,     \* evState[e]: "none" before commit, then OutboxEvent.status
    createdAt,   \* OutboxEvent.created_at
    nulled,      \* OutboxEvent.payload_nulled_at is set
    order,       \* order[e]: when e was fanned out; its deliveries' ids follow it
    nextOrder,   \* the next value of that sequence
    status,      \* status[d]: "none" until the row exists, then OutboxDelivery.status
    attempt,     \* OutboxDelivery.attempt
    nextAt,      \* OutboxDelivery.next_attempt_at
    replays,     \* replays of d so far
    phase,       \* where worker w is in its pass
    now,         \* the clock value w's pass was started with
    registered,  \* the subscribers w's process registered when it started
    todo,        \* the pending events w's fan-out has still to lock
    batch,       \* claimed deliveries w has still to attempt
    row,         \* the OutboxDelivery w fetched for the attempt in progress
    nulls,       \* the event ids w's retention job selected
    lockHolder,  \* whose session holds the advisory lock
    crashes,     \* crashes so far
    lockDrops    \* lost lock connections so far

events     == <<evState, createdAt, nulled, order, nextOrder>>
deliveries == <<status, attempt, nextAt, replays>>
worker     == <<phase, now, registered, todo, batch, row, nulls>>
process    == <<lockHolder, crashes, lockDrops>>
vars       == <<clock, events, deliveries, worker, process>>

D == Events \X Adapters

Lesser(a, b)  == IF a <= b THEN a ELSE b
Greater(a, b) == IF a >= b THEN a ELSE b

Row == [d : D, attempt : Nat, nextAt : Nat]
NoRow == [d |-> CHOOSE d \in D : TRUE, attempt |-> 0, nextAt |-> 0]

\* The rows a worker has claimed and not yet recorded an outcome for.
Held(w) == batch[w] \cup (IF phase[w] = "handling" THEN {row[w].d} ELSE {})

\* Same adapter and subject, lower delivery id.
Earlier(c, d) == /\ c[2] = d[2]
                 /\ SubjectOf[c[1]] = SubjectOf[d[1]]
                 /\ order[c[1]] < order[d[1]]

-----------------------------------------------------------------------------
Init ==
    /\ clock = 0
    /\ evState = [e \in Events |-> "none"]
    /\ createdAt = [e \in Events |-> 0]
    /\ nulled = [e \in Events |-> FALSE]
    /\ order = [e \in Events |-> 0]
    /\ nextOrder = 1
    /\ status = [d \in D |-> "none"]
    /\ attempt = [d \in D |-> 0]
    /\ nextAt = [d \in D |-> 0]
    /\ replays = [d \in D |-> 0]
    /\ phase = [w \in Workers |-> "down"]
    /\ now = [w \in Workers |-> 0]
    /\ registered = [w \in Workers |-> {}]
    /\ todo = [w \in Workers |-> {}]
    /\ batch = [w \in Workers |-> {}]
    /\ row = [w \in Workers |-> NoRow]
    /\ nulls = [w \in Workers |-> {}]
    /\ lockHolder = NoWorker
    /\ crashes = 0
    /\ lockDrops = 0

Tick == /\ clock < MaxClock
        /\ clock' = clock + 1
        /\ UNCHANGED <<events, deliveries, worker, process>>

\* A command's transaction that called emit() commits.  Ids are allocated at
\* insert, so events need not become visible in id order.
Emit(e) == /\ evState[e] = "none"
           /\ evState' = [evState EXCEPT ![e] = "pending"]
           /\ createdAt' = [createdAt EXCEPT ![e] = clock]
           /\ UNCHANGED <<clock, nulled, order, nextOrder, deliveries, worker, process>>

-----------------------------------------------------------------------------
(* The worker process and its singleton lock.                               *)

\* Faulty variant: the answer of pg_try_advisory_lock is not looked at.
Acquire_Ignored(w) == TRUE

\* pg_try_advisory_lock succeeds; a worker that finds the lock taken exits.
Acquire(w) == lockHolder = NoWorker

Start(w) == /\ phase[w] = "down"
            /\ Acquire(w)
            /\ lockHolder' = w
            /\ phase' = [phase EXCEPT ![w] = "idle"]
            /\ \E r \in Deployments : registered' = [registered EXCEPT ![w] = r]
            /\ UNCHANGED <<clock, events, deliveries, now, todo, batch, row, nulls,
                           crashes, lockDrops>>

\* SIGKILL, or KeyboardInterrupt through the loop: the process's memory is gone,
\* its rows stay as its last transaction left them.  A kill whose claims would
\* only come due past the horizon is not explored.
Crash(w) == /\ phase[w] # "down"
            /\ crashes < MaxCrashes
            /\ Held(w) = {} \/ now[w] + Visibility <= MaxClock
            /\ crashes' = crashes + 1
            /\ phase' = [phase EXCEPT ![w] = "down"]
            /\ now' = [now EXCEPT ![w] = 0]
            /\ registered' = [registered EXCEPT ![w] = {}]
            /\ todo' = [todo EXCEPT ![w] = {}]
            /\ batch' = [batch EXCEPT ![w] = {}]
            /\ row' = [row EXCEPT ![w] = NoRow]
            /\ nulls' = [nulls EXCEPT ![w] = {}]
            /\ UNCHANGED <<clock, events, deliveries, lockHolder, lockDrops>>

\* Postgres reaps the backend of a dead process and frees its session lock.
Reap(w) == /\ lockHolder = w
           /\ phase[w] = "down"
           /\ lockHolder' = NoWorker
           /\ UNCHANGED <<clock, events, deliveries, worker, crashes, lockDrops>>

\* The lock's own idle connection is lost while the worker runs on: nothing in
\* the loop looks at the lock again.
LoseLock(w) == /\ lockHolder = w
               /\ phase[w] # "down"
               /\ lockDrops < MaxLockDrops
               /\ lockHolder' = NoWorker
               /\ lockDrops' = lockDrops + 1
               /\ UNCHANGED <<clock, events, deliveries, worker, crashes>>

-----------------------------------------------------------------------------
(* One pass of the loop.                                                    *)

\* worker_pass reads the clock, fan_out_once lists the pending events.
StartPass(w) ==
    /\ phase[w] = "idle"
    /\ phase' = [phase EXCEPT ![w] = "fanout"]
    /\ now' = [now EXCEPT ![w] = clock]
    /\ \E C \in Chunks({e \in Events : evState[e] = "pending"}) :
          todo' = [todo EXCEPT ![w] = C]
    /\ UNCHANGED <<clock, events, deliveries, registered, batch, row, nulls, process>>

\* Faulty variant: no second look at the event once it is locked.
StillPending_Unchecked(e) == TRUE

\* The re-check under the event's row lock.
StillPending(e) == evState[e] = "pending"

\* One event's fan-out transaction: lock, re-check, create the missing rows.
FanOut(w) ==
    /\ phase[w] = "fanout"
    /\ \E e \in todo[w] :
        /\ \A f \in todo[w] : e <= f
        /\ todo' = [todo EXCEPT ![w] = @ \ {e}]
        /\ IF ~StillPending(e)
           THEN UNCHANGED <<evState, order, nextOrder, status, nextAt>>
           ELSE LET made == {d \in D : /\ d[1] = e
                                       /\ d[2] \in Subscribers[e] \cap registered[w]
                                       /\ status[d] = "none"}
                IN /\ status' = [d \in D |-> IF d \in made THEN "pending" ELSE status[d]]
                   /\ nextAt' = [d \in D |-> IF d \in made THEN now[w] ELSE nextAt[d]]
                   /\ evState' = [evState EXCEPT ![e] = "dispatched"]
                   /\ order' = [order EXCEPT ![e] = nextOrder]
                   /\ nextOrder' = nextOrder + 1
    /\ UNCHANGED <<clock, createdAt, nulled, attempt, replays, phase, now, registered,
                   batch, row, nulls, process>>

\* Faulty variants: no head-of-line rule; a dead delivery blocks its stream; any
\* due row is claimed, settled or not.
Claimable_AnyOrder(d, t) == status[d] = "pending" /\ nextAt[d] <= t
Claimable_DeadBlocks(d, t) == /\ status[d] = "pending" /\ nextAt[d] <= t
                              /\ \A c \in D : Earlier(c, d) => status[c] \in {"none", "delivered"}
Claimable_AnyStatus(d, t) == /\ status[d] # "none" /\ nextAt[d] <= t
                             /\ \A c \in D : Earlier(c, d) => status[c] # "pending"

\* Due, and no earlier pending delivery for the same adapter and subject.
Claimable(d, t) == /\ status[d] = "pending"
                   /\ nextAt[d] <= t
                   /\ \A c \in D : Earlier(c, d) => status[c] # "pending"

\* Any batch size: the first claimable rows by delivery id, not none of them.
Batches(S) == {B \in SUBSET S : /\ B = {} => S = {}
                                /\ \A c \in B, d \in S \ B : order[c[1]] <= order[d[1]]}

\* The claim transaction: select, push next_attempt_at to the deadline, commit.
Claim(w) ==
    /\ phase[w] = "fanout" /\ todo[w] = {}
    /\ phase' = [phase EXCEPT ![w] = "drain"]
    /\ \E B \in Batches({d \in D : Claimable(d, now[w])}) :
        /\ batch' = [batch EXCEPT ![w] = B]
        /\ nextAt' = [d \in D |-> IF d \in B THEN now[w] + Visibility ELSE nextAt[d]]
    /\ UNCHANGED <<clock, events, status, attempt, replays, now, registered, todo, row,
                   nulls, process>>

\* drain_once re-reads the row by primary key and hands the event to the
\* subscriber.  The read takes the row as it is now, not as the claim left it.
Fetch(w) ==
    /\ phase[w] = "drain"
    /\ \E d \in batch[w] :
        /\ \A c \in batch[w] : order[d[1]] <= order[c[1]]
        /\ batch' = [batch EXCEPT ![w] = @ \ {d}]
        /\ row' = [row EXCEPT ![w] = [d |-> d, attempt |-> attempt[d], nextAt |-> nextAt[d]]]
    /\ phase' = [phase EXCEPT ![w] = "handling"]
    /\ UNCHANGED <<clock, events, deliveries, now, registered, todo, nulls, process>>

\* _record: a conditional update guarded on next_attempt_at alone.
Record(w, st, att, at) ==
    LET d == row[w].d
        hit == nextAt[d] = row[w].nextAt
    IN /\ status' = [status EXCEPT ![d] = IF hit THEN st ELSE @]
       /\ attempt' = [attempt EXCEPT ![d] = IF hit THEN att ELSE @]
       /\ nextAt' = [nextAt EXCEPT ![d] = IF hit THEN at ELSE @]

\* Faulty variant: jitter around zero instead of above it.
Backoff_Centred(n) == {j \in -BackoffCap .. BackoffCap : j <= 2 ^ (n - 1)}

\* backoff(n): full jitter below min(2^(n-1), cap).
Backoff(n) == {j \in 0 .. BackoffCap : j <= 2 ^ (n - 1)}

\* Faulty variant: the hint is taken as it comes.
RetryDelays_Unclamped(n) == {Greater(j, h) : j \in Backoff(n), h \in Hints}

\* The delay of the retry after the n-th attempt: the jitter, raised to the
\* subscriber's hint and clamped to the cap.
RetryDelays(n) ==
    {IF h = 0 THEN j ELSE Lesser(Greater(j, h), BackoffCap) : j \in Backoff(n), h \in Hints}

\* Faulty variant: one attempt too many.
MayRetry_OneMore(completed) == completed <= MaxAttempts

MayRetry(completed) == completed < MaxAttempts

\* attempt_delivery, from the subscriber's answer to the recorded outcome.
AttemptDelivery(w) ==
    LET d == row[w].d
        completed == row[w].attempt + 1
    IN \/ /\ d[2] \notin Subscribers[d[1]] \cap registered[w]
          /\ Record(w, "dead", attempt[d], nextAt[d])
       \/ /\ d[2] \in Subscribers[d[1]] \cap registered[w]
          /\ \/ Record(w, "delivered", completed, nextAt[d])   \* ok, skipped
             \/ Record(w, "dead", completed, nextAt[d])        \* permanent, or exhausted
             \/ /\ MayRetry(completed)                         \* failed or raised
                /\ \E delay \in RetryDelays(completed) :
                     /\ now[w] + delay <= MaxClock
                     /\ Record(w, "pending", completed, now[w] + delay)

Finish(w) ==
    /\ phase[w] = "handling"
    /\ AttemptDelivery(w)
    /\ phase' = [phase EXCEPT ![w] = "drain"]
    /\ row' = [row EXCEPT ![w] = NoRow]
    /\ UNCHANGED <<clock, events, replays, now, registered, todo, batch, nulls, process>>

\* The batch is done and the retention job is not due in this pass.
EndPass(w) == /\ phase[w] = "drain" /\ batch[w] = {}
              /\ phase' = [phase EXCEPT ![w] = "idle"]
              /\ now' = [now EXCEPT ![w] = 0]
              /\ UNCHANGED <<clock, events, deliveries, registered, todo, batch, row, nulls,
                             process>>

-----------------------------------------------------------------------------
(* Payload retention: two statements, the second re-checks only that the    *)
(* payload has not been nulled yet.                                         *)

\* Faulty variant: dispatched is taken for delivered.
Expired_Dispatched(e, t) == evState[e] = "dispatched" /\ ~nulled[e] /\ createdAt[e] + Retention < t

Expired(e, t) == /\ evState[e] = "dispatched"
                 /\ ~nulled[e]
                 /\ createdAt[e] + Retention < t
                 /\ \A a \in Adapters : status[<<e, a>>] # "pending"

NullSelect(w) ==
    /\ phase[w] = "drain" /\ batch[w] = {}
    /\ phase' = [phase EXCEPT ![w] = "nulling"]
    /\ \E C \in Chunks({e \in Events : Expired(e, now[w])}) :
          nulls' = [nulls EXCEPT ![w] = C]
    /\ UNCHANGED <<clock, events, deliveries, now, registered, todo, batch, row, process>>

NullApply(w) ==
    /\ phase[w] = "nulling"
    /\ nulled' = [e \in Events |-> nulled[e] \/ e \in nulls[w]]
    /\ nulls' = [nulls EXCEPT ![w] = {}]
    /\ phase' = [phase EXCEPT ![w] = "idle"]
    /\ now' = [now EXCEPT ![w] = 0]
    /\ UNCHANGED <<clock, evState, createdAt, order, nextOrder, deliveries, registered, todo,
                   batch, row, process>>

-----------------------------------------------------------------------------
\* Faulty variant: a retrying delivery may be replayed too.
Replayable_Retrying(d) == status[d] \in {"dead", "pending"} /\ ~nulled[d[1]]

\* _apply_replay's refusals: not_found, not_dead, payload_nulled.
Replayable(d) == status[d] = "dead" /\ ~nulled[d[1]]

\* An admin puts a dead letter back in the queue.  Every other case is refused
\* and leaves the row alone.
Replay(d) ==
    /\ Replayable(d)
    /\ replays[d] < MaxReplays
    /\ status' = [status EXCEPT ![d] = "pending"]
    /\ attempt' = [attempt EXCEPT ![d] = 0]
    /\ nextAt' = [nextAt EXCEPT ![d] = clock]
    /\ replays' = [replays EXCEPT ![d] = @ + 1]
    /\ UNCHANGED <<clock, events, worker, process>>

WorkerStep(w) == \/ StartPass(w) \/ FanOut(w) \/ Claim(w) \/ Fetch(w) \/ Finish(w)
                 \/ EndPass(w) \/ NullSelect(w) \/ NullApply(w)

Next == \/ Tick
        \/ \E e \in Events : Emit(e)
        \/ \E d \in D : Replay(d)
        \/ \E w \in Workers :
              Start(w) \/ Crash(w) \/ Reap(w) \/ LoseLock(w) \/ WorkerStep(w)

Spec == Init /\ [][Next]_vars

\* The clock runs, a dead backend is reaped, a container that exited is restarted,
\* and a running worker keeps stepping: its handlers time out.  Nobody is obliged
\* to emit, to replay, to crash, or to lose a lock.
Fairness == /\ WF_vars(Tick)
            /\ WF_vars(\E w \in Workers : Start(w))
            /\ \A w \in Workers : WF_vars(Reap(w)) /\ WF_vars(WorkerStep(w))

FairSpec == Spec /\ Fairness

-----------------------------------------------------------------------------
(* Properties.  Those that speak of lockDrops hold for as long as no worker *)
(* has lost its lock under its feet.                                        *)

\* Every variable has its type (models of the tables and of a worker's memory).
TypeOK ==
    /\ clock \in 0 .. MaxClock
    /\ evState \in [Events -> {"none", "pending", "dispatched"}]
    /\ createdAt \in [Events -> 0 .. MaxClock]
    /\ nulled \in [Events -> BOOLEAN]
    /\ order \in [Events -> Nat]
    /\ nextOrder \in Nat \ {0}
    /\ status \in [D -> {"none", "pending", "delivered", "dead"}]
    /\ attempt \in [D -> Nat]
    /\ nextAt \in [D -> Nat]
    /\ replays \in [D -> 0 .. MaxReplays]
    /\ phase \in [Workers -> {"down", "idle", "fanout", "drain", "handling", "nulling"}]
    /\ now \in [Workers -> 0 .. MaxClock]
    /\ registered \in [Workers -> SUBSET Adapters]
    /\ todo \in [Workers -> SUBSET Events]
    /\ batch \in [Workers -> SUBSET D]
    /\ row \in [Workers -> Row]
    /\ nulls \in [Workers -> SUBSET Events]
    /\ lockHolder \in Workers \cup {NoWorker}
    /\ crashes \in 0 .. MaxCrashes
    /\ lockDrops \in 0 .. MaxLockDrops

\* attempt_delivery never leaves a delivery pending once its attempts are used
\* up, however many workers race to record outcomes and whatever they read.
PendingHasBudget == \A d \in D : status[d] = "pending" => attempt[d] < MaxAttempts

\* A pending delivery is never scheduled further away than the claim deadline or
\* the backoff cap: after a crash, and whatever Retry-After a remote sent, it
\* comes due within that time.
RetryHorizon ==
    \A d \in D : status[d] = "pending" => nextAt[d] <= clock + Greater(Visibility, BackoffCap)

\* Ordering per subject: while a subscriber is handed d, every delivery to it for
\* the same subject with a lower id has been settled at least once (a replayed
\* one was dead before it became pending again).
StreamOrder ==
    lockDrops = 0 =>
        \A w \in Workers : phase[w] = "handling" =>
            \A c \in D : Earlier(c, row[w].d) => status[c] # "pending" \/ replays[c] > 0

\* The advisory lock keeps two processes from ever holding the same delivery,
\* across crashes, reaping and restarts.
OneHandler ==
    lockDrops = 0 =>
        \A v, w \in Workers : v # w => Held(v) \cap Held(w) = {}

\* Between the claim and the record nothing moves the row of a handler in
\* progress: its outcome is applied, never discarded as stale.
OutcomeIsRecorded ==
    lockDrops = 0 =>
        \A w \in Workers : phase[w] = "handling" =>
            LET d == row[w].d
            IN status[d] = "pending" /\ nextAt[d] = row[w].nextAt /\ attempt[d] = row[w].attempt

\* Retention leaves the payload of an event alone while a delivery of it is still
\* to be made -- as long as nobody replays a dead letter of it.
PayloadPresent ==
    lockDrops = 0 =>
        \A d \in D : status[d] = "pending" /\ replays[d] = 0 => ~nulled[d[1]]

\* What the module promises its subscribers, as DeliveryContract states it: the
\* position of a delivery is its event's place in the fan-out order.
Contract == INSTANCE DeliveryContract WITH
    Deliveries <- D,
    StreamOf <- [d \in D |-> <<d[2], SubjectOf[d[1]]>>],
    outcome <- status,
    position <- [d \in D |-> IF status[d] = "none" THEN 0 ELSE order[d[1]]],
    reopened <- [d \in D |-> replays[d] > 0]

\* As long as the lock is not lost, the worker implements the contract: settling
\* in stream order, delivered for good, dead until an admin replays.
ImplementsContract == Contract!ContractSpec

\* An event is fanned out exactly once, even by two workers at a time: the order
\* its deliveries got never changes.
FannedOutOnce == [][\A e \in Events : order[e] # 0 => order'[e] = order[e]]_vars

\* At-least-once: every committed event is fanned out, and every delivery is made
\* or dead-lettered, whatever crashes on the way; a dead one releases its stream.
Settles ==
    /\ \A e \in Events : evState[e] = "pending" ~> evState[e] = "dispatched"
    /\ \A d \in D : status[d] = "pending" ~> status[d] \in {"delivered", "dead"}

-----------------------------------------------------------------------------
(* What the documentation says without conditions, and the code does not.   *)

\* drain.py's docstring: a hung handler that returns after its row was re-claimed
\* is discarded, "no stale retried overwriting a delivered".
DeliveredIsFinal ==
    [][\A d \in D : status[d] = "delivered" => status'[d] = "delivered"]_vars

\* retention.py's docstring: payloads are nulled "only [for] events with nothing
\* left to deliver", with no pending delivery.
PendingHasPayload == \A d \in D : status[d] = "pending" => ~nulled[d[1]]
=============================================================================
