----------------------------- MODULE MailQueue ------------------------------
(***************************************************************************)
(* The outbound mail queue: audit/mail.py (enqueue), the mail drain        *)
(* (audit/worker/mail_drain.py) and the address retention job              *)
(* (audit/worker/retention.py).                                            *)
(*                                                                         *)
(* A message carries a secret (a claim code, a sign-in link) in body_text, *)
(* with the deadline of that secret.  There is no attempt ceiling: the     *)
(* deadline alone retires a message.  A worker pass reads the clock once;  *)
(* the outbox drain comes first in the pass and may take long.             *)
(*                                                                         *)
(* Workers is the set of processes that run at the same time: one, while   *)
(* the advisory lock of module Outbox does its work.                       *)
(***************************************************************************)
EXTENDS Integers, Chunking

CONSTANTS
    Workers,
    Messages,      \* outbound_messages ids, in the order the ids are allocated
    Lifetimes,     \* how far ahead of the clock a producer puts expires_at
    BackoffCap,    \* BACKOFF_CAP_SECONDS, shared with the outbox drain
    Recheck,       \* UNCONFIGURED_RECHECK
    Visibility,    \* CLAIM_VISIBILITY_SECONDS
    Retention,     \* RETENTION
    MaxClock,      \* bound: the horizon of the clock and of every schedule
    MaxCrashes     \* bound: worker processes killed

ASSUME MailAssumption ==
    /\ Messages \subseteq Nat /\ Messages # {}
    /\ Lifetimes \subseteq Nat
    /\ BackoffCap \in Nat /\ Recheck \in Nat \ {0} /\ Visibility \in Nat \ {0}
    /\ Retention \in Nat /\ MaxClock \in Nat /\ MaxCrashes \in Nat

VARIABLES
    clock,
    configured,  \* an email.send provider is registered and the tenant has set it up
    status,      \* status[m]: "none" until enqueued, then OutboundMessage.status
    body,        \* body_text is not NULL
    address,     \* to_address is not NULL
    createdAt, expiresAt, nextAt,
    accepted,    \* how often the provider has answered ok for m
    phase, now,
    batch,       \* claimed messages w has still to attempt
    row,         \* the message w fetched, with the next_attempt_at it read
    wipes,       \* the message ids w's retention job selected
    crashes

message == <<status, body, address, createdAt, expiresAt, nextAt, accepted>>
worker  == <<phase, now, batch, row, wipes>>
vars    == <<clock, configured, message, worker, crashes>>

Terminal == {"sent", "dead", "expired"}
Row == [m : Messages, nextAt : Nat]
NoRow == [m |-> CHOOSE m \in Messages : TRUE, nextAt |-> 0]

Init == /\ clock = 0 /\ configured \in BOOLEAN
        /\ status = [m \in Messages |-> "none"]
        /\ body = [m \in Messages |-> FALSE]
        /\ address = [m \in Messages |-> FALSE]
        /\ createdAt = [m \in Messages |-> 0]
        /\ expiresAt = [m \in Messages |-> 0]
        /\ nextAt = [m \in Messages |-> 0]
        /\ accepted = [m \in Messages |-> 0]
        /\ phase = [w \in Workers |-> "idle"]
        /\ now = [w \in Workers |-> 0]
        /\ batch = [w \in Workers |-> {}]
        /\ row = [w \in Workers |-> NoRow]
        /\ wipes = [w \in Workers |-> {}]
        /\ crashes = 0

Tick == /\ clock < MaxClock
        /\ clock' = clock + 1
        /\ UNCHANGED <<configured, message, worker, crashes>>

\* The operator saves or clears the mail settings.
Configure == /\ configured' = ~configured
             /\ UNCHANGED <<clock, message, worker, crashes>>

\* A command's transaction that called enqueue() commits.
Enqueue(m) ==
    /\ status[m] = "none"
    /\ \E life \in Lifetimes :
          /\ clock + life <= MaxClock
          /\ expiresAt' = [expiresAt EXCEPT ![m] = clock + life]
    /\ status' = [status EXCEPT ![m] = "pending"]
    /\ body' = [body EXCEPT ![m] = TRUE]
    /\ address' = [address EXCEPT ![m] = TRUE]
    /\ createdAt' = [createdAt EXCEPT ![m] = clock]
    /\ nextAt' = [nextAt EXCEPT ![m] = clock]
    /\ UNCHANGED <<clock, configured, accepted, worker, crashes>>

-----------------------------------------------------------------------------
\* A worker is killed and its container restarted: its memory is gone.  A kill
\* whose claims would only come due past the horizon is not explored.
Crash(w) ==
    /\ phase[w] # "idle"
    /\ crashes < MaxCrashes
    /\ now[w] + Visibility <= MaxClock
    /\ crashes' = crashes + 1
    /\ phase' = [phase EXCEPT ![w] = "idle"]
    /\ now' = [now EXCEPT ![w] = 0]
    /\ batch' = [batch EXCEPT ![w] = {}]
    /\ row' = [row EXCEPT ![w] = NoRow]
    /\ wipes' = [wipes EXCEPT ![w] = {}]
    /\ UNCHANGED <<clock, configured, message>>

\* worker_pass: the clock is read, then the outbox is drained.
StartPass(w) ==
    /\ phase[w] = "idle"
    /\ phase' = [phase EXCEPT ![w] = "outbox"]
    /\ now' = [now EXCEPT ![w] = clock]
    /\ UNCHANGED <<clock, configured, message, batch, row, wipes, crashes>>

\* Faulty variant: terminal messages are claimed too.
Claimable_AnyStatus(m, t) == status[m] # "none" /\ nextAt[m] <= t

Claimable(m, t) == status[m] = "pending" /\ nextAt[m] <= t

Claim(w) ==
    /\ phase[w] = "outbox"
    /\ phase' = [phase EXCEPT ![w] = "mail"]
    /\ \E B \in Chunks({m \in Messages : Claimable(m, now[w])}) :
        /\ batch' = [batch EXCEPT ![w] = B]
        /\ nextAt' = [m \in Messages |-> IF m \in B THEN now[w] + Visibility ELSE nextAt[m]]
    /\ UNCHANGED <<clock, configured, status, body, address, createdAt, expiresAt, accepted,
                   now, row, wipes, crashes>>

\* The next claimed row is read again by primary key, as it is now.
Fetch(w) ==
    /\ phase[w] = "mail"
    /\ \E m \in batch[w] :
        /\ \A n \in batch[w] : m <= n
        /\ batch' = [batch EXCEPT ![w] = @ \ {m}]
        /\ row' = [row EXCEPT ![w] = [m |-> m, nextAt |-> nextAt[m]]]
    /\ phase' = [phase EXCEPT ![w] = "fetched"]
    /\ UNCHANGED <<clock, configured, message, now, wipes, crashes>>

BodyAfter(m, st) == body[m] /\ st \notin Terminal

\* _record: one conditional update guarded on next_attempt_at; a terminal status
\* clears body_text in the same write.
Record(w, st, at) ==
    LET m == row[w].m
        hit == nextAt[m] = row[w].nextAt
    IN /\ status' = [status EXCEPT ![m] = IF hit THEN st ELSE @]
       /\ body' = [body EXCEPT ![m] = IF hit THEN BodyAfter(m, st) ELSE @]
       /\ nextAt' = [nextAt EXCEPT ![m] = IF hit THEN at ELSE @]

Recorded(w) ==
    /\ phase' = [phase EXCEPT ![w] = "mail"]
    /\ row' = [row EXCEPT ![w] = NoRow]
    /\ UNCHANGED <<clock, configured, address, createdAt, expiresAt, now, batch, wipes, crashes>>

\* Faulty variant: the deadline is never consulted.
PastDeadline_Never(w) == FALSE

\* The deadline is compared with the pass's clock.
PastDeadline(w) == now[w] >= expiresAt[row[w].m]

Expire(w) ==
    /\ phase[w] = "fetched" /\ PastDeadline(w)
    /\ Record(w, "expired", nextAt[row[w].m])
    /\ Recorded(w) /\ UNCHANGED accepted

\* No provider, or one that raises CapabilityUnconfigured: no attempt is spent.
Unconfigured(w) ==
    /\ phase[w] = "fetched" /\ ~PastDeadline(w)
    /\ ~configured
    /\ now[w] + Recheck <= MaxClock
    /\ Record(w, "pending", now[w] + Recheck)
    /\ Recorded(w) /\ UNCHANGED accepted

\* The message goes to the provider.
Send(w) ==
    /\ phase[w] = "fetched" /\ ~PastDeadline(w)
    /\ configured
    /\ phase' = [phase EXCEPT ![w] = "sending"]
    /\ UNCHANGED <<clock, configured, message, now, batch, row, wipes, crashes>>

\* The provider answers ok; its answer has not been recorded yet.  (An answer that
\* is lost on the way is an exception, and so a failure, to the code.)
Accept(w) ==
    /\ phase[w] = "sending"
    /\ phase' = [phase EXCEPT ![w] = "accepted"]
    /\ accepted' = [accepted EXCEPT ![row[w].m] = @ + 1]
    /\ UNCHANGED <<clock, configured, status, body, address, createdAt, expiresAt, nextAt,
                   now, batch, row, wipes, crashes>>

RecordSent(w) ==
    /\ phase[w] = "accepted"
    /\ Record(w, "sent", nextAt[row[w].m])
    /\ Recorded(w) /\ UNCHANGED accepted

\* Faulty variant: jitter around zero instead of above it.
Backoff_Centred == -BackoffCap .. BackoffCap

\* backoff(): full jitter, below the cap whatever the attempt.
Backoff == 0 .. BackoffCap

\* A permanent failure dead-letters, any other is retried after backoff().
RecordFailed(w) ==
    /\ phase[w] = "sending"
    /\ \/ Record(w, "dead", nextAt[row[w].m])
       \/ \E delay \in Backoff : /\ now[w] + delay <= MaxClock
                                 /\ Record(w, "pending", now[w] + delay)
    /\ Recorded(w) /\ UNCHANGED accepted

\* The mail drain is done and the retention job is not due in this pass.
EndPass(w) == /\ phase[w] = "mail" /\ batch[w] = {}
              /\ phase' = [phase EXCEPT ![w] = "idle"]
              /\ now' = [now EXCEPT ![w] = 0]
              /\ UNCHANGED <<clock, configured, message, batch, row, wipes, crashes>>

-----------------------------------------------------------------------------
\* Faulty variant: every old address goes, whatever its message's state.
Wipeable_AnyStatus(m) == address[m]

\* null_outbound_addresses selects the ids, then updates with the status checked
\* a second time.
Wipeable(m) == address[m] /\ status[m] \in Terminal

WipeSelect(w) ==
    /\ phase[w] = "mail" /\ batch[w] = {}
    /\ phase' = [phase EXCEPT ![w] = "wiping"]
    /\ \E C \in Chunks({m \in Messages : Wipeable(m) /\ createdAt[m] + Retention < now[w]}) :
          wipes' = [wipes EXCEPT ![w] = C]
    /\ UNCHANGED <<clock, configured, message, now, batch, row, crashes>>

WipeApply(w) ==
    /\ phase[w] = "wiping"
    /\ address' = [m \in Messages |-> address[m] /\ ~(m \in wipes[w] /\ Wipeable(m))]
    /\ phase' = [phase EXCEPT ![w] = "idle"]
    /\ now' = [now EXCEPT ![w] = 0]
    /\ wipes' = [wipes EXCEPT ![w] = {}]
    /\ UNCHANGED <<clock, configured, status, body, createdAt, expiresAt, nextAt, accepted,
                   batch, row, crashes>>

WorkerStep(w) == \/ StartPass(w) \/ Claim(w) \/ Fetch(w) \/ Expire(w) \/ Unconfigured(w)
                 \/ Send(w) \/ Accept(w) \/ RecordSent(w) \/ RecordFailed(w) \/ EndPass(w)
                 \/ WipeSelect(w) \/ WipeApply(w)

Next == \/ Tick \/ Configure
        \/ \E m \in Messages : Enqueue(m)
        \/ \E w \in Workers : Crash(w) \/ WorkerStep(w)

Spec == Init /\ [][Next]_vars

\* Time passes and the worker keeps stepping (its provider calls time out, its
\* container restarts).  Nobody has to configure mail or to enqueue anything.
FairSpec == Spec /\ WF_vars(Tick) /\ \A w \in Workers : WF_vars(WorkerStep(w))

-----------------------------------------------------------------------------
\* Every variable has its type (the outbound_messages columns, a worker's memory).
TypeOK ==
    /\ clock \in 0 .. MaxClock /\ configured \in BOOLEAN
    /\ status \in [Messages -> {"none", "pending"} \cup Terminal]
    /\ body \in [Messages -> BOOLEAN] /\ address \in [Messages -> BOOLEAN]
    /\ createdAt \in [Messages -> 0 .. MaxClock]
    /\ expiresAt \in [Messages -> 0 .. MaxClock]
    /\ nextAt \in [Messages -> 0 .. MaxClock + Visibility]
    /\ accepted \in [Messages -> Nat]
    /\ phase \in [Workers -> {"idle", "outbox", "mail", "fetched", "sending", "accepted", "wiping"}]
    /\ now \in [Workers -> 0 .. MaxClock]
    /\ batch \in [Workers -> SUBSET Messages]
    /\ row \in [Workers -> Row]
    /\ wipes \in [Workers -> SUBSET Messages]
    /\ crashes \in 0 .. MaxCrashes

\* The plaintext secret exists exactly as long as the message may still be sent,
\* and so does the address it goes to: the drain never finds either gone, and no
\* terminal row keeps a secret.
SecretLifetime ==
    \A m \in Messages : /\ status[m] = "pending" <=> body[m]
                        /\ status[m] = "pending" => address[m]

\* At-least-once, with a cause for every repeat: a message the provider has said ok
\* to is sent again only because a worker died before it could record the answer.
RepeatsNeedCrashes == \A m \in Messages : accepted[m] <= 1 + crashes

\* Every message is retired, by the provider or by its deadline, even if mail is
\* never configured or the provider fails every time.
Retires == \A m \in Messages : status[m] = "pending" ~> status[m] \in Terminal

\* models.py of OutboundMessage.expires_at: "Past it, the drain marks the row
\* expired and never sends".
NeverSentLate ==
    [][\A w \in Workers : phase[w] = "fetched" /\ phase'[w] = "sending" =>
            clock < expiresAt[row[w].m]]_vars
=============================================================================
