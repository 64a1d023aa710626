------------------------------ MODULE Payments ------------------------------
(***************************************************************************)
(* The payment seam of one listing: checkouts and cancellations that core  *)
(* asks a provider for (billing/payments.py), and the provider's events,   *)
(* delivered at least once, in any order and by several requests at a time *)
(* (billing/inbound.py, adapters/stripe, billing/reports.py).              *)
(*                                                                         *)
(* A request that handles an event commits several times: the command log, *)
(* the report's transaction (receipt and state change together), the       *)
(* log's conclusion and, for a refused report, the ignored receipt and the *)
(* attempt.  It can die between any two of them; the provider then sends   *)
(* the event again.  Inside the transaction the receipt's unique key is    *)
(* held from the start, but the attempt and the entitlement are read       *)
(* without a lock, and a row that does not exist yet cannot be locked.     *)
(***************************************************************************)
EXTENDS Integers, FiniteSets

CONSTANTS
    Attempts,   \* checkout attempts the owner may make
    Handlers,   \* web requests that can be under way at a time
    NoAttempt,  \* the empty payment_ref
    NoEvent,    \* a request that handles nothing
    MaxSent,    \* bound: events the provider sends
    MaxDeaths   \* bound: requests that die

ASSUME PaymentsAssumption == NoAttempt \notin Attempts /\ MaxSent \in Nat /\ MaxDeaths \in Nat

Machine == INSTANCE EntitlementMachine
           WITH Tiers <- {1}, NoTier <- 0, DUNNING <- 1, GRACE <- 1, TRIAL_OVERDUE <- 1

VARIABLES
    attempt,      \* attempt[a]: CheckoutAttempt.status, "none" before it is created
    subscription, \* the provider: "none", "open" (a session), "active", "ending", "ended"
    sent,         \* events the provider has sent; any of them may be delivered again
    receipt,      \* receipt[e]: PaymentReceipt.outcome, "none" without a row
    concluded,    \* events some command-log row records as applied
    entitlement,  \* [status, ref]; "missing" until the row is created
    request,      \* request[h]: the event, how far its handling is, the trigger it chose
    cancel,       \* the cancellation under way: [at, ref]
    effects,      \* history: effects[e] counts the state changes e has caused
    creator,      \* history: holds a if a's report, NoAttempt if a comp, beat a request to the row
    deaths        \* how many requests have died

payVars == <<attempt, subscription, sent, receipt, concluded, entitlement, request, cancel, effects,
             creator, deaths>>

(* reports.REPORT_KINDS; subscription_canceled is split by at_period_end, and a payment *)
(* report that says the subscription is back on is told apart.                           *)
Kinds == {"checkout_completed", "payment_succeeded", "payment_failed", "refunded",
          "subscription_changed", "cancel_at_period_end", "switched_back_on",
          "subscription_deleted"}
Events == Kinds \X Attempts
Kind(e) == e[1]
AttemptOf(e) == e[2]

Idle == [event |-> NoEvent, at |-> "idle", trigger |-> "none", done |-> FALSE]
NoCancel == [at |-> "idle", ref |-> NoAttempt, atPeriodEnd |-> TRUE]

PayInit ==
    /\ attempt = [a \in Attempts |-> "none"]
    /\ subscription = [a \in Attempts |-> "none"]
    /\ sent = {}
    /\ receipt = [e \in Events |-> "none"]
    /\ concluded = {}
    /\ entitlement = [status |-> "missing", ref |-> NoAttempt]
    /\ request = [h \in Handlers |-> Idle]
    /\ cancel = NoCancel
    /\ effects = [e \in Events |-> 0]
    /\ creator = {}
    /\ deaths = 0

Status == IF entitlement.status = "missing" THEN "none" ELSE entitlement.status

\* apply_trigger on a row that exists, or on the one it creates.
AfterTrigger(trigger, ref) ==
    [status |-> CHOOSE to \in Machine!Statuses : <<Status, trigger, to>> \in Machine!TRANSITIONS,
     ref |-> IF trigger \in {"start", "payment_succeeded"} THEN ref ELSE entitlement.ref]

-----------------------------------------------------------------------------
(* billing.start_checkout and the customer at the provider.                 *)

\* _prepare: refused while a paid plan is in force or lapsing.
StartCheckout(a) ==
    /\ attempt[a] = "none"
    /\ Status \notin {"past_due", "grace", "trialing", "active"}
    /\ attempt' = [attempt EXCEPT ![a] = "started"]
    /\ UNCHANGED <<subscription, sent, receipt, concluded, entitlement, request, cancel, effects,
                   creator, deaths>>

\* create_checkout answers with a session, or fails and the attempt with it.
CheckoutCreated(a) ==
    /\ attempt[a] = "started" /\ subscription[a] = "none"
    /\ \/ subscription' = [subscription EXCEPT ![a] = "open"] /\ UNCHANGED attempt
       \/ attempt' = [attempt EXCEPT ![a] = "failed"] /\ UNCHANGED subscription
    /\ UNCHANGED <<sent, receipt, concluded, entitlement, request, cancel, effects, creator, deaths>>

\* What the provider does by itself: <<from, to, the events it sends>>.
ProviderMoves ==
    {<<"open", "active", {"checkout_completed", "payment_succeeded"}>>,
     <<"active", "active", {"payment_failed"}>>,
     <<"active", "active", {"subscription_changed"}>>,
     <<"active", "ending", {"cancel_at_period_end"}>>,
     <<"ending", "active", {"switched_back_on"}>>,
     <<"ending", "ended", {"subscription_deleted"}>>,
     <<"active", "ended", {"subscription_deleted"}>>,
     <<"active", "ended", {"refunded"}>>}

Provider(a) ==
    /\ \E move \in ProviderMoves :
          /\ subscription[a] = move[1]
          /\ subscription' = [subscription EXCEPT ![a] = move[2]]
          /\ sent' = sent \cup (move[3] \X {a})
    /\ sent' # sent /\ Cardinality(sent') <= MaxSent
    /\ UNCHANGED <<attempt, receipt, concluded, entitlement, request, cancel, effects, creator, deaths>>

-----------------------------------------------------------------------------
(* entitlement.reportPayment.                                               *)

At(h, place) == request[h].at = place
Go(h, r) == request' = [request EXCEPT ![h] = r]

\* An earlier delivery was applied, or was ignored and left its receipt.
Seen(e) == e \in concluded \/ receipt[e] # "none"

Deliver(h, e) ==
    /\ At(h, "idle") /\ ~Seen(e)
    /\ Go(h, [Idle EXCEPT !.event = e, !.at = "received"])
    /\ UNCHANGED <<attempt, subscription, sent, receipt, concluded, entitlement, cancel, effects,
                   creator, deaths>>

\* A transaction that has inserted the event's receipt and not ended: a second insert
\* of the key waits for it.
HoldsReceipt(h) == request[h].at \in {"trigger", "create"}

\* Faulty variant: the receipt is written without looking for another's.
ReceiptFree_Always(e) == TRUE

ReceiptFree(e) == receipt[e] = "none"

\* _trigger: what the report asks for, from unlocked reads; "refused" without one.
TriggerFor(e) ==
    LET started == attempt[AttemptOf(e)] = "started"
    IN CASE Kind(e) = "checkout_completed" -> IF started THEN "start" ELSE "refused"
         [] Kind(e) \in {"payment_succeeded", "switched_back_on"} ->
              IF Status \notin {"none", "expired"} THEN "payment_succeeded"
              ELSE IF started THEN "start" ELSE "refused"
         [] Kind(e) = "payment_failed" -> "payment_failed"
         [] Kind(e) = "refunded" -> "refund"
         [] Kind(e) = "subscription_changed" -> "payment_succeeded"
         [] Kind(e) = "cancel_at_period_end" -> "cancel"
         [] OTHER -> "subscription_ended"

\* The transaction begins with the receipt: a duplicate fails there and is taken for
\* a replay.  A refusal rolls the receipt back.
BeginReport(h) ==
    LET e == request[h].event
        t == TriggerFor(e)
    IN /\ At(h, "received")
       /\ \A g \in Handlers \ {h} : ~(HoldsReceipt(g) /\ request[g].event = e)
       /\ \/ /\ ~ReceiptFree(e)
             /\ concluded' = concluded \cup {e} /\ Go(h, Idle)
          \/ /\ ReceiptFree(e) /\ t = "refused"
             /\ Go(h, [request[h] EXCEPT !.at = "refused"]) /\ UNCHANGED concluded
          \/ /\ ReceiptFree(e) /\ t # "refused"
             /\ Go(h, [request[h] EXCEPT !.at = "trigger", !.trigger = t]) /\ UNCHANGED concluded
       /\ UNCHANGED <<attempt, subscription, sent, receipt, entitlement, cancel, effects,
                      creator, deaths>>

\* Who creates the row, when one of the requests `waiting` is about to create it too.
CreatorAfter(ref, waiting) ==
    IF entitlement.status = "missing" /\ \E g \in waiting : At(g, "create") THEN creator \cup {ref}
    ELSE creator

\* Faulty variant: the checkout stays open after the plan it paid for has started.
Commit_AttemptOpen(h) ==
    LET e == request[h].event
        t == request[h].trigger
    IN /\ entitlement' = AfterTrigger(t, AttemptOf(e))
       /\ receipt' = [receipt EXCEPT ![e] = "applied"]
       /\ UNCHANGED attempt
       /\ effects' = [effects EXCEPT ![e] = @ + 1]
       /\ creator' = CreatorAfter(AttemptOf(e), Handlers \ {h})
       /\ Go(h, [request[h] EXCEPT !.at = "conclude"])

\* The trigger's commit: the state change, the receipt and the attempt, together.
Commit(h) ==
    LET e == request[h].event
        t == request[h].trigger
    IN /\ entitlement' = AfterTrigger(t, AttemptOf(e))
       /\ receipt' = [receipt EXCEPT ![e] = "applied"]
       /\ attempt' = IF t = "start" THEN [attempt EXCEPT ![AttemptOf(e)] = "completed"] ELSE attempt
       /\ effects' = [effects EXCEPT ![e] = @ + 1]
       /\ creator' = CreatorAfter(AttemptOf(e), Handlers \ {h})
       /\ Go(h, [request[h] EXCEPT !.at = "conclude"])

\* A refused move still completes the attempt of a purchase already in force.
RefuseMove(h) ==
    /\ Go(h, [request[h] EXCEPT !.at = "refused",
                 !.done = Kind(request[h].event) \in {"checkout_completed", "payment_succeeded",
                                                      "switched_back_on"}])
    /\ UNCHANGED <<entitlement, receipt, attempt, effects, creator, deaths>>

\* apply_trigger: an existing row is locked, checked and changed in one go; a missing
\* one is only seen to be missing.
ApplyReport(h) ==
    /\ At(h, "trigger")
    /\ \/ /\ entitlement.status # "missing" /\ Machine!Legal(Status, request[h].trigger)
          /\ Commit(h)
       \/ /\ entitlement.status # "missing" /\ ~Machine!Legal(Status, request[h].trigger)
          /\ RefuseMove(h)
       \/ /\ entitlement.status = "missing" /\ request[h].trigger # "start"
          /\ RefuseMove(h)
       \/ /\ entitlement.status = "missing" /\ request[h].trigger = "start"
          /\ Go(h, [request[h] EXCEPT !.at = "create"])
          /\ UNCHANGED <<entitlement, receipt, attempt, effects, creator, deaths>>
    /\ UNCHANGED <<subscription, sent, concluded, cancel, deaths>>

\* The listing's lock is free again and the row is created -- or somebody has created
\* it meanwhile, and the IntegrityError is taken for a duplicate delivery.
CreateEntitlement(h) ==
    /\ At(h, "create")
    /\ \/ entitlement.status = "missing" /\ Commit(h) /\ UNCHANGED concluded
       \/ /\ entitlement.status # "missing"
          /\ concluded' = concluded \cup {request[h].event}
          /\ Go(h, Idle)
          /\ UNCHANGED <<entitlement, receipt, attempt, effects, creator, deaths>>
    /\ UNCHANGED <<subscription, sent, cancel, deaths>>

ConcludeApplied(h) ==
    /\ At(h, "conclude")
    /\ concluded' = concluded \cup {request[h].event}
    /\ Go(h, Idle)
    /\ UNCHANGED <<attempt, subscription, sent, receipt, entitlement, cancel, effects, creator, deaths>>

\* _ignore, unless the event has a receipt by now; then the attempt, in a third commit.
IgnoreReport(h) ==
    LET e == request[h].event
    IN /\ At(h, "refused")
       /\ \A g \in Handlers \ {h} : ~(HoldsReceipt(g) /\ request[g].event = e)
       /\ receipt' = IF receipt[e] = "none" THEN [receipt EXCEPT ![e] = "ignored"] ELSE receipt
       /\ Go(h, IF request[h].done THEN [request[h] EXCEPT !.at = "finish"] ELSE Idle)
       /\ UNCHANGED <<attempt, subscription, sent, concluded, entitlement, cancel, effects,
                      creator, deaths>>

FinishAttempt(h) ==
    LET a == AttemptOf(request[h].event)
    IN /\ At(h, "finish")
       /\ attempt' = IF attempt[a] = "started" THEN [attempt EXCEPT ![a] = "completed"] ELSE attempt
       /\ Go(h, Idle)
       /\ UNCHANGED <<subscription, sent, receipt, concluded, entitlement, cancel, effects,
                      creator, deaths>>

\* The web process dies: an open transaction is rolled back.
RequestDies(h) ==
    /\ ~At(h, "idle") /\ deaths < MaxDeaths
    /\ deaths' = deaths + 1
    /\ Go(h, Idle)
    /\ UNCHANGED <<attempt, subscription, sent, receipt, concluded, entitlement, cancel, effects, creator>>

-----------------------------------------------------------------------------
(* entitlement.cancel, and the other writers of the entitlement.            *)

Cancelable == {"trialing", "active", "past_due", "grace"}

\* The status and the payment_ref are read without a lock.
CancelRead ==
    /\ cancel.at = "idle" /\ Status \in Cancelable
    /\ cancel' = [at |-> IF entitlement.ref = NoAttempt THEN "asked" ELSE "read",
                  ref |-> entitlement.ref, atPeriodEnd |-> Status # "grace"]
    /\ UNCHANGED <<attempt, subscription, sent, receipt, concluded, entitlement, request, effects,
                   creator, deaths>>

\* cancel_subscription: at the period's end, or at once from grace; a subscription
\* that is gone counts as cancelled.
ProviderCancelled ==
    IF cancel.ref = NoAttempt \/ subscription[cancel.ref] = "ended" THEN subscription
    ELSE [subscription EXCEPT ![cancel.ref] = IF cancel.atPeriodEnd THEN "ending" ELSE "ended"]

\* The provider does what it is asked, or fails and the command is refused.
CancelAsk ==
    /\ cancel.at = "read"
    /\ \/ /\ subscription' = ProviderCancelled
          /\ cancel' = [cancel EXCEPT !.at = "asked"]
       \/ cancel' = NoCancel /\ UNCHANGED subscription
    /\ UNCHANGED <<attempt, sent, receipt, concluded, entitlement, request, effects, creator, deaths>>

\* _apply_cancel, refused when the status moved meanwhile.
CancelApply ==
    /\ cancel.at = "asked"
    /\ cancel' = NoCancel
    /\ entitlement' = IF Machine!Legal(Status, "cancel") THEN AfterTrigger("cancel", NoAttempt)
                      ELSE entitlement
    /\ UNCHANGED <<attempt, subscription, sent, receipt, concluded, request, effects, creator, deaths>>

\* An operator's comp (it creates the row if there is none) and the worker's deadlines.
Grant ==
    /\ Status # "comped"
    /\ entitlement' = [entitlement EXCEPT !.status = "comped"]
    /\ creator' = CreatorAfter(NoAttempt, Handlers)
    /\ UNCHANGED <<attempt, subscription, sent, receipt, concluded, request, cancel, effects, deaths>>

Lapse ==
    /\ \E t \in {"dunning_elapsed", "grace_elapsed", "period_elapsed"} :
          Machine!Legal(Status, t) /\ entitlement' = AfterTrigger(t, NoAttempt)
    /\ UNCHANGED <<attempt, subscription, sent, receipt, concluded, request, cancel, effects,
                   creator, deaths>>

PayNext ==
    \/ \E a \in Attempts : StartCheckout(a) \/ CheckoutCreated(a) \/ Provider(a)
    \/ \E h \in Handlers : \/ \E e \in sent : Deliver(h, e)
                           \/ BeginReport(h) \/ ApplyReport(h) \/ CreateEntitlement(h)
                           \/ ConcludeApplied(h) \/ IgnoreReport(h) \/ FinishAttempt(h)
                           \/ RequestDies(h)
    \/ CancelRead \/ CancelAsk \/ CancelApply \/ Grant \/ Lapse

PaySpec == PayInit /\ [][PayNext]_payVars

-----------------------------------------------------------------------------
\* Type: every variable of the payment seam holds a value its rows can hold.
PayTypeOK ==
    /\ attempt \in [Attempts -> {"none", "started", "completed", "failed"}]
    /\ subscription \in [Attempts -> {"none", "open", "active", "ending", "ended"}]
    /\ sent \subseteq Events /\ concluded \subseteq sent
    /\ receipt \in [Events -> {"none", "applied", "ignored"}]
    /\ entitlement.status \in (Machine!Statuses \ {"none"}) \cup {"missing"}
    /\ entitlement.ref \in Attempts \cup {NoAttempt}
    /\ \A h \in Handlers : request[h].event \in sent \cup {NoEvent}
    /\ cancel.at \in {"idle", "read", "asked"} /\ cancel.ref \in Attempts \cup {NoAttempt}

\* However often and by however many requests at a time an event is delivered, and
\* wherever a request dies, the event changes the entitlement at most once, and its
\* receipt says "applied" exactly when it did (report_payment, _apply).
EffectOnce ==
    \A e \in Events : effects[e] <= 1 /\ (receipt[e] = "applied" <=> effects[e] = 1)

\* A report the log calls applied is never handled again, so the purchase must not be
\* lost with it: the report has its receipt, or another report of the same checkout has
\* started the plan and closed the checkout -- unless a comp or another checkout created
\* the row first, where the code drops the purchase (report_payment's IntegrityError).
PurchaseKept ==
    \A e \in concluded :
        \/ receipt[e] # "none"
        \/ /\ \E d \in Events : AttemptOf(d) = AttemptOf(e) /\ receipt[d] = "applied"
           /\ attempt[AttemptOf(e)] = "completed"
        \/ \E x \in creator : x # AttemptOf(e)
=============================================================================
