------------------------- MODULE EntitlementMachine -------------------------
(***************************************************************************)
(* The entitlement state machine as billing/machine.py tabulates it and    *)
(* billing/entitlements.py (_mutate) carries it out: what a trigger does   *)
(* to one Entitlement row.  Pure: no variables.                            *)
(*                                                                         *)
(* A datetime column is an integer, NoTime where it is NULL.  Columns that *)
(* only feed events and notices (failed_attempts, canceled_by, reasons,    *)
(* started_at) are left out.  No command sets billing_mode to TERM, so a   *)
(* term never ends and billing_mode is left out too.                       *)
(***************************************************************************)
EXTENDS Integers

CONSTANTS
    Tiers,        \* tier keys
    NoTier,       \* the NULL foreign key
    DUNNING,      \* past_due -> grace
    GRACE,        \* grace -> expired
    TRIAL_OVERDUE \* how long a trial may go unreported

ASSUME MachineAssumption ==
    /\ NoTier \notin Tiers
    /\ DUNNING \in Nat \ {0} /\ GRACE \in Nat \ {0} /\ TRIAL_OVERDUE \in Nat \ {0}

NoTime == -1

Statuses == {"none", "trialing", "active", "past_due", "grace", "expired", "canceled", "comped"}

PERK_STATUSES == {"trialing", "active", "past_due", "canceled", "comped"}
PAID_STATUSES == {"trialing", "active", "past_due", "grace", "canceled"}

CLOCK_TRIGGERS == {"dunning_elapsed", "grace_elapsed", "period_elapsed", "comp_expired",
                   "trial_overdue"}

\* Triggers that may create the row (a first start, grant or override).
Founding == {"start", "start_trial", "grant", "override"}

\* <<from, trigger, to>>: the table _build() makes.  An override lands anywhere.
TRANSITIONS ==
         ({"none", "expired", "comped", "canceled"} \X {"start"} \X {"active"})
    \cup ({"none", "expired"} \X {"start_trial"} \X {"trialing"})
    \cup ({"trialing", "active", "past_due", "grace", "canceled", "comped"}
            \X {"payment_succeeded"} \X {"active"})
    \cup ({"trialing", "active", "past_due"} \X {"payment_failed"} \X {"past_due"})
    \cup {<<"grace", "payment_failed", "grace">>}
    \cup {<<"trialing", "trial_overdue", "past_due">>}
    \cup ({"trialing", "active", "past_due"} \X {"cancel"} \X {"canceled"})
    \cup {<<"grace", "cancel", "expired">>}
    \cup {<<"past_due", "dunning_elapsed", "grace">>,
          <<"grace", "grace_elapsed", "expired">>,
          <<"canceled", "period_elapsed", "expired">>,
          <<"comped", "comp_expired", "expired">>,
          <<"comped", "revoke", "expired">>}
    \cup (PAID_STATUSES \X {"refund", "subscription_ended"} \X {"expired"})
    \cup (Statuses \X {"grant"} \X {"comped"})
    \cup (Statuses \X {"override"} \X Statuses)

\* rule_for: anything else is an InvalidTransition.
Legal(status, trigger) == \E to \in Statuses : <<status, trigger, to>> \in TRANSITIONS

Passed(deadline, t) == deadline # NoTime /\ deadline <= t

\* is_due, for the clock's triggers.
IsDue(e, trigger, t) ==
    \/ trigger = "dunning_elapsed" /\ e.status = "past_due" /\ Passed(e.dunningEnd, t)
    \/ trigger = "grace_elapsed" /\ e.status = "grace" /\ Passed(e.graceEnd, t)
    \/ trigger = "period_elapsed" /\ e.status = "canceled" /\ Passed(e.periodEnd, t)
    \/ trigger = "comp_expired" /\ e.status = "comped" /\ Passed(e.compEnd, t)
    \/ /\ trigger = "trial_overdue" /\ e.status = "trialing"
       /\ e.trialEnd # NoTime /\ e.trialEnd + TRIAL_OVERDUE <= t

-----------------------------------------------------------------------------
\* The row as apply_trigger creates it.
Fresh(tier) ==
    [status |-> "none", tier |-> tier, periodEnd |-> NoTime, trialEnd |-> NoTime,
     dunningEnd |-> NoTime, graceEnd |-> NoTime, compEnd |-> NoTime, hidden |-> FALSE]

\* The parameters of a trigger: NULL unless the caller gives them.
NoParams == [tier |-> NoTier, periodEnd |-> NoTime, trialEnd |-> NoTime, compEnd |-> NoTime,
             to |-> "none"]

\* _need: the parameters a trigger cannot do without.
ParamsGiven(trigger, p) ==
    /\ trigger \in {"start", "start_trial", "grant"} => p.tier # NoTier
    /\ trigger \in {"start", "payment_succeeded"} => p.periodEnd # NoTime
    /\ trigger = "start_trial" => p.trialEnd # NoTime
    /\ trigger = "override" => /\ p.to = "trialing" => p.trialEnd # NoTime
                               /\ p.to = "canceled" => p.periodEnd # NoTime

Or(a, b) == IF a # NoTime THEN a ELSE b
TierOr(a, b) == IF a # NoTier THEN a ELSE b

ResetLifecycle(e) == [e EXCEPT !.dunningEnd = NoTime, !.graceEnd = NoTime]

EnterDunning(e, t) == [e EXCEPT !.dunningEnd = t + DUNNING]

Started(e, trigger, p) ==
    LET trial == trigger = "start_trial"
    IN ResetLifecycle([e EXCEPT !.status = IF trial THEN "trialing" ELSE "active",
                                !.tier = p.tier,
                                !.trialEnd = IF trial THEN p.trialEnd ELSE NoTime,
                                !.periodEnd = Or(p.periodEnd, p.trialEnd),
                                !.compEnd = NoTime])

\* Faulty variant: a payment that names no tier clears it.
Paid_TierCleared(e, p) ==
    ResetLifecycle([e EXCEPT !.status = "active", !.tier = p.tier, !.periodEnd = p.periodEnd])

Paid(e, p) ==
    ResetLifecycle([e EXCEPT !.status = "active", !.tier = TierOr(p.tier, @),
                             !.periodEnd = p.periodEnd,
                             !.compEnd = IF e.status = "comped" THEN NoTime ELSE @])

\* Faulty variant: every failed payment starts dunning again.
Failed_Restarts(e, t) == EnterDunning([e EXCEPT !.status = "past_due"], t)

\* A failure while already lapsing only counts; otherwise dunning starts.
Failed(e, t) == IF e.status \in {"past_due", "grace"} THEN e
                ELSE EnterDunning([e EXCEPT !.status = "past_due"], t)

Canceled(e) == IF e.status = "grace"
               THEN [e EXCEPT !.status = "expired"]
               ELSE [e EXCEPT !.status = "canceled", !.periodEnd = Or(@, e.trialEnd)]

Granted(e, p) ==
    ResetLifecycle([e EXCEPT !.status = "comped", !.tier = p.tier, !.periodEnd = NoTime,
                             !.trialEnd = NoTime, !.compEnd = p.compEnd])

\* Faulty variant: an override to grace starts no grace window.
Overridden_NoGrace(e, t, p) ==
    [e EXCEPT !.status = p.to, !.tier = TierOr(p.tier, @), !.periodEnd = Or(p.periodEnd, @),
              !.trialEnd = IF p.to = "trialing" THEN p.trialEnd ELSE @,
              !.dunningEnd = IF p.to = "past_due" THEN t + DUNNING ELSE @,
              !.compEnd = NoTime]

\* An override writes the status and the columns that status needs; it never
\* lands on comped (the command refuses).
Overridden(e, t, p) ==
    LET set == [e EXCEPT
                !.status = p.to,
                !.tier = TierOr(p.tier, @),
                !.periodEnd = IF p.to = "trialing" THEN Or(Or(p.periodEnd, @), p.trialEnd)
                              ELSE Or(p.periodEnd, @),
                !.trialEnd = IF p.to = "trialing" THEN p.trialEnd ELSE @,
                !.graceEnd = IF p.to = "grace" THEN t + GRACE ELSE @,
                !.compEnd = NoTime]
    IN IF p.to = "past_due" THEN EnterDunning(set, t)
       ELSE IF p.to \in {"none", "expired"} THEN ResetLifecycle(set)
       ELSE set

\* _mutate.
Mutate(e, trigger, t, p) ==
    CASE trigger \in {"start", "start_trial"} -> Started(e, trigger, p)
      [] trigger = "payment_succeeded" -> Paid(e, p)
      [] trigger \in {"payment_failed", "trial_overdue"} -> Failed(e, t)
      [] trigger = "dunning_elapsed" -> [e EXCEPT !.status = "grace", !.graceEnd = t + GRACE]
      [] trigger = "cancel" -> Canceled(e)
      [] trigger = "grant" -> Granted(e, p)
      [] trigger = "revoke" -> [e EXCEPT !.status = "expired", !.compEnd = NoTime]
      [] trigger = "override" -> Overridden(e, t, p)
      [] OTHER -> [e EXCEPT !.status = "expired"]
=============================================================================
