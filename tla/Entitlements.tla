---------------------------- MODULE Entitlements ----------------------------
(***************************************************************************)
(* Entitlements of one tenant: the one writer of entitlement state         *)
(* (apply_trigger in billing/entitlements.py) under its four kinds of      *)
(* caller -- payment reports, the owner's or manager's cancel, the         *)
(* operator's grant, revoke and override, and the worker's                 *)
(* entitlement_transitions job (billing/jobs.py) -- together with the tier *)
(* commands (billing/tiers.py) and the listing's visibility switch.        *)
(*                                                                         *)
(* apply_trigger is one transaction under the row locks of the entitlement *)
(* and of the listing, so it is one step here.  The job is not: it selects *)
(* rows with the pass's clock and applies a trigger to each of them later. *)
(***************************************************************************)
EXTENDS EntitlementMachine, Chunking

CONSTANTS
    Listings,     \* listing ids; the job works through entitlements in this order
    Periods,      \* how far ahead of the clock a period, a trial or a comp may end
    InitialRanks, \* the tier lists the tenant may begin with
    MaxRank,      \* bound: tier ranks
    MaxClock,     \* bound: the clock
    MaxOverrides, \* bound: overrides of one entitlement
    MaxCommands   \* bound: reports and commands that touch an entitlement or a tier

ASSUME EntitlementsAssumption ==
    /\ Listings \subseteq Nat /\ Periods \subseteq Nat
    /\ MaxRank \in Nat /\ MaxClock \in Nat /\ MaxOverrides \in Nat /\ MaxCommands \in Nat
    /\ InitialRanks \subseteq [Tiers -> -1 .. MaxRank]
    /\ \A r \in InitialRanks : \A s, t \in Tiers : r[s] = r[t] /\ r[s] >= 0 => s = t

VARIABLES
    clock,
    commands,     \* such reports and commands applied so far
    rank,         \* rank[t]: Tier.rank, -1 while the tenant has no such tier
    tierEdits,    \* tier commands applied so far
    ent,          \* ent[l]: the Entitlement row of listing l
    exists,       \* exists[l]: l has an Entitlement row
    overrides,    \* overrides[l]: overrides applied to l so far
    currentTier,  \* Listing.current_tier
    visibility,   \* Listing.visibility
    job,          \* "idle", "pass" (drains running), "rows" (working through a chunk), "failed"
    jobNow,       \* the clock value of the worker's pass
    jobRows       \* <<listing, trigger>>: rows selected and still to be applied

tierVars    == <<rank, tierEdits>>
listingVars == <<ent, exists, overrides, currentTier, visibility>>
jobVars     == <<job, jobNow, jobRows>>
vars        == <<clock, commands, tierVars, listingVars, jobVars>>

\* rank0_tier: ranks are unique within the tenant.
Rank0 == IF \E t \in Tiers : rank[t] = 0 THEN CHOOSE t \in Tiers : rank[t] = 0 ELSE NoTier

\* Faulty variant: an expired listing falls back to no tier at all.
EffectiveTier_NoFallback(e) == IF e.status \in PERK_STATUSES THEN e.tier ELSE NoTier

EffectiveTier(e) == IF e.status \in PERK_STATUSES THEN e.tier ELSE Rank0

\* The tiers the tenant has now: a report or a command may name any of them (a
\* checkout's tier may have been moved to another rank since).
Known == {t \in Tiers : rank[t] >= 0}

Init ==
    /\ clock = 0 /\ commands = 0
    /\ rank \in InitialRanks
    /\ tierEdits = 0
    /\ ent = [l \in Listings |-> Fresh(NoTier)]
    /\ exists = [l \in Listings |-> FALSE]
    /\ overrides = [l \in Listings |-> 0]
    /\ currentTier = [l \in Listings |-> NoTier]
    /\ visibility = [l \in Listings |-> "draft"]
    /\ job = "idle" /\ jobNow = 0 /\ jobRows = {}

Tick == /\ clock < MaxClock
        /\ clock' = clock + 1
        /\ UNCHANGED <<commands, tierVars, listingVars, jobVars>>

Command == commands < MaxCommands /\ commands' = commands + 1

-----------------------------------------------------------------------------
(* apply_trigger.                                                           *)

\* The row the trigger finds, or the one it creates.
RowOf(l, p) == IF exists[l] THEN ent[l] ELSE Fresh(p.tier)

\* Neither InvalidTransition nor EntitlementError (NotDue is the job's).
Applicable(l, trigger, p) ==
    /\ ~exists[l] => trigger \in Founding /\ p.tier # NoTier
    /\ Legal(RowOf(l, p).status, trigger)
    /\ ParamsGiven(trigger, p)

\* _visibility_after: when an expiry hides, and what undoes it.
Hides(l, e) == e.status = "expired" /\ Rank0 = NoTier /\ visibility[l] = "published"

\* Faulty variant: only a payment clears the mark, a comp does not.
Restored_OnlyPaid(e) == e.hidden /\ e.status \in PAID_STATUSES

Restored(e) == e.hidden /\ e.status \in PERK_STATUSES

\* Faulty variant: the mark alone decides, whatever the listing is now.
VisibilityAfter_Mark(l, e) == IF Hides(l, e) THEN "hidden"
                              ELSE IF Restored(e) THEN "published" ELSE visibility[l]

VisibilityAfter(l, e) == IF Hides(l, e) THEN "hidden"
                         ELSE IF Restored(e) /\ visibility[l] = "hidden" THEN "published"
                         ELSE visibility[l]

\* The mutation, the listing's tier and its visibility, in one transaction.
ApplyTrigger(l, trigger, t, p) ==
    LET old == RowOf(l, p)
        e   == Mutate(old, trigger, t, p)
    IN /\ Applicable(l, trigger, p)
       /\ exists' = [exists EXCEPT ![l] = TRUE]
       /\ ent' = [ent EXCEPT ![l] = [e EXCEPT !.hidden = Hides(l, e) \/ (@ /\ ~Restored(e))]]
       /\ overrides' = [overrides EXCEPT ![l] = IF trigger = "override" THEN @ + 1 ELSE @]
       /\ currentTier' = [currentTier EXCEPT ![l] = EffectiveTier(e)]
       /\ visibility' = [visibility EXCEPT ![l] = VisibilityAfter(l, e)]

\* A payment adapter's report, as the trigger core reads it as.  Reports come in
\* any order; a period may already be over when its report arrives.
Report(l) ==
    /\ Command
    /\ \/ \E tier \in Known, n \in Periods \cup {0} :
             \/ ApplyTrigger(l, "start", clock, [NoParams EXCEPT !.tier = tier, !.periodEnd = clock + n])
             \/ ApplyTrigger(l, "start_trial", clock,
                             [NoParams EXCEPT !.tier = tier, !.trialEnd = clock + n])
       \/ \E tier \in Known \cup {NoTier}, n \in Periods \cup {0} :
             ApplyTrigger(l, "payment_succeeded", clock,
                          [NoParams EXCEPT !.tier = tier, !.periodEnd = clock + n])
       \/ \E trigger \in {"payment_failed", "refund", "subscription_ended", "cancel"} :
             ApplyTrigger(l, trigger, clock, NoParams)
    /\ UNCHANGED <<clock, tierVars, jobVars>>

\* entitlement.cancel, by the owner or a manager.
CancelEntitlement(l) ==
    /\ Command
    /\ exists[l] /\ ent[l].status \in {"trialing", "active", "past_due", "grace"}
    /\ ApplyTrigger(l, "cancel", clock, NoParams)
    /\ UNCHANGED <<clock, tierVars, jobVars>>

\* entitlement.grant: any tier, for ever or until a later time.
GrantComp(l) ==
    /\ Command
    /\ \E tier \in Known,
          end \in {NoTime} \cup {clock + n : n \in Periods \ {0}} :
          ApplyTrigger(l, "grant", clock, [NoParams EXCEPT !.tier = tier, !.compEnd = end])
    /\ UNCHANGED <<clock, tierVars, jobVars>>

RevokeComp(l) ==
    /\ Command
    /\ exists[l] /\ ent[l].status = "comped"
    /\ ApplyTrigger(l, "revoke", clock, NoParams)
    /\ UNCHANGED <<clock, tierVars, jobVars>>

\* entitlement.override: any status but comped, with the times the operator gives.
OverrideEntitlement(l) ==
    /\ Command
    /\ overrides[l] < MaxOverrides
    /\ \E tier \in Known \cup {NoTier}, to \in Statuses \ {"comped"},
          end \in {NoTime} \cup {clock + n : n \in Periods} :
          ApplyTrigger(l, "override", clock,
                       [NoParams EXCEPT !.tier = tier, !.to = to, !.periodEnd = end,
                                        !.trialEnd = IF to = "trialing" THEN end ELSE NoTime])
    /\ UNCHANGED <<clock, tierVars, jobVars>>

-----------------------------------------------------------------------------
(* The clock's half: entitlement_transitions.                               *)

\* The worker reads its clock; the drains run before the tick jobs.
StartPass ==
    /\ job \in {"idle", "failed"}
    /\ job' = "pass" /\ jobNow' = clock
    /\ UNCHANGED <<clock, commands, tierVars, listingVars, jobRows>>

DueTriggers(l, t) == {g \in CLOCK_TRIGGERS : exists[l] /\ IsDue(ent[l], g, t)}

\* Faulty variant: the query leaves out comps that ran out.
DueRows_NoComps(t) == {l \in Listings : DueTriggers(l, t) \ {"comp_expired"} # {}}

\* _due_q.
DueRows(t) == {l \in Listings : DueTriggers(l, t) # {}}

\* The rows that look due, with the trigger each looks due for.
SelectRows ==
    /\ job = "pass"
    /\ \E C \in Chunks(DueRows(jobNow)) :
          jobRows' = {r \in C \X CLOCK_TRIGGERS : r[2] \in DueTriggers(r[1], jobNow)}
    /\ job' = "rows"
    /\ UNCHANGED <<clock, commands, tierVars, listingVars, jobNow>>

\* Faulty variant: the job trusts what it selected.
StillDue_Trusted(l, trigger) == TRUE

\* is_due again, under the row lock.
StillDue(l, trigger) == IsDue(ent[l], trigger, jobNow)

\* The next row: applied; skipped when the trigger is legal but not due (NotDue);
\* and when the row has moved to a status the trigger is not legal from, the
\* InvalidTransition ends the job and the rest of its chunk.
ApplyRow ==
    /\ job = "rows"
    /\ \E r \in jobRows :
        /\ \A s \in jobRows : r[1] <= s[1]
        /\ \/ /\ Legal(ent[r[1]].status, r[2]) /\ StillDue(r[1], r[2])
              /\ ApplyTrigger(r[1], r[2], jobNow, NoParams)
              /\ jobRows' = jobRows \ {r} /\ UNCHANGED <<job, jobNow>>
           \/ /\ Legal(ent[r[1]].status, r[2]) /\ ~StillDue(r[1], r[2])
              /\ jobRows' = jobRows \ {r} /\ UNCHANGED <<listingVars, job, jobNow>>
           \/ /\ ~Legal(ent[r[1]].status, r[2])
              /\ jobRows' = {} /\ job' = "failed" /\ jobNow' = 0 /\ UNCHANGED listingVars
    /\ UNCHANGED <<clock, commands, tierVars>>

EndJob == /\ job = "rows" /\ jobRows = {}
          /\ job' = "idle" /\ jobNow' = 0
          /\ UNCHANGED <<clock, commands, tierVars, listingVars, jobRows>>

-----------------------------------------------------------------------------
(* Tier commands and the visibility switch.                                 *)

TierCommand == Command /\ tierEdits' = tierEdits + 1 /\ UNCHANGED <<clock, listingVars, jobVars>>

RankFree(r) == \A t \in Tiers : rank[t] # r

CreateTier(t) == /\ TierCommand
                 /\ rank[t] = -1
                 /\ \E r \in 0 .. MaxRank : RankFree(r) /\ rank' = [rank EXCEPT ![t] = r]

UpdateTier(t) == /\ TierCommand
                 /\ rank[t] >= 0
                 /\ \E r \in 0 .. MaxRank : RankFree(r) /\ rank' = [rank EXCEPT ![t] = r]

\* Faulty variant: only entitlements protect a tier.
Unused_NotShown(t) == \A l \in Listings : ~(exists[l] /\ ent[l].tier = t)

\* No entitlement is on it and no listing shows it.
Unused(t) == \A l \in Listings : ~(exists[l] /\ ent[l].tier = t) /\ currentTier[l] # t

DeleteTier(t) == /\ TierCommand
                 /\ rank[t] >= 0 /\ Unused(t)
                 /\ rank' = [rank EXCEPT ![t] = -1]

\* An editor publishes or unpublishes the listing.  The view reads it without a
\* lock, but what it read only decides whether the write is a no-op.
SetVisibility(l) ==
    /\ \E v \in {"published", "draft"} \ {visibility[l]} :
          visibility' = [visibility EXCEPT ![l] = v]
    /\ UNCHANGED <<clock, commands, tierVars, ent, exists, overrides, currentTier, jobVars>>

Next == \/ Tick \/ StartPass \/ SelectRows \/ ApplyRow \/ EndJob
        \/ \E l \in Listings : \/ Report(l) \/ CancelEntitlement(l) \/ GrantComp(l)
                               \/ RevokeComp(l) \/ OverrideEntitlement(l) \/ SetVisibility(l)
        \/ \E t \in Tiers : CreateTier(t) \/ UpdateTier(t) \/ DeleteTier(t)

Spec == Init /\ [][Next]_vars

\* The clock runs and the worker goes on making passes; a failed job is tried
\* again in a later pass.  Nobody has to report or to command anything.
FairSpec == Spec /\ WF_vars(Tick) /\ WF_vars(StartPass \/ SelectRows \/ ApplyRow \/ EndJob)

-----------------------------------------------------------------------------
Times == Nat \cup {NoTime}

EntType == [status : Statuses, tier : Tiers \cup {NoTier}, periodEnd : Times, trialEnd : Times,
            dunningEnd : Times, graceEnd : Times, compEnd : Times, hidden : BOOLEAN]

\* Every variable has its type, and a row, once there, has a tier.
TypeOK ==
    /\ clock \in 0 .. MaxClock /\ commands \in 0 .. MaxCommands
    /\ rank \in [Tiers -> -1 .. MaxRank] /\ tierEdits \in Nat
    /\ ent \in [Listings -> EntType]
    /\ exists \in [Listings -> BOOLEAN] /\ overrides \in [Listings -> Nat]
    /\ currentTier \in [Listings -> Tiers \cup {NoTier}]
    /\ visibility \in [Listings -> {"draft", "published", "hidden"}]
    /\ job \in {"idle", "pass", "rows", "failed"} /\ jobNow \in 0 .. MaxClock
    /\ jobRows \subseteq Listings \X CLOCK_TRIGGERS
    /\ \A l \in Listings : exists[l] => ent[l].tier \in Tiers

\* A tier in use cannot disappear: what an entitlement is on, and what a listing
\* shows, is a tier of the tenant, whatever the tier commands do in between.
TierInUse ==
    \A l \in Listings : /\ exists[l] => rank[ent[l].tier] >= 0
                        /\ currentTier[l] # NoTier => rank[currentTier[l]] >= 0

\* Listing.current_tier follows the entitlement through every path: it is the
\* entitlement's tier in a perk status, and otherwise the fallback -- which no
\* command but apply_trigger brings up to date, hence the condition.
ShownTier ==
    \A l \in Listings : exists[l] =>
        IF ent[l].status \in PERK_STATUSES THEN currentTier[l] = ent[l].tier
        ELSE tierEdits = 0 => currentTier[l] = Rank0

\* No status waits for a deadline that is not set; the one exception is a
\* cancelled entitlement whose status an operator overrode before.
DeadlineSet ==
    \A l \in Listings :
        LET e == ent[l]
        IN /\ e.status = "past_due" => e.dunningEnd # NoTime
           /\ e.status = "grace" => e.graceEnd # NoTime
           /\ e.status = "trialing" => e.trialEnd # NoTime
           /\ e.status = "canceled" => e.periodEnd # NoTime \/ overrides[l] > 0

\* hidden_by_expiry and the perks exclude each other, and a hidden listing always
\* carries the mark: whatever an expiry hid, every way back to a perk status (a
\* payment, a grant, an override) brings back, though tiers came and went meanwhile.
ExpiryHides ==
    \A l \in Listings :
        /\ ent[l].hidden => ent[l].status \notin PERK_STATUSES
        /\ visibility[l] = "hidden" => ent[l].hidden

\* _visibility_after's docstring, "only if nothing else has changed it since": a
\* listing an editor took down stays down through every change of its entitlement.
DraftStands ==
    [][\A l \in Listings : visibility[l] = "draft" /\ ent'[l] # ent[l] =>
           visibility'[l] = "draft"]_vars

\* Being unable to pay twice does not buy time: while an entitlement stays in
\* dunning, only an override moves the end of it.
DunningNotExtended ==
    [][\A l \in Listings :
          ent[l].status = "past_due" /\ ent'[l].status = "past_due" /\ overrides'[l] = overrides[l]
              => ent'[l].dunningEnd = ent[l].dunningEnd]_vars

\* The clock wins in the end: an entitlement with a deadline that has passed is
\* moved on, by the job or by somebody else.
DeadlinesAreActedOn ==
    \A l \in Listings : DueTriggers(l, clock) # {} ~> DueTriggers(l, clock) = {}

\* The job never ends a subscription whose payment came in between: the clock's
\* half moves a row only past a deadline that holds for the row as it is now.
JobRespectsPayments ==
    [][commands' = commands =>
        \A l \in Listings : ent'[l] # ent[l] => DueTriggers(l, clock) # {}]_vars

-----------------------------------------------------------------------------
(* What the documentation says without conditions, and the code does not.   *)

\* billing/jobs.py's docstring: apply_trigger re-checks each row under its lock,
\* "a payment that landed a moment ago wins, and the job skips the row".
JobSkipsMovedRows == job # "failed"
=============================================================================
