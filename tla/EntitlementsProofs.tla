------------------------- MODULE EntitlementsProofs -------------------------
(***************************************************************************)
(* The safety properties of Entitlements, for any listings, tiers, periods *)
(* and bounds.  What a trigger does to one row is settled first, in lemmas *)
(* about Mutate; every caller of apply_trigger then needs only that its    *)
(* parameters are of the right kind (StepInv).                             *)
(***************************************************************************)
EXTENDS Entitlements, TLAPS

Triggers == Founding \cup CLOCK_TRIGGERS \cup
            {"payment_succeeded", "payment_failed", "cancel", "revoke", "refund", "subscription_ended"}

Params == [tier : Tiers \cup {NoTier}, periodEnd : Times, trialEnd : Times, compEnd : Times, to : Statuses]

\* The columns a status needs, on a row that o overrides have touched.
RowInv(e, o) ==
    /\ e.status = "past_due" => e.dunningEnd # NoTime
    /\ e.status = "grace" => e.graceEnd # NoTime
    /\ e.status = "trialing" => e.trialEnd # NoTime
    /\ e.status \in {"trialing", "active", "past_due", "canceled"} => e.periodEnd # NoTime \/ o > 0

\* The tiers of a listing, its deadlines and its visibility.  A row that is not there
\* looks like a fresh one.
ListingInv(l) ==
    /\ exists[l] => ent[l].tier \in Tiers /\ rank[ent[l].tier] >= 0
    /\ currentTier[l] # NoTier => rank[currentTier[l]] >= 0
    /\ exists[l] => IF ent[l].status \in PERK_STATUSES THEN currentTier[l] = ent[l].tier
                    ELSE tierEdits = 0 => currentTier[l] = Rank0
    /\ ent[l].hidden => ent[l].status \notin PERK_STATUSES
    /\ visibility[l] = "hidden" => ent[l].hidden
    /\ RowInv(ent[l], overrides[l])
    /\ ~exists[l] => ent[l].status = "none" /\ ~ent[l].hidden

\* The worker's clock is never ahead.
IInv == TypeOK /\ jobNow <= clock /\ \A l \in Listings : ListingInv(l)

-----------------------------------------------------------------------------
(* Rows.                                                                    *)

LEMMA EntFields ==
    ASSUME NEW e \in EntType
    PROVE  /\ e.status \in Statuses /\ e.tier \in Tiers \cup {NoTier} /\ e.hidden \in BOOLEAN
           /\ e.periodEnd \in Times /\ e.trialEnd \in Times /\ e.dunningEnd \in Times
           /\ e.graceEnd \in Times /\ e.compEnd \in Times
BY DEF EntType

\* Where the triggers that rely on the row's deadlines may start from.
LEMMA LegalFrom ==
    ASSUME NEW s, NEW trigger, Legal(s, trigger)
    PROVE  /\ trigger = "payment_failed" => s \in {"trialing", "active", "past_due", "grace"}
           /\ trigger = "trial_overdue" => s = "trialing"
           /\ trigger = "cancel" => s \in {"trialing", "active", "past_due", "grace"}
BY DEF Legal, TRANSITIONS, PAID_STATUSES

\* What _mutate makes of a row.
MutateSound(e, trigger, o, p, m) ==
    /\ m \in EntType /\ m.hidden = e.hidden
    /\ m.tier = e.tier \/ (m.tier = p.tier /\ p.tier # NoTier)
    /\ RowInv(e, o) => RowInv(m, IF trigger = "override" THEN o + 1 ELSE o)
    /\ e.status = "past_due" /\ m.status = "past_due" /\ trigger # "override" => m.dunningEnd = e.dunningEnd

LEMMA MutateStart ==
    ASSUME NEW e \in EntType, NEW trigger \in {"start", "start_trial"}, NEW o \in Nat, NEW p \in Params,
           ParamsGiven(trigger, p)
    PROVE  MutateSound(e, trigger, o, p, Started(e, trigger, p))
<1> DEFINE m == Started(e, trigger, p)
<1>1. m = [e EXCEPT !.status = IF trigger = "start_trial" THEN "trialing" ELSE "active", !.tier = p.tier,
                    !.trialEnd = IF trigger = "start_trial" THEN p.trialEnd ELSE NoTime,
                    !.periodEnd = Or(p.periodEnd, p.trialEnd), !.compEnd = NoTime,
                    !.dunningEnd = NoTime, !.graceEnd = NoTime]
  BY DEF Started, ResetLifecycle, EntType
<1>2. /\ p.tier \in Tiers /\ p.tier # NoTier
      /\ p.trialEnd \in Times /\ p.periodEnd \in Times
      /\ trigger = "start_trial" => p.trialEnd # NoTime
      /\ trigger = "start" => p.periodEnd # NoTime
  BY DEF ParamsGiven, Params
<1>3. m \in EntType /\ m.hidden = e.hidden /\ m.tier = p.tier /\ m.status \in {"trialing", "active"}
  BY <1>1, <1>2 DEF EntType, Times, Or, NoTime, Statuses
<1>4. m.periodEnd # NoTime /\ (m.status = "trialing" => m.trialEnd # NoTime)
  BY <1>1, <1>2 DEF EntType, Or
<1> QED BY <1>2, <1>3, <1>4 DEF MutateSound, RowInv

LEMMA MutatePaid ==
    ASSUME NEW e \in EntType, NEW o \in Nat, NEW p \in Params, ParamsGiven("payment_succeeded", p)
    PROVE  MutateSound(e, "payment_succeeded", o, p, Paid(e, p))
<1> DEFINE m == Paid(e, p)
<1>1. m = [e EXCEPT !.status = "active", !.tier = TierOr(p.tier, e.tier), !.periodEnd = p.periodEnd,
                    !.compEnd = IF e.status = "comped" THEN NoTime ELSE e.compEnd,
                    !.dunningEnd = NoTime, !.graceEnd = NoTime]
  BY DEF Paid, ResetLifecycle, EntType
<1>2. p.tier \in Tiers \cup {NoTier} /\ p.periodEnd \in Times /\ p.periodEnd # NoTime
  BY DEF ParamsGiven, Params
<1>3. m \in EntType /\ m.hidden = e.hidden /\ m.status = "active" /\ m.periodEnd = p.periodEnd
  BY <1>1, <1>2 DEF EntType, Times, NoTime, Statuses, TierOr
<1>4. m.tier = e.tier \/ (m.tier = p.tier /\ p.tier # NoTier)
  BY <1>1 DEF EntType, TierOr
<1> QED BY <1>2, <1>3, <1>4 DEF MutateSound, RowInv

\* A failed payment, or a trial nobody reported on.
LEMMA MutateFailed ==
    ASSUME NEW e \in EntType, NEW trigger \in {"payment_failed", "trial_overdue"}, NEW t \in Nat,
           NEW o \in Nat, NEW p \in Params, Legal(e.status, trigger)
    PROVE  MutateSound(e, trigger, o, p, Failed(e, t))
<1> DEFINE m == Failed(e, t)
<1>1. e.status \in {"trialing", "active", "past_due", "grace"}
  BY LegalFrom
<1>2. CASE e.status \in {"past_due", "grace"}
  BY <1>2 DEF Failed, MutateSound, RowInv
<1>3. CASE e.status \in {"trialing", "active"}
  <2>2. PICK d : d = t + DUNNING /\ d \in Times /\ d # NoTime
    BY MachineAssumption DEF Times, NoTime
  <2>1. m = [e EXCEPT !.status = "past_due", !.dunningEnd = d]
    BY <1>3, <2>2 DEF Failed, EnterDunning, EntType
  <2>3. m \in EntType /\ m.hidden = e.hidden /\ m.tier = e.tier /\ m.status = "past_due"
        /\ m.periodEnd = e.periodEnd /\ m.dunningEnd # NoTime
    BY <2>1, <2>2 DEF EntType, Statuses
  <2> QED BY <1>3, <2>3 DEF MutateSound, RowInv
<1> QED BY <1>1, <1>2, <1>3

LEMMA MutateCancel ==
    ASSUME NEW e \in EntType, NEW o \in Nat, NEW p \in Params, Legal(e.status, "cancel")
    PROVE  MutateSound(e, "cancel", o, p, Canceled(e))
<1> DEFINE m == Canceled(e)
<1>1. e.status \in {"trialing", "active", "past_due", "grace"}
  BY LegalFrom
<1>2. CASE e.status = "grace"
  <2>1. m = [e EXCEPT !.status = "expired"]
    BY <1>2 DEF Canceled
  <2> QED BY <2>1 DEF MutateSound, RowInv, EntType, Statuses
<1>3. CASE e.status # "grace"
  <2>1. m = [e EXCEPT !.status = "canceled", !.periodEnd = Or(e.periodEnd, e.trialEnd)]
    BY <1>3 DEF Canceled, EntType
  <2>2. m \in EntType /\ m.hidden = e.hidden /\ m.tier = e.tier /\ m.status = "canceled"
        /\ (e.periodEnd # NoTime => m.periodEnd # NoTime)
    BY <2>1 DEF EntType, Statuses, Or
  <2> QED BY <1>1, <1>3, <2>2 DEF MutateSound, RowInv
<1> QED BY <1>2, <1>3

LEMMA MutateGrant ==
    ASSUME NEW e \in EntType, NEW o \in Nat, NEW p \in Params, ParamsGiven("grant", p)
    PROVE  MutateSound(e, "grant", o, p, Granted(e, p))
<1>1. Granted(e, p) = [e EXCEPT !.status = "comped", !.tier = p.tier, !.periodEnd = NoTime, !.trialEnd = NoTime,
                                !.compEnd = p.compEnd, !.dunningEnd = NoTime, !.graceEnd = NoTime]
  BY DEF Granted, ResetLifecycle, EntType
<1>2. p.tier \in Tiers /\ p.tier # NoTier /\ p.compEnd \in Times
  BY DEF ParamsGiven, Params
<1> QED BY <1>1, <1>2 DEF MutateSound, RowInv, EntType, Times, NoTime, Statuses

\* The clock's and the operator's ways to the end, and from dunning to grace.
LEMMA MutateLapse ==
    ASSUME NEW e \in EntType, NEW trigger, NEW t \in Nat, NEW o \in Nat, NEW p \in Params, trigger # "override"
    PROVE  /\ MutateSound(e, trigger, o, p, [e EXCEPT !.status = "grace", !.graceEnd = t + GRACE])
           /\ MutateSound(e, trigger, o, p, [e EXCEPT !.status = "expired", !.compEnd = NoTime])
           /\ MutateSound(e, trigger, o, p, [e EXCEPT !.status = "expired"])
<1>1. PICK d : d = t + GRACE /\ d \in Times /\ d # NoTime
  BY MachineAssumption DEF Times, NoTime
<1>2. MutateSound(e, trigger, o, p, [e EXCEPT !.status = "grace", !.graceEnd = d])
  BY <1>1 DEF MutateSound, RowInv, EntType, Statuses
<1>3. /\ MutateSound(e, trigger, o, p, [e EXCEPT !.status = "expired", !.compEnd = NoTime])
      /\ MutateSound(e, trigger, o, p, [e EXCEPT !.status = "expired"])
  BY DEF MutateSound, RowInv, EntType, Times, NoTime, Statuses
<1> QED BY <1>1, <1>2, <1>3

LEMMA MutateOverride ==
    ASSUME NEW e \in EntType, NEW t \in Nat, NEW o \in Nat, NEW p \in Params, ParamsGiven("override", p)
    PROVE  MutateSound(e, "override", o, p, Overridden(e, t, p))
<1> DEFINE m == Overridden(e, t, p)
           tier == TierOr(p.tier, e.tier)
           period == IF p.to = "trialing" THEN Or(Or(p.periodEnd, e.periodEnd), p.trialEnd)
                     ELSE Or(p.periodEnd, e.periodEnd)
           trial == IF p.to = "trialing" THEN p.trialEnd ELSE e.trialEnd
           dunning == IF p.to = "past_due" THEN t + DUNNING
                      ELSE IF p.to \in {"none", "expired"} THEN NoTime ELSE e.dunningEnd
           grace == IF p.to \in {"none", "expired"} THEN NoTime
                    ELSE IF p.to = "grace" THEN t + GRACE ELSE e.graceEnd
<1>1. m = [e EXCEPT !.status = p.to, !.tier = tier, !.periodEnd = period, !.trialEnd = trial,
                    !.dunningEnd = dunning, !.graceEnd = grace, !.compEnd = NoTime]
  BY DEF Overridden, EnterDunning, ResetLifecycle, EntType
<1>2. /\ p.to \in Statuses /\ p.tier \in Tiers \cup {NoTier} /\ p.periodEnd \in Times /\ p.trialEnd \in Times
      /\ p.to = "trialing" => p.trialEnd # NoTime
  BY DEF Params, ParamsGiven
<1>3. /\ tier \in Tiers \cup {NoTier} /\ period \in Times /\ trial \in Times
      /\ tier = e.tier \/ (tier = p.tier /\ p.tier # NoTier)
      /\ p.to = "trialing" => trial # NoTime
  BY <1>2, EntFields DEF TierOr, Or
<1>4. /\ dunning \in Times /\ grace \in Times
      /\ p.to = "past_due" => dunning # NoTime
      /\ p.to = "grace" => grace # NoTime
  BY MachineAssumption, EntFields DEF Times, NoTime
<1> HIDE DEF tier, period, trial, dunning, grace, m
<1>5. /\ m \in EntType /\ m.hidden = e.hidden /\ m.status = p.to /\ m.tier = tier
      /\ m.trialEnd = trial /\ m.dunningEnd = dunning /\ m.graceEnd = grace
  BY <1>1, <1>2, <1>3, <1>4 DEF EntType, Times, NoTime
<1>6. RowInv(m, o + 1)
  BY <1>3, <1>4, <1>5 DEF RowInv
<1> QED BY <1>3, <1>5, <1>6 DEF MutateSound, m

\* _mutate keeps the columns a status needs, loses no tier, and leaves the mark alone.
LEMMA MutateCorrect ==
    ASSUME NEW e \in EntType, NEW trigger \in Triggers, NEW t \in Nat, NEW o \in Nat, NEW p \in Params,
           Legal(e.status, trigger), ParamsGiven(trigger, p)
    PROVE  MutateSound(e, trigger, o, p, Mutate(e, trigger, t, p))
<1>1. CASE trigger \in {"start", "start_trial"}
  BY <1>1, MutateStart DEF Mutate
<1>2. CASE trigger = "payment_succeeded"
  BY <1>2, MutatePaid DEF Mutate
<1>3. CASE trigger \in {"payment_failed", "trial_overdue"}
  BY <1>3, MutateFailed DEF Mutate
<1>4. CASE trigger = "cancel"
  BY <1>4, MutateCancel DEF Mutate
<1>5. CASE trigger = "grant"
  BY <1>5, MutateGrant DEF Mutate
<1>6. CASE trigger = "override"
  BY <1>6, MutateOverride DEF Mutate
<1>7. CASE trigger \in {"dunning_elapsed", "revoke", "grace_elapsed", "period_elapsed", "comp_expired",
                        "refund", "subscription_ended"}
  BY <1>7, MutateLapse DEF Mutate
<1> QED BY <1>1, <1>2, <1>3, <1>4, <1>5, <1>6, <1>7 DEF Triggers, Founding, CLOCK_TRIGGERS

-----------------------------------------------------------------------------
(* apply_trigger.                                                           *)

\* The free tier, if there is one, is a tier of the tenant.
LEMMA Rank0Type == Rank0 \in Tiers \cup {NoTier} /\ (Rank0 # NoTier => rank[Rank0] = 0)
BY DEF Rank0

\* What the caller passes on a tier is a tier the tenant has now.
Sent(p) == p \in Params /\ p.tier \in Known \cup {NoTier}

\* The row that apply_trigger reads or creates.
LEMMA RowOfCorrect ==
    ASSUME IInv, NEW l \in Listings, NEW trigger \in Triggers, NEW p, Sent(p), Applicable(l, trigger, p)
    PROVE  LET e == RowOf(l, p)
           IN /\ e \in EntType /\ RowInv(e, overrides[l])
              /\ e.tier \in Tiers /\ rank[e.tier] >= 0
              /\ e.hidden = ent[l].hidden
              /\ e.status = ent[l].status
<1>0. ent[l] \in EntType /\ exists[l] \in BOOLEAN /\ ListingInv(l)
  BY DEF IInv, TypeOK
<1>1. CASE exists[l]
  BY <1>0, <1>1 DEF RowOf, ListingInv
<1>2. CASE ~exists[l]
  <2>1. p.tier \in Tiers /\ rank[p.tier] >= 0
    BY <1>2 DEF Applicable, Sent, Known
  <2>2. ent[l].status = "none" /\ ent[l].hidden = FALSE
    BY <1>0, <1>2, EntFields DEF ListingInv
  <2>3. RowOf(l, p) = Fresh(p.tier)
    BY <1>2 DEF RowOf
  <2>4. Fresh(p.tier) \in EntType
    BY <2>1 DEF Fresh, EntType, Times, NoTime, Statuses
  <2>5. Fresh(p.tier).status = "none" /\ Fresh(p.tier).tier = p.tier /\ Fresh(p.tier).hidden = FALSE
    BY DEF Fresh
  <2> QED BY <2>1, <2>2, <2>3, <2>4, <2>5 DEF RowInv
<1> QED BY <1>1, <1>2

\* What one application leaves behind, for the row and for all the others.
LEMMA ApplyCorrect ==
    ASSUME IInv, NEW l \in Listings, NEW trigger \in Triggers, NEW t \in Nat, NEW p, Sent(p),
           ApplyTrigger(l, trigger, t, p), UNCHANGED tierVars
    PROVE  /\ ent' \in [Listings -> EntType] /\ exists' \in [Listings -> BOOLEAN]
           /\ overrides' \in [Listings -> Nat] /\ currentTier' \in [Listings -> Tiers \cup {NoTier}]
           /\ visibility' \in [Listings -> {"draft", "published", "hidden"}]
           /\ \A k \in Listings : ListingInv(k)'
           /\ \A k \in Listings \ {l} : ent'[k] = ent[k]
           /\ visibility[l] = "draft" => visibility'[l] = "draft"
           /\ ent[l].status = "past_due" /\ ent'[l].status = "past_due" /\ overrides'[l] = overrides[l]
                 => ent'[l].dunningEnd = ent[l].dunningEnd
<1>0. /\ ent \in [Listings -> EntType] /\ exists \in [Listings -> BOOLEAN] /\ overrides \in [Listings -> Nat]
      /\ currentTier \in [Listings -> Tiers \cup {NoTier}]
      /\ visibility \in [Listings -> {"draft", "published", "hidden"}]
      /\ rank' = rank /\ tierEdits' = tierEdits
      /\ Applicable(l, trigger, p)
  BY DEF IInv, TypeOK, tierVars, ApplyTrigger
<1> DEFINE old == RowOf(l, p)
           e == Mutate(old, trigger, t, p)
           o == IF trigger = "override" THEN overrides[l] + 1 ELSE overrides[l]
           hid == Hides(l, e) \/ (e.hidden /\ ~Restored(e))
<1>1. /\ old \in EntType /\ RowInv(old, overrides[l]) /\ old.tier \in Tiers /\ rank[old.tier] >= 0
      /\ old.hidden = ent[l].hidden /\ old.status = ent[l].status
  BY <1>0, RowOfCorrect
<1>2. MutateSound(old, trigger, overrides[l], p, e)
  BY <1>0, <1>1, MutateCorrect DEF Applicable, Sent
<1>3. /\ exists' = [exists EXCEPT ![l] = TRUE]
      /\ ent' = [ent EXCEPT ![l] = [e EXCEPT !.hidden = hid]]
      /\ overrides' = [overrides EXCEPT ![l] = o]
      /\ currentTier' = [currentTier EXCEPT ![l] = EffectiveTier(e)]
      /\ visibility' = [visibility EXCEPT ![l] = VisibilityAfter(l, e)]
  BY <1>0 DEF ApplyTrigger
<1> HIDE DEF old, e
<1>4. /\ e \in EntType /\ e.hidden = ent[l].hidden /\ RowInv(e, o)
      /\ e.tier \in Tiers /\ rank[e.tier] >= 0
  BY <1>1, <1>2 DEF MutateSound, Sent, Known
<1>5. hid \in BOOLEAN /\ EffectiveTier(e) \in Tiers \cup {NoTier} /\ o \in Nat
      /\ VisibilityAfter(l, e) \in {"draft", "published", "hidden"}
  BY <1>0, <1>4, Rank0Type, EntFields DEF EffectiveTier, VisibilityAfter, Hides, Restored
<1> HIDE DEF o, hid
<1>6. PICK m : m = [e EXCEPT !.hidden = hid] /\ m \in EntType
  <2>1. [e EXCEPT !.hidden = TRUE] \in EntType /\ [e EXCEPT !.hidden = FALSE] \in EntType
    BY <1>4 DEF EntType
  <2> QED BY <1>5, <2>1
<1>7. /\ m.hidden = hid /\ m.status = e.status /\ m.tier = e.tier /\ m.periodEnd = e.periodEnd
      /\ m.trialEnd = e.trialEnd /\ m.dunningEnd = e.dunningEnd /\ m.graceEnd = e.graceEnd
  BY <1>4, <1>6 DEF EntType
<1>8. /\ ent' \in [Listings -> EntType] /\ exists' \in [Listings -> BOOLEAN]
      /\ overrides' \in [Listings -> Nat] /\ currentTier' \in [Listings -> Tiers \cup {NoTier}]
      /\ visibility' \in [Listings -> {"draft", "published", "hidden"}]
  BY <1>0, <1>3, <1>5, <1>6
<1>9. /\ ent'[l] = m /\ exists'[l] = TRUE /\ overrides'[l] = o /\ currentTier'[l] = EffectiveTier(e)
      /\ visibility'[l] = VisibilityAfter(l, e)
      /\ \A k \in Listings \ {l} : /\ ent'[k] = ent[k] /\ exists'[k] = exists[k] /\ overrides'[k] = overrides[k]
                                   /\ currentTier'[k] = currentTier[k] /\ visibility'[k] = visibility[k]
  BY <1>0, <1>3, <1>6
<1>10. ASSUME NEW k \in Listings \ {l} PROVE ListingInv(k)'
  <2>1. ListingInv(k)
    BY DEF IInv
  <2> QED BY <1>0, <1>9, <2>1 DEF ListingInv, RowInv, Rank0
<1>11. ListingInv(l)'
  <2>1. ListingInv(l)
    BY DEF IInv
  <2>2. Rank0' = Rank0
    BY <1>0 DEF Rank0
  <2>3. RowInv(ent[l], overrides[l])'
    BY <1>4, <1>7, <1>9 DEF RowInv
  <2>4. /\ rank'[ent'[l].tier] >= 0 /\ ent'[l].tier \in Tiers
        /\ currentTier'[l] # NoTier => rank'[currentTier'[l]] >= 0
        /\ IF ent'[l].status \in PERK_STATUSES THEN currentTier'[l] = ent'[l].tier ELSE currentTier'[l] = Rank0'
    BY <1>0, <1>4, <1>7, <1>9, <2>2, Rank0Type DEF EffectiveTier
  <2>5. ent'[l].hidden => ent'[l].status \notin PERK_STATUSES
    BY <1>7, <1>9 DEF hid, Hides, Restored, PERK_STATUSES
  <2>6. visibility'[l] = "hidden" => ent'[l].hidden
    BY <1>4, <1>7, <1>9, <2>1 DEF hid, VisibilityAfter, ListingInv
  <2> QED BY <1>9, <2>3, <2>4, <2>5, <2>6 DEF ListingInv
<1>12. visibility[l] = "draft" => visibility'[l] = "draft"
  BY <1>9 DEF VisibilityAfter, Hides
<1>13. ent[l].status = "past_due" /\ ent'[l].status = "past_due" /\ overrides'[l] = overrides[l]
          => ent'[l].dunningEnd = ent[l].dunningEnd
  <2> SUFFICES ASSUME ent[l].status = "past_due", ent'[l].status = "past_due", overrides'[l] = overrides[l]
               PROVE  ent'[l].dunningEnd = ent[l].dunningEnd
    OBVIOUS
  <2>1. trigger # "override"
    BY <1>0, <1>9 DEF o
  <2>2. exists[l]
    BY DEF IInv, ListingInv
  <2>3. old = ent[l]
    BY <2>2 DEF old, RowOf
  <2> QED BY <1>2, <1>7, <1>9, <2>1, <2>3 DEF MutateSound
<1> QED BY <1>8, <1>9, <1>10, <1>11, <1>12, <1>13

-----------------------------------------------------------------------------
(* The steps.                                                               *)

\* What a step may do to a row: what the three action properties say of one listing.
RowStep(l) ==
    /\ visibility[l] = "draft" /\ ent'[l] # ent[l] => visibility'[l] = "draft"
    /\ ent[l].status = "past_due" /\ ent'[l].status = "past_due" /\ overrides'[l] = overrides[l]
          => ent'[l].dunningEnd = ent[l].dunningEnd
    /\ commands' = commands /\ ent'[l] # ent[l] => DueTriggers(l, clock) # {}

Good == IInv' /\ \A l \in Listings : RowStep(l)

\* Any command or report that ends in apply_trigger.
LEMMA CommandGood ==
    ASSUME IInv, Command, NEW l \in Listings, NEW trigger \in Triggers, NEW p, Sent(p),
           ApplyTrigger(l, trigger, clock, p), UNCHANGED <<clock, tierVars, jobVars>>
    PROVE  Good
<1>1. clock \in Nat /\ UNCHANGED tierVars
  BY EntitlementsAssumption DEF IInv, TypeOK
<1>2. commands' \in 0 .. MaxCommands /\ commands' # commands
  BY EntitlementsAssumption DEF IInv, TypeOK, Command
<1>3. /\ ent' \in [Listings -> EntType] /\ exists' \in [Listings -> BOOLEAN]
      /\ overrides' \in [Listings -> Nat] /\ currentTier' \in [Listings -> Tiers \cup {NoTier}]
      /\ visibility' \in [Listings -> {"draft", "published", "hidden"}]
      /\ \A k \in Listings : ListingInv(k)'
      /\ \A k \in Listings \ {l} : ent'[k] = ent[k]
      /\ visibility[l] = "draft" => visibility'[l] = "draft"
      /\ ent[l].status = "past_due" /\ ent'[l].status = "past_due" /\ overrides'[l] = overrides[l]
            => ent'[l].dunningEnd = ent[l].dunningEnd
  BY <1>1, ApplyCorrect
<1>4. TypeOK' /\ jobNow' <= clock'
  BY <1>2, <1>3 DEF IInv, TypeOK, tierVars, jobVars, ListingInv
<1>5. \A k \in Listings : RowStep(k)
  BY <1>2, <1>3 DEF RowStep
<1> QED BY <1>3, <1>4, <1>5 DEF Good, IInv

\* The parameters the callers give.
LEMMA ParamsSent ==
    ASSUME NEW tier \in Known \cup {NoTier}, NEW end \in Times, NEW to \in Statuses
    PROVE  /\ Sent(NoParams)
           /\ Sent([NoParams EXCEPT !.tier = tier, !.periodEnd = end])
           /\ Sent([NoParams EXCEPT !.tier = tier, !.trialEnd = end])
           /\ Sent([NoParams EXCEPT !.tier = tier, !.compEnd = end])
           /\ Sent([NoParams EXCEPT !.tier = tier, !.to = to, !.periodEnd = end,
                                    !.trialEnd = IF to = "trialing" THEN end ELSE NoTime])
<1>1. tier \in Tiers \cup {NoTier} /\ NoTime \in Times /\ "none" \in Statuses
  BY DEF Known, Times, Statuses
<1>2. PICK trial \in Times : trial = IF to = "trialing" THEN end ELSE NoTime
  BY <1>1
<1>3. Sent([NoParams EXCEPT !.tier = tier, !.to = to, !.periodEnd = end, !.trialEnd = trial])
  BY <1>1 DEF Sent, Params, NoParams
<1>4. Sent(NoParams) /\ Sent([NoParams EXCEPT !.tier = tier, !.periodEnd = end])
  BY <1>1 DEF Sent, Params, NoParams
<1>5. /\ Sent([NoParams EXCEPT !.tier = tier, !.trialEnd = end])
      /\ Sent([NoParams EXCEPT !.tier = tier, !.compEnd = end])
  BY <1>1 DEF Sent, Params, NoParams
<1> QED BY <1>2, <1>3, <1>4, <1>5

LEMMA ReportGood == ASSUME IInv, NEW l \in Listings, Report(l) PROVE Good
<1>0. Command /\ UNCHANGED <<clock, tierVars, jobVars>> 
  BY DEF Report
<1>1. \A n \in Periods \cup {0} : clock + n \in Times
  BY EntitlementsAssumption DEF IInv, TypeOK, Times
<1>2. ASSUME NEW tier \in Known, NEW n \in Periods \cup {0},
             ApplyTrigger(l, "start", clock, [NoParams EXCEPT !.tier = tier, !.periodEnd = clock + n])
      PROVE  Good
  <2>1. Sent([NoParams EXCEPT !.tier = tier, !.periodEnd = clock + n])
    BY <1>1, ParamsSent DEF Statuses
  <2> QED BY <1>0, <1>2, <2>1, CommandGood DEF Triggers, Founding
<1>3. ASSUME NEW tier \in Known, NEW n \in Periods \cup {0},
             ApplyTrigger(l, "start_trial", clock, [NoParams EXCEPT !.tier = tier, !.trialEnd = clock + n])
      PROVE  Good
  <2>1. Sent([NoParams EXCEPT !.tier = tier, !.trialEnd = clock + n])
    BY <1>1, ParamsSent DEF Statuses
  <2> QED BY <1>0, <1>3, <2>1, CommandGood DEF Triggers, Founding
<1>4. ASSUME NEW tier \in Known \cup {NoTier}, NEW n \in Periods \cup {0},
             ApplyTrigger(l, "payment_succeeded", clock, [NoParams EXCEPT !.tier = tier, !.periodEnd = clock + n])
      PROVE  Good
  <2>1. Sent([NoParams EXCEPT !.tier = tier, !.periodEnd = clock + n])
    BY <1>1, ParamsSent DEF Statuses
  <2> QED BY <1>0, <1>4, <2>1, CommandGood DEF Triggers
<1>5. ASSUME NEW trigger \in {"payment_failed", "refund", "subscription_ended", "cancel"},
             ApplyTrigger(l, trigger, clock, NoParams)
      PROVE  Good
  <2>1. Sent(NoParams)
    BY ParamsSent DEF Times, Statuses
  <2> QED BY <1>0, <1>5, <2>1, CommandGood DEF Triggers
<1> QED BY <1>2, <1>3, <1>4, <1>5 DEF Report

LEMMA PlainGood ==
    ASSUME IInv, NEW l \in Listings, CancelEntitlement(l) \/ RevokeComp(l) PROVE Good
<1>1. Sent(NoParams)
  BY ParamsSent DEF Times, Statuses
<1> QED BY <1>1, CommandGood DEF CancelEntitlement, RevokeComp, Triggers

LEMMA GrantGood == ASSUME IInv, NEW l \in Listings, GrantComp(l) PROVE Good
<1>1. PICK tier \in Known, end \in {NoTime} \cup {clock + n : n \in Periods \ {0}} :
         ApplyTrigger(l, "grant", clock, [NoParams EXCEPT !.tier = tier, !.compEnd = end])
  BY DEF GrantComp
<1>2. end \in Times
  BY EntitlementsAssumption DEF IInv, TypeOK, Times
<1>3. Sent([NoParams EXCEPT !.tier = tier, !.compEnd = end])
  BY <1>2, ParamsSent DEF Statuses
<1> QED BY <1>1, <1>3, CommandGood DEF GrantComp, Triggers, Founding

LEMMA OverrideGood == ASSUME IInv, NEW l \in Listings, OverrideEntitlement(l) PROVE Good
<1>1. PICK tier \in Known \cup {NoTier}, to \in Statuses \ {"comped"},
           end \in {NoTime} \cup {clock + n : n \in Periods} :
         ApplyTrigger(l, "override", clock,
                      [NoParams EXCEPT !.tier = tier, !.to = to, !.periodEnd = end,
                                       !.trialEnd = IF to = "trialing" THEN end ELSE NoTime])
  BY DEF OverrideEntitlement
<1>2. end \in Times /\ (IF to = "trialing" THEN end ELSE NoTime) \in Times
  BY EntitlementsAssumption DEF IInv, TypeOK, Times
<1>3. Sent([NoParams EXCEPT !.tier = tier, !.to = to, !.periodEnd = end,
                            !.trialEnd = IF to = "trialing" THEN end ELSE NoTime])
  BY <1>2, ParamsSent
<1> QED BY <1>1, <1>3, CommandGood DEF OverrideEntitlement, Triggers, Founding

\* A step that leaves rows, tiers and visibility alone.
LEMMA QuietGood ==
    ASSUME IInv, UNCHANGED <<tierVars, listingVars>>, TypeOK', jobNow' <= clock'
    PROVE  Good
<1>1. \A l \in Listings : ListingInv(l)'
  BY DEF IInv, ListingInv, RowInv, Rank0, tierVars, listingVars
<1>2. \A l \in Listings : RowStep(l)
  BY DEF RowStep, listingVars
<1> QED BY <1>1, <1>2 DEF Good, IInv

LEMMA TickGood == ASSUME IInv, Tick PROVE Good
<1>1. TypeOK' /\ jobNow' <= clock'
  BY EntitlementsAssumption DEF IInv, TypeOK, Tick, tierVars, listingVars, jobVars
<1> QED BY <1>1, QuietGood DEF Tick

\* The worker's own steps around the rows.
LEMMA PassGood == ASSUME IInv, StartPass \/ SelectRows \/ EndJob PROVE Good
<1>0. clock \in Nat /\ clock \in 0 .. MaxClock
  BY EntitlementsAssumption DEF IInv, TypeOK
<1>1. CASE StartPass
  <2>1. TypeOK' /\ jobNow' <= clock'
    BY <1>0, <1>1 DEF IInv, TypeOK, StartPass, tierVars, listingVars
  <2> QED BY <1>1, <2>1, QuietGood DEF StartPass
<1>2. CASE SelectRows
  <2>1. jobRows' \subseteq Listings \X CLOCK_TRIGGERS
    <3>1. PICK C \in Chunks(DueRows(jobNow)) :
             jobRows' = {r \in C \X CLOCK_TRIGGERS : r[2] \in DueTriggers(r[1], jobNow)}
      BY <1>2 DEF SelectRows
    <3>2. C \subseteq Listings
      BY DEF Chunks, DueRows
    <3> QED BY <3>1, <3>2
  <2>2. TypeOK' /\ jobNow' <= clock'
    BY <1>2, <2>1 DEF IInv, TypeOK, SelectRows, tierVars, listingVars
  <2> QED BY <1>2, <2>2, QuietGood DEF SelectRows
<1>3. CASE EndJob
  <2>1. TypeOK' /\ jobNow' <= clock'
    BY <1>0, <1>3, EntitlementsAssumption DEF IInv, TypeOK, EndJob, tierVars, listingVars
  <2> QED BY <1>3, <2>1, QuietGood DEF EndJob
<1> QED BY <1>1, <1>2, <1>3

\* A trigger that is due stays due while the row stays as it is.
LEMMA DueLater ==
    ASSUME NEW e \in EntType, NEW g, NEW t \in Nat, NEW u \in Nat, t <= u, IsDue(e, g, t)
    PROVE  IsDue(e, g, u)
<1>1. TRIAL_OVERDUE \in Nat
  BY MachineAssumption
<1> QED BY <1>1, EntFields DEF IsDue, Passed, Times, NoTime

\* The job's next row.
LEMMA ApplyRowGood == ASSUME IInv, ApplyRow PROVE Good
<1>1. PICK r \in jobRows :
        \/ /\ Legal(ent[r[1]].status, r[2]) /\ StillDue(r[1], r[2])
           /\ ApplyTrigger(r[1], r[2], jobNow, NoParams)
           /\ jobRows' = jobRows \ {r} /\ UNCHANGED <<job, jobNow>>
        \/ /\ jobRows' = jobRows \ {r} /\ UNCHANGED <<listingVars, job, jobNow>>
        \/ /\ jobRows' = {} /\ job' = "failed" /\ jobNow' = 0 /\ UNCHANGED listingVars
  BY DEF ApplyRow
<1>2. /\ UNCHANGED <<clock, commands, tierVars>> /\ r[1] \in Listings /\ r[2] \in CLOCK_TRIGGERS
      /\ jobNow \in Nat /\ clock \in Nat /\ jobNow <= clock
  BY EntitlementsAssumption DEF ApplyRow, IInv, TypeOK
<1>3. CASE /\ StillDue(r[1], r[2]) /\ ApplyTrigger(r[1], r[2], jobNow, NoParams)
           /\ jobRows' = jobRows \ {r} /\ UNCHANGED <<job, jobNow>>
  <2> PICK l \in Listings, g \in CLOCK_TRIGGERS : l = r[1] /\ g = r[2]
    BY <1>2
  <2>1. Sent(NoParams) /\ g \in Triggers
    BY ParamsSent DEF Times, Statuses, Triggers
  <2>2. /\ ent' \in [Listings -> EntType] /\ exists' \in [Listings -> BOOLEAN]
        /\ overrides' \in [Listings -> Nat] /\ currentTier' \in [Listings -> Tiers \cup {NoTier}]
        /\ visibility' \in [Listings -> {"draft", "published", "hidden"}]
        /\ \A k \in Listings : ListingInv(k)'
        /\ \A k \in Listings \ {l} : ent'[k] = ent[k]
        /\ visibility[l] = "draft" => visibility'[l] = "draft"
        /\ ent[l].status = "past_due" /\ ent'[l].status = "past_due" /\ overrides'[l] = overrides[l]
              => ent'[l].dunningEnd = ent[l].dunningEnd
    BY <1>2, <1>3, <2>1, ApplyCorrect
  <2>3. TypeOK' /\ jobNow' <= clock'
    BY <1>2, <1>3, <2>2 DEF IInv, TypeOK, tierVars, ListingInv
  <2>4. DueTriggers(l, clock) # {}
    <3>1. ent[l] \in EntType /\ IsDue(ent[l], g, jobNow)
      BY <1>3 DEF StillDue, IInv, TypeOK
    <3>2. IsDue(ent[l], g, clock)
      BY <1>2, <3>1, DueLater
    <3>3. exists[l]
      BY <3>1 DEF IInv, ListingInv, IsDue
    <3> QED BY <3>2, <3>3 DEF DueTriggers
  <2>5. \A k \in Listings : RowStep(k)
    BY <2>2, <2>4 DEF RowStep
  <2> QED BY <2>2, <2>3, <2>5 DEF Good, IInv
<1>4. CASE /\ jobRows' \subseteq jobRows /\ job' \in {"rows", "failed"} /\ jobNow' \in {jobNow, 0}
           /\ UNCHANGED listingVars
  <2>1. TypeOK' /\ jobNow' <= clock'
    BY <1>2, <1>4, EntitlementsAssumption DEF IInv, TypeOK, tierVars, listingVars
  <2> QED BY <1>2, <1>4, <2>1, QuietGood
<1> QED BY <1>1, <1>3, <1>4 DEF ApplyRow

LEMMA VisibilityGood == ASSUME IInv, NEW l \in Listings, SetVisibility(l) PROVE Good
<1>1. PICK v \in {"published", "draft"} : visibility' = [visibility EXCEPT ![l] = v]
  BY DEF SetVisibility
<1>2. UNCHANGED <<clock, commands, rank, tierEdits, ent, exists, overrides, currentTier, job, jobNow, jobRows>>
  BY DEF SetVisibility, tierVars, jobVars
<1>3. TypeOK' /\ jobNow' <= clock'
  BY <1>1, <1>2 DEF IInv, TypeOK
<1>4. ASSUME NEW k \in Listings PROVE ListingInv(k)' /\ RowStep(k)
  <2>1. visibility'[k] = "hidden" => visibility[k] = "hidden"
    BY <1>1 DEF IInv, TypeOK
  <2>2. ListingInv(k)
    BY DEF IInv
  <2> QED BY <1>2, <2>1, <2>2 DEF ListingInv, RowStep, RowInv, Rank0
<1> QED BY <1>3, <1>4 DEF Good, IInv

\* No command takes a tier away that a listing uses.
LEMMA TierGood ==
    ASSUME IInv, NEW t \in Tiers, CreateTier(t) \/ UpdateTier(t) \/ DeleteTier(t) PROVE Good
<1>1. PICK r \in -1 .. MaxRank : /\ rank' = [rank EXCEPT ![t] = r]
                                 /\ r >= 0 \/ Unused(t)
  BY EntitlementsAssumption DEF CreateTier, UpdateTier, DeleteTier
<1>2. /\ UNCHANGED <<clock, ent, exists, overrides, currentTier, visibility, job, jobNow, jobRows>>
      /\ commands' \in 0 .. MaxCommands
      /\ tierEdits' = tierEdits + 1 /\ tierEdits \in Nat /\ rank \in [Tiers -> -1 .. MaxRank]
  BY EntitlementsAssumption
     DEF CreateTier, UpdateTier, DeleteTier, TierCommand, Command, listingVars, jobVars, IInv, TypeOK
<1>3. TypeOK' /\ jobNow' <= clock'
  BY <1>1, <1>2 DEF IInv, TypeOK
<1>4. ASSUME NEW l \in Listings PROVE ListingInv(l)'
  <2>1. ListingInv(l) /\ currentTier[l] \in Tiers \cup {NoTier}
    BY DEF IInv, TypeOK
  <2>2. exists[l] => rank'[ent[l].tier] >= 0
    BY <1>1, <1>2, <2>1 DEF ListingInv, Unused
  <2>3. currentTier[l] # NoTier => rank'[currentTier[l]] >= 0
    BY <1>1, <1>2, <2>1 DEF ListingInv, Unused
  <2>4. tierEdits' # 0
    BY <1>2
  <2> QED BY <1>2, <2>1, <2>2, <2>3, <2>4 DEF ListingInv, RowInv
<1>5. \A l \in Listings : RowStep(l)
  BY <1>2 DEF RowStep
<1> QED BY <1>3, <1>4, <1>5 DEF Good, IInv

-----------------------------------------------------------------------------
(* The theorems.                                                            *)

\* The tenant begins with no entitlement at all.
LEMMA InitInv == Init => IInv
<1> SUFFICES ASSUME Init PROVE IInv
  OBVIOUS
<1>1. Fresh(NoTier) \in EntType
  BY DEF Fresh, EntType, Times, NoTime, Statuses
<1>2. Fresh(NoTier).status = "none" /\ Fresh(NoTier).hidden = FALSE
  BY DEF Fresh
<1>3. TypeOK
  BY <1>1, EntitlementsAssumption DEF Init, TypeOK
<1>4. ASSUME NEW l \in Listings PROVE ListingInv(l)
  BY <1>2 DEF Init, ListingInv, RowInv
<1> QED BY <1>3, <1>4, EntitlementsAssumption DEF IInv, Init

\* Every step keeps the invariant and does to a row only what the action properties allow.
LEMMA StepGood == ASSUME IInv, Next PROVE Good
<1>1. CASE Tick \/ StartPass \/ SelectRows \/ ApplyRow \/ EndJob
  BY <1>1, TickGood, PassGood, ApplyRowGood
<1>2. ASSUME NEW l \in Listings,
             \/ Report(l) \/ CancelEntitlement(l) \/ GrantComp(l)
             \/ RevokeComp(l) \/ OverrideEntitlement(l) \/ SetVisibility(l)
      PROVE  Good
  BY <1>2, ReportGood, PlainGood, GrantGood, OverrideGood, VisibilityGood
<1>3. ASSUME NEW t \in Tiers, CreateTier(t) \/ UpdateTier(t) \/ DeleteTier(t) PROVE Good
  BY <1>3, TierGood
<1> QED BY <1>1, <1>2, <1>3 DEF Next

\* The inductive invariant: a row that is not there is as good as fresh, every status has
\* the deadline it waits for, and what a listing shows follows from its row and its tiers.
THEOREM Invariance == Spec => []IInv
<1>1. IInv /\ [Next]_vars => IInv'
  <2>1. IInv /\ Next => IInv'
    BY StepGood DEF Good
  <2>2. IInv /\ UNCHANGED vars => IInv'
    BY DEF IInv, TypeOK, ListingInv, RowInv, Rank0, vars, tierVars, listingVars, jobVars
  <2> QED BY <2>1, <2>2
<1> QED BY <1>1, InitInv, PTL DEF Spec

\* Types, for the rows apply_trigger writes and for the job's memory.
THEOREM TypeCorrect == Spec => []TypeOK
<1>1. IInv => TypeOK
  BY DEF IInv
<1> QED BY <1>1, Invariance, PTL

\* delete_tier and the callers of apply_trigger together never leave a listing or an
\* entitlement with a tier the tenant does not have.
THEOREM TierCorrect == Spec => []TierInUse
<1>1. IInv => TierInUse
  BY DEF IInv, ListingInv, TierInUse
<1> QED BY <1>1, Invariance, PTL

\* Listing.current_tier is what the entitlement says it is, after every trigger.
THEOREM ShownCorrect == Spec => []ShownTier
<1>1. IInv => ShownTier
  BY DEF IInv, ListingInv, ShownTier
<1> QED BY <1>1, Invariance, PTL

\* No status waits for ever: the deadline it ends by is set (_mutate).
THEOREM DeadlineCorrect == Spec => []DeadlineSet
<1>1. IInv => DeadlineSet
  BY DEF IInv, ListingInv, RowInv, DeadlineSet
<1> QED BY <1>1, Invariance, PTL

\* _visibility_after and hidden_by_expiry agree, whoever moves the row.
THEOREM HidesCorrect == Spec => []ExpiryHides
<1>1. IInv => ExpiryHides
  BY DEF IInv, ListingInv, ExpiryHides
<1> QED BY <1>1, Invariance, PTL

\* A failed payment inside dunning never moves the end of it.
THEOREM DunningCorrect == Spec => DunningNotExtended
<1>1. IInv /\ [Next]_vars =>
        [\A l \in Listings :
            ent[l].status = "past_due" /\ ent'[l].status = "past_due" /\ overrides'[l] = overrides[l]
                => ent'[l].dunningEnd = ent[l].dunningEnd]_vars
  BY StepGood DEF Good, RowStep
<1> QED BY <1>1, Invariance, PTL DEF Spec, DunningNotExtended

\* No change of an entitlement publishes a listing an editor took down.
THEOREM DraftCorrect == Spec => DraftStands
<1>1. IInv /\ [Next]_vars =>
        [\A l \in Listings : visibility[l] = "draft" /\ ent'[l] # ent[l] => visibility'[l] = "draft"]_vars
  BY StepGood DEF Good, RowStep
<1> QED BY <1>1, Invariance, PTL DEF Spec, DraftStands

\* entitlement_transitions moves a row only if it is due as it is now, not as it was selected.
THEOREM JobCorrect == Spec => JobRespectsPayments
<1>1. IInv /\ [Next]_vars =>
        [commands' = commands =>
            \A l \in Listings : ent'[l] # ent[l] => DueTriggers(l, clock) # {}]_vars
  BY StepGood DEF Good, RowStep
<1> QED BY <1>1, Invariance, PTL DEF Spec, JobRespectsPayments
=============================================================================
