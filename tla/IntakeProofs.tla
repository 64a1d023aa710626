---------------------------- MODULE IntakeProofs ----------------------------
(***************************************************************************)
(* What comes in from outside, for any number of checkouts, requests,      *)
(* import files and leads: an event of the payment provider takes effect   *)
(* at most once, and what becomes of a purchase that is not applied; a     *)
(* rollback gives back what a batch found and keeps what visitors left; a  *)
(* lead whose counts did not overlap is reported once and not forgotten.   *)
(* The components share no state and each has an inductive invariant of    *)
(* its own.                                                                *)
(***************************************************************************)
EXTENDS Payments, Imports, Leads, WellFoundedInduction, TLAPS

-----------------------------------------------------------------------------
(* Payments.                                                                *)

Stages == {"idle", "received", "trigger", "create", "conclude", "refused", "finish"}
ReportTriggers == {"none", "start", "refused", "payment_succeeded", "payment_failed", "refund",
                   "cancel", "subscription_ended"}
Refs == Attempts \cup {NoAttempt}
RequestRow == [event : Events \cup {NoEvent}, at : Stages, trigger : ReportTriggers, done : BOOLEAN]

PayRows ==
    /\ sent \subseteq Events
    /\ receipt \in [Events -> {"none", "applied", "ignored"}]
    /\ effects \in [Events -> Nat]
    /\ request \in [Handlers -> RequestRow]
    /\ \A h \in Handlers : request[h].at # "idle" => request[h].event \in Events

\* A request past its receipt's insert is alone with the event, and nothing has been
\* recorded for it yet: what makes the count below go up only once.
ReceiptHeld ==
    /\ \A h \in Handlers : HoldsReceipt(h) => receipt[request[h].event] = "none"
    /\ \A g, h \in Handlers :
          HoldsReceipt(g) /\ HoldsReceipt(h) /\ request[g].event = request[h].event => g = h

\* The receipt says "applied" exactly of the events that took effect, once.
Counted == \A e \in Events : effects[e] = IF receipt[e] = "applied" THEN 1 ELSE 0

ReportInv == PayRows /\ ReceiptHeld /\ Counted

\* A checkout that has started its plan: closed, by a report that took effect.
Settled(a) == /\ attempt[a] = "completed"
              /\ \E d \in Events : AttemptOf(d) = a /\ receipt[d] = "applied"

\* Whoever created the row under a waiting request is known, and a checkout among them
\* is settled; a request that will conclude has its receipt.
KeepInv ==
    /\ attempt = [a \in Attempts |-> attempt[a]]
    /\ creator \subseteq Refs
    /\ concluded \subseteq Events
    /\ \A h \in Handlers : request[h].at = "create" => request[h].trigger = "start"
    /\ \A h \in Handlers : request[h].at = "conclude" => receipt[request[h].event] # "none"
    /\ \A a \in creator \ {NoAttempt} : Settled(a)
    /\ entitlement.status # "missing" => \A h \in Handlers : request[h].at = "create" => creator # {}
    /\ PurchaseKept

PayInv == ReportInv /\ KeepInv

LEMMA TriggerType ==
    ASSUME NEW e \in Events
    PROVE  TriggerFor(e) \in ReportTriggers
BY DEF TriggerFor, ReportTriggers, Kind, Events, Kinds

\* One request changes, and neither the receipts nor the counts do.
LEMMA MoveRequest ==
    ASSUME ReportInv, NEW h \in Handlers, NEW r \in RequestRow,
           r.at # "idle" => r.event \in Events,
           r.at \notin {"trigger", "create"},
           request' = [request EXCEPT ![h] = r],
           sent' = sent, receipt' = receipt, effects' = effects
    PROVE  ReportInv'
<1>1. PayRows'
  BY DEF ReportInv, PayRows
<1>2. ReceiptHeld'
  BY DEF ReportInv, PayRows, ReceiptHeld, HoldsReceipt
<1> QED BY <1>1, <1>2 DEF ReportInv, Counted

LEMMA IdleRow == Idle \in RequestRow /\ Idle.at = "idle"
BY DEF Idle, RequestRow, Stages, ReportTriggers
\* A request that has no receipt of its own yet takes the event's, which nobody holds.
LEMMA TakeReceipt ==
    ASSUME ReportInv, NEW h \in Handlers, BeginReport(h)
    PROVE  ReportInv'
<1> DEFINE e == request[h].event
           t == TriggerFor(e)
<1>1. /\ e \in Events /\ request[h] \in RequestRow /\ request[h].at = "received"
      /\ sent' = sent /\ receipt' = receipt /\ effects' = effects
  BY DEF ReportInv, PayRows, BeginReport, At
<1>2. t \in ReportTriggers
  BY <1>1, TriggerType
<1>3. CASE concluded' = concluded \cup {e} /\ Go(h, Idle)
  BY <1>1, <1>3, MoveRequest, IdleRow DEF Go
<1>4. CASE Go(h, [request[h] EXCEPT !.at = "refused"])
  <2> DEFINE r == [request[h] EXCEPT !.at = "refused"]
  <2>1. r \in RequestRow /\ r.at = "refused" /\ r.event = e
    BY <1>1 DEF RequestRow, Stages
  <2> QED BY <1>1, <1>4, <2>1, MoveRequest DEF Go
<1>5. CASE ReceiptFree(e) /\ Go(h, [request[h] EXCEPT !.at = "trigger", !.trigger = t])
  <2>0. PICK r : r = [request[h] EXCEPT !.at = "trigger", !.trigger = t]
    OBVIOUS
  <2>1. r \in RequestRow /\ r.at = "trigger" /\ r.event = e
    BY <1>1, <1>2, <2>0 DEF RequestRow, Stages
  <2>2. request' = [request EXCEPT ![h] = r]
    BY <1>5, <2>0 DEF Go
  <2>3. \A g \in Handlers \ {h} : ~(HoldsReceipt(g) /\ request[g].event = e)
    BY DEF BeginReport
  <2>4. PayRows'
    BY <1>1, <2>1, <2>2 DEF ReportInv, PayRows
  <2>5. ReceiptHeld'
    BY <1>1, <1>5, <2>1, <2>2, <2>3 DEF ReportInv, PayRows, ReceiptHeld, HoldsReceipt, ReceiptFree
  <2> QED BY <1>1, <2>4, <2>5 DEF ReportInv, Counted
<1> QED BY <1>3, <1>4, <1>5 DEF BeginReport

\* The trigger's commit: the receipt turns from "none" to "applied" as the count goes up.
LEMMA CommitOnce ==
    ASSUME ReportInv, NEW h \in Handlers, HoldsReceipt(h), Commit(h), sent' = sent
    PROVE  ReportInv'
<1> DEFINE e == request[h].event
<1>0. PICK r : r = [request[h] EXCEPT !.at = "conclude"]
  OBVIOUS
<1>1. /\ e \in Events /\ request[h] \in RequestRow /\ receipt[e] = "none" /\ effects[e] = 0
      /\ receipt' = [receipt EXCEPT ![e] = "applied"]
      /\ effects' = [effects EXCEPT ![e] = @ + 1]
      /\ request' = [request EXCEPT ![h] = r]
  BY <1>0 DEF ReportInv, PayRows, ReceiptHeld, Counted, HoldsReceipt, Commit, Go
<1>2. r \in RequestRow /\ r.at = "conclude" /\ r.event = e
  BY <1>0, <1>1 DEF RequestRow, Stages
<1>3. PayRows'
  BY <1>1, <1>2 DEF ReportInv, PayRows
<1>4. ReceiptHeld'
  BY <1>1, <1>2 DEF ReportInv, PayRows, ReceiptHeld, HoldsReceipt
<1>5. Counted'
  BY <1>1 DEF ReportInv, PayRows, Counted
<1> QED BY <1>3, <1>4, <1>5 DEF ReportInv

\* A refused move: the transaction, its receipt with it, is rolled back.
LEMMA MoveRefused ==
    ASSUME ReportInv, NEW h \in Handlers, request[h].at # "idle", RefuseMove(h), sent' = sent
    PROVE  ReportInv'
<1>0. PICK b \in BOOLEAN : b = (Kind(request[h].event) \in {"checkout_completed", "payment_succeeded",
                                                            "switched_back_on"})
  <2> WITNESS (Kind(request[h].event) \in {"checkout_completed", "payment_succeeded",
                                           "switched_back_on"}) \in BOOLEAN
  <2> QED OBVIOUS
<1>1. PICK r : r = [request[h] EXCEPT !.at = "refused", !.done = b]
  OBVIOUS
<1>2. request[h] \in RequestRow /\ request[h].event \in Events
  BY DEF ReportInv, PayRows
<1>3. r \in RequestRow /\ r.at = "refused" /\ r.event \in Events
  BY <1>1, <1>2 DEF RequestRow, Stages
<1>4. request' = [request EXCEPT ![h] = r] /\ receipt' = receipt /\ effects' = effects
  BY <1>0, <1>1 DEF RefuseMove, Go
<1> QED BY <1>3, <1>4, MoveRequest

LEMMA ReportApplied ==
    ASSUME ReportInv, NEW h \in Handlers, ApplyReport(h)
    PROVE  ReportInv'
<1>1. HoldsReceipt(h) /\ request[h].at = "trigger" /\ sent' = sent
  BY DEF ApplyReport, At, HoldsReceipt
<1>2. CASE Commit(h)
  BY <1>1, <1>2, CommitOnce
<1>3. CASE RefuseMove(h)
  BY <1>1, <1>3, MoveRefused
<1>4. CASE /\ Go(h, [request[h] EXCEPT !.at = "create"])
           /\ UNCHANGED <<entitlement, receipt, attempt, effects, creator, deaths>>
  <2>0. PICK r : r = [request[h] EXCEPT !.at = "create"]
    OBVIOUS
  <2>1. request[h] \in RequestRow /\ request[h].event \in Events
    BY <1>1 DEF ReportInv, PayRows
  <2>2. r \in RequestRow /\ r.at = "create" /\ r.event = request[h].event
    BY <2>0, <2>1 DEF RequestRow, Stages
  <2>3. request' = [request EXCEPT ![h] = r] /\ receipt' = receipt /\ effects' = effects
    BY <1>4, <2>0 DEF Go
  <2>4. PayRows'
    BY <1>1, <2>1, <2>2, <2>3 DEF ReportInv, PayRows
  <2>5. ReceiptHeld'
    BY <1>1, <2>1, <2>2, <2>3 DEF ReportInv, PayRows, ReceiptHeld, HoldsReceipt
  <2> QED BY <2>3, <2>4, <2>5 DEF ReportInv, Counted
<1> QED BY <1>2, <1>3, <1>4 DEF ApplyReport

\* _ignore writes a receipt only where there is none and nobody is about to write one.
LEMMA ReportIgnored ==
    ASSUME ReportInv, NEW h \in Handlers, IgnoreReport(h)
    PROVE  ReportInv'
<1> DEFINE e == request[h].event
<1>0. PICK r : r = IF request[h].done THEN [request[h] EXCEPT !.at = "finish"] ELSE Idle
  OBVIOUS
<1>1. /\ e \in Events /\ request[h] \in RequestRow /\ request[h].at = "refused"
      /\ sent' = sent /\ effects' = effects /\ request' = [request EXCEPT ![h] = r]
      /\ receipt' = IF receipt[e] = "none" THEN [receipt EXCEPT ![e] = "ignored"] ELSE receipt
      /\ \A g \in Handlers \ {h} : ~(HoldsReceipt(g) /\ request[g].event = e)
  BY <1>0 DEF ReportInv, PayRows, IgnoreReport, At, Go
<1>2. r \in RequestRow /\ r.at \in {"finish", "idle"} /\ (r.at = "finish" => r.event = e)
  BY <1>0, <1>1, IdleRow DEF RequestRow, Stages
<1>3. PayRows'
  BY <1>1, <1>2 DEF ReportInv, PayRows
<1>4. ReceiptHeld'
  BY <1>1, <1>2 DEF ReportInv, PayRows, ReceiptHeld, HoldsReceipt
<1>5. Counted'
  BY <1>1 DEF ReportInv, PayRows, Counted
<1> QED BY <1>3, <1>4, <1>5 DEF ReportInv
LEMMA ReportStep == ReportInv /\ [PayNext]_payVars => ReportInv'
<1> SUFFICES ASSUME ReportInv, [PayNext]_payVars PROVE ReportInv'
  OBVIOUS
<1>1. ASSUME NEW a \in Attempts, Provider(a) PROVE ReportInv'
  <2>1. PICK move \in ProviderMoves : sent' = sent \cup (move[3] \X {a})
    BY <1>1 DEF Provider
  <2>2. move[3] \subseteq Kinds
    BY DEF ProviderMoves, Kinds
  <2>3. sent' \subseteq Events
    BY <2>1, <2>2 DEF ReportInv, PayRows, Events
  <2>4. UNCHANGED <<receipt, effects, request>>
    BY <1>1 DEF Provider
  <2> QED BY <2>3, <2>4 DEF ReportInv, PayRows, ReceiptHeld, HoldsReceipt, Counted
<1>2. ASSUME NEW h \in Handlers, NEW e \in sent, Deliver(h, e) PROVE ReportInv'
  <2>0. PICK r : r = [Idle EXCEPT !.event = e, !.at = "received"]
    OBVIOUS
  <2>1. e \in Events
    BY DEF ReportInv, PayRows
  <2>2. r \in RequestRow /\ r.at = "received" /\ r.event = e
    BY <2>0, <2>1 DEF Idle, RequestRow, Stages, ReportTriggers
  <2>3. request' = [request EXCEPT ![h] = r] /\ UNCHANGED <<sent, receipt, effects>>
    BY <1>2, <2>0 DEF Deliver, Go
  <2> QED BY <2>1, <2>2, <2>3, MoveRequest
<1>3. ASSUME NEW h \in Handlers, CreateEntitlement(h) PROVE ReportInv'
  <2>1. CASE Commit(h)
    BY <1>3, <2>1, CommitOnce DEF CreateEntitlement, At, HoldsReceipt
  <2>2. CASE Go(h, Idle) /\ UNCHANGED <<entitlement, receipt, attempt, effects, creator, deaths>>
    BY <1>3, <2>2, MoveRequest, IdleRow DEF CreateEntitlement, Go
  <2> QED BY <1>3, <2>1, <2>2 DEF CreateEntitlement
<1>4. ASSUME NEW h \in Handlers, ConcludeApplied(h) \/ FinishAttempt(h) \/ RequestDies(h) PROVE ReportInv'
  BY <1>4, MoveRequest, IdleRow DEF ConcludeApplied, FinishAttempt, RequestDies, Go
<1>5. CASE UNCHANGED <<sent, receipt, effects, request>>
  BY <1>5 DEF ReportInv, PayRows, ReceiptHeld, HoldsReceipt, Counted
<1>6. ASSUME NEW a \in Attempts, StartCheckout(a) \/ CheckoutCreated(a) PROVE ReportInv'
  BY <1>5, <1>6 DEF StartCheckout, CheckoutCreated
<1>7. CASE CancelRead \/ CancelAsk \/ CancelApply \/ Grant \/ Lapse
  BY <1>5, <1>7 DEF CancelRead, CancelAsk, CancelApply, Grant, Lapse
<1>8. CASE UNCHANGED payVars
  BY <1>5, <1>8 DEF payVars
<1> QED BY <1>1, <1>2, <1>3, <1>4, <1>6, <1>7, <1>8, TakeReceipt, ReportApplied, ReportIgnored DEF PayNext

LEMMA EventAttempt == \A e \in Events : AttemptOf(e) \in Attempts
BY DEF AttemptOf, Events

\* Receipts and settled checkouts stay; only a comp is added to the creators, nobody new
\* is about to create or conclude, and what is concluded newly has been accounted for.
LEMMA KeepMove ==
    ASSUME PayInv,
           attempt' = [a \in Attempts |-> attempt'[a]],
           \A a \in Attempts : attempt[a] = "completed" => attempt'[a] = "completed",
           \A e \in Events : receipt[e] # "none" => receipt'[e] = receipt[e],
           creator' = creator \/ creator' = creator \cup {NoAttempt},
           \A h \in Handlers : request'[h] = request[h] \/ request'[h].at \notin {"create", "conclude"},
           \/ entitlement'.status = "missing" \/ entitlement.status # "missing"
           \/ \A h \in Handlers : request[h].at = "create" => creator' # {},
           \A e \in concluded' : \/ e \in concluded
                                 \/ e \in Events /\ receipt[e] # "none"
                                 \/ e \in Events /\ creator # {}
    PROVE  KeepInv'
<1> USE DEF PayInv
<1>1. /\ creator' \subseteq Refs /\ creator \subseteq creator' /\ creator' \ {NoAttempt} = creator \ {NoAttempt}
      /\ concluded' \subseteq Events
  BY DEF KeepInv, Refs
<1>2. \A a \in Attempts : Settled(a) => Settled(a)'
  BY DEF Settled
<1>3. \A a \in creator' \ {NoAttempt} : Settled(a)'
  BY <1>1, <1>2 DEF KeepInv, Refs
<1>4. \A h \in Handlers : request'[h].at = "conclude" => receipt'[request'[h].event] # "none"
  <2> SUFFICES ASSUME NEW h \in Handlers, request'[h].at = "conclude"
               PROVE  receipt'[request'[h].event] # "none"
    OBVIOUS
  <2>1. request'[h] = request[h] /\ request[h].event \in Events /\ receipt[request[h].event] # "none"
    BY DEF KeepInv, ReportInv, PayRows
  <2> QED BY <2>1
<1>5. PurchaseKept'
  <2> SUFFICES ASSUME NEW e \in concluded'
               PROVE  receipt'[e] # "none" \/ Settled(AttemptOf(e))' \/ \E x \in creator' : x # AttemptOf(e)
    BY DEF PurchaseKept, Settled
  <2>1. e \in Events /\ AttemptOf(e) \in Attempts
    BY <1>1, EventAttempt
  <2>2. CASE receipt[e] # "none"
    BY <2>1, <2>2
  <2>3. CASE Settled(AttemptOf(e))
    BY <2>1, <2>3, <1>2
  <2>4. CASE \E x \in creator : x # AttemptOf(e)
    BY <2>4, <1>1
  <2>5. CASE e \in concluded
    BY <2>5, <2>2, <2>3, <2>4 DEF KeepInv, PurchaseKept, Settled
  <2>6. CASE creator # {}
    <3>1. PICK x \in creator : TRUE
      BY <2>6
    <3>2. CASE x # AttemptOf(e)
      BY <3>2, <2>4
    <3>3. CASE x = AttemptOf(e)
      BY <3>3, <2>1, <2>3, PaymentsAssumption DEF KeepInv
    <3> QED BY <3>2, <3>3
  <2> QED BY <2>2, <2>5, <2>6
<1>6. \A h \in Handlers : request'[h].at = "create" => request'[h].trigger = "start"
  BY DEF KeepInv
<1>7. entitlement'.status # "missing" => \A h \in Handlers : request'[h].at = "create" => creator' # {}
  BY <1>1 DEF KeepInv
<1> QED BY <1>1, <1>3, <1>4, <1>5, <1>6, <1>7 DEF KeepInv

\* The same for a step of one request.
LEMMA KeepRequest ==
    ASSUME PayInv, NEW h \in Handlers, NEW r, r.at \notin {"create", "conclude"},
           request' = [request EXCEPT ![h] = r],
           attempt' = [a \in Attempts |-> attempt'[a]],
           \A a \in Attempts : attempt[a] = "completed" => attempt'[a] = "completed",
           \A e \in Events : receipt[e] # "none" => receipt'[e] = receipt[e],
           UNCHANGED <<creator, entitlement>>,
           \A e \in concluded' : \/ e \in concluded
                                 \/ e \in Events /\ receipt[e] # "none"
                                 \/ e \in Events /\ creator # {}
    PROVE  KeepInv'
<1>1. \A g \in Handlers : request'[g] = request[g] \/ request'[g].at \notin {"create", "conclude"}
  BY DEF PayInv, ReportInv, PayRows
<1> QED BY <1>1, KeepMove

\* The commit of a plan that starts settles its checkout, and names it to those who wait.
LEMMA KeepCommit ==
    ASSUME PayInv, NEW h \in Handlers, HoldsReceipt(h), Commit(h), concluded' = concluded,
           request[h].trigger = "start" \/ entitlement.status # "missing"
    PROVE  KeepInv'
<1> USE DEF PayInv
<1>e. PICK e \in Events : e = request[h].event
  BY DEF ReportInv, PayRows, HoldsReceipt
<1>a. PICK a \in Attempts : a = AttemptOf(e)
  BY EventAttempt
<1>0. PICK r : r = [request[h] EXCEPT !.at = "conclude"]
  OBVIOUS
<1>1. /\ request[h] \in RequestRow /\ receipt[e] = "none"
      /\ receipt \in [Events -> {"none", "applied", "ignored"}] /\ request \in [Handlers -> RequestRow]
      /\ \A g \in Handlers : request[g].at # "idle" => request[g].event \in Events
  BY <1>e DEF ReportInv, PayRows, ReceiptHeld, HoldsReceipt
<1>2. /\ receipt' = [receipt EXCEPT ![e] = "applied"]
      /\ request' = [request EXCEPT ![h] = r]
      /\ attempt' = IF request[h].trigger = "start" THEN [attempt EXCEPT ![a] = "completed"] ELSE attempt
      /\ creator' = CreatorAfter(a, Handlers \ {h})
  BY <1>0, <1>e, <1>a DEF Commit, Go
<1>3. r.at = "conclude" /\ r.event = e
  BY <1>0, <1>1, <1>e DEF RequestRow
<1>4. \A x \in Events : receipt[x] # "none" => receipt'[x] = receipt[x]
  BY <1>1, <1>2
<1>5. receipt'[e] = "applied"
  BY <1>1, <1>2
<1>6. /\ attempt' = [x \in Attempts |-> attempt'[x]]
      /\ \A x \in Attempts : attempt[x] = "completed" => attempt'[x] = "completed"
      /\ request[h].trigger = "start" => attempt'[a] = "completed"
  BY <1>1, <1>2 DEF KeepInv
<1>7. \A x \in Attempts : Settled(x) => Settled(x)'
  BY <1>4, <1>6 DEF Settled
<1>8. request[h].trigger = "start" => Settled(a)'
  BY <1>a, <1>5, <1>6 DEF Settled
<1>9. /\ creator \subseteq creator' /\ creator' \subseteq creator \cup {a}
      /\ entitlement.status # "missing" => creator' = creator
      /\ entitlement.status = "missing" => \A g \in Handlers \ {h} : request[g].at = "create" => creator' # {}
  BY <1>2 DEF CreatorAfter, At
<1>10. \A x \in creator' \ {NoAttempt} : Settled(x)'
  <2> SUFFICES ASSUME NEW x \in creator' \ {NoAttempt} PROVE Settled(x)'
    OBVIOUS
  <2>1. CASE x \in creator
    BY <2>1, <1>7 DEF KeepInv, Refs
  <2>2. CASE x \notin creator
    <3>1. x = a /\ request[h].trigger = "start"
      BY <1>9, <2>2
    <3> QED BY <3>1, <1>8
  <2> QED BY <2>1, <2>2
<1>11. \A g \in Handlers : request'[g] = IF g = h THEN r ELSE request[g]
  BY <1>1, <1>2
<1>12. \A g \in Handlers : request'[g].at = "create" => request'[g].trigger = "start"
  BY <1>3, <1>11 DEF KeepInv
<1>13. \A g \in Handlers : request'[g].at = "conclude" => receipt'[request'[g].event] # "none"
  <2> SUFFICES ASSUME NEW g \in Handlers, request'[g].at = "conclude"
               PROVE  receipt'[request'[g].event] # "none"
    OBVIOUS
  <2>1. CASE g = h
    BY <2>1, <1>3, <1>5, <1>11
  <2>2. CASE g # h
    <3>1. request'[g] = request[g] /\ request[g].event \in Events /\ receipt[request[g].event] # "none"
      BY <2>2, <1>1, <1>11 DEF KeepInv
    <3> QED BY <3>1, <1>4
  <2> QED BY <2>1, <2>2
<1>14. \A g \in Handlers : request'[g].at = "create" => creator' # {}
  <2> SUFFICES ASSUME NEW g \in Handlers, request'[g].at = "create" PROVE creator' # {}
    OBVIOUS
  <2>1. g # h /\ request[g].at = "create"
    BY <1>3, <1>11
  <2>2. CASE entitlement.status = "missing"
    BY <1>9, <2>1, <2>2
  <2>3. CASE entitlement.status # "missing"
    BY <1>9, <2>1, <2>3 DEF KeepInv
  <2> QED BY <2>2, <2>3
<1>15. PurchaseKept'
  <2> SUFFICES ASSUME NEW x \in concluded
               PROVE  receipt'[x] # "none" \/ Settled(AttemptOf(x))' \/ \E y \in creator' : y # AttemptOf(x)
    BY DEF PurchaseKept, Settled
  <2>1. x \in Events /\ AttemptOf(x) \in Attempts
    BY EventAttempt DEF KeepInv
  <2>2. receipt[x] # "none" \/ Settled(AttemptOf(x)) \/ \E y \in creator : y # AttemptOf(x)
    BY DEF KeepInv, PurchaseKept, Settled
  <2> QED BY <2>1, <2>2, <1>4, <1>7, <1>9
<1>16. creator' \subseteq Refs /\ concluded' \subseteq Events
  BY <1>1, <1>9 DEF KeepInv, Refs
<1> QED BY <1>6, <1>10, <1>12, <1>13, <1>14, <1>15, <1>16 DEF KeepInv

\* A request that finds no row waits to create one.
LEMMA KeepWaiting ==
    ASSUME PayInv, NEW h \in Handlers, request[h].at = "trigger", request[h].trigger = "start",
           entitlement.status = "missing",
           request' = [request EXCEPT ![h] = [request[h] EXCEPT !.at = "create"]],
           UNCHANGED <<attempt, receipt, creator, concluded, entitlement>>
    PROVE  KeepInv'
<1> USE DEF PayInv
<1>1. request[h] \in RequestRow /\ request \in [Handlers -> RequestRow]
  BY DEF ReportInv, PayRows
<1>2. PICK r : r = [request[h] EXCEPT !.at = "create"]
  OBVIOUS
<1>3. r.at = "create" /\ r.trigger = "start" /\ request' = [request EXCEPT ![h] = r]
  BY <1>1, <1>2 DEF RequestRow
<1>4. \A g \in Handlers : request'[g] = IF g = h THEN r ELSE request[g]
  BY <1>1, <1>3
<1>5. /\ \A g \in Handlers : request'[g].at = "create" => request'[g].trigger = "start"
      /\ \A g \in Handlers : request'[g].at = "conclude" => receipt'[request'[g].event] # "none"
  BY <1>3, <1>4 DEF KeepInv
<1>6. PurchaseKept'
  BY DEF KeepInv, PurchaseKept
<1>7. \A x \in creator' \ {NoAttempt} : Settled(x)'
  BY DEF KeepInv, Settled
<1> QED BY <1>5, <1>6, <1>7 DEF KeepInv

LEMMA KeepApply ==
    ASSUME PayInv, NEW h \in Handlers, ApplyReport(h)
    PROVE  KeepInv'
<1> USE DEF PayInv
<1>1. request[h].at = "trigger" /\ HoldsReceipt(h) /\ concluded' = concluded
  BY DEF ApplyReport, At, HoldsReceipt
<1>2. CASE entitlement.status # "missing" /\ Commit(h)
  BY <1>1, <1>2, KeepCommit
<1>3. CASE RefuseMove(h)
  <2>1. PICK r : /\ r = [request[h] EXCEPT !.at = "refused",
                            !.done = Kind(request[h].event) \in {"checkout_completed",
                                       "payment_succeeded", "switched_back_on"}]
                 /\ request' = [request EXCEPT ![h] = r]
    BY <1>3 DEF RefuseMove, Go
  <2>2. request[h] \in RequestRow
    BY DEF ReportInv, PayRows
  <2>3. r.at = "refused"
    BY <2>1, <2>2 DEF RequestRow
  <2>4. UNCHANGED <<entitlement, receipt, attempt, creator>>
    BY <1>3 DEF RefuseMove
  <2>5. attempt' = [a \in Attempts |-> attempt'[a]]
    BY <2>4 DEF KeepInv
  <2> QED BY <1>1, <2>1, <2>3, <2>4, <2>5, KeepRequest
<1>4. CASE /\ entitlement.status = "missing" /\ request[h].trigger = "start"
           /\ Go(h, [request[h] EXCEPT !.at = "create"])
           /\ UNCHANGED <<entitlement, receipt, attempt, effects, creator, deaths>>
  BY <1>1, <1>4, KeepWaiting DEF Go
<1> QED BY <1>2, <1>3, <1>4 DEF ApplyReport

LEMMA KeepStep == PayInv /\ [PayNext]_payVars => KeepInv'
<1> SUFFICES ASSUME PayInv, [PayNext]_payVars PROVE KeepInv'
  OBVIOUS
<1> USE DEF PayInv
<1>0. /\ attempt = [a \in Attempts |-> attempt[a]]
      /\ UNCHANGED attempt => attempt' = [a \in Attempts |-> attempt'[a]]
  BY DEF KeepInv
<1>1. ASSUME NEW a \in Attempts, StartCheckout(a) \/ CheckoutCreated(a) \/ Provider(a) PROVE KeepInv'
  <2>1. UNCHANGED <<receipt, concluded, entitlement, request, creator>>
    BY <1>1 DEF StartCheckout, CheckoutCreated, Provider
  <2>2. \/ UNCHANGED attempt
        \/ attempt[a] # "completed" /\ \E s \in {"started", "failed"} : attempt' = [attempt EXCEPT ![a] = s]
    BY <1>1 DEF StartCheckout, CheckoutCreated, Provider
  <2>3. /\ attempt' = [x \in Attempts |-> attempt'[x]]
        /\ \A x \in Attempts : attempt[x] = "completed" => attempt'[x] = "completed"
    BY <1>0, <2>2
  <2> QED BY <2>1, <2>3, KeepMove
<1>2. ASSUME NEW h \in Handlers, NEW e \in sent, Deliver(h, e) PROVE KeepInv'
  <2>1. PICK r : r = [Idle EXCEPT !.event = e, !.at = "received"] /\ request' = [request EXCEPT ![h] = r]
    BY <1>2 DEF Deliver, Go
  <2>2. r.at = "received"
    BY <2>1 DEF Idle
  <2>3. UNCHANGED <<attempt, receipt, concluded, entitlement, creator>>
    BY <1>2 DEF Deliver
  <2> QED BY <1>0, <2>1, <2>2, <2>3, KeepRequest
<1>3. ASSUME NEW h \in Handlers, BeginReport(h) PROVE KeepInv'
  <2>1. UNCHANGED <<attempt, receipt, entitlement, creator>> /\ request[h].event \in Events
    BY <1>3 DEF BeginReport, ReportInv, PayRows, At
  <2>2. request[h] \in RequestRow
    BY DEF ReportInv, PayRows
  <2>3. PICK r : /\ request' = [request EXCEPT ![h] = r]
                 /\ \/ r = Idle
                    \/ r = [request[h] EXCEPT !.at = "refused"]
                    \/ r = [request[h] EXCEPT !.at = "trigger", !.trigger = TriggerFor(request[h].event)]
    BY <1>3 DEF BeginReport, Go
  <2>4. r.at \in {"idle", "refused", "trigger"}
    <3>1. CASE r = Idle
      BY <3>1, IdleRow
    <3>2. CASE r = [request[h] EXCEPT !.at = "refused"]
      BY <2>2, <3>2 DEF RequestRow
    <3>3. CASE r = [request[h] EXCEPT !.at = "trigger", !.trigger = TriggerFor(request[h].event)]
      BY <2>2, <3>3 DEF RequestRow
    <3> QED BY <2>3, <3>1, <3>2, <3>3
  <2>5. \/ concluded' = concluded
        \/ receipt[request[h].event] # "none" /\ concluded' = concluded \cup {request[h].event}
    BY <1>3 DEF BeginReport, ReceiptFree
  <2> QED BY <1>0, <2>1, <2>3, <2>4, <2>5, KeepRequest
<1>4. ASSUME NEW h \in Handlers, CreateEntitlement(h) PROVE KeepInv'
  <2>1. request[h].at = "create" /\ HoldsReceipt(h) /\ request[h].event \in Events
    BY <1>4 DEF CreateEntitlement, At, HoldsReceipt, ReportInv, PayRows
  <2>2. CASE Commit(h) /\ UNCHANGED concluded
    BY <2>1, <2>2, KeepCommit DEF KeepInv
  <2>3. CASE /\ entitlement.status # "missing" /\ concluded' = concluded \cup {request[h].event}
             /\ Go(h, Idle) /\ UNCHANGED <<entitlement, receipt, attempt, effects, creator, deaths>>
    <3>1. creator # {}
      BY <2>1, <2>3 DEF KeepInv
    <3> QED BY <1>0, <2>1, <2>3, <3>1, IdleRow, KeepRequest DEF Go
  <2> QED BY <1>4, <2>2, <2>3 DEF CreateEntitlement
<1>5. ASSUME NEW h \in Handlers, ConcludeApplied(h) PROVE KeepInv'
  <2>1. /\ request[h].event \in Events /\ receipt[request[h].event] # "none"
        /\ concluded' = concluded \cup {request[h].event} /\ request' = [request EXCEPT ![h] = Idle]
        /\ UNCHANGED <<attempt, receipt, entitlement, creator>>
    BY <1>5 DEF ConcludeApplied, At, Go, ReportInv, PayRows, KeepInv
  <2> QED BY <1>0, <2>1, IdleRow, KeepRequest
<1>6. ASSUME NEW h \in Handlers, IgnoreReport(h) PROVE KeepInv'
  <2>1. PICK r : r = (IF request[h].done THEN [request[h] EXCEPT !.at = "finish"] ELSE Idle)
                 /\ request' = [request EXCEPT ![h] = r]
    BY <1>6 DEF IgnoreReport, Go
  <2>2. request[h] \in RequestRow /\ receipt \in [Events -> {"none", "applied", "ignored"}]
    BY DEF ReportInv, PayRows
  <2>3. r.at \in {"finish", "idle"}
    BY <2>1, <2>2, IdleRow DEF RequestRow
  <2>4. \A e \in Events : receipt[e] # "none" => receipt'[e] = receipt[e]
    BY <1>6, <2>2 DEF IgnoreReport
  <2>5. UNCHANGED <<attempt, concluded, entitlement, creator>>
    BY <1>6 DEF IgnoreReport
  <2> QED BY <1>0, <2>1, <2>3, <2>4, <2>5, KeepRequest
<1>7. ASSUME NEW h \in Handlers, FinishAttempt(h) PROVE KeepInv'
  <2>1. UNCHANGED <<receipt, concluded, entitlement, creator>> /\ request' = [request EXCEPT ![h] = Idle]
    BY <1>7 DEF FinishAttempt, Go
  <2>2. attempt' = attempt \/ attempt' = [attempt EXCEPT ![AttemptOf(request[h].event)] = "completed"]
    BY <1>7 DEF FinishAttempt
  <2>3. /\ attempt' = [x \in Attempts |-> attempt'[x]]
        /\ \A x \in Attempts : attempt[x] = "completed" => attempt'[x] = "completed"
    BY <1>0, <2>2
  <2> QED BY <2>1, <2>3, IdleRow, KeepRequest
<1>8. ASSUME NEW h \in Handlers, RequestDies(h) PROVE KeepInv'
  <2>1. UNCHANGED <<attempt, receipt, concluded, entitlement, creator>> /\ request' = [request EXCEPT ![h] = Idle]
    BY <1>8 DEF RequestDies, Go
  <2> QED BY <1>0, <2>1, IdleRow, KeepRequest
<1>9. CASE CancelRead \/ CancelAsk
  <2>1. UNCHANGED <<attempt, receipt, concluded, entitlement, request, creator>>
    BY <1>9 DEF CancelRead, CancelAsk
  <2> QED BY <1>0, <2>1, KeepMove
<1>10. CASE CancelApply
  <2>1. UNCHANGED <<attempt, receipt, concluded, request, creator>>
    BY <1>10 DEF CancelApply
  <2>2. entitlement'.status = "missing" \/ entitlement.status # "missing"
    <3>1. CASE UNCHANGED entitlement
      BY <3>1
    <3>2. CASE Machine!Legal(Status, "cancel")
      BY <3>2 DEF Status, Machine!Legal, Machine!TRANSITIONS, Machine!Statuses, Machine!PAID_STATUSES
    <3> QED BY <1>10, <3>1, <3>2 DEF CancelApply
  <2> QED BY <1>0, <2>1, <2>2, KeepMove
<1>11. CASE Grant
  <2>1. UNCHANGED <<attempt, receipt, concluded, request>> /\ creator' = CreatorAfter(NoAttempt, Handlers)
    BY <1>11 DEF Grant
  <2>2. /\ creator' = creator \/ creator' = creator \cup {NoAttempt}
        /\ \/ entitlement.status # "missing"
           \/ \A h \in Handlers : request[h].at = "create" => creator' # {}
    BY <2>1 DEF CreatorAfter, At
  <2> QED BY <1>0, <2>1, <2>2, KeepMove
<1>12. CASE Lapse
  <2>1. UNCHANGED <<attempt, receipt, concluded, request, creator>>
    BY <1>12 DEF Lapse
  <2>2. entitlement.status # "missing"
    BY <1>12 DEF Lapse, Status, Machine!Legal, Machine!TRANSITIONS, Machine!Statuses, Machine!PAID_STATUSES
  <2> QED BY <1>0, <2>1, <2>2, KeepMove
<1>13. CASE UNCHANGED payVars
  BY <1>0, <1>13, KeepMove DEF payVars
<1> QED BY <1>1, <1>2, <1>3, <1>4, <1>5, <1>6, <1>7, <1>8, <1>9, <1>10, <1>11, <1>12, <1>13, KeepApply DEF PayNext

\* The payment seam's inductive invariant (billing/inbound.py, billing/reports.py): the
\* rows, who holds which receipt, and what became of each purchase that is concluded.
THEOREM PaymentInvariance == PaySpec => []PayInv
<1>1. PayInit => PayInv
  <2> SUFFICES ASSUME PayInit PROVE PayInv
    OBVIOUS
  <2>1. PayRows
    BY IdleRow DEF PayInit, PayRows
  <2>2. ReceiptHeld /\ Counted
    BY IdleRow DEF PayInit, ReceiptHeld, HoldsReceipt, Counted
  <2>3. KeepInv
    BY IdleRow DEF PayInit, KeepInv, PurchaseKept
  <2> QED BY <2>1, <2>2, <2>3 DEF PayInv, ReportInv
<1>2. PayInv /\ [PayNext]_payVars => PayInv'
  BY ReportStep, KeepStep DEF PayInv
<1> QED BY <1>1, <1>2, PTL DEF PaySpec

\* Whatever is delivered again, in what order and by how many requests at a time, and
\* wherever they die, an event changes the entitlement at most once and its receipt
\* says so (report_payment, _apply).
THEOREM EffectCorrect == PaySpec => []EffectOnce
<1>1. PayInv => EffectOnce
  BY DEF PayInv, ReportInv, PayRows, Counted, EffectOnce
<1> QED BY <1>1, PaymentInvariance, PTL

\* A report that is concluded and will not be handled again has its receipt, or another
\* report of the same checkout started the plan, or somebody else made the row first --
\* the one way in which report_payment drops a purchase.
THEOREM PurchaseCorrect == PaySpec => []PurchaseKept
<1>1. PayInv => PurchaseKept
  BY DEF PayInv, KeepInv
<1> QED BY <1>1, PaymentInvariance, PTL

-----------------------------------------------------------------------------
(* Imports.                                                                 *)

BatchRow(r) == r = [status |-> r.status, file |-> r.file, rowCount |-> r.rowCount, cursor |-> r.cursor,
                    settled |-> r.settled, tally |-> r.tally]
LoopRow(r) == r = [at |-> r.at, batch |-> r.batch, row |-> r.row, stop |-> r.stop, outcome |-> r.outcome]
ProvRow(r) == /\ r = [action |-> r.action, pre |-> r.pre, nulled |-> r.nulled]
              /\ r.action \in {"none", "created", "updated"}
              /\ r.nulled \in BOOLEAN

ImportRows ==
    /\ batch = [b \in Batches |-> batch[b]] /\ \A b \in Batches : BatchRow(batch[b])
    /\ listing = [l \in ImportListings |-> listing[l]]
    /\ prov = [b \in Batches |-> [l \in ImportListings |-> prov[b][l]]]
    /\ \A b \in Batches : \A l \in ImportListings : ProvRow(prov[b][l])
    /\ LoopRow(loop)
    /\ since = [b \in Batches |-> [origin |-> since[b].origin, others |-> since[b].others]]
    /\ undo.batch \in Batches \cup {0}
    /\ \A l \in ImportListings : ProvRow(undo.rows[l])

\* The steps of a pass in which it may still change its batch.
Working == {"begin", "announce", "rows", "conclude", "bump", "complete", "fail"}

\* A batch has no provenance before it is uploaded; the loop works only on a batch that
\* is pending or processing, and a rollback under way is of one that has settled.  So
\* the two are never about the same batch, and neither about a batch still to come.
StatusInv ==
    /\ \A b \in Batches : batch[b].status = "none" => \A l \in ImportListings : prov[b][l] = NoRow
    /\ loop.at \in Working => loop.batch \in Batches /\ batch[loop.batch].status \in {"pending", "processing"}
    /\ undo.batch # 0 => batch[undo.batch].status \in {"completed", "failed"}

\* A provenance row suffices to give its listing back what it held at the upload.
Restores(row, held, origin) ==
    /\ row.action = "none" => held = origin
    /\ row.action = "created" => origin = Absent
    /\ row.action = "updated" /\ ~row.nulled => row.pre = origin /\ origin # Absent

Recoverable ==
    \A b \in Batches : \A l \in ImportListings \ since[b].others :
        Restores(prov[b][l], listing[l], since[b].origin[l])

\* What a rollback has read still does, whatever the sweep has cleared since.
UndoRecoverable ==
    undo.batch # 0 =>
        \A l \in ImportListings \ since[undo.batch].others :
            /\ ~undo.rows[l].nulled
            /\ Restores(undo.rows[l], listing[l], since[undo.batch].origin[l])

\* What a rollback is about to remove carried no evidence when it looked.
UndoBare == CreatedBy(undo.rows) \subseteq undo.bare

ImportInv == ImportRows /\ StatusInv /\ Recoverable /\ UndoRecoverable /\ UndoBare

LEMMA OldestBatch ==
    ASSUME NEW S, S \subseteq Nat, S # {}
    PROVE  Min(S) \in S
<1> DEFINE R == OpToRel(<, Nat)
<1>1. IsWellFoundedOn(R, Nat)
  BY NatLessThanWellFounded, Zenon
<1>2. \A x, y \in Nat : y < x => <<y, x>> \in R
  BY Zenon DEF OpToRel
<1> HIDE DEF R
<1>3. \E x \in S : \A y \in S : ~(<<y, x>> \in R)
  BY <1>1, WFMin, Zenon
<1>4. PICK x \in S : \A y \in S : ~(<<y, x>> \in R)
  BY <1>3
<1>5. \A y \in S : x <= y
  <2> TAKE y \in S
  <2>1. x \in Nat /\ y \in Nat
    OBVIOUS
  <2>2. ~(y < x)
    BY <1>2, <1>4, <2>1, Zenon
  <2> QED BY <2>1, <2>2
<1> QED BY <1>5 DEF Min
BatchRows == batch = [b \in Batches |-> batch[b]] /\ \A b \in Batches : BatchRow(batch[b])

LEMMA StatusSet ==
    ASSUME ImportRows, NEW b \in Batches, NEW s, SetStatus(b, s)
    PROVE  BatchRows' /\ batch'[b].status = s /\ \A c \in Batches \ {b} : batch'[c] = batch[c]
<1>1. BatchRow(batch[b]) /\ batch = [c \in Batches |-> batch[c]]
  BY DEF ImportRows
<1>2. PICK r : r = [batch[b] EXCEPT !.status = s]
  OBVIOUS
<1>3. BatchRow(r) /\ r.status = s
  BY <1>1, <1>2 DEF BatchRow
<1>4. batch' = [batch EXCEPT ![b] = r]
  BY <1>2 DEF SetStatus
<1>5. batch' = [c \in Batches |-> IF c = b THEN r ELSE batch[c]]
  BY <1>1, <1>4
<1>6. BatchRows'
  BY <1>3, <1>5 DEF ImportRows, BatchRows
<1> QED BY <1>3, <1>5, <1>6

\* A step of the operator or the loop that writes no listing: the batch and the loop stay
\* in step with each other and with the rollback.
LEMMA BatchMoves ==
    ASSUME ImportInv, UNCHANGED <<listing, prov, undo, since>>, BatchRows', LoopRow(loop'),
           \A b \in Batches : batch'[b].status = "none" => batch[b].status = "none",
           loop'.at \in Working => /\ loop'.batch \in Batches
                                   /\ batch'[loop'.batch].status \in {"pending", "processing"},
           undo.batch # 0 => batch'[undo.batch].status = batch[undo.batch].status
    PROVE  ImportInv'
<1>1. ImportRows'
  BY DEF ImportInv, ImportRows, BatchRows
<1>2. StatusInv'
  BY DEF ImportInv, StatusInv
<1>3. Recoverable' /\ UndoRecoverable' /\ UndoBare'
  BY DEF ImportInv, Recoverable, UndoRecoverable, UndoBare, CreatedBy
<1> QED BY <1>1, <1>2, <1>3 DEF ImportInv

LEMMA ResumeRow ==
    ASSUME NEW b \in Batches
    PROVE  LoopRow(Resume(b)) /\ Resume(b).batch = b
<1>1. \A n, m : LoopRow([at |-> "rows", batch |-> b, row |-> n, stop |-> m, outcome |-> "none"])
  BY DEF LoopRow
<1>2. LoopRow([at |-> "fail", batch |-> b, row |-> 0, stop |-> 0, outcome |-> "none"])
  BY DEF LoopRow
<1>3. CASE batch[b].file = Unreadable
  <2>1. Resume(b) = [at |-> "fail", batch |-> b, row |-> 0, stop |-> 0, outcome |-> "none"]
    BY <1>3 DEF Resume, AtRest
  <2> QED BY <1>2, <2>1
<1>4. CASE batch[b].file # Unreadable
  <2>1. PICK n : n = batch[b].cursor + 1
    OBVIOUS
  <2>2. PICK m : m = Min({batch[b].cursor + ROWS_PER_PASS, Len(batch[b].file)})
    OBVIOUS
  <2>3. Resume(b) = [at |-> "rows", batch |-> b, row |-> n, stop |-> m, outcome |-> "none"]
    BY <1>4, <2>1, <2>2 DEF Resume, AtRest
  <2> QED BY <1>1, <2>3
<1> QED BY <1>3, <1>4

LEMMA BeginRow ==
    ASSUME NEW b \in Batches
    PROVE  /\ LoopRow([AtRest EXCEPT !.at = "begin", !.batch = b])
           /\ [AtRest EXCEPT !.at = "begin", !.batch = b].batch = b
<1>1. PICK p : p = [AtRest EXCEPT !.at = "begin"]
  OBVIOUS
<1>2. LoopRow(p)
  BY <1>1 DEF AtRest, LoopRow
<1>3. PICK q : q = [p EXCEPT !.batch = b]
  OBVIOUS
<1>4. LoopRow(q) /\ q.batch = b
  BY <1>2, <1>3 DEF LoopRow
<1> QED BY <1>1, <1>3, <1>4

\* The operator's and the loop's writes of the batch row.
LEMMA BatchSteps ==
    ASSUME ImportInv,
           \/ \E b \in Batches : Run(b) \/ RunAgain(b)
           \/ ClaimBatch \/ BeginBatch \/ ConcludeRow \/ BumpRow \/ ChunkDone \/ FinishBatch \/ WorkerDies
    PROVE  ImportInv'
<1>0. /\ ImportRows /\ StatusInv /\ LoopRow(loop) /\ BatchRows
      /\ undo.batch \in Batches \cup {0} /\ Batches \subseteq Nat \ {0}
  BY ImportsAssumption DEF ImportInv, ImportRows, BatchRows
<1>1. ASSUME NEW b \in Batches, Run(b) \/ RunAgain(b) PROVE ImportInv'
  <2>1. SetStatus(b, "pending") /\ UNCHANGED <<listing, prov, undo, since, loop>>
    BY <1>1 DEF Run, RunAgain
  <2>2. BatchRows' /\ batch'[b].status = "pending" /\ \A c \in Batches \ {b} : batch'[c] = batch[c]
    BY <1>0, <2>1, StatusSet
  <2>3. undo.batch # b
    BY <1>0, <1>1 DEF Run, RunAgain, StatusInv
  <2>4. loop'.at \in Working => /\ loop'.batch \in Batches
                                /\ batch'[loop'.batch].status \in {"pending", "processing"}
    BY <1>0, <2>1, <2>2 DEF StatusInv
  <2> QED BY <1>0, <2>1, <2>2, <2>3, <2>4, BatchMoves
<1>2. CASE ClaimBatch
  <2> DEFINE b == Min(Claimables)
  <2>1. /\ loop' = IF batch[b].status = "pending" THEN [AtRest EXCEPT !.at = "begin", !.batch = b] ELSE Resume(b)
        /\ SetStatus(b, "processing") /\ UNCHANGED <<listing, prov, undo, since>>
    BY <1>2 DEF ClaimBatch
  <2>2. b \in Claimables
    <3>1. Claimables \subseteq Nat /\ Claimables # {}
      BY <1>0, <1>2 DEF Claimables, ClaimBatch
    <3> QED BY <3>1, OldestBatch
  <2>3. b \in Batches /\ undo.batch # b
    BY <2>2 DEF Claimables
  <2> HIDE DEF b
  <2>4. BatchRows' /\ batch'[b].status = "processing" /\ \A c \in Batches \ {b} : batch'[c] = batch[c]
    BY <1>0, <2>1, <2>3, StatusSet
  <2>5. LoopRow(loop') /\ loop'.batch = b
    <3>1. loop' = [AtRest EXCEPT !.at = "begin", !.batch = b] \/ loop' = Resume(b)
      BY <2>1
    <3> QED BY <2>3, <3>1, ResumeRow, BeginRow
  <2>6. \A c \in Batches : batch'[c].status = "none" => batch[c].status = "none"
    BY <2>3, <2>4
  <2>7. undo.batch # 0 => batch'[undo.batch].status = batch[undo.batch].status
    BY <1>0, <2>3, <2>4
  <2> QED BY <2>1, <2>3, <2>4, <2>5, <2>6, <2>7, BatchMoves
<1>3. CASE BeginBatch
  <2> DEFINE b == loop.batch
  <2>1. b \in Batches /\ batch[b].status \in {"pending", "processing"} /\ UNCHANGED <<listing, prov, undo, since>>
    BY <1>0, <1>3 DEF BeginBatch, StatusInv, Working
  <2>2. BatchRows' /\ \A c \in Batches : batch'[c].status = batch[c].status
    <3>1. CASE batch' = [batch EXCEPT ![b].rowCount = Len(Rows(b))]
      <4>1. PICK n : n = Len(Rows(b))
        OBVIOUS
      <4>2. PICK r : r = [batch[b] EXCEPT !.rowCount = n]
        OBVIOUS
      <4>3. BatchRow(r) /\ r.status = batch[b].status
        BY <1>0, <2>1, <4>2 DEF BatchRows, BatchRow
      <4>4. batch' = [c \in Batches |-> IF c = b THEN r ELSE batch[c]]
        BY <1>0, <3>1, <4>1, <4>2 DEF BatchRows
      <4> QED BY <1>0, <4>3, <4>4 DEF BatchRows
    <3>2. CASE batch' = batch
      BY <1>0, <3>2 DEF BatchRows
    <3> QED BY <1>3, <3>1, <3>2 DEF BeginBatch
  <2>3. LoopRow(loop') /\ loop'.batch = b
    BY <1>0, <1>3, <2>1, ResumeRow DEF BeginBatch, LoopRow
  <2> QED BY <1>0, <2>1, <2>2, <2>3, BatchMoves
<1>4. CASE ConcludeRow \/ ChunkDone \/ WorkerDies
  <2>1. UNCHANGED <<batch, listing, prov, undo, since>>
    BY <1>4 DEF ConcludeRow, ChunkDone, WorkerDies
  <2>2. LoopRow(loop') /\ (loop'.at \in Working => loop.at \in Working /\ loop'.batch = loop.batch)
    BY <1>0, <1>4 DEF ConcludeRow, ChunkDone, WorkerDies, LoopRow, AtRest, Working
  <2> QED BY <1>0, <2>1, <2>2, BatchMoves DEF StatusInv, BatchRows
<1>5. CASE BumpRow
  <2> DEFINE b == loop.batch
  <2>1. b \in Batches /\ batch[b].status \in {"pending", "processing"} /\ UNCHANGED <<listing, prov, undo, since>>
    BY <1>0, <1>5 DEF BumpRow, StatusInv, Working
  <2>2. PICK k, n : k = Counter(loop.outcome) /\ n = loop.row
    OBVIOUS
  <2>3. PICK q : q = [batch[b] EXCEPT !.cursor = n]
    OBVIOUS
  <2>4. PICK t : t = [q.tally EXCEPT ![k] = @ + 1]
    OBVIOUS
  <2>5. PICK r : r = [q EXCEPT !.tally = t]
    OBVIOUS
  <2>8. BatchRow(q) /\ q.status = batch[b].status
    BY <1>0, <2>1, <2>3 DEF BatchRows, BatchRow
  <2>9. BatchRow(r) /\ r.status = batch[b].status
    BY <2>5, <2>8 DEF BatchRow
  <2>10. batch' = [batch EXCEPT ![b].cursor = n, ![b].tally[k] = @ + 1]
    BY <1>5, <2>2 DEF BumpRow
  <2>11. batch' = [c \in Batches |-> IF c = b THEN r ELSE batch[c]]
    <3>1. PICK B : B = [batch EXCEPT ![b] = q]
      OBVIOUS
    <3>2. B = [c \in Batches |-> IF c = b THEN q ELSE batch[c]]
      BY <1>0, <2>1, <3>1 DEF BatchRows
    <3>3. batch' = [B EXCEPT ![b].tally[k] = @ + 1]
      BY <2>3, <2>10, <3>1
    <3>4. B[b] = q
      BY <2>1, <3>2
    <3>5. batch' = [B EXCEPT ![b] = r]
      BY <2>4, <2>5, <3>3, <3>4
    <3> QED BY <2>1, <3>2, <3>5
  <2>6. BatchRows' /\ \A c \in Batches : batch'[c].status = batch[c].status
    BY <1>0, <2>9, <2>11 DEF BatchRows
  <2>7. LoopRow(loop') /\ loop'.batch = b
    BY <1>0, <1>5 DEF BumpRow, LoopRow
  <2> QED BY <1>0, <2>1, <2>6, <2>7, BatchMoves
<1>6. CASE FinishBatch
  <2> DEFINE b == loop.batch
  <2>1. CASE loop.at = "finished"
    <3>1. UNCHANGED <<batch, listing, prov, undo, since>> /\ loop' = AtRest
      BY <1>6, <2>1 DEF FinishBatch
    <3>2. LoopRow(AtRest) /\ AtRest.at \notin Working
      BY DEF LoopRow, AtRest, Working
    <3> QED BY <1>0, <3>1, <3>2, BatchMoves DEF BatchRows
  <2>2. CASE loop.at \in {"complete", "fail"}
    <3>1. b \in Batches /\ batch[b].status \in {"pending", "processing"} /\ UNCHANGED <<listing, prov, undo, since>>
      BY <1>0, <1>6, <2>2 DEF FinishBatch, StatusInv, Working
    <3>2. PICK s : s = IF loop.at = "fail" THEN "failed" ELSE "completed"
      OBVIOUS
    <3>3. batch' = [batch EXCEPT ![b].settled = TRUE, ![b].status = s] /\ loop' = [loop EXCEPT !.at = "finished"]
      BY <1>6, <2>2, <3>2 DEF FinishBatch
    <3>4. PICK q, r : q = [batch[b] EXCEPT !.settled = TRUE] /\ r = [q EXCEPT !.status = s]
      OBVIOUS
    <3>5. BatchRow(r) /\ r.status = s
      <4>1. BatchRow(q)
        BY <1>0, <3>1, <3>4 DEF BatchRows, BatchRow
      <4> QED BY <3>4, <4>1 DEF BatchRow
    <3>6. batch' = [c \in Batches |-> IF c = b THEN r ELSE batch[c]]
      <4>1. PICK B : B = [batch EXCEPT ![b] = q]
        OBVIOUS
      <4>2. B = [c \in Batches |-> IF c = b THEN q ELSE batch[c]]
        BY <1>0, <3>1, <4>1 DEF BatchRows
      <4>3. batch' = [B EXCEPT ![b].status = s]
        BY <3>3, <3>4, <4>1
      <4> QED BY <3>1, <3>4, <4>2, <4>3
    <3>7. BatchRows' /\ batch'[b].status = s /\ \A c \in Batches \ {b} : batch'[c] = batch[c]
      BY <1>0, <3>1, <3>5, <3>6 DEF BatchRows
    <3>8. LoopRow(loop') /\ loop'.at \notin Working
      BY <1>0, <3>3 DEF LoopRow, Working
    <3>9. undo.batch # 0 => undo.batch \in Batches \ {b}
      BY <1>0, <3>1 DEF StatusInv
    <3>10. \A c \in Batches : batch'[c].status = "none" => batch[c].status = "none"
      BY <3>2, <3>7
    <3> QED BY <3>1, <3>7, <3>8, <3>9, <3>10, BatchMoves
  <2> QED BY <1>6, <2>1, <2>2 DEF FinishBatch
<1> QED BY <1>1, <1>2, <1>3, <1>4, <1>5, <1>6

SinceRows == since = [b \in Batches |-> [origin |-> since[b].origin, others |-> since[b].others]]

\* A write of ls: what each batch found stays as recorded, and every batch but the
\* writer's takes the write for somebody else's.
SinceAfter(w, ls) ==
    /\ SinceRows'
    /\ \A b \in Batches : /\ since'[b].origin = since[b].origin
                          /\ since'[b].others = IF b = w THEN since[b].others ELSE since[b].others \cup ls

LEMMA SinceWritten ==
    ASSUME ImportRows, NEW w, NEW ls, since' = WrittenBy(w, ls)
    PROVE  SinceAfter(w, ls)
<1>1. since = [b \in Batches |-> [origin |-> since[b].origin, others |-> since[b].others]]
  BY DEF ImportRows
<1>2. ASSUME NEW b \in Batches
      PROVE  since'[b] = [origin |-> since[b].origin,
                          others |-> IF b = w THEN since[b].others ELSE since[b].others \cup ls]
  <2>1. PICK r : r = since[b]
    OBVIOUS
  <2>2. r = [origin |-> r.origin, others |-> r.others]
    BY <1>1, <2>1
  <2>3. since'[b] = IF b = w THEN r ELSE [r EXCEPT !.others = @ \cup ls]
    BY <2>1 DEF WrittenBy
  <2>4. CASE b = w
    BY <2>1, <2>2, <2>3, <2>4
  <2>5. CASE b # w
    <3>1. PICK o : o = r.others \cup ls
      OBVIOUS
    <3>2. since'[b] = [r EXCEPT !.others = o]
      BY <2>3, <2>5, <3>1
    <3>3. since'[b] = [origin |-> r.origin, others |-> o]
      BY <2>2, <3>2
    <3> QED BY <2>1, <2>5, <3>1, <3>3
  <2> QED BY <2>4, <2>5
<1>3. ASSUME NEW b \in Batches
      PROVE  /\ since'[b] = [origin |-> since'[b].origin, others |-> since'[b].others]
             /\ since'[b].origin = since[b].origin
             /\ since'[b].others = IF b = w THEN since[b].others ELSE since[b].others \cup ls
  <2>1. PICK g, o : g = since[b].origin /\ o = IF b = w THEN since[b].others ELSE since[b].others \cup ls
    OBVIOUS
  <2>2. since'[b] = [origin |-> g, others |-> o]
    BY <1>2, <2>1
  <2> QED BY <2>1, <2>2
<1>4. since' = [b \in Batches |-> since'[b]]
  BY DEF WrittenBy
<1>5. SinceRows'
  BY <1>3, <1>4 DEF SinceRows
<1> QED BY <1>3, <1>5 DEF SinceAfter

LEMMA NoRowRow == ProvRow(NoRow) /\ NoRow.action = "none"
BY DEF ProvRow, NoRow

\* The upload: the batch is new, so it has touched nothing and nobody has written since.
LEMMA UploadStep ==
    ASSUME ImportInv, NEW b \in Batches, NEW f, Upload(b, f)
    PROVE  ImportInv'
<1>0. /\ ImportRows /\ StatusInv /\ Recoverable /\ UndoRecoverable /\ UndoBare
      /\ batch[b].status = "none" /\ UNCHANGED <<listing, prov, loop, undo>>
      /\ undo.batch \in Batches \cup {0} /\ Batches \subseteq Nat \ {0}
  BY ImportsAssumption DEF ImportInv, ImportRows, Upload
<1>1. PICK r : r = [NewBatch EXCEPT !.status = "mapping", !.file = f]
  OBVIOUS
<1>2. BatchRow(r) /\ r.status = "mapping"
  <2>1. PICK p : p = [NewBatch EXCEPT !.status = "mapping"]
    OBVIOUS
  <2>2. BatchRow(p) /\ p.status = "mapping"
    BY <2>1 DEF NewBatch, BatchRow
  <2> QED BY <1>1, <2>1, <2>2 DEF BatchRow
<1>3. batch' = [batch EXCEPT ![b] = r]
  BY <1>1 DEF Upload
<1>4. batch' = [c \in Batches |-> IF c = b THEN r ELSE batch[c]]
  BY <1>0, <1>3 DEF ImportRows
<1>5. since' = [c \in Batches |-> IF c = b THEN [origin |-> listing, others |-> {}] ELSE since[c]]
  <2>1. since' = [since EXCEPT ![b] = [origin |-> listing, others |-> {}]]
    BY DEF Upload
  <2> QED BY <1>0, <2>1 DEF ImportRows
<1>6. \A c \in Batches : since'[c] = [origin |-> since'[c].origin, others |-> since'[c].others]
  <2>1. \A c \in Batches : since[c] = [origin |-> since[c].origin, others |-> since[c].others]
    BY <1>0 DEF ImportRows
  <2> QED BY <1>5, <2>1
<1>7. ImportRows'
  <2>1. BatchRows'
    BY <1>0, <1>2, <1>4 DEF ImportRows, BatchRows
  <2>2. SinceRows'
    BY <1>5, <1>6 DEF SinceRows
  <2> QED BY <1>0, <2>1, <2>2 DEF ImportRows, BatchRows, SinceRows
<1>8. StatusInv'
  BY <1>0, <1>2, <1>4 DEF StatusInv
<1>9. Recoverable'
  <2> SUFFICES ASSUME NEW c \in Batches, NEW l \in ImportListings \ since'[c].others
               PROVE  Restores(prov[c][l], listing[l], since'[c].origin[l])
    BY <1>0 DEF Recoverable
  <2>1. CASE c = b
    <3>1. since'[c].origin = listing /\ prov[c][l] = NoRow
      BY <1>0, <1>5, <2>1 DEF StatusInv
    <3> QED BY <3>1, NoRowRow DEF Restores, NoRow
  <2>2. CASE c # b
    BY <1>0, <1>5, <2>2 DEF Recoverable
  <2> QED BY <2>1, <2>2
<1>10. UndoRecoverable' /\ UndoBare'
  <2>1. undo.batch # 0 => undo.batch \in Batches /\ undo.batch # b
    BY <1>0 DEF StatusInv
  <2>2. undo.batch # 0 => since'[undo.batch] = since[undo.batch]
    BY <1>5, <2>1
  <2> QED BY <1>0, <2>2 DEF UndoRecoverable, UndoBare, CreatedBy
<1> QED BY <1>7, <1>8, <1>9, <1>10 DEF ImportInv

\* The sweep clears pre-images; no row it has cleared is promised to restore anything.
LEMMA SweepStep ==
    ASSUME ImportInv, SweepApply
    PROVE  ImportInv'
<1>0. /\ ImportRows /\ StatusInv /\ Recoverable /\ UndoRecoverable /\ UndoBare
      /\ UNCHANGED <<batch, listing, loop, undo, since>>
  BY DEF ImportInv, SweepApply
<1>1. ASSUME NEW b \in Batches, NEW l \in ImportListings
      PROVE  /\ ProvRow(prov'[b][l]) /\ prov'[b][l].action = prov[b][l].action
             /\ prov'[b][l] = prov[b][l] \/ (prov'[b][l].nulled /\ prov[b][l].action # "none")
  <2>1. PICK r : r = prov[b][l]
    OBVIOUS
  <2>2. ProvRow(r)
    BY <1>0, <2>1 DEF ImportRows
  <2>3. CASE prov'[b][l] = r
    BY <2>1, <2>2, <2>3
  <2>4. CASE prov'[b][l] = [r EXCEPT !.pre = Absent, !.nulled = TRUE] /\ r.action # "none"
    <3>1. PICK p : p = [r EXCEPT !.pre = Absent]
      OBVIOUS
    <3>2. ProvRow(p) /\ p.action = r.action
      BY <2>2, <3>1 DEF ProvRow
    <3>3. PICK q : q = [p EXCEPT !.nulled = TRUE]
      OBVIOUS
    <3>4. ProvRow(q) /\ q.action = r.action /\ q.nulled
      BY <3>2, <3>3 DEF ProvRow
    <3> QED BY <2>1, <2>4, <3>1, <3>3, <3>4
  <2> QED BY <2>1, <2>3, <2>4 DEF SweepApply
<1>2. prov' = [b \in Batches |-> [l \in ImportListings |-> prov'[b][l]]]
  BY DEF SweepApply
<1>3. ImportRows'
  BY <1>0, <1>1, <1>2 DEF ImportRows
<1>4. StatusInv'
  BY <1>0, <1>1, NoRowRow DEF StatusInv
<1>5. Recoverable'
  BY <1>0, <1>1 DEF Recoverable, Restores
<1>6. UndoRecoverable' /\ UndoBare'
  BY <1>0 DEF UndoRecoverable, UndoBare, CreatedBy
<1> QED BY <1>3, <1>4, <1>5, <1>6 DEF ImportInv

LEMMA OutcomeMeans ==
    ASSUME NEW held, NEW row
    PROVE  /\ UpsertOutcome(held, row) = "created" => held = Absent
           /\ UpsertOutcome(held, row) = "updated" => held # Absent
BY DEF UpsertOutcome

\* First touch wins: the pre-image of a listing the batch had not touched is what it
\* held at the upload, unless somebody else has written it.
LEMMA RecordedRestores ==
    ASSUME NEW row, ProvRow(row), NEW outcome \in {"created", "updated"}, NEW held, NEW content, NEW origin,
           outcome = "created" => held = Absent, outcome = "updated" => held # Absent,
           Restores(row, held, origin)
    PROVE  Restores(Recorded(row, outcome, held), content, origin)
<1>1. CASE row.action = "none"
  <2>1. Recorded(row, outcome, held) = [action |-> outcome, pre |-> held, nulled |-> FALSE]
    BY <1>1 DEF Recorded
  <2> QED BY <1>1, <2>1 DEF Restores
<1>2. CASE row.action # "none"
  BY <1>2 DEF Recorded, Restores
<1> QED BY <1>1, <1>2

LEMMA RecordedRow ==
    ASSUME NEW row, ProvRow(row), NEW outcome \in {"created", "updated"}, NEW held
    PROVE  ProvRow(Recorded(row, outcome, held))
BY DEF ProvRow, Recorded

\* One row's upsert: the listing and its provenance, in the same transaction.
LEMMA RowStep ==
    ASSUME ImportInv, ProcessRow
    PROVE  ImportInv'
<1> DEFINE b == loop.batch
           row == batch[b].file[loop.row]
           x == row.listing
           held == listing[x]
           outcome == IF <<b, loop.row>> \in logged THEN "replayed" ELSE UpsertOutcome(held, row)
<1>0. /\ ImportRows /\ StatusInv /\ Recoverable /\ UndoRecoverable /\ UndoBare
      /\ loop.at = "rows" /\ UNCHANGED <<batch, undo>>
      /\ undo.batch \in Batches \cup {0} /\ Batches \subseteq Nat \ {0}
  BY ImportsAssumption DEF ImportInv, ImportRows, ProcessRow
<1>1. b \in Batches /\ batch[b].status \in {"pending", "processing"}
  BY <1>0 DEF StatusInv, Working
<1>2. undo.batch # b
  BY <1>0, <1>1 DEF StatusInv
<1>3. LoopRow(loop') /\ loop'.batch = b
  <2>1. PICK s, o : loop' = [loop EXCEPT !.at = s, !.outcome = o]
    BY DEF ProcessRow
  <2>2. PICK p : p = [loop EXCEPT !.at = s]
    OBVIOUS
  <2>3. LoopRow(p) /\ p.batch = b
    BY <1>0, <2>2 DEF ImportRows, LoopRow
  <2>4. loop' = [p EXCEPT !.outcome = o]
    BY <2>1, <2>2
  <2> QED BY <2>3, <2>4 DEF LoopRow
<1>4. CASE UNCHANGED <<listing, prov, since>>
  BY <1>0, <1>1, <1>3, <1>4, BatchMoves DEF BatchRows, ImportRows
<1>5. CASE /\ outcome \in {"created", "updated"}
           /\ listing' = [listing EXCEPT ![x] = row.content]
           /\ prov' = [prov EXCEPT ![b][x] = Recorded(@, outcome, held)]
           /\ since' = WrittenBy(b, {x})
  <2>1. (outcome = "created" => held = Absent) /\ (outcome = "updated" => held # Absent)
    <3>1. outcome = UpsertOutcome(held, row)
      BY <1>5
    <3>2. /\ UpsertOutcome(held, row) = "created" => held = Absent
          /\ UpsertOutcome(held, row) = "updated" => held # Absent
      BY OutcomeMeans
    <3> HIDE DEF outcome, held, row
    <3> QED BY <3>1, <3>2
  <2>2. PICK o, h, v, y : o \in {"created", "updated"} /\ o = outcome /\ h = held /\ v = row.content /\ y = x
    BY <1>5
  <2> HIDE DEF outcome, held, row, x
  <2>3. listing' = [l \in ImportListings |-> IF l = y THEN v ELSE listing[l]]
    <3>1. listing' = [listing EXCEPT ![y] = v]
      BY <1>5, <2>2
    <3> QED BY <1>0, <3>1 DEF ImportRows
  <2>4. prov' = [c \in Batches |-> [l \in ImportListings |->
                   IF c = b /\ l = y THEN Recorded(prov[c][l], o, h) ELSE prov[c][l]]]
    <3>1. prov' = [prov EXCEPT ![b][y] = Recorded(@, o, h)]
      BY <1>5, <2>2
    <3>2. prov = [c \in Batches |-> [l \in ImportListings |-> prov[c][l]]]
      BY <1>0 DEF ImportRows
    <3> QED BY <1>1, <3>1, <3>2
  <2>5. /\ SinceRows'
        /\ \A c \in Batches : /\ since'[c].origin = since[c].origin
                              /\ since'[c].others = IF c = b THEN since[c].others
                                                    ELSE since[c].others \cup {y}
    <3>1. PICK w, ls : w = b /\ ls = {y}
      OBVIOUS
    <3>2. ImportRows /\ since' = WrittenBy(w, ls)
      BY <1>0, <1>5, <2>2, <3>1
    <3>3. SinceAfter(w, ls)
      BY <3>2, SinceWritten
    <3> QED BY <3>1, <3>3 DEF SinceAfter
  <2>6. \A c \in Batches : \A l \in ImportListings : ProvRow(prov'[c][l])
    <3> TAKE c \in Batches
    <3> TAKE l \in ImportListings
    <3>1. ProvRow(prov[c][l])
      BY <1>0 DEF ImportRows
    <3>2. ProvRow(Recorded(prov[c][l], o, h))
      BY <2>2, <3>1, RecordedRow
    <3> QED BY <2>4, <3>1, <3>2
  <2>7. ImportRows'
    <3>1. prov' = [c \in Batches |-> [l \in ImportListings |-> prov'[c][l]]]
      BY <2>4
    <3>2. listing' = [l \in ImportListings |-> listing'[l]]
      BY <2>3
    <3> QED BY <1>0, <1>3, <2>5, <2>6, <3>1, <3>2 DEF ImportRows, SinceRows
  <2>8. StatusInv'
    BY <1>0, <1>1, <1>3, <2>4 DEF StatusInv
  <2>9. Recoverable'
    <3> SUFFICES ASSUME NEW c \in Batches, NEW l \in ImportListings \ since'[c].others
                 PROVE  Restores(prov'[c][l], listing'[l], since'[c].origin[l])
      BY DEF Recoverable
    <3>1. l \in ImportListings \ since[c].others /\ since'[c].origin = since[c].origin /\ (l = y => c = b)
      BY <2>5
    <3>2. Restores(prov[c][l], listing[l], since[c].origin[l])
      BY <1>0, <3>1 DEF Recoverable
    <3>3. CASE l = y
      <4>1. prov'[c][l] = Recorded(prov[c][l], o, h) /\ h = listing[l]
        BY <2>2, <2>4, <3>1, <3>3 DEF held
      <4>2. Restores(Recorded(prov[c][l], o, h), listing'[l], since[c].origin[l])
        <5>1. ProvRow(prov[c][l]) /\ Restores(prov[c][l], h, since[c].origin[l])
          BY <1>0, <3>2, <4>1 DEF ImportRows
        <5>2. (o = "created" => h = Absent) /\ (o = "updated" => h # Absent)
          BY <2>1, <2>2
        <5> QED BY <2>2, <5>1, <5>2, RecordedRestores
      <4> QED BY <3>1, <4>1, <4>2
    <3>4. CASE l # y
      BY <2>3, <2>4, <3>1, <3>2, <3>4
    <3> QED BY <3>3, <3>4
  <2>10. UndoRecoverable' /\ UndoBare'
    <3>1. undo.batch # 0 => /\ undo.batch \in Batches
                            /\ since'[undo.batch].origin = since[undo.batch].origin
                            /\ since'[undo.batch].others = since[undo.batch].others \cup {y}
      BY <1>0, <1>2, <2>5
    <3> QED BY <1>0, <2>3, <3>1 DEF UndoRecoverable, UndoBare, CreatedBy
  <2> QED BY <2>7, <2>8, <2>9, <2>10 DEF ImportInv
<1> QED BY <1>4, <1>5 DEF ProcessRow

\* Somebody else's write of a listing: no batch promises anything about it any more.
LEMMA EditStep ==
    ASSUME ImportInv, NEW x \in ImportListings, NEW v, EditListing(x, v)
    PROVE  ImportInv'
<1>0. /\ ImportRows /\ StatusInv /\ Recoverable /\ UndoRecoverable /\ UndoBare
      /\ UNCHANGED <<batch, prov, loop, undo>> /\ since' = WrittenBy(0, {x})
      /\ undo.batch \in Batches \cup {0} /\ Batches \subseteq Nat \ {0}
  BY ImportsAssumption DEF ImportInv, ImportRows, EditListing
<1>1. listing' = [l \in ImportListings |-> IF l = x THEN v ELSE listing[l]]
  <2>1. listing' = [listing EXCEPT ![x] = v]
    BY DEF EditListing
  <2> QED BY <1>0, <2>1 DEF ImportRows
<1>2. /\ SinceRows'
      /\ \A c \in Batches : /\ since'[c].origin = since[c].origin
                            /\ since'[c].others = IF c = 0 THEN since[c].others
                                                  ELSE since[c].others \cup {x}
  BY <1>0, SinceWritten DEF SinceAfter
<1>3. \A c \in Batches : since'[c].others = since[c].others \cup {x}
  BY <1>0, <1>2
<1>4. ImportRows'
  BY <1>0, <1>1, <1>2 DEF ImportRows, SinceRows
<1>5. StatusInv'
  BY <1>0 DEF StatusInv
<1>6. Recoverable'
  BY <1>0, <1>1, <1>2, <1>3 DEF Recoverable
<1>7. UndoRecoverable' /\ UndoBare'
  BY <1>0, <1>1, <1>2, <1>3 DEF UndoRecoverable, UndoBare, CreatedBy
<1> QED BY <1>4, <1>5, <1>6, <1>7 DEF ImportInv

\* The rollback's look: its window is open, so what it reads restores what it promises.
LEMMA CheckStep ==
    ASSUME ImportInv, NEW b \in Batches, RollbackCheck(b)
    PROVE  ImportInv'
<1>0. /\ ImportRows /\ StatusInv /\ Recoverable
      /\ UNCHANGED <<batch, listing, prov, loop, since>>
      /\ batch[b].status \in {"completed", "failed"} /\ WindowOpen(b) /\ Removable(b)
  BY DEF ImportInv, RollbackCheck
<1>1. undo'.batch = b /\ undo'.rows = prov[b] /\ undo'.bare = ImportListings \ evidence
  BY DEF RollbackCheck
<1>2. ImportRows'
  BY <1>0, <1>1 DEF ImportRows
<1>3. StatusInv'
  BY <1>0, <1>1 DEF StatusInv
<1>4. Recoverable'
  BY <1>0 DEF Recoverable
<1>5. UndoRecoverable'
  BY <1>0, <1>1 DEF UndoRecoverable, Recoverable, WindowOpen
<1>6. UndoBare'
  BY <1>0, <1>1 DEF UndoBare, CreatedBy, Removable
<1> QED BY <1>2, <1>3, <1>4, <1>5, <1>6 DEF ImportInv

\* What the rollback writes: the heart of RollbackRestores.
LEMMA RollbackGives ==
    ASSUME ImportInv, RollbackApply, NEW l \in ImportListings \ since[undo.batch].others
    PROVE  listing'[l] = since[undo.batch].origin[l]
<1>1. /\ ~undo.rows[l].nulled
      /\ Restores(undo.rows[l], listing[l], since[undo.batch].origin[l])
      /\ ProvRow(undo.rows[l])
  BY DEF ImportInv, UndoRecoverable, ImportRows, RollbackApply
<1>2. listing'[l] = IF undo.rows[l].action = "created" THEN Absent
                    ELSE IF undo.rows[l].action = "updated" /\ undo.rows[l].pre # Absent
                         THEN undo.rows[l].pre ELSE listing[l]
  BY DEF RollbackApply, CreatedBy
<1> QED BY <1>1, <1>2 DEF Restores, ProvRow

LEMMA RollbackStep ==
    ASSUME ImportInv, RollbackApply
    PROVE  ImportInv'
<1> DEFINE b == undo.batch
           gone == CreatedBy(undo.rows)
           back == {l \in ImportListings : undo.rows[l].action = "updated" /\ undo.rows[l].pre # Absent}
<1>0. /\ ImportRows /\ StatusInv /\ Recoverable /\ UndoRecoverable
      /\ UNCHANGED loop /\ SetStatus(b, "rolled_back") /\ undo' = NoUndo
      /\ b \in Batches /\ Batches \subseteq Nat \ {0}
      /\ batch[b].status \in {"completed", "failed"}
  BY ImportsAssumption DEF ImportInv, ImportRows, StatusInv, RollbackApply
<1>1. BatchRows' /\ batch'[b].status = "rolled_back" /\ \A c \in Batches \ {b} : batch'[c] = batch[c]
  BY <1>0, StatusSet
<1>2. /\ SinceRows'
      /\ \A c \in Batches : /\ since'[c].origin = since[c].origin
                            /\ since'[c].others = IF c = b THEN since[c].others
                                                  ELSE since[c].others \cup (gone \cup back)
  <2>1. PICK w, ls : w = b /\ ls = gone \cup back
    OBVIOUS
  <2>2. ImportRows /\ since' = WrittenBy(w, ls)
    BY <1>0, <2>1 DEF RollbackApply
  <2>3. SinceAfter(w, ls)
    BY <2>2, SinceWritten
  <2> QED BY <2>1, <2>3 DEF SinceAfter
<1>3. listing' = [l \in ImportListings |-> listing'[l]]
      /\ \A l \in ImportListings \ (gone \cup back) : listing'[l] = listing[l]
  BY DEF RollbackApply
<1>4. ASSUME NEW c \in Batches, NEW l \in ImportListings
      PROVE  /\ ProvRow(prov'[c][l])
             /\ l \in gone => prov'[c][l] = NoRow
             /\ l \notin gone => /\ prov'[c][l].action = prov[c][l].action
                                 /\ \/ prov'[c][l] = prov[c][l]
                                    \/ c = b /\ prov'[c][l].nulled /\ prov[c][l].action # "none"
  <2>1. PICK r : r = prov[c][l]
    OBVIOUS
  <2>2. ProvRow(r)
    BY <1>0, <2>1 DEF ImportRows
  <2>3. PICK p, q : p = [r EXCEPT !.pre = Absent] /\ q = [p EXCEPT !.nulled = TRUE]
    OBVIOUS
  <2>4. ProvRow(p) /\ p.action = r.action
    BY <2>2, <2>3 DEF ProvRow
  <2>5. ProvRow(q) /\ q.action = r.action /\ q.nulled
    BY <2>3, <2>4 DEF ProvRow
  <2>6. prov'[c][l] = IF l \in gone THEN NoRow ELSE IF c = b /\ r.action # "none" THEN q ELSE r
    <3>1. prov'[c][l] = IF l \in gone THEN NoRow
                        ELSE IF c = b /\ prov[c][l].action # "none"
                             THEN [prov[c][l] EXCEPT !.pre = Absent, !.nulled = TRUE] ELSE prov[c][l]
      BY DEF RollbackApply
    <3> QED BY <2>1, <2>3, <3>1
  <2> HIDE DEF gone
  <2> QED BY <2>1, <2>2, <2>5, <2>6, NoRowRow
<1>5. ImportRows'
  <2>1. prov' = [c \in Batches |-> [l \in ImportListings |-> prov'[c][l]]]
    BY DEF RollbackApply
  <2>2. undo'.batch = 0 /\ \A l \in ImportListings : undo'.rows[l] = NoRow
    BY <1>0 DEF NoUndo
  <2> HIDE DEF gone, back
  <2> QED BY <1>0, <1>1, <1>2, <1>3, <1>4, <2>1, <2>2, NoRowRow DEF ImportRows, BatchRows, SinceRows
<1>6. StatusInv'
  <2>1. undo'.batch = 0
    BY <1>0 DEF NoUndo
  <2>2. \A c \in Batches : batch'[c].status = "none" => \A l \in ImportListings : prov'[c][l] = NoRow
    <3> SUFFICES ASSUME NEW c \in Batches, batch'[c].status = "none", NEW l \in ImportListings
                 PROVE  prov'[c][l] = NoRow
      OBVIOUS
    <3>1. c # b /\ batch[c].status = "none"
      BY <1>0, <1>1
    <3>2. prov[c][l] = NoRow
      BY <1>0, <3>1 DEF StatusInv
    <3> QED BY <1>4, <3>2, NoRowRow
  <2>3. loop.at \in Working => loop.batch \in Batches \ {b}
    BY <1>0 DEF StatusInv
  <2> QED BY <1>0, <1>1, <2>1, <2>2, <2>3 DEF StatusInv
<1>7. Recoverable'
  <2> SUFFICES ASSUME NEW c \in Batches, NEW l \in ImportListings \ since'[c].others
               PROVE  Restores(prov'[c][l], listing'[l], since'[c].origin[l])
    BY DEF Recoverable
  <2>0. l \in ImportListings \ since[c].others /\ since'[c].origin = since[c].origin
    BY <1>2
  <2>1. Restores(prov[c][l], listing[l], since[c].origin[l])
    BY <1>0, <2>0 DEF Recoverable
  <2>2. CASE c = b
    <3>1. listing'[l] = since[b].origin[l]
      BY <2>0, <2>2, RollbackGives
    <3>2. CASE l \in gone
      BY <1>4, <2>0, <2>2, <3>1, <3>2, NoRowRow DEF Restores
    <3>3. CASE l \notin gone
      <4>1. /\ prov'[c][l].action = prov[c][l].action
            /\ prov'[c][l] = prov[c][l] \/ prov'[c][l].nulled
        BY <1>4, <3>3
      <4> QED BY <2>0, <2>1, <2>2, <3>1, <4>1 DEF Restores
    <3> QED BY <3>2, <3>3
  <2>3. CASE c # b
    <3>1. l \notin gone /\ l \notin back
      BY <1>2, <2>3
    <3>2. prov'[c][l] = prov[c][l] /\ listing'[l] = listing[l]
      BY <1>3, <1>4, <2>3, <3>1
    <3> QED BY <2>0, <2>1, <3>2
  <2> QED BY <2>2, <2>3
<1>8. UndoRecoverable' /\ UndoBare'
  BY <1>0 DEF NoUndo, UndoRecoverable, UndoBare, CreatedBy, NoRow
<1> QED BY <1>5, <1>6, <1>7, <1>8 DEF ImportInv

\* The imports' inductive invariant (importing.py, _do_rollback): which batch the loop and
\* the rollback may be about, and that the provenance suffices to go back.
THEOREM ImportInvariance == ImportSpec => []ImportInv
<1>1. ImportInit => ImportInv
  <2> SUFFICES ASSUME ImportInit PROVE ImportInv
    OBVIOUS
  <2>1. BatchRow(NewBatch) /\ LoopRow(AtRest) /\ AtRest.at \notin Working
    BY DEF BatchRow, NewBatch, LoopRow, AtRest, Working
  <2>2. /\ batch = [b \in Batches |-> NewBatch] /\ listing = Stock /\ loop = AtRest /\ undo = NoUndo
        /\ prov = [b \in Batches |-> [l \in ImportListings |-> NoRow]]
        /\ since = [b \in Batches |-> [origin |-> listing, others |-> {}]]
    BY DEF ImportInit
  <2>3. undo.batch = 0 /\ undo.rows = [l \in ImportListings |-> NoRow] /\ undo.bare = {}
    BY <2>2 DEF NoUndo
  <2>4. listing = [l \in ImportListings |-> listing[l]]
    BY <2>2, ImportsAssumption
  <2>5. ImportRows
    BY <2>1, <2>2, <2>3, <2>4, NoRowRow DEF ImportRows
  <2>6. StatusInv
    BY <2>1, <2>2, <2>3 DEF StatusInv
  <2>7. Recoverable
    BY <2>2, NoRowRow DEF Recoverable, Restores, NoRow
  <2>8. UndoRecoverable /\ UndoBare
    BY <2>3, NoRowRow DEF UndoRecoverable, UndoBare, CreatedBy
  <2> QED BY <2>5, <2>6, <2>7, <2>8 DEF ImportInv
<1>2. ImportInv /\ [ImportNext]_importVars => ImportInv'
  <2> SUFFICES ASSUME ImportInv, [ImportNext]_importVars PROVE ImportInv'
    OBVIOUS
  <2>1. CASE UNCHANGED <<batch, listing, prov, loop, undo, since>>
    BY <2>1, BatchMoves DEF ImportInv, ImportRows, StatusInv, BatchRows
  <2>2. CASE SweepSelect \/ (\E l \in ImportListings : AddEvidence(l)) \/ UNCHANGED importVars
    BY <2>1, <2>2 DEF SweepSelect, AddEvidence, importVars
  <2> QED BY <2>2, BatchSteps, UploadStep, SweepStep, RowStep, EditStep, CheckStep, RollbackStep DEF ImportNext
<1> QED BY <1>1, <1>2, PTL DEF ImportSpec

\* Only the rollback's own step marks a batch rolled back.
LEMMA RolledBackOnly ==
    ASSUME ImportInv, [ImportNext]_importVars, NEW b \in Batches,
           batch[b].status # "rolled_back", batch'[b].status = "rolled_back"
    PROVE  RollbackApply /\ b = undo.batch
<1>0. ImportRows /\ StatusInv /\ BatchRows
  BY DEF ImportInv, ImportRows, BatchRows
<1>1. ASSUME NEW c \in Batches, NEW s, SetStatus(c, s), s # "rolled_back" PROVE FALSE
  BY <1>0, <1>1, StatusSet
<1>2. ASSUME NEW c \in Batches, NEW f, Upload(c, f) PROVE FALSE
  BY <1>0, <1>2 DEF Upload, BatchRows, NewBatch
<1>3. CASE ClaimBatch
  <2>1. Min(Claimables) \in Batches
    <3>1. Claimables \subseteq Nat /\ Claimables # {} /\ Claimables \subseteq Batches
      BY <1>3, ImportsAssumption DEF Claimables, ClaimBatch
    <3> QED BY <3>1, OldestBatch
  <2> QED BY <1>1, <1>3, <2>1 DEF ClaimBatch
<1>4. ASSUME NEW c \in Batches, Run(c) \/ RunAgain(c) PROVE FALSE
  BY <1>1, <1>4 DEF Run, RunAgain
<1>5. CASE BeginBatch \/ BumpRow \/ FinishBatch
  <2>1. CASE BeginBatch
    <3>1. PICK c, n : c = loop.batch /\ n = Len(Rows(c))
      OBVIOUS
    <3>2. batch' = [batch EXCEPT ![c].rowCount = n] \/ batch' = batch
      BY <2>1, <3>1 DEF BeginBatch
    <3> QED BY <1>0, <3>2 DEF BatchRows, BatchRow
  <2>2. CASE BumpRow
    BY <1>0, <2>2 DEF BumpRow, BatchRows, BatchRow
  <2>3. CASE FinishBatch
    BY <1>0, <2>3 DEF FinishBatch, BatchRows, BatchRow
  <2> QED BY <1>5, <2>1, <2>2, <2>3
<1>6. CASE RollbackApply
  <2>1. undo.batch \in Batches /\ SetStatus(undo.batch, "rolled_back")
    BY <1>0, <1>6 DEF RollbackApply, ImportRows
  <2> QED BY <1>0, <1>6, <2>1, StatusSet
<1>7. batch' # batch
  OBVIOUS
<1> QED BY <1>2, <1>3, <1>4, <1>5, <1>6, <1>7
        DEF ImportNext, RollbackCheck, ProcessRow, ConcludeRow, ChunkDone, WorkerDies, SweepSelect,
            SweepApply, AddEvidence, EditListing, importVars

\* A rollback gives every listing nobody else has written since the upload what it held
\* then, across repeated rows, worker deaths, reruns and sweeps (_do_rollback).
THEOREM RollbackCorrect == ImportSpec => RollbackRestores
<1>1. ImportInv /\ [ImportNext]_importVars =>
        \A b \in Batches : batch[b].status # "rolled_back" /\ batch'[b].status = "rolled_back" =>
          \A l \in ImportListings \ since[b].others : listing'[l] = since[b].origin[l]
  BY RolledBackOnly, RollbackGives
<1> QED BY <1>1, ImportInvariance, PTL DEF ImportSpec, RollbackRestores

\* No step takes away a claim or a lead except a rollback, and that only from listings
\* that carried none when it looked (_do_rollback).
THEOREM EvidenceCorrect == ImportSpec => EvidenceKept
<1>1. ImportInv /\ [ImportNext]_importVars => \A l \in evidence \ evidence' : l \in undo.bare
  <2> SUFFICES ASSUME ImportInv, [ImportNext]_importVars, NEW l \in evidence, l \notin evidence'
               PROVE  l \in undo.bare
    OBVIOUS
  <2>1. CASE RollbackApply
    BY <2>1 DEF RollbackApply, ImportInv, UndoBare
  <2>2. CASE evidence \subseteq evidence'
    BY <2>2
  <2> QED BY <2>1, <2>2
          DEF ImportNext, Upload, Run, RunAgain, RollbackCheck, ClaimBatch, BeginBatch, ProcessRow, ConcludeRow,
              BumpRow, ChunkDone, FinishBatch, WorkerDies, SweepSelect, SweepApply, AddEvidence, EditListing,
              importVars
<1> QED BY <1>1, ImportInvariance, PTL DEF ImportSpec, EvidenceKept

-----------------------------------------------------------------------------
(* Leads.                                                                   *)

LeadRow == [state : {"none", "open", "in"}, listing : LeadListings \cup {Nobody}, at : Nat, spam : BOOLEAN]
Steps == {"none", "todo", "read", "counted", "queued"}
NoticeRow == [step : Steps, since : Nat, counts : SUBSET LeadIds, at : Nat]

LeadTypes ==
    /\ lead \in [LeadIds -> LeadRow]
    /\ ownerOf \in [LeadListings -> LeadOwners \cup {Nobody}]
    /\ stamp \in Nat
    /\ leadNotice \in [Recipients -> Nat]
    /\ notice \in [Transactions -> [Recipients -> NoticeRow]]
    /\ told \in [Recipients -> [LeadIds -> Nat]]

\* What a transaction knows of r is no newer than r's last notice, and it counts leads
\* that exist and are older than the notice it queues.
RowTimes(t, r) ==
    /\ notice[t][r].at <= stamp
    /\ notice[t][r].step \in {"read", "counted"} => notice[t][r].since <= leadNotice[r]
    /\ notice[t][r].step \notin {"counted", "queued"} => notice[t][r].counts = {}
    /\ notice[t][r].step # "queued" => notice[t][r].at = 0
    /\ \A i \in notice[t][r].counts : /\ lead[i].state # "none"
                                      /\ notice[t][r].step = "queued" => lead[i].at < notice[t][r].at

LeadTimes ==
    /\ \A i \in LeadIds : lead[i].at <= stamp
    /\ \A i \in LeadIds : lead[i].state # "none" => lead[i].listing \in LeadListings
    /\ \A i \in LeadIds : lead[i].state # "open" => \A r \in Recipients : notice[i][r].step = "none"
    /\ \A r \in Recipients : leadNotice[r] <= stamp
    /\ \A t \in Transactions, r \in Recipients : RowTimes(t, r)
    /\ \A r \in Recipients, i \in LeadIds :
          told[r][i] # 0 => lead[i].state # "none" /\ lead[i].at <= leadNotice[r]

\* r has been told of i, or one open transaction is about to tell it: never both, nor two.
Once(i, r) ==
    /\ told[r][i] <= 1
    /\ \A t \in Transactions : i \in notice[t][r].counts =>
          /\ told[r][i] = 0
          /\ \A u \in Transactions : i \in notice[u][r].counts => u = t

\* i is younger than every notice to r, committed, queued or about to be.
Ahead(i, r) ==
    /\ leadNotice[r] < lead[i].at
    /\ \A t \in Transactions : /\ notice[t][r].step # "counted"
                               /\ notice[t][r].step = "queued" => notice[t][r].at < lead[i].at

Accounted(i, r) == told[r][i] = 1 \/ \E t \in Transactions : i \in notice[t][r].counts

Account(i, r) == Once(i, r) /\ (Concerns(i, r) => Accounted(i, r) \/ Ahead(i, r))

Ledger ==
    \A i \in LeadIds, r \in Recipients :
        lead[i].state # "none" /\ <<r, i>> \notin raced => Account(i, r)

LeadInv == LeadTypes /\ LeadTimes /\ Ledger

LEMMA RecipientsType ==
    ASSUME LeadTypes, NEW l \in LeadListings
    PROVE  RecipientsOf(l) \subseteq Recipients
BY DEF LeadTypes, RecipientsOf, Recipients

LEMMA NoticeRows ==
    /\ NoNotice \in NoticeRow /\ ToTell \in NoticeRow
    /\ NoNotice.step = "none" /\ NoNotice.counts = {} /\ NoNotice.at = 0
    /\ ToTell.step = "todo" /\ ToTell.counts = {} /\ ToTell.at = 0
BY DEF NoNotice, ToTell, NoticeRow, Steps

\* What a lead is does not change while it exists.
LeadsStay ==
    /\ lead' \in [LeadIds -> LeadRow]
    /\ \A i \in LeadIds : lead[i].state # "none" =>
          /\ lead'[i].state # "none" /\ lead'[i].at = lead[i].at
          /\ lead'[i].listing = lead[i].listing /\ (lead[i].spam => lead'[i].spam)

LEMMA RowSet ==
    ASSUME LeadTypes, NEW t \in Transactions, NEW r \in Recipients, NEW w \in NoticeRow,
           notice' = [notice EXCEPT ![t][r] = w]
    PROVE  /\ notice' \in [Transactions -> [Recipients -> NoticeRow]]
           /\ \A u \in Transactions, x \in Recipients :
                 notice'[u][x] = IF u = t /\ x = r THEN w ELSE notice[u][x]
BY DEF LeadTypes

LEMMA RowsSet ==
    ASSUME LeadTypes, NEW t \in Transactions, NEW f \in [Recipients -> NoticeRow],
           notice' = [notice EXCEPT ![t] = f]
    PROVE  /\ notice' \in [Transactions -> [Recipients -> NoticeRow]]
           /\ \A u \in Transactions, x \in Recipients :
                 notice'[u][x] = IF u = t THEN f[x] ELSE notice[u][x]
BY DEF LeadTypes

LEMMA RowTimesKept ==
    ASSUME LeadTypes, NEW t \in Transactions, NEW r \in Recipients, RowTimes(t, r), LeadsStay,
           stamp' \in Nat, stamp <= stamp', leadNotice'[r] \in Nat, leadNotice[r] <= leadNotice'[r],
           notice'[t][r] = notice[t][r]
    PROVE  RowTimes(t, r)'
<1>1. notice[t][r] \in NoticeRow /\ stamp \in Nat /\ leadNotice[r] \in Nat
  BY DEF LeadTypes
<1>2. notice[t][r].at \in Nat /\ notice[t][r].since \in Nat /\ notice[t][r].counts \subseteq LeadIds
  BY <1>1 DEF NoticeRow
<1>3. notice'[t][r].at <= stamp'
  BY <1>1, <1>2 DEF RowTimes
<1>4. notice'[t][r].step \in {"read", "counted"} => notice'[t][r].since <= leadNotice'[r]
  BY <1>1, <1>2 DEF RowTimes
<1>5. \A i \in notice'[t][r].counts : /\ lead'[i].state # "none"
                                      /\ notice'[t][r].step = "queued" => lead'[i].at < notice'[t][r].at
  BY <1>2 DEF RowTimes, LeadsStay
<1> QED BY <1>3, <1>4, <1>5 DEF RowTimes

\* A pair keeps its account when r's notices and what counts i stay, and only a
\* transaction that had counted for r queues.
LEMMA AccountKept ==
    ASSUME NEW i \in LeadIds, NEW r \in Recipients, Account(i, r),
           told'[r][i] = told[r][i], leadNotice'[r] = leadNotice[r], lead'[i].at = lead[i].at,
           Concerns(i, r)' => Concerns(i, r),
           \A t \in Transactions : i \in notice'[t][r].counts <=> i \in notice[t][r].counts,
           \A t \in Transactions : notice'[t][r].step \in {"counted", "queued"} =>
                notice'[t][r] = notice[t][r] \/ notice[t][r].step = "counted"
    PROVE  Account(i, r)'
<1>1. Once(i, r)'
  BY DEF Account, Once
<1>2. Accounted(i, r) => Accounted(i, r)'
  BY DEF Accounted
<1>3. Ahead(i, r) => Ahead(i, r)'
  <2> SUFFICES ASSUME Ahead(i, r), NEW t \in Transactions
               PROVE  /\ notice'[t][r].step # "counted"
                      /\ notice'[t][r].step = "queued" => notice'[t][r].at < lead'[i].at
    BY DEF Ahead
  <2> QED BY DEF Ahead
<1> QED BY <1>1, <1>2, <1>3 DEF Account

\* One row moves on without counting anything new.
LEMMA RowMoves ==
    ASSUME LeadInv, NEW t \in Transactions, NEW r \in Recipients, NEW w \in NoticeRow,
           notice' = [notice EXCEPT ![t][r] = w],
           notice[t][r].step \notin {"none", "queued"},
           w.counts = notice[t][r].counts,
           w.step \in {"none", "todo", "read"} \/ notice[t][r].step = "counted",
           w.step \in {"read", "counted"} => w.since <= leadNotice[r],
           w.step \notin {"counted", "queued"} => w.counts = {},
           IF w.step = "queued" THEN w.at = stamp + 1 /\ stamp' = stamp + 1 ELSE w.at = 0 /\ stamp' = stamp,
           UNCHANGED <<lead, ownerOf, leadNotice, told, raced>>
    PROVE  LeadInv'
<1>0. LeadTypes /\ LeadTimes /\ Ledger
  BY DEF LeadInv
<1>1. /\ notice' \in [Transactions -> [Recipients -> NoticeRow]]
      /\ \A u \in Transactions, x \in Recipients :
            notice'[u][x] = IF u = t /\ x = r THEN w ELSE notice[u][x]
  BY <1>0, RowSet
<1>2. stamp \in Nat /\ stamp' \in Nat /\ stamp <= stamp' /\ (w.step = "queued" => stamp < stamp')
  BY <1>0 DEF LeadTypes
<1>3. LeadTypes'
  BY <1>0, <1>1, <1>2 DEF LeadTypes
<1>4. LeadsStay
  BY <1>0 DEF LeadTypes, LeadsStay
<1>5. RowTimes(t, r)'
  <2>1. \A i \in w.counts : i \in LeadIds /\ lead[i].state # "none" /\ lead[i].at <= stamp /\ lead[i].at \in Nat
    BY <1>0 DEF LeadTimes, RowTimes, LeadTypes, LeadRow, NoticeRow
  <2>2. \A i \in w.counts : lead'[i].state # "none" /\ (w.step = "queued" => lead'[i].at < w.at)
    BY <1>2, <2>1
  <2>3. w.at <= stamp' /\ leadNotice' = leadNotice
    BY <1>2
  <2>4. notice'[t][r] = w
    BY <1>1
  <2> QED BY <2>2, <2>3, <2>4 DEF RowTimes
<1>6. \A u \in Transactions, x \in Recipients : RowTimes(u, x)'
  <2> TAKE u \in Transactions, x \in Recipients
  <2>1. CASE u = t /\ x = r
    BY <1>5, <2>1
  <2>2. CASE ~(u = t /\ x = r)
    <3>1. notice'[u][x] = notice[u][x] /\ leadNotice'[x] \in Nat /\ leadNotice[x] <= leadNotice'[x]
      BY <1>0, <1>1, <2>2 DEF LeadTypes
    <3>2. RowTimes(u, x)
      BY <1>0 DEF LeadTimes
    <3> QED BY <1>0, <1>2, <1>4, <3>1, <3>2, RowTimesKept
  <2> QED BY <2>1, <2>2
<1>7. \A i \in LeadIds : lead'[i].at <= stamp' /\ lead[i].at \in Nat
  BY <1>0, <1>2 DEF LeadTimes, LeadTypes, LeadRow
<1>8. \A x \in Recipients : leadNotice'[x] <= stamp'
  BY <1>0, <1>2 DEF LeadTimes, LeadTypes
<1>9. \A i \in LeadIds : lead'[i].state # "open" => \A x \in Recipients : notice'[i][x].step = "none"
  BY <1>0, <1>1 DEF LeadTimes, Transactions
<1>10. LeadTimes'
  BY <1>0, <1>6, <1>7, <1>8, <1>9 DEF LeadTimes
<1>11. Ledger'
  <2> SUFFICES ASSUME NEW i \in LeadIds, NEW x \in Recipients, Account(i, x) PROVE Account(i, x)'
    BY <1>0 DEF Ledger
  <2>1. Concerns(i, x)' => Concerns(i, x)
    BY DEF Concerns, RecipientsOf
  <2>2. \A u \in Transactions : i \in notice'[u][x].counts <=> i \in notice[u][x].counts
    BY <1>1
  <2>3. \A u \in Transactions : notice'[u][x].step \in {"counted", "queued"} =>
           notice'[u][x] = notice[u][x] \/ notice[u][x].step = "counted"
    BY <1>1
  <2> QED BY <2>1, <2>2, <2>3, AccountKept
<1> QED BY <1>3, <1>10, <1>11 DEF LeadInv

\* A count takes in every lead that is due, or names it as overlapping.
LEMMA CountStep ==
    ASSUME LeadInv, NEW t \in Transactions, NEW r \in Recipients, NEW counted, NEW w \in NoticeRow,
           counted = Unreported(r, t, notice[t][r].since),
           notice[t][r].step = "read",
           w.step = "counted", w.counts = counted, w.since = notice[t][r].since, w.at = notice[t][r].at,
           notice' = [notice EXCEPT ![t][r] = w],
           raced' = raced \cup {<<r, i>> : i \in Overlapping(t, r, counted)},
           UNCHANGED <<lead, ownerOf, stamp, leadNotice, told>>
    PROVE  LeadInv'
<1>0. LeadTypes /\ LeadTimes /\ Ledger
  BY DEF LeadInv
<1>1. notice[t][r] \in NoticeRow /\ counted \subseteq LeadIds /\ RowTimes(t, r)
  BY <1>0 DEF LeadTypes, Unreported, LeadTimes
<1>2. /\ w \in NoticeRow /\ w.step = "counted" /\ w.counts = counted
      /\ w.since = notice[t][r].since /\ w.at = notice[t][r].at /\ w.at = 0
      /\ notice[t][r].counts = {} /\ w.since <= leadNotice[r]
  BY <1>1 DEF RowTimes
<1>3. /\ notice' \in [Transactions -> [Recipients -> NoticeRow]]
      /\ \A u \in Transactions, x \in Recipients :
            notice'[u][x] = IF u = t /\ x = r THEN w ELSE notice[u][x]
  BY <1>0, RowSet
<1>4. LeadTypes'
  BY <1>0, <1>3 DEF LeadTypes
<1>5. LeadsStay
  BY <1>0 DEF LeadTypes, LeadsStay
<1>6. stamp \in Nat /\ leadNotice \in [Recipients -> Nat]
  BY <1>0 DEF LeadTypes
<1>7. RowTimes(t, r)'
  <2>1. \A i \in counted : lead[i].state # "none"
    BY DEF Unreported, Concerns
  <2>2. notice'[t][r] = w /\ 0 <= stamp
    BY <1>3, <1>6
  <2> QED BY <1>2, <2>1, <2>2 DEF RowTimes
<1>8. \A u \in Transactions, x \in Recipients : RowTimes(u, x)'
  <2> TAKE u \in Transactions, x \in Recipients
  <2>1. CASE u = t /\ x = r
    BY <1>7, <2>1
  <2>2. CASE ~(u = t /\ x = r)
    <3>1. /\ notice'[u][x] = notice[u][x] /\ leadNotice'[x] \in Nat /\ leadNotice[x] <= leadNotice'[x]
          /\ stamp' \in Nat /\ stamp <= stamp'
      BY <1>3, <1>6, <2>2
    <3>2. RowTimes(u, x)
      BY <1>0 DEF LeadTimes
    <3> QED BY <1>0, <1>5, <3>1, <3>2, RowTimesKept
  <2> QED BY <2>1, <2>2
<1>9. \A i \in LeadIds : lead'[i].state # "open" => \A x \in Recipients : notice'[i][x].step = "none"
  BY <1>0, <1>3 DEF LeadTimes, Transactions
<1>10. LeadTimes'
  BY <1>0, <1>8, <1>9 DEF LeadTimes
<1>11. ASSUME NEW i \in LeadIds, lead[i].state # "none", <<r, i>> \notin raced' PROVE Account(i, r)'
  <2>1. Account(i, r) /\ i \notin Overlapping(t, r, counted)
    BY <1>0, <1>11 DEF Ledger
  <2>2. CASE i \in counted
    <3>1. /\ \A u \in Transactions \ {t} : i \notin notice[u][r].counts
          /\ ~(lead[i].at <= leadNotice[r])
      BY <2>1, <2>2 DEF Overlapping
    <3>2. told[r][i] = 0
      BY <1>0, <3>1 DEF LeadTimes
    <3>3. \A u \in Transactions : i \in notice'[u][r].counts => u = t
      BY <1>3, <3>1
    <3>4. Once(i, r)'
      BY <3>2, <3>3 DEF Once
    <3>5. Accounted(i, r)'
      BY <1>2, <1>3, <2>2 DEF Accounted
    <3> QED BY <3>4, <3>5 DEF Account
  <2>3. CASE i \notin counted
    <3>1. \A u \in Transactions : i \in notice'[u][r].counts <=> i \in notice[u][r].counts
      BY <1>2, <1>3, <2>3
    <3>2. Once(i, r)'
      BY <2>1, <3>1 DEF Account, Once
    <3>3. Concerns(i, r)' => Concerns(i, r)
      BY DEF Concerns, RecipientsOf
    <3>4. Concerns(i, r) => Accounted(i, r)
      <4> SUFFICES ASSUME Concerns(i, r), Ahead(i, r) PROVE FALSE
        BY <2>1 DEF Account
      <4>1. lead[i].at > notice[t][r].since
        <5>1. notice[t][r].since \in Nat /\ leadNotice[r] \in Nat /\ lead[i].at \in Nat
          BY <1>0, <1>1 DEF LeadTypes, LeadRow, NoticeRow
        <5> QED BY <1>2, <5>1 DEF Ahead
      <4>2. ~(lead[i].state = "in" \/ i = t)
        BY <2>3, <4>1 DEF Unreported
      <4>3. lead[i].state = "open"
        BY <1>0, <1>11, <4>2 DEF LeadTypes, LeadRow
      <4> QED BY <2>1, <4>2, <4>3 DEF Overlapping
    <3>5. Accounted(i, r) => Accounted(i, r)'
      BY <3>1 DEF Accounted
    <3> QED BY <3>2, <3>3, <3>4, <3>5 DEF Account
  <2> QED BY <2>2, <2>3
<1>12. Ledger'
  <2> SUFFICES ASSUME NEW i \in LeadIds, NEW x \in Recipients, lead[i].state # "none", <<x, i>> \notin raced'
               PROVE  Account(i, x)'
    BY DEF Ledger
  <2>1. CASE x = r
    BY <1>11, <2>1
  <2>2. CASE x # r
    <3>1. Account(i, x) /\ \A u \in Transactions : notice'[u][x] = notice[u][x]
      BY <1>0, <1>3, <2>2 DEF Ledger
    <3>2. Concerns(i, x)' => Concerns(i, x)
      BY DEF Concerns, RecipientsOf
    <3> QED BY <3>1, <3>2, AccountKept
  <2> QED BY <2>1, <2>2
<1> QED BY <1>4, <1>10, <1>12 DEF LeadInv

\* A commit turns what the transaction has counted into what has been told.
LEMMA CommitStep ==
    ASSUME LeadInv, NEW t \in Transactions, CommitNotices(t), LeadsStay,
           \A i \in LeadIds : lead[i].state = "none" => lead'[i] = lead[i],
           \A i \in LeadIds : lead'[i].spam = lead[i].spam,
           \A i \in LeadIds \ {t} : lead'[i].state = lead[i].state,
           UNCHANGED <<ownerOf, stamp, raced>>
    PROVE  LeadInv'
<1>0. LeadTypes /\ LeadTimes /\ Ledger
  BY DEF LeadInv
<1>1. PICK f \in [Recipients -> NoticeRow] : /\ f = [r \in Recipients |-> NoNotice]
                                             /\ notice' = [notice EXCEPT ![t] = f]
  BY NoticeRows DEF CommitNotices
<1>2. /\ notice' \in [Transactions -> [Recipients -> NoticeRow]]
      /\ \A u \in Transactions, x \in Recipients :
            notice'[u][x] = IF u = t THEN NoNotice ELSE notice[u][x]
  BY <1>0, <1>1, RowsSet
<1>3. \A r \in Recipients : /\ notice[t][r].step \in {"none", "queued"} /\ RowTimes(t, r)
                            /\ notice[t][r] \in NoticeRow /\ notice[t][r].at \in Nat
                            /\ leadNotice[r] \in Nat
  BY <1>0 DEF CommitNotices, LeadTimes, LeadTypes, NoticeRow
<1>4. /\ leadNotice' \in [Recipients -> Nat]
      /\ \A r \in Recipients : /\ leadNotice'[r] = IF notice[t][r].at > leadNotice[r] THEN notice[t][r].at
                                                   ELSE leadNotice[r]
                               /\ leadNotice[r] <= leadNotice'[r] /\ notice[t][r].at <= leadNotice'[r]
  BY <1>3 DEF CommitNotices
<1>5. /\ told' \in [Recipients -> [LeadIds -> Nat]]
      /\ \A r \in Recipients, i \in LeadIds :
            told'[r][i] = IF i \in notice[t][r].counts THEN told[r][i] + 1 ELSE told[r][i]
  BY <1>0 DEF CommitNotices, LeadTypes
<1>6. LeadTypes'
  BY <1>0, <1>2, <1>4, <1>5 DEF LeadTypes, LeadsStay
<1>7. stamp \in Nat /\ \A i \in LeadIds : lead[i].at \in Nat /\ lead'[i].at = lead[i].at
  BY <1>0 DEF LeadTypes, LeadRow, LeadsStay
<1>8. \A r \in Recipients : leadNotice'[r] <= stamp'
  BY <1>0, <1>3, <1>4 DEF LeadTimes, RowTimes
<1>9. \A u \in Transactions, x \in Recipients : RowTimes(u, x)'
  <2> TAKE u \in Transactions, x \in Recipients
  <2>1. CASE u = t
    <3>1. notice'[u][x] = NoNotice
      BY <1>2, <2>1
    <3> QED BY <1>7, <3>1, NoticeRows DEF RowTimes
  <2>2. CASE u # t
    <3>1. /\ notice'[u][x] = notice[u][x] /\ leadNotice'[x] \in Nat /\ leadNotice[x] <= leadNotice'[x]
          /\ stamp' \in Nat /\ stamp <= stamp'
      BY <1>2, <1>4, <1>7, <2>2
    <3>2. RowTimes(u, x)
      BY <1>0 DEF LeadTimes
    <3> QED BY <1>0, <3>1, <3>2, RowTimesKept
  <2> QED BY <2>1, <2>2
<1>10. \A i \in LeadIds : lead'[i].state # "open" => \A x \in Recipients : notice'[i][x].step = "none"
  <2> SUFFICES ASSUME NEW i \in LeadIds, lead'[i].state # "open", NEW x \in Recipients
               PROVE  notice'[i][x].step = "none"
    OBVIOUS
  <2>1. i \in Transactions
    BY DEF Transactions
  <2>2. CASE i = t
    BY <1>2, <2>1, <2>2, NoticeRows
  <2>3. CASE i # t
    BY <1>0, <1>2, <2>1, <2>3 DEF LeadTimes
  <2> QED BY <2>2, <2>3
<1>11. \A r \in Recipients, i \in LeadIds :
          told'[r][i] # 0 => lead'[i].state # "none" /\ lead'[i].at <= leadNotice'[r]
  <2> SUFFICES ASSUME NEW r \in Recipients, NEW i \in LeadIds, told'[r][i] # 0
               PROVE  lead'[i].state # "none" /\ lead'[i].at <= leadNotice'[r]
    OBVIOUS
  <2>1. CASE i \in notice[t][r].counts
    <3>1. notice[t][r].step = "queued"
      BY <1>3, <2>1 DEF RowTimes
    <3>2. lead[i].state # "none" /\ lead[i].at < notice[t][r].at
      BY <1>3, <2>1, <3>1 DEF RowTimes
    <3>3. notice[t][r].at <= leadNotice'[r] /\ leadNotice'[r] \in Nat /\ notice[t][r].at \in Nat
      BY <1>3, <1>4
    <3> QED BY <1>7, <3>2, <3>3 DEF LeadsStay
  <2>2. CASE i \notin notice[t][r].counts
    <3>1. told[r][i] # 0
      BY <1>5, <2>2
    <3>2. lead[i].state # "none" /\ lead[i].at <= leadNotice[r]
      BY <1>0, <3>1 DEF LeadTimes
    <3>3. leadNotice[r] <= leadNotice'[r] /\ leadNotice'[r] \in Nat /\ leadNotice[r] \in Nat
      BY <1>3, <1>4
    <3> QED BY <1>7, <3>2, <3>3 DEF LeadsStay
  <2> QED BY <2>1, <2>2
<1>12. LeadTimes'
  <2>1. \A i \in LeadIds : lead'[i].at <= stamp'
    BY <1>0, <1>7 DEF LeadTimes
  <2>2. \A i \in LeadIds : lead'[i].state # "none" => lead'[i].listing \in LeadListings
    BY <1>0 DEF LeadTimes, LeadsStay
  <2> QED BY <2>1, <2>2, <1>8, <1>9, <1>10, <1>11 DEF LeadTimes
<1>13. Ledger'
  <2> SUFFICES ASSUME NEW i \in LeadIds, NEW r \in Recipients, lead'[i].state # "none", <<r, i>> \notin raced
               PROVE  Account(i, r)'
    BY DEF Ledger
  <2>1. lead[i].state # "none" /\ Account(i, r)
    BY <1>0 DEF Ledger
  <2>2. told[r][i] \in Nat /\ Once(i, r)
    BY <1>0, <2>1 DEF LeadTypes, Account
  <2>3. \A u \in Transactions : i \in notice'[u][r].counts <=> u # t /\ i \in notice[u][r].counts
    BY <1>2, NoticeRows
  <2>4. i \in notice[t][r].counts => told'[r][i] = 1 /\ told[r][i] = 0
    BY <1>5, <2>2 DEF Once
  <2>5. i \notin notice[t][r].counts => told'[r][i] = told[r][i]
    BY <1>5
  <2>6. Once(i, r)'
    <3>1. CASE i \in notice[t][r].counts
      <4>1. \A u \in Transactions : i \notin notice'[u][r].counts
        BY <2>2, <2>3, <3>1 DEF Once
      <4> QED BY <2>4, <3>1, <4>1 DEF Once
    <3>2. CASE i \notin notice[t][r].counts
      BY <2>2, <2>3, <2>5, <3>2 DEF Once
    <3> QED BY <3>1, <3>2
  <2>7. Concerns(i, r)' => Concerns(i, r)
    BY <2>1 DEF Concerns, RecipientsOf, LeadsStay
  <2>8. Accounted(i, r) => Accounted(i, r)'
    BY <2>2, <2>3, <2>4, <2>5 DEF Accounted, Once
  <2>9. Ahead(i, r) => Ahead(i, r)'
    <3> SUFFICES ASSUME Ahead(i, r) PROVE Ahead(i, r)'
      OBVIOUS
    <3>1. leadNotice'[r] < lead'[i].at
      BY <1>3, <1>4, <1>7 DEF Ahead, RowTimes
    <3>2. ASSUME NEW u \in Transactions
          PROVE  /\ notice'[u][r].step # "counted"
                 /\ notice'[u][r].step = "queued" => notice'[u][r].at < lead'[i].at
      BY <1>2, <1>7, NoticeRows DEF Ahead
    <3> QED BY <3>1, <3>2 DEF Ahead
  <2> QED BY <2>1, <2>6, <2>7, <2>8, <2>9 DEF Account
<1> QED BY <1>6, <1>12, <1>13 DEF LeadInv

\* A transaction with nothing under way draws up whom it has to tell.
LEMMA TodoStep ==
    ASSUME LeadTypes, LeadTimes, NEW t \in Transactions,
           \A r \in Recipients : notice[t][r].step = "none",
           NEW f \in [Recipients -> {ToTell, NoNotice}],
           notice' = [notice EXCEPT ![t] = f]
    PROVE  /\ notice' \in [Transactions -> [Recipients -> NoticeRow]]
           /\ \A u \in Transactions, x \in Recipients :
                 notice'[u][x] = IF u = t THEN f[x] ELSE notice[u][x]
           /\ \A x \in Recipients : /\ f[x].counts = {} /\ f[x].at = 0 /\ f[x].step \in {"none", "todo"}
                                    /\ notice[t][x].counts = {}
<1>1. f \in [Recipients -> NoticeRow]
  BY NoticeRows
<1>2. \A x \in Recipients : notice[t][x].counts = {}
  BY DEF LeadTimes, RowTimes
<1>3. \A x \in Recipients : f[x].counts = {} /\ f[x].at = 0 /\ f[x].step \in {"none", "todo"}
  BY NoticeRows
<1> QED BY <1>1, <1>2, <1>3, RowsSet

LEMMA CreateStep ==
    ASSUME LeadInv, NEW i \in LeadIds, NEW l \in LeadListings, NEW spam \in BOOLEAN, CreateLead(i, l, spam)
    PROVE  LeadInv'
<1>0. LeadTypes /\ LeadTimes /\ Ledger
  BY DEF LeadInv
<1>1. PICK row : row = [state |-> "open", listing |-> l, at |-> stamp + 1, spam |-> spam]
  OBVIOUS
<1>2. /\ lead' = [lead EXCEPT ![i] = row] /\ stamp' = stamp + 1 /\ lead[i].state = "none"
      /\ UNCHANGED <<ownerOf, leadNotice, told>>
  BY <1>1 DEF CreateLead
<1>3. stamp \in Nat /\ row \in LeadRow /\ row.state = "open" /\ row.at = stamp + 1 /\ row.listing = l
  BY <1>0, <1>1 DEF LeadTypes, LeadRow
<1>4. /\ lead' \in [LeadIds -> LeadRow]
      /\ \A j \in LeadIds : lead'[j] = IF j = i THEN row ELSE lead[j]
  BY <1>0, <1>2, <1>3 DEF LeadTypes
<1>5. LeadsStay
  BY <1>2, <1>4 DEF LeadsStay
<1>6. i \in Transactions /\ \A r \in Recipients : notice[i][r].step = "none"
  BY <1>0, <1>2 DEF LeadTimes, Transactions
<1>7. PICK f \in [Recipients -> {ToTell, NoNotice}] : notice' = [notice EXCEPT ![i] = f]
  <2>1. [r \in Recipients |-> IF ~spam /\ r \in RecipientsOf(l) THEN ToTell ELSE NoNotice]
          \in [Recipients -> {ToTell, NoNotice}]
    OBVIOUS
  <2> QED BY <2>1 DEF CreateLead
<1>8. /\ notice' \in [Transactions -> [Recipients -> NoticeRow]]
      /\ \A u \in Transactions, x \in Recipients :
            notice'[u][x] = IF u = i THEN f[x] ELSE notice[u][x]
      /\ \A x \in Recipients : /\ f[x].counts = {} /\ f[x].at = 0 /\ f[x].step \in {"none", "todo"}
                               /\ notice[i][x].counts = {}
  BY <1>0, <1>6, <1>7, TodoStep
<1>9. LeadTypes'
  BY <1>0, <1>2, <1>3, <1>4, <1>8 DEF LeadTypes
<1>10. \A u \in Transactions, x \in Recipients : RowTimes(u, x)'
  <2> TAKE u \in Transactions, x \in Recipients
  <2>1. CASE u = i
    <3>1. /\ notice'[u][x].counts = {} /\ notice'[u][x].at = 0
          /\ notice'[u][x].step \in {"none", "todo"} /\ 0 <= stamp'
      BY <1>2, <1>3, <1>8, <2>1
    <3> QED BY <3>1 DEF RowTimes
  <2>2. CASE u # i
    <3>1. /\ notice'[u][x] = notice[u][x] /\ leadNotice'[x] \in Nat /\ leadNotice[x] <= leadNotice'[x]
          /\ stamp' \in Nat /\ stamp <= stamp'
      BY <1>0, <1>2, <1>3, <1>8, <2>2 DEF LeadTypes
    <3>2. RowTimes(u, x)
      BY <1>0 DEF LeadTimes
    <3> QED BY <1>0, <1>5, <3>1, <3>2, RowTimesKept
  <2> QED BY <2>1, <2>2
<1>11. LeadTimes'
  <2>1. \A j \in LeadIds : lead'[j].at <= stamp'
    BY <1>0, <1>2, <1>3, <1>4 DEF LeadTimes, LeadTypes, LeadRow
  <2>2. \A j \in LeadIds : lead'[j].state # "none" => lead'[j].listing \in LeadListings
    BY <1>0, <1>3, <1>4 DEF LeadTimes
  <2>3. \A j \in LeadIds : lead'[j].state # "open" => \A x \in Recipients : notice'[j][x].step = "none"
    BY <1>0, <1>3, <1>4, <1>8 DEF LeadTimes, Transactions
  <2>4. \A x \in Recipients : leadNotice'[x] <= stamp'
    BY <1>0, <1>2, <1>3 DEF LeadTimes, LeadTypes
  <2>5. \A x \in Recipients, j \in LeadIds :
           told'[x][j] # 0 => lead'[j].state # "none" /\ lead'[j].at <= leadNotice'[x]
    BY <1>0, <1>2, <1>4 DEF LeadTimes
  <2> QED BY <1>10, <2>1, <2>2, <2>3, <2>4, <2>5 DEF LeadTimes
<1>12. \A u \in Transactions, x \in Recipients : notice'[u][x].counts = notice[u][x].counts
  BY <1>8
<1>13. ASSUME NEW r \in Recipients, <<r, i>> \notin raced' PROVE Account(i, r)'
  <2>1. \A u \in Transactions : notice[u][r].step # "counted"
    BY <1>13 DEF CreateLead
  <2>2. told'[r][i] = 0
    BY <1>0, <1>2 DEF LeadTimes
  <2>3. \A u \in Transactions : i \notin notice'[u][r].counts
    BY <1>0, <1>2, <1>12 DEF LeadTimes, RowTimes
  <2>4. Once(i, r)'
    BY <2>2, <2>3 DEF Once
  <2>5. leadNotice'[r] < lead'[i].at
    BY <1>0, <1>2, <1>3, <1>4 DEF LeadTimes, LeadTypes
  <2>6. ASSUME NEW u \in Transactions
        PROVE  /\ notice'[u][r].step # "counted"
               /\ notice'[u][r].step = "queued" => notice'[u][r].at < lead'[i].at
    <3>1. notice[u][r].at <= stamp /\ notice[u][r].at \in Nat
      BY <1>0 DEF LeadTimes, RowTimes, LeadTypes, NoticeRow
    <3>2. notice'[u][r].step \in {"none", "todo"} \/ notice'[u][r] = notice[u][r]
      BY <1>8
    <3> QED BY <1>3, <1>4, <2>1, <3>1, <3>2
  <2>7. Ahead(i, r)'
    BY <2>5, <2>6 DEF Ahead
  <2> QED BY <2>4, <2>7 DEF Account
<1>14. Ledger'
  <2> SUFFICES ASSUME NEW j \in LeadIds, NEW r \in Recipients, lead'[j].state # "none", <<r, j>> \notin raced'
               PROVE  Account(j, r)'
    BY DEF Ledger
  <2>1. CASE j = i
    BY <1>13, <2>1
  <2>2. CASE j # i
    <3>1. Account(j, r) /\ lead'[j] = lead[j]
      BY <1>0, <1>4, <2>2 DEF Ledger, CreateLead
    <3>2. Concerns(j, r)' => Concerns(j, r)
      BY <1>2, <3>1 DEF Concerns, RecipientsOf
    <3>3. \A u \in Transactions : notice'[u][r].step \in {"counted", "queued"} =>
             notice'[u][r] = notice[u][r] \/ notice[u][r].step = "counted"
      BY <1>8
    <3> QED BY <1>2, <1>12, <3>1, <3>2, <3>3, AccountKept
  <2> QED BY <2>1, <2>2
<1> QED BY <1>9, <1>11, <1>14 DEF LeadInv

LEMMA BeginFlushStep ==
    ASSUME LeadInv, BeginFlush
    PROVE  LeadInv'
<1>0. LeadTypes /\ LeadTimes /\ Ledger
  BY DEF LeadInv
<1>1. UNCHANGED <<lead, ownerOf, stamp, leadNotice, told, raced>>
  BY DEF BeginFlush
<1>2. /\ Flush \in Transactions /\ \A r \in Recipients : notice[Flush][r].step = "none"
      /\ \E f \in [Recipients -> {ToTell, NoNotice}] : notice' = [notice EXCEPT ![Flush] = f]
  <2>1. PICK concerned : notice' = [notice EXCEPT ![Flush] = [r \in Recipients |->
                                      IF r \in concerned THEN ToTell ELSE NoNotice]]
    BY DEF BeginFlush
  <2>2. [r \in Recipients |-> IF r \in concerned THEN ToTell ELSE NoNotice] \in [Recipients -> {ToTell, NoNotice}]
    OBVIOUS
  <2> QED BY <2>1, <2>2 DEF BeginFlush, Transactions
<1>3. PICK f \in [Recipients -> {ToTell, NoNotice}] : notice' = [notice EXCEPT ![Flush] = f]
  BY <1>2
<1>4. /\ notice' \in [Transactions -> [Recipients -> NoticeRow]]
      /\ \A u \in Transactions, x \in Recipients :
            notice'[u][x] = IF u = Flush THEN f[x] ELSE notice[u][x]
      /\ \A x \in Recipients : /\ f[x].counts = {} /\ f[x].at = 0 /\ f[x].step \in {"none", "todo"}
                               /\ notice[Flush][x].counts = {}
  BY <1>0, <1>2, <1>3, TodoStep
<1>5. LeadTypes'
  BY <1>0, <1>1, <1>4 DEF LeadTypes
<1>6. LeadsStay /\ stamp \in Nat
  BY <1>0, <1>1 DEF LeadsStay, LeadTypes
<1>7. \A u \in Transactions, x \in Recipients : RowTimes(u, x)'
  <2> TAKE u \in Transactions, x \in Recipients
  <2>1. CASE u = Flush
    <3>1. /\ notice'[u][x].counts = {} /\ notice'[u][x].at = 0
          /\ notice'[u][x].step \in {"none", "todo"} /\ 0 <= stamp'
      BY <1>1, <1>4, <1>6, <2>1
    <3> QED BY <3>1 DEF RowTimes
  <2>2. CASE u # Flush
    <3>1. /\ notice'[u][x] = notice[u][x] /\ leadNotice'[x] \in Nat /\ leadNotice[x] <= leadNotice'[x]
          /\ stamp' \in Nat /\ stamp <= stamp'
      BY <1>0, <1>1, <1>4, <2>2 DEF LeadTypes
    <3>2. RowTimes(u, x)
      BY <1>0 DEF LeadTimes
    <3> QED BY <1>0, <1>6, <3>1, <3>2, RowTimesKept
  <2> QED BY <2>1, <2>2
<1>8. LeadTimes'
  <2>1. \A i \in LeadIds : i \in Transactions /\ i # Flush
    BY LeadsAssumption DEF Transactions
  <2>2. \A i \in LeadIds : lead'[i].state # "open" => \A x \in Recipients : notice'[i][x].step = "none"
    BY <1>0, <1>1, <1>4, <2>1 DEF LeadTimes
  <2> QED BY <1>0, <1>1, <1>7, <2>2 DEF LeadTimes
<1>9. Ledger'
  <2> SUFFICES ASSUME NEW i \in LeadIds, NEW r \in Recipients, Account(i, r) PROVE Account(i, r)'
    BY <1>0, <1>1 DEF Ledger
  <2>1. Concerns(i, r)' => Concerns(i, r)
    BY <1>1 DEF Concerns, RecipientsOf
  <2>2. \A u \in Transactions : notice'[u][r].counts = notice[u][r].counts
    BY <1>4
  <2>3. \A u \in Transactions : notice'[u][r].step \in {"counted", "queued"} =>
           notice'[u][r] = notice[u][r] \/ notice[u][r].step = "counted"
    BY <1>4
  <2> QED BY <1>1, <2>1, <2>2, <2>3, AccountKept
<1> QED BY <1>5, <1>8, <1>9 DEF LeadInv

\* Marking as spam, and a change of owner: fewer leads concern a recipient, or the pair is raced.
LEMMA ConcernStep ==
    ASSUME LeadInv, LeadsStay,
           \A i \in LeadIds : lead'[i].state = lead[i].state /\ lead'[i].at = lead[i].at,
           \A i \in LeadIds, r \in Recipients :
              lead[i].state # "none" /\ <<r, i>> \notin raced' =>
                 <<r, i>> \notin raced /\ (Concerns(i, r)' => Concerns(i, r)),
           ownerOf' \in [LeadListings -> LeadOwners \cup {Nobody}],
           UNCHANGED <<stamp, leadNotice, notice, told>>
    PROVE  LeadInv'
<1>0. LeadTypes /\ LeadTimes /\ Ledger
  BY DEF LeadInv
<1>1. LeadTypes'
  BY <1>0 DEF LeadTypes, LeadsStay
<1>2. \A u \in Transactions, x \in Recipients : RowTimes(u, x)'
  <2> TAKE u \in Transactions, x \in Recipients
  <2>1. RowTimes(u, x) /\ stamp' \in Nat /\ stamp <= stamp' /\ leadNotice'[x] \in Nat /\ leadNotice[x] <= leadNotice'[x]
    BY <1>0 DEF LeadTimes, LeadTypes
  <2> QED BY <1>0, <2>1, RowTimesKept
<1>3. LeadTimes'
  BY <1>0, <1>2 DEF LeadTimes, LeadsStay
<1>4. Ledger'
  <2> SUFFICES ASSUME NEW i \in LeadIds, NEW r \in Recipients, lead'[i].state # "none", <<r, i>> \notin raced'
               PROVE  Account(i, r)'
    BY DEF Ledger
  <2>1. Account(i, r) /\ (Concerns(i, r)' => Concerns(i, r)) /\ lead'[i].at = lead[i].at
    BY <1>0 DEF Ledger
  <2> QED BY <2>1, AccountKept
<1> QED BY <1>1, <1>3, <1>4 DEF LeadInv

LEMMA LeadStep == LeadInv /\ [LeadNext]_leadVars => LeadInv'
<1> SUFFICES ASSUME LeadInv, [LeadNext]_leadVars PROVE LeadInv'
  OBVIOUS
<1>0. LeadTypes /\ LeadTimes
  BY DEF LeadInv
<1>1. ASSUME NEW t \in Transactions, NEW r \in Recipients, ReadLast(t, r) PROVE LeadInv'
  <2>1. notice[t][r].counts = {} /\ leadNotice[r] \in Nat
    BY <1>0, <1>1 DEF ReadLast, LeadTimes, RowTimes, LeadTypes
  <2>2. PICK w : w = IF r \in recent THEN NoNotice ELSE [ToTell EXCEPT !.step = "read", !.since = Since(r)]
    OBVIOUS
  <2>3. /\ w \in NoticeRow /\ w.counts = {} /\ w.at = 0 /\ w.step \in {"none", "read"}
        /\ w.step = "read" => w.since = leadNotice[r]
    BY <2>1, <2>2, NoticeRows DEF ToTell, NoNotice, NoticeRow, Steps, Since
  <2>4. notice' = [notice EXCEPT ![t][r] = w] /\ UNCHANGED <<lead, ownerOf, stamp, leadNotice, told, raced>>
    BY <1>1, <2>2 DEF ReadLast
  <2>5. notice[t][r].step = "todo" /\ stamp' = stamp
    BY <1>1 DEF ReadLast
  <2>6. /\ w.counts = notice[t][r].counts /\ w.step \in {"none", "todo", "read"}
        /\ w.step \in {"read", "counted"} => w.since <= leadNotice[r]
        /\ IF w.step = "queued" THEN w.at = stamp + 1 /\ stamp' = stamp + 1 ELSE w.at = 0 /\ stamp' = stamp
    BY <2>1, <2>3, <2>5
  <2> QED BY <2>3, <2>4, <2>5, <2>6, RowMoves
<1>2. ASSUME NEW t \in Transactions, NEW r \in Recipients, CountLeads(t, r) PROVE LeadInv'
  <2>1. PICK counted : counted = Unreported(r, t, notice[t][r].since)
    OBVIOUS
  <2>2. notice[t][r].step = "read" /\ UNCHANGED <<lead, ownerOf, stamp, leadNotice, told>>
    BY <1>2 DEF CountLeads
  <2>3. CASE counted = {}
    <3>1. notice' = [notice EXCEPT ![t][r] = NoNotice] /\ raced' = raced
      BY <1>2, <2>1, <2>3, <1>0 DEF CountLeads, LeadTypes
    <3>2. notice[t][r].counts = {}
      BY <1>0, <2>2 DEF LeadTimes, RowTimes
    <3> QED BY <2>2, <3>1, <3>2, NoticeRows, RowMoves
  <2>4. CASE counted # {}
    <3>1. PICK w : w = [notice[t][r] EXCEPT !.step = "counted", !.counts = counted]
      OBVIOUS
    <3>2. /\ notice' = [notice EXCEPT ![t][r] = w]
          /\ raced' = raced \cup {<<r, i>> : i \in Overlapping(t, r, counted)}
      BY <1>0, <1>2, <2>1, <2>4, <3>1 DEF CountLeads, LeadTypes
    <3>3. notice[t][r] \in NoticeRow /\ counted \subseteq LeadIds
      BY <1>0, <2>1 DEF LeadTypes, Unreported
    <3>4. /\ w \in NoticeRow /\ w.step = "counted" /\ w.counts = counted
          /\ w.since = notice[t][r].since /\ w.at = notice[t][r].at
      BY <3>1, <3>3 DEF NoticeRow, Steps
    <3> QED BY <2>1, <2>2, <3>2, <3>4, CountStep
  <2> QED BY <2>3, <2>4
<1>3. ASSUME NEW t \in Transactions, NEW r \in Recipients, QueueNotice(t, r) PROVE LeadInv'
  <2>1. notice[t][r] \in NoticeRow /\ stamp \in Nat
    BY <1>0 DEF LeadTypes
  <2>2. PICK w : w = [notice[t][r] EXCEPT !.step = "queued", !.at = stamp + 1]
    OBVIOUS
  <2>3. w \in NoticeRow /\ w.step = "queued" /\ w.at = stamp + 1 /\ w.counts = notice[t][r].counts
    <3>1. PICK n : n = stamp + 1
      OBVIOUS
    <3>2. PICK row \in NoticeRow : row = notice[t][r]
      BY <2>1
    <3>3. n \in Nat /\ w = [row EXCEPT !.step = "queued", !.at = n]
      BY <2>1, <2>2, <3>1, <3>2
    <3>4. w \in NoticeRow /\ w.step = "queued" /\ w.at = n /\ w.counts = row.counts
      BY <3>3 DEF NoticeRow, Steps
    <3> QED BY <3>1, <3>2, <3>4
  <2>4. /\ notice' = [notice EXCEPT ![t][r] = w] /\ stamp' = stamp + 1 /\ notice[t][r].step = "counted"
        /\ UNCHANGED <<lead, ownerOf, leadNotice, told, raced>>
    BY <1>0, <1>3, <2>2 DEF QueueNotice, LeadTypes
  <2> QED BY <2>3, <2>4, RowMoves
<1>4. ASSUME NEW i \in LeadIds, CommitLead(i) PROVE LeadInv'
  <2>1. /\ lead' = [lead EXCEPT ![i].state = "in"] /\ lead[i].state = "open"
        /\ CommitNotices(i) /\ UNCHANGED <<ownerOf, stamp, raced>>
    BY <1>4 DEF CommitLead
  <2>2. PICK w : w = [lead[i] EXCEPT !.state = "in"]
    OBVIOUS
  <2>3. /\ w \in LeadRow /\ w.state = "in" /\ w.at = lead[i].at /\ w.listing = lead[i].listing
        /\ w.spam = lead[i].spam
    BY <1>0, <2>2 DEF LeadTypes, LeadRow
  <2>4. lead' \in [LeadIds -> LeadRow] /\ \A j \in LeadIds : lead'[j] = IF j = i THEN w ELSE lead[j]
    BY <1>0, <2>1, <2>2, <2>3 DEF LeadTypes
  <2>5. /\ LeadsStay /\ i \in Transactions
        /\ \A j \in LeadIds : lead[j].state = "none" => lead'[j] = lead[j]
        /\ \A j \in LeadIds : lead'[j].spam = lead[j].spam
        /\ \A j \in LeadIds \ {i} : lead'[j].state = lead[j].state
    BY <2>1, <2>3, <2>4 DEF LeadsStay, Transactions
  <2> QED BY <2>1, <2>5, CommitStep
<1>5. CASE CommitFlush
  <2>1. UNCHANGED <<lead, ownerOf, stamp, raced>> /\ CommitNotices(Flush) /\ Flush \in Transactions
    BY <1>5 DEF CommitFlush, Transactions
  <2>2. LeadsStay
    BY <1>0, <2>1 DEF LeadsStay, LeadTypes
  <2> QED BY <2>1, <2>2, CommitStep
<1>6. ASSUME NEW i \in LeadIds, MarkSpam(i) PROVE LeadInv'
  <2>1. /\ lead' = [lead EXCEPT ![i].spam = TRUE]
        /\ UNCHANGED <<ownerOf, stamp, leadNotice, notice, told, raced>>
    BY <1>6 DEF MarkSpam
  <2>2. PICK w : w = [lead[i] EXCEPT !.spam = TRUE]
    OBVIOUS
  <2>3. /\ w \in LeadRow /\ w.state = lead[i].state /\ w.at = lead[i].at /\ w.listing = lead[i].listing
        /\ w.spam
    BY <1>0, <2>2 DEF LeadTypes, LeadRow
  <2>4. lead' \in [LeadIds -> LeadRow] /\ \A j \in LeadIds : lead'[j] = IF j = i THEN w ELSE lead[j]
    BY <1>0, <2>1, <2>2, <2>3 DEF LeadTypes
  <2>5. LeadsStay
    BY <2>3, <2>4 DEF LeadsStay
  <2>6. \A j \in LeadIds, r \in Recipients : Concerns(j, r)' => Concerns(j, r)
    BY <2>1, <2>3, <2>4 DEF Concerns, RecipientsOf
  <2>7. ownerOf' \in [LeadListings -> LeadOwners \cup {Nobody}]
    BY <1>0, <2>1 DEF LeadTypes
  <2> QED BY <2>1, <2>3, <2>4, <2>5, <2>6, <2>7, ConcernStep
<1>7. ASSUME NEW l \in LeadListings, NEW o \in LeadOwners \cup {Nobody}, Handover(l, o) PROVE LeadInv'
  <2>1. /\ ownerOf' = [ownerOf EXCEPT ![l] = o]
        /\ raced' = raced \cup (Recipients \X {i \in LeadIds : lead[i].listing = l})
        /\ UNCHANGED <<lead, stamp, leadNotice, notice, told>>
    BY <1>7 DEF Handover
  <2>2. LeadsStay /\ ownerOf' \in [LeadListings -> LeadOwners \cup {Nobody}]
    BY <1>0, <2>1 DEF LeadsStay, LeadTypes
  <2>3. ASSUME NEW i \in LeadIds, NEW r \in Recipients, lead[i].state # "none", <<r, i>> \notin raced'
        PROVE  <<r, i>> \notin raced /\ (Concerns(i, r)' => Concerns(i, r))
    <3>1. lead[i].listing # l /\ lead[i].listing \in LeadListings
      BY <1>0, <2>1, <2>3 DEF LeadTimes
    <3>2. ownerOf'[lead[i].listing] = ownerOf[lead[i].listing]
      BY <1>0, <2>1, <3>1 DEF LeadTypes
    <3> QED BY <2>1, <2>3, <3>2 DEF Concerns, RecipientsOf
  <2> QED BY <2>1, <2>2, <2>3, ConcernStep
<1>8. CASE UNCHANGED <<lead, ownerOf, stamp, leadNotice, notice, told, raced>>
  <2>1. LeadsStay /\ ownerOf' \in [LeadListings -> LeadOwners \cup {Nobody}]
    BY <1>0, <1>8 DEF LeadsStay, LeadTypes
  <2>2. \A i \in LeadIds, r \in Recipients : Concerns(i, r)' => Concerns(i, r)
    BY <1>8 DEF Concerns, RecipientsOf
  <2> QED BY <1>8, <2>1, <2>2, ConcernStep
<1>9. ASSUME NEW r \in Recipients, WindowPasses(r) PROVE LeadInv'
  BY <1>8, <1>9 DEF WindowPasses
<1>10. ASSUME NEW l \in LeadListings, CloseListing(l) PROVE LeadInv'
  BY <1>8, <1>10 DEF CloseListing
<1>11. CASE UNCHANGED leadVars
  BY <1>8, <1>11 DEF leadVars
<1> QED BY <1>1, <1>2, <1>3, <1>4, <1>5, <1>6, <1>7, <1>9, <1>10, <1>11, CreateStep, BeginFlushStep DEF LeadNext

\* The leads' inductive invariant (directory/leads.py, directory/lead_notices.py): every
\* lead that exists is either younger than each notice its recipient has, has queued or
\* will queue from a count already made, or it is accounted for, by one of them only.
THEOREM LeadInvariance == LeadSpec => []LeadInv
<1>1. LeadInit => LeadInv
  <2> SUFFICES ASSUME LeadInit PROVE LeadInv
    OBVIOUS
  <2>1. NoLead \in LeadRow /\ NoLead.state = "none" /\ NoLead.at = 0
    BY DEF NoLead, LeadRow
  <2>2. LeadTypes
    BY <2>1, NoticeRows DEF LeadInit, LeadTypes
  <2>3. \A t \in Transactions, r \in Recipients : RowTimes(t, r)
    BY NoticeRows DEF LeadInit, RowTimes
  <2>4. LeadTimes
    BY <2>1, <2>3, NoticeRows DEF LeadInit, LeadTimes, Transactions
  <2>5. Ledger
    BY <2>1 DEF LeadInit, Ledger
  <2> QED BY <2>2, <2>4, <2>5 DEF LeadInv
<1>2. LeadInv /\ [LeadNext]_leadVars => LeadInv'
  BY LeadStep
<1> QED BY <1>1, <1>2, PTL DEF LeadSpec

\* A committed lead that concerns a recipient is counted by at most one notice to it, and
\* by an open transaction or the next notice until then, unless an overlapping
\* transaction made its count uncertain (notify_for_lead, flush_tenant).
THEOREM LeadCorrect == LeadSpec => []LeadReported
<1>1. LeadInv => LeadReported
  <2> SUFFICES ASSUME LeadInv, NEW i \in LeadIds, lead[i].state = "in",
                      NEW r \in RecipientsOf(lead[i].listing), <<r, i>> \notin raced
               PROVE  /\ told[r][i] <= 1
                      /\ ~lead[i].spam => \/ told[r][i] = 1
                                          \/ i \in Unreported(r, Flush, Since(r))
                                          \/ \E t \in Transactions : i \in notice[t][r].counts
    BY DEF LeadReported
  <2>1. r \in Recipients
    BY RecipientsType DEF LeadInv, LeadTimes
  <2>2. Account(i, r)
    BY <2>1 DEF LeadInv, Ledger
  <2>3. told[r][i] <= 1
    BY <2>2 DEF Account, Once
  <2>4. ASSUME Concerns(i, r), Ahead(i, r) PROVE i \in Unreported(r, Flush, Since(r))
    <3>1. lead[i].at \in Nat /\ leadNotice[r] \in Nat
      BY <2>1 DEF LeadInv, LeadTypes, LeadRow
    <3> QED BY <2>4, <3>1 DEF Ahead, Unreported, Since
  <2>5. ~lead[i].spam => Concerns(i, r)
    BY DEF Concerns
  <2> QED BY <2>2, <2>3, <2>4, <2>5 DEF Account, Accounted
<1> QED BY <1>1, LeadInvariance, PTL
=============================================================================
