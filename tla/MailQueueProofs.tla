-------------------------- MODULE MailQueueProofs ---------------------------
(***************************************************************************)
(* The safety of module MailQueue for one worker process -- what the       *)
(* advisory lock provides -- and any number of messages, deadlines and     *)
(* crashes.                                                                *)
(*                                                                         *)
(* The argument: what the worker has claimed stays pending until the       *)
(* worker itself records an outcome (HeldInv), so _record's guard always   *)
(* matches; hence a pending row was never accepted by the provider but in  *)
(* a pass that died before it could say so (CountInv).                     *)
(***************************************************************************)
EXTENDS MailQueue, TLAPS

OneWorker == \A v, w \in Workers : v = w

InFlight == {"fetched", "sending", "accepted"}

WorkerInv ==
    \A w \in Workers :
        /\ phase[w] \notin InFlight \cup {"mail"} => batch[w] = {}
        /\ phase[w] \in InFlight => row[w].m \notin batch[w]

HeldInv ==
    \A w \in Workers :
        /\ \A m \in batch[w] : status[m] = "pending"
        /\ phase[w] \in InFlight => /\ status[row[w].m] = "pending"
                                    /\ nextAt[row[w].m] = row[w].nextAt

CountInv ==
    \A m \in Messages :
        status[m] \in {"none", "pending"} =>
            \/ accepted[m] <= crashes
            \/ \E w \in Workers : phase[w] = "accepted" /\ row[w].m = m

Inv == TypeOK /\ WorkerInv /\ HeldInv /\ CountInv /\ SecretLifetime /\ RepeatsNeedCrashes

-----------------------------------------------------------------------------
\* A worker that fetched nothing has a row all the same: Messages is not empty.
LEMMA NoRowType == NoRow \in Row
  <1>1. PICK m \in Messages : TRUE
    BY MailAssumption
  <1>2. (CHOOSE n \in Messages : TRUE) \in Messages
    BY <1>1
  <1> QED
    BY <1>2 DEF NoRow, Row

\* _record writes a status, a body and a schedule of the right types.
LEMMA RecordType ==
  ASSUME TypeOK, NEW w \in Workers, NEW st \in {"pending", "sent", "dead", "expired"},
         NEW at \in 0 .. MaxClock + Visibility, Record(w, st, at)
  PROVE  /\ status' \in [Messages -> {"none", "pending"} \cup Terminal]
         /\ body' \in [Messages -> BOOLEAN]
         /\ nextAt' \in [Messages -> 0 .. MaxClock + Visibility]
  <1>1. row[w].m \in Messages
    BY DEF TypeOK, Row
  <1>2. /\ status' \in [Messages -> {"none", "pending"} \cup Terminal]
        /\ nextAt' \in [Messages -> 0 .. MaxClock + Visibility]
    BY <1>1 DEF Record, TypeOK, Terminal
  <1>3. BodyAfter(row[w].m, st) \in BOOLEAN
    BY DEF BodyAfter
  <1>4. body' \in [Messages -> BOOLEAN]
    BY <1>1, <1>3 DEF Record, TypeOK
  <1> QED
    BY <1>2, <1>4

\* The steps that end an attempt, and the outcome each of them records.
Outcome(w) == Expire(w) \/ Unconfigured(w) \/ RecordSent(w) \/ RecordFailed(w)

\* Each outcome of attempt_message is one _record of the row the worker fetched.
LEMMA OutcomeRecords ==
  ASSUME TypeOK, NEW w \in Workers, Outcome(w)
  PROVE  /\ phase[w] \in InFlight /\ Recorded(w) /\ UNCHANGED accepted
         /\ \E st \in {"pending", "sent", "dead", "expired"}, at \in 0 .. MaxClock + Visibility :
               Record(w, st, at) /\ (st = "pending" => phase[w] # "accepted")
  <1>1. row[w].m \in Messages
    BY DEF TypeOK, Row
  <1>2. nextAt[row[w].m] \in 0 .. MaxClock + Visibility
    BY <1>1 DEF TypeOK
  <1>3. now[w] \in Nat
    BY MailAssumption DEF TypeOK
  <1>4. CASE Expire(w)
    BY <1>2, <1>3, <1>4 DEF Expire, InFlight
  <1>5. CASE Unconfigured(w)
    <2>1. now[w] + Recheck \in 0 .. MaxClock + Visibility
      BY <1>2, <1>3, <1>5, MailAssumption DEF Unconfigured
    <2> QED
      BY <1>5, <2>1 DEF Unconfigured, InFlight
  <1>6. CASE RecordSent(w)
    BY <1>2, <1>3, <1>6 DEF RecordSent, InFlight
  <1>7. CASE RecordFailed(w)
    <2>1. phase[w] = "sending" /\ Recorded(w) /\ UNCHANGED accepted
      BY <1>7 DEF RecordFailed
    <2>2. CASE Record(w, "dead", nextAt[row[w].m])
      BY <1>2, <1>3, <2>1, <2>2 DEF InFlight
    <2>3. ASSUME NEW delay \in Backoff, now[w] + delay <= MaxClock,
                 Record(w, "pending", now[w] + delay)
          PROVE  \E st \in {"pending", "sent", "dead", "expired"}, at \in 0 .. MaxClock + Visibility :
                    Record(w, st, at) /\ (st = "pending" => phase[w] # "accepted")
      <3>1. now[w] + delay \in 0 .. MaxClock + Visibility
        BY <1>2, <1>3, <2>3, MailAssumption DEF Backoff
      <3> QED
        BY <2>1, <2>3, <3>1
    <2> QED
      BY <1>7, <2>1, <2>2, <2>3 DEF RecordFailed, InFlight
  <1> QED
    BY <1>4, <1>5, <1>6, <1>7 DEF Outcome

\* The empty queue and the idle workers have their types.
LEMMA TypeInit == Init => TypeOK
  BY MailAssumption, NoRowType DEF Init, TypeOK

\* TypeOK is inductive by itself.
LEMMA TypeStep == TypeOK /\ [Next]_vars => TypeOK'
  <1> SUFFICES ASSUME TypeOK, [Next]_vars PROVE TypeOK'
    OBVIOUS
  <1> USE MailAssumption
  <1>1. CASE Tick
    BY <1>1 DEF Tick, TypeOK, message, worker
  <1>2. CASE Configure
    <2>1. configured' \in BOOLEAN
      BY <1>2 DEF Configure
    <2> QED
      BY <1>2, <2>1 DEF Configure, TypeOK, message, worker
  <1>3. ASSUME NEW m \in Messages, Enqueue(m) PROVE TypeOK'
    BY <1>3 DEF Enqueue, TypeOK, worker
  <1>4. ASSUME NEW w \in Workers, Crash(w) PROVE TypeOK'
    BY <1>4, NoRowType DEF Crash, TypeOK, message
  <1>5. ASSUME NEW w \in Workers, StartPass(w) \/ EndPass(w) \/ Send(w) PROVE TypeOK'
    BY <1>5 DEF StartPass, EndPass, Send, TypeOK, message
  <1>6. ASSUME NEW w \in Workers, Claim(w) PROVE TypeOK'
    BY <1>6 DEF Claim, Chunks, TypeOK
  <1>7. ASSUME NEW w \in Workers, Fetch(w) PROVE TypeOK'
    <2>1. row' \in [Workers -> Row]
      BY <1>7 DEF Fetch, TypeOK, Row
    <2> QED
      BY <1>7, <2>1 DEF Fetch, TypeOK, message
  <1>8. ASSUME NEW w \in Workers, Accept(w) PROVE TypeOK'
    <2>1. row[w].m \in Messages
      BY DEF TypeOK, Row
    <2>2. accepted' \in [Messages -> Nat]
      <3>1. PICK m \in Messages : m = row[w].m
        BY <2>1
      <3>2. accepted' = [accepted EXCEPT ![m] = accepted[m] + 1] /\ accepted \in [Messages -> Nat]
        BY <1>8, <3>1 DEF Accept, TypeOK
      <3> QED
        BY <3>2
    <2> QED
      BY <1>8, <2>2 DEF Accept, TypeOK
  <1>9. ASSUME NEW w \in Workers, Outcome(w) PROVE TypeOK'
    <2>1. /\ status' \in [Messages -> {"none", "pending"} \cup Terminal]
          /\ body' \in [Messages -> BOOLEAN]
          /\ nextAt' \in [Messages -> 0 .. MaxClock + Visibility]
      BY <1>9, OutcomeRecords, RecordType
    <2>2. Recorded(w) /\ UNCHANGED accepted
      BY <1>9, OutcomeRecords
    <2> QED
      BY <2>1, <2>2, NoRowType DEF Recorded, TypeOK
  <1>10. ASSUME NEW w \in Workers, WipeSelect(w) PROVE TypeOK'
    BY <1>10 DEF WipeSelect, Chunks, TypeOK, message
  <1>11. ASSUME NEW w \in Workers, WipeApply(w) PROVE TypeOK'
    <2>1. address' \in [Messages -> BOOLEAN]
      BY <1>11, Zenon DEF WipeApply
    <2> QED
      BY <1>11, <2>1 DEF WipeApply, TypeOK
  <1>12. CASE UNCHANGED vars
    BY <1>12 DEF vars, TypeOK, message, worker
  <1> QED
    BY <1>1, <1>2, <1>3, <1>4, <1>5, <1>6, <1>7, <1>8, <1>9, <1>10, <1>11, <1>12
       DEF Next, WorkerStep, Outcome

\* The columns and the worker's memory keep their types (TypeOK), for any number
\* of workers.
THEOREM TypeCorrect == Spec => []TypeOK
  BY TypeInit, TypeStep, PTL DEF Spec

-----------------------------------------------------------------------------
\* The inductive invariant holds at the start.
LEMMA InvInit == Init => Inv
  <1> SUFFICES ASSUME Init PROVE Inv
    OBVIOUS
  <1>1. WorkerInv /\ HeldInv /\ CountInv /\ SecretLifetime /\ RepeatsNeedCrashes
    BY DEF Init, WorkerInv, HeldInv, CountInv, SecretLifetime, RepeatsNeedCrashes, InFlight
  <1> QED
    BY <1>1, TypeInit DEF Inv

\* Everything but a claim and the record of an outcome leaves the rows in the
\* worker's hands alone.
LEMMA WorkStep ==
  ASSUME OneWorker
  PROVE  Inv /\ [Next]_vars => WorkerInv' /\ HeldInv'
  <1> SUFFICES ASSUME Inv, [Next]_vars, NEW v \in Workers
               PROVE  /\ phase'[v] \notin InFlight \cup {"mail"} => batch'[v] = {}
                      /\ phase'[v] \in InFlight => row'[v].m \notin batch'[v]
                      /\ \A m \in batch'[v] : status'[m] = "pending"
                      /\ phase'[v] \in InFlight => /\ status'[row'[v].m] = "pending"
                                                   /\ nextAt'[row'[v].m] = row'[v].nextAt
    BY DEF WorkerInv, HeldInv
  <1> DEFINE Goal == /\ phase'[v] \notin InFlight \cup {"mail"} => batch'[v] = {}
                     /\ phase'[v] \in InFlight => row'[v].m \notin batch'[v]
                     /\ \A m \in batch'[v] : status'[m] = "pending"
                     /\ phase'[v] \in InFlight => /\ status'[row'[v].m] = "pending"
                                                  /\ nextAt'[row'[v].m] = row'[v].nextAt
  <1> SUFFICES Goal
    OBVIOUS
  <1>0. TypeOK
    BY DEF Inv
  <1>1. /\ phase[v] \notin InFlight \cup {"mail"} => batch[v] = {}
        /\ phase[v] \in InFlight => row[v].m \notin batch[v]
        /\ \A m \in batch[v] : status[m] = "pending" /\ m \in Messages
        /\ phase[v] \in InFlight => /\ status[row[v].m] = "pending"
                                    /\ nextAt[row[v].m] = row[v].nextAt
    BY DEF Inv, WorkerInv, HeldInv, TypeOK
  <1>2. CASE \/ Tick \/ Configure \/ UNCHANGED vars
    BY <1>1, <1>2 DEF Tick, Configure, vars, message, worker
  <1>3. ASSUME NEW m \in Messages, Enqueue(m) PROVE Goal
    <2>1. UNCHANGED <<phase, batch, row>> /\ status[m] = "none"
      BY <1>3 DEF Enqueue, worker
    <2>2. \A n \in Messages : status[n] = "pending" => status'[n] = "pending" /\ nextAt'[n] = nextAt[n]
      BY <1>0, <1>3 DEF Enqueue, TypeOK
    <2>3. row[v].m \in Messages
      BY <1>0 DEF TypeOK, Row
    <2> QED
      BY <1>1, <2>1, <2>2, <2>3
  <1>4. ASSUME Crash(v) PROVE Goal
    BY <1>0, <1>4 DEF Crash, TypeOK, InFlight
  <1>5. ASSUME StartPass(v) \/ EndPass(v) \/ Send(v) \/ WipeSelect(v) \/ WipeApply(v) \/ Accept(v)
        PROVE  Goal
    <2>1. UNCHANGED <<batch, row, status, nextAt>>
      BY <1>5 DEF StartPass, EndPass, Send, WipeSelect, WipeApply, Accept, message
    <2>2. CASE phase[v] \in InFlight /\ phase'[v] \in InFlight
      BY <1>1, <2>1, <2>2
    <2>3. CASE batch[v] = {} /\ phase'[v] \notin InFlight
      BY <2>1, <2>3
    <2>4. \/ phase[v] \in InFlight /\ phase'[v] \in InFlight
          \/ batch[v] = {} /\ phase'[v] \notin InFlight
      BY <1>0, <1>1, <1>5 DEF StartPass, EndPass, Send, WipeSelect, WipeApply, Accept, InFlight, TypeOK
    <2> QED
      BY <2>2, <2>3, <2>4
  <1>6. ASSUME Claim(v) PROVE Goal
    <2>1. phase'[v] = "mail" /\ UNCHANGED status
      BY <1>0, <1>6 DEF Claim, TypeOK
    <2>2. \A m \in batch'[v] : status[m] = "pending"
      BY <1>0, <1>6 DEF Claim, Chunks, Claimable, TypeOK
    <2> QED
      BY <2>1, <2>2 DEF InFlight
  <1>7. ASSUME Fetch(v) PROVE Goal
    <2>1. PICK m \in batch[v] :
             /\ batch' = [batch EXCEPT ![v] = @ \ {m}]
             /\ row' = [row EXCEPT ![v] = [m |-> m, nextAt |-> nextAt[m]]]
      BY <1>7 DEF Fetch
    <2>2. phase'[v] = "fetched" /\ UNCHANGED <<status, nextAt>>
      BY <1>0, <1>7 DEF Fetch, TypeOK, message
    <2>3. batch'[v] = batch[v] \ {m} /\ row'[v].m = m /\ row'[v].nextAt = nextAt[m]
      BY <1>0, <2>1 DEF TypeOK
    <2> QED
      BY <1>1, <2>2, <2>3 DEF InFlight
  <1>8. ASSUME Outcome(v) PROVE Goal
    <2>1. phase[v] \in InFlight /\ Recorded(v)
      BY <1>0, <1>8, OutcomeRecords
    <2>2. phase'[v] = "mail" /\ batch' = batch
      BY <1>0, <2>1 DEF Recorded, TypeOK
    <2>3. \A m \in Messages : m # row[v].m => status'[m] = status[m]
      BY <1>0, <1>8, OutcomeRecords DEF Record, TypeOK
    <2> QED
      BY <1>1, <2>1, <2>2, <2>3 DEF InFlight
  <1> QED
    BY <1>2, <1>3, <1>4, <1>5, <1>6, <1>7, <1>8 DEF OneWorker, Next, WorkerStep, Outcome

\* What an outcome does to the rows: the guard of _record matches.
LEMMA OutcomeEffect ==
  ASSUME Inv, NEW w \in Workers, Outcome(w)
  PROVE  /\ row[w].m \in Messages /\ status[row[w].m] = "pending"
         /\ \A n \in Messages : n # row[w].m => status'[n] = status[n] /\ body'[n] = body[n]
         /\ \/ /\ status'[row[w].m] = "pending" /\ phase[w] # "accepted"
               /\ body'[row[w].m] = body[row[w].m]
            \/ status'[row[w].m] \in Terminal /\ body'[row[w].m] = FALSE
         /\ UNCHANGED <<address, accepted, crashes>>
  <1>0. TypeOK /\ HeldInv
    BY DEF Inv
  <1>1. /\ phase[w] \in InFlight /\ Recorded(w) /\ UNCHANGED accepted
        /\ row[w].m \in Messages
    BY <1>0, OutcomeRecords DEF TypeOK, Row
  <1>2. status[row[w].m] = "pending" /\ nextAt[row[w].m] = row[w].nextAt
    BY <1>0, <1>1 DEF HeldInv
  <1>3. PICK st \in {"pending", "sent", "dead", "expired"}, at \in 0 .. MaxClock + Visibility :
           Record(w, st, at) /\ (st = "pending" => phase[w] # "accepted")
    BY <1>0, OutcomeRecords
  <1>4. /\ status' = [status EXCEPT ![row[w].m] = st]
        /\ body' = [body EXCEPT ![row[w].m] = BodyAfter(row[w].m, st)]
    BY <1>2, <1>3 DEF Record
  <1>5. /\ status'[row[w].m] = st
        /\ \A n \in Messages : n # row[w].m => status'[n] = status[n] /\ body'[n] = body[n]
    BY <1>0, <1>1, <1>4 DEF TypeOK
  <1>6. body'[row[w].m] = BodyAfter(row[w].m, st)
    BY <1>0, <1>1, <1>4 DEF TypeOK
  <1>7. body[row[w].m] \in BOOLEAN
    BY <1>0, <1>1 DEF TypeOK
  <1>8. st = "pending" => BodyAfter(row[w].m, st) = body[row[w].m]
    BY <1>7 DEF BodyAfter, Terminal
  <1>9. st # "pending" => BodyAfter(row[w].m, st) = FALSE /\ st \in Terminal
    BY DEF BodyAfter, Terminal
  <1> QED
    BY <1>1, <1>2, <1>3, <1>5, <1>6, <1>8, <1>9 DEF Recorded

\* body_text goes in the write that ends the message, the address only after it.
LEMMA SecretStep ==
  ASSUME OneWorker
  PROVE  Inv /\ [Next]_vars => SecretLifetime'
  <1> SUFFICES ASSUME Inv, [Next]_vars, NEW m \in Messages
               PROVE  /\ status'[m] = "pending" <=> body'[m]
                      /\ status'[m] = "pending" => address'[m]
    BY DEF SecretLifetime
  <1> DEFINE Goal == /\ status'[m] = "pending" <=> body'[m]
                     /\ status'[m] = "pending" => address'[m]
  <1>0. TypeOK
    BY DEF Inv
  <1>1. /\ status[m] = "pending" <=> body[m]
        /\ status[m] = "pending" => address[m]
    BY DEF Inv, SecretLifetime
  <1>2. CASE UNCHANGED <<status, body, address>>
    BY <1>1, <1>2
  <1>3. ASSUME NEW n \in Messages, Enqueue(n) PROVE Goal
    BY <1>0, <1>1, <1>3 DEF Enqueue, TypeOK
  <1>4. ASSUME NEW w \in Workers, Outcome(w) PROVE Goal
    <2>1. CASE m = row[w].m
      BY <1>1, <1>4, <2>1, OutcomeEffect DEF Terminal
    <2>2. CASE m # row[w].m
      BY <1>1, <1>4, <2>2, OutcomeEffect
    <2> QED
      BY <2>1, <2>2
  <1>5. ASSUME NEW w \in Workers, WipeApply(w) PROVE Goal
    <2>1. UNCHANGED <<status, body>>
      BY <1>5 DEF WipeApply
    <2>2. address'[m] = (address[m] /\ ~(m \in wipes[w] /\ Wipeable(m)))
      BY <1>5, Zenon DEF WipeApply
    <2>3. status[m] = "pending" => ~Wipeable(m)
      BY DEF Wipeable, Terminal
    <2> QED
      BY <1>1, <2>1, <2>2, <2>3
  <1>6. CASE \/ Tick \/ Configure \/ UNCHANGED vars
             \/ \E w \in Workers : \/ Crash(w) \/ StartPass(w) \/ Claim(w) \/ Fetch(w) \/ Send(w)
                                   \/ Accept(w) \/ EndPass(w) \/ WipeSelect(w)
    BY <1>2, <1>6 DEF Tick, Configure, vars, Crash, StartPass, Claim, Fetch, Send, Accept,
                      EndPass, WipeSelect, message
  <1> QED
    BY <1>3, <1>4, <1>5, <1>6 DEF Next, WorkerStep, Outcome

\* An ok that is recorded retires its message: only a crash leaves one unrecorded.
LEMMA CountStep ==
  ASSUME OneWorker
  PROVE  Inv /\ [Next]_vars => CountInv' /\ RepeatsNeedCrashes'
  <1> SUFFICES ASSUME Inv, [Next]_vars, NEW m \in Messages
               PROVE  /\ accepted'[m] <= 1 + crashes'
                      /\ status'[m] \in {"none", "pending"} =>
                            \/ accepted'[m] <= crashes'
                            \/ \E w \in Workers : phase'[w] = "accepted" /\ row'[w].m = m
    BY DEF CountInv, RepeatsNeedCrashes
  <1> DEFINE Goal == /\ accepted'[m] <= 1 + crashes'
                     /\ status'[m] \in {"none", "pending"} =>
                            \/ accepted'[m] <= crashes'
                            \/ \E w \in Workers : phase'[w] = "accepted" /\ row'[w].m = m
  <1>0. TypeOK /\ accepted[m] \in Nat /\ crashes \in Nat
    BY MailAssumption DEF Inv, TypeOK
  <1>1. /\ accepted[m] <= 1 + crashes
        /\ status[m] \in {"none", "pending"} =>
              \/ accepted[m] <= crashes
              \/ \E w \in Workers : phase[w] = "accepted" /\ row[w].m = m
    BY DEF Inv, CountInv, RepeatsNeedCrashes
  <1>2. CASE UNCHANGED <<status, accepted, crashes, phase, row>>
    BY <1>1, <1>2
  <1>3. ASSUME NEW n \in Messages, Enqueue(n) PROVE Goal
    <2>1. UNCHANGED <<accepted, crashes, phase, row>>
      BY <1>3 DEF Enqueue, worker
    <2>2. status'[m] \in {"none", "pending"} => status[m] \in {"none", "pending"}
      BY <1>0, <1>3 DEF Enqueue, TypeOK
    <2> QED
      BY <1>1, <2>1, <2>2
  <1>4. ASSUME NEW w \in Workers, Crash(w) PROVE Goal
    <2>1. UNCHANGED <<status, accepted>> /\ crashes' = crashes + 1
      BY <1>4 DEF Crash, message
    <2> QED
      BY <1>0, <1>1, <2>1
  <1>5. ASSUME NEW w \in Workers, Accept(w) PROVE Goal
    <2>1. phase[w] = "sending" /\ phase'[w] = "accepted" /\ UNCHANGED <<status, row, crashes>>
      BY <1>0, <1>5 DEF Accept, TypeOK
    <2>2. row[w].m \in Messages
      BY <1>0 DEF TypeOK, Row
    <2>3. status[row[w].m] = "pending"
      BY <2>1 DEF Inv, HeldInv, InFlight
    <2>4. \A v \in Workers : phase[v] # "accepted"
      BY <2>1 DEF OneWorker
    <2>5. CASE row[w].m = m
      <3>1. accepted[m] <= crashes
        BY <1>1, <2>3, <2>4, <2>5
      <3>2. accepted'[m] = accepted[m] + 1
        <4>1. accepted' = [accepted EXCEPT ![m] = @ + 1] /\ accepted \in [Messages -> Nat]
          BY <1>0, <1>5, <2>5 DEF Accept, TypeOK
        <4> QED
          BY <4>1
      <3> QED
        BY <1>0, <2>1, <2>5, <3>1, <3>2
    <2>6. CASE row[w].m # m
      <3>1. accepted'[m] = accepted[m]
        BY <1>0, <1>5, <2>6 DEF Accept, TypeOK
      <3> QED
        BY <1>1, <2>1, <2>4, <3>1
    <2> QED
      BY <2>5, <2>6
  <1>6. ASSUME NEW w \in Workers, Outcome(w) PROVE Goal
    <2>1. UNCHANGED <<accepted, crashes>>
      BY <1>6, OutcomeEffect
    <2>2. CASE status'[m] \in {"none", "pending"}
      <3>1. status[m] \in {"none", "pending"} /\ (row[w].m = m => phase[w] # "accepted")
        BY <1>6, <2>2, OutcomeEffect DEF Terminal
      <3>2. \A v \in Workers : ~(phase[v] = "accepted" /\ row[v].m = m)
        BY <3>1 DEF OneWorker
      <3> QED
        BY <1>1, <2>1, <3>1, <3>2
    <2>3. CASE status'[m] \notin {"none", "pending"}
      BY <1>1, <2>1, <2>3
    <2> QED
      BY <2>2, <2>3
  <1>7. ASSUME NEW w \in Workers, \/ StartPass(w) \/ Claim(w) \/ Fetch(w) \/ Send(w) \/ EndPass(w)
                                  \/ WipeSelect(w) \/ WipeApply(w)
        PROVE  Goal
    <2>1. UNCHANGED <<status, accepted, crashes>>
      BY <1>7 DEF StartPass, Claim, Fetch, Send, EndPass, WipeSelect, WipeApply, message
    <2>2. phase[w] # "accepted"
      BY <1>7 DEF StartPass, Claim, Fetch, Send, EndPass, WipeSelect, WipeApply
    <2>3. \A v \in Workers : phase[v] # "accepted"
      BY <2>2 DEF OneWorker
    <2> QED
      BY <1>1, <2>1, <2>3
  <1>8. CASE Tick \/ Configure \/ UNCHANGED vars
    BY <1>2, <1>8 DEF Tick, Configure, vars, message, worker
  <1> QED
    BY <1>3, <1>4, <1>5, <1>6, <1>7, <1>8 DEF Next, WorkerStep, Outcome

\* The inductive invariant, for a single worker process.
THEOREM Invariance ==
  ASSUME OneWorker
  PROVE  Spec => []Inv
  <1>1. Inv /\ [Next]_vars => Inv'
    <2>1. Inv => TypeOK
      BY DEF Inv
    <2> QED
      BY <2>1, TypeStep, WorkStep, SecretStep, CountStep DEF Inv
  <1> QED
    BY <1>1, InvInit, PTL DEF Spec

\* No terminal row keeps its plaintext secret and no pending row has lost it
\* (SecretLifetime): _record clears body_text in the write that ends the message.
THEOREM SecretCorrect ==
  ASSUME OneWorker
  PROVE  Spec => []SecretLifetime
  <1>1. Inv => SecretLifetime
    BY DEF Inv
  <1> QED
    BY <1>1, Invariance, PTL

\* Every repeated send is the fault of a crash between the provider's answer and
\* _record (RepeatsNeedCrashes).
THEOREM RepeatsCorrect ==
  ASSUME OneWorker
  PROVE  Spec => []RepeatsNeedCrashes
  <1>1. Inv => RepeatsNeedCrashes
    BY DEF Inv
  <1> QED
    BY <1>1, Invariance, PTL
=============================================================================
