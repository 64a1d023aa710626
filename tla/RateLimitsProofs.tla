-------------------------- MODULE RateLimitsProofs --------------------------
(***************************************************************************)
(* LimitHeld for every list of rules and any number of requests, subjects  *)
(* and windows.  A counter is live while its window can still be counted   *)
(* in.  On a live counter that has not passed the limit every hit was let  *)
(* through and nothing was logged; the hit that passes it is the only one  *)
(* that may log.  Pruning touches counters that are no longer live.        *)
(***************************************************************************)
EXTENDS RateLimits, TLAPS

Logging(c, n, s, w) ==
    /\ call[c].at = "log" /\ call[c].next = n /\ call[c].window = w
    /\ call[c].subject[Rules[n].kind] = s

Live(w) == w = window \/ \E c \in Callers : call[c].at # "idle" /\ call[c].window = w

KeyInv(n, s, w) ==
    /\ let[n][s][w] <= Rules[n].limit /\ blocked[n][s][w] <= 1
    /\ count[n][s][w] > Rules[n].limit => let[n][s][w] = Rules[n].limit
    /\ Live(w) /\ count[n][s][w] <= Rules[n].limit =>
          /\ let[n][s][w] = count[n][s][w] /\ blocked[n][s][w] = 0
          /\ \A c \in Callers : ~Logging(c, n, s, w)
    /\ w > window => count[n][s][w] = 0 /\ let[n][s][w] = 0 /\ blocked[n][s][w] = 0
    /\ \A c \in Callers : Logging(c, n, s, w) =>
          blocked[n][s][w] = 0 /\ \A d \in Callers : Logging(d, n, s, w) => d = c

IInv == /\ LimitTypeOK
        /\ \A c \in Callers : call[c].window <= window
        /\ \A n \in DOMAIN Rules, s \in Values, w \in Windows : KeyInv(n, s, w)

-----------------------------------------------------------------------------
\* Every rule has a limit and a kind of subject.
LEMMA RuleType ==
    /\ Len(Rules) \in Nat /\ DOMAIN Rules = 1 .. Len(Rules)
    /\ \A n \in DOMAIN Rules : Rules[n].limit \in Nat \ {0} /\ Rules[n].kind \in DOMAIN Subjects
<1> DEFINE R == [kind : DOMAIN Subjects, limit : Nat \ {0}]
<1>1. Rules \in Seq(R)
  BY LimitsAssumption
<1> HIDE DEF R
<1>2. Len(Rules) \in Nat /\ DOMAIN Rules = 1 .. Len(Rules) /\ \A n \in DOMAIN Rules : Rules[n] \in R
  BY <1>1
<1> QED BY <1>2 DEF R

\* What a request carries for a rule is one of the values counted.
LEMMA SubjectValue ==
    ASSUME NEW f \in Vectors, NEW n \in DOMAIN Rules PROVE f[Rules[n].kind] \in Values
BY RuleType DEF Vectors

\* The tables are empty and nobody is asking.
LEMMA InitInv == LimitInit => IInv
<1> SUFFICES ASSUME LimitInit PROVE IInv
  OBVIOUS
<1>1. Zero \in Counters /\ \A n \in DOMAIN Rules, s \in Values, w \in Windows : Zero[n][s][w] = 0
  BY DEF Zero, Counters
<1>2. Resting \in Calls
  BY RuleType, LimitsAssumption DEF Resting, Calls
<1>3. LimitTypeOK /\ \A c \in Callers : call[c] = Resting /\ call[c].window <= window
  BY <1>1, <1>2, LimitsAssumption DEF LimitInit, LimitTypeOK, Resting
<1>4. \A n \in DOMAIN Rules, s \in Values, w \in Windows : KeyInv(n, s, w)
  BY <1>1, <1>3, RuleType DEF LimitInit, KeyInv, Logging, Resting
<1> QED BY <1>3, <1>4 DEF IInv
\* What is known of a request that is under way, and of a counter.
LEMMA Typed ==
    ASSUME LimitTypeOK
    PROVE  /\ window \in Nat /\ \A w \in Windows : w \in Nat
           /\ \A c \in Callers : /\ call[c].at \in {"idle", "check", "log", "refused"}
                                 /\ call[c].next \in Nat /\ 1 <= call[c].next
                                 /\ call[c].next <= Len(Rules) + 1
                                 /\ call[c].window \in Windows
           /\ \A n \in DOMAIN Rules, s \in Values, w \in Windows :
                 count[n][s][w] \in Nat /\ let[n][s][w] \in Nat /\ blocked[n][s][w] \in Nat
<1>1. window \in Nat /\ \A w \in Windows : w \in Nat
  BY LimitsAssumption DEF LimitTypeOK
<1>2. ASSUME NEW c \in Callers
      PROVE  /\ call[c].at \in {"idle", "check", "log", "refused"}
             /\ call[c].next \in Nat /\ 1 <= call[c].next
             /\ call[c].next <= Len(Rules) + 1
             /\ call[c].window \in Windows
  <2>1. call[c] \in Calls
    BY DEF LimitTypeOK
  <2> QED BY <2>1, RuleType DEF Calls
<1>3. \A n \in DOMAIN Rules, s \in Values, w \in Windows :
         count[n][s][w] \in Nat /\ let[n][s][w] \in Nat /\ blocked[n][s][w] \in Nat
  BY DEF LimitTypeOK, Counters
<1> QED BY <1>1, <1>2, <1>3

\* The request moves on in the list of rules, or stops where it is.
LEMMA CallMoves ==
    ASSUME LimitTypeOK, NEW c \in Callers, NEW n \in DOMAIN Rules, NEW a \in {"log", "refused"}
    PROVE  /\ [call EXCEPT ![c].next = n + 1] \in [Callers -> Calls]
           /\ [call EXCEPT ![c].at = a] \in [Callers -> Calls]
<1>1. call \in [Callers -> Calls] /\ call[c] \in Calls
  BY DEF LimitTypeOK
<1>2. n + 1 \in 1 .. Len(Rules) + 1
  BY RuleType
<1>3. [call[c] EXCEPT !.next = n + 1] \in Calls /\ [call[c] EXCEPT !.at = a] \in Calls
  BY <1>1, <1>2 DEF Calls
<1> HIDE DEF Calls
<1> QED BY <1>1, <1>3

-----------------------------------------------------------------------------
\* The steps that change no counter leave a key as it is, when the ones that are
\* logging stay the same or fewer and no window comes alive again.
LEMMA KeyFrame ==
    ASSUME UNCHANGED <<count, let, blocked, window>>,
           NEW n, NEW s, NEW w,
           KeyInv(n, s, w),
           \A c \in Callers : Logging(c, n, s, w)' => Logging(c, n, s, w),
           Live(w)' => Live(w)
    PROVE  KeyInv(n, s, w)'
BY DEF KeyInv

\* A request begins in the window of the clock, where nobody is surprised by it.
LEMMA RequestInv ==
    ASSUME IInv, NEW c \in Callers, NEW subject \in Vectors, Request(c, subject)
    PROVE  IInv'
<1>1. LimitTypeOK'
  BY RuleType DEF IInv, Request, LimitTypeOK, Calls
<1>2. \A d \in Callers : call'[d].window <= window'
  BY LimitsAssumption DEF IInv, Request, LimitTypeOK, Calls
<1>3. ASSUME NEW n \in DOMAIN Rules, NEW s \in Values, NEW w \in Windows
      PROVE  KeyInv(n, s, w)'
  <2>1. \A d \in Callers : Logging(d, n, s, w)' => Logging(d, n, s, w)
    BY DEF Request, Logging, IInv, LimitTypeOK
  <2>2. Live(w)' => Live(w)
    BY DEF Request, Live, IInv, LimitTypeOK
  <2> QED BY <1>3, <2>1, <2>2, KeyFrame DEF IInv, Request
<1> QED BY <1>1, <1>2, <1>3 DEF IInv

\* A request that ends, or dies, logs nothing more.
LEMMA EndRequestInv ==
    ASSUME IInv, NEW c \in Callers, EndRequest(c)
    PROVE  IInv'
<1>1. LimitTypeOK'
  BY RuleType, LimitsAssumption DEF IInv, EndRequest, LimitTypeOK, Calls, Resting
<1>2. \A d \in Callers : call'[d].window <= window'
  BY LimitsAssumption DEF IInv, EndRequest, LimitTypeOK, Calls, Resting
<1>3. ASSUME NEW n \in DOMAIN Rules, NEW s \in Values, NEW w \in Windows
      PROVE  KeyInv(n, s, w)'
  <2>1. \A d \in Callers : Logging(d, n, s, w)' => Logging(d, n, s, w)
    BY DEF EndRequest, Logging, IInv, LimitTypeOK, Resting
  <2>2. Live(w)' => Live(w)
    BY DEF EndRequest, Live, IInv, LimitTypeOK, Resting
  <2> QED BY <1>3, <2>1, <2>2, KeyFrame DEF IInv, EndRequest
<1> QED BY <1>1, <1>2, <1>3 DEF IInv

\* The next window has never been counted in.
LEMMA NextWindowInv ==
    ASSUME IInv, NextWindow
    PROVE  IInv'
<1>1. LimitTypeOK'
  BY DEF IInv, NextWindow, LimitTypeOK
<1>2. \A d \in Callers : call'[d].window <= window'
  <2>1. window' = window + 1 /\ call' = call
    BY DEF NextWindow
  <2>2. \A d \in Callers : call[d].window \in Nat /\ window \in Nat /\ call[d].window <= window
    BY Typed DEF IInv
  <2> QED BY <2>1, <2>2
<1>3. ASSUME NEW n \in DOMAIN Rules, NEW s \in Values, NEW w \in Windows
      PROVE  KeyInv(n, s, w)'
  <2>1. KeyInv(n, s, w) /\ window \in Nat /\ w \in Nat /\ window' = window + 1
    BY <1>3, LimitsAssumption DEF IInv, LimitTypeOK, NextWindow
  <2>2. \A d \in Callers : Logging(d, n, s, w)' <=> Logging(d, n, s, w)
    BY DEF NextWindow, Logging
  <2>3. \A d \in Callers : Logging(d, n, s, w) => w <= window
    BY DEF Logging, IInv
  <2>4. Live(w)' => Live(w) \/ w = window + 1
    BY DEF Live, NextWindow
  <2>5. CASE w = window + 1
    BY <2>1, <2>2, <2>3, <2>5, RuleType DEF KeyInv, NextWindow
  <2>6. CASE w # window + 1
    BY <2>1, <2>2, <2>4, <2>6 DEF KeyInv, NextWindow
  <2> QED BY <2>5, <2>6
<1> QED BY <1>1, <1>2, <1>3 DEF IInv

\* Only counters nobody can count in any more are pruned.
LEMMA PruneInv ==
    ASSUME IInv, NEW v \in Windows, Prune(v)
    PROVE  IInv'
<1>1. count' \in Counters /\ \A n \in DOMAIN Rules, s \in Values, w \in Windows :
         count'[n][s][w] = IF w = v THEN 0 ELSE count[n][s][w]
  BY DEF IInv, LimitTypeOK, Prune, Counters
<1>2. LimitTypeOK' /\ \A d \in Callers : call'[d].window <= window'
  BY <1>1 DEF IInv, Prune, LimitTypeOK
<1>3. ASSUME NEW n \in DOMAIN Rules, NEW s \in Values, NEW w \in Windows
      PROVE  KeyInv(n, s, w)'
  <2>1. KeyInv(n, s, w)
    BY <1>3 DEF IInv
  <2>2. \A d \in Callers : Logging(d, n, s, w)' <=> Logging(d, n, s, w)
    BY DEF Prune, Logging
  <2>3. Live(w)' <=> Live(w)
    BY DEF Live, Prune
  <2>4. UNCHANGED <<let, blocked, window>>
    BY DEF Prune
  <2>5. CASE w = v
    <3>1. ~Live(w) /\ ~(w > window)
      BY <2>5, LimitsAssumption DEF Live, Prune, IInv, LimitTypeOK
    <3>2. count'[n][s][w] = 0
      BY <1>1, <2>5
    <3> QED BY <2>1, <2>2, <2>3, <2>4, <3>1, <3>2, RuleType DEF KeyInv
  <2>6. CASE w # v
    BY <1>1, <2>1, <2>2, <2>3, <2>4, <2>6 DEF KeyInv
  <2> QED BY <2>5, <2>6
<1> QED BY <1>2, <1>3 DEF IInv

\* The one request that crossed the limit writes the one row.
LEMMA LogBlockedInv ==
    ASSUME IInv, NEW c \in Callers, LogBlocked(c)
    PROVE  IInv'
<1>a. PICK n, s, w : n = call[c].next /\ s = call[c].subject[Rules[n].kind] /\ w = call[c].window
  OBVIOUS
<1>1. n \in DOMAIN Rules /\ s \in Values /\ w \in Windows /\ call[c].at = "log"
  BY <1>a, SubjectValue, Typed DEF IInv, LimitTypeOK, LogBlocked
<1>2. Logging(c, n, s, w)
  BY <1>a, <1>1 DEF Logging
<1>3. blocked[n][s][w] = 0 /\ KeyInv(n, s, w)
  <2>1. KeyInv(n, s, w)
    BY <1>1 DEF IInv
  <2> QED BY <1>2, <2>1 DEF KeyInv
<1>4. blocked' = [blocked EXCEPT ![n][s][w] = 1]
  <2>1. blocked' = [blocked EXCEPT ![n][s][w] = @ + 1]
    BY <1>a DEF LogBlocked
  <2>2. blocked' = [blocked EXCEPT ![n][s][w] = blocked[n][s][w] + 1]
    BY <1>1, <2>1 DEF IInv, LimitTypeOK, Counters
  <2> QED BY <1>3, <2>2
<1>5. /\ blocked' \in Counters
      /\ \A m \in DOMAIN Rules, t \in Values, x \in Windows :
            blocked'[m][t][x] = IF m = n /\ t = s /\ x = w THEN 1 ELSE blocked[m][t][x]
  <2>1. blocked \in Counters /\ 1 \in Nat
    BY DEF IInv, LimitTypeOK
  <2> QED BY <1>1, <1>4, <2>1 DEF Counters
<1>6. \A d \in Callers : /\ call'[d].window = call[d].window /\ call'[d].subject = call[d].subject
                         /\ call'[d].next = call[d].next
                         /\ call'[d].at = IF d = c THEN "refused" ELSE call[d].at
  BY DEF LogBlocked, IInv, LimitTypeOK, Calls
<1>7. LimitTypeOK' /\ \A d \in Callers : call'[d].window <= window'
  <2>1. call' \in [Callers -> Calls]
    BY DEF LogBlocked, IInv, LimitTypeOK, Calls
  <2> QED BY <2>1, <1>5, <1>6, <1>1 DEF LogBlocked, IInv, LimitTypeOK
<1>8. ASSUME NEW m \in DOMAIN Rules, NEW t \in Values, NEW x \in Windows
      PROVE  KeyInv(m, t, x)'
  <2>1. KeyInv(m, t, x) /\ UNCHANGED <<window, count, let>>
    BY <1>8 DEF IInv, LogBlocked
  <2>2. \A d \in Callers : Logging(d, m, t, x)' <=> d # c /\ Logging(d, m, t, x)
    BY <1>6 DEF Logging
  <2>3. Live(x)' <=> Live(x)
    BY <1>1, <1>6, <2>1 DEF Live
  <2>4. CASE m = n /\ t = s /\ x = w
    <3>1. \A d \in Callers : ~Logging(d, m, t, x)'
      BY <1>2, <2>1, <2>2, <2>4 DEF KeyInv
    <3>2. ~(Live(x) /\ count[m][t][x] <= Rules[m].limit) /\ ~(x > window)
      <4>1. w <= window /\ w \in Nat /\ window \in Nat
        BY <1>a, <1>1, Typed DEF IInv
      <4>2. ~(Live(x) /\ count[m][t][x] <= Rules[m].limit)
        BY <1>2, <2>1, <2>4 DEF KeyInv
      <4> QED BY <2>4, <4>1, <4>2
    <3>3. blocked'[m][t][x] = 1
      BY <1>5, <2>4
    <3> QED BY <2>1, <2>3, <3>1, <3>2, <3>3 DEF KeyInv
  <2>5. CASE ~(m = n /\ t = s /\ x = w)
    <3>1. blocked'[m][t][x] = blocked[m][t][x]
      BY <1>5, <2>5
    <3> QED BY <2>1, <2>2, <2>3, <3>1 DEF KeyInv
  <2> QED BY <2>4, <2>5
<1> QED BY <1>7, <1>8 DEF IInv

\* One rule of check: the counter decides, whoever else is counting.
LEMMA HitInv ==
    ASSUME IInv, NEW c \in Callers, Hit(c)
    PROVE  IInv'
<1>a. PICK n, s, w : n = call[c].next /\ s = call[c].subject[Rules[n].kind] /\ w = call[c].window
  OBVIOUS
<1>b. PICK hits, limit : hits = count[n][s][w] + 1 /\ limit = Rules[n].limit
  OBVIOUS
<1>0. /\ call[c].at = "check" /\ n <= Len(Rules)
      /\ count' = [count EXCEPT ![n][s][w] = hits]
      /\ \/ /\ ~(hits > limit)
            /\ let' = [let EXCEPT ![n][s][w] = @ + 1]
            /\ call' = [call EXCEPT ![c].next = n + 1]
         \/ /\ hits > limit
            /\ call' = [call EXCEPT ![c].at = IF hits = limit + 1 THEN "log" ELSE "refused"]
            /\ UNCHANGED let
      /\ UNCHANGED <<window, blocked>>
  BY <1>a, <1>b DEF Hit, Over, FirstBlock
<1>1. n \in DOMAIN Rules /\ s \in Values /\ w \in Windows /\ call[c].at = "check"
  <2>1. n \in DOMAIN Rules
    <3>1. n \in Nat /\ 1 <= n
      BY <1>a, Typed DEF IInv
    <3> QED BY <1>0, <3>1, RuleType
  <2>2. call[c].subject \in Vectors
    BY <1>0 DEF IInv, LimitTypeOK
  <2> QED BY <1>a, <1>0, <2>1, <2>2, SubjectValue, Typed DEF IInv
<1>2. hits \in Nat /\ limit \in Nat /\ let[n][s][w] \in Nat /\ count[n][s][w] \in Nat
  <2>1. count[n][s][w] \in Nat /\ let[n][s][w] \in Nat
    BY <1>1, Typed DEF IInv
  <2> QED BY <1>b, <1>1, <2>1, RuleType
<1>3. Live(w) /\ w <= window /\ KeyInv(n, s, w)
  BY <1>a, <1>1 DEF Live, IInv
<1>4. /\ count' \in Counters
      /\ \A m \in DOMAIN Rules, t \in Values, x \in Windows :
            count'[m][t][x] = IF m = n /\ t = s /\ x = w THEN hits ELSE count[m][t][x]
  <2>1. count \in Counters
    BY DEF IInv, LimitTypeOK
  <2>2. count' = [count EXCEPT ![n][s][w] = hits]
    BY <1>0
  <2> QED BY <1>1, <1>2, <2>1, <2>2 DEF Counters
<1>5. CASE hits <= limit
  <2>1. let' = [let EXCEPT ![n][s][w] = let[n][s][w] + 1] /\ call' = [call EXCEPT ![c].next = n + 1]
    <3>1. let' = [let EXCEPT ![n][s][w] = @ + 1] /\ call' = [call EXCEPT ![c].next = n + 1]
      BY <1>0, <1>2, <1>5
    <3> QED BY <1>1, <3>1 DEF IInv, LimitTypeOK, Counters
  <2>2. /\ let' \in Counters
        /\ \A m \in DOMAIN Rules, t \in Values, x \in Windows :
              let'[m][t][x] = IF m = n /\ t = s /\ x = w THEN let[n][s][w] + 1 ELSE let[m][t][x]
    <3>1. let \in Counters /\ let[n][s][w] + 1 \in Nat
      BY <1>2 DEF IInv, LimitTypeOK
    <3> QED BY <2>1, <1>1, <3>1 DEF Counters
  <2>3. \A d \in Callers : /\ call'[d].window = call[d].window /\ call'[d].subject = call[d].subject
                           /\ call'[d].at = call[d].at
                           /\ d # c => call'[d].next = call[d].next
    BY <2>1 DEF IInv, LimitTypeOK, Calls
  <2>4. LimitTypeOK' /\ \A d \in Callers : call'[d].window <= window'
    <3>1. call' \in [Callers -> Calls]
      BY <2>1, <1>1, CallMoves DEF IInv
    <3>2. \A d \in Callers : call'[d].at = "log" => call'[d].next \in DOMAIN Rules
      BY <1>1, <2>3 DEF IInv, LimitTypeOK
    <3> QED BY <3>1, <3>2, <2>2, <2>3, <1>0, <1>4 DEF IInv, LimitTypeOK
  <2>5. ASSUME NEW m \in DOMAIN Rules, NEW t \in Values, NEW x \in Windows
        PROVE  KeyInv(m, t, x)'
    <3>1. KeyInv(m, t, x) /\ UNCHANGED <<window, blocked>>
      BY <2>5, <1>0 DEF IInv
    <3>2. \A d \in Callers : Logging(d, m, t, x)' <=> Logging(d, m, t, x)
      BY <2>3, <1>1 DEF Logging
    <3>3. Live(x)' <=> Live(x)
      BY <2>3, <3>1 DEF Live
    <3>4. CASE m = n /\ t = s /\ x = w
      <4>1. count[m][t][x] <= Rules[m].limit /\ let[m][t][x] = count[m][t][x]
        <5>1. count[m][t][x] < hits /\ limit = Rules[m].limit /\ count[m][t][x] \in Nat
          BY <1>b, <1>2, <3>4
        <5>2. count[m][t][x] <= Rules[m].limit
          BY <1>2, <1>5, <5>1
        <5> QED BY <1>3, <3>1, <3>4, <5>2 DEF KeyInv
      <4>2. count'[m][t][x] = hits /\ let'[m][t][x] = hits /\ Rules[m].limit = limit
        BY <1>b, <1>4, <2>2, <3>4, <4>1
      <4>3. ~(x > window) /\ Live(x)
        BY <1>1, <1>3, <3>4, LimitsAssumption DEF IInv, LimitTypeOK
      <4> QED BY <1>2, <1>5, <3>1, <3>2, <3>3, <4>1, <4>2, <4>3 DEF KeyInv
    <3>5. CASE ~(m = n /\ t = s /\ x = w)
      <4>1. count'[m][t][x] = count[m][t][x] /\ let'[m][t][x] = let[m][t][x]
        BY <1>4, <2>2, <3>5
      <4> QED BY <3>1, <3>2, <3>3, <4>1 DEF KeyInv
    <3> QED BY <3>4, <3>5
  <2> QED BY <2>4, <2>5 DEF IInv
<1>6. CASE ~(hits <= limit)
  <2>1. /\ let' = let
        /\ call' = [call EXCEPT ![c].at = IF hits = limit + 1 THEN "log" ELSE "refused"]
    BY <1>0, <1>2, <1>6
  <2>2. \A d \in Callers : /\ call'[d].window = call[d].window /\ call'[d].subject = call[d].subject
                           /\ call'[d].next = call[d].next
                           /\ d # c => call'[d].at = call[d].at
    BY <2>1 DEF IInv, LimitTypeOK, Calls
  <2>3. /\ call'[c].at \in {"log", "refused"}
        /\ call'[c].at = "log" <=> hits = limit + 1
    BY <2>1 DEF IInv, LimitTypeOK, Calls
  <2>4. LimitTypeOK' /\ \A d \in Callers : call'[d].window <= window'
    <3>1. call' \in [Callers -> Calls]
      BY <2>1, <1>1, CallMoves DEF IInv
    <3>2. \A d \in Callers : call'[d].at # "idle" => call[d].at # "idle"
      BY <1>1, <2>2
    <3>3. \A d \in Callers : call'[d].at = "log" => call'[d].next \in DOMAIN Rules
      BY <1>a, <1>1, <2>2 DEF IInv, LimitTypeOK
    <3> QED BY <2>1, <3>1, <3>2, <3>3, <2>2, <1>0, <1>4 DEF IInv, LimitTypeOK
  <2>5. ASSUME NEW m \in DOMAIN Rules, NEW t \in Values, NEW x \in Windows
        PROVE  KeyInv(m, t, x)'
    <3>1. KeyInv(m, t, x) /\ UNCHANGED <<window, blocked, let>>
      BY <1>0, <2>1, <2>5 DEF IInv
    <3>2. \A d \in Callers : d # c => (Logging(d, m, t, x)' <=> Logging(d, m, t, x))
      BY <2>2 DEF Logging
    <3>3. Live(x)' <=> Live(x)
      BY <1>1, <2>2, <2>3, <3>1 DEF Live
    <3>4. CASE m = n /\ t = s /\ x = w
      <4>1. count'[m][t][x] = hits /\ Rules[m].limit = limit /\ count[m][t][x] + 1 = hits
        BY <1>b, <1>4, <3>4
      <4>2. ~(x > window) /\ Live(x)
        BY <1>1, <1>3, <3>4, LimitsAssumption DEF IInv, LimitTypeOK
      <4>3. Logging(c, m, t, x)' <=> hits = limit + 1
        BY <1>a, <2>2, <2>3, <3>4 DEF Logging
      <4>4. ~Logging(c, m, t, x)
        BY <1>1 DEF Logging
      <4>5. count[m][t][x] \in Nat /\ let[m][t][x] \in Nat
        BY <2>5 DEF IInv, LimitTypeOK, Counters
      <4>6. CASE hits = limit + 1
        <5>1. count[m][t][x] = limit
          BY <1>2, <4>1, <4>5, <4>6
        <5>2. let[m][t][x] = limit /\ blocked[m][t][x] = 0 /\ \A d \in Callers : ~Logging(d, m, t, x)
          <6>1. count[m][t][x] <= Rules[m].limit
            BY <1>2, <4>1, <5>1
          <6> QED BY <3>1, <4>1, <4>2, <5>1, <6>1 DEF KeyInv
        <5>3. \A d \in Callers : Logging(d, m, t, x)' => d = c
          BY <3>2, <5>2
        <5> QED BY <1>2, <1>6, <3>1, <4>1, <4>2, <5>2, <5>3 DEF KeyInv
      <4>7. CASE hits # limit + 1
        <5>1. count[m][t][x] > limit
          BY <1>2, <1>6, <4>1, <4>5, <4>7
        <5>2. let[m][t][x] = limit
          BY <3>1, <4>1, <5>1 DEF KeyInv
        <5>3. \A d \in Callers : Logging(d, m, t, x)' <=> Logging(d, m, t, x)
          BY <3>2, <4>3, <4>4, <4>7
        <5> QED BY <1>2, <1>6, <3>1, <4>1, <4>2, <5>2, <5>3 DEF KeyInv
      <4> QED BY <4>6, <4>7
    <3>5. CASE ~(m = n /\ t = s /\ x = w)
      <4>1. count'[m][t][x] = count[m][t][x]
        BY <1>4, <3>5
      <4>2. ~Logging(c, m, t, x)' /\ ~Logging(c, m, t, x)
        BY <1>a, <1>1, <2>2, <3>5 DEF Logging
      <4>3. \A d \in Callers : Logging(d, m, t, x)' <=> Logging(d, m, t, x)
        BY <3>2, <4>2
      <4> QED BY <3>1, <3>3, <4>1, <4>3 DEF KeyInv
    <3> QED BY <3>4, <3>5
  <2> QED BY <2>4, <2>5 DEF IInv
<1> QED BY <1>5, <1>6

-----------------------------------------------------------------------------
\* A step that changes nothing.
LEMMA StutterInv ==
    ASSUME IInv, UNCHANGED limitVars
    PROVE  IInv'
<1>1. UNCHANGED <<window, count, call, let, blocked>>
  BY DEF limitVars
<1>2. LimitTypeOK'
  BY <1>1 DEF IInv, LimitTypeOK
<1>3. ASSUME NEW n \in DOMAIN Rules, NEW s \in Values, NEW w \in Windows
      PROVE  KeyInv(n, s, w)'
  BY <1>1, <1>3 DEF IInv, KeyInv, Logging, Live
<1> QED BY <1>1, <1>2, <1>3 DEF IInv

\* The inductive invariant: on a counter that is still counted in and has not passed its
\* limit every hit was let through, and at most one request is about to log its crossing.
THEOREM LimitInductive == LimitSpec => []IInv
<1>1. IInv /\ [LimitNext]_limitVars => IInv'
  <2> SUFFICES ASSUME IInv, [LimitNext]_limitVars PROVE IInv'
    OBVIOUS
  <2>1. ASSUME NEW c \in Callers, NEW subject \in Vectors, Request(c, subject) PROVE IInv'
    BY <2>1, RequestInv
  <2>2. ASSUME NEW c \in Callers, Hit(c) PROVE IInv'
    BY <2>2, HitInv
  <2>3. ASSUME NEW c \in Callers, LogBlocked(c) PROVE IInv'
    BY <2>3, LogBlockedInv
  <2>4. ASSUME NEW c \in Callers, EndRequest(c) PROVE IInv'
    BY <2>4, EndRequestInv
  <2>5. CASE NextWindow
    BY <2>5, NextWindowInv
  <2>6. ASSUME NEW w \in Windows, Prune(w) PROVE IInv'
    BY <2>6, PruneInv
  <2>7. CASE UNCHANGED limitVars
    BY <2>7, StutterInv
  <2> QED BY <2>1, <2>2, <2>3, <2>4, <2>5, <2>6, <2>7 DEF LimitNext
<1> QED BY <1>1, InitInv, PTL DEF LimitSpec

\* Whatever the rules, requests and subjects: a rule lets through at most its limit in a
\* window, everything it may before it refuses, and a flood leaves at most one log row
\* (audit/ratelimit.py check; the blocked row of the commands that call it).
THEOREM LimitCorrect == LimitSpec => []LimitHeld
<1>1. IInv => LimitHeld
  BY DEF IInv, KeyInv, LimitHeld
<1> QED BY <1>1, LimitInductive, PTL
=============================================================================
