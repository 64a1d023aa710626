---------------------------- MODULE ClaimsProofs ----------------------------
(***************************************************************************)
(* The safety properties of Claims, for any listings, claimants, operators *)
(* and limits.  The rows come first (what each operator makes of a claim   *)
(* or of a guard), then the five parts of the invariant, each with a lemma *)
(* that says which steps cannot disturb it, then the actions.              *)
(***************************************************************************)
EXTENDS Claims, SequenceTheorems, TLAPS

\* The open items of a type for a pair: there is never a second one.
PairOf(i) == <<i.listing, i.claimant>>

Unique(open) ==
    \A i, j \in open : /\ i.type = j.type /\ i.type \in {"verification_lock", "claim_block"}
                       /\ PairOf(i) = PairOf(j)
                       => i = j

UniqueItems == Unique(items)

\* The wrong codes of a pair since its last unlock are what its counters say, and the
\* lock comes with the last cooldown.
CounterInv(g, n) ==
    /\ n = g.cooldowns * MAX_WRONG_ENTRIES + g.wrong_entries
    /\ g.locked <=> g.cooldowns = MAX_COOLDOWNS
    /\ g.locked => g.wrong_entries = 0

BudgetInv == \A p \in Pairs : CounterInv(guard[p], guesses[p])

IInv == ClaimTypeOK /\ OneOwner /\ NoDeadCodeMailed /\ QueueComplete /\ UniqueItems /\ BudgetInv

-----------------------------------------------------------------------------
(* Times and rows.                                                          *)

LEMMA TimesType ==
    ASSUME now \in 0 .. MaxTime
    PROVE  /\ now \in Times /\ now + CODE_TTL \in Times /\ now + COOLDOWN \in Times
           /\ now \in Nat /\ now + CODE_TTL \in Nat /\ now + COOLDOWN \in Nat
           /\ None \notin Times
BY ClaimsAssumption DEF Times

\* The rows a command writes for a claim.
LEMMA ClaimFields ==
    ASSUME NEW c \in ClaimRows
    PROVE  /\ c.listing \in Listings /\ c.claimant \in Claimants
           /\ c.status \in {"pending_verification", "approved", "rejected", "disputed", "superseded"}
           /\ c.method \in {"manual", "domain_email"} /\ c.verified \in BOOLEAN /\ c.code \in BOOLEAN
           /\ c.expires_at \in MaybeTime /\ c.mail_until \in MaybeTime /\ c.replaced \in SUBSET Times
           /\ c.updated_at \in Times /\ c.stamp \in Nat
BY DEF ClaimRows

\* A pass that begins from now on may send the claim's message; none sends those that
\* were replaced.
Sendable(x) == x.mail_until # None /\ x.mail_until > now
Over(x) == \A until \in x.replaced : until <= now

\* x is a later state of the claim c: the replaced messages stay over.
Same(x, c) == /\ x \in ClaimRows /\ x.listing = c.listing /\ x.claimant = c.claimant
              /\ Over(c) => Over(x)

LEMMA ClaimWrites ==
    ASSUME NEW c \in ClaimRows, now \in 0 .. MaxTime
    PROVE  /\ Same(WithCode(c), c) /\ WithCode(c).status = c.status /\ WithCode(c).method = c.method
           /\ Same(Retired(c), c) /\ Retired(c).status = c.status /\ Retired(c).method = c.method
           /\ ~Sendable(Retired(c))
           /\ Same(FlippedToManual(c), c) /\ FlippedToManual(c).status = c.status
           /\ ~Sendable(FlippedToManual(c))
<1>1. PICK d \in Times : d = now + CODE_TTL
  BY TimesType
<1>2. PICK r \in SUBSET Times : r = IF c.mail_until = None THEN c.replaced ELSE c.replaced \cup {now}
  BY TimesType, ClaimFields
<1>3. PICK w : w = WithCode(c)
  OBVIOUS
<1>4. w = [c EXCEPT !.code = TRUE, !.expires_at = d, !.mail_until = d, !.replaced = r]
  BY <1>1, <1>2, <1>3 DEF WithCode, ClaimRows
<1>5. /\ w \in ClaimRows /\ w.listing = c.listing /\ w.claimant = c.claimant /\ w.status = c.status
      /\ w.method = c.method /\ w.replaced = r
  BY <1>4 DEF ClaimRows, MaybeTime
<1>6. Same(w, c)
  <2>1. now <= now
    BY TimesType
  <2>2. Over(c) => Over(w)
    BY <1>2, <1>5, <2>1 DEF Over
  <2> QED BY <1>5, <2>2 DEF Same
<1>7. PICK m \in MaybeTime : m = IF c.mail_until = None THEN None ELSE now
  BY TimesType DEF MaybeTime
<1>8. m # None => ~(m > now)
  BY <1>7, TimesType
<1>9. Retired(c) = [c EXCEPT !.code = FALSE, !.mail_until = m]
  BY <1>7 DEF Retired, ClaimRows
<1>10. PICK n : n = Retired(c)
  OBVIOUS
<1>11. Same(n, c) /\ n.status = c.status /\ n.method = c.method /\ ~Sendable(n)
  <2>1. /\ n \in ClaimRows /\ n.listing = c.listing /\ n.claimant = c.claimant /\ n.status = c.status
        /\ n.method = c.method /\ n.mail_until = m /\ n.replaced = c.replaced
    BY <1>9, <1>10 DEF ClaimRows
  <2> QED BY <1>8, <2>1 DEF Same, Over, Sendable
<1>12. PICK f : f = [n EXCEPT !.method = "manual"]
  OBVIOUS
<1>13. Same(f, n) /\ f.status = n.status /\ ~Sendable(f)
  <2>1. /\ f \in ClaimRows /\ f.listing = n.listing /\ f.claimant = n.claimant /\ f.status = n.status
        /\ f.mail_until = n.mail_until /\ f.replaced = n.replaced
    BY <1>11, <1>12 DEF Same, ClaimRows
  <2> QED BY <1>11, <2>1 DEF Same, Over, Sendable
<1>14. f = FlippedToManual(c)
  BY <1>10, <1>12 DEF FlippedToManual
<1> QED BY <1>3, <1>5, <1>6, <1>10, <1>11, <1>13, <1>14 DEF Same

\* The messages of the claim are left alone.
LEMMA SameMail ==
    ASSUME NEW c, NEW x \in ClaimRows, x.listing = c.listing, x.claimant = c.claimant,
           x.mail_until = c.mail_until, x.replaced = c.replaced
    PROVE  Same(x, c) /\ (Sendable(x) <=> Sendable(c))
BY DEF Same, Over, Sendable

LEMMA ClaimDecided ==
    ASSUME NEW c \in ClaimRows, NEW s \in {"approved", "rejected"}, now \in 0 .. MaxTime
    PROVE  /\ Same(Decided(c, s), c) /\ Decided(c, s).status = s /\ ~Sendable(Decided(c, s))
           /\ Decided(c, s).method = c.method
<1>1. PICK n : n = Retired(c)
  OBVIOUS
<1>2. Same(n, c) /\ n.status = c.status /\ n.method = c.method /\ ~Sendable(n)
  BY <1>1, ClaimWrites
<1>3. PICK r : r = [n EXCEPT !.status = s]
  OBVIOUS
<1>4. Same(r, n) /\ r.status = s /\ r.method = n.method /\ (Sendable(r) <=> Sendable(n))
  <2>1. /\ r \in ClaimRows /\ r.listing = n.listing /\ r.claimant = n.claimant /\ r.status = s
        /\ r.method = n.method /\ r.mail_until = n.mail_until /\ r.replaced = n.replaced
    BY <1>2, <1>3 DEF Same, ClaimRows
  <2> QED BY <2>1, SameMail
<1>5. r = Decided(c, s)
  BY <1>1, <1>3 DEF Decided
<1>6. Same(r, c)
  BY <1>2, <1>4 DEF Same
<1> QED BY <1>2, <1>4, <1>5, <1>6

LEMMA ClaimDecisions ==
    ASSUME NEW c \in ClaimRows, NEW s \in {"disputed", "superseded"}
    PROVE  /\ LET d == [c EXCEPT !.status = s]
              IN Same(d, c) /\ d.status = s /\ (Sendable(d) <=> Sendable(c)) /\ d.method = c.method
           /\ LET v == [c EXCEPT !.verified = TRUE, !.code = FALSE]
              IN Same(v, c) /\ v.status = c.status /\ (Sendable(v) <=> Sendable(c)) /\ v.method = c.method
           /\ LET m == [c EXCEPT !.method = "manual", !.verified = TRUE]
              IN Same(m, c) /\ m.status = c.status /\ m.method = "manual"
           /\ LET w == [c EXCEPT !.code = FALSE]
              IN Same(w, c) /\ w.status = c.status /\ (Sendable(w) <=> Sendable(c)) /\ w.method = c.method
<1>1. LET d == [c EXCEPT !.status = s]
      IN Same(d, c) /\ d.status = s /\ (Sendable(d) <=> Sendable(c)) /\ d.method = c.method
  <2>1. PICK d : d = [c EXCEPT !.status = s]
    OBVIOUS
  <2>2. /\ d \in ClaimRows /\ d.listing = c.listing /\ d.claimant = c.claimant /\ d.status = s
        /\ d.method = c.method /\ d.mail_until = c.mail_until /\ d.replaced = c.replaced
    BY <2>1 DEF ClaimRows
  <2> QED BY <2>1, <2>2, SameMail
<1>2. LET v == [c EXCEPT !.verified = TRUE, !.code = FALSE]
      IN Same(v, c) /\ v.status = c.status /\ (Sendable(v) <=> Sendable(c)) /\ v.method = c.method
  <2>1. PICK v : v = [c EXCEPT !.verified = TRUE, !.code = FALSE]
    OBVIOUS
  <2>2. /\ v \in ClaimRows /\ v.listing = c.listing /\ v.claimant = c.claimant /\ v.status = c.status
        /\ v.method = c.method /\ v.mail_until = c.mail_until /\ v.replaced = c.replaced
    BY <2>1 DEF ClaimRows
  <2> QED BY <2>1, <2>2, SameMail
<1>3. LET m == [c EXCEPT !.method = "manual", !.verified = TRUE]
      IN Same(m, c) /\ m.status = c.status /\ m.method = "manual"
  <2>1. PICK m : m = [c EXCEPT !.method = "manual", !.verified = TRUE]
    OBVIOUS
  <2>2. /\ m \in ClaimRows /\ m.listing = c.listing /\ m.claimant = c.claimant /\ m.status = c.status
        /\ m.method = "manual" /\ m.mail_until = c.mail_until /\ m.replaced = c.replaced
    BY <2>1 DEF ClaimRows
  <2> QED BY <2>1, <2>2, SameMail
<1>4. LET w == [c EXCEPT !.code = FALSE]
      IN Same(w, c) /\ w.status = c.status /\ (Sendable(w) <=> Sendable(c)) /\ w.method = c.method
  <2>1. PICK w : w = [c EXCEPT !.code = FALSE]
    OBVIOUS
  <2>2. /\ w \in ClaimRows /\ w.listing = c.listing /\ w.claimant = c.claimant /\ w.status = c.status
        /\ w.method = c.method /\ w.mail_until = c.mail_until /\ w.replaced = c.replaced
    BY <2>1 DEF ClaimRows
  <2> QED BY <2>1, <2>2, SameMail
<1> QED BY <1>1, <1>2, <1>3, <1>4

LEMMA NewClaimType ==
    ASSUME NEW l \in Listings, NEW u \in Claimants, NEW m \in {"manual", "domain_email"},
           now \in 0 .. MaxTime, arrivals \in Nat
    PROVE  LET c == NewClaim(l, u, m)
           IN /\ c \in ClaimRows /\ c.listing = l /\ c.claimant = u /\ c.status = "pending_verification"
              /\ c.method = m /\ ~Sendable(c) /\ Over(c)
<1>1. now \in Times /\ arrivals + 1 \in Nat
  BY TimesType
<1> QED BY <1>1 DEF NewClaim, ClaimRows, MaybeTime, Sendable, Over

LEMMA GuardFields ==
    ASSUME NEW g \in GuardRows
    PROVE  /\ g.wrong_entries \in Nat /\ g.wrong_entries < MAX_WRONG_ENTRIES
           /\ g.cooldowns \in Nat /\ g.cooldowns <= MAX_COOLDOWNS
           /\ g.locked \in BOOLEAN /\ g.blocked \in BOOLEAN /\ g.rejections \in Nat /\ g.sent \in Nat
           /\ g.last_sent \in MaybeTime /\ g.window_start \in MaybeTime /\ g.cooldown_until \in MaybeTime
BY ClaimsAssumption DEF GuardRows

\* A code sent, or a rejection, leaves the counters of wrong codes alone.
LEMMA GuardSend ==
    ASSUME NEW g \in GuardRows, MaySend(g), now \in 0 .. MaxTime
    PROVE  LET h == AfterSend(g)
           IN /\ h \in GuardRows /\ h.wrong_entries = g.wrong_entries /\ h.cooldowns = g.cooldowns
              /\ h.locked = g.locked /\ h.blocked = g.blocked
<1>1. PICK n \in 0 .. MAX_SENDS : n = SentInWindow(g) + 1
  <2>1. SentInWindow(g) \in Nat /\ SentInWindow(g) < MAX_SENDS
    BY GuardFields DEF MaySend, SentInWindow
  <2> QED BY <2>1, ClaimsAssumption
<1>2. PICK w \in MaybeTime : w = IF WindowOver(g) THEN now ELSE g.window_start
  BY TimesType, GuardFields DEF MaybeTime
<1>3. AfterSend(g) = [g EXCEPT !.last_sent = now, !.sent = n, !.window_start = w]
  BY <1>1, <1>2 DEF AfterSend, GuardRows
<1>4. now \in MaybeTime
  BY TimesType DEF MaybeTime
<1> QED BY <1>3, <1>4 DEF GuardRows

LEMMA GuardReject ==
    ASSUME NEW g \in GuardRows
    PROVE  LET h == AfterRejection(g)
           IN /\ h \in GuardRows /\ h.wrong_entries = g.wrong_entries /\ h.cooldowns = g.cooldowns
              /\ h.locked = g.locked /\ (g.blocked => h.blocked)
<1>1. PICK n \in Nat : n = g.rejections + 1
  BY GuardFields
<1>2. PICK b \in BOOLEAN : b = (g.blocked \/ n >= REJECTION_BLOCK_THRESHOLD)
  BY GuardFields
<1>3. AfterRejection(g) = [g EXCEPT !.rejections = n, !.blocked = b]
  BY <1>1, <1>2 DEF AfterRejection, GuardRows
<1>4. [g EXCEPT !.rejections = n, !.blocked = TRUE] \in GuardRows
      /\ [g EXCEPT !.rejections = n, !.blocked = FALSE] \in GuardRows
  BY DEF GuardRows
<1>5. AfterRejection(g) \in GuardRows
  BY <1>2, <1>3, <1>4
<1>6. LET h == [g EXCEPT !.rejections = n, !.blocked = b]
      IN /\ h.wrong_entries = g.wrong_entries /\ h.cooldowns = g.cooldowns /\ h.locked = g.locked
         /\ h.blocked = b
  BY DEF GuardRows
<1> QED BY <1>2, <1>3, <1>5, <1>6

LEMMA GuardUnlock ==
    ASSUME NEW g \in GuardRows
    PROVE  /\ Unlocked(g) \in GuardRows /\ Unlocked(g).locked = FALSE /\ Unlocked(g).blocked = g.blocked
           /\ CounterInv(Unlocked(g), 0)
           /\ LET h == [g EXCEPT !.blocked = FALSE]
              IN /\ h \in GuardRows /\ h.wrong_entries = g.wrong_entries /\ h.cooldowns = g.cooldowns
                 /\ h.locked = g.locked /\ h.blocked = FALSE
<1>1. Unlocked(g) \in GuardRows /\ Unlocked(g).locked = FALSE /\ Unlocked(g).blocked = g.blocked
      /\ Unlocked(g).wrong_entries = 0 /\ Unlocked(g).cooldowns = 0
  <2>1. 0 \in 0 .. MAX_WRONG_ENTRIES - 1 /\ 0 \in 0 .. MAX_COOLDOWNS /\ None \in MaybeTime
    BY ClaimsAssumption DEF MaybeTime
  <2> QED BY <2>1 DEF Unlocked, GuardRows
<1>2. CounterInv(Unlocked(g), 0)
  BY <1>1, ClaimsAssumption DEF CounterInv
<1>3. LET h == [g EXCEPT !.blocked = FALSE]
      IN /\ h \in GuardRows /\ h.wrong_entries = g.wrong_entries /\ h.cooldowns = g.cooldowns
         /\ h.locked = g.locked /\ h.blocked = FALSE
  BY DEF GuardRows
<1> QED BY <1>1, <1>2, <1>3

\* Products of the limits.
LEMMA Products ==
    /\ \A k, m \in Nat : (k + 1) * m = k * m + m /\ 0 * m = 0
    /\ \A k, n, m \in Nat : k <= n => k * m <= n * m
<1>1. \A k, m \in Nat : (k + 1) * m = k * m + m /\ 0 * m = 0
  OBVIOUS
<1>2. ASSUME NEW k \in Nat, NEW n \in Nat, NEW m \in Nat, k <= n PROVE k * m <= n * m
  <2>1. PICK d \in Nat : n = k + d
    BY <1>2
  <2>2. n * m = k * m + d * m /\ d * m >= 0
    BY <2>1
  <2> QED BY <2>2
<1> QED BY <1>1, <1>2

\* One more wrong code of a pair that is not locked.
LEMMA GuardWrong ==
    ASSUME NEW g \in GuardRows, NEW n \in Nat, CounterInv(g, n), ~g.locked, now \in 0 .. MaxTime
    PROVE  LET h == AfterWrong(g)
           IN h \in GuardRows /\ h.blocked = g.blocked /\ CounterInv(h, n + 1)
<1>1. /\ g.wrong_entries \in Nat /\ g.wrong_entries < MAX_WRONG_ENTRIES
      /\ g.cooldowns \in Nat /\ g.cooldowns < MAX_COOLDOWNS
      /\ MAX_WRONG_ENTRIES \in Nat /\ MAX_COOLDOWNS \in Nat
  BY GuardFields, ClaimsAssumption DEF CounterInv
<1>2. PICK w \in Nat : w = g.wrong_entries + 1
  BY <1>1
<1> DEFINE f == [g EXCEPT !.wrong_entries = w]
<1>3. f.wrong_entries = w /\ f.cooldowns = g.cooldowns /\ f.locked = g.locked /\ f.blocked = g.blocked
  BY DEF GuardRows
<1>4. CASE w < MAX_WRONG_ENTRIES
  <2>1. AfterWrong(g) = f
    BY <1>1, <1>2, <1>3, <1>4 DEF AfterWrong, Exhausted, GuardRows
  <2>2. f \in GuardRows
    BY <1>1, <1>4 DEF GuardRows
  <2>3. CounterInv(f, n + 1)
    <3>1. PICK q \in Nat : q = g.cooldowns * MAX_WRONG_ENTRIES
      BY <1>1
    <3> QED BY <1>1, <1>2, <1>3, <3>1 DEF CounterInv
  <2> QED BY <1>3, <2>1, <2>2, <2>3
<1>5. CASE ~(w < MAX_WRONG_ENTRIES)
  <2>1. w = MAX_WRONG_ENTRIES
    BY <1>1, <1>2, <1>5
  <2>2. PICK k \in 0 .. MAX_COOLDOWNS : k = g.cooldowns + 1
    BY <1>1
  <2>3. PICK u \in MaybeTime : u = now + COOLDOWN
    BY TimesType DEF MaybeTime
  <2>4. PICK b \in BOOLEAN : b = (g.locked \/ k >= MAX_COOLDOWNS)
    BY GuardFields
  <2>5. AfterWrong(g) = [f EXCEPT !.wrong_entries = 0, !.cooldowns = k, !.cooldown_until = u, !.locked = b]
    BY <1>1, <1>2, <1>3, <2>1, <2>2, <2>3, <2>4 DEF AfterWrong, Exhausted, GuardRows
  <2>6. PICK h : h = [f EXCEPT !.wrong_entries = 0, !.cooldowns = k, !.cooldown_until = u, !.locked = b]
    OBVIOUS
  <2>7. /\ [f EXCEPT !.wrong_entries = 0, !.cooldowns = k, !.cooldown_until = u, !.locked = TRUE] \in GuardRows
        /\ [f EXCEPT !.wrong_entries = 0, !.cooldowns = k, !.cooldown_until = u, !.locked = FALSE] \in GuardRows
    <3>1. 0 \in 0 .. MAX_WRONG_ENTRIES - 1
      BY <1>1
    <3> QED BY <3>1 DEF GuardRows
  <2>8. h \in GuardRows
    BY <2>4, <2>6, <2>7
  <2>9. h.wrong_entries = 0 /\ h.cooldowns = k /\ h.locked = b /\ h.blocked = g.blocked
    BY <2>6 DEF GuardRows
  <2>10. b <=> k = MAX_COOLDOWNS
    <3>1. k >= MAX_COOLDOWNS <=> k = MAX_COOLDOWNS
      BY <1>1, <2>2
    <3> QED BY <2>4, <3>1, Zenon
  <2>11. n + 1 = k * MAX_WRONG_ENTRIES + 0
    <3>1. k * MAX_WRONG_ENTRIES = g.cooldowns * MAX_WRONG_ENTRIES + MAX_WRONG_ENTRIES
      BY <1>1, <2>2, Products
    <3>2. PICK q \in Nat : q = g.cooldowns * MAX_WRONG_ENTRIES
      BY <1>1
    <3>3. n = q + g.wrong_entries
      BY <3>2 DEF CounterInv
    <3> QED BY <1>1, <1>2, <2>1, <3>1, <3>2, <3>3
  <2>12. CounterInv(h, n + 1)
    BY <2>9, <2>10, <2>11 DEF CounterInv
  <2> QED BY <2>5, <2>6, <2>8, <2>9, <2>12
<1> QED BY <1>4, <1>5
-----------------------------------------------------------------------------
(* The rows of the table, and what one command does to them.                *)

LEMMA Rows ==
    ASSUME ClaimTypeOK
    PROVE  /\ Len(claims) \in Nat /\ Ids = 1 .. Len(claims)
           /\ claims \in Seq(ClaimRows) /\ claims \in [Ids -> ClaimRows]
           /\ \A c \in Ids : claims[c] \in ClaimRows /\ Pair(c) \in Pairs
<1>1. claims \in Seq(ClaimRows)
  BY DEF ClaimTypeOK
<1>2. Len(claims) \in Nat /\ Ids = 1 .. Len(claims) /\ claims \in [Ids -> ClaimRows]
  BY <1>1, LenProperties DEF Ids
<1>3. \A c \in Ids : claims[c] \in ClaimRows
  BY <1>2
<1>4. \A c \in Ids : Pair(c) \in Pairs
  BY <1>3, ClaimFields DEF Pair, Pairs
<1> QED BY <1>1, <1>2, <1>3, <1>4

\* A sequence of rows with the same ids.
LEMMA NewRows ==
    ASSUME ClaimTypeOK, NEW s, s \in [Ids -> ClaimRows]
    PROVE  s \in Seq(ClaimRows) /\ DOMAIN s = Ids
<1>1. PICK n \in Nat : Ids = 1 .. n
  BY Rows
<1>2. s \in [1 .. n -> ClaimRows]
  BY <1>1
<1>3. s \in Seq(ClaimRows)
  BY <1>2, SeqDef
<1> QED BY <1>3

LEMMA OneRow ==
    ASSUME ClaimTypeOK, NEW c \in Ids, NEW x \in ClaimRows, claims' = [claims EXCEPT ![c] = x]
    PROVE  /\ claims' \in Seq(ClaimRows) /\ Ids' = Ids /\ claims'[c] = x
           /\ \A d \in Ids : d # c => claims'[d] = claims[d]
<1>1. claims \in [Ids -> ClaimRows]
  BY Rows
<1>2. claims' \in [Ids -> ClaimRows] /\ claims'[c] = x /\ \A d \in Ids : d # c => claims'[d] = claims[d]
  BY <1>1
<1>3. claims' \in Seq(ClaimRows) /\ DOMAIN claims' = Ids
  BY <1>2, NewRows
<1> QED BY <1>2, <1>3 DEF Ids

\* The owners stay right in a step that leaves them, and approves no claim and takes no
\* approval back.
LEMMA OwnerFrame ==
    ASSUME ClaimTypeOK, OneOwner, owner' = owner, Ids \subseteq Ids',
           \A d \in Ids : /\ claims'[d].listing = claims[d].listing /\ claims'[d].claimant = claims[d].claimant
                          /\ claims'[d].status = "approved" <=> claims[d].status = "approved",
           \A d \in Ids' \ Ids : claims'[d].status # "approved"
    PROVE  OneOwner'
<1> SUFFICES ASSUME NEW l \in Listings
             PROVE  LET approved == {c \in Ids' : claims'[c].listing = l /\ claims'[c].status = "approved"}
                    IN IF owner'[l] = None THEN approved = {}
                       ELSE \E c \in approved : approved = {c} /\ claims'[c].claimant = owner'[l]
  BY DEF OneOwner
<1> DEFINE before == {c \in Ids : claims[c].listing = l /\ claims[c].status = "approved"}
           after  == {c \in Ids' : claims'[c].listing = l /\ claims'[c].status = "approved"}
<1>1. after = before
  OBVIOUS
<1>2. IF owner[l] = None THEN before = {} ELSE \E c \in before : before = {c} /\ claims[c].claimant = owner[l]
  BY DEF OneOwner
<1> QED BY <1>1, <1>2

\* One command that leaves the owner, writes the row x for claim c.
LEMMA OneRowKeeps ==
    ASSUME ClaimTypeOK, OneOwner, NoDeadCodeMailed, owner' = owner, now' = now,
           NEW c \in Ids, NEW x, Same(x, claims[c]), claims' = [claims EXCEPT ![c] = x],
           x.status = "approved" <=> claims[c].status = "approved",
           Sendable(x) => x.status \in {"pending_verification", "disputed"} /\ x.method = "domain_email"
    PROVE  OneOwner' /\ NoDeadCodeMailed'
<1>1. /\ Ids' = Ids /\ claims'[c] = x
      /\ \A d \in Ids : d # c => claims'[d] = claims[d]
  BY OneRow DEF Same
<1>2. OneOwner'
  BY <1>1, OwnerFrame DEF Same
<1>3. Over(x)
  BY DEF Same, NoDeadCodeMailed, Over
<1>4. NoDeadCodeMailed'
  BY <1>1, <1>3 DEF NoDeadCodeMailed, Open, Sendable, Over
<1> QED BY <1>2, <1>4

-----------------------------------------------------------------------------
(* The queue.                                                               *)

HasDispute(open, c) == \E i \in open : i.type = "claim_dispute" /\ i.claim = c
HasItem(open, type, p) == \E i \in open : i.type = type /\ <<i.listing, i.claimant>> = p

DisputeQueue == \A c \in Ids : claims[c].status = "disputed" <=> HasDispute(items, c)
PairQueue == \A p \in Pairs : /\ guard[p].locked <=> HasItem(items, "verification_lock", p)
                              /\ guard[p].blocked <=> HasItem(items, "claim_block", p)

LEMMA QueueParts == /\ QueueComplete <=> DisputeQueue /\ PairQueue
                    /\ QueueComplete' <=> DisputeQueue' /\ PairQueue'
BY DEF QueueComplete, DisputeQueue, PairQueue, HasDispute, HasItem

\* A step that touches the disputes of no claim but c.
LEMMA DisputeFrame ==
    ASSUME DisputeQueue, NEW c, Ids' \subseteq Ids \cup {c},
           \A d \in Ids : d # c => (claims'[d].status = "disputed" <=> claims[d].status = "disputed"),
           \A d \in Ids : d # c => (HasDispute(items', d) <=> HasDispute(items, d)),
           c \in Ids' => (claims'[c].status = "disputed" <=> HasDispute(items', c))
    PROVE  DisputeQueue'
BY DEF DisputeQueue

\* A step that touches the locks and blocks of no pair but p.
LEMMA PairFrame ==
    ASSUME PairQueue, NEW p,
           \A q \in Pairs : q # p => guard'[q] = guard[q],
           \A q \in Pairs : q # p => /\ HasItem(items', "verification_lock", q) <=> HasItem(items, "verification_lock", q)
                                     /\ HasItem(items', "claim_block", q) <=> HasItem(items, "claim_block", q),
           p \in Pairs => /\ guard'[p].locked <=> HasItem(items', "verification_lock", p)
                          /\ guard'[p].blocked <=> HasItem(items', "claim_block", p)
    PROVE  PairQueue'
BY DEF PairQueue

\* open_item of a dispute: nothing else is opened, and the item is there.
LEMMA OpenDispute ==
    ASSUME ClaimTypeOK, UniqueItems, NEW c, NEW l \in Listings, NEW u \in Claimants, NEW n \in Nat,
           items' = Disputed(c, l, u, n)
    PROVE  /\ HasDispute(items', c) /\ \A d : d # c => (HasDispute(items', d) <=> HasDispute(items, d))
           /\ \A t \in {"verification_lock", "claim_block"} : \A q : HasItem(items', t, q) <=> HasItem(items, t, q)
           /\ UniqueItems'
           /\ \A i \in items' : i \in items \/ i = DisputeItem(c, l, u, n)
<1> DEFINE j == DisputeItem(c, l, u, n)
<1>1. j.type = "claim_dispute" /\ j.claim = c
  BY DEF DisputeItem
<1>2. CASE \E i \in items : i.type = "claim_dispute" /\ i.claim = c
  BY <1>2 DEF Disputed, HasDispute, HasItem, UniqueItems
<1>3. CASE ~\E i \in items : i.type = "claim_dispute" /\ i.claim = c
  <2>1. items' = items \cup {j}
    BY <1>3 DEF Disputed
  <2> HIDE DEF j
  <2>2. HasDispute(items', c) /\ \A d : d # c => (HasDispute(items', d) <=> HasDispute(items, d))
    BY <1>1, <2>1 DEF HasDispute
  <2>3. \A t \in {"verification_lock", "claim_block"} : \A q : HasItem(items', t, q) <=> HasItem(items, t, q)
    BY <1>1, <2>1 DEF HasItem
  <2>4. UniqueItems'
    BY <1>1, <2>1 DEF UniqueItems, Unique
  <2> QED BY <2>1, <2>2, <2>3, <2>4 DEF j
<1> QED BY <1>2, <1>3

\* The dispute of a claim is closed.
LEMMA CloseDispute ==
    ASSUME UniqueItems, NEW c, NEW left, left = items \ ClosedItems(c)
    PROVE  /\ ~HasDispute(left, c) /\ \A d : d # c => (HasDispute(left, d) <=> HasDispute(items, d))
           /\ \A t \in {"verification_lock", "claim_block"} : \A q : HasItem(left, t, q) <=> HasItem(items, t, q)
BY DEF ClosedItems, HasDispute, HasItem

\* open_item of a lock or a block.
LEMMA OpenPair ==
    ASSUME NEW open, NEW t \in {"verification_lock", "claim_block"}, NEW p \in Pairs, NEW c,
           Unique(open), NEW new, new = PairItem(open, t, p, c)
    PROVE  /\ HasItem(new, t, p) /\ \A q : q # p => (HasItem(new, t, q) <=> HasItem(open, t, q))
           /\ \A s \in {"verification_lock", "claim_block"} : \A q : s # t => (HasItem(new, s, q) <=> HasItem(open, s, q))
           /\ \A d : HasDispute(new, d) <=> HasDispute(open, d)
           /\ Unique(new)
           /\ \A i \in new : i \in open \/ i = [type |-> t, listing |-> p[1], claimant |-> p[2], claim |-> c,
                                                created |-> now, stamp |-> 0]
<1>1. PICK k : k = [type |-> t, listing |-> p[1], claimant |-> p[2], claim |-> c, created |-> now, stamp |-> 0]
  OBVIOUS
<1>2. k.type = t /\ <<k.listing, k.claimant>> = p
  BY <1>1 DEF Pairs
<1>3. CASE \E i \in open : i.type = t /\ <<i.listing, i.claimant>> = p
  BY <1>3 DEF PairItem, HasDispute, HasItem
<1>4. CASE ~\E i \in open : i.type = t /\ <<i.listing, i.claimant>> = p
  <2>1. new = open \cup {k}
    BY <1>1, <1>4 DEF PairItem
  <2>2. HasItem(new, t, p) /\ \A q : q # p => (HasItem(new, t, q) <=> HasItem(open, t, q))
    BY <1>2, <2>1 DEF HasItem
  <2>3. \A s \in {"verification_lock", "claim_block"} : \A q : s # t => (HasItem(new, s, q) <=> HasItem(open, s, q))
    BY <1>2, <2>1 DEF HasItem
  <2>4. \A d : HasDispute(new, d) <=> HasDispute(open, d)
    BY <1>2, <2>1 DEF HasDispute
  <2>5. Unique(new)
    BY <1>2, <1>4, <2>1 DEF PairOf, Unique
  <2> QED BY <1>1, <2>1, <2>2, <2>3, <2>4, <2>5
<1> QED BY <1>3, <1>4
-----------------------------------------------------------------------------
(* What is left of a step: types, counters, and the steps that touch no row. *)

NoticeType == lastNotice \in [Editors -> [at : Times, upto : Nat] \cup {None}] /\ arrivals \in Nat

LEMMA Noticed ==
    ASSUME ClaimTypeOK, NEW n \in Nat, Notify(n) \/ Quiet(n)
    PROVE  NoticeType'
<1>1. now \in Times /\ arrivals \in Nat /\ lastNotice \in [Editors -> [at : Times, upto : Nat] \cup {None}]
  BY TimesType DEF ClaimTypeOK
<1>2. CASE Quiet(n)
  BY <1>1, <1>2 DEF Quiet, NoticeType
<1>3. CASE Notify(n)
  <2>0. PICK m \in Nat : m = arrivals + n
    BY <1>1
  <2>1. PICK r \in [at : Times, upto : Nat] : r = [at |-> now, upto |-> arrivals + n]
    BY <1>1, <2>0
  <2>2. lastNotice' = [o \in Editors |-> IF o \in Due THEN r ELSE lastNotice[o]] /\ arrivals' = arrivals + n
    BY <1>3, <2>1 DEF Notify
  <2> QED BY <1>1, <2>2 DEF NoticeType
<1> QED BY <1>2, <1>3

LEMMA ItemTypes ==
    ASSUME ClaimTypeOK, Ids \subseteq Ids', \A i \in items' : i \in items \/ i \in ItemRows'
    PROVE  items' \subseteq ItemRows'
BY DEF ClaimTypeOK, ItemRows

\* The state after a command on a claim.
LEMMA CommandType ==
    ASSUME ClaimTypeOK, NEW c, Unlock(c), Ids' = Ids, claims' \in Seq(ClaimRows),
           owner' \in [Listings -> Claimants \cup {None}], guard' \in [Pairs -> GuardRows],
           items' \subseteq ItemRows', NoticeType', guesses' \in [Pairs -> Nat]
    PROVE  ClaimTypeOK'
BY DEF ClaimTypeOK, Unlock, NoticeType

LEMMA OneGuard ==
    ASSUME ClaimTypeOK, NEW p \in Pairs, NEW g \in GuardRows, guard' = [guard EXCEPT ![p] = g]
    PROVE  /\ guard' \in [Pairs -> GuardRows] /\ guard'[p] = g
           /\ \A q \in Pairs : q # p => guard'[q] = guard[q]
BY DEF ClaimTypeOK

LEMMA Counters ==
    ASSUME ClaimTypeOK, NEW p \in Pairs
    PROVE  guard[p] \in GuardRows /\ guesses[p] \in Nat
BY DEF ClaimTypeOK

\* A step that writes none of the counters of wrong codes.
LEMMA BudgetFrame ==
    ASSUME BudgetInv, NEW p, guesses' = guesses,
           \A q \in Pairs : q # p => guard'[q] = guard[q],
           p \in Pairs => /\ guard'[p].wrong_entries = guard[p].wrong_entries
                          /\ guard'[p].cooldowns = guard[p].cooldowns
                          /\ guard'[p].locked = guard[p].locked
    PROVE  BudgetInv'
<1> SUFFICES ASSUME NEW q \in Pairs PROVE CounterInv(guard'[q], guesses'[q])
  BY DEF BudgetInv
<1>1. CounterInv(guard[q], guesses[q])
  BY DEF BudgetInv
<1>2. /\ guard'[q].wrong_entries = guard[q].wrong_entries
      /\ guard'[q].cooldowns = guard[q].cooldowns
      /\ guard'[q].locked = guard[q].locked
  OBVIOUS
<1> QED BY <1>1, <1>2 DEF CounterInv

\* What an owner may not lose in a step: the action of OwnerKept.
OwnerStep ==
    \A l \in Listings : owner[l] # None /\ owner'[l] # owner[l] =>
        \E c \in Ids : /\ claims[c].status = "disputed" /\ claims'[c].status = "approved"
                       /\ claims'[c].method = "manual" /\ claims'[c].claimant = owner'[l]

Good == IInv' /\ OwnerStep

LEMMA SameOwner == ASSUME owner' = owner PROVE OwnerStep
BY DEF OwnerStep

LEMMA Untouched ==
    ASSUME IInv, UNCHANGED <<caseVars, guesses>>, now' \in 0 .. MaxTime, now' = now \/ now' = now + 1,
           locked' \subseteq Ids,
           submitting' \in [Claimants -> [listing : Listings, seen : Claimants \cup {None}] \cup {None}],
           matches' \in [Listings -> BOOLEAN], NoticeType'
    PROVE  Good
<1>1. ClaimTypeOK'
  BY DEF IInv, ClaimTypeOK, NoticeType, caseVars, Ids, ItemRows
<1>2. OneOwner' /\ NoDeadCodeMailed'
  <2>1. OneOwner'
    BY DEF IInv, OneOwner, caseVars, Ids
  <2>2. ASSUME NEW t \in Times, t > now' PROVE t > now
    BY <2>2, ClaimsAssumption DEF Times, IInv, ClaimTypeOK
  <2>3. ASSUME NEW t \in Times, t <= now PROVE t <= now'
    BY <2>3, ClaimsAssumption DEF Times, IInv, ClaimTypeOK
  <2>4. \A c \in Ids : claims[c].mail_until \in MaybeTime /\ claims[c].replaced \in SUBSET Times
    BY Rows, ClaimFields DEF IInv
  <2>5. claims' = claims /\ Ids' = Ids
    BY DEF caseVars, Ids
  <2>6. NoDeadCodeMailed
    BY DEF IInv
  <2>7. NoDeadCodeMailed'
    BY <2>2, <2>3, <2>4, <2>5, <2>6 DEF NoDeadCodeMailed, Open, MaybeTime
  <2> QED BY <2>1, <2>7
<1>3. QueueComplete' /\ UniqueItems'
  BY DEF IInv, QueueComplete, UniqueItems, caseVars, Ids
<1>4. BudgetInv'
  BY DEF IInv, BudgetInv, CounterInv, caseVars
<1>5. OwnerStep
  BY SameOwner DEF caseVars
<1> QED BY <1>1, <1>2, <1>3, <1>4, <1>5 DEF Good, IInv

LEMMA TickGood == ASSUME IInv, Tick PROVE Good
<1>1. now' \in 0 .. MaxTime
  BY ClaimsAssumption DEF IInv, ClaimTypeOK, Tick
<1> QED BY <1>1, Untouched DEF IInv, ClaimTypeOK, Tick, noticeVars, NoticeType, Ids

LEMMA FlushGood == ASSUME IInv, FlushNotices PROVE Good
<1>1. now \in Times /\ arrivals \in Nat /\ lastNotice \in [Editors -> [at : Times, upto : Nat] \cup {None}]
  BY TimesType DEF IInv, ClaimTypeOK
<1>2. PICK r \in [at : Times, upto : Nat] : r = [at |-> now, upto |-> arrivals]
  BY <1>1
<1>3. lastNotice' = [o \in Editors |-> IF o \in Told THEN r ELSE lastNotice[o]] /\ arrivals' = arrivals
  BY <1>2 DEF FlushNotices
<1>4. NoticeType'
  BY <1>1, <1>3 DEF NoticeType
<1> QED BY <1>4, Untouched DEF IInv, ClaimTypeOK, FlushNotices

LEMMA EligibilityGood == ASSUME IInv, NEW l \in Listings, EligibilityChanges(l) PROVE Good
<1>1. matches' \in [Listings -> BOOLEAN]
  BY DEF IInv, ClaimTypeOK, EligibilityChanges
<1> QED BY <1>1, Untouched DEF IInv, ClaimTypeOK, EligibilityChanges, noticeVars, NoticeType

LEMMA SubmitReadGood == ASSUME IInv, NEW u \in Claimants, NEW l \in Listings, SubmitRead(u, l) PROVE Good
<1>1. PICK s \in [listing : Listings, seen : Claimants \cup {None}] : s = [listing |-> l, seen |-> owner[l]]
  BY DEF IInv, ClaimTypeOK
<1>2. submitting' = [submitting EXCEPT ![u] = s]
  BY <1>1 DEF SubmitRead
<1>3. submitting' \in [Claimants -> [listing : Listings, seen : Claimants \cup {None}] \cup {None}]
  BY <1>2 DEF IInv, ClaimTypeOK
<1> QED BY <1>3, Untouched DEF IInv, ClaimTypeOK, SubmitRead, noticeVars, NoticeType

LEMMA LockGood == ASSUME IInv, NEW c \in Ids, LockClaim(c) \/ Refuse(c) PROVE Good
<1>1. locked' \subseteq Ids
  BY DEF IInv, ClaimTypeOK, LockClaim, Refuse, Unlock
<1> QED BY <1>1, Untouched DEF IInv, ClaimTypeOK, LockClaim, Refuse, Unlock, noticeVars, NoticeType

-----------------------------------------------------------------------------
(* The commands.                                                            *)

\* A command that leaves the owners, the queue and the wrong codes: it writes the row x
\* for the claim and leaves the status, and the guard of the pair keeps its counters.
LEMMA QuietCommand ==
    ASSUME IInv, NEW c \in Ids, Unlock(c), NEW x, Same(x, claims[c]), claims' = [claims EXCEPT ![c] = x],
           x.status = claims[c].status, Open(c), Sendable(x) => x.method = "domain_email",
           UNCHANGED <<owner, items, guesses>>, NoticeType',
           NEW g \in GuardRows, guard' = [guard EXCEPT ![Pair(c)] = g],
           g.wrong_entries = guard[Pair(c)].wrong_entries, g.cooldowns = guard[Pair(c)].cooldowns,
           g.locked = guard[Pair(c)].locked, g.blocked = guard[Pair(c)].blocked
    PROVE  Good
<1>1. ClaimTypeOK /\ claims[c] \in ClaimRows /\ Pair(c) \in Pairs
  BY Rows DEF IInv
<1>2. claims' \in Seq(ClaimRows) /\ Ids' = Ids /\ claims'[c] = x /\ \A d \in Ids : d # c => claims'[d] = claims[d]
  BY <1>1, OneRow DEF Same
<1>3. guard' \in [Pairs -> GuardRows] /\ guard'[Pair(c)] = g /\ \A q \in Pairs : q # Pair(c) => guard'[q] = guard[q]
  BY <1>1, OneGuard
<1>4. OneOwner' /\ NoDeadCodeMailed'
  BY <1>1, OneRowKeeps DEF IInv, Open, Unlock
<1>5. DisputeQueue'
  BY <1>2, QueueParts DEF IInv, DisputeQueue
<1>6. PairQueue'
  BY <1>1, <1>3, QueueParts DEF IInv, PairQueue
<1>7. BudgetInv'
  BY <1>1, <1>3, BudgetFrame DEF IInv
<1>8. items' \subseteq ItemRows'
  BY <1>1, <1>2, ItemTypes
<1>9. ClaimTypeOK'
  <2>1. owner' \in [Listings -> Claimants \cup {None}] /\ guesses' \in [Pairs -> Nat]
    BY <1>1 DEF ClaimTypeOK
  <2> QED BY <1>1, <1>2, <1>3, <1>8, <2>1, CommandType
<1>10. UniqueItems'
  BY DEF IInv, UniqueItems
<1> QED BY <1>4, <1>5, <1>6, <1>7, <1>9, <1>10, SameOwner, QueueParts DEF Good, IInv

LEMMA SameGuard ==
    ASSUME ClaimTypeOK, NEW p \in Pairs, guard' = guard
    PROVE  guard' = [guard EXCEPT ![p] = guard[p]] /\ guard[p] \in GuardRows
BY DEF ClaimTypeOK

\* claim.start_verification.
LEMMA StartGood == ASSUME IInv, NEW c \in Ids, StartVerification(c) PROVE Good
<1>1. ClaimTypeOK /\ claims[c] \in ClaimRows /\ Pair(c) \in Pairs /\ now \in 0 .. MaxTime
  BY Rows DEF IInv, ClaimTypeOK
<1>2. Unlock(c) /\ Verifiable(c) /\ Open(c) /\ claims[c].method = "domain_email" /\ UNCHANGED <<owner, items, guesses>>
  BY DEF StartVerification, Verifiable
<1>3. NoticeType'
  BY <1>1, Noticed DEF StartVerification
<1>4. guard[Pair(c)] \in GuardRows
  BY <1>1, Counters
<1>5. CASE claims' = [claims EXCEPT ![c] = FlippedToManual(claims[c])] /\ guard' = guard
  <2>1. PICK x : x = FlippedToManual(claims[c])
    OBVIOUS
  <2>2. Same(x, claims[c]) /\ x.status = claims[c].status /\ ~Sendable(x)
    BY <1>1, <2>1, ClaimWrites
  <2>3. guard' = [guard EXCEPT ![Pair(c)] = guard[Pair(c)]]
    BY <1>1, <1>5, SameGuard
  <2>4. claims' = [claims EXCEPT ![c] = x]
    BY <1>5, <2>1
  <2> QED BY <1>2, <1>3, <1>4, <2>2, <2>3, <2>4, QuietCommand
<1>6. CASE /\ MaySend(guard[Pair(c)])
           /\ claims' = [claims EXCEPT ![c] = WithCode(claims[c])]
           /\ guard' = [guard EXCEPT ![Pair(c)] = AfterSend(guard[Pair(c)])]
  <2>1. PICK x : x = WithCode(claims[c])
    OBVIOUS
  <2>2. Same(x, claims[c]) /\ x.status = claims[c].status /\ x.method = claims[c].method
    BY <1>1, <2>1, ClaimWrites
  <2>3. PICK g : g = AfterSend(guard[Pair(c)])
    OBVIOUS
  <2>4. /\ g \in GuardRows /\ g.wrong_entries = guard[Pair(c)].wrong_entries
        /\ g.cooldowns = guard[Pair(c)].cooldowns
        /\ g.locked = guard[Pair(c)].locked /\ g.blocked = guard[Pair(c)].blocked
    BY <1>1, <1>4, <1>6, <2>3, GuardSend
  <2>5. claims' = [claims EXCEPT ![c] = x] /\ guard' = [guard EXCEPT ![Pair(c)] = g]
    BY <1>6, <2>1, <2>3
  <2> QED BY <1>2, <1>3, <2>2, <2>4, <2>5, QuietCommand
<1> QED BY <1>5, <1>6 DEF StartVerification

\* claim.verify with a wrong code.
LEMMA WrongGood == ASSUME IInv, NEW c \in Ids, EnterWrongCode(c) PROVE Good
<1> DEFINE p == Pair(c)
           g == AfterWrong(guard[p])
           x == IF g.locked THEN FlippedToManual(claims[c])
                ELSE IF g.cooldowns > guard[p].cooldowns THEN [claims[c] EXCEPT !.code = FALSE] ELSE claims[c]
<1>1. ClaimTypeOK /\ claims[c] \in ClaimRows /\ p \in Pairs /\ now \in 0 .. MaxTime
  BY Rows DEF IInv, ClaimTypeOK
<1>2. Unlock(c) /\ Verifiable(c) /\ Open(c) /\ claims[c].method = "domain_email" /\ ~guard[p].locked
  BY DEF EnterWrongCode, CodeUsable, Verifiable
<1>3. /\ guard' = [guard EXCEPT ![p] = g] /\ claims' = [claims EXCEPT ![c] = x]
      /\ items' = (IF g.locked THEN PairItem(items, "verification_lock", p, c) ELSE items)
      /\ guesses' = [guesses EXCEPT ![p] = @ + 1] /\ owner' = owner
  BY DEF EnterWrongCode
<1>4. NoticeType'
  BY <1>1, Noticed DEF EnterWrongCode
<1>5. g \in GuardRows /\ g.blocked = guard[p].blocked /\ CounterInv(g, guesses[p] + 1)
  <2>1. guard[p] \in GuardRows /\ guesses[p] \in Nat
    BY <1>1, Counters
  <2>2. CounterInv(guard[p], guesses[p])
    BY <1>1 DEF IInv, BudgetInv
  <2> HIDE DEF p
  <2> QED BY <1>1, <1>2, <2>1, <2>2, GuardWrong
<1>6. Same(x, claims[c]) /\ x.status = claims[c].status /\ (Sendable(x) => x.method = "domain_email")
  <2>1. /\ Same(FlippedToManual(claims[c]), claims[c]) /\ FlippedToManual(claims[c]).status = claims[c].status
        /\ ~Sendable(FlippedToManual(claims[c]))
    BY <1>1, ClaimWrites
  <2>2. LET w == [claims[c] EXCEPT !.code = FALSE]
        IN Same(w, claims[c]) /\ w.status = claims[c].status /\ w.method = claims[c].method
    BY <1>1, ClaimDecisions
  <2>3. Same(claims[c], claims[c])
    BY <1>1 DEF Same
  <2> HIDE DEF g, p
  <2> QED BY <1>2, <2>1, <2>2, <2>3
<1> HIDE DEF g, x, p
<1>7. claims' \in Seq(ClaimRows) /\ Ids' = Ids /\ claims'[c] = x /\ \A d \in Ids : d # c => claims'[d] = claims[d]
  BY <1>1, <1>3, <1>6, OneRow DEF Same
<1>8. guard' \in [Pairs -> GuardRows] /\ guard'[p] = g /\ \A q \in Pairs : q # p => guard'[q] = guard[q]
  BY <1>1, <1>3, <1>5, OneGuard
<1>9. OneOwner' /\ NoDeadCodeMailed'
  BY <1>1, <1>2, <1>3, <1>6, OneRowKeeps DEF IInv, Open, Unlock
<1>10. BudgetInv'
  <2>1. guesses'[p] = guesses[p] + 1 /\ \A q \in Pairs : q # p => guesses'[q] = guesses[q]
    BY <1>1, <1>3 DEF ClaimTypeOK
  <2>2. \A q \in Pairs : CounterInv(guard[q], guesses[q])
    BY DEF IInv, BudgetInv
  <2>3. ASSUME NEW q \in Pairs PROVE CounterInv(guard'[q], guesses'[q])
    <3>1. CASE q = p
      BY <1>5, <1>8, <2>1, <3>1
    <3>2. CASE q # p
      BY <1>8, <2>1, <2>2, <3>2
    <3> QED BY <3>1, <3>2
  <2> QED BY <2>3 DEF BudgetInv
<1>11. guesses' \in [Pairs -> Nat]
  BY <1>1, <1>3 DEF ClaimTypeOK
<1>12. DisputeQueue' /\ PairQueue' /\ UniqueItems' /\ items' \subseteq ItemRows'
  <2>1. DisputeQueue /\ PairQueue /\ UniqueItems
    BY QueueParts DEF IInv
  <2>2. CASE g.locked
    <3>1. items' = PairItem(items, "verification_lock", p, c)
      BY <1>3, <2>2
    <3>2. /\ HasItem(items', "verification_lock", p)
          /\ \A q : q # p => (HasItem(items', "verification_lock", q) <=> HasItem(items, "verification_lock", q))
          /\ \A q : HasItem(items', "claim_block", q) <=> HasItem(items, "claim_block", q)
          /\ \A d : HasDispute(items', d) <=> HasDispute(items, d)
          /\ UniqueItems'
      BY <1>1, <2>1, <3>1, OpenPair DEF UniqueItems
    <3>3. DisputeQueue'
      BY <1>6, <1>7, <2>1, <3>2 DEF DisputeQueue
    <3>4. PairQueue'
      BY <1>1, <1>5, <1>8, <2>1, <2>2, <3>2 DEF PairQueue
    <3>5. [type |-> "verification_lock", listing |-> p[1], claimant |-> p[2], claim |-> c,
           created |-> now, stamp |-> 0] \in ItemRows'
      BY <1>1, <1>7, TimesType DEF ItemRows, Pairs
    <3>6. \A i \in items' : i \in items \/ i \in ItemRows'
      BY <1>1, <2>1, <3>1, <3>5 DEF PairItem
    <3> QED BY <1>1, <1>7, <3>2, <3>3, <3>4, <3>6, ItemTypes
  <2>3. CASE ~g.locked
    <3>1. items' = items
      BY <1>3, <2>3
    <3>2. DisputeQueue'
      BY <1>6, <1>7, <2>1, <3>1 DEF DisputeQueue
    <3>3. PairQueue'
      BY <1>1, <1>2, <1>5, <1>8, <2>1, <2>3, <3>1 DEF PairQueue
    <3>4. UniqueItems'
      BY <2>1, <3>1 DEF UniqueItems
    <3> QED BY <1>1, <1>7, <3>1, <3>2, <3>3, <3>4, ItemTypes
  <2> QED BY <2>2, <2>3
<1>13. ClaimTypeOK'
  <2>1. owner' \in [Listings -> Claimants \cup {None}]
    BY <1>1, <1>3 DEF ClaimTypeOK
  <2> QED BY <1>1, <1>2, <1>4, <1>7, <1>8, <1>11, <1>12, <2>1, CommandType
<1> QED BY <1>3, <1>9, <1>10, <1>12, <1>13, SameOwner, QueueParts DEF Good, IInv

LEMMA Fewer ==
    ASSUME NEW open, Unique(open), NEW left, left \subseteq open
    PROVE  Unique(left)
BY DEF Unique

\* The claim goes to the disputes with the row it has now (by).
LEMMA DisputeGood ==
    ASSUME IInv, NEW c \in Ids, Unlock(c), Open(c), NEW by, Same(by, claims[c]),
           (Sendable(by) <=> Sendable(claims[c])), by.method = claims[c].method,
           ToDispute(c, by), UNCHANGED <<guard, guesses>>
    PROVE  Good
<1>1. ClaimTypeOK /\ claims[c] \in ClaimRows /\ now \in 0 .. MaxTime /\ arrivals \in Nat
  BY Rows DEF IInv, ClaimTypeOK
<1>2. PICK x : x = [by EXCEPT !.status = "disputed"]
  OBVIOUS
<1>3. Same(x, claims[c]) /\ x.status = "disputed" /\ (Sendable(x) <=> Sendable(claims[c])) /\ x.method = claims[c].method
  BY <1>2, ClaimDecisions DEF Same
<1>4. claims' = [claims EXCEPT ![c] = x] /\ owner' = owner
  BY <1>2 DEF ToDispute
<1>5. claims' \in Seq(ClaimRows) /\ Ids' = Ids /\ claims'[c] = x /\ \A d \in Ids : d # c => claims'[d] = claims[d]
  BY <1>1, <1>3, <1>4, OneRow DEF Same
<1>6. OneOwner' /\ NoDeadCodeMailed'
  <2>1. Sendable(x) => x.method = "domain_email"
    BY <1>3 DEF IInv, NoDeadCodeMailed, Sendable
  <2>2. claims[c].status # "approved"
    BY DEF Open
  <2> QED BY <1>1, <1>3, <1>4, <2>1, <2>2, OneRowKeeps DEF IInv, Unlock
<1>7. PICK l \in Listings : l = claims[c].listing
  BY <1>1, ClaimFields
<1>8. PICK u \in Claimants : u = claims[c].claimant
  BY <1>1, ClaimFields
<1>9. items' = Disputed(c, l, u, 1)
  BY <1>7, <1>8 DEF ToDispute
<1>10. DisputeQueue /\ PairQueue /\ UniqueItems
  BY QueueParts DEF IInv
<1>11. /\ HasDispute(items', c) /\ \A d : d # c => (HasDispute(items', d) <=> HasDispute(items, d))
       /\ \A t \in {"verification_lock", "claim_block"} : \A q : HasItem(items', t, q) <=> HasItem(items, t, q)
       /\ UniqueItems'
       /\ \A i \in items' : i \in items \/ i = DisputeItem(c, l, u, 1)
  BY <1>1, <1>9, <1>10, OpenDispute
<1>12. DisputeQueue'
  BY <1>3, <1>5, <1>10, <1>11, DisputeFrame
<1>13. PairQueue'
  BY <1>10, <1>11 DEF PairQueue
<1>14. BudgetInv'
  BY DEF IInv, BudgetInv
<1>15. DisputeItem(c, l, u, 1) \in ItemRows'
  <2>1. PICK n \in Nat : n = arrivals + 1
    BY <1>1
  <2> QED BY <1>1, <1>5, <2>1, TimesType DEF DisputeItem, ItemRows
<1>16. items' \subseteq ItemRows'
  BY <1>1, <1>5, <1>11, <1>15, ItemTypes
<1>17. NoticeType'
  BY <1>1, Noticed DEF ToDispute
<1>18. ClaimTypeOK'
  <2>1. /\ owner' \in [Listings -> Claimants \cup {None}] /\ guesses' \in [Pairs -> Nat]
        /\ guard' \in [Pairs -> GuardRows]
    BY <1>1, <1>4 DEF ClaimTypeOK
  <2> QED BY <1>1, <1>5, <1>16, <1>17, <2>1, CommandType
<1> QED BY <1>4, <1>6, <1>11, <1>12, <1>13, <1>14, <1>18, SameOwner, QueueParts DEF Good, IInv

\* The rows after _approve_claim: c is approved, no other claim of the listing is.
LEMMA ApprovedRows ==
    ASSUME IInv, NEW c \in Ids, Open(c), NEW by, Same(by, claims[c]), ApproveClaim(c, by)
    PROVE  /\ claims' \in Seq(ClaimRows) /\ Ids' = Ids
           /\ claims'[c].status = "approved" /\ ~Sendable(claims'[c]) /\ claims'[c].method = by.method
           /\ \A d \in Ids : Same(claims'[d], claims[d])
           /\ \A d \in Ids : d # c => /\ claims'[d].status = "disputed" <=> claims[d].status = "disputed"
                                      /\ claims'[d].status = "approved" <=>
                                            claims[d].status = "approved" /\ claims[d].listing # claims[c].listing
                                      /\ Sendable(claims'[d]) =>
                                            claims'[d] = claims[d] \/ claims[d].status = "approved"
                                      /\ Sendable(claims'[d]) => Sendable(claims[d])
<1>1. ClaimTypeOK /\ now \in 0 .. MaxTime /\ \A d \in Ids : claims[d] \in ClaimRows
  BY Rows DEF IInv, ClaimTypeOK
<1> DEFINE l == claims[c].listing
           New(d) == IF d = c THEN Decided(by, "approved")
                     ELSE IF d \in Superseded(l, c) THEN [claims[d] EXCEPT !.status = "superseded"]
                     ELSE IF d \in Losers(l, c) THEN Decided(claims[d], "rejected")
                     ELSE claims[d]
<1>2. claims' = [d \in Ids |-> New(d)]
  BY DEF ApproveClaim
<1>a. /\ New(c) = Decided(by, "approved")
      /\ \A d \in Ids : d # c /\ d \in Superseded(l, c) => New(d) = [claims[d] EXCEPT !.status = "superseded"]
      /\ \A d \in Ids : d # c /\ d \notin Superseded(l, c) /\ d \in Losers(l, c) => New(d) = Decided(claims[d], "rejected")
      /\ \A d \in Ids : d # c /\ d \notin Superseded(l, c) /\ d \notin Losers(l, c) => New(d) = claims[d]
  OBVIOUS
<1> HIDE DEF New
<1>3. /\ Same(New(c), claims[c]) /\ New(c).status = "approved" /\ ~Sendable(New(c))
      /\ New(c).method = by.method
  <2>1. by \in ClaimRows
    BY DEF Same
  <2>2. LET x == Decided(by, "approved")
        IN Same(x, by) /\ x.status = "approved" /\ ~Sendable(x) /\ x.method = by.method
    BY <1>1, <2>1, ClaimDecided, ZenonT(20)
  <2> QED BY <1>a, <2>2 DEF Same
<1>4. ASSUME NEW d \in Ids, d # c
      PROVE  /\ Same(New(d), claims[d])
             /\ New(d).status = "disputed" <=> claims[d].status = "disputed"
             /\ New(d).status = "approved" <=> claims[d].status = "approved" /\ claims[d].listing # l
             /\ Sendable(New(d)) => New(d) = claims[d] \/ claims[d].status = "approved"
             /\ Sendable(New(d)) => Sendable(claims[d])
  <2>1. CASE d \in Superseded(l, c)
    <3>1. claims[d].listing = l /\ claims[d].status = "approved"
      BY <2>1 DEF Superseded
    <3>2. New(d) = [claims[d] EXCEPT !.status = "superseded"]
      BY <1>4, <1>a, <2>1
    <3>3. LET x == [claims[d] EXCEPT !.status = "superseded"]
          IN Same(x, claims[d]) /\ x.status = "superseded" /\ (Sendable(x) <=> Sendable(claims[d]))
      <4> HIDE DEF l
      <4>1. claims[d] \in ClaimRows
        BY <1>1
      <4> QED BY <4>1, ClaimDecisions, ZenonT(20)
    <3> QED BY <3>1, <3>2, <3>3
  <2>2. CASE d \notin Superseded(l, c) /\ d \in Losers(l, c)
    <3>1. claims[d].status = "pending_verification"
      BY <2>2 DEF Losers
    <3>2. New(d) = Decided(claims[d], "rejected")
      BY <1>4, <1>a, <2>2
    <3>3. LET x == Decided(claims[d], "rejected")
          IN Same(x, claims[d]) /\ x.status = "rejected" /\ ~Sendable(x)
      <4> HIDE DEF l
      <4>1. claims[d] \in ClaimRows
        BY <1>1
      <4> QED BY <1>1, <4>1, ClaimDecided, ZenonT(20)
    <3> QED BY <3>1, <3>2, <3>3
  <2>3. CASE d \notin Superseded(l, c) /\ d \notin Losers(l, c)
    <3>1. New(d) = claims[d]
      BY <1>4, <1>a, <2>3
    <3>2. ~(claims[d].listing = l /\ claims[d].status = "approved")
      BY <1>4, <2>3 DEF Superseded
    <3> QED BY <1>1, <3>1, <3>2 DEF Same
  <2> QED BY <2>1, <2>2, <2>3
<1>5. claims' \in [Ids -> ClaimRows] /\ \A d \in Ids : claims'[d] = New(d)
  BY <1>2, <1>3, <1>4 DEF Same
<1>6. claims' \in Seq(ClaimRows) /\ Ids' = Ids
  BY <1>1, <1>5, NewRows DEF Ids
<1> QED BY <1>3, <1>4, <1>5, <1>6

\* claim.verify and claim.approve where they give the listing to the claimant.
LEMMA ApprovalKeeps ==
    ASSUME IInv, NEW c \in Ids, Unlock(c), Open(c), NEW by, Same(by, claims[c]), ApproveClaim(c, by),
           items' = items \ ClosedItems(c), Quiet(0), UNCHANGED <<guard, guesses>>
    PROVE  IInv'
<1>1. ClaimTypeOK /\ claims[c] \in ClaimRows /\ owner \in [Listings -> Claimants \cup {None}]
  BY Rows DEF IInv, ClaimTypeOK
<1>2. PICK l \in Listings : l = claims[c].listing
  BY <1>1, ClaimFields
<1>3. PICK u \in Claimants : u = claims[c].claimant
  BY <1>1, ClaimFields
<1>4. owner' = [owner EXCEPT ![l] = u]
  BY <1>2, <1>3 DEF ApproveClaim
<1>5. /\ claims' \in Seq(ClaimRows) /\ Ids' = Ids
      /\ claims'[c].status = "approved" /\ ~Sendable(claims'[c])
      /\ \A d \in Ids : Same(claims'[d], claims[d])
  BY ApprovedRows
<1>6. \A d \in Ids : d # c => /\ claims'[d].status = "disputed" <=> claims[d].status = "disputed"
                              /\ claims'[d].status = "approved" <=> claims[d].status = "approved" /\ claims[d].listing # l
  BY <1>2, ApprovedRows
<1>7. OneOwner'
  <2> SUFFICES ASSUME NEW k \in Listings
               PROVE  LET approved == {d \in Ids' : claims'[d].listing = k /\ claims'[d].status = "approved"}
                      IN IF owner'[k] = None THEN approved = {}
                         ELSE \E d \in approved : approved = {d} /\ claims'[d].claimant = owner'[k]
    BY DEF OneOwner
  <2> DEFINE before == {d \in Ids : claims[d].listing = k /\ claims[d].status = "approved"}
             after  == {d \in Ids' : claims'[d].listing = k /\ claims'[d].status = "approved"}
  <2>1. CASE k = l
    <3>1. after = {c} /\ claims'[c].claimant = u
      BY <1>2, <1>3, <1>5, <1>6, <2>1 DEF Same
    <3>2. owner'[k] = u /\ u # None
      BY <1>1, <1>4, <2>1, ClaimsAssumption
    <3> QED BY <3>1, <3>2
  <2>2. CASE k # l
    <3>1. after = before
      BY <1>2, <1>5, <1>6, <2>2 DEF Same, Open
    <3>2. owner'[k] = owner[k]
      BY <1>1, <1>4, <2>2
    <3>3. IF owner[k] = None THEN before = {} ELSE \E d \in before : before = {d} /\ claims[d].claimant = owner[k]
      BY DEF IInv, OneOwner
    <3> QED BY <1>5, <3>1, <3>2, <3>3 DEF Same
  <2> QED BY <2>1, <2>2
<1>8. NoDeadCodeMailed'
  <2>1. \A d \in Ids : /\ Sendable(claims[d]) => /\ claims[d].status \in {"pending_verification", "disputed"}
                                                /\ claims[d].method = "domain_email"
                       /\ Over(claims[d])
    BY DEF IInv, NoDeadCodeMailed, Open, Sendable, Over
  <2>2. \A d \in Ids : Over(claims'[d])
    BY <1>5, <2>1 DEF Same
  <2>3. ASSUME NEW d \in Ids, Sendable(claims'[d])
        PROVE  /\ claims'[d].status \in {"pending_verification", "disputed"}
               /\ claims'[d].method = "domain_email"
    <3>1. d # c
      BY <1>5, <2>3
    <3>2. Sendable(claims[d]) /\ (claims'[d] = claims[d] \/ claims[d].status = "approved")
      BY <2>3, <3>1, ApprovedRows
    <3> QED BY <2>1, <3>2
  <2>4. now' = now
    BY DEF Unlock
  <2> QED BY <1>5, <2>2, <2>3, <2>4 DEF NoDeadCodeMailed, Open, Sendable, Over
<1>9. DisputeQueue /\ PairQueue /\ UniqueItems
  BY QueueParts DEF IInv
<1>10. /\ ~HasDispute(items', c) /\ \A d : d # c => (HasDispute(items', d) <=> HasDispute(items, d))
       /\ \A t \in {"verification_lock", "claim_block"} : \A q : HasItem(items', t, q) <=> HasItem(items, t, q)
  BY <1>9, CloseDispute
<1>11. DisputeQueue'
  BY <1>5, <1>6, <1>9, <1>10, DisputeFrame
<1>12. PairQueue'
  BY <1>9, <1>10 DEF PairQueue
<1>13. UniqueItems' /\ BudgetInv'
  BY <1>9, Fewer DEF IInv, BudgetInv, UniqueItems
<1>14. items' \subseteq ItemRows'
  BY <1>1, <1>5, ItemTypes
<1>15. NoticeType'
  BY <1>1, Noticed
<1>16. ClaimTypeOK'
  <2>1. /\ owner' \in [Listings -> Claimants \cup {None}] /\ guesses' \in [Pairs -> Nat]
        /\ guard' \in [Pairs -> GuardRows]
    BY <1>1, <1>4 DEF ClaimTypeOK
  <2> QED BY <1>1, <1>5, <1>14, <1>15, <2>1, CommandType
<1> QED BY <1>7, <1>8, <1>11, <1>12, <1>13, <1>16, QueueParts DEF IInv

\* claim.verify with the code issued last.
LEMMA CorrectGood == ASSUME IInv, NEW c \in Ids, EnterCorrectCode(c) PROVE Good
<1>1. ClaimTypeOK /\ claims[c] \in ClaimRows /\ Pair(c) \in Pairs
  BY Rows DEF IInv
<1>2. Unlock(c) /\ Open(c) /\ claims[c].method = "domain_email" /\ UNCHANGED <<guard, guesses>>
  BY DEF EnterCorrectCode, CodeUsable, Verifiable
<1>3. PICK v : v = [claims[c] EXCEPT !.verified = TRUE, !.code = FALSE]
  OBVIOUS
<1>4. Same(v, claims[c]) /\ v.status = claims[c].status /\ (Sendable(v) <=> Sendable(claims[c])) /\ v.method = claims[c].method
  BY <1>1, <1>3, ClaimDecisions
<1>5. CASE claims' = [claims EXCEPT ![c] = v] /\ Quiet(0) /\ UNCHANGED <<owner, items>>
  <2>1. NoticeType'
    BY <1>1, <1>5, Noticed
  <2>2. guard' = [guard EXCEPT ![Pair(c)] = guard[Pair(c)]] /\ guard[Pair(c)] \in GuardRows
    BY <1>1, <1>2, SameGuard
  <2> QED BY <1>2, <1>4, <1>5, <2>1, <2>2, QuietCommand
<1>6. CASE /\ claims[c].status # "disputed" /\ MayTake(c)
           /\ ApproveClaim(c, v) /\ Quiet(0) /\ UNCHANGED items
  <2>1. ClosedItems(c) = {}
    BY <1>6, QueueParts DEF IInv, DisputeQueue, HasDispute, ClosedItems
  <2>2. items' = items \ ClosedItems(c)
    BY <1>6, <2>1
  <2>3. IInv'
    BY <1>2, <1>4, <1>6, <2>2, ApprovalKeeps
  <2>4. OwnerStep
    <3>1. owner' = [owner EXCEPT ![claims[c].listing] = claims[c].claimant] /\ owner[claims[c].listing] = None
      BY <1>6 DEF ApproveClaim, MayTake
    <3>2. owner \in [Listings -> Claimants \cup {None}]
      BY <1>1 DEF ClaimTypeOK
    <3> QED BY <3>1, <3>2 DEF OwnerStep
  <2> QED BY <2>3, <2>4 DEF Good
<1>7. CASE ToDispute(c, v)
  BY <1>2, <1>4, <1>7, DisputeGood
<1> QED BY <1>3, <1>5, <1>6, <1>7 DEF EnterCorrectCode

\* claim.approve.
LEMMA ApproveGood == ASSUME IInv, NEW o, NEW c \in Ids, NEW t, Approve(o, c, t) PROVE Good
<1>1. ClaimTypeOK /\ claims[c] \in ClaimRows
  BY Rows DEF IInv
<1>2. Unlock(c) /\ Open(c) /\ UNCHANGED <<guard, guesses>>
  BY DEF Approve
<1>3. PICK m : m = [claims[c] EXCEPT !.method = "manual", !.verified = TRUE]
  OBVIOUS
<1>4. Same(m, claims[c]) /\ m.method = "manual"
  BY <1>1, <1>3, ClaimDecisions
<1>5. CASE ToDispute(c, claims[c])
  <2>1. Same(claims[c], claims[c])
    BY <1>1 DEF Same
  <2> QED BY <1>2, <1>5, <2>1, DisputeGood
<1>6. CASE /\ claims[c].status = "disputed" \/ owner[claims[c].listing] = None
           /\ ApproveClaim(c, m) /\ items' = items \ ClosedItems(c) /\ Quiet(0)
  <2>1. IInv'
    BY <1>2, <1>4, <1>6, ApprovalKeeps
  <2>2. OwnerStep
    <3>1. owner' = [owner EXCEPT ![claims[c].listing] = claims[c].claimant]
      BY <1>6 DEF ApproveClaim
    <3>2. owner \in [Listings -> Claimants \cup {None}]
      BY <1>1 DEF ClaimTypeOK
    <3>3. claims'[c].status = "approved" /\ claims'[c].method = "manual" /\ Same(claims'[c], claims[c])
      BY <1>2, <1>4, <1>6, ApprovedRows
    <3> QED BY <1>6, <3>1, <3>2, <3>3 DEF OwnerStep, Same
  <2> QED BY <2>1, <2>2 DEF Good
<1> QED BY <1>3, <1>5, <1>6 DEF Approve

\* claim.reject.
LEMMA RejectGood == ASSUME IInv, NEW o, NEW c \in Ids, Reject(o, c) PROVE Good
<1> DEFINE p == Pair(c)
           g == AfterRejection(guard[p])
           x == Decided(claims[c], "rejected")
           left == items \ ClosedItems(c)
<1>1. ClaimTypeOK /\ claims[c] \in ClaimRows /\ p \in Pairs /\ now \in 0 .. MaxTime
  BY Rows DEF IInv, ClaimTypeOK
<1>2. Unlock(c) /\ Open(c) /\ owner' = owner /\ guesses' = guesses
  BY DEF Reject
<1>3. /\ claims' = [claims EXCEPT ![c] = x] /\ guard' = [guard EXCEPT ![p] = g]
      /\ items' = (IF g.blocked /\ ~guard[p].blocked THEN PairItem(left, "claim_block", p, c) ELSE left)
  BY DEF Reject
<1>4. NoticeType'
  BY <1>1, Noticed DEF Reject
<1>5. guard[p] \in GuardRows
  BY <1>1, Counters
<1>6. /\ g \in GuardRows /\ g.wrong_entries = guard[p].wrong_entries /\ g.cooldowns = guard[p].cooldowns
      /\ g.locked = guard[p].locked /\ (guard[p].blocked => g.blocked)
  <2> HIDE DEF p
  <2> QED BY <1>5, GuardReject
<1>7. Same(x, claims[c]) /\ x.status = "rejected" /\ ~Sendable(x)
  <2> HIDE DEF p, g, left
  <2> QED BY <1>1, ClaimDecided, ZenonT(20)
<1> HIDE DEF g, x, p
<1>8. claims' \in Seq(ClaimRows) /\ Ids' = Ids /\ claims'[c] = x /\ \A d \in Ids : d # c => claims'[d] = claims[d]
  BY <1>1, <1>3, <1>7, OneRow DEF Same
<1>9. guard' \in [Pairs -> GuardRows] /\ guard'[p] = g /\ \A q \in Pairs : q # p => guard'[q] = guard[q]
  BY <1>1, <1>3, <1>6, OneGuard
<1>10. OneOwner' /\ NoDeadCodeMailed'
  <2>1. claims[c].status # "approved"
    BY <1>2 DEF Open
  <2> QED BY <1>1, <1>2, <1>3, <1>7, <2>1, OneRowKeeps DEF IInv, Unlock
<1>11. BudgetInv'
  BY <1>1, <1>2, <1>6, <1>9, BudgetFrame DEF IInv
<1>12. DisputeQueue /\ PairQueue /\ UniqueItems /\ Unique(left)
  BY QueueParts, Fewer DEF IInv, UniqueItems
<1>13. /\ ~HasDispute(left, c) /\ \A d : d # c => (HasDispute(left, d) <=> HasDispute(items, d))
       /\ \A t \in {"verification_lock", "claim_block"} : \A q : HasItem(left, t, q) <=> HasItem(items, t, q)
  BY <1>12, CloseDispute
<1>14. \A i \in left : i \in items
  OBVIOUS
<1> HIDE DEF left
<1>15. /\ \A d : HasDispute(items', d) <=> HasDispute(left, d)
       /\ \A q : HasItem(items', "verification_lock", q) <=> HasItem(items, "verification_lock", q)
       /\ \A q \in Pairs : q # p => (HasItem(items', "claim_block", q) <=> HasItem(items, "claim_block", q))
       /\ g.blocked <=> HasItem(items', "claim_block", p)
       /\ UniqueItems' /\ items' \subseteq ItemRows'
  <2>1. guard[p].blocked <=> HasItem(items, "claim_block", p)
    BY <1>1, <1>12 DEF PairQueue
  <2>2. CASE g.blocked /\ ~guard[p].blocked
    <3>1. items' = PairItem(left, "claim_block", p, c)
      BY <1>3, <2>2
    <3>2. /\ HasItem(items', "claim_block", p)
          /\ \A q : q # p => (HasItem(items', "claim_block", q) <=> HasItem(left, "claim_block", q))
          /\ \A q : HasItem(items', "verification_lock", q) <=> HasItem(left, "verification_lock", q)
          /\ \A d : HasDispute(items', d) <=> HasDispute(left, d)
          /\ Unique(items')
      BY <1>1, <1>12, <3>1, OpenPair
    <3>3. [type |-> "claim_block", listing |-> p[1], claimant |-> p[2], claim |-> c,
           created |-> now, stamp |-> 0] \in ItemRows'
      BY <1>1, <1>8, TimesType DEF ItemRows, Pairs
    <3>4. \A i \in items' : i \in items \/ i \in ItemRows'
      BY <1>14, <3>1, <3>3 DEF PairItem
    <3>5. items' \subseteq ItemRows'
      BY <1>1, <1>8, <3>4, ItemTypes
    <3> QED BY <1>13, <2>2, <3>2, <3>5 DEF UniqueItems
  <2>3. CASE ~(g.blocked /\ ~guard[p].blocked)
    <3>1. items' = left
      BY <1>3, <2>3
    <3>2. g.blocked <=> guard[p].blocked
      BY <1>6, <2>3
    <3>3. items' \subseteq ItemRows'
      BY <1>1, <1>8, <1>14, <3>1, ItemTypes
    <3> QED BY <1>12, <1>13, <2>1, <3>1, <3>2, <3>3 DEF UniqueItems
  <2> QED BY <2>2, <2>3
<1>16. DisputeQueue'
  BY <1>7, <1>8, <1>12, <1>13, <1>15, DisputeFrame
<1>17. PairQueue'
  BY <1>1, <1>6, <1>9, <1>12, <1>15 DEF PairQueue
<1>18. ClaimTypeOK'
  <2>1. owner' \in [Listings -> Claimants \cup {None}] /\ guesses' \in [Pairs -> Nat]
    BY <1>1, <1>2 DEF ClaimTypeOK
  <2> QED BY <1>1, <1>2, <1>4, <1>8, <1>9, <1>15, <2>1, CommandType
<1> QED BY <1>2, <1>10, <1>11, <1>15, <1>16, <1>17, <1>18, SameOwner, QueueParts DEF Good, IInv

-----------------------------------------------------------------------------
(* The queue's own commands.                                                *)

LEMMA ItemFields ==
    ASSUME ClaimTypeOK, NEW i \in items
    PROVE  <<i.listing, i.claimant>> \in Pairs
BY DEF ClaimTypeOK, ItemRows, Pairs

\* An item of a pair closes: the pair has no other one of the type.
LEMMA ClosePair ==
    ASSUME UniqueItems, NEW i \in items, i.type \in {"verification_lock", "claim_block"}, NEW left, left = items \ {i}
    PROVE  /\ ~HasItem(left, i.type, PairOf(i))
           /\ \A q : q # PairOf(i) => (HasItem(left, i.type, q) <=> HasItem(items, i.type, q))
           /\ \A t, q : t # i.type => (HasItem(left, t, q) <=> HasItem(items, t, q))
           /\ \A d : HasDispute(left, d) <=> HasDispute(items, d)
BY DEF UniqueItems, Unique, HasItem, HasDispute, PairOf

LEMMA UnlockGood == ASSUME IInv, NEW o, NEW i \in items, UnlockVerification(o, i) PROVE Good
<1> DEFINE p == PairOf(i)
           g == Unlocked(guard[p])
<1>1. ClaimTypeOK /\ p \in Pairs /\ i.type = "verification_lock" /\ guard[p] \in GuardRows
  BY ItemFields, Counters DEF IInv, UnlockVerification, PairOf
<1>2. DisputeQueue /\ PairQueue /\ UniqueItems
  BY QueueParts DEF IInv
<1>3. guard[p].locked
  BY <1>1, <1>2 DEF PairQueue, HasItem, PairOf
<1>4. guard' = [guard EXCEPT ![p] = g] /\ guesses' = [guesses EXCEPT ![p] = 0] /\ items' = items \ {i}
  BY <1>3 DEF UnlockVerification, PairOf
<1>5. UNCHANGED <<now, owner, claims, noticeVars, locked, submitting, matches>>
  BY DEF UnlockVerification
<1>6. g \in GuardRows /\ g.locked = FALSE /\ g.blocked = guard[p].blocked /\ CounterInv(g, 0)
  <2> HIDE DEF p
  <2> QED BY <1>1, GuardUnlock
<1>7. /\ ~HasItem(items', "verification_lock", p)
      /\ \A q : q # p => (HasItem(items', "verification_lock", q) <=> HasItem(items, "verification_lock", q))
      /\ \A q : HasItem(items', "claim_block", q) <=> HasItem(items, "claim_block", q)
      /\ \A d : HasDispute(items', d) <=> HasDispute(items, d)
  BY <1>1, <1>2, <1>4, ClosePair
<1> HIDE DEF p, g
<1>8. guard' \in [Pairs -> GuardRows] /\ guard'[p] = g /\ \A q \in Pairs : q # p => guard'[q] = guard[q]
  BY <1>1, <1>4, <1>6, OneGuard
<1>9. PairQueue'
  BY <1>1, <1>2, <1>6, <1>7, <1>8 DEF PairQueue
<1>10. DisputeQueue'
  BY <1>2, <1>5, <1>7 DEF DisputeQueue, Ids
<1>11. UniqueItems'
  BY <1>2, <1>4, Fewer DEF UniqueItems
<1>12. BudgetInv'
  <2>1. guesses'[p] = 0 /\ \A q \in Pairs : q # p => guesses'[q] = guesses[q]
    BY <1>1, <1>4 DEF ClaimTypeOK
  <2>2. \A q \in Pairs : CounterInv(guard[q], guesses[q])
    BY DEF IInv, BudgetInv
  <2>3. ASSUME NEW q \in Pairs PROVE CounterInv(guard'[q], guesses'[q])
    <3>1. CASE q = p
      BY <1>6, <1>8, <2>1, <3>1
    <3>2. CASE q # p
      BY <1>8, <2>1, <2>2, <3>2
    <3> QED BY <3>1, <3>2
  <2> QED BY <2>3 DEF BudgetInv
<1>13. ClaimTypeOK'
  BY <1>1, <1>4, <1>5, <1>8 DEF ClaimTypeOK, Ids, ItemRows, noticeVars
<1>14. OneOwner' /\ NoDeadCodeMailed'
  BY <1>5 DEF IInv, OneOwner, NoDeadCodeMailed, Open, Ids
<1> QED BY <1>5, <1>9, <1>10, <1>11, <1>12, <1>13, <1>14, SameOwner, QueueParts DEF Good, IInv

LEMMA UnblockGood == ASSUME IInv, NEW o, NEW i \in items, UnblockClaims(o, i) PROVE Good
<1> DEFINE p == PairOf(i)
           g == [guard[p] EXCEPT !.blocked = FALSE]
<1>1. ClaimTypeOK /\ p \in Pairs /\ i.type = "claim_block" /\ guard[p] \in GuardRows
  BY ItemFields, Counters DEF IInv, UnblockClaims, PairOf
<1>2. DisputeQueue /\ PairQueue /\ UniqueItems
  BY QueueParts DEF IInv
<1>3. guard' = [guard EXCEPT ![p] = g] /\ items' = items \ {i}
  BY DEF UnblockClaims, PairOf
<1>4. UNCHANGED <<now, owner, claims, noticeVars, locked, submitting, matches, guesses>>
  BY DEF UnblockClaims
<1>5. /\ g \in GuardRows /\ g.wrong_entries = guard[p].wrong_entries /\ g.cooldowns = guard[p].cooldowns
      /\ g.locked = guard[p].locked /\ g.blocked = FALSE
  <2> HIDE DEF p
  <2> QED BY <1>1, GuardUnlock
<1>6. /\ ~HasItem(items', "claim_block", p)
      /\ \A q : q # p => (HasItem(items', "claim_block", q) <=> HasItem(items, "claim_block", q))
      /\ \A q : HasItem(items', "verification_lock", q) <=> HasItem(items, "verification_lock", q)
      /\ \A d : HasDispute(items', d) <=> HasDispute(items, d)
  BY <1>1, <1>2, <1>3, ClosePair
<1> HIDE DEF p, g
<1>7. guard' \in [Pairs -> GuardRows] /\ guard'[p] = g /\ \A q \in Pairs : q # p => guard'[q] = guard[q]
  BY <1>1, <1>3, <1>5, OneGuard
<1>8. PairQueue'
  BY <1>1, <1>2, <1>5, <1>6, <1>7 DEF PairQueue
<1>9. DisputeQueue'
  BY <1>2, <1>4, <1>6 DEF DisputeQueue, Ids
<1>10. UniqueItems'
  BY <1>2, <1>3, Fewer DEF UniqueItems
<1>11. BudgetInv'
  BY <1>1, <1>4, <1>5, <1>7, BudgetFrame DEF IInv
<1>12. ClaimTypeOK'
  BY <1>1, <1>3, <1>4, <1>7 DEF ClaimTypeOK, Ids, ItemRows, noticeVars
<1>13. OneOwner' /\ NoDeadCodeMailed'
  BY <1>4 DEF IInv, OneOwner, NoDeadCodeMailed, Open, Ids
<1> QED BY <1>4, <1>8, <1>9, <1>10, <1>11, <1>12, <1>13, SameOwner, QueueParts DEF Good, IInv

-----------------------------------------------------------------------------
(* claim.submit: the new claim has the next id, which no item is about.     *)

LEMMA AppendRow ==
    ASSUME ClaimTypeOK, NEW x \in ClaimRows, claims' = Append(claims, x)
    PROVE  /\ claims' \in Seq(ClaimRows) /\ Ids' = Ids \cup {Len(claims) + 1} /\ Len(claims) + 1 \notin Ids
           /\ claims'[Len(claims) + 1] = x /\ \A d \in Ids : claims'[d] = claims[d]
<1>1. Len(claims) \in Nat /\ Ids = 1 .. Len(claims) /\ claims \in Seq(ClaimRows)
  BY Rows
<1>2. /\ claims' \in Seq(ClaimRows) /\ Len(claims') = Len(claims) + 1
      /\ \A i \in 1 .. Len(claims) : claims'[i] = claims[i] /\ claims'[Len(claims) + 1] = x
  BY <1>1, AppendProperties
<1>3. claims'[Len(claims) + 1] = x
  BY <1>1, AppendProperties
<1>4. Ids' = 1 .. Len(claims')
  BY <1>2, LenProperties DEF Ids
<1> QED BY <1>1, <1>2, <1>3, <1>4

\* The row of a submission, with or without its first code.
LEMMA Submitted ==
    ASSUME ClaimTypeOK, NEW l \in Listings, NEW u \in Claimants, NEW m \in {"manual", "domain_email"},
           NEW x, \/ x = NewClaim(l, u, m)
                  \/ x = WithCode(NewClaim(l, u, m)) /\ m = "domain_email"
    PROVE  /\ x \in ClaimRows /\ x.listing = l /\ x.claimant = u /\ x.status = "pending_verification"
           /\ Sendable(x) => x.method = "domain_email"
           /\ Over(x)
<1>1. now \in 0 .. MaxTime /\ arrivals \in Nat
  BY DEF ClaimTypeOK
<1>2. PICK n : n = NewClaim(l, u, m)
  OBVIOUS
<1>3. /\ n \in ClaimRows /\ n.listing = l /\ n.claimant = u /\ n.status = "pending_verification"
      /\ n.method = m /\ ~Sendable(n) /\ Over(n)
  BY <1>1, <1>2, NewClaimType
<1>4. Same(WithCode(n), n) /\ WithCode(n).status = n.status /\ WithCode(n).method = n.method
  BY <1>1, <1>3, ClaimWrites
<1> QED BY <1>2, <1>3, <1>4 DEF Same

LEMMA SubmitGood ==
    ASSUME IInv, NEW u \in Claimants, NEW method \in {"manual", "domain_email"}, SubmitClaim(u, method)
    PROVE  Good
<1> DEFINE s == submitting[u]
           l == s.listing
           p == <<l, u>>
           c == Len(claims) + 1
           effective == IF method = "domain_email" /\ ~Eligible(p) THEN "manual" ELSE method
           starts == effective = "domain_email" /\ MaySend(guard[p])
           new == IF starts THEN WithCode(NewClaim(l, u, effective)) ELSE NewClaim(l, u, effective)
           disputes == s.seen # None
           row == IF disputes THEN [new EXCEPT !.status = "disputed"] ELSE new
<1>1. ClaimTypeOK /\ now \in 0 .. MaxTime /\ arrivals \in Nat
  BY DEF IInv, ClaimTypeOK
<1>2. /\ s # None /\ submitting' = [submitting EXCEPT ![u] = None]
      /\ UNCHANGED <<now, locked, matches, guesses>>
  BY DEF SubmitClaim
<1>3. l \in Listings /\ p \in Pairs
  BY <1>1, <1>2 DEF ClaimTypeOK, Pairs
<1>4. submitting' \in [Claimants -> [listing : Listings, seen : Claimants \cup {None}] \cup {None}]
  BY <1>1, <1>2 DEF ClaimTypeOK
<1>5. CASE UNCHANGED <<caseVars, noticeVars>>
  BY <1>1, <1>2, <1>4, <1>5, Untouched DEF ClaimTypeOK, NoticeType, noticeVars
<1>6. CASE /\ claims' = Append(claims, row)
           /\ guard' = (IF starts THEN [guard EXCEPT ![p] = AfterSend(@)] ELSE guard)
           /\ items' = (IF disputes THEN Disputed(c, l, u, 2) ELSE items)
           /\ Notify(2) \/ Notify(1) \/ Quiet(1)
           /\ owner' = owner
  <2>1. NoticeType'
    BY <1>1, <1>6, Noticed
  <2>2. /\ row \in ClaimRows /\ row.listing = l /\ row.claimant = u
        /\ row.status = (IF disputes THEN "disputed" ELSE "pending_verification")
        /\ Sendable(row) => row.method = "domain_email"
        /\ Over(row)
    <3>1. effective \in {"manual", "domain_email"}
      OBVIOUS
    <3>2. PICK x : x = new
      OBVIOUS
    <3>3. \/ x = NewClaim(l, u, effective)
          \/ x = WithCode(NewClaim(l, u, effective)) /\ effective = "domain_email"
      BY <3>2
    <3> HIDE DEF effective, l
    <3>4. /\ x \in ClaimRows /\ x.listing = l /\ x.claimant = u /\ x.status = "pending_verification"
          /\ Sendable(x) => x.method = "domain_email"
          /\ Over(x)
      BY <1>1, <1>3, <3>1, <3>3, Submitted
    <3>5. LET d == [x EXCEPT !.status = "disputed"]
          IN Same(d, x) /\ d.status = "disputed" /\ (Sendable(d) <=> Sendable(x)) /\ d.method = x.method
      BY <3>4, ClaimDecisions
    <3>6. row = IF disputes THEN [x EXCEPT !.status = "disputed"] ELSE x
      BY <3>2
    <3> HIDE DEF row, disputes
    <3> QED BY <3>4, <3>5, <3>6 DEF Same
  <2>3. /\ guard' \in [Pairs -> GuardRows] /\ \A q \in Pairs : q # p => guard'[q] = guard[q]
        /\ guard'[p].wrong_entries = guard[p].wrong_entries /\ guard'[p].cooldowns = guard[p].cooldowns
        /\ guard'[p].locked = guard[p].locked /\ guard'[p].blocked = guard[p].blocked
    <3> HIDE DEF p, effective
    <3>1. CASE starts
      <4>1. guard[p] \in GuardRows /\ MaySend(guard[p])
        BY <1>1, <1>3, <3>1, Counters
      <4>2. PICK g : g = AfterSend(guard[p])
        OBVIOUS
      <4>3. /\ g \in GuardRows /\ g.wrong_entries = guard[p].wrong_entries /\ g.cooldowns = guard[p].cooldowns
            /\ g.locked = guard[p].locked /\ g.blocked = guard[p].blocked
        BY <1>1, <4>1, <4>2, GuardSend
      <4>4. guard' = [guard EXCEPT ![p] = g]
        BY <1>6, <3>1, <4>2
      <4> QED BY <1>1, <1>3, <4>3, <4>4, OneGuard
    <3>2. CASE ~starts
      BY <1>1, <1>6, <3>2 DEF ClaimTypeOK
    <3> QED BY <3>1, <3>2
  <2>4. claims' = Append(claims, row) /\ owner' = owner
    BY <1>6
  <2>5. items' = IF disputes THEN Disputed(c, l, u, 2) ELSE items
    BY <1>6
  <2> HIDE DEF row, disputes, p, l
  <2>6. /\ claims' \in Seq(ClaimRows) /\ Ids' = Ids \cup {c} /\ c \notin Ids
        /\ claims'[c] = row /\ \A d \in Ids : claims'[d] = claims[d]
    BY <1>1, <2>2, <2>4, AppendRow
  <2> HIDE DEF c
  <2>7. OneOwner'
    <3>1. row.status # "approved"
      BY <2>2
    <3> QED BY <1>1, <2>4, <2>6, <3>1, OwnerFrame DEF IInv
  <2>8. NoDeadCodeMailed'
    BY <1>2, <2>2, <2>6 DEF IInv, NoDeadCodeMailed, Open, Sendable, Over
  <2>9. DisputeQueue /\ PairQueue /\ UniqueItems
    BY QueueParts DEF IInv
  <2>10. ~HasDispute(items, c)
    BY <1>1, <2>6 DEF ClaimTypeOK, ItemRows, HasDispute
  <2>11. DisputeQueue' /\ PairQueue' /\ UniqueItems' /\ items' \subseteq ItemRows'
    <3>1. CASE disputes
      <4>1. items' = Disputed(c, l, u, 2) /\ row.status = "disputed"
        BY <2>2, <2>5, <3>1
      <4>2. /\ HasDispute(items', c) /\ \A d : d # c => (HasDispute(items', d) <=> HasDispute(items, d))
            /\ \A t \in {"verification_lock", "claim_block"} : \A q : HasItem(items', t, q) <=> HasItem(items, t, q)
            /\ UniqueItems'
            /\ \A i \in items' : i \in items \/ i = DisputeItem(c, l, u, 2)
        BY <1>1, <1>3, <2>9, <4>1, OpenDispute
      <4>3. DisputeQueue'
        BY <2>6, <2>9, <4>1, <4>2, DisputeFrame
      <4>4. PairQueue'
        BY <2>3, <2>9, <4>2 DEF PairQueue
      <4>5. DisputeItem(c, l, u, 2) \in ItemRows'
        <5>1. PICK n \in Nat : n = arrivals + 2
          BY <1>1
        <5> QED BY <1>1, <1>3, <2>6, <5>1, TimesType DEF DisputeItem, ItemRows
      <4>6. items' \subseteq ItemRows'
        BY <1>1, <2>6, <4>2, <4>5, ItemTypes
      <4> QED BY <4>2, <4>3, <4>4, <4>6
    <3>2. CASE ~disputes
      <4>1. items' = items /\ row.status = "pending_verification"
        BY <2>2, <2>5, <3>2
      <4>2. DisputeQueue'
        BY <2>6, <2>9, <2>10, <4>1, DisputeFrame
      <4>3. PairQueue'
        BY <2>3, <2>9, <4>1 DEF PairQueue
      <4>4. UniqueItems'
        BY <2>9, <4>1 DEF UniqueItems
      <4> QED BY <1>1, <2>6, <4>1, <4>2, <4>3, <4>4, ItemTypes
    <3> QED BY <3>1, <3>2
  <2>12. BudgetInv'
    BY <1>2, <2>3, BudgetFrame DEF IInv
  <2>13. ClaimTypeOK'
    <3>1. locked' \subseteq Ids'
      BY <1>1, <1>2, <2>6 DEF ClaimTypeOK
    <3> QED BY <1>1, <1>2, <1>4, <2>1, <2>3, <2>4, <2>6, <2>11, <3>1 DEF ClaimTypeOK, NoticeType
  <2> QED BY <2>4, <2>7, <2>8, <2>11, <2>12, <2>13, SameOwner, QueueParts DEF Good, IInv
<1> QED
  <2>1. \/ UNCHANGED <<caseVars, noticeVars>>
        \/ /\ claims' = Append(claims, row)
           /\ guard' = (IF starts THEN [guard EXCEPT ![p] = AfterSend(@)] ELSE guard)
           /\ items' = (IF disputes THEN Disputed(c, l, u, 2) ELSE items)
           /\ Notify(2) \/ Notify(1) \/ Quiet(1)
           /\ owner' = owner
    BY DEF SubmitClaim
  <2> QED BY <1>5, <1>6, <2>1

-----------------------------------------------------------------------------
(* The theorems.                                                            *)

LEMMA InitGood == ASSUME ClaimInit PROVE IInv
<1>1. claims = <<>> /\ items = {} /\ Ids = {}
  BY DEF ClaimInit, Ids
<1>2. FreshGuard \in GuardRows
  <2>1. 0 \in 0 .. MAX_WRONG_ENTRIES - 1 /\ 0 \in 0 .. MAX_COOLDOWNS /\ 0 \in 0 .. MAX_SENDS /\ None \in MaybeTime
    BY ClaimsAssumption DEF MaybeTime
  <2> QED BY <2>1 DEF FreshGuard, GuardRows
<1>3. /\ FreshGuard.wrong_entries = 0 /\ FreshGuard.cooldowns = 0
      /\ ~FreshGuard.locked /\ ~FreshGuard.blocked
  BY DEF FreshGuard
<1>4. guard = [p \in Pairs |-> FreshGuard] /\ guesses = [p \in Pairs |-> 0]
  BY DEF ClaimInit
<1>5. ClaimTypeOK
  <2>1. <<>> \in Seq(ClaimRows)
    BY EmptySeq
  <2> QED BY <1>1, <1>2, <1>4, <2>1, ClaimsAssumption DEF ClaimInit, ClaimTypeOK
<1>6. OneOwner /\ NoDeadCodeMailed
  BY <1>1 DEF ClaimInit, OneOwner, NoDeadCodeMailed
<1>7. QueueComplete /\ UniqueItems
  BY <1>1, <1>3, <1>4 DEF QueueComplete, UniqueItems, Unique
<1>8. BudgetInv
  <2>1. CounterInv(FreshGuard, 0)
    BY <1>3, ClaimsAssumption DEF CounterInv
  <2> QED BY <1>4, <2>1 DEF BudgetInv
<1> QED BY <1>5, <1>6, <1>7, <1>8 DEF IInv

LEMMA NextGood == ASSUME IInv, ClaimNext PROVE Good
<1>1. ASSUME NEW c \in Ids, \/ LockClaim(c) \/ Refuse(c) \/ StartVerification(c)
                            \/ EnterWrongCode(c) \/ EnterCorrectCode(c)
      PROVE  Good
  BY <1>1, LockGood, StartGood, WrongGood, CorrectGood
<1>2. ASSUME NEW o \in Operators, NEW c \in Ids, Reject(o, c) \/ \E t \in BOOLEAN : Approve(o, c, t)
      PROVE  Good
  BY <1>2, RejectGood, ApproveGood
<1>3. ASSUME NEW o \in Operators, NEW i \in items, UnlockVerification(o, i) \/ UnblockClaims(o, i)
      PROVE  Good
  BY <1>3, UnlockGood, UnblockGood
<1>4. ASSUME NEW u \in Claimants, NEW m \in {"manual", "domain_email"}, SubmitClaim(u, m) PROVE Good
  BY <1>4, SubmitGood
<1>5. ASSUME NEW u \in Claimants, NEW l \in Listings, SubmitRead(u, l) PROVE Good
  BY <1>5, SubmitReadGood
<1> QED BY <1>1, <1>2, <1>3, <1>4, <1>5, TickGood, FlushGood, EligibilityGood DEF ClaimNext

LEMMA StutterGood == ASSUME IInv, UNCHANGED claimVars PROVE Good
<1>1. UNCHANGED <<caseVars, guesses>> /\ UNCHANGED <<now, noticeVars, locked, submitting, matches>>
  BY DEF claimVars
<1> QED BY <1>1, Untouched DEF IInv, ClaimTypeOK, NoticeType, noticeVars

\* The counters bound the wrong codes of a pair.
LEMMA BudgetHolds == ASSUME ClaimTypeOK, BudgetInv PROVE GuessBudget
<1> SUFFICES ASSUME NEW p \in Pairs
             PROVE  /\ guesses[p] <= MAX_COOLDOWNS * MAX_WRONG_ENTRIES
                    /\ guesses[p] = MAX_COOLDOWNS * MAX_WRONG_ENTRIES => guard[p].locked
  BY DEF GuessBudget
<1>1. guard[p] \in GuardRows /\ guesses[p] \in Nat /\ CounterInv(guard[p], guesses[p])
  BY Counters DEF BudgetInv
<1>2. PICK k \in Nat, w \in Nat : k = guard[p].cooldowns /\ w = guard[p].wrong_entries
  BY <1>1, GuardFields
<1>3. k <= MAX_COOLDOWNS /\ w < MAX_WRONG_ENTRIES /\ MAX_COOLDOWNS \in Nat /\ MAX_WRONG_ENTRIES \in Nat
  BY <1>1, <1>2, GuardFields, ClaimsAssumption
<1>4. /\ guesses[p] = k * MAX_WRONG_ENTRIES + w
      /\ guard[p].locked <=> k = MAX_COOLDOWNS
      /\ guard[p].locked => w = 0
  BY <1>1, <1>2 DEF CounterInv
<1>5. CASE k = MAX_COOLDOWNS
  BY <1>3, <1>4, <1>5
<1>6. CASE k # MAX_COOLDOWNS
  <2>1. k + 1 \in Nat /\ k + 1 <= MAX_COOLDOWNS
    BY <1>3, <1>6
  <2>2. (k + 1) * MAX_WRONG_ENTRIES <= MAX_COOLDOWNS * MAX_WRONG_ENTRIES
    BY <1>3, <2>1, Products
  <2>3. (k + 1) * MAX_WRONG_ENTRIES = k * MAX_WRONG_ENTRIES + MAX_WRONG_ENTRIES
    BY <1>3, Products
  <2>4. guesses[p] < MAX_COOLDOWNS * MAX_WRONG_ENTRIES
    BY <1>3, <1>4, <2>2, <2>3
  <2> QED BY <1>1, <1>3, <2>4
<1> QED BY <1>5, <1>6

\* The inductive invariant holds in every behaviour of the claims.
THEOREM Invariance == ClaimSpec => []IInv
<1>1. ClaimInit => IInv
  BY InitGood
<1>2. IInv /\ [ClaimNext]_claimVars => IInv'
  BY NextGood, StutterGood DEF Good
<1> QED BY <1>1, <1>2, PTL DEF ClaimSpec

\* The rows keep the shape of their tables: no pair passes the limit of wrong entries, of
\* cooldowns or of codes sent in a window.
THEOREM TypeCorrect == ClaimSpec => []ClaimTypeOK
<1>1. IInv => ClaimTypeOK
  BY DEF IInv
<1> QED BY <1>1, Invariance, PTL

\* A listing's owner is the claimant of its one approved claim (_approve_claim).
THEOREM OwnerCorrect == ClaimSpec => []OneOwner
<1>1. IInv => OneOwner
  BY DEF IInv
<1> QED BY <1>1, Invariance, PTL

\* A pair gets MAX_COOLDOWNS * MAX_WRONG_ENTRIES wrong codes between two unlocks
\* (_apply_verify_claim_code and the guard's counters).
THEOREM BudgetCorrect == ClaimSpec => []GuessBudget
<1>1. IInv => GuessBudget
  BY BudgetHolds DEF IInv
<1> QED BY <1>1, Invariance, PTL

\* The moderation queue holds an item for exactly what waits for a human (open_item).
THEOREM QueueCorrect == ClaimSpec => []QueueComplete
<1>1. IInv => QueueComplete
  BY DEF IInv
<1> QED BY <1>1, Invariance, PTL

\* No pass of the mail worker that begins from now on sends the code of a claim that was
\* decided or handed to a reviewer (expire_pending_code).
THEOREM MailCorrect == ClaimSpec => []NoDeadCodeMailed
<1>1. IInv => NoDeadCodeMailed
  BY DEF IInv
<1> QED BY <1>1, Invariance, PTL

\* An owner loses the listing only to a disputed claim approved by manual review
\* (resolve_verified_claim, approve_claim).
THEOREM KeptCorrect == ClaimSpec => OwnerKept
<1>1. IInv /\ [ClaimNext]_claimVars => [OwnerStep]_claimVars
  BY NextGood DEF Good
<1>2. ClaimSpec => [][OwnerStep]_claimVars
  BY <1>1, Invariance, PTL DEF ClaimSpec
<1> QED BY <1>2 DEF OwnerKept, OwnerStep
=============================================================================
