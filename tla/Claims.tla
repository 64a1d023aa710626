------------------------------- MODULE Claims -------------------------------
(***************************************************************************)
(* Claims of a tenant's listings: submission, verification by a mailed     *)
(* code, review by operators, disputes, the moderation queue and the       *)
(* notices that tell operators of it (directory/services.py,               *)
(* directory/claim_review.py, directory/claims.py).                        *)
(*                                                                         *)
(* A command on a claim first locks the claim's row (LockClaim) and does   *)
(* everything else in the step that ends its transaction.  Between the two *)
(* another transaction can approve a competing claim: it skips the rows    *)
(* that are locked.  A submission reads the listing before its transaction *)
(* (SubmitRead) and uses what it read in it (SubmitClaim).                 *)
(*                                                                         *)
(* Listing.status is not kept apart: _assign_owner, its only writer, sets  *)
(* it to "claimed" together with the owner, and no code sets "suspended".  *)
(***************************************************************************)
EXTENDS Integers, Sequences, FiniteSets

CONSTANTS
    Listings, Claimants,
    Operators, Editors,         \* staff, and those whose role may decide claims
    None,                       \* "no owner", "no time", "no submission"
    MAX_WRONG_ENTRIES, MAX_COOLDOWNS, COOLDOWN,
    MIN_GAP, MAX_SENDS, SEND_WINDOW, CODE_TTL,
    REJECTION_BLOCK_THRESHOLD,
    NOTICE_THROTTLE, NOTICE_TTL,
    MaxClaims,                  \* bound: claims submitted or under submission
    MaxTime                     \* bound: the clock

ASSUME ClaimsAssumption ==
    /\ Editors \subseteq Operators
    /\ MAX_WRONG_ENTRIES \in Nat \ {0} /\ MAX_COOLDOWNS \in Nat \ {0}
    /\ REJECTION_BLOCK_THRESHOLD \in Nat \ {0}
    /\ {COOLDOWN, MIN_GAP, MAX_SENDS, SEND_WINDOW, CODE_TTL, NOTICE_THROTTLE, NOTICE_TTL} \subseteq Nat
    /\ MaxClaims \in Nat /\ MaxTime \in Nat
    /\ None \notin Claimants \cup Int

VARIABLES
    now,
    owner,       \* owner[l]: Listing.owner
    claims,      \* the Claim rows, in order of creation
    guard,       \* guard[l, u]: the ClaimVerificationGuard of a pair
    items,       \* the open ModerationItem rows
    locked,      \* claims whose row a command's transaction has locked
    submitting,  \* submitting[u]: the submission u has under way
    matches,     \* matches[l]: mail is configured and addresses match l's website
    lastNotice,  \* lastNotice[o]: the newest review notice to editor o
    arrivals,    \* claims submitted and disputes opened so far: orders what one unit holds
    guesses      \* history: wrong codes entered for a pair since its last unlock

caseVars   == <<owner, claims, guard, items>>
noticeVars == <<lastNotice, arrivals>>
claimVars == <<now, caseVars, noticeVars, locked, submitting, matches, guesses>>

Pairs == Listings \X Claimants
Ids == DOMAIN claims
Pair(c) == <<claims[c].listing, claims[c].claimant>>

\* A pair nobody has verified or been rejected on: the row's defaults.
FreshGuard == [wrong_entries |-> 0, cooldowns |-> 0, cooldown_until |-> None, locked |-> FALSE,
               rejections |-> 0, blocked |-> FALSE,
               last_sent |-> None, window_start |-> None, sent |-> 0]

\* code: code_hash is not empty, the code issued last is live (any other code entered
\* is a wrong one); mail_until: expires_at of its message, code_message; replaced: that of
\* the messages of the codes before it.  When the drain gets to a message is not this
\* module's (see MailQueue): here each one may still be pending.
NewClaim(l, u, method) ==
    [listing |-> l, claimant |-> u, status |-> "pending_verification", method |-> method,
     verified |-> FALSE, code |-> FALSE, expires_at |-> None, mail_until |-> None, replaced |-> {},
     updated_at |-> now, stamp |-> arrivals + 1]

ClaimInit ==
    /\ now = 0
    /\ owner = [l \in Listings |-> None]
    /\ claims = <<>>
    /\ guard = [p \in Pairs |-> FreshGuard]
    /\ items = {}
    /\ locked = {}
    /\ submitting = [u \in Claimants |-> None]
    /\ matches \in [Listings -> BOOLEAN]
    /\ lastNotice = [o \in Editors |-> None] /\ arrivals = 0
    /\ guesses = [p \in Pairs |-> 0]

\* A domain_email claim needs an address at the website's host, mail, and a pair
\* that is not locked.
Eligible(p) == matches[p[1]] /\ ~guard[p].locked

-----------------------------------------------------------------------------
(* The operator notice.                                                     *)

InReview(c) == /\ claims[c].status = "pending_verification"
               /\ claims[c].method = "manual" \/ claims[c].verified

\* The editors with no notice inside the throttle window.
Due == {o \in Editors : lastNotice[o] = None \/ lastNotice[o].at <= now - NOTICE_THROTTLE}

\* notify_operators after a change that added n rows: only an editor outside
\* the window is told.
Notify(n) ==
    /\ arrivals' = arrivals + n
    /\ lastNotice' = [o \in Editors |-> IF o \in Due THEN [at |-> now, upto |-> arrivals + n]
                                      ELSE lastNotice[o]]

Quiet(n) == arrivals' = arrivals + n /\ UNCHANGED lastNotice

\* The row came after the last notice to o, or without one in the notice's lifetime.
After(row, o) ==
    LET last == lastNotice[o]
    IN IF last = None \/ last.at < now - NOTICE_TTL THEN row.at > now - NOTICE_TTL
       ELSE row.at > last.at \/ (row.at = last.at /\ row.stamp > last.upto)

\* _entered_review_since: a claim counts by its updated_at.  Every save of a claim names
\* its fields and leaves that one out, so it stays the time the claim was submitted.
EnteredReviewSince(o) ==
    \/ \E c \in Ids : InReview(c) /\ After([at |-> claims[c].updated_at, stamp |-> claims[c].stamp], o)
    \/ \E i \in items : i.type = "claim_dispute" /\ After([at |-> i.created, stamp |-> i.stamp], o)

Told == {o \in Due : EnteredReviewSince(o)}

\* flush_operator_notices: an editor past the window is told when something entered
\* review after the last notice.
FlushNotices ==
    /\ Told # {}
    /\ lastNotice' = [o \in Editors |-> IF o \in Told THEN [at |-> now, upto |-> arrivals] ELSE lastNotice[o]]
    /\ UNCHANGED <<now, caseVars, arrivals, locked, submitting, matches, guesses>>

-----------------------------------------------------------------------------
(* Codes.                                                                   *)

Cooling(g) == g.cooldown_until # None /\ g.cooldown_until > now

\* The sends the pair may still make: the window is restarted once it is over.
WindowOver(g) == g.window_start = None \/ now - g.window_start >= SEND_WINDOW
SentInWindow(g) == IF WindowOver(g) THEN 0 ELSE g.sent

MaySend(g) == /\ ~Cooling(g)
              /\ g.last_sent = None \/ now - g.last_sent >= MIN_GAP
              /\ SentInWindow(g) < MAX_SENDS

\* Faulty variant: a new code comes with a new allowance of wrong entries.
AfterSend_Forgives(g) ==
    [g EXCEPT !.last_sent = now, !.sent = SentInWindow(g) + 1, !.wrong_entries = 0,
              !.window_start = IF WindowOver(g) THEN now ELSE @]

AfterSend(g) ==
    [g EXCEPT !.last_sent = now, !.sent = SentInWindow(g) + 1,
              !.window_start = IF WindowOver(g) THEN now ELSE @]

\* expire_pending_code: the message stays in the queue, with a deadline that is over for
\* every mail pass begun from now on.  One that was sent has no more use for its deadline.
Retired(c) == [c EXCEPT !.code = FALSE, !.mail_until = IF @ = None THEN None ELSE now]

\* A new code expires the message of the code before it in the same way, and its own
\* message becomes the claim's.
WithCode(c) ==
    [c EXCEPT !.code = TRUE, !.expires_at = now + CODE_TTL, !.mail_until = now + CODE_TTL,
              !.replaced = IF c.mail_until = None THEN @ ELSE @ \cup {now}]

\* Faulty variant: a claim handed to a reviewer keeps its queued code message.
FlippedToManual_KeepsMail(c) == [c EXCEPT !.code = FALSE, !.method = "manual"]

FlippedToManual(c) == [Retired(c) EXCEPT !.method = "manual"]

-----------------------------------------------------------------------------
(* claim.submit.                                                            *)

SubmitRead(u, l) ==
    /\ submitting[u] = None
    /\ Len(claims) + Cardinality({v \in Claimants : submitting[v] # None}) < MaxClaims
    /\ submitting' = [submitting EXCEPT ![u] = [listing |-> l, seen |-> owner[l]]]
    /\ UNCHANGED <<now, caseVars, noticeVars, locked, matches, guesses>>

\* A claim that came as a dispute, or goes to one: its item opens with it.
DisputeItem(c, l, u, n) ==
    [type |-> "claim_dispute", listing |-> l, claimant |-> u, claim |-> c,
     created |-> now, stamp |-> arrivals + n]

\* Faulty variant: the claim disputed is not put in the queue.
Disputed_NoItem(c, l, u, n) == items

\* open_item: at most one open item of a type for the claim.
Disputed(c, l, u, n) ==
    IF \E i \in items : i.type = "claim_dispute" /\ i.claim = c THEN items
    ELSE items \cup {DisputeItem(c, l, u, n)}

\* The method the claim gets, the first code if it can be sent, and the dispute if
\* the submission saw an owner.
SubmitClaim(u, method) ==
    LET s == submitting[u]
        l == s.listing
        p == <<l, u>>
        c == Len(claims) + 1
        effective == IF method = "domain_email" /\ ~Eligible(p) THEN "manual" ELSE method
        starts == effective = "domain_email" /\ MaySend(guard[p])
        new == IF starts THEN WithCode(NewClaim(l, u, effective)) ELSE NewClaim(l, u, effective)
        disputes == s.seen # None
    IN /\ s # None
       /\ submitting' = [submitting EXCEPT ![u] = None]
       /\ IF guard[p].blocked
          THEN UNCHANGED <<caseVars, noticeVars>>
          ELSE /\ claims' = Append(claims, IF disputes THEN [new EXCEPT !.status = "disputed"] ELSE new)
               /\ guard' = IF starts THEN [guard EXCEPT ![p] = AfterSend(@)] ELSE guard
               /\ items' = IF disputes THEN Disputed(c, l, u, 2) ELSE items
               /\ IF disputes THEN Notify(2)
                  ELSE IF effective = "manual" THEN Notify(1) ELSE Quiet(1)
               /\ UNCHANGED owner
       /\ UNCHANGED <<now, locked, matches, guesses>>

-----------------------------------------------------------------------------
(* Commands on a claim.                                                     *)

Open(c) == claims[c].status \in {"pending_verification", "disputed"}

\* A command on a decided claim is refused whatever follows, so only open ones matter.
LockClaim(c) ==
    /\ c \notin locked /\ Open(c)
    /\ locked' = locked \cup {c}
    /\ UNCHANGED <<now, caseVars, noticeVars, submitting, matches, guesses>>

\* The end of the command's transaction.
Unlock(c) == /\ c \in locked
             /\ locked' = locked \ {c}
             /\ UNCHANGED <<now, submitting, matches>>

\* A refusal: nothing is written.
Refuse(c) == Unlock(c) /\ UNCHANGED <<caseVars, noticeVars, guesses>>

Verifiable(c) == Open(c) /\ claims[c].method = "domain_email" /\ ~claims[c].verified

\* claim.start_verification: a resend, or the flip to manual review.
StartVerification(c) ==
    LET p == Pair(c)
    IN /\ Unlock(c)
       /\ Verifiable(c)
       /\ \/ /\ ~Eligible(p)
             /\ claims' = [claims EXCEPT ![c] = FlippedToManual(@)]
             /\ IF claims[c].status # "disputed" THEN Notify(0) ELSE Quiet(0)
             /\ UNCHANGED guard
          \/ /\ Eligible(p) /\ MaySend(guard[p])
             /\ claims' = [claims EXCEPT ![c] = WithCode(@)]
             /\ guard' = [guard EXCEPT ![p] = AfterSend(@)]
             /\ Quiet(0)
       /\ UNCHANGED <<owner, items, guesses>>

\* The code is one the claim can be asked about at all.
CodeUsable(c) == /\ Verifiable(c)
                 /\ ~guard[Pair(c)].locked /\ ~Cooling(guard[Pair(c)])
                 /\ claims[c].code
                 /\ claims[c].expires_at > now

Exhausted(g) == g.wrong_entries >= MAX_WRONG_ENTRIES

\* The counters of the pair after one more wrong code.
AfterWrong(g0) ==
    LET g == [g0 EXCEPT !.wrong_entries = @ + 1]
    IN IF ~Exhausted(g) THEN g
       ELSE [g EXCEPT !.wrong_entries = 0, !.cooldowns = @ + 1,
                      !.cooldown_until = now + COOLDOWN,
                      !.locked = @ \/ g.cooldowns + 1 >= MAX_COOLDOWNS]

\* open_item for a lock or a block: at most one open item of the type per pair.
PairItem(open, type, p, c) ==
    IF \E i \in open : i.type = type /\ <<i.listing, i.claimant>> = p THEN open
    ELSE open \cup {[type |-> type, listing |-> p[1], claimant |-> p[2], claim |-> c, created |-> now, stamp |-> 0]}

\* claim.verify with a code that is not the one issued last: the fifth one starts a
\* cooldown and the third cooldown locks the pair and hands the claim to a reviewer.
EnterWrongCode(c) ==
    LET p == Pair(c)
        g == AfterWrong(guard[p])
        cooled == g.cooldowns > guard[p].cooldowns
    IN /\ Unlock(c)
       /\ CodeUsable(c)
       /\ guard' = [guard EXCEPT ![p] = g]
       /\ claims' = [claims EXCEPT ![c] = IF g.locked THEN FlippedToManual(@)
                                          ELSE IF cooled THEN [@ EXCEPT !.code = FALSE] ELSE @]
       /\ items' = IF g.locked THEN PairItem(items, "verification_lock", p, c) ELSE items
       /\ IF g.locked /\ claims[c].status # "disputed" THEN Notify(0) ELSE Quiet(0)
       /\ guesses' = [guesses EXCEPT ![p] = @ + 1]
       /\ UNCHANGED owner

\* _reject_losers: skip_locked leaves alone the claims a transaction holds.
Losers(l, c) ==
    {d \in Ids \ (locked \cup {c}) : claims[d].listing = l /\ claims[d].status = "pending_verification"}

Decided(c, status) == [Retired(c) EXCEPT !.status = status]

\* Faulty variant: the former owner's claim stays approved.
Superseded_Kept(l, c) == {}

Superseded(l, c) == {d \in Ids \ {c} : claims[d].listing = l /\ claims[d].status = "approved"}

\* _approve_claim: the old approved claim is superseded first, the claimant becomes
\* the owner, the other pending claims lose; by is the claim as the code (verified)
\* or the operator (manual) leaves it.
ApproveClaim(c, by) ==
    LET l == claims[c].listing
    IN /\ claims' = [d \in Ids |-> IF d = c THEN Decided(by, "approved")
                                   ELSE IF d \in Superseded(l, c) THEN [claims[d] EXCEPT !.status = "superseded"]
                                   ELSE IF d \in Losers(l, c) THEN Decided(claims[d], "rejected")
                                   ELSE claims[d]]
       /\ owner' = [owner EXCEPT ![l] = claims[c].claimant]

ToDispute(c, by) ==
    /\ claims' = [claims EXCEPT ![c] = [by EXCEPT !.status = "disputed"]]
    /\ items' = Disputed(c, claims[c].listing, claims[c].claimant, 1)
    /\ Notify(1)
    /\ UNCHANGED owner

\* Faulty variant: a correct code takes the listing, whoever owns it.
MayTake_Always(c) == TRUE

\* resolve_verified_claim: only an unowned listing is taken.
MayTake(c) == owner[claims[c].listing] = None

\* claim.verify with the code issued last: evidence for a dispute, otherwise approval,
\* or a dispute when the listing has an owner by now.
EnterCorrectCode(c) ==
    LET verified == [claims[c] EXCEPT !.verified = TRUE, !.code = FALSE]
    IN /\ Unlock(c)
       /\ CodeUsable(c)
       /\ \/ /\ claims[c].status = "disputed"
             /\ claims' = [claims EXCEPT ![c] = verified]
             /\ Quiet(0) /\ UNCHANGED <<owner, items>>
          \/ /\ claims[c].status # "disputed" /\ MayTake(c)
             /\ ApproveClaim(c, verified)
             /\ Quiet(0) /\ UNCHANGED items
          \/ /\ claims[c].status # "disputed" /\ ~MayTake(c)
             /\ ToDispute(c, verified)
       /\ UNCHANGED <<guard, guesses>>

ClosedItems(c) == {i \in items : i.type = "claim_dispute" /\ i.claim = c}

\* claim.approve by an editor; transfer is the operator's confirmation.
Approve(o, c, transfer) ==
    LET owned == owner[claims[c].listing] # None
    IN /\ Unlock(c)
       /\ o \in Editors /\ Open(c)
       /\ \/ /\ claims[c].status = "pending_verification" /\ owned
             /\ ToDispute(c, claims[c])
          \/ /\ claims[c].status = "disputed" \/ ~owned
             /\ owned => transfer
             /\ ApproveClaim(c, [claims[c] EXCEPT !.method = "manual", !.verified = TRUE])
             /\ items' = items \ ClosedItems(c)
             /\ Quiet(0)
       /\ UNCHANGED <<guard, guesses>>

AfterRejection(g) ==
    [g EXCEPT !.rejections = @ + 1,
              !.blocked = @ \/ g.rejections + 1 >= REJECTION_BLOCK_THRESHOLD]

\* claim.reject by an editor: counted against the pair, which the third one blocks.
Reject(o, c) ==
    LET p == Pair(c)
        g == AfterRejection(guard[p])
        left == items \ ClosedItems(c)
    IN /\ Unlock(c)
       /\ o \in Editors /\ Open(c)
       /\ claims' = [claims EXCEPT ![c] = Decided(@, "rejected")]
       /\ guard' = [guard EXCEPT ![p] = g]
       /\ items' = IF g.blocked /\ ~guard[p].blocked
                   THEN PairItem(left, "claim_block", p, c) ELSE left
       /\ Quiet(0)
       /\ UNCHANGED <<owner, guesses>>

-----------------------------------------------------------------------------
(* The moderation queue's own commands, for moderators too.                 *)

Unlocked(g) == [g EXCEPT !.locked = FALSE, !.cooldowns = 0, !.wrong_entries = 0,
                         !.cooldown_until = None]

UnlockVerification(o, i) ==
    LET p == <<i.listing, i.claimant>>
    IN /\ o \in Operators /\ i.type = "verification_lock"
       /\ guard' = IF guard[p].locked THEN [guard EXCEPT ![p] = Unlocked(@)] ELSE guard
       /\ guesses' = [guesses EXCEPT ![p] = 0]
       /\ items' = items \ {i}
       /\ UNCHANGED <<now, owner, claims, noticeVars, locked, submitting, matches>>

UnblockClaims(o, i) ==
    LET p == <<i.listing, i.claimant>>
    IN /\ o \in Operators /\ i.type = "claim_block"
       /\ guard' = [guard EXCEPT ![p].blocked = FALSE]
       /\ items' = items \ {i}
       /\ UNCHANGED <<now, owner, claims, noticeVars, locked, submitting, matches, guesses>>

-----------------------------------------------------------------------------
(* The world around.                                                        *)

Tick == /\ now < MaxTime
        /\ now' = now + 1
        /\ UNCHANGED <<caseVars, noticeVars, locked, submitting, matches, guesses>>

\* An import or an edit changes the website, or mail is configured or fails.
EligibilityChanges(l) ==
    /\ matches' = [matches EXCEPT ![l] = ~@]
    /\ UNCHANGED <<now, caseVars, noticeVars, locked, submitting, guesses>>

ClaimNext ==
    \/ Tick
    \/ FlushNotices
    \/ \E l \in Listings : EligibilityChanges(l)
    \/ \E u \in Claimants, l \in Listings : SubmitRead(u, l)
    \/ \E u \in Claimants, m \in {"manual", "domain_email"} : SubmitClaim(u, m)
    \/ \E c \in Ids : \/ LockClaim(c) \/ Refuse(c) \/ StartVerification(c)
                      \/ EnterWrongCode(c) \/ EnterCorrectCode(c)
    \/ \E o \in Operators, c \in Ids : \/ Reject(o, c)
                                       \/ \E t \in BOOLEAN : Approve(o, c, t)
    \/ \E o \in Operators, i \in items : UnlockVerification(o, i) \/ UnblockClaims(o, i)

ClaimSpec == ClaimInit /\ [][ClaimNext]_claimVars

-----------------------------------------------------------------------------
(* Properties.                                                              *)

Times == 0 .. MaxTime + COOLDOWN + CODE_TTL
MaybeTime == Times \cup {None}

ClaimRows == [listing : Listings, claimant : Claimants,
              status : {"pending_verification", "approved", "rejected", "disputed", "superseded"},
              method : {"manual", "domain_email"}, verified : BOOLEAN, code : BOOLEAN,
              expires_at : MaybeTime, mail_until : MaybeTime, replaced : SUBSET Times,
              updated_at : Times, stamp : Nat]

GuardRows == [wrong_entries : 0 .. MAX_WRONG_ENTRIES - 1, cooldowns : 0 .. MAX_COOLDOWNS,
              cooldown_until : MaybeTime, locked : BOOLEAN, rejections : Nat, blocked : BOOLEAN,
              last_sent : MaybeTime, window_start : MaybeTime, sent : 0 .. MAX_SENDS]

ItemRows == [type : {"claim_dispute", "verification_lock", "claim_block"},
             listing : Listings, claimant : Claimants, claim : Ids, created : Times, stamp : Nat]

\* The rows have the shape of their tables: the wrong entries of a pair stay below the
\* limit (_apply_verify_claim_code resets them when it is reached), its cooldowns and
\* the codes sent in a window never pass theirs.
ClaimTypeOK ==
    /\ now \in 0 .. MaxTime
    /\ owner \in [Listings -> Claimants \cup {None}]
    /\ claims \in Seq(ClaimRows)
    /\ guard \in [Pairs -> GuardRows]
    /\ items \subseteq ItemRows
    /\ locked \subseteq Ids
    /\ submitting \in [Claimants -> [listing : Listings, seen : Claimants \cup {None}] \cup {None}]
    /\ matches \in [Listings -> BOOLEAN]
    /\ lastNotice \in [Editors -> [at : Times, upto : Nat] \cup {None}] /\ arrivals \in Nat
    /\ guesses \in [Pairs -> Nat]

\* A listing's owner is the claimant of its one approved claim, whatever codes,
\* approvals and transfers cross each other (_approve_claim, _assign_owner).
OneOwner ==
    \A l \in Listings :
        LET approved == {c \in Ids : claims[c].listing = l /\ claims[c].status = "approved"}
        IN IF owner[l] = None THEN approved = {}
           ELSE \E c \in approved : approved = {c} /\ claims[c].claimant = owner[l]

\* Between two unlocks by an operator a pair gets MAX_COOLDOWNS * MAX_WRONG_ENTRIES
\* wrong codes and no more, whatever it resends or submits again, and whatever is
\* rejected meanwhile: the counters are the pair's, and none of those resets them.
GuessBudget ==
    \A p \in Pairs :
        /\ guesses[p] <= MAX_COOLDOWNS * MAX_WRONG_ENTRIES
        /\ guesses[p] = MAX_COOLDOWNS * MAX_WRONG_ENTRIES => guard[p].locked

\* What only a human can end is in the queue: a claim is disputed exactly when its
\* dispute item is open, a pair is locked or blocked exactly when its item is.
QueueComplete ==
    /\ \A c \in Ids : claims[c].status = "disputed" <=>
            \E i \in items : i.type = "claim_dispute" /\ i.claim = c
    /\ \A p \in Pairs : /\ guard[p].locked <=>
                              \E i \in items : i.type = "verification_lock" /\ <<i.listing, i.claimant>> = p
                        /\ guard[p].blocked <=>
                              \E i \in items : i.type = "claim_block" /\ <<i.listing, i.claimant>> = p

\* No mail pass that begins from now on sends a dead code, whenever the drain gets to its
\* message: of a claim that was decided or handed to a reviewer the deadline is over, and
\* so are those of the messages a newer code replaced (expire_pending_code).
NoDeadCodeMailed ==
    \A c \in Ids :
        /\ claims[c].mail_until # None /\ claims[c].mail_until > now
              => Open(c) /\ claims[c].method = "domain_email"
        /\ \A until \in claims[c].replaced : until <= now

\* Verification alone never takes a listing from its owner: the owner changes only
\* when a disputed claim becomes approved by manual review.
OwnerKept ==
    [][\A l \in Listings : owner[l] # None /\ owner'[l] # owner[l] =>
          \E c \in Ids : /\ claims[c].status = "disputed" /\ claims'[c].status = "approved"
                         /\ claims'[c].method = "manual" /\ claims'[c].claimant = owner'[l]]_claimVars
=============================================================================
