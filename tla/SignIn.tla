-------------------------------- MODULE SignIn --------------------------------
(***************************************************************************)
(* Owner sign-in for one owner (directory/owner_auth.py): links asked for, *)
(* mailed, superseded and spent, and the sessions they open.               *)
(*                                                                         *)
(* A request for a link reads what was sent before, then locks the unused  *)
(* links to expire them; a lock that is held elsewhere is waited for and   *)
(* the row looked at again, but a link committed meanwhile is not seen.    *)
(* Both commands work with the time at which they began.                   *)
(***************************************************************************)
EXTENDS Integers, FiniteSets

CONSTANTS
    Links,              \* sign-in tokens, in the order they may be issued
    LinkRequests,       \* owner.request_signin commands under way
    Browsers,           \* owner.sign_in commands under way
    NoLink,             \* a browser that has no link in hand
    SIGNIN_TTL,         \* how long a link can be spent
    SESSION_IDLE,       \* how long a session lasts unused
    SESSION_ABSOLUTE,   \* how long it lasts at all
    MAX_LINKS_PER_HOUR, MIN_BETWEEN_LINKS, LINK_HOUR,
    MaxSignInTime       \* bound: the clock stops here

ASSUME SignInAssumption ==
    /\ NoLink \notin Links /\ MaxSignInTime \in Nat /\ MAX_LINKS_PER_HOUR \in Nat
    /\ {SIGNIN_TTL, SESSION_IDLE, SESSION_ABSOLUTE, MIN_BETWEEN_LINKS, LINK_HOUR} \subseteq Nat

VARIABLES
    signInClock, \* the time
    owns,        \* whether the user owns a listing
    mailWorks,   \* sign_in_available: mail and a verified domain
    link,        \* link[k]: [issued, created, expires, used, mailed]
    asking,      \* asking[r]: [at, began, want, held]
    spending,    \* spending[b]: [link, began, locked, late]
    session,     \* session[k]: the session link k opened: [open, seen, expires]
    superseded,  \* history: links that a committed request expired unused
    opened,      \* history: opened[k] counts the sessions link k opened
    lateOpened   \* history: links spent by a browser that began after they were superseded

signInVars == <<signInClock, owns, mailWorks, link, asking, spending, session, superseded,
                opened, lateOpened>>

NotAsking == [at |-> "idle", began |-> 0, want |-> {}, held |-> {}]
NotSpending == [link |-> NoLink, began |-> 0, locked |-> FALSE, late |-> FALSE]
NoSession == [open |-> FALSE, seen |-> 0, expires |-> 0]

SignInInit ==
    /\ signInClock = 0 /\ owns = TRUE /\ mailWorks = TRUE
    /\ link = [k \in Links |-> [issued |-> FALSE, created |-> 0, expires |-> 0, used |-> FALSE,
                                mailed |-> FALSE]]
    /\ asking = [r \in LinkRequests |-> NotAsking]
    /\ spending = [b \in Browsers |-> NotSpending]
    /\ session = [k \in Links |-> NoSession]
    /\ superseded = {} /\ opened = [k \in Links |-> 0] /\ lateOpened = {}

Issued == {k \in Links : link[k].issued}

\* Unused and not expired at time t.
Live(t) == {k \in Issued : ~link[k].used /\ link[k].expires > t}

-----------------------------------------------------------------------------
(* owner.request_signin.                                                    *)

\* _throttled: too soon after the last link, or too many in the hour.
Throttled(t) ==
    \/ \E k \in Issued : t - link[k].created < MIN_BETWEEN_LINKS
    \/ Cardinality({k \in Issued : link[k].created > t - LINK_HOUR}) >= MAX_LINKS_PER_HOUR

\* The user, the listing and the earlier links, read without a lock.
AskRead(r) ==
    /\ asking[r] = NotAsking /\ mailWorks /\ owns /\ ~Throttled(signInClock)
    /\ asking' = [asking EXCEPT ![r] = [NotAsking EXCEPT !.at = "read", !.began = signInClock]]
    /\ UNCHANGED <<signInClock, owns, mailWorks, link, spending, session, superseded, opened, lateOpened>>

\* select_for_update begins: these are the rows it will ever see.
AskSelect(r) ==
    /\ asking[r].at = "read"
    /\ asking' = [asking EXCEPT ![r].at = "select", ![r].want = Live(asking[r].began)]
    /\ UNCHANGED <<signInClock, owns, mailWorks, link, spending, session, superseded, opened, lateOpened>>

Locked(k) == \/ \E r \in LinkRequests : k \in asking[r].held
             \/ \E b \in Browsers : spending[b].link = k /\ spending[b].locked

\* ... and has them all, without those that changed under another's lock.
AskLock(r) ==
    /\ asking[r].at = "select" /\ \A k \in asking[r].want : ~Locked(k)
    /\ asking' = [asking EXCEPT ![r].at = "locked",
                                ![r].held = asking[r].want \cap Live(asking[r].began)]
    /\ UNCHANGED <<signInClock, owns, mailWorks, link, spending, session, superseded, opened, lateOpened>>

\* The new link; the earlier ones, and the mail that still carries them, expire.
AskCommit(r, k) ==
    LET began == asking[r].began
        held == asking[r].held
    IN /\ asking[r].at = "locked" /\ ~link[k].issued
       /\ link' = [j \in Links |->
                     IF j = k THEN [issued |-> TRUE, created |-> signInClock, used |-> FALSE,
                                    expires |-> began + SIGNIN_TTL, mailed |-> FALSE]
                     ELSE IF j \in held THEN [link[j] EXCEPT !.expires = began] ELSE link[j]]
       /\ superseded' = superseded \cup held
       /\ asking' = [asking EXCEPT ![r] = NotAsking]
       /\ UNCHANGED <<signInClock, owns, mailWorks, spending, session, opened, lateOpened>>

\* The mail worker, which drops a message whose deadline had passed when its pass began:
\* a pass may have begun long before it gets to this one (see MailQueue).
MailLink(k) ==
    /\ link[k].issued /\ ~link[k].mailed
    /\ \E began \in 0 .. signInClock : link[k].expires > began
    /\ link' = [link EXCEPT ![k].mailed = TRUE]
    /\ UNCHANGED <<signInClock, owns, mailWorks, asking, spending, session, superseded, opened, lateOpened>>

-----------------------------------------------------------------------------
(* owner.sign_in.                                                           *)

SpendBegin(b, k) ==
    /\ spending[b] = NotSpending /\ link[k].mailed
    /\ spending' = [spending EXCEPT ![b] = [link |-> k, began |-> signInClock, locked |-> FALSE,
                                            late |-> k \in superseded]]
    /\ UNCHANGED <<signInClock, owns, mailWorks, link, asking, session, superseded, opened, lateOpened>>

\* Faulty variant: the token is read without a lock.
LockFree_Unlocked(k) == TRUE

LockFree(k) == ~Locked(k)

\* The token under lock: spent or expired (at the time the command began), or an owner
\* without a listing, is refused.
SpendLock(b) ==
    LET k == spending[b].link
    IN /\ k # NoLink /\ ~spending[b].locked /\ LockFree(k)
       /\ spending' = [spending EXCEPT ![b] = IF k \in Live(spending[b].began) /\ owns
                                              THEN [spending[b] EXCEPT !.locked = TRUE]
                                              ELSE NotSpending]
       /\ UNCHANGED <<signInClock, owns, mailWorks, link, asking, session, superseded, opened, lateOpened>>

SpendCommit(b) ==
    LET k == spending[b].link
        t == spending[b].began
    IN /\ spending[b].locked
       /\ link' = [link EXCEPT ![k].used = TRUE]
       /\ session' = [session EXCEPT ![k] = [open |-> TRUE, seen |-> t,
                                             expires |-> t + SESSION_ABSOLUTE]]
       /\ opened' = [opened EXCEPT ![k] = @ + 1]
       /\ lateOpened' = IF spending[b].late THEN lateOpened \cup {k} ELSE lateOpened
       /\ spending' = [spending EXCEPT ![b] = NotSpending]
       /\ UNCHANGED <<signInClock, owns, mailWorks, asking, superseded>>

\* resolve_session: an expired one is deleted on sight, a live one touched.
Visit(k) ==
    LET s == session[k]
        over == s.expires <= signInClock \/ s.seen + SESSION_IDLE <= signInClock
    IN /\ s.open
       /\ session' = [session EXCEPT ![k] = IF over THEN NoSession
                                            ELSE [s EXCEPT !.seen = signInClock]]
       /\ UNCHANGED <<signInClock, owns, mailWorks, link, asking, spending, superseded, opened, lateOpened>>

\* owner.sign_out: this session, or every session of the owner.
SignOut(k, everywhere) ==
    /\ session[k].open
    /\ session' = [j \in Links |-> IF j = k \/ everywhere THEN NoSession ELSE session[j]]
    /\ UNCHANGED <<signInClock, owns, mailWorks, link, asking, spending, superseded, opened, lateOpened>>

SignInTick ==
    /\ signInClock < MaxSignInTime /\ signInClock' = signInClock + 1
    /\ UNCHANGED <<owns, mailWorks, link, asking, spending, session, superseded, opened, lateOpened>>

\* The listing changes hands; mail is set up or taken down.
AccountChanges ==
    /\ \/ owns' = ~owns /\ UNCHANGED mailWorks
       \/ mailWorks' = ~mailWorks /\ UNCHANGED owns
    /\ UNCHANGED <<signInClock, link, asking, spending, session, superseded, opened, lateOpened>>

SignInNext ==
    \/ \E r \in LinkRequests : \/ AskRead(r) \/ AskSelect(r) \/ AskLock(r)
                               \/ \E k \in Links : AskCommit(r, k)
    \/ \E k \in Links : \/ MailLink(k) \/ Visit(k)
                        \/ \E everywhere \in BOOLEAN : SignOut(k, everywhere)
    \/ \E b \in Browsers : \/ SpendLock(b) \/ SpendCommit(b)
                           \/ \E k \in Links : SpendBegin(b, k)
    \/ SignInTick \/ AccountChanges

SignInSpec == SignInInit /\ [][SignInNext]_signInVars

-----------------------------------------------------------------------------
\* Type: a request holds only links that exist, a session belongs to a spent link.
SignInTypeOK ==
    /\ signInClock \in 0..MaxSignInTime
    /\ \A r \in LinkRequests : asking[r].held \subseteq Issued
    /\ \A b \in Browsers : spending[b].link \in Issued \cup {NoLink}
    /\ \A k \in Links : session[k].open => link[k].used

\* A link works once, and not after a newer one: however requests and exchanges cross,
\* a link opens at most one session, and none at all to somebody who begins to use it
\* when a later request has already replaced it (_apply_sign_in, _apply_request).
LinkOnce == /\ \A k \in Links : opened[k] <= 1
            /\ lateOpened = {}
=============================================================================
