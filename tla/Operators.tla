------------------------------ MODULE Operators ------------------------------
(***************************************************************************)
(* One operator of the installation, known by an email address: how the    *)
(* row is made, the memberships it is invited to, and the set-password     *)
(* links that give it a credential (tenants/operator_invites.py,           *)
(* tenants/services.py).                                                   *)
(*                                                                         *)
(* Issuing a link locks the operator and then its live links; spending one *)
(* locks the link and then the operator.  Both work with the time at which *)
(* they began.  The two orders can deadlock, and PostgreSQL then ends one  *)
(* of the two transactions.                                                *)
(***************************************************************************)
EXTENDS Integers, FiniteSets

CONSTANTS
    Directories,     \* tenants the operator may be invited to
    Invites,         \* operator_invites rows
    Issuers,         \* issue_operator_invite commands on the host shell
    Spenders,        \* POSTs of a set-password page
    Nothing,         \* no directory, no link, nobody
    INVITE_TTL,      \* how long a link can be spent
    MaxInviteTime    \* bound: the clock stops here

ASSUME OperatorAssumption ==
    /\ Nothing \notin Directories \cup Invites \cup Issuers \cup Spenders
    /\ Issuers \cap Spenders = {} /\ INVITE_TTL \in Nat \ {0} /\ MaxInviteTime \in Nat

VARIABLES
    inviteClock,  \* the time
    operator,     \* [exists, active, password]
    membership,   \* membership[d]: "none", "pending" or "active"
    mintedWith,   \* history: the directory whose invitation made the operator row
    canMail,      \* mail_available(d): SMTP works and the console has a host
    invite,       \* invite[i]: [issued, created, expires, used, member, mail]
    issuing,      \* issuing[p]: [began, locked]: p holds the operator's row lock
    spend         \* spend[s]: [link, began]: s holds the row lock of that link

operatorVars == <<inviteClock, operator, membership, mintedWith, canMail, invite, issuing, spend>>

NotIssuing == [began |-> 0, locked |-> FALSE]
NoSpend == [link |-> Nothing, began |-> 0]
BlankInvite == [issued |-> FALSE, created |-> 0, expires |-> 0, used |-> FALSE,
                member |-> Nothing, mail |-> FALSE]

OperatorInit ==
    /\ inviteClock = 0
    /\ operator = [exists |-> FALSE, active |-> TRUE, password |-> FALSE]
    /\ membership = [d \in Directories |-> "none"]
    /\ mintedWith = Nothing
    /\ canMail = [d \in Directories |-> FALSE]
    /\ invite = [i \in Invites |-> BlankInvite]
    /\ issuing = [p \in Issuers |-> NotIssuing]
    /\ spend = [s \in Spenders |-> NoSpend]

\* Row locks: who holds the operator's, and which links are locked.
OperatorFree == \A p \in Issuers : ~issuing[p].locked
LinkFree(i) == \A s \in Spenders : spend[s].link # i

\* Links that a transaction begun at time t takes for usable.
Unspent(t) == {i \in Invites : invite[i].issued /\ ~invite[i].used /\ invite[i].expires > t}

\* mint_invite: a newer link expires every earlier unused one and the mail of
\* it that has not gone out; d is the membership the new one accepts.
Minted(i, t, d, mailed) ==
    [j \in Invites |->
        IF j = i THEN [issued |-> TRUE, created |-> t, expires |-> t + INVITE_TTL,
                       used |-> FALSE, member |-> d, mail |-> mailed]
        ELSE IF j \in Unspent(t) THEN [invite[j] EXCEPT !.expires = t, !.mail = FALSE]
        ELSE invite[j]]

-----------------------------------------------------------------------------
\* create_operator: a row without a usable password; no invite is minted.
CreateOperator ==
    /\ ~operator.exists
    /\ operator' = [operator EXCEPT !.exists = TRUE]
    /\ UNCHANGED <<inviteClock, membership, mintedWith, canMail, invite, issuing, spend>>

\* invite_staff for a new address: the operator, the pending membership and,
\* when the directory can mail it, the link are one transaction.
InviteNew(d) ==
    /\ ~operator.exists
    /\ operator' = [operator EXCEPT !.exists = TRUE]
    /\ membership' = [membership EXCEPT ![d] = "pending"]
    /\ mintedWith' = d
    /\ \/ ~canMail[d] /\ UNCHANGED invite
       \/ /\ canMail[d]
          /\ \E i \in Invites : ~invite[i].issued /\ invite' = Minted(i, inviteClock, d, TRUE)
    /\ UNCHANGED <<inviteClock, canMail, issuing, spend>>

\* invite_staff for a known address: only the pending membership.  Its foreign
\* key waits for the operator's row; a second membership is rejected.
InviteKnown(d) ==
    /\ operator.exists /\ OperatorFree /\ membership[d] = "none"
    /\ membership' = [membership EXCEPT ![d] = "pending"]
    /\ UNCHANGED <<inviteClock, operator, mintedWith, canMail, invite, issuing, spend>>

\* _apply_issue, first half: the operator's row is locked and looked at.
IssueLock(p, began) ==
    /\ ~issuing[p].locked /\ OperatorFree
    /\ operator.exists /\ operator.active /\ ~operator.password
    /\ issuing' = [issuing EXCEPT ![p] = [began |-> began, locked |-> TRUE]]
    /\ UNCHANGED <<inviteClock, operator, membership, mintedWith, canMail, invite, spend>>

\* The membership of the latest invite that has one, if still pending: "an
\* expired invite must not strand it".
Reattached ==
    LET carrying == {i \in Invites : invite[i].issued /\ invite[i].member # Nothing}
        latest == {i \in carrying : \A j \in carrying : invite[j].created <= invite[i].created}
    IN {invite[i].member : i \in {j \in latest : membership[invite[j].member] = "pending"}}
       \cup (IF \E i \in latest : membership[invite[i].member] # "pending"
             THEN {Nothing} ELSE {})
       \cup (IF carrying = {} THEN {Nothing} ELSE {})

\* Second half: the live links are locked too, expired, and one is minted.
IssueCommit(p) ==
    /\ issuing[p].locked
    /\ \A i \in Unspent(issuing[p].began) : LinkFree(i)
    /\ \E i \in Invites, d \in Reattached :
        ~invite[i].issued /\ invite' = Minted(i, issuing[p].began, d, FALSE)
    /\ issuing' = [issuing EXCEPT ![p] = NotIssuing]
    /\ UNCHANGED <<inviteClock, operator, membership, mintedWith, canMail, spend>>

\* _apply_set_password, first half: the link's row is locked; a link that is
\* unknown, used or expired is refused.
SetPasswordLock(s, i, began) ==
    /\ spend[s] = NoSpend /\ LinkFree(i)
    /\ i \in Unspent(began)
    /\ spend' = [spend EXCEPT ![s] = [link |-> i, began |-> began]]
    /\ UNCHANGED <<inviteClock, operator, membership, mintedWith, canMail, invite, issuing>>

\* Faulty variant: an operator who has gained a password since is not refused.
NeedsPassword_ActiveOnly == operator.active

\* The checks made once the operator's row is locked as well.
NeedsPassword == operator.active /\ ~operator.password

\* Second half: password, link and membership change together.
SetPasswordCommit(s) ==
    LET i == spend[s].link
        d == invite[i].member
    IN /\ i # Nothing /\ OperatorFree /\ NeedsPassword
       /\ operator' = [operator EXCEPT !.password = TRUE]
       /\ invite' = [invite EXCEPT ![i].used = TRUE]
       /\ membership' = IF d # Nothing /\ membership[d] = "pending"
                        THEN [membership EXCEPT ![d] = "active"] ELSE membership
       /\ spend' = [spend EXCEPT ![s] = NoSpend]
       /\ UNCHANGED <<inviteClock, mintedWith, canMail, issuing>>

\* InviteRefused or PasswordRejected: the transaction rolls back, nothing is spent.
SetPasswordRefused(s) ==
    /\ spend[s].link # Nothing /\ OperatorFree
    /\ spend' = [spend EXCEPT ![s] = NoSpend]
    /\ UNCHANGED <<inviteClock, operator, membership, mintedWith, canMail, invite, issuing>>

\* An issuer waits for a link whose spender waits for the operator: the
\* database ends one of them.
Deadlocked(p, s) ==
    issuing[p].locked /\ spend[s].link \in Unspent(issuing[p].began)

BreakDeadlock(p, s) ==
    /\ Deadlocked(p, s)
    /\ \/ /\ issuing' = [issuing EXCEPT ![p] = NotIssuing]
          /\ UNCHANGED spend
       \/ /\ spend' = [spend EXCEPT ![s] = NoSpend]
          /\ UNCHANGED issuing
    /\ UNCHANGED <<inviteClock, operator, membership, mintedWith, canMail, invite>>

-----------------------------------------------------------------------------
\* External: the queue mails a link, mail is configured or breaks, a password
\* is set on the host shell, the row is switched off or on, time passes.
InviteMailed(i) ==
    /\ invite[i].mail
    /\ invite' = [invite EXCEPT ![i].mail = FALSE]
    /\ UNCHANGED <<inviteClock, operator, membership, mintedWith, canMail, issuing, spend>>

MailSwitches(d) ==
    /\ canMail' = [canMail EXCEPT ![d] = ~@]
    /\ UNCHANGED <<inviteClock, operator, membership, mintedWith, invite, issuing, spend>>

PasswordByHand ==
    /\ operator.exists /\ ~operator.password /\ OperatorFree
    /\ operator' = [operator EXCEPT !.password = TRUE]
    /\ UNCHANGED <<inviteClock, membership, mintedWith, canMail, invite, issuing, spend>>

SwitchActive ==
    /\ operator.exists /\ OperatorFree
    /\ operator' = [operator EXCEPT !.active = ~@]
    /\ UNCHANGED <<inviteClock, membership, mintedWith, canMail, invite, issuing, spend>>

InviteTick ==
    /\ inviteClock < MaxInviteTime
    /\ inviteClock' = inviteClock + 1
    /\ UNCHANGED <<operator, membership, mintedWith, canMail, invite, issuing, spend>>

OperatorNext ==
    \/ CreateOperator \/ PasswordByHand \/ SwitchActive \/ InviteTick
    \/ \E d \in Directories : InviteNew(d) \/ InviteKnown(d) \/ MailSwitches(d)
    \/ \E p \in Issuers : \/ \E t \in 0..inviteClock : IssueLock(p, t)
                          \/ IssueCommit(p)
    \/ \E s \in Spenders : \/ \E i \in Invites, t \in 0..inviteClock : SetPasswordLock(s, i, t)
                           \/ SetPasswordCommit(s) \/ SetPasswordRefused(s)
    \/ \E p \in Issuers, s \in Spenders : BreakDeadlock(p, s)
    \/ \E i \in Invites : InviteMailed(i)

OperatorSpec == OperatorInit /\ [][OperatorNext]_operatorVars

-----------------------------------------------------------------------------
\* A row for an operator and a directory at most once, pending or accepted.
Memberships == [Directories -> {"none", "pending", "active"}]

\* The operator, its memberships and links, and what each request has read keep their shape.
OperatorTypeOK ==
    /\ inviteClock \in 0..MaxInviteTime
    /\ operator \in [exists : BOOLEAN, active : BOOLEAN, password : BOOLEAN]
    /\ membership \in Memberships
    /\ mintedWith \in Directories \cup {Nothing}
    /\ canMail \in [Directories -> BOOLEAN]
    /\ invite \in [Invites -> [issued : BOOLEAN, created : 0..MaxInviteTime,
                               expires : 0..(MaxInviteTime + INVITE_TTL), used : BOOLEAN,
                               member : Directories \cup {Nothing}, mail : BOOLEAN]]
    /\ issuing \in [Issuers -> [began : 0..MaxInviteTime, locked : BOOLEAN]]
    /\ spend \in [Spenders -> [link : Invites \cup {Nothing}, began : 0..MaxInviteTime]]

\* One credential comes of all the links ever issued to an operator: at most
\* one link is spent, also when a page opened before a newer link was issued
\* is posted after it; at most one can be spent by a page opened now; and a
\* membership is accepted only through the link minted with the operator.
InviteOnce ==
    /\ Cardinality({i \in Invites : invite[i].used}) <= 1
    /\ Cardinality(Unspent(inviteClock)) <= 1
    /\ \A d \in Directories : membership[d] = "active" =>
        d = mintedWith /\ \E i \in Invites : invite[i].used /\ invite[i].member = d
=============================================================================
