--------------------------- MODULE AccountsProofs ---------------------------
(***************************************************************************)
(* The links that open an account, for any number of links, requests,      *)
(* browsers and any lifetimes: an owner's sign-in link (SignIn) and an     *)
(* operator's set-password link (Operators) are spent once, however the    *)
(* transactions that issue and spend them cross.                           *)
(***************************************************************************)
EXTENDS SignIn, Operators, FiniteSetTheorems, TLAPS

-----------------------------------------------------------------------------
(* Owner sign-in.                                                           *)

LinkRows == [issued : BOOLEAN, created : Nat, expires : Nat, used : BOOLEAN, mailed : BOOLEAN]
AskRows == [at : {"idle", "read", "select", "locked"}, began : Nat, want : SUBSET Links, held : SUBSET Links]
SpendRows == [link : Links \cup {NoLink}, began : Nat, locked : BOOLEAN, late : BOOLEAN]

SignInRows ==
    /\ signInClock \in 0 .. MaxSignInTime
    /\ link \in [Links -> LinkRows] /\ asking \in [LinkRequests -> AskRows]
    /\ spending \in [Browsers -> SpendRows]
    /\ opened \in [Links -> Nat] /\ superseded \subseteq Links
    /\ \A k \in Links : session[k].open => link[k].used
    /\ session \in [Links -> [open : BOOLEAN, seen : Nat, expires : Nat]]

\* A row lock has one holder: a request that is expiring the link, or a browser spending it.
OneHolder ==
    /\ \A r, q \in LinkRequests : \A k \in asking[r].held \cap asking[q].held : r = q
    /\ \A b, d \in Browsers : /\ spending[b].locked /\ spending[d].locked
                              /\ spending[b].link = spending[d].link
                              => b = d
    /\ \A r \in LinkRequests, b \in Browsers : spending[b].locked => spending[b].link \notin asking[r].held

\* What is known of a link under lock: nobody else has spent or expired it.
HeldLive ==
    /\ \A r \in LinkRequests : /\ asking[r].began <= signInClock
                               /\ \A k \in asking[r].held : /\ link[k].issued /\ ~link[k].used
                                                            /\ link[k].expires > asking[r].began
    /\ \A b \in Browsers : /\ spending[b].locked => spending[b].link \in Links /\ ~spending[b].late
                           /\ spending[b].locked => ~link[spending[b].link].used
                           /\ spending[b].link # NoLink => link[spending[b].link].issued

\* A replaced link has expired, and had when a browser that began later looked at it.
Replaced ==
    /\ \A k \in superseded : link[k].issued /\ link[k].expires <= signInClock
    /\ \A b \in Browsers : spending[b].late => /\ spending[b].link \in superseded
                                               /\ link[spending[b].link].expires <= spending[b].began

\* A session was opened for every spent link and for no other.
OpenedOnce == \A k \in Links : /\ opened[k] = IF link[k].used THEN 1 ELSE 0
                               /\ link[k].used => link[k].issued
                               /\ link[k].mailed => link[k].issued

SignInInv == SignInRows /\ OneHolder /\ HeldLive /\ Replaced /\ OpenedOnce /\ lateOpened = {}

LEMMA SignInInitial == ASSUME SignInInit PROVE SignInInv
<1>1. SignInRows
  BY SignInAssumption DEF SignInInit, SignInRows, LinkRows, AskRows, SpendRows, NotAsking, NotSpending, NoSession
<1>2. OneHolder /\ HeldLive
  BY SignInAssumption DEF SignInInit, OneHolder, HeldLive, NotAsking, NotSpending
<1>3. Replaced /\ OpenedOnce
  BY DEF SignInInit, Replaced, OpenedOnce, NotSpending
<1> QED BY <1>1, <1>2, <1>3 DEF SignInInv, SignInInit

LEMMA LinkFields ==
    ASSUME SignInInv
    PROVE  /\ signInClock \in Nat
           /\ \A k \in Links : /\ link[k] \in LinkRows /\ link[k].issued \in BOOLEAN /\ link[k].used \in BOOLEAN
                               /\ link[k].expires \in Nat /\ link[k].created \in Nat /\ link[k].mailed \in BOOLEAN
           /\ \A r \in LinkRequests : /\ asking[r] \in AskRows /\ asking[r].began \in Nat
                                      /\ asking[r].held \subseteq Links /\ asking[r].want \subseteq Links
           /\ \A b \in Browsers : /\ spending[b] \in SpendRows /\ spending[b].link \in Links \cup {NoLink}
                                  /\ spending[b].began \in Nat /\ spending[b].locked \in BOOLEAN
                                  /\ spending[b].late \in BOOLEAN
BY SignInAssumption DEF SignInInv, SignInRows, LinkRows, AskRows, SpendRows

\* A step of one request that touches no link.
LEMMA AskStep ==
    ASSUME SignInInv, NEW r \in LinkRequests, NEW a \in AskRows, asking' = [asking EXCEPT ![r] = a],
           a.began <= signInClock,
           \A k \in a.held : /\ link[k].issued /\ ~link[k].used /\ link[k].expires > a.began
                             /\ k \in asking[r].held \/ ~Locked(k),
           UNCHANGED <<signInClock, link, spending, session, superseded, opened, lateOpened>>
    PROVE  SignInInv'
<1>1. /\ asking' \in [LinkRequests -> AskRows] /\ asking'[r] = a
      /\ \A q \in LinkRequests : q # r => asking'[q] = asking[q]
  BY DEF SignInInv, SignInRows
<1>2. SignInRows'
  BY <1>1 DEF SignInInv, SignInRows
<1>3. OneHolder'
  BY <1>1 DEF SignInInv, OneHolder, Locked
<1>4. HeldLive'
  BY <1>1 DEF SignInInv, HeldLive
<1>5. Replaced' /\ OpenedOnce'
  BY DEF SignInInv, Replaced, OpenedOnce
<1> QED BY <1>2, <1>3, <1>4, <1>5 DEF SignInInv

LEMMA AskReadKeeps == ASSUME SignInInv, NEW r \in LinkRequests, AskRead(r) PROVE SignInInv'
<1>1. PICK a : a = [NotAsking EXCEPT !.at = "read", !.began = signInClock]
  OBVIOUS
<1>2. a \in AskRows /\ a.began = signInClock /\ a.held = {}
  BY <1>1, LinkFields DEF NotAsking, AskRows
<1>3. a.began <= signInClock
  BY <1>2, LinkFields
<1> QED BY <1>1, <1>2, <1>3, AskStep DEF AskRead

LEMMA AskSelectKeeps == ASSUME SignInInv, NEW r \in LinkRequests, AskSelect(r) PROVE SignInInv'
<1>1. PICK w \in SUBSET Links : w = Live(asking[r].began)
  BY DEF Live, Issued
<1>2. PICK a : a = [asking[r] EXCEPT !.at = "select", !.want = w]
  OBVIOUS
<1>3. a \in AskRows /\ a.began = asking[r].began /\ a.held = asking[r].held
  BY <1>2, LinkFields DEF AskRows
<1>4. asking' = [asking EXCEPT ![r] = a]
  BY <1>1, <1>2 DEF AskSelect, SignInInv, SignInRows
<1>5. /\ a.began <= signInClock
      /\ \A k \in a.held : link[k].issued /\ ~link[k].used /\ link[k].expires > a.began /\ k \in asking[r].held
  BY <1>3 DEF SignInInv, HeldLive
<1> QED BY <1>3, <1>4, <1>5, AskStep DEF AskSelect

LEMMA AskLockKeeps == ASSUME SignInInv, NEW r \in LinkRequests, AskLock(r) PROVE SignInInv'
<1>1. PICK w \in SUBSET Links : w = asking[r].want \cap Live(asking[r].began)
  BY LinkFields
<1>2. PICK a : a = [asking[r] EXCEPT !.at = "locked", !.held = w]
  OBVIOUS
<1>3. a \in AskRows /\ a.began = asking[r].began /\ a.held = w
  BY <1>2, LinkFields DEF AskRows
<1>4. asking' = [asking EXCEPT ![r] = a]
  BY <1>1, <1>2 DEF AskLock, SignInInv, SignInRows
<1>5. a.began <= signInClock
  BY <1>3 DEF SignInInv, HeldLive
<1>6. \A k \in a.held : link[k].issued /\ ~link[k].used /\ link[k].expires > a.began /\ ~Locked(k)
  BY <1>1, <1>3 DEF AskLock, Live, Issued
<1> QED BY <1>3, <1>4, <1>5, <1>6, AskStep DEF AskLock

\* A step of one browser that touches no link.
LEMMA SpendStep ==
    ASSUME SignInInv, NEW b \in Browsers, NEW s \in SpendRows, spending' = [spending EXCEPT ![b] = s],
           s.locked => /\ s.link \in Links /\ ~s.late /\ ~link[s.link].used
                       /\ ~Locked(s.link),
           s.link # NoLink => link[s.link].issued,
           s.late => s.link \in superseded /\ link[s.link].expires <= s.began,
           UNCHANGED <<signInClock, link, asking, session, superseded, opened, lateOpened>>
    PROVE  SignInInv'
<1>1. /\ spending' \in [Browsers -> SpendRows] /\ spending'[b] = s
      /\ \A d \in Browsers : d # b => spending'[d] = spending[d]
  BY DEF SignInInv, SignInRows
<1>2. SignInRows'
  BY <1>1 DEF SignInInv, SignInRows
<1>3. OneHolder'
  BY <1>1 DEF SignInInv, OneHolder, Locked
<1>4. HeldLive'
  BY <1>1 DEF SignInInv, HeldLive
<1>5. Replaced' /\ OpenedOnce'
  BY <1>1 DEF SignInInv, Replaced, OpenedOnce
<1> QED BY <1>2, <1>3, <1>4, <1>5 DEF SignInInv

LEMMA SpendNothing == /\ NotSpending \in SpendRows /\ ~NotSpending.locked /\ ~NotSpending.late
                      /\ NotSpending.link = NoLink
BY DEF NotSpending, SpendRows

LEMMA SpendBeginKeeps == ASSUME SignInInv, NEW b \in Browsers, NEW k \in Links, SpendBegin(b, k) PROVE SignInInv'
<1>0. \E t \in BOOLEAN : t = (k \in superseded)
  <2> WITNESS (k \in superseded) \in BOOLEAN
  <2> QED OBVIOUS
<1>a. PICK t \in BOOLEAN : t = (k \in superseded)
  BY <1>0
<1>1. PICK s : s = [link |-> k, began |-> signInClock, locked |-> FALSE, late |-> t]
  OBVIOUS
<1>2. s \in SpendRows /\ s.link = k /\ s.began = signInClock /\ ~s.locked /\ (s.late => k \in superseded)
  BY <1>a, <1>1, LinkFields DEF SpendRows
<1>3. spending' = [spending EXCEPT ![b] = s]
  BY <1>a, <1>1 DEF SpendBegin
<1>4. link[k].issued
  BY DEF SpendBegin, SignInInv, OpenedOnce
<1>5. s.late => s.link \in superseded /\ link[s.link].expires <= s.began
  BY <1>2 DEF SignInInv, Replaced
<1> QED BY <1>2, <1>3, <1>4, <1>5, SpendStep DEF SpendBegin

LEMMA SpendLockKeeps == ASSUME SignInInv, NEW b \in Browsers, SpendLock(b) PROVE SignInInv'
<1>1. PICK k \in Links : k = spending[b].link
  BY LinkFields DEF SpendLock
<1>2. PICK s : s = [spending[b] EXCEPT !.locked = TRUE]
  OBVIOUS
<1>3. /\ s \in SpendRows /\ s.link = k /\ s.began = spending[b].began /\ s.locked
      /\ s.late = spending[b].late
  BY <1>1, <1>2, LinkFields DEF SpendRows
<1>4. CASE k \in Live(spending[b].began) /\ spending' = [spending EXCEPT ![b] = s]
  <2>1. link[k].issued /\ ~link[k].used /\ link[k].expires > spending[b].began
    BY <1>4 DEF Live, Issued
  <2>2. ~spending[b].late
    BY <1>1, <2>1, LinkFields DEF SignInInv, Replaced
  <2>3. ~Locked(k)
    BY <1>1 DEF SpendLock, LockFree
  <2> QED BY <1>3, <1>4, <2>1, <2>2, <2>3, SpendStep DEF SpendLock
<1>5. CASE spending' = [spending EXCEPT ![b] = NotSpending]
  BY <1>5, SpendNothing, SpendStep DEF SpendLock
<1> QED BY <1>1, <1>2, <1>4, <1>5 DEF SpendLock

\* The commit of a new link k: the links the request held expire at its own time.
LEMMA AskCommitKeeps ==
    ASSUME SignInInv, NEW r \in LinkRequests, NEW k \in Links, AskCommit(r, k) PROVE SignInInv'
<1> DEFINE began == asking[r].began
           held == asking[r].held
<1>1. began \in Nat /\ held \subseteq Links /\ began <= signInClock /\ signInClock \in Nat
  BY LinkFields DEF SignInInv, HeldLive
<1>2. ~link[k].issued /\ ~link[k].used
  BY LinkFields DEF AskCommit, SignInInv, OpenedOnce
<1>3. PICK x \in Nat : x = began + SIGNIN_TTL
  BY <1>1, SignInAssumption
<1>4. link' = [j \in Links |->
                 IF j = k THEN [issued |-> TRUE, created |-> signInClock, used |-> FALSE, expires |-> x, mailed |-> FALSE]
                 ELSE IF j \in held THEN [link[j] EXCEPT !.expires = began] ELSE link[j]]
  BY <1>3 DEF AskCommit
<1>5. /\ superseded' = superseded \cup held /\ asking' = [asking EXCEPT ![r] = NotAsking]
      /\ UNCHANGED <<signInClock, spending, session, opened, lateOpened>>
  BY DEF AskCommit
<1>6. /\ asking' \in [LinkRequests -> AskRows] /\ asking'[r].held = {} /\ asking'[r].began = 0
      /\ \A q \in LinkRequests : q # r => asking'[q] = asking[q]
  BY <1>5, SignInAssumption DEF SignInInv, SignInRows, NotAsking, AskRows
<1>7. \A j \in held : link[j].issued /\ ~link[j].used /\ link[j].expires > began
  BY DEF SignInInv, HeldLive
<1>8. \A j \in Links : j # k /\ j \in held => /\ link'[j] \in LinkRows
                                              /\ link'[j].issued = link[j].issued /\ link'[j].used = link[j].used
                                              /\ link'[j].mailed = link[j].mailed /\ link'[j].expires = began
  BY <1>1, <1>4, LinkFields DEF LinkRows
<1>9. \A j \in Links : j # k /\ j \notin held => link'[j] = link[j]
  BY <1>4
<1>10. /\ link'[k] \in LinkRows /\ link'[k].issued /\ ~link'[k].used /\ ~link'[k].mailed
  BY <1>1, <1>4 DEF LinkRows
<1>11. link' \in [Links -> LinkRows]
  <2>1. \A j \in Links : link'[j] \in LinkRows
    BY <1>8, <1>9, <1>10, LinkFields
  <2>2. link' = [j \in Links |-> link'[j]]
    BY <1>4
  <2> QED BY <2>1, <2>2
<1> HIDE DEF began, held
<1>12. SignInRows'
  <2>1. \A j \in Links : session'[j].open => link'[j].used
    BY <1>2, <1>5, <1>8, <1>9 DEF SignInInv, SignInRows
  <2> QED BY <1>1, <1>5, <1>6, <1>11, <2>1 DEF SignInInv, SignInRows
<1>13. OneHolder'
  BY <1>5, <1>6 DEF SignInInv, OneHolder
<1>14. HeldLive'
  <2>1. ASSUME NEW q \in LinkRequests
        PROVE  /\ asking'[q].began <= signInClock'
               /\ \A j \in asking'[q].held : link'[j].issued /\ ~link'[j].used /\ link'[j].expires > asking'[q].began
    <3>1. CASE q = r
      BY <1>1, <1>5, <1>6, <3>1
    <3>2. CASE q # r
      <4>1. asking'[q] = asking[q] /\ asking[q].began <= signInClock
        BY <1>6, <3>2 DEF SignInInv, HeldLive
      <4>2. ASSUME NEW j \in asking[q].held
            PROVE  link'[j].issued /\ ~link'[j].used /\ link'[j].expires > asking[q].began
        <5>1. j \in Links /\ link[j].issued /\ ~link[j].used /\ link[j].expires > asking[q].began
          BY LinkFields DEF SignInInv, HeldLive
        <5>2. j \notin held
          BY <3>2 DEF SignInInv, OneHolder, held
        <5> QED BY <1>2, <1>9, <5>1, <5>2
      <4> QED BY <1>5, <4>1, <4>2
    <3> QED BY <3>1, <3>2
  <2>2. ASSUME NEW b \in Browsers
        PROVE  /\ spending[b].locked => spending[b].link \in Links /\ ~spending[b].late
               /\ spending[b].locked => ~link'[spending[b].link].used
               /\ spending[b].link # NoLink => link'[spending[b].link].issued
    <3>1. /\ spending[b].locked => spending[b].link \in Links /\ ~spending[b].late
          /\ spending[b].locked => ~link[spending[b].link].used
          /\ spending[b].link # NoLink => spending[b].link \in Links /\ link[spending[b].link].issued
      BY LinkFields DEF SignInInv, HeldLive
    <3> QED BY <1>2, <1>8, <1>9, <1>10, <3>1
  <2> QED BY <1>5, <2>1, <2>2 DEF HeldLive
<1>15. Replaced'
  <2>1. ASSUME NEW j \in superseded'
        PROVE  link'[j].issued /\ link'[j].expires <= signInClock
    <3>1. j \in Links /\ j # k
      BY <1>1, <1>2, <1>5, <1>7 DEF SignInInv, Replaced, SignInRows
    <3>2. CASE j \in held
      BY <1>1, <1>7, <1>8, <3>1, <3>2
    <3>3. CASE j \notin held
      BY <1>5, <1>9, <3>1, <3>3 DEF SignInInv, Replaced
    <3> QED BY <3>2, <3>3
  <2>2. ASSUME NEW b \in Browsers, spending[b].late
        PROVE  spending[b].link \in superseded' /\ link'[spending[b].link].expires <= spending[b].began
    <3>1. PICK j \in superseded : j = spending[b].link /\ link[j].expires <= spending[b].began /\ link[j].issued
      BY <2>2 DEF SignInInv, Replaced
    <3>2. j \in Links /\ j # k /\ spending[b].began \in Nat /\ link[j].expires \in Nat
      BY <1>2, <3>1, LinkFields DEF SignInInv, SignInRows
    <3>3. CASE j \in held
      BY <1>1, <1>5, <1>7, <1>8, <3>1, <3>2, <3>3
    <3>4. CASE j \notin held
      BY <1>5, <1>9, <3>1, <3>2, <3>4
    <3> QED BY <3>3, <3>4
  <2> QED BY <1>5, <2>1, <2>2 DEF Replaced
<1>16. OpenedOnce'
  <2> SUFFICES ASSUME NEW j \in Links
               PROVE  /\ opened[j] = IF link'[j].used THEN 1 ELSE 0
                      /\ link'[j].used => link'[j].issued
                      /\ link'[j].mailed => link'[j].issued
    BY <1>5 DEF OpenedOnce
  <2>1. /\ opened[j] = IF link[j].used THEN 1 ELSE 0
        /\ link[j].used => link[j].issued
        /\ link[j].mailed => link[j].issued
    BY DEF SignInInv, OpenedOnce
  <2>2. CASE j = k
    BY <1>2, <1>10, <2>1, <2>2
  <2>3. CASE j # k /\ j \in held
    BY <1>8, <2>1, <2>3
  <2>4. CASE j # k /\ j \notin held
    BY <1>9, <2>1, <2>4
  <2> QED BY <2>2, <2>3, <2>4
<1> QED BY <1>5, <1>12, <1>13, <1>14, <1>15, <1>16 DEF SignInInv

\* The worker mails a link.
LEMMA MailLinkKeeps == ASSUME SignInInv, NEW k \in Links, MailLink(k) PROVE SignInInv'
<1>1. PICK x : x = [link[k] EXCEPT !.mailed = TRUE]
  OBVIOUS
<1>2. x \in LinkRows /\ x.issued = link[k].issued /\ x.used = link[k].used /\ x.expires = link[k].expires
  BY <1>1, LinkFields DEF LinkRows
<1>3. link' = [link EXCEPT ![k] = x] /\ UNCHANGED <<signInClock, asking, spending, session, superseded, opened, lateOpened>>
  BY <1>1 DEF MailLink
<1>4. /\ link' \in [Links -> LinkRows]
      /\ \A j \in Links : /\ link'[j].issued = link[j].issued /\ link'[j].used = link[j].used
                          /\ link'[j].expires = link[j].expires
  BY <1>2, <1>3 DEF SignInInv, SignInRows
<1>5. \A j \in Links : link'[j].mailed => link'[j].issued
  BY <1>2, <1>3 DEF MailLink, SignInInv, SignInRows, OpenedOnce
<1>6. SignInRows' /\ OneHolder'
  BY <1>3, <1>4 DEF SignInInv, SignInRows, OneHolder
<1>7. HeldLive'
  BY <1>3, <1>4, LinkFields DEF SignInInv, HeldLive
<1>8. Replaced'
  BY <1>3, <1>4 DEF SignInInv, SignInRows, Replaced
<1>9. OpenedOnce'
  BY <1>3, <1>4, <1>5 DEF SignInInv, OpenedOnce
<1> QED BY <1>3, <1>6, <1>7, <1>8, <1>9 DEF SignInInv

\* A browser spends the link it has locked.
LEMMA SpendCommitKeeps == ASSUME SignInInv, NEW b \in Browsers, SpendCommit(b) PROVE SignInInv'
<1>1. PICK k \in Links : k = spending[b].link
  BY LinkFields DEF SpendCommit, SignInInv, HeldLive
<1>2. spending[b].locked /\ ~spending[b].late /\ ~link[k].used /\ link[k].issued /\ spending[b].began \in Nat
  BY <1>1, LinkFields, SignInAssumption DEF SpendCommit, SignInInv, HeldLive
<1>3. PICK x : x = [link[k] EXCEPT !.used = TRUE]
  OBVIOUS
<1>4. x \in LinkRows /\ x.issued = link[k].issued /\ x.used /\ x.expires = link[k].expires /\ x.mailed = link[k].mailed
  BY <1>3, LinkFields DEF LinkRows
<1>5. /\ link' = [link EXCEPT ![k] = x] /\ opened' = [opened EXCEPT ![k] = @ + 1]
      /\ lateOpened' = lateOpened /\ spending' = [spending EXCEPT ![b] = NotSpending]
      /\ UNCHANGED <<signInClock, asking, superseded>>
  BY <1>1, <1>2, <1>3 DEF SpendCommit
<1>6. PICK n : n = [open |-> TRUE, seen |-> spending[b].began, expires |-> spending[b].began + SESSION_ABSOLUTE]
  OBVIOUS
<1>7. n \in [open : BOOLEAN, seen : Nat, expires : Nat] /\ session' = [session EXCEPT ![k] = n]
  <2>1. PICK e \in Nat : e = spending[b].began + SESSION_ABSOLUTE
    BY <1>2, SignInAssumption
  <2>2. n = [open |-> TRUE, seen |-> spending[b].began, expires |-> e]
    BY <1>6, <2>1
  <2>3. session' = [session EXCEPT ![k] = n]
    BY <1>1, <1>6 DEF SpendCommit
  <2> QED BY <1>2, <2>2, <2>3
<1>8. /\ link' \in [Links -> LinkRows] /\ link'[k] = x /\ \A j \in Links : j # k => link'[j] = link[j]
  BY <1>4, <1>5 DEF SignInInv, SignInRows
<1>9. /\ spending' \in [Browsers -> SpendRows] /\ spending'[b] = NotSpending
      /\ \A d \in Browsers : d # b => spending'[d] = spending[d]
  BY <1>5, SpendNothing DEF SignInInv, SignInRows
<1>10. /\ opened' \in [Links -> Nat] /\ opened'[k] = opened[k] + 1 /\ \A j \in Links : j # k => opened'[j] = opened[j]
  BY <1>5 DEF SignInInv, SignInRows
<1>11. \A j \in Links : session'[j].open => link'[j].used
  <2>1. \A j \in Links : j # k => session'[j] = session[j]
    BY <1>7 DEF SignInInv, SignInRows
  <2> QED BY <1>4, <1>8, <2>1 DEF SignInInv, SignInRows
<1>12. SignInRows'
  BY <1>5, <1>7, <1>8, <1>9, <1>10, <1>11 DEF SignInInv, SignInRows
<1>13. OneHolder'
  BY <1>5, <1>9, SpendNothing DEF SignInInv, OneHolder
<1>14. HeldLive'
  <2>1. \A r \in LinkRequests : /\ k \notin asking[r].held
    BY <1>1, <1>2 DEF SignInInv, OneHolder
  <2>2. ASSUME NEW r \in LinkRequests
        PROVE  /\ asking[r].began <= signInClock
               /\ \A j \in asking[r].held : link'[j].issued /\ ~link'[j].used /\ link'[j].expires > asking[r].began
    BY <1>8, <2>1, LinkFields DEF SignInInv, HeldLive
  <2>3. ASSUME NEW d \in Browsers, d # b
        PROVE  /\ spending[d].locked => spending[d].link \in Links /\ ~spending[d].late
               /\ spending[d].locked => ~link'[spending[d].link].used
               /\ spending[d].link # NoLink => link'[spending[d].link].issued
    <3>1. /\ spending[d].locked => spending[d].link \in Links /\ ~spending[d].late
          /\ spending[d].locked => ~link[spending[d].link].used
          /\ spending[d].link # NoLink => spending[d].link \in Links /\ link[spending[d].link].issued
      BY LinkFields DEF SignInInv, HeldLive
    <3>2. spending[d].locked => spending[d].link # k
      BY <1>1, <1>2, <2>3 DEF SignInInv, OneHolder
    <3> QED BY <1>4, <1>8, <3>1, <3>2
  <2> QED BY <1>5, <1>9, <2>2, <2>3, SpendNothing DEF HeldLive
<1>15. Replaced'
  <2>1. \A j \in superseded : link'[j].issued /\ link'[j].expires <= signInClock
    BY <1>4, <1>8 DEF SignInInv, SignInRows, Replaced
  <2>2. \A d \in Browsers : d # b /\ spending[d].late => /\ spending[d].link \in superseded
                                                        /\ link'[spending[d].link].expires <= spending[d].began
    BY <1>4, <1>8 DEF SignInInv, SignInRows, Replaced
  <2> QED BY <1>5, <1>9, <2>1, <2>2, SpendNothing DEF Replaced
<1>16. OpenedOnce'
  <2>1. opened'[k] = 1 /\ link'[k].used /\ link'[k].issued
    <3>1. opened[k] = IF link[k].used THEN 1 ELSE 0
      BY DEF SignInInv, OpenedOnce
    <3>2. opened'[k] = 1
      BY <1>2, <1>10, <3>1
    <3> QED BY <1>2, <1>4, <1>8, <3>2
  <2>2. \A j \in Links : j # k => opened'[j] = opened[j] /\ link'[j] = link[j]
    BY <1>8, <1>10
  <2> QED BY <2>1, <2>2 DEF SignInInv, OpenedOnce
<1> QED BY <1>5, <1>12, <1>13, <1>14, <1>15, <1>16 DEF SignInInv

\* Visits and sign-outs touch sessions only, and open none.
LEMMA SessionKeeps ==
    ASSUME SignInInv, session' \in [Links -> [open : BOOLEAN, seen : Nat, expires : Nat]],
           \A j \in Links : session'[j].open => session[j].open,
           UNCHANGED <<signInClock, link, asking, spending, superseded, opened, lateOpened>>
    PROVE  SignInInv'
<1>1. SignInRows'
  BY DEF SignInInv, SignInRows
<1>2. OneHolder' /\ HeldLive' /\ Replaced' /\ OpenedOnce'
  BY DEF SignInInv, OneHolder, HeldLive, Replaced, OpenedOnce
<1> QED BY <1>1, <1>2 DEF SignInInv

LEMMA VisitKeeps == ASSUME SignInInv, NEW k \in Links, Visit(k) PROVE SignInInv'
<1>1. NoSession \in [open : BOOLEAN, seen : Nat, expires : Nat] /\ ~NoSession.open
  BY DEF NoSession
<1>2. PICK s : s = [session[k] EXCEPT !.seen = signInClock]
  OBVIOUS
<1>3. s \in [open : BOOLEAN, seen : Nat, expires : Nat] /\ s.open = session[k].open
  BY <1>2, LinkFields DEF SignInInv, SignInRows
<1>4. session' = [session EXCEPT ![k] = NoSession] \/ session' = [session EXCEPT ![k] = s]
  BY <1>2 DEF Visit
<1>5. session' \in [Links -> [open : BOOLEAN, seen : Nat, expires : Nat]]
      /\ \A j \in Links : session'[j].open => session[j].open
  BY <1>1, <1>3, <1>4 DEF SignInInv, SignInRows
<1> QED BY <1>5, SessionKeeps DEF Visit

LEMMA SignOutKeeps == ASSUME SignInInv, NEW k \in Links, NEW e \in BOOLEAN, SignOut(k, e) PROVE SignInInv'
<1>1. NoSession \in [open : BOOLEAN, seen : Nat, expires : Nat] /\ ~NoSession.open
  BY DEF NoSession
<1>2. session' = [j \in Links |-> IF j = k \/ e THEN NoSession ELSE session[j]]
  BY DEF SignOut
<1>3. session' \in [Links -> [open : BOOLEAN, seen : Nat, expires : Nat]]
      /\ \A j \in Links : session'[j].open => session[j].open
  BY <1>1, <1>2 DEF SignInInv, SignInRows
<1> QED BY <1>3, SessionKeeps DEF SignOut

LEMMA SignInTickKeeps == ASSUME SignInInv, SignInTick PROVE SignInInv'
<1>1. signInClock' \in 0 .. MaxSignInTime /\ signInClock' = signInClock + 1 /\ signInClock \in Nat
      /\ UNCHANGED <<link, asking, spending, session, superseded, opened, lateOpened>>
  BY SignInAssumption DEF SignInInv, SignInRows, SignInTick
<1>2. SignInRows' /\ OneHolder' /\ OpenedOnce'
  BY <1>1 DEF SignInInv, SignInRows, OneHolder, OpenedOnce
<1>3. HeldLive'
  BY <1>1, LinkFields DEF SignInInv, HeldLive
<1>4. Replaced'
  <2>1. \A k \in superseded : link[k].expires \in Nat
    BY LinkFields DEF SignInInv, SignInRows
  <2> QED BY <1>1, <2>1 DEF SignInInv, Replaced
<1> QED BY <1>1, <1>2, <1>3, <1>4 DEF SignInInv

LEMMA SignInNextKeeps == ASSUME SignInInv, [SignInNext]_signInVars PROVE SignInInv'
<1>1. CASE UNCHANGED signInVars \/ AccountChanges
  <2>1. UNCHANGED <<signInClock, link, asking, spending, session, superseded, opened, lateOpened>>
    BY <1>1 DEF signInVars, AccountChanges
  <2> QED BY <2>1, SessionKeeps DEF SignInInv, SignInRows
<1>2. ASSUME NEW r \in LinkRequests, \/ AskRead(r) \/ AskSelect(r) \/ AskLock(r)
                                     \/ \E k \in Links : AskCommit(r, k)
      PROVE  SignInInv'
  BY <1>2, AskReadKeeps, AskSelectKeeps, AskLockKeeps, AskCommitKeeps
<1>3. ASSUME NEW k \in Links, \/ MailLink(k) \/ Visit(k) \/ \E e \in BOOLEAN : SignOut(k, e)
      PROVE  SignInInv'
  BY <1>3, MailLinkKeeps, VisitKeeps, SignOutKeeps
<1>4. ASSUME NEW b \in Browsers, \/ SpendLock(b) \/ SpendCommit(b) \/ \E k \in Links : SpendBegin(b, k)
      PROVE  SignInInv'
  BY <1>4, SpendLockKeeps, SpendCommitKeeps, SpendBeginKeeps
<1> QED BY <1>1, <1>2, <1>3, <1>4, SignInTickKeeps DEF SignInNext

\* The locks and the times of links and requests agree in every behaviour of owner sign-in.
THEOREM SignInInvariance == SignInSpec => []SignInInv
BY SignInInitial, SignInNextKeeps, PTL DEF SignInSpec

\* A sign-in link opens at most one session, and none to a browser that begins to use it
\* after a newer link has replaced it (_apply_sign_in, _apply_request).
THEOREM LinkCorrect == SignInSpec => []LinkOnce
<1>1. SignInInv => LinkOnce
  BY DEF SignInInv, OpenedOnce, LinkOnce
<1> QED BY <1>1, SignInInvariance, PTL

-----------------------------------------------------------------------------
(* Operator invites.                                                        *)

InviteRows == [issued : BOOLEAN, created : 0..MaxInviteTime, expires : 0..(MaxInviteTime + INVITE_TTL),
               used : BOOLEAN, member : Directories \cup {Nothing}, mail : BOOLEAN]

\* A link belongs to an operator, and carries the membership the operator was made with
\* or none; the one that was spent gave the operator its password.
Credential ==
    /\ operator.password => operator.exists
    /\ \A i \in Invites : /\ invite[i].issued => operator.exists /\ invite[i].member \in {Nothing, mintedWith}
                          /\ invite[i].used => invite[i].issued /\ operator.password
    /\ \A i, j \in Invites : invite[i].used /\ invite[j].used => i = j
    /\ \A s \in Spenders : spend[s].link # Nothing => invite[spend[s].link].issued
    /\ \A p \in Issuers : issuing[p].locked => operator.exists

\* At most one link can be spent now, and no issuer began later than now.
OneUnspent ==
    /\ \A i, j \in Unspent(inviteClock) : i = j
    /\ \A p \in Issuers : issuing[p].began <= inviteClock

\* A membership is accepted only by the link that was spent.
Accepted ==
    \A d \in Directories : membership[d] = "active" =>
        d = mintedWith /\ \E i \in Invites : invite[i].used /\ invite[i].member = d

OperatorInv == OperatorTypeOK /\ Credential /\ OneUnspent /\ Accepted

LEMMA InviteFields ==
    ASSUME OperatorTypeOK
    PROVE  /\ inviteClock \in Nat /\ inviteClock <= MaxInviteTime /\ MaxInviteTime \in Nat /\ INVITE_TTL \in Nat
           /\ \A i \in Invites : /\ invite[i] \in InviteRows /\ invite[i].issued \in BOOLEAN
                                 /\ invite[i].used \in BOOLEAN /\ invite[i].expires \in Nat
                                 /\ invite[i].member \in Directories \cup {Nothing}
           /\ \A p \in Issuers : issuing[p].began \in 0..MaxInviteTime
           /\ \A s \in Spenders : spend[s].link \in Invites \cup {Nothing}
BY OperatorAssumption DEF OperatorTypeOK, InviteRows

LEMMA OperatorInitial == ASSUME OperatorInit PROVE OperatorInv
<1>1. OperatorTypeOK
  <2>1. BlankInvite \in InviteRows
    BY OperatorAssumption DEF BlankInvite, InviteRows
  <2>2. NotIssuing \in [began : 0..MaxInviteTime, locked : BOOLEAN]
        /\ NoSpend \in [link : Invites \cup {Nothing}, began : 0..MaxInviteTime]
    BY OperatorAssumption DEF NotIssuing, NoSpend
  <2> QED BY <2>1, <2>2, OperatorAssumption DEF OperatorInit, OperatorTypeOK, InviteRows, Memberships
<1>2. \A i \in Invites : ~invite[i].issued /\ ~invite[i].used
  BY DEF OperatorInit, BlankInvite
<1>3. Credential /\ OneUnspent /\ Accepted
  BY <1>2 DEF OperatorInit, Credential, OneUnspent, Accepted, Unspent, NotIssuing, NoSpend
<1> QED BY <1>1, <1>3 DEF OperatorInv

\* mint_invite: the new link is the only one that can be spent, the others keep what
\* they were.
LEMMA MintedRows ==
    ASSUME OperatorTypeOK, NEW i \in Invites, NEW t \in 0..inviteClock, NEW d \in Directories \cup {Nothing},
           NEW m \in BOOLEAN, invite' = Minted(i, t, d, m), inviteClock' = inviteClock
    PROVE  /\ invite' \in [Invites -> InviteRows]
           /\ invite'[i].issued /\ ~invite'[i].used /\ invite'[i].member = d
           /\ \A j \in Invites : j # i => /\ invite'[j].issued = invite[j].issued /\ invite'[j].used = invite[j].used
                                          /\ invite'[j].member = invite[j].member
           /\ \A j \in Unspent(inviteClock)' : j = i
<1>1. t \in Nat /\ t <= inviteClock /\ t \in 0..MaxInviteTime /\ t \in 0..(MaxInviteTime + INVITE_TTL) /\ inviteClock \in Nat
  BY InviteFields
<1>2. PICK x \in 0..(MaxInviteTime + INVITE_TTL) : x = t + INVITE_TTL
  BY <1>1, InviteFields
<1>3. invite' = [j \in Invites |->
                   IF j = i THEN [issued |-> TRUE, created |-> t, expires |-> x, used |-> FALSE, member |-> d, mail |-> m]
                   ELSE IF j \in Unspent(t) THEN [invite[j] EXCEPT !.expires = t, !.mail = FALSE]
                   ELSE invite[j]]
  BY <1>2 DEF Minted
<1>4. invite'[i] \in InviteRows /\ invite'[i].issued /\ ~invite'[i].used /\ invite'[i].member = d
  <2>1. invite'[i] = [issued |-> TRUE, created |-> t, expires |-> x, used |-> FALSE, member |-> d, mail |-> m]
    BY <1>3
  <2>2. CASE m = TRUE
    BY <1>1, <2>1, <2>2 DEF InviteRows
  <2>3. CASE m = FALSE
    BY <1>1, <2>1, <2>3 DEF InviteRows
  <2> QED BY <2>2, <2>3
<1>5. ASSUME NEW j \in Invites, j # i
      PROVE  /\ invite'[j] \in InviteRows
             /\ invite'[j].issued = invite[j].issued /\ invite'[j].used = invite[j].used
             /\ invite'[j].member = invite[j].member
             /\ ~(invite'[j].issued /\ ~invite'[j].used /\ invite'[j].expires > inviteClock)
  <2>1. invite[j] \in InviteRows /\ invite[j].expires \in Nat
    BY InviteFields
  <2>2. CASE j \in Unspent(t)
    <3>1. invite'[j] = [invite[j] EXCEPT !.expires = t, !.mail = FALSE]
      BY <1>3, <1>5, <2>2
    <3>2. /\ invite'[j] \in InviteRows /\ invite'[j].expires = t
          /\ invite'[j].issued = invite[j].issued /\ invite'[j].used = invite[j].used
          /\ invite'[j].member = invite[j].member
      BY <1>1, <2>1, <3>1 DEF InviteRows
    <3> QED BY <1>1, <3>2
  <2>3. CASE j \notin Unspent(t)
    <3>1. invite'[j] = invite[j]
      BY <1>3, <1>5, <2>3
    <3>2. ~(invite[j].issued /\ ~invite[j].used /\ invite[j].expires > t)
      BY <2>3 DEF Unspent
    <3> QED BY <1>1, <2>1, <3>1, <3>2
  <2> QED BY <2>2, <2>3
<1>6. invite' \in [Invites -> InviteRows]
  <2>1. \A j \in Invites : invite'[j] \in InviteRows
    BY <1>4, <1>5
  <2>2. invite' = [j \in Invites |-> invite'[j]]
    BY <1>3
  <2> QED BY <2>1, <2>2
<1>7. \A j \in Unspent(inviteClock)' : j = i
  BY <1>5 DEF Unspent
<1> QED BY <1>4, <1>5, <1>6, <1>7

\* A new link, for the operator it belongs to.
LEMMA MintKeeps ==
    ASSUME OperatorInv, NEW i \in Invites, ~invite[i].issued, NEW t \in 0..inviteClock,
           NEW d \in Directories \cup {Nothing}, NEW m \in BOOLEAN, invite' = Minted(i, t, d, m),
           operator'.exists, operator'.password = operator.password,
           d \in {Nothing, mintedWith'}, \A j \in Invites : invite[j].issued => mintedWith' = mintedWith,
           \A e \in Directories : membership'[e] = "active" => membership[e] = "active",
           \A p \in Issuers : issuing'[p].began <= inviteClock,
           UNCHANGED <<inviteClock, spend>>
    PROVE  Credential' /\ OneUnspent' /\ Accepted'
<1>1. /\ invite'[i].issued /\ ~invite'[i].used /\ invite'[i].member = d
      /\ \A j \in Invites : j # i => /\ invite'[j].issued = invite[j].issued /\ invite'[j].used = invite[j].used
                                     /\ invite'[j].member = invite[j].member
      /\ \A j \in Unspent(inviteClock)' : j = i
  BY MintedRows DEF OperatorInv
<1>2. ~invite[i].used
  BY DEF OperatorInv, Credential
<1>3. \A j \in Invites : invite'[j].used <=> (j # i /\ invite[j].used)
  BY <1>1
<1>4. Credential'
  <2>1. \A s \in Spenders : spend'[s].link # Nothing => invite'[spend'[s].link].issued
    BY <1>1, InviteFields DEF OperatorInv, Credential
  <2>2. \A j \in Invites : /\ invite'[j].issued => operator'.exists /\ invite'[j].member \in {Nothing, mintedWith'}
                           /\ invite'[j].used => invite'[j].issued /\ operator'.password
    BY <1>1 DEF OperatorInv, Credential
  <2>3. \A j, k \in Invites : invite'[j].used /\ invite'[k].used => j = k
    BY <1>3 DEF OperatorInv, Credential
  <2> QED BY <2>1, <2>2, <2>3 DEF Credential
<1>5. OneUnspent'
  BY <1>1 DEF OneUnspent
<1>6. Accepted'
  <2> SUFFICES ASSUME NEW e \in Directories, membership'[e] = "active"
               PROVE  e = mintedWith' /\ \E j \in Invites : invite'[j].used /\ invite'[j].member = e
    BY DEF Accepted
  <2>1. PICK j \in Invites : invite[j].used /\ invite[j].member = e /\ e = mintedWith
    BY DEF OperatorInv, Accepted
  <2>2. j # i /\ invite[j].issued
    BY <1>2, <2>1 DEF OperatorInv, Credential
  <2> QED BY <1>1, <2>1, <2>2
<1> QED BY <1>4, <1>5, <1>6

\* A step that leaves the links, and neither makes the operator again nor takes the
\* password back.
LEMMA NoMintKeeps ==
    ASSUME OperatorInv, invite' = invite, operator.exists => operator'.exists,
           operator.password => operator'.password, operator'.password => operator'.exists,
           \A i \in Invites : invite[i].issued => mintedWith' = mintedWith,
           \A e \in Directories : membership'[e] = "active" => membership[e] = "active",
           inviteClock' \in 0..MaxInviteTime, inviteClock <= inviteClock',
           \A p \in Issuers : issuing'[p].began <= inviteClock',
           \A p \in Issuers : issuing'[p].locked => operator'.exists,
           \A s \in Spenders : spend'[s].link # Nothing => invite[spend'[s].link].issued
    PROVE  Credential' /\ OneUnspent' /\ Accepted'
<1>1. Credential'
  BY DEF OperatorInv, Credential
<1>2. Unspent(inviteClock)' \subseteq Unspent(inviteClock)
  BY InviteFields DEF OperatorInv, Unspent
<1>3. OneUnspent'
  BY <1>2 DEF OperatorInv, OneUnspent
<1>4. Accepted'
  BY DEF OperatorInv, Accepted, Credential
<1> QED BY <1>1, <1>3, <1>4

LEMMA OperatorFields ==
    ASSUME OperatorTypeOK
    PROVE  /\ operator.exists \in BOOLEAN /\ operator.active \in BOOLEAN /\ operator.password \in BOOLEAN
           /\ LET o == [operator EXCEPT !.exists = TRUE]
              IN /\ o \in [exists : BOOLEAN, active : BOOLEAN, password : BOOLEAN]
                 /\ o.exists /\ o.password = operator.password
           /\ LET o == [operator EXCEPT !.password = TRUE]
              IN /\ o \in [exists : BOOLEAN, active : BOOLEAN, password : BOOLEAN]
                 /\ o.exists = operator.exists /\ o.password
           /\ LET o == [operator EXCEPT !.active = ~@]
              IN /\ o \in [exists : BOOLEAN, active : BOOLEAN, password : BOOLEAN]
                 /\ o.exists = operator.exists /\ o.password = operator.password
BY DEF OperatorTypeOK

\* The variables a step leaves to their types.
LEMMA OperatorTypes ==
    ASSUME OperatorTypeOK, inviteClock' \in 0..MaxInviteTime,
           operator' \in [exists : BOOLEAN, active : BOOLEAN, password : BOOLEAN],
           membership' \in Memberships, mintedWith' \in Directories \cup {Nothing},
           canMail' \in [Directories -> BOOLEAN], invite' \in [Invites -> InviteRows],
           issuing' \in [Issuers -> [began : 0..MaxInviteTime, locked : BOOLEAN]],
           spend' \in [Spenders -> [link : Invites \cup {Nothing}, began : 0..MaxInviteTime]]
    PROVE  OperatorTypeOK'
BY DEF OperatorTypeOK, InviteRows

LEMMA SameTypes ==
    ASSUME OperatorInv
    PROVE  /\ OperatorTypeOK /\ inviteClock \in 0..MaxInviteTime
           /\ operator \in [exists : BOOLEAN, active : BOOLEAN, password : BOOLEAN]
           /\ membership \in Memberships /\ mintedWith \in Directories \cup {Nothing}
           /\ canMail \in [Directories -> BOOLEAN] /\ invite \in [Invites -> InviteRows]
           /\ issuing \in [Issuers -> [began : 0..MaxInviteTime, locked : BOOLEAN]]
           /\ spend \in [Spenders -> [link : Invites \cup {Nothing}, began : 0..MaxInviteTime]]
           /\ \A p \in Issuers : issuing[p].began <= inviteClock
           /\ \A s \in Spenders : spend[s].link # Nothing => invite[spend[s].link].issued
           /\ operator.password => operator.exists
           /\ \A i \in Invites : invite[i].issued => operator.exists
           /\ \A p \in Issuers : issuing[p].locked => operator.exists
           /\ inviteClock <= inviteClock /\ inviteClock \in Nat
BY OperatorAssumption DEF OperatorInv, OperatorTypeOK, InviteRows, OneUnspent, Credential

\* The steps that change the operator's own row.
LEMMA OperatorRowKeeps ==
    ASSUME OperatorInv, CreateOperator \/ PasswordByHand \/ SwitchActive PROVE OperatorInv'
<1>1. UNCHANGED <<inviteClock, membership, mintedWith, canMail, invite, issuing, spend>>
  BY DEF CreateOperator, PasswordByHand, SwitchActive
<1>2. /\ operator' \in [exists : BOOLEAN, active : BOOLEAN, password : BOOLEAN]
      /\ operator.exists => operator'.exists
      /\ operator.password => operator'.password
      /\ operator'.password => operator'.exists
  BY SameTypes, OperatorFields DEF CreateOperator, PasswordByHand, SwitchActive
<1>3. OperatorTypeOK'
  BY <1>1, <1>2, SameTypes, OperatorTypes
<1>4. Credential' /\ OneUnspent' /\ Accepted'
  BY <1>1, <1>2, SameTypes, NoMintKeeps
<1> QED BY <1>3, <1>4 DEF OperatorInv

LEMMA Pending ==
    ASSUME OperatorInv, NEW d \in Directories, NEW m, m = [membership EXCEPT ![d] = "pending"]
    PROVE  m \in Memberships /\ \A e \in Directories : m[e] = "active" => membership[e] = "active"
BY SameTypes DEF Memberships

LEMMA InviteNewKeeps == ASSUME OperatorInv, NEW d \in Directories, InviteNew(d) PROVE OperatorInv'
<1>1. /\ ~operator.exists /\ operator' = [operator EXCEPT !.exists = TRUE]
      /\ membership' = [membership EXCEPT ![d] = "pending"] /\ mintedWith' = d
      /\ UNCHANGED <<inviteClock, canMail, issuing, spend>>
  BY DEF InviteNew
<1>2. \A i \in Invites : ~invite[i].issued
  BY <1>1, SameTypes
<1>3. /\ operator' \in [exists : BOOLEAN, active : BOOLEAN, password : BOOLEAN]
      /\ operator'.exists /\ operator'.password = operator.password
  BY <1>1, SameTypes, OperatorFields
<1>4. membership' \in Memberships /\ \A e \in Directories : membership'[e] = "active" => membership[e] = "active"
  BY <1>1, Pending
<1>5. CASE invite' = invite
  <2>1. OperatorTypeOK'
    BY <1>1, <1>3, <1>4, <1>5, SameTypes, OperatorTypes
  <2>2. Credential' /\ OneUnspent' /\ Accepted'
    BY <1>1, <1>2, <1>3, <1>4, <1>5, SameTypes, NoMintKeeps
  <2> QED BY <2>1, <2>2 DEF OperatorInv
<1>6. ASSUME NEW i \in Invites, invite' = Minted(i, inviteClock, d, TRUE) PROVE OperatorInv'
  <2>1. inviteClock \in 0..inviteClock
    BY SameTypes
  <2>2. invite' \in [Invites -> InviteRows]
    BY <1>1, <1>6, <2>1, SameTypes, MintedRows
  <2>3. OperatorTypeOK'
    BY <1>1, <1>3, <1>4, <2>2, SameTypes, OperatorTypes
  <2>4. Credential' /\ OneUnspent' /\ Accepted'
    BY <1>1, <1>2, <1>3, <1>4, <1>6, <2>1, SameTypes, MintKeeps
  <2> QED BY <2>3, <2>4 DEF OperatorInv
<1> QED BY <1>5, <1>6 DEF InviteNew

LEMMA InviteKnownKeeps == ASSUME OperatorInv, NEW d \in Directories, InviteKnown(d) PROVE OperatorInv'
<1>1. /\ membership' = [membership EXCEPT ![d] = "pending"]
      /\ UNCHANGED <<inviteClock, operator, mintedWith, canMail, invite, issuing, spend>>
  BY DEF InviteKnown
<1>2. membership' \in Memberships /\ \A e \in Directories : membership'[e] = "active" => membership[e] = "active"
  BY <1>1, Pending
<1>3. OperatorTypeOK'
  BY <1>1, <1>2, SameTypes, OperatorTypes
<1>4. Credential' /\ OneUnspent' /\ Accepted'
  BY <1>1, <1>2, SameTypes, NoMintKeeps
<1> QED BY <1>3, <1>4 DEF OperatorInv

\* Mail switches, the clock, and the commands that take or leave a row lock.
LEMMA RestKeeps ==
    ASSUME OperatorInv, UNCHANGED <<operator, membership, mintedWith, invite>>,
           inviteClock' \in 0..MaxInviteTime, inviteClock <= inviteClock', canMail' \in [Directories -> BOOLEAN],
           issuing' \in [Issuers -> [began : 0..MaxInviteTime, locked : BOOLEAN]],
           \A p \in Issuers : issuing'[p].began <= inviteClock',
           \A p \in Issuers : issuing'[p].locked => operator.exists,
           spend' \in [Spenders -> [link : Invites \cup {Nothing}, began : 0..MaxInviteTime]],
           \A s \in Spenders : spend'[s].link # Nothing => invite[spend'[s].link].issued
    PROVE  OperatorInv'
<1>1. OperatorTypeOK'
  BY SameTypes, OperatorTypes
<1>2. Credential' /\ OneUnspent' /\ Accepted'
  BY SameTypes, NoMintKeeps
<1> QED BY <1>1, <1>2 DEF OperatorInv

LEMMA MailSwitchesKeeps == ASSUME OperatorInv, NEW d \in Directories, MailSwitches(d) PROVE OperatorInv'
<1>1. canMail' \in [Directories -> BOOLEAN]
  BY SameTypes DEF MailSwitches
<1> QED BY <1>1, SameTypes, RestKeeps DEF MailSwitches

LEMMA InviteTickKeeps == ASSUME OperatorInv, InviteTick PROVE OperatorInv'
<1>1. /\ inviteClock' \in 0..MaxInviteTime /\ inviteClock <= inviteClock'
      /\ \A p \in Issuers : issuing[p].began <= inviteClock'
  BY SameTypes, InviteFields, OperatorAssumption DEF InviteTick
<1> QED BY <1>1, SameTypes, RestKeeps DEF InviteTick

LEMMA Idle ==
    /\ NotIssuing.began = 0 /\ ~NotIssuing.locked /\ NotIssuing \in [began : 0..MaxInviteTime, locked : BOOLEAN]
    /\ NoSpend.link = Nothing /\ NoSpend \in [link : Invites \cup {Nothing}, began : 0..MaxInviteTime]
BY OperatorAssumption DEF NotIssuing, NoSpend

\* An issuer takes the operator's lock, or lets go of it.
LEMMA IssuingStep ==
    ASSUME OperatorInv, NEW p \in Issuers, NEW x \in [began : 0..MaxInviteTime, locked : BOOLEAN],
           x.began <= inviteClock, x.locked => operator.exists, issuing' = [issuing EXCEPT ![p] = x]
    PROVE  /\ issuing' \in [Issuers -> [began : 0..MaxInviteTime, locked : BOOLEAN]]
           /\ \A q \in Issuers : issuing'[q].began <= inviteClock /\ (issuing'[q].locked => operator.exists)
BY SameTypes

LEMMA SpendingStep ==
    ASSUME OperatorInv, NEW s \in Spenders, NEW x \in [link : Invites \cup {Nothing}, began : 0..MaxInviteTime],
           x.link # Nothing => invite[x.link].issued, spend' = [spend EXCEPT ![s] = x]
    PROVE  /\ spend' \in [Spenders -> [link : Invites \cup {Nothing}, began : 0..MaxInviteTime]]
           /\ \A q \in Spenders : spend'[q].link # Nothing => invite[spend'[q].link].issued
BY SameTypes

LEMMA IssueLockKeeps ==
    ASSUME OperatorInv, NEW p \in Issuers, NEW t \in 0..inviteClock, IssueLock(p, t) PROVE OperatorInv'
<1>1. t \in 0..MaxInviteTime /\ t <= inviteClock
  BY SameTypes, InviteFields
<1>2. PICK x : x = [began |-> t, locked |-> TRUE]
  OBVIOUS
<1>3. x \in [began : 0..MaxInviteTime, locked : BOOLEAN] /\ x.began <= inviteClock
  BY <1>1, <1>2
<1>0. operator.exists
  BY DEF IssueLock
<1>4. /\ issuing' \in [Issuers -> [began : 0..MaxInviteTime, locked : BOOLEAN]]
      /\ \A q \in Issuers : issuing'[q].began <= inviteClock /\ (issuing'[q].locked => operator.exists)
  BY <1>0, <1>2, <1>3, IssuingStep DEF IssueLock
<1> QED BY <1>4, SameTypes, RestKeeps DEF IssueLock

LEMMA SetPasswordLockKeeps ==
    ASSUME OperatorInv, NEW s \in Spenders, NEW i \in Invites, NEW t \in 0..inviteClock, SetPasswordLock(s, i, t)
    PROVE  OperatorInv'
<1>1. t \in 0..MaxInviteTime
  BY SameTypes, InviteFields
<1>2. PICK x : x = [link |-> i, began |-> t]
  OBVIOUS
<1>3. x \in [link : Invites \cup {Nothing}, began : 0..MaxInviteTime] /\ (x.link # Nothing => invite[x.link].issued)
  BY <1>1, <1>2 DEF SetPasswordLock, Unspent
<1>4. /\ spend' \in [Spenders -> [link : Invites \cup {Nothing}, began : 0..MaxInviteTime]]
      /\ \A q \in Spenders : spend'[q].link # Nothing => invite[spend'[q].link].issued
  BY <1>2, <1>3, SpendingStep DEF SetPasswordLock
<1> QED BY <1>4, SameTypes, RestKeeps DEF SetPasswordLock

LEMMA ReleaseKeeps ==
    ASSUME OperatorInv, \/ \E s \in Spenders : SetPasswordRefused(s)
                        \/ \E p \in Issuers, s \in Spenders : BreakDeadlock(p, s)
    PROVE  OperatorInv'
<1>1. UNCHANGED <<inviteClock, operator, membership, mintedWith, canMail, invite>>
  BY DEF SetPasswordRefused, BreakDeadlock
<1>2. \/ issuing' = issuing /\ \E s \in Spenders : spend' = [spend EXCEPT ![s] = NoSpend]
      \/ spend' = spend /\ \E p \in Issuers : issuing' = [issuing EXCEPT ![p] = NotIssuing]
  BY DEF SetPasswordRefused, BreakDeadlock
<1>3. /\ issuing' \in [Issuers -> [began : 0..MaxInviteTime, locked : BOOLEAN]]
      /\ \A q \in Issuers : issuing'[q].began <= inviteClock /\ (issuing'[q].locked => operator.exists)
      /\ spend' \in [Spenders -> [link : Invites \cup {Nothing}, began : 0..MaxInviteTime]]
      /\ \A q \in Spenders : spend'[q].link # Nothing => invite[spend'[q].link].issued
  <2>1. NotIssuing.began <= inviteClock
    BY Idle, SameTypes
  <2> QED BY <1>2, <2>1, Idle, SameTypes, IssuingStep, SpendingStep
<1> QED BY <1>1, <1>3, SameTypes, RestKeeps

\* The second half of an issue: only memberships the operator was made with come back.
LEMMA IssueCommitKeeps == ASSUME OperatorInv, NEW p \in Issuers, IssueCommit(p) PROVE OperatorInv'
<1>1. PICK i \in Invites, d \in Reattached : ~invite[i].issued /\ invite' = Minted(i, issuing[p].began, d, FALSE)
  BY DEF IssueCommit
<1>2. d \in Directories \cup {Nothing} /\ d \in {Nothing, mintedWith}
  BY InviteFields DEF OperatorInv, Credential, Reattached
<1>3. PICK t \in 0..inviteClock : t = issuing[p].began
  BY SameTypes, InviteFields
<1>4. /\ issuing' = [issuing EXCEPT ![p] = NotIssuing]
      /\ UNCHANGED <<inviteClock, operator, membership, mintedWith, canMail, spend>>
  BY DEF IssueCommit
<1>5. operator.exists
  BY SameTypes DEF IssueCommit
<1>6. invite' = Minted(i, t, d, FALSE)
  BY <1>1, <1>3
<1>7. invite' \in [Invites -> InviteRows]
  BY <1>2, <1>4, <1>6, SameTypes, MintedRows
<1>8. NotIssuing.began <= inviteClock
  BY Idle, SameTypes
<1>9. /\ issuing' \in [Issuers -> [began : 0..MaxInviteTime, locked : BOOLEAN]]
      /\ \A q \in Issuers : issuing'[q].began <= inviteClock
  BY <1>4, <1>8, Idle, IssuingStep
<1>10. OperatorTypeOK'
  BY <1>4, <1>7, <1>9, SameTypes, OperatorTypes
<1>11. Credential' /\ OneUnspent' /\ Accepted'
  BY <1>1, <1>2, <1>4, <1>5, <1>6, <1>9, MintKeeps
<1> QED BY <1>10, <1>11 DEF OperatorInv

\* A link's mail leaves the queue, or the link is spent: one row of the links changes.
LEMMA OneInvite ==
    ASSUME OperatorInv, NEW i \in Invites, NEW x \in InviteRows, invite' = [invite EXCEPT ![i] = x]
    PROVE  /\ invite' \in [Invites -> InviteRows] /\ invite'[i] = x
           /\ \A j \in Invites : j # i => invite'[j] = invite[j]
BY SameTypes

LEMMA InviteMailedKeeps == ASSUME OperatorInv, NEW i \in Invites, InviteMailed(i) PROVE OperatorInv'
<1>1. PICK x : x = [invite[i] EXCEPT !.mail = FALSE]
  OBVIOUS
<1>2. /\ x \in InviteRows /\ x.issued = invite[i].issued /\ x.used = invite[i].used
      /\ x.expires = invite[i].expires /\ x.member = invite[i].member
  BY <1>1, SameTypes, InviteFields DEF InviteRows
<1>3. /\ invite' = [invite EXCEPT ![i] = x]
      /\ UNCHANGED <<inviteClock, operator, membership, mintedWith, canMail, issuing, spend>>
  BY <1>1 DEF InviteMailed
<1>4. /\ invite' \in [Invites -> InviteRows]
      /\ \A j \in Invites : /\ invite'[j].issued = invite[j].issued /\ invite'[j].used = invite[j].used
                            /\ invite'[j].expires = invite[j].expires /\ invite'[j].member = invite[j].member
  BY <1>2, <1>3, OneInvite
<1>5. OperatorTypeOK'
  BY <1>3, <1>4, SameTypes, OperatorTypes
<1>6. Credential'
  BY <1>3, <1>4, SameTypes, InviteFields DEF OperatorInv, Credential
<1>7. OneUnspent'
  <2>1. Unspent(inviteClock)' = Unspent(inviteClock)
    BY <1>3, <1>4 DEF Unspent
  <2> QED BY <1>3, <2>1 DEF OperatorInv, OneUnspent
<1>8. Accepted'
  BY <1>3, <1>4 DEF OperatorInv, Accepted
<1> QED BY <1>5, <1>6, <1>7, <1>8 DEF OperatorInv

\* The spent link is the first one, and accepts the membership it carries.
LEMMA SetPasswordKeeps == ASSUME OperatorInv, NEW s \in Spenders, SetPasswordCommit(s) PROVE OperatorInv'
<1>1. PICK i \in Invites : i = spend[s].link
  BY SameTypes, InviteFields DEF SetPasswordCommit
<1>2. PICK d \in Directories \cup {Nothing} : d = invite[i].member
  BY SameTypes, InviteFields
<1>3. invite[i].issued /\ operator.exists /\ d \in {Nothing, mintedWith} /\ ~operator.password
  BY <1>1, <1>2, OperatorAssumption DEF SetPasswordCommit, NeedsPassword, OperatorInv, Credential
<1>4. \A j \in Invites : ~invite[j].used
  BY <1>3 DEF OperatorInv, Credential
<1>5. PICK x : x = [invite[i] EXCEPT !.used = TRUE]
  OBVIOUS
<1>6. /\ x \in InviteRows /\ x.issued = invite[i].issued /\ x.used
      /\ x.expires = invite[i].expires /\ x.member = d
  BY <1>2, <1>5, SameTypes, InviteFields DEF InviteRows
<1>7. /\ operator' = [operator EXCEPT !.password = TRUE] /\ invite' = [invite EXCEPT ![i] = x]
      /\ membership' = (IF d # Nothing /\ membership[d] = "pending"
                         THEN [membership EXCEPT ![d] = "active"] ELSE membership)
      /\ spend' = [spend EXCEPT ![s] = NoSpend]
      /\ UNCHANGED <<inviteClock, mintedWith, canMail, issuing>>
  BY <1>1, <1>2, <1>5 DEF SetPasswordCommit
<1>8. /\ operator' \in [exists : BOOLEAN, active : BOOLEAN, password : BOOLEAN]
      /\ operator'.exists /\ operator'.password
  BY <1>3, <1>7, SameTypes, OperatorFields
<1>9. /\ invite' \in [Invites -> InviteRows] /\ invite'[i] = x
      /\ \A j \in Invites : j # i => invite'[j] = invite[j]
  BY <1>6, <1>7, OneInvite
<1>10. /\ spend' \in [Spenders -> [link : Invites \cup {Nothing}, began : 0..MaxInviteTime]]
       /\ \A q \in Spenders : spend'[q].link # Nothing => invite[spend'[q].link].issued
  BY <1>7, Idle, SpendingStep
<1>11. /\ membership' \in Memberships
       /\ \A e \in Directories : membership'[e] = "active" => membership[e] = "active" \/ e = d
  BY <1>2, <1>7, SameTypes DEF Memberships
<1>12. OperatorTypeOK'
  BY <1>7, <1>8, <1>9, <1>10, <1>11, SameTypes, OperatorTypes
<1>13. Credential'
  <2>1. \A j \in Invites : invite'[j].issued = invite[j].issued /\ invite'[j].member = invite[j].member
    BY <1>2, <1>6, <1>9
  <2>2. \A j \in Invites : invite'[j].used => j = i
    BY <1>4, <1>9
  <2>3. \A q \in Spenders : spend'[q].link # Nothing => invite'[spend'[q].link].issued
    <3>1. \A q \in Spenders : spend'[q].link \in Invites \cup {Nothing}
      BY <1>10
    <3> QED BY <1>10, <2>1, <3>1
  <2>4. \A j \in Invites : invite[j].issued => invite[j].member \in {Nothing, mintedWith}
    BY DEF OperatorInv, Credential
  <2> QED BY <1>3, <1>7, <1>8, <2>1, <2>2, <2>3, <2>4 DEF Credential
<1>14. OneUnspent'
  <2>1. Unspent(inviteClock)' \subseteq Unspent(inviteClock)
    BY <1>4, <1>6, <1>7, <1>9 DEF Unspent
  <2> QED BY <1>7, <2>1 DEF OperatorInv, OneUnspent
<1>15. Accepted'
  <2>1. \A e \in Directories : membership[e] # "active"
    BY <1>4 DEF OperatorInv, Accepted
  <2>2. \A e \in Directories : membership'[e] = "active" => e = d
    BY <1>11, <2>1
  <2> QED BY <1>3, <1>6, <1>7, <1>9, <2>2, OperatorAssumption DEF Accepted
<1> QED BY <1>12, <1>13, <1>14, <1>15 DEF OperatorInv

LEMMA OperatorNextKeeps == ASSUME OperatorInv, [OperatorNext]_operatorVars PROVE OperatorInv'
<1>1. CASE UNCHANGED operatorVars
  BY <1>1, SameTypes, RestKeeps DEF operatorVars
<1>2. ASSUME NEW d \in Directories, InviteNew(d) \/ InviteKnown(d) \/ MailSwitches(d) PROVE OperatorInv'
  BY <1>2, InviteNewKeeps, InviteKnownKeeps, MailSwitchesKeeps
<1>3. ASSUME NEW p \in Issuers, (\E t \in 0..inviteClock : IssueLock(p, t)) \/ IssueCommit(p) PROVE OperatorInv'
  BY <1>3, IssueLockKeeps, IssueCommitKeeps
<1>4. ASSUME NEW s \in Spenders, \/ \E i \in Invites, t \in 0..inviteClock : SetPasswordLock(s, i, t)
                                 \/ SetPasswordCommit(s) \/ SetPasswordRefused(s)
      PROVE  OperatorInv'
  BY <1>4, SetPasswordLockKeeps, SetPasswordKeeps, ReleaseKeeps
<1>5. ASSUME NEW p \in Issuers, NEW s \in Spenders, BreakDeadlock(p, s) PROVE OperatorInv'
  BY <1>5, ReleaseKeeps
<1>6. ASSUME NEW i \in Invites, InviteMailed(i) PROVE OperatorInv'
  BY <1>6, InviteMailedKeeps
<1> QED BY <1>1, <1>2, <1>3, <1>4, <1>5, <1>6, OperatorRowKeeps, InviteTickKeeps DEF OperatorNext

\* Links, password and memberships agree in every behaviour of the operator's row.
THEOREM OperatorInvariance == OperatorSpec => []OperatorInv
BY OperatorInitial, OperatorNextKeeps, PTL DEF OperatorSpec

\* A set without two different elements has at most one.
LEMMA AtMostOne ==
    ASSUME NEW S, \A x, y \in S : x = y
    PROVE  Cardinality(S) <= 1
<1>1. CASE S = {}
  BY <1>1, FS_EmptySet
<1>2. CASE S # {}
  <2>1. PICK x : S = {x}
    BY <1>2
  <2> QED BY <2>1, FS_Singleton
<1> QED BY <1>1, <1>2

\* One credential comes of all the links ever issued to an operator, and a membership is
\* accepted only through the link minted with the operator (_apply_set_password, _apply_issue).
THEOREM InviteCorrect == OperatorSpec => []InviteOnce
<1>1. OperatorInv => InviteOnce
  <2> SUFFICES ASSUME OperatorInv PROVE InviteOnce
    OBVIOUS
  <2>1. Cardinality({i \in Invites : invite[i].used}) <= 1
    <3>1. \A x, y \in {i \in Invites : invite[i].used} : x = y
      BY DEF OperatorInv, Credential
    <3> QED BY <3>1, AtMostOne
  <2>2. Cardinality(Unspent(inviteClock)) <= 1
    BY AtMostOne DEF OperatorInv, OneUnspent
  <2> QED BY <2>1, <2>2 DEF OperatorInv, Accepted, InviteOnce
<1> QED BY <1>1, OperatorInvariance, PTL
=============================================================================
