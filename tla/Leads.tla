------------------------------- MODULE Leads -------------------------------
(***************************************************************************)
(* Inquiries: lead.create and lead.mark_spam (directory/leads.py), and who *)
(* is told about them (directory/lead_notices.py, the lead_notice_flush    *)
(* job).  A lead and the notices it causes commit together.  For each      *)
(* recipient a transaction first reads when its last notice was created,   *)
(* then counts the leads since, then creates the notice; two leads on two  *)
(* listings of one owner lock different rows, and the flush locks none, so *)
(* other transactions insert, count and commit between those steps.        *)
(*                                                                         *)
(* `stamp` orders the created_at of leads and notices; `recent` says whose *)
(* last notice is younger than NOTICE_THROTTLE.  A lead id stands for one  *)
(* (listing, address, message): sending it again within the hour returns   *)
(* the lead there is.  The notices' lifetimes (48 hours, 7 days) are taken *)
(* to be longer than a behaviour, and the flush's limit to be larger than  *)
(* the number of owners.                                                   *)
(***************************************************************************)
EXTENDS Integers

CONSTANTS
    LeadIds,       \* the inquiries visitors may send
    LeadListings,  \* listings they are about
    LeadOwners,    \* owners a listing can have
    LeadStaff,     \* active staff at EDITOR and above
    Nobody,        \* no owner
    Flush,         \* the flush's transaction
    MaxHandovers   \* bound: changes of a listing's owner

ASSUME LeadsAssumption ==
    Nobody \notin LeadOwners /\ Flush \notin LeadIds /\ MaxHandovers \in Nat

VARIABLES
    lead,         \* lead[i]: [state, listing, at, spam]; "open" until its transaction commits
    ownerOf,      \* ownerOf[l]: Listing.owner
    accepting,    \* listings that are published and not suspended
    stamp,        \* the latest created_at given out
    leadNotice,   \* leadNotice[r]: created_at of r's last committed notice, 0 if none
    recent,       \* recipients whose last notice is inside the throttle
    notice,       \* notice[t][r]: how far open transaction t is with telling r
    handovers,
    told,         \* history: told[r][i]: committed notices to r that counted i
    raced         \* history: <<r, i>> when an overlapping transaction made r's count of i uncertain

leadVars == <<lead, ownerOf, accepting, stamp, leadNotice, recent, notice, handovers, told, raced>>

Recipients == LeadOwners \cup LeadStaff
Transactions == LeadIds \cup {Flush}
NoLead == [state |-> "none", listing |-> Nobody, at |-> 0, spam |-> FALSE]

\* since: created_at of the last notice, as read; counts: the leads counted since;
\* at: created_at of the notice that is queued and not committed.
NoNotice == [step |-> "none", since |-> 0, counts |-> {}, at |-> 0]
ToTell == [NoNotice EXCEPT !.step = "todo"]

LeadInit ==
    /\ lead = [i \in LeadIds |-> NoLead]
    /\ ownerOf \in [LeadListings -> LeadOwners \cup {Nobody}]
    /\ accepting = LeadListings
    /\ stamp = 0
    /\ leadNotice = [r \in Recipients |-> 0]
    /\ recent = {}
    /\ notice = [t \in Transactions |-> [r \in Recipients |-> NoNotice]]
    /\ handovers = 0
    /\ told = [r \in Recipients |-> [i \in LeadIds |-> 0]]
    /\ raced = {}

\* Who hears of a lead on l: its owner, or the staff when it has none.
RecipientsOf(l) == IF ownerOf[l] = Nobody THEN LeadStaff ELSE {ownerOf[l]}

\* A lead r has to hear of.
Concerns(i, r) == lead[i].state # "none" /\ ~lead[i].spam /\ r \in RecipientsOf(lead[i].listing)

-----------------------------------------------------------------------------
(* lead.create.                                                             *)

\* _apply_create_lead up to the insert: the listing is locked, must accept inquiries,
\* and the visitor has given consent; heuristics decide on spam.
CreateLead(i, l, spam) ==
    /\ lead[i].state = "none" /\ l \in accepting
    /\ \A j \in LeadIds : ~(lead[j].state = "open" /\ lead[j].listing = l)
    /\ stamp' = stamp + 1
    /\ lead' = [lead EXCEPT ![i] = [state |-> "open", listing |-> l, at |-> stamp', spam |-> spam]]
    /\ notice' = [notice EXCEPT ![i] = [r \in Recipients |->
                    IF ~spam /\ r \in RecipientsOf(l) THEN ToTell ELSE NoNotice]]
    /\ raced' = raced \cup {<<r, i>> : r \in {x \in Recipients :
                                \E t \in Transactions : notice[t][x].step = "counted"}}
    /\ UNCHANGED <<ownerOf, accepting, leadNotice, recent, handovers, told>>

-----------------------------------------------------------------------------
(* _notify_owner, and the body of _notify_operators' loop: one recipient at *)
(* a time, three statements that other transactions may come between.       *)

\* Faulty variant: everybody's notices count as one's own.
Since_Anyone(r) ==
    CHOOSE s \in {leadNotice[x] : x \in Recipients} : \A x \in Recipients : leadNotice[x] <= s

\* created_at of the last notice to r that has been committed.
Since(r) == leadNotice[r]

\* _last_notice: a recipient still inside the throttle is passed over.
ReadLast(t, r) ==
    /\ notice[t][r].step = "todo"
    /\ \A x \in Recipients : notice[t][x].step \notin {"read", "counted"}
    /\ notice' = [notice EXCEPT ![t][r] =
                    IF r \in recent THEN NoNotice ELSE [ToTell EXCEPT !.step = "read", !.since = Since(r)]]
    /\ UNCHANGED <<lead, ownerOf, accepting, stamp, leadNotice, recent, handovers, told, raced>>

\* The leads transaction t counts for r: committed ones and its own, created later.
Unreported(r, t, since) ==
    {i \in LeadIds : (lead[i].state = "in" \/ i = t) /\ Concerns(i, r) /\ lead[i].at > since}

\* Leads for r that a count in transaction t makes uncertain: those inserted and not
\* committed, and counted ones that another open transaction has counted too or that are
\* older than a notice committed since t read the last one.
Overlapping(t, r, counted) ==
    {i \in LeadIds \ {t} : lead[i].state = "open" /\ Concerns(i, r)}
    \cup {i \in counted : \/ \E u \in Transactions \ {t} : i \in notice[u][r].counts
                          \/ lead[i].at <= leadNotice[r]}

CountLeads(t, r) ==
    LET counted == Unreported(r, t, notice[t][r].since)
    IN /\ notice[t][r].step = "read"
       /\ notice' = [notice EXCEPT ![t][r] =
                       IF counted = {} THEN NoNotice ELSE [@ EXCEPT !.step = "counted", !.counts = counted]]
       /\ raced' = IF counted = {} THEN raced
                   ELSE raced \cup {<<r, i>> : i \in Overlapping(t, r, counted)}
       /\ UNCHANGED <<lead, ownerOf, accepting, stamp, leadNotice, recent, handovers, told>>

\* enqueue: the notice gets its created_at.
QueueNotice(t, r) ==
    /\ notice[t][r].step = "counted"
    /\ stamp' = stamp + 1
    /\ notice' = [notice EXCEPT ![t][r] = [@ EXCEPT !.step = "queued", !.at = stamp']]
    /\ UNCHANGED <<lead, ownerOf, accepting, leadNotice, recent, handovers, told, raced>>

\* The transaction has been through its recipients, and its notices become visible.
CommitNotices(t) ==
    /\ \A r \in Recipients : notice[t][r].step \in {"none", "queued"}
    /\ leadNotice' = [r \in Recipients |-> IF notice[t][r].at > leadNotice[r] THEN notice[t][r].at
                                           ELSE leadNotice[r]]
    /\ recent' = recent \cup {r \in Recipients : notice[t][r].step = "queued"}
    /\ told' = [r \in Recipients |-> [i \in LeadIds |->
                  IF i \in notice[t][r].counts THEN told[r][i] + 1 ELSE told[r][i]]]
    /\ notice' = [notice EXCEPT ![t] = [r \in Recipients |-> NoNotice]]

CommitLead(i) ==
    /\ lead[i].state = "open"
    /\ lead' = [lead EXCEPT ![i].state = "in"]
    /\ CommitNotices(i)
    /\ UNCHANGED <<ownerOf, accepting, stamp, handovers, raced>>

-----------------------------------------------------------------------------
(* The flush, the throttle, and what moderators and claims do meanwhile.    *)

\* flush_tenant: every owner with a lead, and the staff for unclaimed listings.
BeginFlush ==
    LET concerned == {r \in Recipients : \E i \in LeadIds : lead[i].state = "in" /\ Concerns(i, r)}
    IN /\ \A r \in Recipients : notice[Flush][r].step = "none"
       /\ concerned # {}
       /\ notice' = [notice EXCEPT ![Flush] = [r \in Recipients |->
                       IF r \in concerned THEN ToTell ELSE NoNotice]]
       /\ UNCHANGED <<lead, ownerOf, accepting, stamp, leadNotice, recent, handovers, told, raced>>

CommitFlush ==
    /\ \E r \in Recipients : notice[Flush][r].step = "queued"
    /\ CommitNotices(Flush)
    /\ UNCHANGED <<lead, ownerOf, accepting, stamp, handovers, raced>>

\* Fifteen minutes after a notice.
WindowPasses(r) ==
    /\ r \in recent
    /\ recent' = recent \ {r}
    /\ UNCHANGED <<lead, ownerOf, accepting, stamp, leadNotice, notice, handovers, told, raced>>

\* mark_lead_spam, one-way.
MarkSpam(i) ==
    /\ lead[i].state = "in" /\ ~lead[i].spam
    /\ lead' = [lead EXCEPT ![i].spam = TRUE]
    /\ UNCHANGED <<ownerOf, accepting, stamp, leadNotice, recent, notice, handovers, told, raced>>

\* A claim is decided: the listing's owner changes, and its leads with it.
Handover(l, o) ==
    /\ handovers < MaxHandovers /\ ownerOf[l] # o
    /\ \A i \in LeadIds : ~(lead[i].state = "open" /\ lead[i].listing = l)
    /\ handovers' = handovers + 1
    /\ ownerOf' = [ownerOf EXCEPT ![l] = o]
    /\ raced' = raced \cup (Recipients \X {i \in LeadIds : lead[i].listing = l})
    /\ UNCHANGED <<lead, accepting, stamp, leadNotice, recent, notice, told>>

\* The listing is unpublished or suspended.
CloseListing(l) ==
    /\ l \in accepting
    /\ accepting' = accepting \ {l}
    /\ UNCHANGED <<lead, ownerOf, stamp, leadNotice, recent, notice, handovers, told, raced>>

LeadNext ==
    \/ \E i \in LeadIds : \/ \E l \in LeadListings, spam \in BOOLEAN : CreateLead(i, l, spam)
                          \/ CommitLead(i) \/ MarkSpam(i)
    \/ \E t \in Transactions, r \in Recipients : ReadLast(t, r) \/ CountLeads(t, r) \/ QueueNotice(t, r)
    \/ BeginFlush \/ CommitFlush
    \/ \E r \in Recipients : WindowPasses(r)
    \/ \E l \in LeadListings : CloseListing(l) \/ \E o \in LeadOwners \cup {Nobody} : Handover(l, o)

LeadSpec == LeadInit /\ [][LeadNext]_leadVars

-----------------------------------------------------------------------------
\* No lead and no notice carries a time that has not been: created_at orders them.
LeadTypeOK ==
    /\ \A i \in LeadIds : lead[i].at <= stamp
    /\ \A r \in Recipients : leadNotice[r] <= stamp
    /\ recent \subseteq Recipients

\* What lead_notices.py's "reported exactly once" and "deferred, not lost" amount to: a
\* committed lead that concerns r is counted by at most one notice to r, and until then an
\* open transaction has counted it or the next notice to r will -- however leads, flushes
\* and throttles interleave, except for the pairs whose counts did overlap (raced), and
\* for those the code keeps neither promise.
LeadReported ==
    \A i \in LeadIds :
        lead[i].state = "in" =>
            \A r \in RecipientsOf(lead[i].listing) :
                <<r, i>> \notin raced =>
                    /\ told[r][i] <= 1
                    /\ ~lead[i].spam => \/ told[r][i] = 1
                                        \/ i \in Unreported(r, Flush, Since(r))
                                        \/ \E t \in Transactions : i \in notice[t][r].counts
=============================================================================
