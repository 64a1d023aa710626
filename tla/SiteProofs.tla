------------------------------ MODULE SiteProofs ------------------------------
(***************************************************************************)
(* What the public site is made of, for any number of requests, hosts,     *)
(* domains, pages, generations, listings, categories, drains and edits:    *)
(* the settings of the directory are held together, the stored sitemap is  *)
(* whole and current, no stale search vector is forgotten, and an old link *)
(* leads to its page.  The components share no state and each has an       *)
(* inductive invariant of its own.                                         *)
(***************************************************************************)
EXTENDS TenantSettings, Sitemaps, SearchIndex, Routes, FiniteSetTheorems, SequenceTheorems, WellFoundedInduction, TLAPS

-----------------------------------------------------------------------------
(* Settings.                                                                *)

DocumentRow(d) ==
    d = [domain |-> d.domain, verified |-> d.verified, challenge |-> d.challenge, smtp |-> d.smtp,
         user |-> d.user, blocks |-> d.blocks]
OpeningRow(o) == o = [at |-> o.at, copy |-> o.copy] /\ DocumentRow(o.copy)

SettingsRows ==
    /\ install = [token |-> install.token, account |-> install.account, tenant |-> install.tenant,
                  member |-> install.member, completed |-> install.completed]
    /\ DocumentRow(document)
    /\ opening = [r \in SettingsPages |-> opening[r]]
    /\ \A r \in SettingsPages : OpeningRow(opening[r])
    /\ staleSave \in BOOLEAN

\* A request that goes on to mark a domain verified has seen its challenge answered.
Answered == \A r \in SettingsPages : opening[r].at = "proved" => opening[r].copy.domain \in proved

\* The three promises, each while no save has written over a row changed under it.
PasswordHeld == ~staleSave /\ password # Unset => document.smtp = password
CertificateHeld == ~staleSave /\ document.domain \in SiteNames /\ document.verified => document.domain \in proved
SetupHeld ==
    ~staleSave /\ install.completed =>
        /\ install.account /\ install.tenant
        /\ document.domain # Unset /\ document.smtp # Unset
        /\ {"storage", "claim_verification"} \subseteq document.blocks

SettingsInv == SettingsRows /\ Answered /\ PasswordHeld /\ CertificateHeld /\ SetupHeld

LEMMA EmptyRow == DocumentRow(EmptyDocument) /\ OpeningRow(Closed) /\ Closed.at = "idle"
BY DEF DocumentRow, OpeningRow, EmptyDocument, Closed

\* A page whose copy's settings are still the row's has the row's host and blocks.
LEMMA SameSettings ==
    ASSUME NEW c, NEW d, DocumentRow(c), DocumentRow(d), SettingsPart(c) = SettingsPart(d)
    PROVE  c.smtp = d.smtp /\ c.blocks = d.blocks
<1>1. PICK p, q : p = [c EXCEPT !.domain = Unset] /\ q = [d EXCEPT !.domain = Unset]
  OBVIOUS
<1>2. /\ DocumentRow(p) /\ p.smtp = c.smtp /\ p.blocks = c.blocks
      /\ DocumentRow(q) /\ q.smtp = d.smtp /\ q.blocks = d.blocks
  BY <1>1 DEF DocumentRow
<1>3. PICK x, y : x = [p EXCEPT !.verified = FALSE] /\ y = [q EXCEPT !.verified = FALSE]
  OBVIOUS
<1>4. x.smtp = p.smtp /\ x.blocks = p.blocks /\ y.smtp = q.smtp /\ y.blocks = q.blocks
  BY <1>2, <1>3 DEF DocumentRow
<1>5. x = y
  BY <1>1, <1>3 DEF SettingsPart
<1> QED BY <1>2, <1>4, <1>5

\* What a save leaves in the row.
LEMMA WrittenRow ==
    ASSUME NEW doc, DocumentRow(doc)
    PROVE  /\ DocumentRow(Written(doc))
           /\ Written(doc).domain = document.domain /\ Written(doc).verified = document.verified
           /\ Written(doc).smtp = doc.smtp /\ Written(doc).blocks = doc.blocks
<1>1. PICK a, v : a = document.domain /\ v = document.verified
  OBVIOUS
<1>2. PICK p : p = [doc EXCEPT !.domain = a]
  OBVIOUS
<1>3. DocumentRow(p) /\ p.domain = a /\ p.smtp = doc.smtp /\ p.blocks = doc.blocks
  BY <1>2 DEF DocumentRow
<1>4. PICK q : q = [p EXCEPT !.verified = v]
  OBVIOUS
<1>5. DocumentRow(q) /\ q.domain = a /\ q.verified = v /\ q.smtp = doc.smtp /\ q.blocks = doc.blocks
  BY <1>3, <1>4 DEF DocumentRow
<1>6. Written(doc) = q
  BY <1>1, <1>2, <1>4 DEF Written
<1> QED BY <1>1, <1>5, <1>6

LEMMA ClosedPage ==
    ASSUME SettingsInv, NEW r \in SettingsPages, opening' = [opening EXCEPT ![r] = Closed], proved' = proved
    PROVE  /\ opening' = [q \in SettingsPages |-> opening'[q]]
           /\ \A q \in SettingsPages : OpeningRow(opening'[q])
           /\ Answered'
<1>1. opening = [q \in SettingsPages |-> opening[q]] /\ \A q \in SettingsPages : OpeningRow(opening[q])
  BY DEF SettingsInv, SettingsRows
<1>2. opening' = [q \in SettingsPages |-> IF q = r THEN Closed ELSE opening[q]]
  BY <1>1
<1> QED BY <1>1, <1>2, EmptyRow DEF SettingsInv, Answered

\* A save of settings, by what becomes of the host, the blocks and the password: it keeps
\* the promises if it was made from the row as it is, and is recorded if it was not.
LEMMA SaveStep ==
    ASSUME SettingsInv, NEW r \in SettingsPages, NEW doc, DocumentRow(doc), SaveDocument(r, doc),
           ~staleSave /\ SettingsPart(opening[r].copy) = SettingsPart(document) =>
              /\ password' # Unset => doc.smtp = password'
              /\ install.completed => doc.smtp # Unset /\ document.blocks \subseteq doc.blocks
    PROVE  SettingsInv'
<1>0. /\ SettingsRows /\ Answered /\ PasswordHeld /\ CertificateHeld /\ SetupHeld
      /\ document' = Written(doc) /\ UNCHANGED <<install, proved>>
      /\ opening' = [opening EXCEPT ![r] = Closed]
  BY DEF SettingsInv, SaveDocument
<1>1. /\ DocumentRow(document')
      /\ document'.domain = document.domain /\ document'.verified = document.verified
      /\ document'.smtp = doc.smtp /\ document'.blocks = doc.blocks
  BY <1>0, WrittenRow
<1>2. staleSave' \in BOOLEAN
      /\ (~staleSave' => ~staleSave /\ SettingsPart(opening[r].copy) = SettingsPart(document))
  BY DEF SaveDocument
<1>3. SettingsRows' /\ Answered'
  BY <1>0, <1>1, <1>2, ClosedPage DEF SettingsRows
<1>4. PasswordHeld'
  BY <1>1, <1>2 DEF PasswordHeld
<1>5. CertificateHeld'
  BY <1>0, <1>1, <1>2 DEF CertificateHeld
<1>6. SetupHeld'
  BY <1>0, <1>1, <1>2 DEF SetupHeld
<1> QED BY <1>3, <1>4, <1>5, <1>6 DEF SettingsInv

\* The mail page keeps a password only next to the host it was typed for.
LEMMA MailStep ==
    ASSUME SettingsInv, NEW r \in SettingsPages, NEW host \in SmtpHosts, NEW user \in BOOLEAN,
           NEW typed \in {"keep", "new", "clear"}, UpdateMailSettings(r, host, user, typed)
    PROVE  SettingsInv'
<1>0. /\ SettingsRows /\ PasswordHeld /\ DocumentRow(document)
      /\ OpeningRow(opening[r]) /\ DocumentRow(opening[r].copy)
  BY DEF SettingsInv, SettingsRows, OpeningRow
<1>1. PICK copy : copy = opening[r].copy
  OBVIOUS
<1>2. PICK p, doc : p = [copy EXCEPT !.smtp = host] /\ doc = [p EXCEPT !.user = user]
  OBVIOUS
<1>3. DocumentRow(p) /\ p.smtp = host /\ p.blocks = copy.blocks
  BY <1>0, <1>1, <1>2 DEF DocumentRow
<1>4. DocumentRow(doc) /\ doc.smtp = host /\ doc.blocks = copy.blocks
  BY <1>2, <1>3 DEF DocumentRow
<1>5. SaveDocument(r, doc) /\ password' = PasswordAfter(host, user, typed)
  BY <1>1, <1>2 DEF UpdateMailSettings
<1>6. host # Unset
  BY SettingsAssumption
<1>7. ASSUME ~staleSave, SettingsPart(copy) = SettingsPart(document), password' # Unset PROVE host = password'
  <2>1. copy.smtp = document.smtp
    BY <1>0, <1>1, <1>7, SameSettings
  <2>2. CASE typed = "new"
    BY <1>5, <2>2 DEF PasswordAfter
  <2>3. CASE typed # "new"
    <3>1. typed = "keep" /\ user /\ password' = password /\ password # Unset
      BY <1>5, <1>7, <2>3 DEF PasswordAfter
    <3>2. host = copy.smtp
      BY <1>1, <3>1 DEF UpdateMailSettings, HostChangeNeedsPassword
    <3> QED BY <1>0, <1>7, <2>1, <3>1, <3>2 DEF PasswordHeld
  <2> QED BY <2>2, <2>3
<1>8. SettingsPart(copy) = SettingsPart(document) => document.blocks = doc.blocks
  BY <1>0, <1>1, <1>4, SameSettings
<1>9. ~staleSave /\ SettingsPart(opening[r].copy) = SettingsPart(document) =>
         /\ password' # Unset => doc.smtp = password'
         /\ install.completed => doc.smtp # Unset /\ document.blocks \subseteq doc.blocks
  BY <1>1, <1>4, <1>6, <1>7, <1>8
<1> QED BY <1>4, <1>5, <1>9, SaveStep

\* The wizard's Skip leaves no password.
LEMMA SkipStep ==
    ASSUME SettingsInv, NEW r \in SettingsPages, SkipMailSetup(r)
    PROVE  SettingsInv'
<1>0. DocumentRow(opening[r].copy) /\ ~install.completed /\ password' = Unset
  BY DEF SettingsInv, SettingsRows, OpeningRow, SkipMailSetup, InWizard
<1>1. PICK copy : copy = opening[r].copy
  OBVIOUS
<1>2. PICK p, doc : p = [copy EXCEPT !.smtp = "empty"] /\ doc = [p EXCEPT !.user = FALSE]
  OBVIOUS
<1>3. DocumentRow(p)
  BY <1>0, <1>1, <1>2 DEF DocumentRow
<1>4. DocumentRow(doc)
  BY <1>2, <1>3 DEF DocumentRow
<1>5. SaveDocument(r, doc)
  BY <1>1, <1>2 DEF SkipMailSetup
<1> QED BY <1>0, <1>4, <1>5, SaveStep

\* A block's page writes back the host and the other blocks as it read them.
LEMMA BlockStep ==
    ASSUME SettingsInv, NEW r \in SettingsPages, NEW block \in Blocks, SaveBlock(r, block)
    PROVE  SettingsInv'
<1>0. /\ SettingsRows /\ PasswordHeld /\ SetupHeld /\ DocumentRow(document)
      /\ DocumentRow(opening[r].copy) /\ password' = password
  BY DEF SettingsInv, SettingsRows, OpeningRow, SaveBlock
<1>1. PICK copy : copy = opening[r].copy
  OBVIOUS
<1>2. PICK bs : bs = copy.blocks \cup {block}
  OBVIOUS
<1>3. PICK doc : doc = [copy EXCEPT !.blocks = bs]
  OBVIOUS
<1>4. DocumentRow(doc) /\ doc.smtp = copy.smtp /\ doc.blocks = bs
  BY <1>0, <1>1, <1>3 DEF DocumentRow
<1>5. SaveDocument(r, doc)
  BY <1>1, <1>2, <1>3 DEF SaveBlock
<1>6. SettingsPart(copy) = SettingsPart(document) => document.smtp = doc.smtp /\ document.blocks \subseteq doc.blocks
  BY <1>0, <1>1, <1>2, <1>4, SameSettings
<1>7. ~staleSave /\ SettingsPart(opening[r].copy) = SettingsPart(document) =>
         /\ password' # Unset => doc.smtp = password'
         /\ install.completed => doc.smtp # Unset /\ document.blocks \subseteq doc.blocks
  BY <1>0, <1>1, <1>6 DEF PasswordHeld, SetupHeld
<1> QED BY <1>4, <1>5, <1>7, SaveStep

\* A domain's page unverifies the row it writes.
LEMMA DomainStep ==
    ASSUME SettingsInv, NEW r \in SettingsPages, NEW name \in SiteNames, SetTenantDomain(r, name)
    PROVE  SettingsInv'
<1>0. /\ SettingsRows /\ Answered /\ PasswordHeld /\ DocumentRow(document) /\ ~install.completed
      /\ DocumentRow(opening[r].copy) /\ UNCHANGED <<install, password, proved>>
  BY DEF SettingsInv, SettingsRows, OpeningRow, SetTenantDomain, InWizard
<1>1. PICK copy : copy = opening[r].copy
  OBVIOUS
<1>2. PICK p, q, row : /\ p = [copy EXCEPT !.domain = name] /\ q = [p EXCEPT !.verified = FALSE]
                       /\ row = [q EXCEPT !.challenge = TRUE]
  OBVIOUS
<1>3. DocumentRow(p) /\ p.smtp = copy.smtp
  BY <1>0, <1>1, <1>2 DEF DocumentRow
<1>4. DocumentRow(q) /\ q.smtp = copy.smtp /\ ~q.verified
  BY <1>2, <1>3 DEF DocumentRow
<1>5. DocumentRow(row) /\ row.smtp = copy.smtp /\ ~row.verified
  BY <1>2, <1>4 DEF DocumentRow
<1>6. /\ document' = row
      /\ staleSave' = (staleSave \/ SettingsPart(copy) # SettingsPart(document))
      /\ \/ opening' = [opening EXCEPT ![r] = Closed]
         \/ opening' = [opening EXCEPT ![r] = [at |-> "checking", copy |-> row]]
  BY <1>1, <1>2 DEF SetTenantDomain
<1>7. staleSave' \in BOOLEAN /\ (~staleSave' => ~staleSave /\ SettingsPart(copy) = SettingsPart(document))
  BY <1>6
<1>8. /\ opening' = [s \in SettingsPages |-> opening'[s]] /\ \A s \in SettingsPages : OpeningRow(opening'[s])
      /\ Answered'
  <2>1. CASE opening' = [opening EXCEPT ![r] = Closed]
    BY <1>0, <2>1, ClosedPage
  <2>2. CASE opening' = [opening EXCEPT ![r] = [at |-> "checking", copy |-> row]]
    <3>1. PICK o : o = [at |-> "checking", copy |-> row]
      OBVIOUS
    <3>2. OpeningRow(o) /\ o.at = "checking"
      BY <1>5, <3>1 DEF OpeningRow
    <3>3. opening' = [s \in SettingsPages |-> IF s = r THEN o ELSE opening[s]]
      BY <1>0, <2>2, <3>1 DEF SettingsRows
    <3> QED BY <1>0, <3>2, <3>3 DEF SettingsRows, Answered
  <2> QED BY <1>6, <2>1, <2>2
<1>9. SettingsRows'
  BY <1>0, <1>5, <1>6, <1>7, <1>8 DEF SettingsRows
<1>10. PasswordHeld'
  <2>1. ~staleSave' => document'.smtp = document.smtp
    BY <1>0, <1>1, <1>5, <1>6, <1>7, SameSettings
  <2> QED BY <1>0, <1>7, <2>1 DEF PasswordHeld
<1>11. CertificateHeld' /\ SetupHeld'
  BY <1>0, <1>5, <1>6 DEF CertificateHeld, SetupHeld
<1> QED BY <1>8, <1>9, <1>10, <1>11 DEF SettingsInv

\* The answer is for the copy's domain, and the mark for the row's: the same unless recorded.
LEMMA VerifyStep ==
    ASSUME SettingsInv, NEW r \in SettingsPages, CheckDomain(r) \/ MarkDomainVerified(r)
    PROVE  SettingsInv'
<1>0. /\ SettingsRows /\ Answered /\ PasswordHeld /\ CertificateHeld /\ SetupHeld /\ DocumentRow(document)
      /\ OpeningRow(opening[r]) /\ UNCHANGED <<install, password>>
  BY DEF SettingsInv, SettingsRows, CheckDomain, MarkDomainVerified
<1>1. CASE CheckDomain(r)
  <2>1. PICK o : o = [opening[r] EXCEPT !.at = "proved"]
    OBVIOUS
  <2>2. OpeningRow(o) /\ o.copy = opening[r].copy
    BY <1>0, <2>1 DEF OpeningRow
  <2>3. opening' = [s \in SettingsPages |-> IF s = r THEN o ELSE opening[s]]
    <3>1. opening' = [opening EXCEPT ![r] = o]
      BY <1>1, <2>1 DEF CheckDomain
    <3> QED BY <1>0, <3>1 DEF SettingsRows
  <2>4. proved' = proved \cup {opening[r].copy.domain} /\ UNCHANGED <<document, staleSave>>
    BY <1>1 DEF CheckDomain
  <2>5. SettingsRows' /\ Answered'
    BY <1>0, <2>2, <2>3, <2>4 DEF SettingsRows, Answered
  <2> QED BY <1>0, <2>4, <2>5 DEF SettingsInv, PasswordHeld, CertificateHeld, SetupHeld
<1>2. CASE MarkDomainVerified(r)
  <2>1. PICK d : d = [document EXCEPT !.verified = TRUE]
    OBVIOUS
  <2>2. DocumentRow(d) /\ d.domain = document.domain /\ d.smtp = document.smtp /\ d.blocks = document.blocks
    BY <1>0, <2>1 DEF DocumentRow
  <2>3. /\ document' = d /\ UNCHANGED proved /\ opening' = [opening EXCEPT ![r] = Closed]
        /\ staleSave' = (staleSave \/ opening[r].copy.domain # document.domain)
        /\ opening[r].copy.domain \in proved
    BY <1>0, <1>2, <2>1 DEF MarkDomainVerified, Answered
  <2>4. staleSave' \in BOOLEAN /\ (~staleSave' => ~staleSave /\ document.domain \in proved)
    BY <2>3
  <2>5. SettingsRows' /\ Answered'
    BY <1>0, <2>2, <2>3, <2>4, ClosedPage DEF SettingsRows
  <2>6. PasswordHeld' /\ CertificateHeld' /\ SetupHeld'
    BY <1>0, <2>2, <2>3, <2>4 DEF PasswordHeld, CertificateHeld, SetupHeld
  <2> QED BY <2>5, <2>6 DEF SettingsInv
<1> QED BY <1>1, <1>2

\* Opening and closing pages, and the bootstrap of the first directory.
LEMMA PageStep ==
    ASSUME SettingsInv, NEW r \in SettingsPages,
           CreateTenant(r) \/ AddBootstrapMembership(r) \/ OpenPage(r) \/ ClosePage(r)
    PROVE  SettingsInv'
<1>0. /\ SettingsRows /\ Answered /\ PasswordHeld /\ CertificateHeld /\ SetupHeld /\ DocumentRow(document)
      /\ OpeningRow(opening[r]) /\ UNCHANGED <<document, password, proved, staleSave>>
  BY DEF SettingsInv, SettingsRows, CreateTenant, AddBootstrapMembership, OpenPage, ClosePage
<1>1. PICK o : /\ opening' = [opening EXCEPT ![r] = o] /\ OpeningRow(o) /\ o.at # "proved"
  <2>1. CASE AddBootstrapMembership(r) \/ ClosePage(r)
    BY <2>1, EmptyRow DEF AddBootstrapMembership, ClosePage
  <2>2. CASE CreateTenant(r)
    <3>1. PICK o : o = [opening[r] EXCEPT !.at = "bootstrap"]
      OBVIOUS
    <3>2. OpeningRow(o) /\ o.at = "bootstrap"
      BY <1>0, <3>1 DEF OpeningRow
    <3> QED BY <2>2, <3>1, <3>2 DEF CreateTenant
  <2>3. CASE OpenPage(r)
    <3>1. PICK o : o = [at |-> "open", copy |-> document]
      OBVIOUS
    <3>2. OpeningRow(o) /\ o.at = "open"
      BY <1>0, <3>1 DEF OpeningRow
    <3> QED BY <2>3, <3>1, <3>2 DEF OpenPage
  <2> QED BY <2>1, <2>2, <2>3
<1>2. opening' = [s \in SettingsPages |-> IF s = r THEN o ELSE opening[s]]
  BY <1>0, <1>1 DEF SettingsRows
<1>3. /\ install' = [token |-> install'.token, account |-> install'.account, tenant |-> install'.tenant,
                     member |-> install'.member, completed |-> install'.completed]
      /\ install'.account = install.account /\ install'.completed = install.completed
      /\ install'.tenant = install.tenant \/ install'.tenant = TRUE
  BY <1>0 DEF SettingsRows, CreateTenant, AddBootstrapMembership, OpenPage, ClosePage
<1>4. SettingsRows' /\ Answered'
  BY <1>0, <1>1, <1>2, <1>3 DEF SettingsRows, Answered
<1>5. PasswordHeld' /\ CertificateHeld'
  BY <1>0 DEF PasswordHeld, CertificateHeld
<1>6. SetupHeld'
  BY <1>0, <1>3 DEF SetupHeld
<1> QED BY <1>4, <1>5, <1>6 DEF SettingsInv

\* Set-up completes only when every step's work is in the rows.
LEMMA SetupStep ==
    ASSUME SettingsInv, EnsureSetupToken \/ CreateAccount \/ CompleteSetup
    PROVE  SettingsInv'
<1>0. /\ SettingsRows /\ Answered /\ PasswordHeld /\ CertificateHeld /\ SetupHeld
      /\ UNCHANGED <<document, password, opening, proved, staleSave>>
  BY DEF SettingsInv, EnsureSetupToken, CreateAccount, CompleteSetup
<1>1. /\ install' = [token |-> install'.token, account |-> install'.account, tenant |-> install'.tenant,
                     member |-> install'.member, completed |-> install'.completed]
      /\ install'.tenant = install.tenant
      /\ install'.account = install.account \/ install'.account = TRUE
      /\ CompleteSetup \/ install'.completed = install.completed
      /\ CompleteSetup => install'.account = install.account
  BY <1>0 DEF SettingsRows, EnsureSetupToken, CreateAccount, CompleteSetup
<1>2. CompleteSetup => /\ install.account /\ install.tenant
                       /\ document.domain # Unset /\ document.smtp # Unset
                       /\ {"storage", "claim_verification"} \subseteq document.blocks
  BY DEF CompleteSetup, NextStep
<1>3. SetupHeld'
  BY <1>0, <1>1, <1>2 DEF SetupHeld
<1>4. SettingsRows'
  BY <1>0, <1>1 DEF SettingsRows
<1>5. Answered' /\ PasswordHeld' /\ CertificateHeld'
  BY <1>0 DEF Answered, PasswordHeld, CertificateHeld
<1> QED BY <1>3, <1>4, <1>5 DEF SettingsInv

\* The settings' inductive invariant (tenants/services.py, tenants/wizard/views.py).
THEOREM SettingsInvariance == SettingsSpec => []SettingsInv
<1>1. SettingsInit => SettingsInv
  <2> SUFFICES ASSUME SettingsInit PROVE SettingsInv
    OBVIOUS
  <2>1. SettingsRows /\ Answered
    BY EmptyRow DEF SettingsInit, SettingsRows, Answered
  <2>2. PasswordHeld /\ CertificateHeld /\ SetupHeld
    BY DEF SettingsInit, EmptyDocument, PasswordHeld, CertificateHeld, SetupHeld
  <2> QED BY <2>1, <2>2 DEF SettingsInv
<1>2. SettingsInv /\ [SettingsNext]_settingsVars => SettingsInv'
  <2> SUFFICES ASSUME SettingsInv, [SettingsNext]_settingsVars PROVE SettingsInv'
    OBVIOUS
  <2>1. CASE UNCHANGED settingsVars
    BY <2>1 DEF settingsVars, SettingsInv, SettingsRows, Answered, PasswordHeld, CertificateHeld, SetupHeld
  <2> QED BY <2>1, MailStep, SkipStep, BlockStep, DomainStep, VerifyStep, PageStep, SetupStep DEF SettingsNext
<1> QED BY <1>1, <1>2, PTL DEF SettingsSpec

\* As long as no save wrote over a row changed under it, the mail password stays with the
\* host it was typed for, a certificate is given only for a domain whose challenge was
\* answered, and a completed set-up has every block (update_tenant_settings,
\* mark_domain_verified, next_step).
THEOREM SettingsCorrect == SettingsSpec => []SettingsHeld
<1>1. SettingsInv => SettingsHeld
  <2> SUFFICES ASSUME SettingsInv, ~staleSave
               PROVE  /\ password # Unset => document.smtp = password
                      /\ \A name \in SiteNames : MayGetCertificate(name) => name \in proved
                      /\ install.completed => NextStep(document) = "done"
    BY DEF SettingsHeld
  <2>1. install.completed => NextStep(document) = "done"
    BY DEF SettingsInv, SetupHeld, NextStep
  <2> QED BY <2>1 DEF SettingsInv, PasswordHeld, CertificateHeld, MayGetCertificate
<1> QED BY <1>1, SettingsInvariance, PTL

-----------------------------------------------------------------------------
(* The sitemap.                                                             *)

\* The inputs now, if every change since p0 was an unpublishing or a save with a newer time.
Later(p0, p) == \A l \in Pages : p[l] = p0[l] \/ p[l] = 0 \/ \A k \in Pages : p[l] > p0[k]

Entries(p, c) == {<<l, p[l], c>> : l \in Public(p)}
Indexable(p, c) == IF Cardinality(Public(p)) >= MIN_INDEXABLE_LISTINGS THEN {c} ELSE {}

\* The files f show inputs of the past whose fingerprint is fp.
Snap(fp, at, f) ==
    \E p0 \in [Pages -> 0..pageEdits], c0 \in PathNames :
        /\ fp = Fingerprint(p0, c0, at) /\ Later(p0, published)
        /\ f.listings = Entries(p0, c0) /\ f.categories = Indexable(p0, c0)

FilesRow(f) == f = [listings |-> f.listings, categories |-> f.categories, index |-> f.index]
BuilderRow(b) ==
    b = [at |-> b.at, base |-> b.base, digest |-> b.digest, old |-> b.old, gen |-> b.gen,
         files |-> b.files, drift |-> b.drift]
PointerRow(p) == p = [gen |-> p.gen, fingerprint |-> p.fingerprint, base |-> p.base, drift |-> p.drift]
Drifts == {"none", "changed", "returned"}

SitemapRows ==
    /\ pageEdits \in Nat /\ published \in [Pages -> 0..pageEdits] /\ category \in PathNames
    /\ generation \in Nat /\ DOMAIN stored \subseteq 1..generation
    /\ \A g \in DOMAIN stored : FilesRow(stored[g])
    /\ BuilderRow(builder) /\ FilesRow(builder.files) /\ builder.drift \in Drifts
    /\ PointerRow(pointer) /\ pointer.drift \in Drifts /\ pointer.gen \in 0..generation
    /\ torn \in BOOLEAN

\* A rebuild has a generation of its own, which is not the one it will drop.
GenerationInv ==
    /\ builder.at \in {"listings", "categories", "save", "unpoint", "point", "drop"} =>
          builder.gen = generation /\ builder.old # generation /\ generation > 0
    /\ Rendering => generation \notin DOMAIN stored
    /\ builder.at = "save" /\ generation \in DOMAIN stored => stored[generation] = builder.files
    /\ builder.at \in {"unpoint", "point"} =>
          generation \in DOMAIN stored /\ stored[generation].index = TRUE
    /\ builder.at = "drop" => pointer.gen = generation

\* Until the inputs change under it, a rendering is of the inputs its digest is of; what
\* it has rendered shows them from then on; and a digest left behind by a change during
\* the rendering is not the inputs' own, unless they came back to it.
RenderInv ==
    /\ Rendering /\ builder.drift = "none" => builder.digest = Fingerprint(published, category, builder.base)
    /\ builder.at = "categories" /\ builder.drift = "none" => builder.files.listings = Entries(published, category)
    /\ builder.at = "save" /\ builder.drift = "none" => Snap(builder.digest, builder.base, builder.files)
    /\ builder.at \in {"unpoint", "point"} /\ builder.drift = "none" =>
          Snap(builder.digest, builder.base, stored[generation])
    /\ builder.drift = "changed" => builder.digest # Fingerprint(published, category, builder.base)

PointerInv ==
    /\ pointer # NoPointer /\ ~torn /\ builder.at # "clear" =>
          /\ pointer.gen \in DOMAIN stored /\ stored[pointer.gen].index = TRUE
          /\ pointer.drift = "none" => Snap(pointer.fingerprint, pointer.base, stored[pointer.gen])
    /\ pointer.drift = "changed" => pointer.fingerprint # Fingerprint(published, category, pointer.base)

SitemapInv == SitemapRows /\ GenerationInv /\ RenderInv /\ PointerInv

LEMMA MaxExists ==
    ASSUME NEW N \in Nat, NEW S, S \subseteq 0..N, S # {}
    PROVE  Max(S) \in S /\ \A y \in S : Max(S) >= y
<1> DEFINE R == OpToRel(<, Nat)
           U == {n \in Nat : \A y \in S : n >= y}
<1>1. IsWellFoundedOn(R, Nat)
  BY NatLessThanWellFounded, Zenon
<1>2. \A x, y \in Nat : y < x => <<y, x>> \in R
  BY Zenon DEF OpToRel
<1>3. U \subseteq Nat /\ N \in U
  OBVIOUS
<1> HIDE DEF R, U
<1>4. \E x \in U : \A y \in U : ~(<<y, x>> \in R)
  BY <1>1, <1>3, WFMin, Zenon
<1>5. PICK x \in U : \A y \in U : ~(<<y, x>> \in R)
  BY <1>4
<1>6. x \in Nat /\ \A y \in S : x >= y
  BY DEF U
<1>7. \A y \in U : ~(y < x)
  BY <1>2, <1>3, <1>5, <1>6, Zenon
<1>8. x \in S
  <2> SUFFICES ASSUME x \notin S PROVE FALSE
    OBVIOUS
  <2>1. \A y \in S : y \in Nat /\ y < x
    <3> TAKE y \in S
    <3>1. y \in 0..N /\ x >= y /\ y # x
      BY <1>6
    <3> QED BY <1>6, <3>1
  <2>2. x - 1 \in Nat /\ \A y \in S : x - 1 >= y
    <3>1. PICK z \in S : TRUE
      OBVIOUS
    <3>2. x > 0
      BY <1>6, <2>1, <3>1
    <3> QED BY <1>6, <2>1, <3>2
  <2>3. x - 1 \in U
    BY <2>2 DEF U
  <2> QED BY <1>6, <1>7, <2>3
<1> QED BY <1>6, <1>8 DEF Max

\* The newest stamp bounds the others and is one of them, or 0.
LEMMA NewestBounds ==
    ASSUME NEW N \in Nat, NEW p \in [Pages -> 0..N]
    PROVE  /\ Newest(p) \in Nat
           /\ \A l \in Pages : p[l] <= Newest(p)
           /\ Newest(p) = 0 \/ \E l \in Pages : Newest(p) = p[l]
<1> DEFINE S == {0} \cup {p[l] : l \in Pages}
<1>1. S \subseteq 0..N /\ S # {} /\ \A l \in Pages : p[l] \in S
  OBVIOUS
<1>2. \A x \in S : x = 0 \/ \E l \in Pages : x = p[l]
  OBVIOUS
<1>3. Newest(p) = Max(S)
  BY DEF Newest
<1> HIDE DEF S
<1>4. Max(S) \in S /\ \A y \in S : Max(S) >= y
  BY <1>1, MaxExists
<1>5. \A y \in S : y \in Nat
  BY <1>1
<1>6. \A l \in Pages : p[l] \in Nat /\ Max(S) >= p[l]
  BY <1>1, <1>4, <1>5
<1> QED BY <1>2, <1>3, <1>4, <1>5, <1>6

SameDigest(p, c, q, d, at) == Fingerprint(p, c, at) = Fingerprint(q, d, at)

\* The parts of a fingerprint can be read back from it.
LEMMA FingerprintParts ==
    ASSUME NEW p, NEW q, NEW c, NEW d, NEW at, SameDigest(p, c, q, d, at)
    PROVE  Cardinality(Public(p)) = Cardinality(Public(q)) /\ Newest(p) = Newest(q) /\ c = d
<1>1. PICK a1, a2, a3 : a1 = Cardinality(Public(p)) /\ a2 = Newest(p) /\ a3 = IdSum(p)
  OBVIOUS
<1>2. PICK b1, b2, b3 : b1 = Cardinality(Public(q)) /\ b2 = Newest(q) /\ b3 = IdSum(q)
  OBVIOUS
<1> DEFINE A == {<<"n", a1>>, <<"newest", a2>>, <<"ids", a3>>, <<"category", c>>, <<"base", at>>}
           B == {<<"n", b1>>, <<"newest", b2>>, <<"ids", b3>>, <<"category", d>>, <<"base", at>>}
<1>3. A = B
  BY <1>1, <1>2, Zenon DEF SameDigest, Fingerprint
<1>4. <<"n", a1>> \in B /\ <<"newest", a2>> \in B /\ <<"category", c>> \in B
  BY <1>3, Zenon
<1>5. a1 = b1
  BY <1>4
<1>6. a2 = b2
  BY <1>4
<1>7. c = d
  BY <1>4
<1> QED BY <1>1, <1>2, <1>5, <1>6, <1>7

\* Among the inputs that can follow one another, the fingerprint tells any two apart: a
\* save is newer than all before it, and without a save pages only leave.
LEMMA FingerprintInjective ==
    ASSUME SitemapAssumption, NEW N \in Nat, NEW p0 \in [Pages -> 0..N], NEW p \in [Pages -> 0..N],
           NEW c0, NEW c, NEW at, Later(p0, p), SameDigest(p0, c0, p, c, at)
    PROVE  p = p0 /\ c = c0
<1>1. Cardinality(Public(p0)) = Cardinality(Public(p)) /\ Newest(p0) = Newest(p) /\ c0 = c
  BY FingerprintParts, Zenon
<1>2. \A l \in Pages : p[l] = p0[l] \/ p[l] = 0
  <2> SUFFICES ASSUME NEW l \in Pages, \A k \in Pages : p[l] > p0[k] PROVE FALSE
    BY DEF Later
  <2>1. Newest(p) >= p[l] /\ Newest(p) \in Nat /\ p[l] \in Nat
    BY NewestBounds
  <2>2. Newest(p0) = 0 \/ \E k \in Pages : Newest(p0) = p0[k]
    BY NewestBounds
  <2>3. p[l] > p0[l] /\ p0[l] \in Nat
    OBVIOUS
  <2> QED BY <1>1, <2>1, <2>2, <2>3
<1>3. Public(p) \subseteq Public(p0)
  <2>1. \A l \in Pages : p[l] > 0 => p0[l] > 0
    BY <1>2
  <2> QED BY <2>1 DEF Public
<1>4. IsFiniteSet(Public(p0))
  <2>1. Public(p0) \subseteq Pages
    BY DEF Public
  <2> QED BY <2>1, FS_Subset DEF SitemapAssumption
<1>5. Public(p) = Public(p0)
  BY <1>1, <1>3, <1>4, FS_Subset
<1>6. \A l \in Pages : p[l] = p0[l]
  <2> TAKE l \in Pages
  <2>1. p[l] \in Nat /\ p0[l] \in Nat
    OBVIOUS
  <2>2. p[l] > 0 <=> p0[l] > 0
    BY <1>5 DEF Public
  <2> QED BY <1>2, <2>1, <2>2
<1>7. p = [l \in Pages |-> p[l]] /\ p0 = [l \in Pages |-> p0[l]]
  OBVIOUS
<1>8. p = p0
  BY <1>6, <1>7, Zenon
<1> QED BY <1>1, <1>8

\* The pages after a change of the inputs: as they were, or one saved or taken down.
PagesMove ==
    /\ pageEdits' = pageEdits + 1 /\ published' \in [Pages -> 0..pageEdits']
    /\ \A l \in Pages : published'[l] = published[l] \/ published'[l] = 0 \/ published'[l] = pageEdits + 1

\* What a generation shows of the past it goes on showing.
LEMMA SnapKept ==
    ASSUME SitemapRows, PagesMove, NEW fp, NEW at, NEW f, Snap(fp, at, f)
    PROVE  Snap(fp, at, f)'
<1>1. PICK p0 \in [Pages -> 0..pageEdits], c0 \in PathNames :
        /\ fp = Fingerprint(p0, c0, at) /\ Later(p0, published)
        /\ f.listings = Entries(p0, c0) /\ f.categories = Indexable(p0, c0)
  BY Zenon DEF Snap
<1>2. p0 \in [Pages -> 0..pageEdits']
  BY DEF PagesMove, SitemapRows
<1>3. Later(p0, published')
  <2>1. \A k \in Pages : pageEdits + 1 > p0[k]
    BY DEF SitemapRows
  <2> QED BY <1>1, <2>1 DEF Later, PagesMove
<1> QED BY <1>1, <1>2, <1>3 DEF Snap

LEMMA SnapSame ==
    ASSUME UNCHANGED <<published, pageEdits>>, NEW fp, NEW at, NEW f, Snap(fp, at, f)
    PROVE  Snap(fp, at, f)'
BY Zenon DEF Snap

\* Two sets of files with the same entries show the same.
LEMMA SnapFiles ==
    ASSUME NEW fp, NEW at, NEW f, NEW g, Snap(fp, at, f),
           g.listings = f.listings, g.categories = f.categories
    PROVE  Snap(fp, at, g)
BY Zenon DEF Snap

\* What is rendered from unchanged inputs shows them.
LEMMA SnapNow ==
    ASSUME SitemapRows, NEW at, NEW f,
           f.listings = Entries(published, category), f.categories = Indexable(published, category)
    PROVE  Snap(Fingerprint(published, category, at), at, f)
<1>1. published \in [Pages -> 0..pageEdits] /\ category \in PathNames
  BY DEF SitemapRows
<1>2. Later(published, published)
  BY DEF Later
<1> QED BY <1>1, <1>2, Zenon DEF Snap

\* Every change of the pages or the category changes the fingerprint.
LEMMA EditChanges ==
    ASSUME SitemapAssumption, SitemapRows, PagesMove, NEW at,
           published' # published \/ category' # category
    PROVE  Fingerprint(published, category, at) # Fingerprint(published', category', at)
<1> SUFFICES ASSUME Fingerprint(published, category, at) = Fingerprint(published', category', at)
             PROVE  FALSE
  OBVIOUS
<1>1. pageEdits' \in Nat /\ published \in [Pages -> 0..pageEdits'] /\ published' \in [Pages -> 0..pageEdits']
  BY DEF SitemapRows, PagesMove
<1>2. Later(published, published')
  <2>1. \A k \in Pages : pageEdits + 1 > published[k]
    BY DEF SitemapRows
  <2> QED BY <2>1 DEF Later, PagesMove
<1>3. PICK p, c : p = published' /\ c = category'
  OBVIOUS
<1>4. PICK p0, c0, n : p0 = published /\ c0 = category /\ n = pageEdits'
  OBVIOUS
<1>5. SameDigest(p0, c0, p, c, at)
  BY <1>3, <1>4 DEF SameDigest
<1>6. p = p0 /\ c = c0
  <2>1. n \in Nat /\ p0 \in [Pages -> 0..n] /\ p \in [Pages -> 0..n] /\ Later(p0, p)
    BY <1>1, <1>2, <1>3, <1>4
  <2> QED BY <1>5, <2>1, FingerprintInjective, Zenon
<1> QED BY <1>3, <1>4, <1>6

\* An edit of the pages or the category, in the builder's and the pointer's own terms.
LEMMA EditStep ==
    ASSUME SitemapInv, PageEdit
    PROVE  \E x, y \in Drifts :
              /\ builder' = [builder EXCEPT !.drift = x] /\ pointer' = [pointer EXCEPT !.drift = y]
              /\ x = "none" => builder.drift = "none" /\ ~Rendering
              /\ x = "changed" => \/ builder.drift = "none" /\ Rendering
                                  \/ builder.digest # Fingerprint(published', category', builder.base)
              /\ (y = "none") = (pointer.drift = "none")
              /\ y = "changed" => pointer.fingerprint # Fingerprint(published', category', pointer.base)
<1>1. PICK d, e, m, n : /\ d = builder.digest /\ e = pointer.fingerprint
                        /\ m = Fingerprint(published', category', builder.base)
                        /\ n = Fingerprint(published', category', pointer.base)
  OBVIOUS
<1>2. PICK x, y : x = Drift(builder.drift, TRUE, d, m) /\ y = Drift(pointer.drift, FALSE, e, n)
  OBVIOUS
<1>3. builder' = [builder EXCEPT !.drift = x] /\ pointer' = [pointer EXCEPT !.drift = y]
  BY <1>1, <1>2, Zenon DEF PageEdit
<1>4. builder.drift \in Drifts /\ pointer.drift \in Drifts
  BY DEF SitemapInv, SitemapRows
<1>5. /\ x \in Drifts /\ (x = "none" => builder.drift = "none" /\ ~Rendering)
      /\ x = "changed" => (builder.drift = "none" /\ Rendering) \/ d # m
  BY <1>2, <1>4 DEF Drift, Drifts
<1>6. y \in Drifts /\ (y = "none") = (pointer.drift = "none") /\ (y = "changed" => e # n)
  BY <1>2, <1>4 DEF Drift, Drifts
<1> QED BY <1>1, <1>3, <1>5, <1>6

\* An edit leaves the job and the files alone, but for what the histories say of them.
LEMMA EditKeeps ==
    ASSUME SitemapAssumption, SitemapInv, PageEdit, PagesMove, category' \in PathNames,
           published' # published \/ category' # category, UNCHANGED <<stored, torn, generation>>
    PROVE  SitemapInv'
<1>0. SitemapRows /\ GenerationInv /\ RenderInv /\ PointerInv
  BY DEF SitemapInv
<1>1. PICK x, y \in Drifts :
        /\ builder' = [builder EXCEPT !.drift = x] /\ pointer' = [pointer EXCEPT !.drift = y]
        /\ x = "none" => builder.drift = "none" /\ ~Rendering
        /\ x = "changed" => \/ builder.drift = "none" /\ Rendering
                            \/ builder.digest # Fingerprint(published', category', builder.base)
        /\ (y = "none") = (pointer.drift = "none")
        /\ y = "changed" => pointer.fingerprint # Fingerprint(published', category', pointer.base)
  BY EditStep
<1>2. /\ BuilderRow(builder') /\ builder'.at = builder.at /\ builder'.base = builder.base
      /\ builder'.digest = builder.digest /\ builder'.old = builder.old /\ builder'.gen = builder.gen
      /\ builder'.files = builder.files /\ builder'.drift = x
  BY <1>0, <1>1 DEF SitemapRows, BuilderRow
<1>3. /\ PointerRow(pointer') /\ pointer'.gen = pointer.gen /\ pointer'.fingerprint = pointer.fingerprint
      /\ pointer'.base = pointer.base /\ pointer'.drift = y
  BY <1>0, <1>1 DEF SitemapRows, PointerRow
<1>4. pointer' # NoPointer => pointer # NoPointer
  <2> SUFFICES ASSUME pointer = NoPointer PROVE pointer' = NoPointer
    OBVIOUS
  <2>1. y = "none" /\ pointer.gen = 0 /\ pointer.fingerprint = {} /\ pointer.base = NoBase
    BY <1>1 DEF NoPointer
  <2> QED BY <1>3, <2>1 DEF PointerRow, NoPointer
<1>5. SitemapRows'
  BY <1>0, <1>1, <1>2, <1>3 DEF SitemapRows, PagesMove
<1>6. GenerationInv'
  BY <1>0, <1>2, <1>3 DEF GenerationInv, Rendering
<1>7. RenderInv'
  <2>1. x = "changed" => builder.digest # Fingerprint(published', category', builder.base)
    <3> SUFFICES ASSUME builder.drift = "none", Rendering
                 PROVE  builder.digest # Fingerprint(published', category', builder.base)
      BY <1>1
    <3>1. builder.digest = Fingerprint(published, category, builder.base)
      BY <1>0 DEF RenderInv
    <3> QED BY <1>0, <3>1, EditChanges
  <2>2. x = "none" => ~Rendering /\ builder.drift = "none"
    BY <1>1
  <2>3. builder.at = "save" /\ x = "none" => Snap(builder.digest, builder.base, builder.files)'
    <3> SUFFICES ASSUME builder.at = "save", x = "none" PROVE Snap(builder.digest, builder.base, builder.files)'
      OBVIOUS
    <3>1. PICK d, b, f : d = builder.digest /\ b = builder.base /\ f = builder.files
      OBVIOUS
    <3>2. Snap(d, b, f)
      BY <1>0, <2>2, <3>1 DEF RenderInv
    <3>3. Snap(d, b, f)'
      BY <1>0, <3>2, SnapKept
    <3> QED BY <1>2, <3>1, <3>3
  <2>4. builder.at \in {"unpoint", "point"} /\ x = "none" => Snap(builder.digest, builder.base, stored[generation])'
    <3> SUFFICES ASSUME builder.at \in {"unpoint", "point"}, x = "none"
                 PROVE  Snap(builder.digest, builder.base, stored[generation])'
      OBVIOUS
    <3>1. PICK d, b, f : d = builder.digest /\ b = builder.base /\ f = stored[generation]
      OBVIOUS
    <3>2. Snap(d, b, f)
      BY <1>0, <2>2, <3>1 DEF RenderInv
    <3>3. Snap(d, b, f)'
      BY <1>0, <3>2, SnapKept
    <3> QED BY <1>2, <3>1, <3>3
  <2> QED BY <1>2, <2>1, <2>2, <2>3, <2>4 DEF RenderInv, Rendering
<1>8. PointerInv'
  <2>1. pointer # NoPointer /\ ~torn /\ builder.at # "clear" =>
           pointer.gen \in DOMAIN stored /\ stored[pointer.gen].index = TRUE
    BY <1>0 DEF PointerInv
  <2>2. pointer # NoPointer /\ ~torn /\ builder.at # "clear" /\ y = "none" =>
           Snap(pointer.fingerprint, pointer.base, stored[pointer.gen])'
    <3> SUFFICES ASSUME pointer # NoPointer, ~torn, builder.at # "clear", y = "none"
                 PROVE  Snap(pointer.fingerprint, pointer.base, stored[pointer.gen])'
      OBVIOUS
    <3>1. PICK d, b, f : d = pointer.fingerprint /\ b = pointer.base /\ f = stored[pointer.gen]
      OBVIOUS
    <3>2. Snap(d, b, f)
      BY <1>0, <1>1, <3>1 DEF PointerInv
    <3>3. Snap(d, b, f)'
      BY <1>0, <3>2, SnapKept
    <3> QED BY <1>3, <3>1, <3>3
  <2> QED BY <1>1, <1>2, <1>3, <1>4, <2>1, <2>2 DEF PointerInv
<1> QED BY <1>5, <1>6, <1>7, <1>8 DEF SitemapInv

\* The inputs stand still, or a domain is saved.
Still ==
    /\ published' = published /\ category' = category
    /\ pageEdits' = pageEdits \/ pageEdits' = pageEdits + 1

LEMMA SnapStill ==
    ASSUME SitemapRows, Still, NEW fp, NEW at, NEW f, Snap(fp, at, f)
    PROVE  Snap(fp, at, f)'
<1>1. CASE pageEdits' = pageEdits
  BY <1>1, SnapSame DEF Still
<1>2. CASE pageEdits' = pageEdits + 1
  <2>1. PagesMove
    BY <1>2 DEF PagesMove, SitemapRows, Still
  <2> QED BY <2>1, SnapKept
<1> QED BY <1>1, <1>2 DEF Still

LEMMA InputRows ==
    ASSUME SitemapRows, Still
    PROVE  pageEdits' \in Nat /\ published' \in [Pages -> 0..pageEdits'] /\ category' \in PathNames
BY DEF SitemapRows, Still

\* A step that leaves the pointer and the files it names alone.
LEMMA PointerKept ==
    ASSUME SitemapInv, Still, pointer' = pointer,
           ~torn' /\ builder'.at # "clear" => ~torn /\ builder.at # "clear",
           ~torn' /\ builder'.at # "clear" /\ pointer.gen \in DOMAIN stored =>
              /\ pointer.gen \in DOMAIN stored'
              /\ stored'[pointer.gen].listings = stored[pointer.gen].listings
              /\ stored'[pointer.gen].categories = stored[pointer.gen].categories
              /\ stored[pointer.gen].index = TRUE => stored'[pointer.gen].index = TRUE
    PROVE  PointerInv'
<1>0. SitemapRows /\ PointerInv
  BY DEF SitemapInv
<1>1. pointer'.drift = "changed" => pointer'.fingerprint # Fingerprint(published', category', pointer'.base)
  BY <1>0 DEF PointerInv, Still
<1>2. ASSUME pointer' # NoPointer, ~torn', builder'.at # "clear"
      PROVE  /\ pointer'.gen \in DOMAIN stored' /\ stored'[pointer'.gen].index = TRUE
             /\ pointer'.drift = "none" => Snap(pointer.fingerprint, pointer.base, stored[pointer.gen])'
  <2>1. /\ pointer.gen \in DOMAIN stored /\ stored[pointer.gen].index = TRUE
        /\ pointer.drift = "none" => Snap(pointer.fingerprint, pointer.base, stored[pointer.gen])
    BY <1>0, <1>2 DEF PointerInv
  <2>2. pointer.drift = "none" => Snap(pointer.fingerprint, pointer.base, stored[pointer.gen])'
    <3> SUFFICES ASSUME pointer.drift = "none"
                 PROVE  Snap(pointer.fingerprint, pointer.base, stored[pointer.gen])'
      OBVIOUS
    <3>1. PICK d, b, f, g : /\ d = pointer.fingerprint /\ b = pointer.base
                            /\ f = stored[pointer.gen] /\ g = stored'[pointer.gen]
      OBVIOUS
    <3>2. Snap(d, b, g)
      <4>1. Snap(d, b, f)
        BY <2>1, <3>1
      <4>2. g.listings = f.listings /\ g.categories = f.categories
        BY <1>2, <2>1, <3>1
      <4> QED BY <4>1, <4>2, SnapFiles
    <3>3. Snap(d, b, g)'
      BY <1>0, <3>2, SnapStill
    <3> QED BY <3>1, <3>3
  <2> QED BY <1>2, <2>1, <2>2
<1> QED BY <1>1, <1>2 DEF PointerInv

\* A job at rest, or clearing, promises nothing but what its history says.
LEMMA AtRest ==
    ASSUME builder'.at \in {"idle", "clear"},
           builder'.drift = "changed" => builder'.digest # Fingerprint(published', category', builder'.base)
    PROVE  GenerationInv' /\ RenderInv'
BY DEF GenerationInv, RenderInv, Rendering

LEMMA IdleRow ==
    /\ BuilderRow(IdleBuilder) /\ FilesRow(IdleBuilder.files) /\ IdleBuilder.drift = "none"
    /\ IdleBuilder.at = "idle" /\ IdleBuilder.drift \in Drifts
BY DEF BuilderRow, FilesRow, IdleBuilder, NoFiles, Drifts

LEMMA NoPointerRow ==
    PointerRow(NoPointer) /\ NoPointer.drift = "none" /\ NoPointer.drift \in Drifts /\ NoPointer.gen = 0
BY DEF PointerRow, NoPointer, Drifts

LEMMA StageRow ==
    ASSUME SitemapRows, NEW place, Stage(place)
    PROVE  /\ BuilderRow(builder') /\ FilesRow(builder'.files) /\ builder'.drift \in Drifts
           /\ builder'.at = place /\ builder'.base = builder.base /\ builder'.digest = builder.digest
           /\ builder'.old = builder.old /\ builder'.gen = builder.gen /\ builder'.files = builder.files
           /\ builder'.drift = builder.drift
BY DEF Stage, Build, SitemapRows, BuilderRow

LEMMA DomainSaved ==
    ASSUME SitemapInv, Still, UNCHANGED <<stored, pointer, builder, torn, generation>>
    PROVE  SitemapInv'
<1>0. SitemapRows /\ GenerationInv /\ RenderInv
  BY DEF SitemapInv
<1>1. SitemapRows'
  BY <1>0, InputRows DEF SitemapRows
<1>2. GenerationInv'
  BY <1>0 DEF GenerationInv, Rendering
<1>3. RenderInv'
  <2>1. PICK d, b, f, g : d = builder.digest /\ b = builder.base /\ f = builder.files /\ g = stored[generation]
    OBVIOUS
  <2>2. Snap(d, b, f) => Snap(d, b, f)'
    BY <1>0, SnapStill
  <2>3. Snap(d, b, g) => Snap(d, b, g)'
    BY <1>0, SnapStill
  <2>4. Snap(builder.digest, builder.base, builder.files) => Snap(builder.digest, builder.base, builder.files)'
    BY <2>1, <2>2
  <2>5. Snap(builder.digest, builder.base, stored[generation]) => Snap(builder.digest, builder.base, stored[generation])'
    BY <2>1, <2>3
  <2> QED BY <1>0, <2>4, <2>5 DEF RenderInv, Rendering, Still
<1>4. PointerInv'
  BY PointerKept
<1> QED BY <1>1, <1>2, <1>3, <1>4 DEF SitemapInv

LEMMA RebuildPlanned ==
    ASSUME SitemapInv, PlanRebuild
    PROVE  SitemapInv'
<1>0. SitemapRows /\ Still /\ pointer' = pointer /\ stored' = stored /\ torn' = torn
  BY DEF SitemapInv, PlanRebuild, Still
<1>1. PICK d : d = Digest(base)
  OBVIOUS
<1>2. /\ builder' = [at |-> "listings", base |-> base, digest |-> d, old |-> pointer.gen,
                     gen |-> generation + 1, files |-> NoFiles, drift |-> "none"]
      /\ generation' = generation + 1
  BY <1>1 DEF PlanRebuild, Build
<1>3. SitemapRows'
  BY <1>0, <1>2, InputRows DEF SitemapRows, BuilderRow, FilesRow, NoFiles, Drifts
<1>4. GenerationInv'
  <2>1. pointer.gen # generation + 1 /\ generation + 1 > 0 /\ generation + 1 \notin DOMAIN stored
    BY <1>0 DEF SitemapRows
  <2> QED BY <1>0, <1>2, <2>1 DEF GenerationInv, Rendering
<1>5. RenderInv'
  <2>1. d = Fingerprint(published', category', base)
    BY <1>0, <1>1 DEF Digest, Still
  <2> QED BY <1>2, <2>1 DEF RenderInv, Rendering
<1>6. PointerInv'
  <2>1. builder.at # "clear"
    BY DEF PlanRebuild
  <2> QED BY <1>0, <2>1, PointerKept
<1> QED BY <1>3, <1>4, <1>5, <1>6 DEF SitemapInv

LEMMA ListingsRendered ==
    ASSUME SitemapInv, RenderListings
    PROVE  SitemapInv'
<1>0. SitemapRows /\ GenerationInv /\ RenderInv /\ Still /\ UNCHANGED <<pointer, stored, torn, generation>>
  BY DEF SitemapInv, RenderListings, Still
<1>1. PICK e : e = ListingEntries
  OBVIOUS
<1>2. PICK f : f = [builder.files EXCEPT !.listings = e]
  OBVIOUS
<1>3. builder' = [builder EXCEPT !.at = "categories", !.files = f]
  BY <1>1, <1>2 DEF RenderListings, Build
<1>4. FilesRow(f) /\ f.listings = e
  BY <1>0, <1>2 DEF SitemapRows, FilesRow
<1>5. /\ BuilderRow(builder') /\ builder'.files = f /\ builder'.at = "categories" /\ builder'.gen = builder.gen
      /\ builder'.base = builder.base /\ builder'.digest = builder.digest /\ builder'.old = builder.old
      /\ builder'.drift = builder.drift
  BY <1>0, <1>3 DEF SitemapRows, BuilderRow
<1>6. builder.at = "listings"
  BY DEF RenderListings
<1>7. SitemapRows'
  BY <1>0, <1>4, <1>5, InputRows DEF SitemapRows
<1>8. GenerationInv'
  BY <1>0, <1>5, <1>6 DEF GenerationInv, Rendering
<1>9. RenderInv'
  <2>1. e = Entries(published', category')
    BY <1>0, <1>1 DEF ListingEntries, Entries, Still
  <2> QED BY <1>0, <1>4, <1>5, <1>6, <2>1 DEF RenderInv, Rendering, Still
<1>10. PointerInv'
  BY <1>0, <1>6, PointerKept
<1> QED BY <1>7, <1>8, <1>9, <1>10 DEF SitemapInv

LEMMA CategoriesRendered ==
    ASSUME SitemapInv, RenderCategories
    PROVE  SitemapInv'
<1>0. SitemapRows /\ GenerationInv /\ RenderInv /\ Still /\ UNCHANGED <<pointer, stored, torn, generation, pageEdits>>
  BY DEF SitemapInv, RenderCategories, Still
<1>1. PICK e : e = CategoryEntries
  OBVIOUS
<1>2. PICK f : f = [builder.files EXCEPT !.categories = e]
  OBVIOUS
<1>3. builder' = [builder EXCEPT !.at = "save", !.files = f]
  BY <1>1, <1>2 DEF RenderCategories, Build
<1>4. FilesRow(f) /\ f.categories = e /\ f.listings = builder.files.listings
  BY <1>0, <1>2 DEF SitemapRows, FilesRow
<1>5. /\ BuilderRow(builder') /\ builder'.files = f /\ builder'.at = "save" /\ builder'.gen = builder.gen
      /\ builder'.base = builder.base /\ builder'.digest = builder.digest /\ builder'.old = builder.old
      /\ builder'.drift = builder.drift
  BY <1>0, <1>3 DEF SitemapRows, BuilderRow
<1>6. builder.at = "categories"
  BY DEF RenderCategories
<1>7. SitemapRows'
  BY <1>0, <1>4, <1>5, InputRows DEF SitemapRows
<1>8. GenerationInv'
  BY <1>0, <1>5, <1>6 DEF GenerationInv, Rendering
<1>9. RenderInv'
  <2>1. builder.drift = "none" => Snap(builder.digest, builder.base, builder.files)'
    <3> SUFFICES ASSUME builder.drift = "none" PROVE Snap(builder.digest, builder.base, builder.files)'
      OBVIOUS
    <3>1. PICK d, b : d = builder.digest /\ b = builder.base
      OBVIOUS
    <3>2. f.listings = Entries(published, category) /\ f.categories = Indexable(published, category)
      BY <1>0, <1>1, <1>4, <1>6 DEF RenderInv, CategoryEntries, Indexable
    <3>3. d = Fingerprint(published, category, b)
      BY <1>0, <1>6, <3>1 DEF RenderInv, Rendering
    <3>4. Snap(d, b, f)
      BY <1>0, <3>2, <3>3, SnapNow
    <3>5. Snap(d, b, f)'
      BY <1>0, <3>4, SnapStill
    <3> QED BY <1>5, <3>1, <3>5
  <2> QED BY <1>0, <1>5, <2>1 DEF RenderInv, Rendering, Still
<1>10. PointerInv'
  BY <1>0, <1>6, PointerKept
<1> QED BY <1>7, <1>8, <1>9, <1>10 DEF SitemapInv

LEMMA PointerDeleted ==
    ASSUME SitemapInv, DeletePointer
    PROVE  SitemapInv'
<1>0. SitemapRows /\ GenerationInv /\ RenderInv /\ Still /\ UNCHANGED <<stored, torn, generation>> /\ pointer' = NoPointer
  BY DEF SitemapInv, DeletePointer, Still
<1>1. /\ BuilderRow(builder') /\ FilesRow(builder'.files) /\ builder'.drift \in Drifts
      /\ builder'.at = "point" /\ builder'.base = builder.base /\ builder'.digest = builder.digest
      /\ builder'.old = builder.old /\ builder'.gen = builder.gen /\ builder'.drift = builder.drift
  BY <1>0, StageRow DEF DeletePointer
<1>2. builder.at = "unpoint"
  BY DEF DeletePointer
<1>3. SitemapRows'
  BY <1>0, <1>1, InputRows, NoPointerRow DEF SitemapRows
<1>4. GenerationInv'
  BY <1>0, <1>1, <1>2 DEF GenerationInv, Rendering
<1>5. RenderInv'
  <2>1. PICK d, b, f : d = builder.digest /\ b = builder.base /\ f = stored[generation]
    OBVIOUS
  <2>2. builder.drift = "none" => Snap(d, b, f)
    BY <1>0, <1>2, <2>1 DEF RenderInv
  <2>3. builder.drift = "none" => Snap(d, b, f)'
    BY <1>0, <2>2, SnapStill
  <2>4. builder.drift = "none" => Snap(builder.digest, builder.base, stored[generation])'
    BY <1>0, <1>1, <2>1, <2>3
  <2> QED BY <1>0, <1>1, <2>4 DEF RenderInv, Rendering, Still
<1>6. PointerInv'
  BY <1>0, NoPointerRow DEF PointerInv
<1> QED BY <1>3, <1>4, <1>5, <1>6 DEF SitemapInv

LEMMA FilesSaved ==
    ASSUME SitemapInv, SaveFiles
    PROVE  SitemapInv'
<1>0. SitemapRows /\ GenerationInv /\ RenderInv /\ Still /\ UNCHANGED <<pointer, torn, generation, pageEdits>>
  BY DEF SitemapInv, SaveFiles, Still
<1>1. builder.at = "save" /\ builder.gen = generation /\ builder.old # generation /\ generation > 0
  BY <1>0 DEF SaveFiles, GenerationInv
<1>2. PICK d, b, f : d = builder.digest /\ b = builder.base /\ f = builder.files
  OBVIOUS
<1>3. FilesRow(f) /\ (builder.drift = "none" => Snap(d, b, f))
  BY <1>0, <1>1, <1>2 DEF RenderInv, SitemapRows
<1>4. CASE generation \notin DOMAIN stored
  <2>1. /\ stored' = [h \in DOMAIN stored \cup {generation} |-> IF h = generation THEN f ELSE stored[h]]
        /\ builder' = builder
    BY <1>1, <1>2, <1>4 DEF SaveFiles
  <2>2. DOMAIN stored' = DOMAIN stored \cup {generation} /\ stored'[generation] = f
    BY <2>1
  <2>3. \A h \in DOMAIN stored : h # generation /\ stored'[h] = stored[h]
    BY <1>4, <2>1
  <2>4. SitemapRows'
    <3>1. generation \in 1..generation
      BY <1>0, <1>1 DEF SitemapRows
    <3>2. DOMAIN stored' \subseteq 1..generation
      BY <1>0, <2>2, <3>1 DEF SitemapRows
    <3>3. \A g \in DOMAIN stored' : FilesRow(stored'[g])
      BY <1>0, <1>3, <2>2, <2>3 DEF SitemapRows
    <3> QED BY <1>0, <2>1, <3>2, <3>3, InputRows DEF SitemapRows
  <2>5. GenerationInv'
    BY <1>0, <1>1, <1>2, <2>1, <2>2 DEF GenerationInv, Rendering
  <2>6. RenderInv'
    <3>1. builder.drift = "none" => Snap(d, b, f)'
      BY <1>0, <1>3, SnapStill
    <3>2. builder.drift = "none" => Snap(builder.digest, builder.base, builder.files)'
      BY <1>2, <2>1, <3>1
    <3> QED BY <1>0, <1>1, <2>1, <3>2 DEF RenderInv, Rendering, Still
  <2>7. PointerInv'
    BY <1>0, <1>1, <2>1, <2>2, <2>3, PointerKept
  <2> QED BY <2>4, <2>5, <2>6, <2>7 DEF SitemapInv
<1>5. CASE generation \in DOMAIN stored
  <2>1. stored' = [stored EXCEPT ![generation].index = TRUE] /\ Stage("unpoint")
    BY <1>1, <1>5 DEF SaveFiles
  <2>2. stored[generation] = f
    BY <1>0, <1>1, <1>2, <1>5 DEF GenerationInv
  <2>3. PICK g : g = [f EXCEPT !.index = TRUE]
    OBVIOUS
  <2>4. FilesRow(g) /\ g.index = TRUE /\ g.listings = f.listings /\ g.categories = f.categories
    BY <1>3, <2>3 DEF FilesRow
  <2>5. stored' = [stored EXCEPT ![generation] = g]
    BY <2>1, <2>2, <2>3
  <2>6. /\ DOMAIN stored' = DOMAIN stored /\ stored'[generation] = g
        /\ \A h \in DOMAIN stored : h # generation => stored'[h] = stored[h]
    BY <1>5, <2>5
  <2>7. /\ BuilderRow(builder') /\ FilesRow(builder'.files) /\ builder'.drift \in Drifts
        /\ builder'.at = "unpoint" /\ builder'.base = builder.base /\ builder'.digest = builder.digest
        /\ builder'.old = builder.old /\ builder'.gen = builder.gen /\ builder'.drift = builder.drift
    BY <1>0, <2>1, StageRow
  <2>8. SitemapRows'
    <3>1. \A h \in DOMAIN stored' : FilesRow(stored'[h])
      BY <1>0, <2>4, <2>6 DEF SitemapRows
    <3> QED BY <1>0, <2>6, <2>7, <3>1, InputRows DEF SitemapRows
  <2>9. GenerationInv'
    BY <1>0, <1>1, <1>5, <2>4, <2>6, <2>7 DEF GenerationInv, Rendering
  <2>10. RenderInv'
    <3>1. builder.drift = "none" => Snap(d, b, g)
      BY <1>3, <2>4, SnapFiles
    <3>2. builder.drift = "none" => Snap(d, b, g)'
      BY <1>0, <3>1, SnapStill
    <3>3. builder.drift = "none" => Snap(builder.digest, builder.base, stored[generation])'
      BY <1>0, <1>2, <2>6, <2>7, <3>2
    <3> QED BY <1>0, <2>7, <3>3 DEF RenderInv, Rendering, Still
  <2>11. PointerInv'
    BY <1>0, <1>1, <2>2, <2>4, <2>6, PointerKept
  <2> QED BY <2>8, <2>9, <2>10, <2>11 DEF SitemapInv
<1> QED BY <1>4, <1>5

LEMMA PointerSaved ==
    ASSUME SitemapInv, SavePointer
    PROVE  SitemapInv'
<1>0. SitemapRows /\ GenerationInv /\ RenderInv /\ Still /\ UNCHANGED <<stored, generation>> /\ torn' = FALSE
  BY DEF SitemapInv, SavePointer, Still
<1>1. /\ BuilderRow(builder') /\ FilesRow(builder'.files) /\ builder'.drift \in Drifts
      /\ builder'.at = "drop" /\ builder'.base = builder.base /\ builder'.digest = builder.digest
      /\ builder'.old = builder.old /\ builder'.gen = builder.gen /\ builder'.drift = builder.drift
  BY <1>0, StageRow DEF SavePointer
<1>2. builder.at = "point" /\ builder.gen = generation /\ builder.old # generation /\ generation > 0
  BY <1>0 DEF SavePointer, GenerationInv
<1>3. pointer' = [gen |-> generation, fingerprint |-> builder.digest, base |-> builder.base, drift |-> builder.drift]
  BY <1>2 DEF SavePointer, StoredDigest
<1>4. SitemapRows'
  <2>1. /\ pointer'.gen = generation /\ pointer'.drift = builder.drift /\ PointerRow(pointer')
    BY <1>3 DEF PointerRow
  <2>2. generation \in 0..generation
    BY <1>0 DEF SitemapRows
  <2> QED BY <1>0, <1>1, <2>1, <2>2, InputRows DEF SitemapRows
<1>5. GenerationInv'
  BY <1>0, <1>1, <1>2, <1>3 DEF GenerationInv, Rendering
<1>6. builder.drift = "changed" => builder.digest # Fingerprint(published', category', builder.base)
  BY <1>0 DEF RenderInv, Still
<1>7. RenderInv'
  BY <1>1, <1>6 DEF RenderInv, Rendering
<1>8. PointerInv'
  <2>1. generation \in DOMAIN stored /\ stored[generation].index = TRUE
    BY <1>0, <1>2 DEF GenerationInv
  <2>2. PICK d, b, f : d = builder.digest /\ b = builder.base /\ f = stored[generation]
    OBVIOUS
  <2>3. builder.drift = "none" => Snap(d, b, f)
    BY <1>0, <1>2, <2>2 DEF RenderInv
  <2>4. builder.drift = "none" => Snap(d, b, f)'
    BY <1>0, <2>3, SnapStill
  <2>5. pointer'.drift = builder.drift /\ pointer'.gen = generation /\ pointer'.base = b /\ pointer'.fingerprint = d
    BY <1>3, <2>2
  <2>6. pointer'.drift = "none" => Snap(pointer.fingerprint, pointer.base, stored[pointer.gen])'
    BY <1>0, <2>2, <2>4, <2>5
  <2> QED BY <1>0, <1>6, <2>1, <2>2, <2>5, <2>6 DEF PointerInv
<1> QED BY <1>4, <1>5, <1>7, <1>8 DEF SitemapInv

\* The job ends: the old generation is dropped, a clear is finished, or the worker dies.
LEMMA JobEnds ==
    ASSUME SitemapInv, DropOld \/ ClearPointer \/ BuilderDies
    PROVE  SitemapInv'
<1>0. SitemapRows /\ GenerationInv /\ PointerInv /\ Still /\ generation' = generation /\ builder' = IdleBuilder
  BY DEF SitemapInv, DropOld, ClearPointer, BuilderDies, Build, Still
<1>1. GenerationInv' /\ RenderInv'
  BY <1>0, IdleRow, AtRest
<1>2. CASE DropOld
  <2>1. /\ stored' = [g \in DOMAIN stored \ {builder.old} |-> stored[g]]
        /\ pointer' = pointer /\ torn' = torn /\ builder.at = "drop"
    BY <1>2 DEF DropOld
  <2>2. pointer.gen # builder.old
    BY <1>0, <2>1 DEF GenerationInv
  <2>3. SitemapRows'
    BY <1>0, <2>1, IdleRow, InputRows DEF SitemapRows
  <2>4. PointerInv'
    BY <2>1, <2>2, <1>0, PointerKept
  <2> QED BY <1>1, <2>3, <2>4 DEF SitemapInv
<1>3. CASE ClearPointer
  <2>1. pointer' = NoPointer /\ stored' = stored /\ torn' = torn
    BY <1>3 DEF ClearPointer
  <2>2. SitemapRows'
    BY <1>0, <2>1, IdleRow, NoPointerRow, InputRows DEF SitemapRows
  <2>3. PointerInv'
    BY <2>1, NoPointerRow DEF PointerInv
  <2> QED BY <1>1, <2>2, <2>3 DEF SitemapInv
<1>4. CASE BuilderDies
  <2>1. UNCHANGED <<stored, pointer>> /\ torn' = (torn \/ builder.at = "clear")
    BY <1>4 DEF BuilderDies
  <2>2. torn' \in BOOLEAN
    BY <2>1
  <2>3. SitemapRows'
    BY <1>0, <2>1, <2>2, IdleRow, InputRows DEF SitemapRows
  <2>4. PointerInv'
    BY <2>1, <1>0, PointerKept
  <2> QED BY <1>1, <2>3, <2>4 DEF SitemapInv
<1> QED BY <1>2, <1>3, <1>4

LEMMA ClearPlanned ==
    ASSUME SitemapInv, PlanClear
    PROVE  SitemapInv'
<1>0. SitemapRows /\ RenderInv /\ PointerInv /\ Still /\ UNCHANGED <<pointer, torn, generation>> /\ stored' = <<>>
  BY DEF SitemapInv, PlanClear, Still
<1>1. /\ BuilderRow(builder') /\ FilesRow(builder'.files) /\ builder'.drift \in Drifts
      /\ builder'.at = "clear" /\ builder'.base = builder.base /\ builder'.digest = builder.digest
      /\ builder'.drift = builder.drift
  BY <1>0, StageRow DEF PlanClear
<1>2. GenerationInv' /\ RenderInv'
  <2>1. builder'.drift = "changed" => builder'.digest # Fingerprint(published', category', builder'.base)
    BY <1>0, <1>1 DEF RenderInv, Still
  <2> QED BY <1>1, <2>1, AtRest
<1>3. SitemapRows'
  <2>1. DOMAIN stored' = {}
    BY <1>0
  <2> QED BY <1>0, <1>1, <2>1, InputRows DEF SitemapRows
<1>4. PointerInv'
  BY <1>0, <1>1 DEF PointerInv, Still
<1> QED BY <1>2, <1>3, <1>4 DEF SitemapInv

LEMMA SitemapStep ==
    ASSUME SitemapAssumption, SitemapInv, [SitemapNext]_sitemapVars
    PROVE  SitemapInv'
<1>0. SitemapRows
  BY DEF SitemapInv
<1>1. ASSUME NEW l \in Pages, SavePage(l) PROVE SitemapInv'
  <2>0. PageEdit /\ category' = category /\ UNCHANGED <<stored, torn, generation>> /\ pageEdits' = pageEdits + 1
    BY <1>1 DEF SavePage, PageEdit
  <2>1. PICK s \in {0, pageEdits + 1} : published' = [published EXCEPT ![l] = s] /\ published[l] # s
    <3>1. published[l] \in 0..pageEdits
      BY <1>0 DEF SitemapRows
    <3>2. CASE published' = [published EXCEPT ![l] = pageEdits + 1]
      BY <1>0, <3>1, <3>2 DEF SitemapRows
    <3>3. CASE published[l] > 0 /\ published' = [published EXCEPT ![l] = 0]
      BY <3>1, <3>3
    <3> QED BY <1>1, <3>2, <3>3 DEF SavePage
  <2>2. PagesMove /\ published' # published
    BY <1>0, <2>0, <2>1 DEF SitemapRows, PagesMove
  <2>3. category' \in PathNames
    BY <1>0, <2>0 DEF SitemapRows
  <2> QED BY <2>0, <2>2, <2>3, EditKeeps
<1>2. ASSUME NEW n \in PathNames, SaveCategory(n) PROVE SitemapInv'
  <2>1. /\ PageEdit /\ UNCHANGED <<stored, torn, generation>> /\ pageEdits' = pageEdits + 1
        /\ category' = n /\ n # category /\ published' = published
    BY <1>2 DEF SaveCategory, PageEdit
  <2>2. PagesMove
    BY <1>0, <2>1 DEF SitemapRows, PagesMove
  <2> QED BY <2>1, <2>2, EditKeeps
<1>3. ASSUME NEW d \in Domains, SaveDomain(d) PROVE SitemapInv'
  <2>1. Still /\ UNCHANGED <<stored, pointer, builder, torn, generation>>
    BY <1>3 DEF SaveDomain, Still
  <2> QED BY <2>1, DomainSaved
<1>4. CASE UNCHANGED sitemapVars
  <2>1. Still /\ UNCHANGED <<stored, pointer, builder, torn, generation>>
    BY <1>4 DEF sitemapVars, Still
  <2> QED BY <2>1, DomainSaved
<1>5. CASE PlanRebuild \/ RenderListings \/ RenderCategories \/ SaveFiles \/ DeletePointer \/ SavePointer
  BY <1>5, RebuildPlanned, ListingsRendered, CategoriesRendered, FilesSaved, PointerDeleted, PointerSaved
<1>6. CASE DropOld \/ PlanClear \/ ClearPointer \/ BuilderDies
  BY <1>6, JobEnds, ClearPlanned
<1> QED BY <1>1, <1>2, <1>3, <1>4, <1>5, <1>6 DEF SitemapNext

LEMMA SitemapStart ==
    ASSUME SitemapInit
    PROVE  SitemapInv
<1>1. /\ stored = <<>> /\ pointer = NoPointer /\ builder = IdleBuilder /\ torn = FALSE
      /\ generation = 0 /\ pageEdits = 0 /\ category \in PathNames
  BY DEF SitemapInit
<1>2. published \in [Pages -> 0..pageEdits]
  <2>1. published = [l \in Pages |-> 0] /\ 0 \in 0..pageEdits
    BY <1>1 DEF SitemapInit
  <2> QED BY <2>1
<1>3. DOMAIN stored = {}
  BY <1>1
<1>4. SitemapRows
  <2>1. pageEdits \in Nat /\ generation \in Nat /\ torn \in BOOLEAN /\ pointer.gen \in 0..generation
    <3>1. pointer.gen = 0
      BY <1>1, NoPointerRow, Zenon
    <3>2. torn \in BOOLEAN
      BY <1>1, Zenon
    <3> QED BY <1>1, <3>1, <3>2
  <2>2. DOMAIN stored \subseteq 1..generation /\ \A g \in DOMAIN stored : FilesRow(stored[g])
    BY <1>3
  <2>3. PointerRow(pointer) /\ pointer.drift \in Drifts
    BY <1>1, NoPointerRow
  <2>4. BuilderRow(builder) /\ FilesRow(builder.files) /\ builder.drift \in Drifts
    BY <1>1, IdleRow
  <2> QED BY <1>1, <1>2, <2>1, <2>2, <2>3, <2>4 DEF SitemapRows
<1>5. GenerationInv /\ RenderInv
  BY <1>1, IdleRow DEF GenerationInv, RenderInv, Rendering
<1>6. PointerInv
  BY <1>1, NoPointerRow DEF PointerInv
<1> QED BY <1>4, <1>5, <1>6 DEF SitemapInv

\* What the views serve: the pointer's own generation is whole, and shows the inputs the
\* pointer's fingerprint is of.
LEMMA ServedFresh ==
    ASSUME SitemapAssumption, SitemapInv
    PROVE  SitemapFresh
<1> SUFFICES ASSUME Loaded, ~torn, builder.at # "clear"
             PROVE  /\ pointer.gen \in DOMAIN stored /\ stored[pointer.gen].index
                    /\ pointer.fingerprint = Digest(base) /\ pointer.drift # "returned"
                          => stored[pointer.gen] = Rendered
  BY DEF SitemapFresh
<1>0. SitemapRows /\ PointerInv /\ pointer # NoPointer /\ pointer.base = base
  BY DEF SitemapInv, Loaded
<1>1. /\ pointer.gen \in DOMAIN stored /\ stored[pointer.gen].index = TRUE
      /\ pointer.drift = "none" => Snap(pointer.fingerprint, pointer.base, stored[pointer.gen])
  BY <1>0 DEF PointerInv
<1>2. ASSUME pointer.fingerprint = Digest(base), pointer.drift # "returned"
      PROVE  stored[pointer.gen] = Rendered
  <2>1. pointer.drift = "none"
    BY <1>0, <1>2 DEF PointerInv, SitemapRows, Drifts, Digest
  <2>2. PICK f, p, c, n : f = stored[pointer.gen] /\ p = published /\ c = category /\ n = pageEdits
    OBVIOUS
  <2>3. PICK p0 \in [Pages -> 0..pageEdits], c0 \in PathNames :
          /\ pointer.fingerprint = Fingerprint(p0, c0, pointer.base) /\ Later(p0, published)
          /\ f.listings = Entries(p0, c0) /\ f.categories = Indexable(p0, c0)
    BY <1>1, <2>1, <2>2, Zenon DEF Snap
  <2>4. SameDigest(p0, c0, p, c, base)
    BY <1>0, <1>2, <2>2, <2>3 DEF SameDigest, Digest
  <2>5. n \in Nat /\ p0 \in [Pages -> 0..n] /\ p \in [Pages -> 0..n] /\ Later(p0, p)
    BY <1>0, <2>2, <2>3 DEF SitemapRows
  <2>6. p = p0 /\ c = c0
    BY <2>4, <2>5, FingerprintInjective, Zenon
  <2>7. f.listings = ListingEntries /\ f.categories = CategoryEntries
    BY <2>2, <2>3, <2>6, Zenon DEF Entries, Indexable, ListingEntries, CategoryEntries
  <2>8. f = [listings |-> f.listings, categories |-> f.categories, index |-> f.index] /\ f.index = TRUE
    BY <1>0, <1>1, <2>2 DEF SitemapRows, FilesRow
  <2> QED BY <2>2, <2>7, <2>8 DEF Rendered
<1> QED BY <1>1, <1>2

\* The invariant of the sitemap job, through edits of the inputs between any two of its
\* steps and deaths of the worker between any two file operations.
THEOREM SitemapInvariance == SitemapSpec => []SitemapInv
<1>1. SitemapInit => SitemapInv
  BY SitemapStart
<1>2. SitemapInv /\ [SitemapNext]_sitemapVars => SitemapInv'
  BY SitemapAssumption, SitemapStep
<1> QED BY <1>1, <1>2, PTL DEF SitemapSpec

\* sitemaps.load and the views: a loaded sitemap is a whole generation, and one whose
\* fingerprint is the inputs' own shows those inputs (sitemaps.fingerprint, refresh).
THEOREM SitemapCorrect == SitemapSpec => []SitemapFresh
<1>1. SitemapInv => SitemapFresh
  BY SitemapAssumption, ServedFresh
<1> QED BY <1>1, SitemapInvariance, PTL

-----------------------------------------------------------------------------
(* The search index.                                                        *)

Dims(l) == member[l] \cup {TypeScope}
Keys(r) == {n[1] : n \in r.names}

\* A text: the fields, one version of each category's name, one of the schema, none from
\* the future.
SingleNames(r) == \A n, k \in r.names : n[1] = k[1] => n = k
KnownNames(r) == \A n \in r.names : \E c \in SearchCategories : \E v \in 0..catName[c] : n = <<c, v>>
Text(r) ==
    /\ r = [body |-> r.body, names |-> r.names, schema |-> r.schema]
    /\ r.body \in Nat /\ r.schema \in 0..schema /\ SingleNames(r) /\ KnownNames(r)

\* The text is of the row as it is, but for names and schema.
Current(r, l) == r.body = body[l] /\ Keys(r) = member[l]
Lag(r, x) == IF x = TypeScope THEN r.schema # schema ELSE <<x, catName[x]>> \notin r.names

\* A marker behind m will bring l up to date on x.
Queued(m, x, l) == \E n \in Pending : n > m /\ markers[n].scope = x /\ markers[n].cursor < l

\* Were the text stored, nothing would be forgotten: what it lacks is queued behind m, or
\* it is seen to be older than what is stored.
Owed(r, l, x, m) == Lag(r, x) => Older(r, vector[l]) \/ Queued(m, x, l)

Tracked(l) == Exists(l) /\ l \notin indexRaced
Reading(d, l) == l \in DOMAIN drain[d].read /\ Current(drain[d].read[l], l)

\* When the drain of the marker ends it goes past l without writing it any more.
Passing(d, m, l) ==
    /\ drain[d].marker = m /\ l \notin DOMAIN drain[d].read
    /\ Cardinality(drain[d].ids) < REINDEX_CHUNK \/ \E k \in drain[d].ids : l <= k
Passed(m, l) == l <= markers[m].cursor \/ \E d \in Drainers : Passing(d, m, l)

Markers == [scope : SearchCategories \cup {TypeScope}, cursor : Nat, done : BOOLEAN]
DrainRow(r) ==
    /\ r = [marker |-> r.marker, ids |-> r.ids, read |-> r.read]
    /\ r.marker \in 0..Len(markers) /\ r.ids \subseteq Indexed /\ DOMAIN r.read \subseteq r.ids
    /\ r.marker = 0 => r = NoDrain

SearchRows ==
    /\ indexEdits \in Nat /\ schema \in 0..indexEdits
    /\ catName \in [SearchCategories -> 0..indexEdits]
    /\ body \in [Indexed -> 0..indexEdits] /\ member \in [Indexed -> SUBSET SearchCategories]
    /\ vector = [l \in Indexed |-> vector[l]] /\ \A l \in Indexed : Text(vector[l])
    /\ upsert = [l \in Indexed |-> upsert[l]] /\ indexRaced \subseteq Indexed
    /\ markers \in Seq(Markers)
    /\ drain = [d \in Drainers |-> drain[d]] /\ \A d \in Drainers : DrainRow(drain[d])

\* What an open upsert or a drain holds: an upsert's fields are newer than any that were read.
UpsertInv ==
    \A l \in Indexed : upsert[l] # NoUpsert =>
        /\ Text(upsert[l].vector) /\ upsert[l].member \subseteq SearchCategories
        /\ upsert[l].body \in 0..indexEdits /\ body[l] < upsert[l].body
        /\ upsert[l].vector.body = upsert[l].body /\ Keys(upsert[l].vector) = upsert[l].member
ReadInv ==
    \A d \in Drainers : \A l \in DOMAIN drain[d].read :
        Text(drain[d].read[l]) /\ drain[d].read[l].body <= body[l]

\* The markers are worked off one at a time, oldest first.
MarkerOrder ==
    /\ \A d \in Drainers : \A m \in DOMAIN markers : m < drain[d].marker => markers[m].done
    /\ \A m, n \in DOMAIN markers : m < n /\ ~markers[m].done => markers[n].cursor = 0 /\ ~markers[n].done

\* What is owed to a listing: on its vector, on the texts that drains hold, and on what the
\* marker at work has passed, where only the markers behind it count.
VectorOwed(l) == Current(vector[l], l) /\ \A x \in Dims(l) : Owed(vector[l], l, x, 0)
ReadOwed(l) ==
    \A d \in Drainers : Reading(d, l) =>
        \A x \in Dims(l) : Owed(drain[d].read[l], l, x, drain[d].marker)
Settled(l, x, m) ==
    /\ Owed(vector[l], l, x, m)
    /\ \A d \in Drainers : Reading(d, l) => Owed(drain[d].read[l], l, x, m)
PassedOwed(l) ==
    \A m \in Pending : Passed(m, l) /\ markers[m].scope \in Dims(l) => Settled(l, markers[m].scope, m)
Debts(l) == Tracked(l) => VectorOwed(l) /\ ReadOwed(l) /\ PassedOwed(l)
DebtInv == \A l \in Indexed : Debts(l)

SearchInv == SearchRows /\ UpsertInv /\ ReadInv /\ MarkerOrder /\ DebtInv

LEMMA NotOlder ==
    ASSUME NEW v, Text(v)
    PROVE  ~Older(v, v)
<1>1. v.schema \in Int /\ SingleNames(v)
  BY DEF Text
<1>2. \A n \in v.names : n[2] \in Int
  BY DEF Text, KnownNames
<1>3. ~(v.schema < v.schema)
  BY <1>1
<1>4. \A n, k \in v.names : n[1] = k[1] => ~(n[2] < k[2])
  BY <1>1, <1>2 DEF SingleNames
<1> QED BY <1>3, <1>4 DEF Older

\* A text that lacks what another of the same categories has is the older one.
LEMMA Overtaken ==
    ASSUME SearchAssumption, SearchRows, NEW r, NEW v, NEW x, Text(r), Text(v), Keys(r) = Keys(v),
           x \in Keys(r) \cup {TypeScope}, Lag(r, x), ~Lag(v, x)
    PROVE  Older(r, v)
<1>1. CASE x = TypeScope
  BY <1>1 DEF Lag, Older, Text, SearchRows
<1>2. CASE x # TypeScope
  <2>1. PICK n \in r.names : n[1] = x
    BY <1>2 DEF Keys
  <2>2. PICK c \in SearchCategories : \E u \in 0..catName[c] : n = <<c, u>>
    BY <2>1 DEF Text, KnownNames
  <2>3. PICK u \in 0..catName[c] : n = <<c, u>>
    BY <2>2
  <2>4. c = x /\ n[2] = u /\ catName[c] \in Nat
    BY <2>1, <2>3 DEF SearchRows
  <2>5. <<x, catName[x]>> \notin r.names /\ <<x, catName[x]>> \in v.names
    BY <1>2 DEF Lag
  <2>6. u # catName[c]
    BY <2>1, <2>3, <2>4, <2>5
  <2>7. u < catName[c]
    BY <2>3, <2>4, <2>6
  <2>8. PICK k \in v.names : k = <<x, catName[x]>>
    BY <2>5
  <2>9. n[1] = k[1] /\ n[2] < k[2]
    BY <2>1, <2>4, <2>7, <2>8
  <2> QED BY <2>1, <2>8, <2>9 DEF Older
<1> QED BY <1>1, <1>2

\* What is older than v is older than a text of v's categories that is not.
LEMMA OlderChain ==
    ASSUME SearchRows, NEW q, NEW r, NEW v, Text(q), Text(r), Text(v), Keys(r) = Keys(v), Older(q, v), ~Older(r, v)
    PROVE  Older(q, r)
<1>0. schema \in Nat /\ q.schema \in Int /\ r.schema \in Int /\ v.schema \in Int
  BY DEF Text, SearchRows
<1>1. CASE q.schema < v.schema
  BY <1>0, <1>1 DEF Older
<1>2. ASSUME NEW n \in q.names, NEW k \in v.names, n[1] = k[1], n[2] < k[2]
      PROVE  Older(q, r)
  <2>1. k[1] \in Keys(r)
    BY DEF Keys
  <2>2. PICK j \in r.names : j[1] = k[1]
    BY <2>1 DEF Keys
  <2>3. ~(j[2] < k[2])
    BY <2>2 DEF Older
  <2>4. j[2] \in Int
    BY DEF Text, KnownNames
  <2>5. k[2] \in Int
    BY DEF Text, KnownNames
  <2>6. n[2] \in Int
    BY DEF Text, KnownNames
  <2>7. n[2] < j[2] /\ n[1] = j[1]
    BY <1>2, <2>2, <2>3, <2>4, <2>5, <2>6
  <2> QED BY <2>2, <2>7 DEF Older
<1> QED BY <1>1, <1>2 DEF Older

\* A text computed now.
LEMMA TextNow ==
    ASSUME SearchAssumption, SearchRows, NEW b \in Nat, NEW S \in SUBSET SearchCategories
    PROVE  /\ Text(VectorOf(b, S)) /\ VectorOf(b, S).body = b /\ Keys(VectorOf(b, S)) = S
           /\ \A x \in S \cup {TypeScope} : ~Lag(VectorOf(b, S), x)
<1>1. PICK N : N = {<<c, catName[c]>> : c \in S}
  OBVIOUS
<1>2. PICK v : v = [body |-> b, names |-> N, schema |-> schema]
  OBVIOUS
<1>3. VectorOf(b, S) = v /\ v.names = N /\ v.body = b /\ v.schema = schema
  BY <1>1, <1>2 DEF VectorOf
<1>4. \A n \in N : \E c \in S : n = <<c, catName[c]>> /\ n[1] = c
  BY <1>1
<1>5. \A c \in S : <<c, catName[c]>> \in N
  BY <1>1
<1>6. Keys(v) = S
  <2>1. \A n \in N : n[1] \in S
    BY <1>4
  <2>2. \A c \in S : \E n \in N : n[1] = c
    <3> TAKE c \in S
    <3>1. <<c, catName[c]>>[1] = c
      OBVIOUS
    <3> QED BY <1>5, <3>1
  <2> QED BY <1>3, <2>1, <2>2 DEF Keys
<1>7. SingleNames(v)
  BY <1>3, <1>4 DEF SingleNames
<1>8. KnownNames(v)
  <2> SUFFICES ASSUME NEW n \in N PROVE \E c \in SearchCategories : \E u \in 0..catName[c] : n = <<c, u>>
    BY <1>3 DEF KnownNames
  <2>1. PICK c \in S : n = <<c, catName[c]>>
    BY <1>4
  <2>2. c \in SearchCategories /\ catName[c] \in 0..catName[c]
    BY DEF SearchRows
  <2> QED BY <2>1, <2>2
<1>9. Text(v)
  <2>1. schema \in 0..schema
    BY DEF SearchRows
  <2> QED BY <1>2, <1>3, <1>7, <1>8, <2>1 DEF Text
<1>10. \A x \in S \cup {TypeScope} : ~Lag(v, x)
  BY <1>3, <1>5 DEF Lag
<1> QED BY <1>3, <1>6, <1>9, <1>10

\* A text of the row as it is that lags on nothing is what would be computed now.
LEMMA UpToDate ==
    ASSUME SearchAssumption, SearchRows, NEW l \in Indexed, NEW r, Text(r), Current(r, l),
           \A x \in Dims(l) : ~Lag(r, x)
    PROVE  r = Fresh(l)
<1>1. r.schema = schema
  BY DEF Lag, Dims
<1>2. \A c \in member[l] : <<c, catName[c]>> \in r.names
  BY DEF Lag, Dims, SearchAssumption, SearchRows, TypeScope
<1>3. \A n \in r.names : \E c \in member[l] : n = <<c, catName[c]>>
  <2> TAKE n \in r.names
  <2>1. n[1] \in member[l]
    BY DEF Current, Keys
  <2>2. PICK k \in r.names : k = <<n[1], catName[n[1]]>>
    BY <1>2, <2>1
  <2>3. k[1] = n[1]
    BY <2>2
  <2>4. n = k
    BY <2>2, <2>3 DEF Text, SingleNames
  <2> QED BY <2>1, <2>2, <2>4
<1>4. r.names = {<<c, catName[c]>> : c \in member[l]}
  BY <1>2, <1>3
<1> QED BY <1>1, <1>4 DEF Fresh, VectorOf, Text, Current

LEMMA LeastExists ==
    ASSUME NEW S, S \subseteq Nat, S # {}
    PROVE  \E x \in S : \A y \in S : x <= y
<1> DEFINE R == OpToRel(<, Nat)
<1>1. IsWellFoundedOn(R, Nat)
  BY NatLessThanWellFounded, Zenon
<1>2. \A x, y \in Nat : y < x => <<y, x>> \in R
  BY Zenon DEF OpToRel
<1> HIDE DEF R
<1>3. \E x \in S : \A y \in S : ~(<<y, x>> \in R)
  BY <1>1, WFMin, Zenon
<1>4. PICK x \in S : \A y \in S : ~(<<y, x>> \in R)
  BY <1>3
<1>5. \A y \in S : x <= y
  <2> TAKE y \in S
  <2>1. x \in Nat /\ y \in Nat
    OBVIOUS
  <2>2. ~(y < x)
    BY <1>2, <1>4, <2>1, Zenon
  <2> QED BY <2>1, <2>2
<1> QED BY <1>5

LEMMA GreatestExists ==
    ASSUME NEW S, S \subseteq Nat, IsFiniteSet(S), S # {}
    PROVE  \E x \in S : \A y \in S : y <= x
<1> DEFINE Above(x) == {y \in S : y > x}
           F == {Above(x) : x \in S}
           R == StrictSubsetOrdering(S)
<1>1. IsWellFoundedOn(R, FiniteSubsetsOf(S))
  BY FS_StrictSubsetOrderingWellFounded, Zenon
<1>2. F \subseteq FiniteSubsetsOf(S)
  <2>1. \A x \in S : Above(x) \in SUBSET S
    OBVIOUS
  <2>2. \A T \in SUBSET S : IsFiniteSet(T)
    BY FS_Subset
  <2> QED BY <2>1, <2>2 DEF FiniteSubsetsOf
<1>3. F # {}
  OBVIOUS
<1>4. \A T, U \in F : T \subseteq U /\ T # U => <<T, U>> \in R
  BY DEF StrictSubsetOrdering
<1>5. PICK T \in F : \A U \in F : ~(<<U, T>> \in R)
  <2> HIDE DEF F, R
  <2>1. \E T \in F : \A U \in F : ~(<<U, T>> \in R)
    BY <1>1, <1>2, <1>3, WFMin, Zenon
  <2> QED BY <2>1
<1>6. PICK x \in S : T = Above(x)
  OBVIOUS
<1>7. Above(x) = {}
  <2> SUFFICES ASSUME NEW y \in Above(x) PROVE FALSE
    OBVIOUS
  <2>1. y \in S /\ y > x /\ Above(y) \in F
    OBVIOUS
  <2>2. Above(y) \subseteq Above(x) /\ y \notin Above(y)
    <3>1. x \in Nat /\ y \in Nat /\ \A z \in S : z \in Nat
      BY <2>1
    <3>2. \A z \in S : z > y => z > x
      BY <2>1, <3>1
    <3>3. ~(y > y)
      BY <3>1
    <3> QED BY <3>2, <3>3
  <2>3. Above(y) # Above(x)
    BY <2>2
  <2> QED BY <1>4, <1>5, <1>6, <2>1, <2>2, <2>3
<1>8. \A y \in S : y <= x
  BY <1>7
<1> QED BY <1>8

LEMMA OldestPending ==
    ASSUME SearchRows, Pending # {}
    PROVE  Oldest \in Pending /\ \A n \in Pending : Oldest <= n
<1>1. Pending \subseteq Nat
  BY DEF Pending, SearchRows
<1>2. \E x \in Pending : \A y \in Pending : x <= y
  BY <1>1, LeastExists
<1> QED BY <1>2 DEF Oldest

\* A chunk takes the first listings: one that is left out comes after all of a full chunk.
LEMMA ChunkFirst ==
    ASSUME SearchAssumption, NEW m, NEW l \in Covered(m), l > markers[m].cursor, l \notin Chunk(m)
    PROVE  ~(Cardinality(Chunk(m)) < REINDEX_CHUNK) /\ \A k \in Chunk(m) : ~(l <= k)
<1> DEFINE rest == {j \in Covered(m) : j > markers[m].cursor}
           Before(j) == {k \in rest : k < j}
<1>1. Chunk(m) = {j \in rest : Cardinality(Before(j)) < REINDEX_CHUNK}
  BY DEF Chunk
<1>2. rest \subseteq Indexed /\ rest \subseteq Nat /\ l \in rest
  BY DEF Covered, SearchAssumption
<1>3. REINDEX_CHUNK \in Nat
  BY DEF SearchAssumption
<1> HIDE DEF rest
<1>4. IsFiniteSet(rest)
  BY <1>2, FS_Subset DEF SearchAssumption
<1>5. \A j \in rest : IsFiniteSet(Before(j)) /\ Cardinality(Before(j)) \in Nat
  <2> TAKE j \in rest
  <2>1. Before(j) \in SUBSET rest
    OBVIOUS
  <2>2. IsFiniteSet(Before(j))
    BY <1>4, <2>1, FS_Subset
  <2> HIDE DEF Before
  <2> QED BY <2>2, FS_CardinalityType
<1>6. PICK j \in rest \ Chunk(m) : \A k \in rest \ Chunk(m) : j <= k
  <2>1. rest \ Chunk(m) \subseteq Nat /\ rest \ Chunk(m) # {}
    BY <1>2
  <2> QED BY <2>1, LeastExists
<1>7. Before(j) \subseteq Chunk(m)
  <2> SUFFICES ASSUME NEW k \in rest, k < j, k \notin Chunk(m) PROVE FALSE
    OBVIOUS
  <2>1. j <= k /\ j \in Nat /\ k \in Nat
    BY <1>2, <1>6
  <2> QED BY <2>1
<1>8. ~(Cardinality(Before(j)) < REINDEX_CHUNK)
  BY <1>1, <1>6
<1>9. ~(Cardinality(Chunk(m)) < REINDEX_CHUNK)
  <2>1. Chunk(m) \in SUBSET rest
    BY <1>1
  <2>2. IsFiniteSet(Chunk(m))
    BY <1>4, <2>1, FS_Subset
  <2>3. Cardinality(Before(j)) <= Cardinality(Chunk(m))
    BY <1>7, <2>2, FS_Subset
  <2>4. Cardinality(Chunk(m)) \in Nat
    BY <2>2, FS_CardinalityType
  <2>5. PICK a, b : a = Cardinality(Before(j)) /\ b = Cardinality(Chunk(m))
    OBVIOUS
  <2>6. a \in Nat /\ b \in Nat /\ a <= b /\ ~(a < REINDEX_CHUNK)
    BY <1>5, <1>6, <1>8, <2>3, <2>4, <2>5
  <2> QED BY <1>3, <2>5, <2>6
<1>10. ASSUME NEW k \in Chunk(m), l <= k PROVE FALSE
  <2>1. k \in rest /\ k \in Nat /\ l \in Nat /\ Cardinality(Before(k)) < REINDEX_CHUNK
    BY <1>1, <1>2
  <2>2. Before(l) \subseteq Before(k)
    <3>1. \A i \in rest : i \in Nat
      BY <1>2
    <3>2. \A i \in rest : i < l => i < k
      BY <1>10, <2>1, <3>1
    <3> QED BY <3>2
  <2>3. Cardinality(Before(l)) <= Cardinality(Before(k))
    <3>1. IsFiniteSet(Before(k)) /\ Before(l) \in SUBSET Before(k)
      BY <1>5, <2>1, <2>2
    <3> HIDE DEF Before
    <3> QED BY <3>1, FS_Subset
  <2>4. PICK a, b : a = Cardinality(Before(l)) /\ b = Cardinality(Before(k))
    OBVIOUS
  <2>5. a \in Nat /\ b \in Nat /\ a <= b /\ b < REINDEX_CHUNK
    BY <1>2, <1>5, <2>1, <2>3, <2>4
  <2>6. Cardinality(Before(l)) < REINDEX_CHUNK
    BY <1>3, <2>4, <2>5
  <2> QED BY <1>1, <1>2, <2>6
<1> QED BY <1>9, <1>10

LEMMA TextSame ==
    ASSUME UNCHANGED <<catName, schema>>, NEW r
    PROVE  Text(r)' <=> Text(r)
BY DEF Text, SingleNames, KnownNames

\* A step that leaves alone all that the debts to the listing l are about.
RowSame(l) ==
    /\ UNCHANGED <<catName, schema, markers>>
    /\ body'[l] = body[l] /\ member'[l] = member[l] /\ vector'[l] = vector[l]
    /\ l \in indexRaced' <=> l \in indexRaced

LEMMA TermsStand ==
    ASSUME NEW l \in Indexed, RowSame(l)
    PROVE  /\ Pending' = Pending /\ Dims(l)' = Dims(l) /\ (Tracked(l)' <=> Tracked(l))
           /\ \A r : Current(r, l)' <=> Current(r, l)
           /\ \A r, x, m : Owed(r, l, x, m)' <=> Owed(r, l, x, m)
<1>1. Pending' = Pending /\ Dims(l)' = Dims(l) /\ (Tracked(l)' <=> Tracked(l))
  BY DEF RowSame, Pending, Dims, Tracked, Exists
<1>2. \A r : Current(r, l)' <=> Current(r, l)
  BY DEF RowSame, Current
<1>3. \A r, x : Lag(r, x)' <=> Lag(r, x)
  BY Zenon DEF RowSame, Lag
<1>4. \A x, m : Queued(m, x, l)' <=> Queued(m, x, l)
  BY <1>1 DEF RowSame, Queued
<1>5. \A r, x, m : Owed(r, l, x, m)' <=> Owed(r, l, x, m)
  BY <1>3, <1>4, Zenon DEF RowSame, Owed
<1> QED BY <1>1, <1>2, <1>5

LEMMA RowStands ==
    ASSUME NEW l \in Indexed, RowSame(l), drain' = drain, Debts(l)
    PROVE  Debts(l)'
<1>1. \A d : Reading(d, l)' <=> Reading(d, l)
  BY TermsStand DEF Reading, Current
<1>2. \A m : Passed(m, l)' <=> Passed(m, l)
  BY DEF Passed, Passing, RowSame
<1>3. vector'[l] = vector[l] /\ markers' = markers
  BY DEF RowSame
<1>4. VectorOwed(l) => VectorOwed(l)'
  BY <1>3, TermsStand DEF VectorOwed
<1>5. ReadOwed(l) => ReadOwed(l)'
  BY <1>1, TermsStand DEF ReadOwed
<1>6. \A x, m : Settled(l, x, m) => Settled(l, x, m)'
  BY <1>1, <1>3, TermsStand DEF Settled
<1>7. PassedOwed(l) => PassedOwed(l)'
  BY <1>2, <1>3, <1>6, TermsStand DEF PassedOwed
<1> QED BY <1>4, <1>5, <1>7, TermsStand DEF Debts

LEMMA ReadsStand ==
    ASSUME UNCHANGED <<body, catName, schema, drain>>, ReadInv
    PROVE  ReadInv'
<1>1. \A r : Text(r) => Text(r)'
  BY TextSame
<1> QED BY <1>1 DEF ReadInv

LEMMA UpsertBegun ==
    ASSUME SearchAssumption, SearchInv, NEW l \in Indexed, NEW S \in SUBSET SearchCategories, BeginUpsert(l, S)
    PROVE  SearchInv'
<1>0. /\ SearchRows /\ UpsertInv /\ ReadInv /\ MarkerOrder /\ DebtInv
      /\ UNCHANGED <<body, member, catName, schema, vector, markers, drain, indexRaced>>
      /\ indexEdits' = indexEdits + 1 /\ indexEdits \in Nat
  BY DEF SearchInv, BeginUpsert, IndexEdit, SearchRows
<1>1. MarkerOrder' /\ DebtInv' /\ ReadInv'
  <2>1. MarkerOrder'
    BY <1>0 DEF MarkerOrder
  <2>2. DebtInv'
    <3> SUFFICES ASSUME NEW k \in Indexed PROVE Debts(k)'
      BY DEF DebtInv
    <3>1. RowSame(k) /\ Debts(k)
      BY <1>0 DEF RowSame, DebtInv
    <3> QED BY <1>0, <3>1, RowStands
  <2> QED BY <1>0, <2>1, <2>2, ReadsStand
<1>2. PICK v, b : b = indexEdits' /\ v = VectorOf(b, S)
  OBVIOUS
<1>3. PICK u : u = [body |-> b, member |-> S, vector |-> v]
  OBVIOUS
<1>4. u.body = b /\ u.member = S /\ u.vector = v
  BY <1>3
<1>5. upsert' = [upsert EXCEPT ![l] = u]
  BY <1>2, <1>3 DEF BeginUpsert
<1>6. upsert' = [k \in Indexed |-> IF k = l THEN u ELSE upsert[k]]
  BY <1>0, <1>5 DEF SearchRows
<1>7. b \in Nat /\ b = indexEdits + 1
  BY <1>0, <1>2
<1>8. Text(v) /\ v.body = b /\ Keys(v) = S
  BY <1>0, <1>2, <1>7, TextNow
<1>9. Text(v)' /\ \A r : Text(r) => Text(r)'
  BY <1>0, <1>8, TextSame
<1>10. SearchRows'
  <2>1. 0..indexEdits \subseteq 0..indexEdits'
    BY <1>0
  <2>2. /\ indexEdits' \in Nat /\ schema' \in 0..indexEdits' /\ catName' \in [SearchCategories -> 0..indexEdits']
        /\ body' \in [Indexed -> 0..indexEdits'] /\ member' \in [Indexed -> SUBSET SearchCategories]
    BY <1>0, <2>1 DEF SearchRows
  <2>3. vector' = [k \in Indexed |-> vector'[k]] /\ \A k \in Indexed : Text(vector[k])'
    BY <1>0, <1>9 DEF SearchRows
  <2>4. upsert' = [k \in Indexed |-> upsert'[k]]
    BY <1>6
  <2>5. drain' = [d \in Drainers |-> drain'[d]] /\ \A d \in Drainers : DrainRow(drain[d])'
    BY <1>0 DEF SearchRows, DrainRow
  <2> QED BY <1>0, <2>2, <2>3, <2>4, <2>5 DEF SearchRows
<1>11. UpsertInv'
  <2> SUFFICES ASSUME NEW k \in Indexed, upsert'[k] # NoUpsert
               PROVE  /\ Text(upsert[k].vector)' /\ upsert'[k].member \subseteq SearchCategories
                      /\ upsert'[k].body \in 0..indexEdits' /\ body'[k] < upsert'[k].body
                      /\ upsert'[k].vector.body = upsert'[k].body /\ Keys(upsert'[k].vector) = upsert'[k].member
    BY DEF UpsertInv, Keys
  <2>1. CASE k = l
    <3>1. upsert'[k] = u /\ body'[k] < b
      BY <1>0, <1>6, <1>7, <2>1 DEF SearchRows
    <3> QED BY <1>0, <1>4, <1>7, <1>8, <1>9, <3>1
  <2>2. CASE k # l
    <3>1. upsert'[k] = upsert[k]
      BY <1>6, <2>2
    <3>2. PICK w : w = upsert[k]
      OBVIOUS
    <3>3. Text(w.vector) /\ w.member \subseteq SearchCategories /\ w.body \in 0..indexEdits /\ body[k] < w.body
          /\ w.vector.body = w.body /\ Keys(w.vector) = w.member
      BY <1>0, <3>1, <3>2 DEF UpsertInv
    <3>4. w.body \in 0..indexEdits'
      BY <1>0, <3>3
    <3> QED BY <1>0, <1>9, <3>1, <3>2, <3>3, <3>4
  <2> QED BY <2>1, <2>2
<1> QED BY <1>1, <1>10, <1>11 DEF SearchInv

\* The upsert of l ends; the other rows stay.
LEMMA UpsertsLeft ==
    ASSUME SearchRows, UpsertInv, NEW l \in Indexed, upsert' = [upsert EXCEPT ![l] = NoUpsert],
           UNCHANGED <<catName, schema, indexEdits>>, \A k \in Indexed : k # l => body'[k] = body[k]
    PROVE  UpsertInv' /\ upsert' = [k \in Indexed |-> upsert'[k]]
<1>1. upsert' = [k \in Indexed |-> IF k = l THEN NoUpsert ELSE upsert[k]]
  BY DEF SearchRows
<1>2. \A r : Text(r) => Text(r)'
  BY TextSame
<1>3. UpsertInv'
  <2> SUFFICES ASSUME NEW k \in Indexed, upsert'[k] # NoUpsert
               PROVE  /\ Text(upsert[k].vector)' /\ upsert'[k].member \subseteq SearchCategories
                      /\ upsert'[k].body \in 0..indexEdits' /\ body'[k] < upsert'[k].body
                      /\ upsert'[k].vector.body = upsert'[k].body /\ Keys(upsert'[k].vector) = upsert'[k].member
    BY DEF UpsertInv, Keys
  <2>1. k # l /\ upsert'[k] = upsert[k] /\ body'[k] = body[k]
    BY <1>1
  <2>2. PICK w : w = upsert[k]
    OBVIOUS
  <2>3. Text(w.vector) /\ w.member \subseteq SearchCategories /\ w.body \in 0..indexEdits /\ body[k] < w.body
        /\ w.vector.body = w.body /\ Keys(w.vector) = w.member
    BY <2>1, <2>2 DEF UpsertInv
  <2> QED BY <1>2, <2>1, <2>2, <2>3
<1> QED BY <1>1, <1>3

LEMMA UpsertEnded ==
    ASSUME SearchAssumption, SearchInv, NEW l \in Indexed, EndUpsert(l)
    PROVE  SearchInv'
<1>0. /\ SearchRows /\ UpsertInv /\ ReadInv /\ MarkerOrder /\ DebtInv
      /\ UNCHANGED <<catName, schema, markers, drain, indexEdits>>
      /\ upsert' = [upsert EXCEPT ![l] = NoUpsert] /\ upsert[l] # NoUpsert
  BY DEF SearchInv, EndUpsert
<1>1. MarkerOrder'
  BY <1>0 DEF MarkerOrder
<1>2. PICK b, S, v : b = upsert[l].body /\ S = upsert[l].member /\ v = upsert[l].vector
  OBVIOUS
<1>3. /\ Text(v) /\ S \subseteq SearchCategories /\ b \in 0..indexEdits /\ body[l] < b
      /\ v.body = b /\ Keys(v) = S
  BY <1>0, <1>2 DEF UpsertInv
<1>4. \A r : Text(r) => Text(r)'
  BY <1>0, TextSame
<1>5. drain' = [d \in Drainers |-> drain'[d]] /\ \A d \in Drainers : DrainRow(drain[d])'
  BY <1>0 DEF SearchRows, DrainRow
<1>6. CASE UNCHANGED <<body, member, vector, indexRaced>>
  <2>1. UpsertInv' /\ upsert' = [k \in Indexed |-> upsert'[k]]
    BY <1>0, <1>6, UpsertsLeft
  <2>2. DebtInv'
    <3> SUFFICES ASSUME NEW k \in Indexed PROVE Debts(k)'
      BY DEF DebtInv
    <3>1. RowSame(k) /\ Debts(k)
      BY <1>0, <1>6 DEF RowSame, DebtInv
    <3> QED BY <1>0, <3>1, RowStands
  <2>3. ReadInv'
    BY <1>0, <1>6, ReadsStand
  <2>4. SearchRows'
    BY <1>0, <1>4, <1>5, <1>6, <2>1 DEF SearchRows
  <2> QED BY <1>1, <2>1, <2>2, <2>3, <2>4 DEF SearchInv
<1>7. CASE /\ body' = [body EXCEPT ![l] = upsert[l].body]
           /\ member' = [member EXCEPT ![l] = upsert[l].member]
           /\ vector' = [vector EXCEPT ![l] = upsert[l].vector]
           /\ indexRaced' = StaleIndexed(l)
  <2>1. /\ body' = [k \in Indexed |-> IF k = l THEN b ELSE body[k]]
        /\ member' = [k \in Indexed |-> IF k = l THEN S ELSE member[k]]
        /\ vector' = [k \in Indexed |-> IF k = l THEN v ELSE vector[k]]
    BY <1>0, <1>2, <1>7 DEF SearchRows
  <2>2. UpsertInv' /\ upsert' = [k \in Indexed |-> upsert'[k]]
    BY <1>0, <2>1, UpsertsLeft
  <2>3. indexRaced' = (IF v = VectorOf(b, S) THEN indexRaced \ {l} ELSE indexRaced \cup {l})
    BY <1>2, <1>7 DEF StaleIndexed
  <2>4. SearchRows'
    <3>1. body' \in [Indexed -> 0..indexEdits'] /\ member' \in [Indexed -> SUBSET SearchCategories]
      BY <1>0, <1>3, <2>1 DEF SearchRows
    <3>2. vector' = [k \in Indexed |-> vector'[k]] /\ \A k \in Indexed : Text(vector[k])'
      <4>1. \A k \in Indexed : Text(vector'[k])
        BY <1>0, <1>3, <2>1 DEF SearchRows
      <4> QED BY <1>4, <2>1, <4>1
    <3>3. indexRaced' \subseteq Indexed
      BY <1>0, <2>3 DEF SearchRows
    <3> QED BY <1>0, <1>5, <2>2, <3>1, <3>2, <3>3 DEF SearchRows
  <2>5. ReadInv'
    <3> SUFFICES ASSUME NEW d \in Drainers, NEW k \in DOMAIN drain[d].read
                 PROVE  Text(drain[d].read[k])' /\ drain[d].read[k].body <= body'[k]
      BY <1>0 DEF ReadInv
    <3>1. Text(drain[d].read[k]) /\ drain[d].read[k].body <= body[k]
      BY <1>0 DEF ReadInv
    <3>2. k \in Indexed
      BY <1>0 DEF SearchRows, DrainRow
    <3>3. PICK r : r = drain[d].read[k]
      OBVIOUS
    <3>4. r.body \in Nat /\ body[k] \in Nat /\ b \in Nat /\ body[l] \in Nat /\ r.body <= body[k]
      BY <1>0, <1>3, <3>1, <3>2, <3>3 DEF Text, SearchRows
    <3>5. r.body <= body'[k]
      BY <1>3, <2>1, <3>2, <3>4
    <3>6. Text(r)'
      BY <1>4, <3>1, <3>3
    <3> QED BY <1>0, <3>3, <3>5, <3>6
  <2>6. DebtInv'
    <3> SUFFICES ASSUME NEW k \in Indexed PROVE Debts(k)'
      BY DEF DebtInv
    <3>1. CASE k # l
      <4>1. RowSame(k) /\ Debts(k)
        BY <1>0, <2>1, <2>3, <3>1 DEF RowSame, DebtInv
      <4> QED BY <1>0, <4>1, RowStands
    <3>2. CASE k = l
      <4> SUFFICES ASSUME Tracked(l)' PROVE VectorOwed(l)' /\ ReadOwed(l)' /\ PassedOwed(l)'
        BY <3>2 DEF Debts
      <4>1. v = VectorOf(b, S)
        BY <2>3 DEF Tracked
      <4>2. vector'[l] = v /\ Dims(l)' = S \cup {TypeScope} /\ member'[l] = S /\ body'[l] = b
        BY <2>1 DEF Dims
      <4>3. \A x \in S \cup {TypeScope} : ~Lag(v, x)'
        <5>1. \A x \in S \cup {TypeScope} : ~Lag(v, x)
          BY <1>0, <1>3, <4>1, TextNow
        <5> QED BY <1>0, <5>1 DEF Lag
      <4>4. \A x \in S \cup {TypeScope} : \A m : Owed(v, l, x, m)'
        BY <4>3 DEF Owed
      <4>5. Current(v, l)'
        BY <1>3, <4>2 DEF Current
      <4>6. \A d \in Drainers : ~Reading(d, l)'
        <5> SUFFICES ASSUME NEW d \in Drainers, l \in DOMAIN drain[d].read
                     PROVE  drain[d].read[l].body # b
          <6>1. \A d \in Drainers : Reading(d, l)' => l \in DOMAIN drain[d].read /\ drain[d].read[l].body = b
            BY <1>0, <4>2 DEF Reading, Current
          <6> QED BY <6>1
        <5>1. PICK r : r = drain[d].read[l]
          OBVIOUS
        <5>2. Text(r) /\ r.body <= body[l]
          BY <1>0, <5>1 DEF ReadInv
        <5>3. r.body \in Nat /\ body[l] \in Nat
          BY <1>0, <5>2 DEF Text, SearchRows
        <5> QED BY <1>3, <5>1, <5>2, <5>3
      <4>7. VectorOwed(l)'
        BY <4>2, <4>4, <4>5 DEF VectorOwed
      <4>8. ReadOwed(l)'
        BY <4>6 DEF ReadOwed
      <4>9. \A x \in S \cup {TypeScope} : \A m : Settled(l, x, m)'
        BY <4>2, <4>4, <4>6 DEF Settled
      <4>10. PassedOwed(l)'
        BY <4>2, <4>9 DEF PassedOwed
      <4> QED BY <4>7, <4>8, <4>10
    <3> QED BY <3>1, <3>2
  <2> QED BY <1>1, <2>2, <2>4, <2>5, <2>6 DEF SearchInv
<1> QED BY <1>6, <1>7 DEF EndUpsert

\* A name or the schema moves on, and a marker for it is put at the end.
Bump(x) ==
    /\ markers' = Append(markers, Marker(x)) /\ indexEdits' = indexEdits + 1
    /\ UNCHANGED <<body, member, vector, upsert, drain, indexRaced>>
    /\ schema' \in schema..indexEdits' /\ (x # TypeScope => schema' = schema)
    /\ catName' = [c \in SearchCategories |-> catName'[c]]
    /\ \A c \in SearchCategories : catName'[c] \in catName[c]..indexEdits' /\ (c # x => catName'[c] = catName[c])

LEMMA MarkerAppended ==
    ASSUME SearchRows, NEW x \in SearchCategories \cup {TypeScope}, markers' = Append(markers, Marker(x))
    PROVE  /\ Len(markers) \in Nat /\ DOMAIN markers = 1..Len(markers)
           /\ markers' \in Seq(Markers) /\ Len(markers') = Len(markers) + 1 /\ DOMAIN markers' = 1..(Len(markers) + 1)
           /\ \A m \in DOMAIN markers : markers'[m] = markers[m] /\ markers[m] \in Markers
           /\ markers'[Len(markers) + 1].scope = x /\ markers'[Len(markers) + 1].cursor = 0
           /\ markers'[Len(markers) + 1].done = FALSE
           /\ Pending' = Pending \cup {Len(markers) + 1}
<1>1. markers \in Seq(Markers)
  BY DEF SearchRows
<1>2. PICK k : k = Marker(x)
  OBVIOUS
<1>3. k \in Markers /\ k.scope = x /\ k.cursor = 0 /\ k.done = FALSE
  BY <1>2 DEF Marker, Markers
<1>4. /\ Len(markers) \in Nat /\ DOMAIN markers = 1..Len(markers)
      /\ markers' \in Seq(Markers) /\ Len(markers') = Len(markers) + 1 /\ DOMAIN markers' = 1..(Len(markers) + 1)
      /\ \A m \in DOMAIN markers : markers'[m] = markers[m] /\ markers[m] \in Markers
      /\ markers'[Len(markers) + 1] = k
  BY <1>1, <1>2, <1>3
<1>5. Pending' = Pending \cup {Len(markers) + 1}
  BY <1>3, <1>4 DEF Pending
<1> QED BY <1>3, <1>4, <1>5

LEMMA Bumped ==
    ASSUME SearchAssumption, SearchInv, NEW x \in SearchCategories \cup {TypeScope}, Bump(x)
    PROVE  SearchInv'
<1>0. /\ SearchRows /\ UpsertInv /\ ReadInv /\ MarkerOrder /\ DebtInv
      /\ UNCHANGED <<body, member, vector, upsert, drain, indexRaced>>
      /\ markers' = Append(markers, Marker(x)) /\ indexEdits' = indexEdits + 1
      /\ indexEdits \in Nat /\ schema \in 0..indexEdits /\ \A c \in SearchCategories : catName[c] \in 0..indexEdits
  BY DEF SearchInv, Bump, SearchRows
<1>1. PICK n : n = Len(markers)
  OBVIOUS
<1>2. /\ n \in Nat /\ DOMAIN markers = 1..n
      /\ markers' \in Seq(Markers) /\ Len(markers') = n + 1 /\ DOMAIN markers' = 1..(n + 1)
      /\ \A m \in DOMAIN markers : markers'[m] = markers[m] /\ markers[m] \in Markers
      /\ markers'[n + 1].scope = x /\ markers'[n + 1].cursor = 0 /\ markers'[n + 1].done = FALSE
      /\ Pending' = Pending \cup {n + 1}
  BY <1>0, <1>1, MarkerAppended
<1>3. schema' \in schema..indexEdits' /\ \A c \in SearchCategories : catName'[c] \in catName[c]..indexEdits'
  BY DEF Bump
<1>4. \A r : Text(r) => Text(r)'
  <2> SUFFICES ASSUME NEW r, Text(r) PROVE Text(r)'
    OBVIOUS
  <2>1. r.schema \in 0..schema'
    BY <1>0, <1>3 DEF Text
  <2>2. KnownNames(r)'
    <3> SUFFICES ASSUME NEW j \in r.names PROVE \E c \in SearchCategories : \E v \in 0..catName'[c] : j = <<c, v>>
      BY DEF KnownNames
    <3>1. PICK c \in SearchCategories : \E v \in 0..catName[c] : j = <<c, v>>
      BY DEF Text, KnownNames
    <3>2. 0..catName[c] \subseteq 0..catName'[c]
      BY <1>0, <1>3
    <3> QED BY <3>1, <3>2
  <2> QED BY <2>1, <2>2 DEF Text, SingleNames
<1>5. SearchRows'
  <2>1. /\ indexEdits' \in Nat /\ schema' \in 0..indexEdits'
        /\ body' \in [Indexed -> 0..indexEdits'] /\ member' \in [Indexed -> SUBSET SearchCategories]
    BY <1>0, <1>3 DEF SearchRows
  <2>2. catName' \in [SearchCategories -> 0..indexEdits']
    <3>1. catName' = [c \in SearchCategories |-> catName'[c]]
      BY DEF Bump
    <3>2. \A c \in SearchCategories : catName'[c] \in 0..indexEdits'
      BY <1>0, <1>3
    <3> QED BY <3>1, <3>2
  <2>3. vector' = [k \in Indexed |-> vector'[k]] /\ \A k \in Indexed : Text(vector[k])'
    BY <1>0, <1>4 DEF SearchRows
  <2>4. drain' = [d \in Drainers |-> drain'[d]] /\ \A d \in Drainers : DrainRow(drain[d])'
    BY <1>0, <1>1, <1>2 DEF SearchRows, DrainRow
  <2> QED BY <1>0, <1>2, <2>1, <2>2, <2>3, <2>4 DEF SearchRows
<1>6. UpsertInv'
  <2> SUFFICES ASSUME NEW k \in Indexed, upsert[k] # NoUpsert
               PROVE  /\ Text(upsert[k].vector)' /\ upsert[k].member \subseteq SearchCategories
                      /\ upsert[k].body \in 0..indexEdits' /\ body[k] < upsert[k].body
                      /\ upsert[k].vector.body = upsert[k].body /\ Keys(upsert[k].vector) = upsert[k].member
    BY <1>0 DEF UpsertInv, Keys
  <2>1. PICK w : w = upsert[k]
    OBVIOUS
  <2>2. Text(w.vector) /\ w.member \subseteq SearchCategories /\ w.body \in 0..indexEdits /\ body[k] < w.body
        /\ w.vector.body = w.body /\ Keys(w.vector) = w.member
    BY <1>0, <2>1 DEF UpsertInv
  <2>3. w.body \in 0..indexEdits'
    BY <1>0, <2>2
  <2> QED BY <1>0, <1>4, <2>1, <2>2, <2>3
<1>7. ReadInv'
  BY <1>0, <1>4 DEF ReadInv
<1>8. MarkerOrder'
  <2>1. \A d \in Drainers : drain[d].marker <= n
    BY <1>0, <1>1 DEF SearchRows, DrainRow
  <2>2. \A d \in Drainers : \A m \in DOMAIN markers' : m < drain'[d].marker => markers'[m].done
    BY <1>0, <1>2, <2>1 DEF MarkerOrder, SearchRows, DrainRow
  <2>3. ASSUME NEW m \in DOMAIN markers', NEW k \in DOMAIN markers', m < k, ~markers'[m].done
        PROVE  markers'[k].cursor = 0 /\ ~markers'[k].done
    <3>1. m \in DOMAIN markers
      BY <1>2, <2>3
    <3>2. CASE k = n + 1
      BY <1>2, <3>2
    <3>3. CASE k # n + 1
      BY <1>0, <1>2, <2>3, <3>1, <3>3 DEF MarkerOrder
    <3> QED BY <3>2, <3>3
  <2> QED BY <2>2, <2>3 DEF MarkerOrder
<1>9. DebtInv'
  <2> SUFFICES ASSUME NEW l \in Indexed, Tracked(l)' PROVE VectorOwed(l)' /\ ReadOwed(l)' /\ PassedOwed(l)'
    BY DEF DebtInv, Debts
  <2>0. Tracked(l) /\ Dims(l)' = Dims(l) /\ Debts(l)
    BY <1>0 DEF Tracked, Exists, Dims, DebtInv
  <2>1. VectorOwed(l) /\ ReadOwed(l) /\ PassedOwed(l)
    BY <2>0 DEF Debts
  <2>2. \A y, m : Queued(m, y, l) => Queued(m, y, l)'
    BY <1>2 DEF Queued, Pending
  <2>3. \A m \in 0..n : Queued(m, x, l)'
    BY <1>2 DEF Queued, SearchAssumption
  <2>4. \A r, y : y \in Dims(l) /\ y # x => (Lag(r, y)' <=> Lag(r, y))
    <3>1. \A c \in member[l] : c \in SearchCategories
      BY <1>0 DEF SearchRows
    <3> QED BY <3>1 DEF Lag, Dims, Bump
  <2>5. \A r, y : \A m \in 0..n : y \in Dims(l) /\ Owed(r, l, y, m) => Owed(r, l, y, m)'
    <3> SUFFICES ASSUME NEW r, NEW y, NEW m \in 0..n, y \in Dims(l), Owed(r, l, y, m) PROVE Owed(r, l, y, m)'
      OBVIOUS
    <3>1. CASE y = x
      BY <2>3, <3>1 DEF Owed
    <3>2. CASE y # x
      <4>1. Lag(r, y)' <=> Lag(r, y)
        BY <2>4, <3>2
      <4> QED BY <1>0, <2>2, <4>1 DEF Owed
    <3> QED BY <3>1, <3>2
  <2>6. \A d \in Drainers : (Reading(d, l)' <=> Reading(d, l)) /\ drain[d].marker \in 0..n
    BY <1>0, <1>1 DEF Reading, Current, SearchRows, DrainRow
  <2>7. VectorOwed(l)'
    <3>1. Current(vector[l], l)'
      BY <1>0, <2>1 DEF VectorOwed, Current
    <3>2. 0 \in 0..n
      BY <1>2
    <3> QED BY <1>0, <2>0, <2>1, <2>5, <3>1, <3>2 DEF VectorOwed
  <2>8. ReadOwed(l)'
    BY <1>0, <2>0, <2>1, <2>5, <2>6 DEF ReadOwed
  <2>9. PassedOwed(l)'
    <3> SUFFICES ASSUME NEW m \in Pending', Passed(m, l)', markers'[m].scope \in Dims(l)
                 PROVE  Settled(l, markers[m].scope, m)'
      BY <2>0 DEF PassedOwed
    <3>1. m # n + 1
      <4> SUFFICES ASSUME m = n + 1 PROVE FALSE
        OBVIOUS
      <4>1. ~(l <= markers'[m].cursor)
        <5>1. l \in Nat \ {0}
          BY DEF SearchAssumption
        <5>2. markers'[m].cursor = 0
          BY <1>2
        <5> QED BY <5>1, <5>2
      <4>2. \A d \in Drainers : drain'[d].marker # m
        BY <1>0, <1>2, <2>6
      <4> QED BY <4>1, <4>2 DEF Passed, Passing
    <3>2. m \in Pending /\ m \in DOMAIN markers /\ markers'[m] = markers[m] /\ m \in 0..n
      BY <1>2, <3>1 DEF Pending
    <3>3. Passed(m, l)
      BY <1>0, <3>2 DEF Passed, Passing
    <3>4. PICK y : y = markers[m].scope
      OBVIOUS
    <3>5. Settled(l, y, m) /\ y \in Dims(l)
      BY <2>1, <3>2, <3>3, <3>4 DEF PassedOwed
    <3>6. Settled(l, y, m)'
      BY <1>0, <2>5, <2>6, <3>2, <3>5 DEF Settled
    <3> QED BY <3>2, <3>4, <3>6
  <2> QED BY <2>7, <2>8, <2>9
<1> QED BY <1>5, <1>6, <1>7, <1>8, <1>9 DEF SearchInv

LEMMA CategoryRenamed ==
    ASSUME SearchAssumption, SearchInv, NEW c \in SearchCategories, RenameCategory(c)
    PROVE  SearchInv'
<1>0. SearchRows /\ indexEdits' = indexEdits + 1 /\ indexEdits \in Nat /\ schema' = schema
      /\ UNCHANGED <<body, member, vector, upsert, drain, indexRaced>> /\ markers' = Append(markers, Marker(c))
  BY DEF SearchInv, RenameCategory, IndexEdit, SearchRows
<1>1. catName' = [x \in SearchCategories |-> IF x = c THEN indexEdits' ELSE catName[x]]
  BY DEF SearchInv, SearchRows, RenameCategory
<1>2. schema' \in schema..indexEdits'
  BY <1>0 DEF SearchRows
<1>3. \A x \in SearchCategories : catName'[x] \in catName[x]..indexEdits' /\ (x # c => catName'[x] = catName[x])
  BY <1>0, <1>1 DEF SearchRows
<1>4. Bump(c)
  BY <1>0, <1>1, <1>2, <1>3 DEF Bump
<1> QED BY <1>4, Bumped

LEMMA SchemaChanged ==
    ASSUME SearchAssumption, SearchInv, ChangeSchema
    PROVE  SearchInv'
<1>0. SearchRows /\ indexEdits' = indexEdits + 1 /\ indexEdits \in Nat /\ schema' = indexEdits'
      /\ UNCHANGED <<body, member, vector, catName, upsert, drain, indexRaced>>
      /\ markers' = Append(markers, Marker(TypeScope))
  BY DEF SearchInv, ChangeSchema, IndexEdit, SearchRows
<1>1. schema' \in schema..indexEdits'
  BY <1>0 DEF SearchRows
<1>2. \A x \in SearchCategories : catName'[x] \in catName[x]..indexEdits' /\ catName'[x] = catName[x]
  BY <1>0 DEF SearchRows
<1>3. catName' = [x \in SearchCategories |-> catName'[x]]
  BY <1>0 DEF SearchRows
<1>4. Bump(TypeScope)
  BY <1>0, <1>1, <1>2, <1>3 DEF Bump
<1> QED BY <1>4, Bumped

LEMMA Removed ==
    ASSUME SearchAssumption, SearchInv, NEW c \in SearchCategories, RemoveCategory(c)
    PROVE  SearchInv'
<1>0. /\ SearchRows /\ UpsertInv /\ ReadInv /\ MarkerOrder /\ DebtInv
      /\ UNCHANGED <<body, catName, schema, vector, upsert, markers, drain>>
      /\ indexEdits' = indexEdits + 1 /\ indexEdits \in Nat
      /\ member' = [l \in Indexed |-> member[l] \ {c}]
      /\ indexRaced' = indexRaced \cup {l \in Indexed : c \in member[l]}
  BY DEF SearchInv, RemoveCategory, IndexEdit, SearchRows
<1>1. \A r : Text(r) => Text(r)'
  BY <1>0, TextSame
<1>2. SearchRows'
  <2>1. 0..indexEdits \subseteq 0..indexEdits'
    BY <1>0
  <2>2. /\ indexEdits' \in Nat /\ schema' \in 0..indexEdits' /\ catName' \in [SearchCategories -> 0..indexEdits']
        /\ body' \in [Indexed -> 0..indexEdits'] /\ member' \in [Indexed -> SUBSET SearchCategories]
    BY <1>0, <2>1 DEF SearchRows
  <2>3. vector' = [k \in Indexed |-> vector'[k]] /\ \A k \in Indexed : Text(vector[k])'
    BY <1>0, <1>1 DEF SearchRows
  <2>4. indexRaced' \subseteq Indexed
    BY <1>0 DEF SearchRows
  <2>5. drain' = [d \in Drainers |-> drain'[d]] /\ \A d \in Drainers : DrainRow(drain[d])'
    BY <1>0 DEF SearchRows, DrainRow
  <2> QED BY <1>0, <2>2, <2>3, <2>4, <2>5 DEF SearchRows
<1>3. UpsertInv'
  <2> SUFFICES ASSUME NEW k \in Indexed, upsert[k] # NoUpsert
               PROVE  /\ Text(upsert[k].vector)' /\ upsert[k].member \subseteq SearchCategories
                      /\ upsert[k].body \in 0..indexEdits' /\ body[k] < upsert[k].body
                      /\ upsert[k].vector.body = upsert[k].body /\ Keys(upsert[k].vector) = upsert[k].member
    BY <1>0 DEF UpsertInv, Keys
  <2>1. PICK w : w = upsert[k]
    OBVIOUS
  <2>2. Text(w.vector) /\ w.member \subseteq SearchCategories /\ w.body \in 0..indexEdits /\ body[k] < w.body
        /\ w.vector.body = w.body /\ Keys(w.vector) = w.member
    BY <1>0, <2>1 DEF UpsertInv
  <2>3. w.body \in 0..indexEdits'
    BY <1>0, <2>2
  <2> QED BY <1>0, <1>1, <2>1, <2>2, <2>3
<1>4. ReadInv' /\ MarkerOrder'
  BY <1>0, ReadsStand DEF MarkerOrder
<1>5. DebtInv'
  <2> SUFFICES ASSUME NEW l \in Indexed, Tracked(l)' PROVE Debts(l)'
    BY DEF DebtInv, Debts
  <2>1. c \notin member[l] /\ l \notin indexRaced /\ l \notin indexRaced'
    BY <1>0 DEF Tracked
  <2>2. RowSame(l) /\ Debts(l)
    BY <1>0, <2>1 DEF RowSame, DebtInv
  <2> QED BY <1>0, <2>2, RowStands
<1> QED BY <1>2, <1>3, <1>4, <1>5 DEF SearchInv

LEMMA UpsertsSame ==
    ASSUME UNCHANGED <<body, catName, schema, upsert, indexEdits>>, UpsertInv
    PROVE  UpsertInv'
<1>1. \A r : Text(r) => Text(r)'
  BY TextSame
<1> QED BY <1>1 DEF UpsertInv

LEMMA VectorsSame ==
    ASSUME UNCHANGED <<catName, schema, vector>>, SearchRows
    PROVE  vector' = [k \in Indexed |-> vector'[k]] /\ \A k \in Indexed : Text(vector[k])'
<1>1. \A r : Text(r) => Text(r)'
  BY TextSame
<1> QED BY <1>1 DEF SearchRows

\* The drain of d is over, and nothing else has changed.
LEMMA DrainClosed ==
    ASSUME SearchAssumption, SearchInv, NEW d \in Drainers, drain' = [drain EXCEPT ![d] = NoDrain],
           UNCHANGED <<body, member, catName, schema, vector, upsert, markers, indexRaced, indexEdits>>
    PROVE  SearchInv'
<1>0. SearchRows /\ UpsertInv /\ ReadInv /\ MarkerOrder /\ DebtInv
  BY DEF SearchInv
<1>1. drain' = [e \in Drainers |-> IF e = d THEN NoDrain ELSE drain[e]]
  BY <1>0 DEF SearchRows
<1>2. drain'[d] = NoDrain /\ \A e \in Drainers : e # d => drain'[e] = drain[e]
  BY <1>1
<1>3. NoDrain.marker = 0 /\ DOMAIN NoDrain.read = {} /\ DrainRow(NoDrain)'
  BY <1>0 DEF NoDrain, DrainRow, SearchRows
<1>4. SearchRows'
  <2>1. \A e \in Drainers : DrainRow(drain[e])'
    BY <1>0, <1>2, <1>3 DEF SearchRows, DrainRow
  <2>2. drain' = [e \in Drainers |-> drain'[e]]
    BY <1>1
  <2>3. vector' = [k \in Indexed |-> vector'[k]] /\ \A k \in Indexed : Text(vector[k])'
    BY <1>0, VectorsSame
  <2> QED BY <1>0, <2>1, <2>2, <2>3 DEF SearchRows
<1>5. UpsertInv'
  BY <1>0, UpsertsSame
<1>6. ReadInv'
  <2>1. \A r : Text(r) => Text(r)'
    BY TextSame
  <2>2. \A e \in Drainers : \A l \in DOMAIN drain'[e].read : e # d
    BY <1>2, <1>3
  <2> QED BY <1>0, <1>2, <2>1, <2>2 DEF ReadInv
<1>7. MarkerOrder'
  <2>1. \A m \in DOMAIN markers : ~(m < drain'[d].marker)
    BY <1>0, <1>2, <1>3 DEF SearchRows
  <2> QED BY <1>0, <1>2, <2>1 DEF MarkerOrder
<1>8. DebtInv'
  <2> SUFFICES ASSUME NEW l \in Indexed PROVE Debts(l)'
    BY DEF DebtInv
  <2>0. RowSame(l) /\ Debts(l)
    BY <1>0 DEF RowSame, DebtInv
  <2>1. \A e \in Drainers : Reading(e, l)' => Reading(e, l) /\ e # d
    BY <1>2, <1>3, <2>0, TermsStand DEF Reading, Current
  <2>2. \A m \in Pending : Passed(m, l)' => Passed(m, l)
    <3>1. \A m \in Pending : m # 0
      BY <1>0 DEF Pending, SearchRows
    <3>2. \A m \in Pending : \A e \in Drainers : Passing(e, m, l)' => Passing(e, m, l)
      BY <1>2, <1>3, <3>1 DEF Passing
    <3> QED BY <3>2 DEF Passed
  <2>3. VectorOwed(l) => VectorOwed(l)'
    BY <2>0, TermsStand DEF VectorOwed
  <2>4. ReadOwed(l) => ReadOwed(l)'
    BY <1>2, <2>0, <2>1, TermsStand DEF ReadOwed
  <2>5. \A x, m : Settled(l, x, m) => Settled(l, x, m)'
    BY <1>2, <2>0, <2>1, TermsStand DEF Settled
  <2>6. PassedOwed(l) => PassedOwed(l)'
    BY <2>0, <2>2, <2>5, TermsStand DEF PassedOwed
  <2> QED BY <2>0, <2>3, <2>4, <2>6, TermsStand DEF Debts
<1> QED BY <1>4, <1>5, <1>6, <1>7, <1>8 DEF SearchInv

LEMMA ChunkRead ==
    ASSUME SearchAssumption, SearchInv, NEW d \in Drainers, DrainRead(d)
    PROVE  SearchInv'
<1>0. /\ SearchRows /\ UpsertInv /\ ReadInv /\ MarkerOrder /\ DebtInv /\ Pending # {}
      /\ UNCHANGED <<body, member, catName, schema, vector, upsert, markers, indexRaced, indexEdits>>
  BY DEF SearchInv, DrainRead
<1>1. PICK m0, C : m0 = Oldest /\ C = Chunk(m0)
  OBVIOUS
<1>2. m0 \in Pending /\ \A m \in Pending : m0 <= m
  BY <1>0, <1>1, OldestPending
<1>3. C \subseteq Indexed /\ C \subseteq Covered(m0)
  BY <1>1 DEF Chunk, Covered
<1>4. PICK t : t = [l \in C |-> Fresh(l)]
  OBVIOUS
<1>5. PICK r : r = [marker |-> m0, ids |-> C, read |-> t]
  OBVIOUS
<1>6. r.marker = m0 /\ r.ids = C /\ r.read = t /\ DOMAIN r.read = C /\ \A l \in C : r.read[l] = Fresh(l)
  BY <1>4, <1>5
<1>7. drain' = [drain EXCEPT ![d] = r]
  BY <1>1, <1>4, <1>5 DEF DrainRead
<1>8. drain' = [e \in Drainers |-> IF e = d THEN r ELSE drain[e]]
  BY <1>0, <1>7 DEF SearchRows
<1>9. drain'[d] = r /\ \A e \in Drainers : e # d => drain'[e] = drain[e]
  BY <1>8
<1>10. m0 \in DOMAIN markers /\ m0 \in 1..Len(markers)
  BY <1>0, <1>2 DEF Pending, SearchRows
<1>11. \A l \in Indexed : Text(Fresh(l)) /\ Current(Fresh(l), l) /\ \A x \in Dims(l) : ~Lag(Fresh(l), x)
  <2> TAKE l \in Indexed
  <2>1. body[l] \in Nat /\ member[l] \in SUBSET SearchCategories
    BY <1>0 DEF SearchRows
  <2> QED BY <1>0, <2>1, TextNow DEF Fresh, Current, Dims
<1>12. SearchRows'
  <2>1. DrainRow(r)'
    BY <1>0, <1>3, <1>5, <1>6, <1>10 DEF DrainRow
  <2>2. \A e \in Drainers : DrainRow(drain[e])'
    BY <1>0, <1>9, <2>1 DEF SearchRows, DrainRow
  <2>3. drain' = [e \in Drainers |-> drain'[e]]
    BY <1>8
  <2>4. vector' = [k \in Indexed |-> vector'[k]] /\ \A k \in Indexed : Text(vector[k])'
    BY <1>0, VectorsSame
  <2> QED BY <1>0, <2>2, <2>3, <2>4 DEF SearchRows
<1>13. UpsertInv'
  BY <1>0, UpsertsSame
<1>14. ReadInv'
  <2>1. \A q : Text(q) => Text(q)'
    BY <1>0, TextSame
  <2>2. \A l \in C : Text(r.read[l]) /\ r.read[l].body <= body[l]
    <3> TAKE l \in C
    <3>1. l \in Indexed /\ r.read[l] = Fresh(l)
      BY <1>3, <1>6
    <3>2. PICK q : q = Fresh(l)
      OBVIOUS
    <3>3. Text(q) /\ q.body = body[l] /\ body[l] \in Nat
      BY <1>0, <1>11, <3>1, <3>2 DEF Current, SearchRows
    <3>4. q.body <= body[l]
      BY <3>3
    <3> QED BY <3>1, <3>2, <3>3, <3>4
  <2>3. ASSUME NEW e \in Drainers, NEW l \in DOMAIN drain'[e].read
        PROVE  Text(drain'[e].read[l]) /\ drain'[e].read[l].body <= body[l]
    <3>1. CASE e = d
      BY <1>6, <1>9, <2>2, <3>1
    <3>2. CASE e # d
      BY <1>0, <1>9, <3>2 DEF ReadInv
    <3> QED BY <3>1, <3>2
  <2>4. \A e \in Drainers : \A l \in DOMAIN drain'[e].read : Text(drain[e].read[l])'
    <3> TAKE e \in Drainers
    <3> TAKE l \in DOMAIN drain'[e].read
    <3>1. PICK q : q = drain'[e].read[l]
      OBVIOUS
    <3>2. Text(q)'
      BY <2>1, <2>3, <3>1
    <3> QED BY <3>1, <3>2
  <2> QED BY <1>0, <2>3, <2>4 DEF ReadInv
<1>15. MarkerOrder'
  <2>1. \A m \in DOMAIN markers : m < m0 => markers[m].done
    BY <1>0, <1>2, <1>10 DEF Pending, SearchRows
  <2> QED BY <1>0, <1>6, <1>9, <2>1 DEF MarkerOrder
<1>16. DebtInv'
  <2> SUFFICES ASSUME NEW l \in Indexed PROVE Debts(l)'
    BY DEF DebtInv
  <2>0. RowSame(l) /\ Debts(l) /\ vector' = vector /\ markers' = markers
    BY <1>0 DEF RowSame, DebtInv
  <2>1. \A e \in Drainers : e # d => (Reading(e, l)' <=> Reading(e, l))
    BY <1>9, <2>0, TermsStand DEF Reading, Current
  <2>2. Reading(d, l)' => \A x \in Dims(l) : \A m : Owed(drain'[d].read[l], l, x, m)
    BY <1>6, <1>9, <1>11 DEF Reading, Owed
  <2>3. \A m \in Pending : Tracked(l) /\ Passed(m, l)' /\ markers[m].scope \in Dims(l) => Passed(m, l)
    <3> SUFFICES ASSUME NEW m \in Pending, Tracked(l), Passed(m, l)', markers[m].scope \in Dims(l), ~Passed(m, l)
                 PROVE  FALSE
      OBVIOUS
    <3>1. \A e \in Drainers : e # d => ~Passing(e, m, l)'
      BY <1>9 DEF Passed, Passing
    <3>2. Passing(d, m, l)' /\ ~(l <= markers[m].cursor)
      BY <2>0, <3>1 DEF Passed
    <3>3. m = m0 /\ l \notin C /\ (Cardinality(C) < REINDEX_CHUNK \/ \E k \in C : l <= k)
      BY <1>6, <1>9, <3>2 DEF Passing
    <3>4. l \in Covered(m0)
      BY <3>3 DEF Covered, Tracked, Dims
    <3>5. l > markers[m0].cursor
      <4>1. markers[m0].cursor \in Nat /\ l \in Nat
        <5>1. markers[m0] \in Markers
          BY <1>0, <1>10 DEF SearchRows
        <5> QED BY <5>1 DEF Markers, SearchAssumption
      <4> QED BY <3>2, <3>3, <4>1
    <3> QED BY <1>1, <3>3, <3>4, <3>5, ChunkFirst
  <2>4. VectorOwed(l) => VectorOwed(l)'
    BY <2>0, TermsStand DEF VectorOwed
  <2>5. ReadOwed(l) => ReadOwed(l)'
    BY <1>9, <2>0, <2>1, <2>2, TermsStand DEF ReadOwed
  <2>6. \A x \in Dims(l) : \A m : Settled(l, x, m) => Settled(l, x, m)'
    BY <1>9, <2>0, <2>1, <2>2, TermsStand DEF Settled
  <2>7. Tracked(l) /\ PassedOwed(l) => PassedOwed(l)'
    BY <2>0, <2>3, <2>6, TermsStand DEF PassedOwed
  <2> QED BY <2>0, <2>4, <2>5, <2>7, TermsStand DEF Debts
<1> QED BY <1>12, <1>13, <1>14, <1>15, <1>16 DEF SearchInv

\* One vector is stored.  The text that was read either is up to date, or is of the row
\* as it is and not older than the text it replaces: then what it lacks is queued, and
\* what was older than the replaced text is older than it.
LEMMA VectorStored ==
    ASSUME SearchAssumption, SearchInv, NEW d \in Drainers, NEW l \in Indexed, DrainWrite(d, l)
    PROVE  SearchInv'
<1>0. /\ SearchRows /\ UpsertInv /\ ReadInv /\ MarkerOrder /\ DebtInv /\ l \in DOMAIN drain[d].read
      /\ UNCHANGED <<body, member, catName, schema, upsert, markers, indexEdits>>
  BY DEF SearchInv, DrainWrite
<1>1. PICK r, old : r = drain[d].read[l] /\ old = vector[l]
  OBVIOUS
<1>2. Text(r) /\ Text(old)
  BY <1>0, <1>1 DEF ReadInv, SearchRows
<1>3. vector' = [k \in Indexed |-> IF k = l THEN r ELSE vector[k]]
  BY <1>0, <1>1 DEF DrainWrite, SearchRows
<1>4. indexRaced' = StaleDrained(l, r)
  BY <1>1 DEF DrainWrite
<1>5. indexRaced' \in {indexRaced, indexRaced \ {l}, indexRaced \cup {l}}
  BY <1>4 DEF StaleDrained
<1>6. PICK t : t = [k \in DOMAIN drain[d].read \ {l} |-> drain[d].read[k]]
  OBVIOUS
<1>7. PICK s : s = [drain[d] EXCEPT !.read = t]
  OBVIOUS
<1>8. drain' = [drain EXCEPT ![d] = s]
  BY <1>6, <1>7 DEF DrainWrite
<1>9. drain' = [e \in Drainers |-> IF e = d THEN s ELSE drain[e]]
  BY <1>0, <1>8 DEF SearchRows
<1>10. /\ DrainRow(drain[d]) /\ drain[d].marker # 0 /\ drain[d].marker \in Nat
  <2>1. DrainRow(drain[d]) /\ Len(markers) \in Nat
    BY <1>0 DEF SearchRows
  <2>2. drain[d] # NoDrain
    BY <1>0 DEF NoDrain
  <2> QED BY <2>1, <2>2 DEF DrainRow
<1>11. /\ s = [marker |-> s.marker, ids |-> s.ids, read |-> s.read]
       /\ s.marker = drain[d].marker /\ s.ids = drain[d].ids /\ s.read = t
       /\ DOMAIN s.read = DOMAIN drain[d].read \ {l} /\ \A k \in DOMAIN s.read : s.read[k] = drain[d].read[k]
  BY <1>6, <1>7, <1>10 DEF DrainRow
<1>12. drain'[d] = s /\ \A e \in Drainers : e # d => drain'[e] = drain[e]
  BY <1>9
<1>13. /\ \A e \in Drainers : drain'[e].marker = drain[e].marker /\ drain'[e].ids = drain[e].ids
       /\ \A e \in Drainers : \A k : k # l \/ e # d => (k \in DOMAIN drain'[e].read <=> k \in DOMAIN drain[e].read)
       /\ \A e \in Drainers : \A k \in DOMAIN drain'[e].read : drain'[e].read[k] = drain[e].read[k]
       /\ \A e \in Drainers : DOMAIN drain'[e].read \subseteq DOMAIN drain[e].read
       /\ l \notin DOMAIN drain'[d].read
  BY <1>11, <1>12
<1>14. \A q : Text(q) => Text(q)'
  BY <1>0, TextSame
<1>15. SearchRows'
  <2>1. vector' = [k \in Indexed |-> vector'[k]] /\ \A k \in Indexed : Text(vector'[k])
    BY <1>0, <1>2, <1>3 DEF SearchRows
  <2>2. \A k \in Indexed : Text(vector[k])'
    <3> TAKE k \in Indexed
    <3>1. PICK q : q = vector'[k]
      OBVIOUS
    <3> QED BY <1>14, <2>1, <3>1
  <2>3. DrainRow(s)'
    BY <1>0, <1>10, <1>11 DEF DrainRow
  <2>4. \A e \in Drainers : DrainRow(drain[e])'
    BY <1>0, <1>12, <2>3 DEF SearchRows, DrainRow
  <2>5. drain' = [e \in Drainers |-> drain'[e]]
    BY <1>9
  <2>6. indexRaced' \subseteq Indexed
    BY <1>0, <1>5 DEF SearchRows
  <2> QED BY <1>0, <2>1, <2>2, <2>4, <2>5, <2>6 DEF SearchRows
<1>16. UpsertInv'
  BY <1>0, UpsertsSame
<1>17. ReadInv'
  <2> SUFFICES ASSUME NEW e \in Drainers, NEW k \in DOMAIN drain'[e].read
               PROVE  Text(drain[e].read[k])' /\ drain'[e].read[k].body <= body'[k]
    BY DEF ReadInv
  <2>1. PICK q : q = drain'[e].read[k]
    OBVIOUS
  <2>2. Text(q) /\ q.body <= body[k]
    BY <1>0, <1>13, <2>1 DEF ReadInv
  <2>3. Text(q)'
    BY <1>14, <2>2
  <2> QED BY <1>0, <2>1, <2>2, <2>3
<1>18. MarkerOrder'
  BY <1>0, <1>13 DEF MarkerOrder
<1>19. ASSUME NEW k \in Indexed, k # l PROVE Debts(k)'
  <2>0. RowSame(k) /\ Debts(k) /\ vector'[k] = vector[k] /\ markers' = markers
    BY <1>0, <1>3, <1>5, <1>19 DEF RowSame, DebtInv
  <2>1. \A e \in Drainers : /\ Reading(e, k)' <=> Reading(e, k)
                            /\ Reading(e, k) => drain'[e].read[k] = drain[e].read[k]
    <3> TAKE e \in Drainers
    <3>1. k \in DOMAIN drain'[e].read <=> k \in DOMAIN drain[e].read
      BY <1>13, <1>19
    <3>2. k \in DOMAIN drain[e].read => drain'[e].read[k] = drain[e].read[k]
      BY <1>13, <3>1
    <3> QED BY <1>0, <3>1, <3>2 DEF Reading, Current
  <2>2. \A m : Passed(m, k)' <=> Passed(m, k)
    <3>1. \A e \in Drainers : k \in DOMAIN drain'[e].read <=> k \in DOMAIN drain[e].read
      BY <1>13, <1>19
    <3>2. \A e \in Drainers : \A m : Passing(e, m, k)' <=> Passing(e, m, k)
      BY <1>13, <3>1 DEF Passing
    <3> QED BY <1>0, <3>2 DEF Passed
  <2>3. VectorOwed(k) => VectorOwed(k)'
    BY <2>0, TermsStand DEF VectorOwed
  <2>4. ReadOwed(k) => ReadOwed(k)'
    BY <1>13, <2>0, <2>1, TermsStand DEF ReadOwed
  <2>5. \A x, m : Settled(k, x, m) => Settled(k, x, m)'
    BY <2>0, <2>1, TermsStand DEF Settled
  <2>6. PassedOwed(k) => PassedOwed(k)'
    BY <2>0, <2>2, <2>5, TermsStand DEF PassedOwed
  <2> QED BY <2>0, <2>3, <2>4, <2>6, TermsStand DEF Debts
<1>20. ASSUME Tracked(l)' PROVE VectorOwed(l)' /\ ReadOwed(l)' /\ PassedOwed(l)'
  <2>0. /\ Pending' = Pending /\ Dims(l)' = Dims(l) /\ vector'[l] = r
        /\ \A q : Current(q, l)' <=> Current(q, l)
        /\ \A q, x : Lag(q, x)' <=> Lag(q, x)
        /\ \A m, x : Queued(m, x, l)' <=> Queued(m, x, l)
    <3>1. Pending' = Pending /\ Dims(l)' = Dims(l) /\ vector'[l] = r
      BY <1>0, <1>3 DEF Pending, Dims
    <3>2. \A q : Current(q, l)' <=> Current(q, l)
      BY <1>0 DEF Current
    <3>3. \A q, x : Lag(q, x)' <=> Lag(q, x)
      BY <1>0, Zenon DEF Lag
    <3>4. \A m, x : Queued(m, x, l)' <=> Queued(m, x, l)
      BY <1>0, <3>1 DEF Queued
    <3> QED BY <3>1, <3>2, <3>3, <3>4
  <2>1. \A q, x, m : Owed(q, l, x, m)' <=> (Lag(q, x) => Older(q, r) \/ Queued(m, x, l))
    BY <2>0, Zenon DEF Owed
  <2>2. \A e \in Drainers : Reading(e, l)' => /\ Reading(e, l) /\ e # d /\ drain'[e].read[l] = drain[e].read[l]
                                              /\ Text(drain[e].read[l])
    BY <1>0, <1>13, <2>0 DEF Reading, Current, ReadInv
  <2>3. \A q, x : Text(q) /\ Current(q, l) /\ Current(r, l) /\ x \in Dims(l) /\ Lag(q, x) /\ ~Lag(r, x) => Older(q, r)
    BY <1>0, <1>2, Overtaken DEF Current, Dims
  <2>4. CASE r = Fresh(l)
    <3>1. Current(r, l) /\ \A x \in Dims(l) : ~Lag(r, x)
      <4>1. body[l] \in Nat /\ member[l] \in SUBSET SearchCategories
        BY <1>0 DEF SearchRows
      <4> QED BY <1>0, <2>4, <4>1, TextNow DEF Fresh, Current, Dims
    <3>2. \A q : Text(q) /\ Current(q, l) => \A x \in Dims(l) : \A m : Owed(q, l, x, m)'
      BY <2>1, <2>3, <3>1
    <3>3. \A e \in Drainers : Reading(e, l)' => \A x \in Dims(l) : \A m : Owed(drain[e].read[l], l, x, m)'
      <4> SUFFICES ASSUME NEW e \in Drainers, Reading(e, l)'
                   PROVE  \A x \in Dims(l) : \A m : Owed(drain[e].read[l], l, x, m)'
        OBVIOUS
      <4>1. PICK q : q = drain[e].read[l]
        OBVIOUS
      <4>2. Text(q) /\ Current(q, l) /\ drain'[e].read[l] = q
        BY <2>2, <4>1 DEF Reading
      <4> QED BY <3>2, <4>2
    <3>4. VectorOwed(l)'
      BY <1>2, <2>0, <3>1, <3>2 DEF VectorOwed
    <3>5. ReadOwed(l)'
      BY <2>0, <3>3 DEF ReadOwed
    <3>6. \A x \in Dims(l) : \A m : Settled(l, x, m)'
      BY <1>2, <2>0, <3>1, <3>2, <3>3 DEF Settled
    <3>7. PassedOwed(l)'
      BY <1>0, <2>0, <3>6 DEF PassedOwed
    <3> QED BY <3>4, <3>5, <3>7
  <2>5. CASE r # Fresh(l)
    <3>1. Tracked(l) /\ Current(r, l) /\ ~Older(r, old)
      <4>1. l \notin indexRaced' /\ Exists(l)
        BY <1>0, <1>20 DEF Tracked, Exists
      <4> QED BY <1>1, <1>4, <2>5, <4>1 DEF StaleDrained, Tracked, Current, Keys
    <3>2. VectorOwed(l) /\ ReadOwed(l) /\ PassedOwed(l) /\ Reading(d, l)
      BY <1>0, <1>1, <3>1 DEF DebtInv, Debts, Reading
    <3>3. Keys(r) = Keys(old)
      BY <1>1, <3>1, <3>2 DEF VectorOwed, Current
    <3>4. \A x, m : Owed(r, l, x, m) /\ Lag(r, x) => Queued(m, x, l)
      BY <1>1, <3>1 DEF Owed
    <3>5. \A q, x, m : Text(q) /\ Owed(q, l, x, m) => Owed(q, l, x, m)'
      <4> SUFFICES ASSUME NEW q, NEW x, NEW m, Text(q), Owed(q, l, x, m), Lag(q, x)
                   PROVE  Older(q, r) \/ Queued(m, x, l)
        BY <2>1
      <4>1. Older(q, old) \/ Queued(m, x, l)
        BY <1>1 DEF Owed
      <4>2. Older(q, old) => Older(q, r)
        BY <1>0, <1>2, <3>1, <3>3, OlderChain
      <4> QED BY <4>1, <4>2
    <3>6. \A x \in Dims(l) : Owed(r, l, x, drain[d].marker)
      BY <1>1, <3>2 DEF ReadOwed
    <3>7. VectorOwed(l)'
      <4>1. \A x \in Dims(l) : Owed(r, l, x, 0)'
        <5> SUFFICES ASSUME NEW x \in Dims(l), Lag(r, x) PROVE Queued(0, x, l)
          BY <2>1
        <5>1. Queued(drain[d].marker, x, l)
          BY <3>4, <3>6
        <5>2. \A n \in Pending : n > drain[d].marker => n > 0
          BY <1>0, <1>10 DEF Pending, SearchRows
        <5> QED BY <5>1, <5>2 DEF Queued
      <4> QED BY <2>0, <3>1, <4>1 DEF VectorOwed
    <3>8. ReadOwed(l)'
      <4> SUFFICES ASSUME NEW e \in Drainers, Reading(e, l)', NEW x \in Dims(l)
                   PROVE  Owed(drain[e].read[l], l, x, drain[e].marker)'
        BY <2>0 DEF ReadOwed
      <4>1. PICK q, m : q = drain[e].read[l] /\ m = drain[e].marker
        OBVIOUS
      <4>2. Text(q) /\ Owed(q, l, x, m) /\ drain'[e].read[l] = q /\ drain'[e].marker = m
        BY <1>13, <2>2, <3>2, <4>1 DEF ReadOwed
      <4>3. Owed(q, l, x, m)'
        BY <3>5, <4>2
      <4> QED BY <4>2, <4>3
    <3>9. PassedOwed(l)'
      <4> SUFFICES ASSUME NEW m \in Pending, Passed(m, l)', markers[m].scope \in Dims(l)
                   PROVE  Settled(l, markers[m].scope, m)'
        BY <1>0, <2>0 DEF PassedOwed
      <4>1. PICK x : x = markers[m].scope
        OBVIOUS
      <4>2. CASE Passed(m, l)
        <5>1. Settled(l, x, m)
          BY <3>2, <4>1, <4>2 DEF PassedOwed
        <5>2. Owed(r, l, x, m)'
          BY <1>1, <1>2, <3>2, <3>5, <5>1 DEF Settled
        <5>3. ASSUME NEW e \in Drainers, Reading(e, l)' PROVE Owed(drain[e].read[l], l, x, m)'
          <6>1. PICK q : q = drain[e].read[l]
            OBVIOUS
          <6>2. Text(q) /\ Owed(q, l, x, m) /\ drain'[e].read[l] = q
            BY <2>2, <5>1, <5>3, <6>1 DEF Settled
          <6>3. Owed(q, l, x, m)'
            BY <3>5, <6>2
          <6> QED BY <6>2, <6>3
        <5>4. Settled(l, x, m)'
          BY <2>0, <5>2, <5>3 DEF Settled
        <5> QED BY <1>0, <4>1, <5>4
      <4>3. CASE ~Passed(m, l)
        <5>1. m = drain[d].marker
          <6>1. PICK e \in Drainers : Passing(e, m, l)'
            BY <1>0, <4>3 DEF Passed
          <6>2. e # d => Passing(e, m, l)
            BY <1>12, <6>1 DEF Passing
          <6> QED BY <1>13, <4>3, <6>1, <6>2 DEF Passed, Passing
        <5>2. Lag(r, x) => Queued(m, x, l)
          BY <3>4, <3>6, <4>1, <5>1
        <5>3. Owed(r, l, x, m)'
          BY <2>1, <5>2
        <5>4. ASSUME NEW e \in Drainers, Reading(e, l)' PROVE Owed(drain[e].read[l], l, x, m)'
          <6>1. PICK q : q = drain[e].read[l]
            OBVIOUS
          <6>2. Text(q) /\ Current(q, l) /\ drain'[e].read[l] = q
            BY <2>2, <5>4, <6>1 DEF Reading
          <6>3. Lag(q, x) => Older(q, r) \/ Queued(m, x, l)
            BY <2>3, <3>1, <4>1, <5>2, <6>2
          <6>4. Owed(q, l, x, m)'
            BY <2>1, <6>3
          <6> QED BY <6>2, <6>4
        <5>5. Settled(l, x, m)'
          BY <2>0, <5>3, <5>4 DEF Settled
        <5> QED BY <1>0, <4>1, <5>5
      <4> QED BY <4>2, <4>3
    <3> QED BY <3>7, <3>8, <3>9
  <2> QED BY <2>4, <2>5
<1>21. DebtInv'
  BY <1>19, <1>20 DEF DebtInv, Debts
<1> QED BY <1>15, <1>16, <1>17, <1>18, <1>21 DEF SearchInv

\* A drain call ends.  What its marker no longer has queued was passed, and is owed by the
\* markers behind it.
LEMMA MarkerStamped ==
    ASSUME SearchAssumption, SearchInv, NEW d \in Drainers, DrainFinish(d)
    PROVE  SearchInv'
<1>0. /\ SearchRows /\ UpsertInv /\ ReadInv /\ MarkerOrder /\ DebtInv
      /\ drain[d] # NoDrain /\ drain[d].read = <<>> /\ drain' = [drain EXCEPT ![d] = NoDrain]
      /\ UNCHANGED <<body, member, catName, schema, vector, upsert, indexRaced, indexEdits>>
  BY DEF SearchInv, DrainFinish
<1>1. PICK m0, ids : m0 = drain[d].marker /\ ids = drain[d].ids
  OBVIOUS
<1>2. CASE markers[m0].done
  <2>1. markers' = markers
    BY <1>1, <1>2 DEF DrainFinish, Stamped
  <2> QED BY <1>0, <2>1, DrainClosed
<1>3. CASE ~markers[m0].done
  <2>1. /\ m0 \in DOMAIN markers /\ m0 \in Nat /\ m0 # 0 /\ ids \subseteq Indexed /\ markers[m0] \in Markers
        /\ Len(markers) \in Nat /\ DOMAIN markers = 1..Len(markers)
    <3>1. /\ DrainRow(drain[d]) /\ Len(markers) \in Nat /\ DOMAIN markers = 1..Len(markers)
          /\ \A m \in DOMAIN markers : markers[m] \in Markers
      BY <1>0 DEF SearchRows
    <3>2. m0 \in 0..Len(markers) /\ m0 # 0 /\ ids \subseteq Indexed
      BY <1>0, <1>1, <3>1 DEF DrainRow
    <3> QED BY <3>1, <3>2
  <2>2. PICK cu : cu = IF ids = {} THEN markers[m0].cursor ELSE CHOOSE l \in ids : \A k \in ids : k <= l
    OBVIOUS
  <2>3. PICK short \in BOOLEAN : short <=> Cardinality(ids) < REINDEX_CHUNK
    OBVIOUS
  <2>4. /\ ids = {} => short
        /\ ids # {} => cu \in ids
        /\ cu \in Nat
    <3>1. ids = {} => short
      BY <2>3, FS_EmptySet DEF SearchAssumption
    <3>2. ids \subseteq Nat /\ IsFiniteSet(ids)
      BY <2>1, FS_Subset DEF SearchAssumption
    <3>3. ids # {} => cu \in ids
      <4> SUFFICES ASSUME ids # {} PROVE cu \in ids
        OBVIOUS
      <4>1. \E l \in ids : \A k \in ids : k <= l
        BY <3>2, GreatestExists
      <4> QED BY <2>2, <4>1
    <3>4. ids = {} => cu \in Nat
      BY <2>1, <2>2 DEF Markers
    <3> QED BY <3>1, <3>2, <3>3, <3>4
  <2>5. PICK w : w = [scope |-> markers[m0].scope, cursor |-> cu, done |-> short]
    OBVIOUS
  <2>6. w.scope = markers[m0].scope /\ w.cursor = cu /\ w.done = short /\ w \in Markers
    BY <2>1, <2>4, <2>5 DEF Markers
  <2>7. markers' = [markers EXCEPT ![m0] = w]
    <3>1. markers' = [markers EXCEPT ![m0].cursor = cu, ![m0].done = Cardinality(ids) < REINDEX_CHUNK]
      BY <1>1, <1>3, <2>2 DEF DrainFinish, Stamped
    <3>2. PICK c : c = (Cardinality(ids) < REINDEX_CHUNK)
      OBVIOUS
    <3>3. c = short
      BY <2>3, <3>2
    <3>4. markers' = [markers EXCEPT ![m0].cursor = cu, ![m0].done = c]
      BY <3>1, <3>2
    <3>5. PICK q : q = [markers[m0] EXCEPT !.cursor = cu]
      OBVIOUS
    <3>6. markers' = [markers EXCEPT ![m0] = [q EXCEPT !.done = c]]
      BY <2>1, <3>4, <3>5
    <3>7. [q EXCEPT !.done = c] = w
      <4>1. PICK a, b, e : markers[m0] = [scope |-> a, cursor |-> b, done |-> e]
        BY <2>1 DEF Markers
      <4>2. q = [scope |-> a, cursor |-> cu, done |-> e]
        BY <3>5, <4>1
      <4>3. w = [scope |-> a, cursor |-> cu, done |-> c]
        BY <2>5, <3>3, <4>1
      <4> QED BY <4>2, <4>3
    <3> QED BY <3>6, <3>7
  <2>8. /\ DOMAIN markers' = DOMAIN markers /\ markers'[m0] = w
        /\ \A n \in DOMAIN markers : n # m0 => markers'[n] = markers[n]
    BY <2>1, <2>7
  <2>9. drain' = [e \in Drainers |-> IF e = d THEN NoDrain ELSE drain[e]]
    BY <1>0 DEF SearchRows
  <2>10. /\ drain'[d] = NoDrain /\ \A e \in Drainers : e # d => drain'[e] = drain[e]
         /\ NoDrain.marker = 0 /\ DOMAIN NoDrain.read = {}
    BY <2>9 DEF NoDrain
  <2>11. SearchRows'
    <3>1. markers' \in Seq(Markers) /\ Len(markers') = Len(markers)
      BY <1>0, <2>1, <2>6, <2>7 DEF SearchRows
    <3>2. DrainRow(NoDrain)'
      BY <2>1, <3>1 DEF NoDrain, DrainRow
    <3>3. \A e \in Drainers : DrainRow(drain[e])'
      BY <1>0, <2>10, <3>1, <3>2 DEF SearchRows, DrainRow
    <3>4. drain' = [e \in Drainers |-> drain'[e]]
      BY <2>9
    <3>5. vector' = [k \in Indexed |-> vector'[k]] /\ \A k \in Indexed : Text(vector[k])'
      BY <1>0, VectorsSame
    <3> QED BY <1>0, <3>1, <3>3, <3>4, <3>5 DEF SearchRows
  <2>12. UpsertInv'
    BY <1>0, UpsertsSame
  <2>13. ReadInv'
    <3>1. \A r : Text(r) => Text(r)'
      BY <1>0, TextSame
    <3>2. \A e \in Drainers : \A l \in DOMAIN drain'[e].read : e # d
      BY <2>10
    <3> QED BY <1>0, <2>10, <3>1, <3>2 DEF ReadInv
  <2>14. MarkerOrder'
    <3>1. \A m \in DOMAIN markers : m < m0 => markers[m].done
      BY <1>0, <1>1 DEF MarkerOrder
    <3>2. ASSUME NEW e \in Drainers, NEW m \in DOMAIN markers, m < drain'[e].marker PROVE markers'[m].done
      <4>1. e # d
        BY <2>1, <2>10, <3>2
      <4>2. markers[m].done
        BY <1>0, <2>10, <3>2, <4>1 DEF MarkerOrder
      <4> QED BY <1>3, <2>8, <4>2
    <3>3. ASSUME NEW m \in DOMAIN markers, NEW n \in DOMAIN markers, m < n, ~markers'[m].done
          PROVE  markers'[n].cursor = 0 /\ ~markers'[n].done
      <4>1. ~markers[m].done
        BY <1>3, <2>8, <3>3
      <4>2. n # m0
        BY <3>1, <3>3, <4>1
      <4> QED BY <1>0, <2>8, <3>3, <4>1, <4>2 DEF MarkerOrder
    <3> QED BY <2>8, <3>2, <3>3 DEF MarkerOrder
  <2>15. DebtInv'
    <3> SUFFICES ASSUME NEW l \in Indexed, Tracked(l)' PROVE VectorOwed(l)' /\ ReadOwed(l)' /\ PassedOwed(l)'
      BY DEF DebtInv, Debts
    <3>0. /\ Dims(l)' = Dims(l) /\ vector'[l] = vector[l] /\ Tracked(l) /\ m0 \in Pending
          /\ \A q : Current(q, l)' <=> Current(q, l)
          /\ \A q, x : Lag(q, x)' <=> Lag(q, x)
          /\ Pending \subseteq DOMAIN markers /\ Pending' \subseteq Pending
          /\ \A n \in Pending : n # m0 => n \in Pending'
          /\ ~short => m0 \in Pending'
      <4>1. Dims(l)' = Dims(l) /\ vector'[l] = vector[l] /\ Tracked(l) /\ m0 \in Pending
        BY <1>0, <1>3, <2>1 DEF Dims, Tracked, Exists, Pending
      <4>2. \A q : Current(q, l)' <=> Current(q, l)
        BY <1>0 DEF Current
      <4>3. \A q, x : Lag(q, x)' <=> Lag(q, x)
        BY <1>0, Zenon DEF Lag
      <4>4. Pending \subseteq DOMAIN markers /\ Pending' \subseteq Pending
        BY <1>3, <2>8 DEF Pending
      <4>5. \A n \in Pending : n # m0 => n \in Pending'
        BY <2>8 DEF Pending
      <4>6. ~short => m0 \in Pending'
        BY <2>1, <2>6, <2>8 DEF Pending
      <4> QED BY <4>1, <4>2, <4>3, <4>4, <4>5, <4>6
    <3>1. VectorOwed(l) /\ ReadOwed(l) /\ PassedOwed(l)
      BY <1>0, <3>0 DEF DebtInv, Debts
    <3>2. short \/ l <= cu => Passed(m0, l)
      <4> SUFFICES ASSUME short \/ l <= cu PROVE Passing(d, m0, l)
        BY DEF Passed
      <4>1. Cardinality(ids) < REINDEX_CHUNK \/ \E k \in ids : l <= k
        BY <2>3, <2>4
      <4>2. l \notin DOMAIN drain[d].read
        BY <1>0
      <4> QED BY <1>1, <4>1, <4>2 DEF Passing
    <3>3. l \in Nat
      BY DEF SearchAssumption
    <3>4. ASSUME NEW r, NEW x, NEW m \in Nat, Owed(r, l, x, m),
                 Passed(m0, l) /\ markers[m0].scope = x => Owed(r, l, x, m0)
          PROVE  Owed(r, l, x, m)'
      <4> SUFFICES ASSUME Lag(r, x), ~Older(r, vector[l]) PROVE Queued(m, x, l)'
        BY <3>0, Zenon DEF Owed
      <4>1. PICK n \in Pending : n > m /\ markers[n].scope = x /\ markers[n].cursor < l
        BY <3>4 DEF Owed, Queued
      <4>2. \A j \in Pending : j # m0 /\ j > m /\ markers[j].scope = x /\ markers[j].cursor < l => Queued(m, x, l)'
        BY <2>8, <3>0 DEF Queued
      <4>3. CASE n # m0
        BY <4>1, <4>2, <4>3
      <4>4. CASE n = m0 /\ ~short /\ cu < l
        BY <2>6, <2>8, <3>0, <4>1, <4>4 DEF Queued
      <4>5. CASE n = m0 /\ (short \/ ~(cu < l))
        <5>1. Passed(m0, l)
          BY <2>4, <3>2, <3>3, <4>5
        <5>2. Queued(m0, x, l)
          BY <3>4, <4>1, <4>5, <5>1 DEF Owed
        <5>3. PICK j \in Pending : j > m0 /\ markers[j].scope = x /\ markers[j].cursor < l
          BY <5>2 DEF Queued
        <5>4. j # m0 /\ j > m
          BY <2>1, <3>0, <4>1, <4>5, <5>3
        <5> QED BY <4>2, <5>3, <5>4
      <4> QED BY <4>3, <4>4, <4>5
    <3>5. ASSUME NEW x \in Dims(l), Passed(m0, l), markers[m0].scope = x
          PROVE  Settled(l, x, m0)
      BY <3>0, <3>1, <3>5 DEF PassedOwed
    <3>6. \A e \in Drainers : Reading(e, l)' => Reading(e, l) /\ e # d /\ drain'[e] = drain[e]
      BY <2>10, <3>0 DEF Reading, Current
    <3>7. VectorOwed(l)'
      <4>1. \A x \in Dims(l) : Owed(vector[l], l, x, 0)'
        <5> TAKE x \in Dims(l)
        <5>1. PICK q : q = vector[l]
          OBVIOUS
        <5>2. Owed(q, l, x, 0) /\ (Passed(m0, l) /\ markers[m0].scope = x => Owed(q, l, x, m0))
          BY <3>1, <3>5, <5>1 DEF VectorOwed, Settled
        <5>3. Owed(q, l, x, 0)'
          BY <3>4, <5>2
        <5> QED BY <3>0, <5>1, <5>3
      <4> QED BY <3>0, <3>1, <4>1 DEF VectorOwed
    <3>8. ReadOwed(l)'
      <4> SUFFICES ASSUME NEW e \in Drainers, Reading(e, l)', NEW x \in Dims(l)
                   PROVE  Owed(drain[e].read[l], l, x, drain[e].marker)'
        BY <3>0 DEF ReadOwed
      <4>1. PICK q, m : q = drain[e].read[l] /\ m = drain[e].marker
        OBVIOUS
      <4>2. m \in Nat
        BY <1>0, <2>1, <4>1 DEF SearchRows, DrainRow
      <4>3. Owed(q, l, x, m) /\ (Passed(m0, l) /\ markers[m0].scope = x => Owed(q, l, x, m0))
        BY <3>1, <3>5, <3>6, <4>1 DEF ReadOwed, Settled
      <4>4. Owed(q, l, x, m)'
        BY <3>4, <4>2, <4>3
      <4> QED BY <3>6, <4>1, <4>4
    <3>9. PassedOwed(l)'
      <4> SUFFICES ASSUME NEW m \in Pending', Passed(m, l)', markers'[m].scope \in Dims(l)
                   PROVE  Settled(l, markers[m].scope, m)'
        BY <3>0 DEF PassedOwed
      <4>1. m \in Pending /\ m \in Nat /\ m # 0
        BY <2>1, <3>0
      <4>2. PICK x : x = markers[m].scope
        OBVIOUS
      <4>3. markers'[m].scope = x
        BY <2>6, <2>8, <3>0, <4>1, <4>2
      <4>4. Passed(m, l)
        <5>1. CASE \E e \in Drainers : Passing(e, m, l)'
          <6>1. PICK e \in Drainers : Passing(e, m, l)'
            BY <5>1
          <6>2. e # d
            BY <2>10, <4>1, <6>1 DEF Passing
          <6> QED BY <2>10, <6>1, <6>2 DEF Passed, Passing
        <5>2. CASE l <= markers'[m].cursor
          <6>1. CASE m = m0
            BY <2>6, <2>8, <3>2, <5>2, <6>1
          <6>2. CASE m # m0
            BY <2>8, <3>0, <4>1, <5>2, <6>2 DEF Passed
          <6> QED BY <6>1, <6>2
        <5> QED BY <5>1, <5>2 DEF Passed
      <4>5. Settled(l, x, m) /\ x \in Dims(l)
        BY <3>1, <4>1, <4>2, <4>3, <4>4 DEF PassedOwed
      <4>6. Owed(vector[l], l, x, m)'
        <5>1. PICK q : q = vector[l]
          OBVIOUS
        <5>2. Owed(q, l, x, m) /\ (Passed(m0, l) /\ markers[m0].scope = x => Owed(q, l, x, m0))
          BY <3>5, <4>5, <5>1 DEF Settled
        <5>3. Owed(q, l, x, m)'
          BY <3>4, <4>1, <5>2
        <5> QED BY <3>0, <5>1, <5>3
      <4>7. ASSUME NEW e \in Drainers, Reading(e, l)' PROVE Owed(drain[e].read[l], l, x, m)'
        <5>1. PICK q : q = drain[e].read[l]
          OBVIOUS
        <5>2. Owed(q, l, x, m) /\ (Passed(m0, l) /\ markers[m0].scope = x => Owed(q, l, x, m0))
          BY <3>5, <3>6, <4>5, <4>7, <5>1 DEF Settled
        <5>3. Owed(q, l, x, m)'
          BY <3>4, <4>1, <5>2
        <5> QED BY <3>6, <4>7, <5>1, <5>3
      <4>8. Settled(l, x, m)'
        BY <4>6, <4>7 DEF Settled
      <4> QED BY <4>3, <4>8
    <3> QED BY <3>7, <3>8, <3>9
  <2> QED BY <2>11, <2>12, <2>13, <2>14, <2>15 DEF SearchInv
<1> QED BY <1>2, <1>3

LEMMA SearchStart ==
    ASSUME SearchAssumption, SearchInit
    PROVE  SearchInv
<1>0. /\ body = [l \in Indexed |-> 0] /\ vector = [l \in Indexed |-> NoVector]
      /\ upsert = [l \in Indexed |-> NoUpsert] /\ drain = [d \in Drainers |-> NoDrain]
      /\ markers = <<>> /\ schema = 0 /\ indexEdits = 0
  BY DEF SearchInit
<1>1. Text(NoVector)
  BY <1>0 DEF Text, SingleNames, KnownNames, NoVector
<1>2. DrainRow(NoDrain) /\ DOMAIN NoDrain.read = {} /\ NoDrain.marker = 0
  BY <1>0 DEF DrainRow, NoDrain
<1>3. SearchRows
  BY <1>0, <1>1, <1>2 DEF SearchInit, SearchRows
<1>4. UpsertInv
  BY <1>0 DEF UpsertInv
<1>5. ReadInv
  BY <1>0, <1>2 DEF ReadInv
<1>6. MarkerOrder
  BY <1>0 DEF MarkerOrder
<1>7. DebtInv
  BY <1>0 DEF DebtInv, Debts, Tracked, Exists
<1> QED BY <1>3, <1>4, <1>5, <1>6, <1>7 DEF SearchInv

LEMMA SearchStands ==
    ASSUME SearchAssumption, SearchInv, UNCHANGED searchVars
    PROVE  SearchInv'
<1>0. /\ SearchRows /\ UpsertInv /\ ReadInv /\ MarkerOrder /\ DebtInv
      /\ UNCHANGED <<body, member, catName, schema, vector, upsert, markers, drain, indexRaced, indexEdits>>
  BY DEF SearchInv, searchVars
<1>1. SearchRows'
  <2>1. vector' = [k \in Indexed |-> vector'[k]] /\ \A k \in Indexed : Text(vector[k])'
    BY <1>0, VectorsSame
  <2>2. \A d \in Drainers : DrainRow(drain[d])'
    BY <1>0 DEF SearchRows, DrainRow
  <2> QED BY <1>0, <2>1, <2>2 DEF SearchRows
<1>2. UpsertInv' /\ ReadInv'
  BY <1>0, UpsertsSame, ReadsStand
<1>3. MarkerOrder'
  BY <1>0 DEF MarkerOrder
<1>4. DebtInv'
  <2> SUFFICES ASSUME NEW l \in Indexed PROVE Debts(l)'
    BY DEF DebtInv
  <2>1. RowSame(l) /\ Debts(l)
    BY <1>0 DEF RowSame, DebtInv
  <2> QED BY <1>0, <2>1, RowStands
<1> QED BY <1>1, <1>2, <1>3, <1>4 DEF SearchInv

LEMMA SearchStep ==
    ASSUME SearchAssumption, SearchInv, [SearchNext]_searchVars
    PROVE  SearchInv'
<1>1. CASE UNCHANGED searchVars
  BY <1>1, SearchStands
<1>2. ASSUME NEW l \in Indexed, EndUpsert(l) PROVE SearchInv'
  BY <1>2, UpsertEnded
<1>3. ASSUME NEW l \in Indexed, NEW S \in SUBSET SearchCategories, BeginUpsert(l, S) PROVE SearchInv'
  BY <1>3, UpsertBegun
<1>4. ASSUME NEW c \in SearchCategories, RenameCategory(c) PROVE SearchInv'
  BY <1>4, CategoryRenamed
<1>5. ASSUME NEW c \in SearchCategories, RemoveCategory(c) PROVE SearchInv'
  BY <1>5, Removed
<1>6. CASE ChangeSchema
  BY <1>6, SchemaChanged
<1>7. ASSUME NEW d \in Drainers, DrainRead(d) PROVE SearchInv'
  BY <1>7, ChunkRead
<1>8. ASSUME NEW d \in Drainers, DrainFinish(d) PROVE SearchInv'
  BY <1>8, MarkerStamped
<1>9. ASSUME NEW d \in Drainers, DrainDies(d) PROVE SearchInv'
  BY <1>9, DrainClosed DEF DrainDies
<1>10. ASSUME NEW d \in Drainers, NEW l \in Indexed, DrainWrite(d, l) PROVE SearchInv'
  BY <1>10, VectorStored
<1> QED BY <1>1, <1>2, <1>3, <1>4, <1>5, <1>6, <1>7, <1>8, <1>9, <1>10 DEF SearchNext

\* The invariant of the index: a text that is stored, or that a drain may still store,
\* lacks nothing that a later part of the markers' work will not bring, or is recognised
\* as older when it is stored (drain_reindex_markers and upsert_listing of search.py).
THEOREM SearchInvariance == SearchSpec => []SearchInv
<1>1. SearchInit => SearchInv
  BY SearchAssumption, SearchStart
<1>2. SearchInv /\ [SearchNext]_searchVars => SearchInv'
  BY SearchAssumption, SearchStep
<1> QED BY <1>1, <1>2, PTL DEF SearchSpec

\* No stale vector is forgotten, whatever the number of listings, categories, markers,
\* overlapping drains and the chunk size: a listing whose stored search_vector is not what
\* its rows say is ahead of the cursor of a pending marker that covers it.
THEOREM IndexCorrect == SearchSpec => []VectorFresh
<1>1. SearchInv => VectorFresh
  <2> SUFFICES ASSUME SearchInv, NEW l \in Indexed, Exists(l), vector[l] # Fresh(l), l \notin indexRaced
               PROVE  \E m \in Pending : l \in Covered(m) /\ markers[m].cursor < l
    BY DEF VectorFresh
  <2>1. SearchRows /\ Text(vector[l]) /\ VectorOwed(l)
    BY DEF SearchInv, SearchRows, DebtInv, Debts, Tracked
  <2>2. PICK x \in Dims(l) : Lag(vector[l], x)
    BY <2>1, SearchAssumption, UpToDate DEF VectorOwed
  <2>3. Queued(0, x, l)
    BY <2>1, <2>2, NotOlder DEF VectorOwed, Owed
  <2>4. PICK m \in Pending : markers[m].scope = x /\ markers[m].cursor < l
    BY <2>3 DEF Queued
  <2>5. l \in Covered(m)
    BY <2>2, <2>4 DEF Covered, Dims
  <2> QED BY <2>4, <2>5
<1> QED BY <1>1, SearchInvariance, PTL

-----------------------------------------------------------------------------
(* Public routes.                                                           *)

\* Where a category's page is while the tenant has one type, and where it ever was.
Page(c) == <<categories[c].slug>>
Urls(c) == former[c] \cup {Page(c)}

OneType == \A t, o \in DOMAIN types : t = o

CategoryRow(r) == r = [type |-> r.type, slug |-> r.slug, parent |-> r.parent]
SlugsTaken ==
    /\ \A c \in DOMAIN categories : c \in CategoryIds /\ CategoryRow(categories[c]) /\ categories[c].slug \in names
    /\ \A c, d \in DOMAIN categories : categories[c].slug = categories[d].slug => c = d
    /\ former = [c \in CategoryIds |-> former[c]]

\* A redirect leads from a slug to one that was taken later.
Onward(born) ==
    /\ born \in [names -> 1..routeEdits]
    /\ \A p \in DOMAIN redirects : \E s, n \in names :
          p = <<s>> /\ redirects[p] = <<n>> /\ born[s] < born[n]

\* From a former URL of a category a redirect leads to another URL of that category, and
\* its page is not hidden by a redirect.
UrlsLead ==
    \A c \in DOMAIN categories :
        /\ Page(c) \notin DOMAIN redirects
        /\ \A u \in former[c] : u \in DOMAIN redirects /\ redirects[u] \in Urls(c)

PlainInv == OneType /\ SlugsTaken /\ UrlsLead /\ \E born : Onward(born)
RouteInv == routeEdits \in 0..MaxRouteEdits /\ (routing = "plain" => PlainInv)

\* One request of a client that follows redirects.
Hop(path) == IF Matching(path) = {} THEN path ELSE Moved(path)
Hops(h, path, N) == h = [n \in 0..N |-> IF n = 0 THEN path ELSE Hop(h[n - 1])]

LEMMA HopsExist ==
    ASSUME NEW path, NEW N \in Nat
    PROVE  \E h : Hops(h, path, N)
<1> DEFINE Bad == {k \in Nat : ~\E h : Hops(h, path, k)}
<1> SUFFICES ASSUME Bad # {} PROVE FALSE
  OBVIOUS
<1>1. PICK k \in Bad : \A j \in Bad : k <= j
  <2>1. Bad \subseteq Nat /\ Bad # {}
    OBVIOUS
  <2> HIDE DEF Bad
  <2> QED BY <2>1, LeastExists
<1>2. k \in Nat /\ ~\E h : Hops(h, path, k)
  OBVIOUS
<1>3. CASE k = 0
  <2>1. Hops([n \in 0..0 |-> path], path, 0)
    BY DEF Hops
  <2> QED BY <1>2, <1>3, <2>1
<1>4. CASE k # 0
  <2>1. k - 1 \in Nat /\ k - 1 \notin Bad
    BY <1>1, <1>2, <1>4
  <2>2. PICK g : Hops(g, path, k - 1)
    BY <2>1
  <2>3. PICK v : v = Hop(g[k - 1])
    OBVIOUS
  <2>4. PICK h : h = [n \in 0..k |-> IF n = k THEN v ELSE g[n]]
    OBVIOUS
  <2>5. \A n \in 0..k : h[n] = IF n = 0 THEN path ELSE Hop(h[n - 1])
    <3> TAKE n \in 0..k
    <3>1. CASE n = k
      <4>1. h[n] = v /\ h[n - 1] = g[k - 1]
        BY <1>2, <1>4, <2>4, <3>1
      <4> QED BY <1>4, <2>3, <3>1, <4>1
    <3>2. CASE n # k
      <4>1. n \in 0..(k - 1) /\ h[n] = g[n] /\ (n # 0 => h[n - 1] = g[n - 1])
        BY <1>2, <2>4, <3>2
      <4>2. g[n] = IF n = 0 THEN path ELSE Hop(g[n - 1])
        BY <2>2, <4>1 DEF Hops
      <4> QED BY <4>1, <4>2
    <3> QED BY <3>1, <3>2
  <2>6. Hops(h, path, k)
    BY <2>4, <2>5 DEF Hops
  <2> QED BY <1>2, <2>6
<1> QED BY <1>3, <1>4

LEMMA FollowedHops ==
    ASSUME NEW path, MaxRouteEdits \in Nat
    PROVE  \E h : Hops(h, path, MaxRouteEdits) /\ Followed(path) = h[MaxRouteEdits]
<1>1. \E h : Hops(h, path, MaxRouteEdits)
  BY HopsExist
<1>2. PICK h : h = CHOOSE g : Hops(g, path, MaxRouteEdits)
  OBVIOUS
<1>3. Hops(h, path, MaxRouteEdits)
  BY <1>1, <1>2
<1>4. Followed(path) = h[MaxRouteEdits]
  BY <1>2 DEF Followed, Hops, Hop
<1> QED BY <1>3, <1>4

\* Paths of one segment.
LEMMA OneSegment ==
    ASSUME NEW a
    PROVE  /\ Len(<<a>>) = 1 /\ SubSeq(<<a>>, 1, 1) = <<a>> /\ SubSeq(<<a>>, 2, 1) = <<>>
           /\ <<a>> \o <<>> = <<a>> /\ <<>> \o <<a>> = <<a>>
<1>1. Len(<<a>>) = 1 /\ <<a>> \in Seq({a})
  OBVIOUS
<1>2. SubSeq(<<a>>, 1, Len(<<a>>)) = <<a>>
  BY <1>1, SubSeqFull
<1>3. SubSeq(<<a>>, 2, 1) = <<>>
  BY SubSeqEmpty
<1>4. <<a>> \o <<>> = <<a>> /\ <<>> \o <<a>> = <<a>>
  BY <1>1, ConcatEmptySeq
<1> QED BY <1>1, <1>2, <1>3, <1>4

\* While no slug is used twice, a redirect matches the URL of a slug only if it is of that URL.
LEMMA PlainHop ==
    ASSUME NEW born, Onward(born), NEW s
    PROVE  /\ <<s>> \notin DOMAIN redirects => Matching(<<s>>) = {} /\ Hop(<<s>>) = <<s>>
           /\ <<s>> \in DOMAIN redirects => Hop(<<s>>) = redirects[<<s>>]
<1>1. \A p \in DOMAIN redirects : IsPrefix(p, <<s>>) <=> p = <<s>>
  <2> TAKE p \in DOMAIN redirects
  <2>1. PICK a \in names : p = <<a>>
    BY DEF Onward
  <2>2. IsPrefix(<<a>>, <<s>>) <=> SubSeq(<<a>>, 1, 1) = SubSeq(<<s>>, 1, 1)
    BY OneSegment DEF IsPrefix
  <2>3. SubSeq(<<a>>, 1, 1) = <<a>> /\ SubSeq(<<s>>, 1, 1) = <<s>>
    BY OneSegment
  <2> QED BY <2>1, <2>2, <2>3
<1>2. PICK u : u = <<s>>
  OBVIOUS
<1>3. u \notin DOMAIN redirects => Matching(u) = {}
  BY <1>1, <1>2 DEF Matching
<1>4. ASSUME u \in DOMAIN redirects PROVE Hop(u) = redirects[u]
  <2>1. Matching(u) = {u}
    BY <1>1, <1>2, <1>4 DEF Matching
  <2>2. BestMatch(u) = u
    <3>1. Len(u) = 1
      BY <1>2, OneSegment
    <3>2. \E p \in {u} : \A q \in {u} : Len(p) >= Len(q)
      BY <3>1
    <3> QED BY <2>1, <3>2 DEF BestMatch
  <2>3. PICK n \in names : redirects[u] = <<n>>
    BY <1>4 DEF Onward
  <2>4. SubSeq(u, Len(u) + 1, Len(u)) = <<>>
    BY <1>2, OneSegment
  <2>5. Moved(u) = redirects[u] \o <<>>
    BY <2>2, <2>4 DEF Moved
  <2>6. redirects[u] \o <<>> = redirects[u]
    BY <2>3, OneSegment
  <2> QED BY <2>1, <2>5, <2>6 DEF Hop
<1> QED BY <1>2, <1>3, <1>4 DEF Hop

\* The length of the way is bounded: every redirect leads to a later slug.
LEMMA WayEnds ==
    ASSUME RouteInv, MaxRouteEdits \in Nat, routing = "plain", NEW c \in DOMAIN categories, NEW url \in Urls(c)
    PROVE  Followed(url) = Page(c)
<1>0. routeEdits \in Nat /\ routeEdits <= MaxRouteEdits /\ PlainInv
  BY DEF RouteInv
<1>1. PICK born : Onward(born)
  BY <1>0 DEF PlainInv
<1>2. PICK h : Hops(h, url, MaxRouteEdits) /\ Followed(url) = h[MaxRouteEdits]
  BY FollowedHops
<1> DEFINE Going(n) == h[n] \in Urls(c) /\ (h[n] # Page(c) => \E s \in names : h[n] = <<s>> /\ born[s] > n)
<1>3. \A u \in Urls(c) : \E s \in names : u = <<s>> /\ born[s] \in Nat /\ born[s] > 0 /\ born[s] <= routeEdits
  <2> TAKE u \in Urls(c)
  <2>1. \A s \in names : born[s] \in Nat /\ born[s] > 0 /\ born[s] <= routeEdits
    BY <1>0, <1>1 DEF Onward
  <2>2. \E s \in names : u = <<s>>
    <3>1. CASE u = Page(c)
      BY <1>0, <3>1 DEF PlainInv, SlugsTaken, Page
    <3>2. CASE u \in former[c]
      BY <1>0, <1>1, <3>2 DEF PlainInv, UrlsLead, Onward
    <3> QED BY <3>1, <3>2 DEF Urls
  <2> QED BY <2>1, <2>2
<1>4. h[0] = url /\ \A n \in 1..MaxRouteEdits : h[n] = Hop(h[n - 1])
  BY <1>2 DEF Hops
<1>5. Going(0)
  BY <1>3, <1>4
<1>6. ASSUME NEW n \in 1..MaxRouteEdits, Going(n - 1) PROVE Going(n)
  <2>1. CASE h[n - 1] = Page(c)
    <3>1. Page(c) \notin DOMAIN redirects
      BY <1>0 DEF PlainInv, UrlsLead
    <3>2. Hop(Page(c)) = Page(c)
      BY <1>1, <3>1, PlainHop DEF Page
    <3> QED BY <1>4, <2>1, <3>2 DEF Urls
  <2>2. CASE h[n - 1] # Page(c)
    <3>1. PICK s \in names : h[n - 1] = <<s>> /\ born[s] > n - 1
      BY <1>6, <2>2
    <3>2. <<s>> \in former[c]
      BY <1>6, <2>2, <3>1 DEF Urls
    <3>3. <<s>> \in DOMAIN redirects /\ redirects[<<s>>] \in Urls(c)
      BY <1>0, <3>2 DEF PlainInv, UrlsLead
    <3>4. h[n] = redirects[<<s>>]
      BY <1>1, <1>4, <3>1, <3>3, PlainHop
    <3>5. PICK a, b \in names : <<s>> = <<a>> /\ redirects[<<s>>] = <<b>> /\ born[a] < born[b]
      BY <1>1, <3>3 DEF Onward
    <3>6. a = s
      BY <3>5
    <3>7. born[s] \in Nat /\ born[b] \in Nat /\ n \in Nat
      BY <1>0, <1>1 DEF Onward
    <3>8. born[b] > n
      BY <3>1, <3>5, <3>6, <3>7
    <3> QED BY <3>3, <3>4, <3>5, <3>8
  <2> QED BY <2>1, <2>2
<1>7. \A n \in 0..MaxRouteEdits : Going(n)
  <2> DEFINE Bad == {n \in 0..MaxRouteEdits : ~Going(n)}
  <2> SUFFICES ASSUME Bad # {} PROVE FALSE
    OBVIOUS
  <2>1. Bad \subseteq 0..MaxRouteEdits /\ \A n \in Bad : ~Going(n)
    OBVIOUS
  <2>2. \A n \in 0..MaxRouteEdits : n \notin Bad => Going(n)
    OBVIOUS
  <2> HIDE DEF Bad, Going
  <2>3. PICK n \in Bad : \A j \in Bad : n <= j
    <3>1. Bad \subseteq Nat
      BY <2>1
    <3> QED BY <3>1, LeastExists
  <2>4. n # 0 /\ n \in 0..MaxRouteEdits
    BY <1>5, <2>1
  <2>5. n \in 1..MaxRouteEdits /\ n - 1 \in 0..MaxRouteEdits /\ n - 1 \notin Bad
    BY <2>1, <2>3, <2>4
  <2> QED BY <1>6, <2>1, <2>2, <2>5
<1>8. Going(MaxRouteEdits)
  BY <1>7
<1>9. h[MaxRouteEdits] = Page(c)
  <2> SUFFICES ASSUME h[MaxRouteEdits] # Page(c) PROVE FALSE
    OBVIOUS
  <2>1. PICK s \in names : born[s] > MaxRouteEdits
    BY <1>8
  <2>2. born[s] \in Nat /\ born[s] <= routeEdits
    BY <1>0, <1>1 DEF Onward
  <2> QED BY <1>0, <2>1, <2>2
<1> QED BY <1>2, <1>9

LEMMA OneTypeOnly ==
    ASSUME OneType
    PROVE  ~Multi /\ \A t : Prefix(t) = <<>>
<1>1. Cardinality(DOMAIN types) = 0 \/ Cardinality(DOMAIN types) = 1
  <2>1. CASE DOMAIN types = {}
    BY <2>1, FS_EmptySet
  <2>2. CASE DOMAIN types # {}
    <3>1. PICK t : DOMAIN types = {t}
      BY <2>2 DEF OneType
    <3> QED BY <3>1, FS_Singleton
  <2> QED BY <2>1, <2>2
<1>2. ~Multi
  BY <1>1 DEF Multi
<1> QED BY <1>2 DEF Prefix

\* The edits of a plain tenant, one lemma for each kind.  Nothing is renamed: pages may go,
\* and types come and go one at a time.
LEMMA PagesGo ==
    ASSUME PlainInv, routeEdits \in Nat, routeEdits' \in {routeEdits, routeEdits + 1},
           UNCHANGED <<redirects, names>>, OneType',
           \A c \in DOMAIN categories' : /\ c \in DOMAIN categories /\ categories'[c].slug = categories[c].slug
                                         /\ CategoryRow(categories'[c]) /\ former'[c] = former[c],
           former' = [c \in CategoryIds |-> former'[c]]
    PROVE  PlainInv'
<1>1. PICK born : Onward(born)
  BY DEF PlainInv
<1>2. Onward(born)'
  <2>1. 1..routeEdits \subseteq 1..routeEdits'
    OBVIOUS
  <2> QED BY <1>1, <2>1 DEF Onward
<1>3. SlugsTaken'
  BY DEF PlainInv, SlugsTaken, CategoryRow
<1>4. UrlsLead'
  BY DEF PlainInv, UrlsLead, Urls, Page
<1> QED BY <1>2, <1>3, <1>4 DEF PlainInv

\* A slug that was never used is taken: by a new category, or by one that had another.
LEMMA SlugTaken ==
    ASSUME PlainInv, routeEdits \in Nat, routeEdits' = routeEdits + 1, NEW c \in CategoryIds, NEW slug,
           types' = types, slug \notin names, names' = names \cup {slug},
           NEW row, CategoryRow(row), row.slug = slug,
           categories' = With(categories, c, row),
           \/ c \notin DOMAIN categories /\ former[c] = {} /\ UNCHANGED <<former, redirects>>
           \/ /\ c \in DOMAIN categories /\ redirects' = With(redirects, Page(c), <<slug>>)
              /\ former' = [former EXCEPT ![c] = @ \cup {Page(c)}]
    PROVE  PlainInv'
<1>0. OneType /\ SlugsTaken /\ UrlsLead /\ former = [d \in CategoryIds |-> former[d]]
  BY DEF PlainInv, SlugsTaken
<1>1. PICK born : Onward(born)
  BY DEF PlainInv
<1>2. /\ DOMAIN categories' = DOMAIN categories \cup {c} /\ categories'[c] = row
      /\ \A d \in DOMAIN categories : d # c => categories'[d] = categories[d]
  BY DEF With
<1>3. \A p \in DOMAIN redirects : \E s, n \in names : p = <<s>> /\ redirects[p] = <<n>> /\ born[s] < born[n]
  BY <1>1 DEF Onward
<1>4. <<slug>> \notin DOMAIN redirects
  <2> SUFFICES ASSUME <<slug>> \in DOMAIN redirects PROVE FALSE
    OBVIOUS
  <2>1. PICK s \in names : <<slug>> = <<s>>
    BY <1>3
  <2> QED BY <2>1
<1>5. SlugsTaken'
  <2>1. /\ \A d \in CategoryIds : d # c => former'[d] = former[d]
        /\ former' = [d \in CategoryIds |-> former'[d]]
    BY <1>0
  <2>2. \A d \in DOMAIN categories : categories[d].slug \in names /\ categories[d].slug # slug
    BY <1>0 DEF SlugsTaken
  <2>3. \A d \in DOMAIN categories' : d \in CategoryIds /\ CategoryRow(categories'[d]) /\ categories'[d].slug \in names'
    BY <1>0, <1>2 DEF SlugsTaken
  <2>4. \A d, e \in DOMAIN categories' : categories'[d].slug = categories'[e].slug => d = e
    BY <1>0, <1>2, <2>2 DEF SlugsTaken
  <2> QED BY <2>1, <2>3, <2>4 DEF SlugsTaken, CategoryRow
<1>6. PICK late : late = [s \in names' |-> IF s = slug THEN routeEdits' ELSE born[s]]
  OBVIOUS
<1>7. /\ late \in [names' -> 1..routeEdits'] /\ late[slug] = routeEdits'
      /\ \A s \in names : late[s] = born[s] /\ born[s] < routeEdits'
  <2>1. \A s \in names : born[s] \in 1..routeEdits
    BY <1>1 DEF Onward
  <2>2. \A s \in names : s # slug
    OBVIOUS
  <2> QED BY <1>6, <2>1, <2>2
<1>8. CASE c \notin DOMAIN categories /\ former[c] = {} /\ UNCHANGED <<former, redirects>>
  <2>1. Onward(late)'
    BY <1>3, <1>7, <1>8 DEF Onward
  <2>2. UrlsLead'
    <3> SUFFICES ASSUME NEW d \in DOMAIN categories'
                 PROVE  /\ Page(d)' \notin DOMAIN redirects
                        /\ \A u \in former[d] : u \in DOMAIN redirects /\ redirects[u] \in Urls(d)'
      BY <1>8 DEF UrlsLead
    <3>1. CASE d = c
      BY <1>2, <1>4, <1>8, <3>1 DEF Page
    <3>2. CASE d # c
      BY <1>0, <1>2, <1>8, <3>2 DEF UrlsLead, Page, Urls
    <3> QED BY <3>1, <3>2
  <2> QED BY <1>0, <1>5, <2>1, <2>2 DEF PlainInv, OneType
<1>9. CASE /\ c \in DOMAIN categories /\ redirects' = With(redirects, Page(c), <<slug>>)
           /\ former' = [former EXCEPT ![c] = @ \cup {Page(c)}]
  <2>0. PICK old \in names : old = categories[c].slug
    BY <1>0, <1>9 DEF SlugsTaken
  <2>1. /\ DOMAIN redirects' = DOMAIN redirects \cup {<<old>>} /\ redirects'[<<old>>] = <<slug>>
        /\ \A p \in DOMAIN redirects : p # <<old>> => redirects'[p] = redirects[p]
        /\ <<old>> \notin DOMAIN redirects
    BY <1>0, <1>9, <2>0 DEF With, Page, UrlsLead
  <2>2. Onward(late)'
    <3> SUFFICES ASSUME NEW p \in DOMAIN redirects'
                 PROVE  \E s, n \in names' : p = <<s>> /\ redirects'[p] = <<n>> /\ late[s] < late[n]
      BY <1>7 DEF Onward
    <3>1. CASE p = <<old>>
      BY <1>7, <2>1, <3>1
    <3>2. CASE p \in DOMAIN redirects /\ p # <<old>>
      BY <1>3, <1>7, <2>1, <3>2
    <3> QED BY <2>1, <3>1, <3>2
  <2>3. former'[c] = former[c] \cup {<<old>>} /\ \A d \in CategoryIds : d # c => former'[d] = former[d]
    BY <1>0, <1>9, <2>0 DEF Page
  <2>4. UrlsLead'
    <3> SUFFICES ASSUME NEW d \in DOMAIN categories'
                 PROVE  /\ Page(d)' \notin DOMAIN redirects'
                        /\ \A u \in former'[d] : u \in DOMAIN redirects' /\ redirects'[u] \in Urls(d)'
      BY DEF UrlsLead
    <3>1. CASE d = c
      <4>1. Page(c)' = <<slug>> /\ Urls(c)' = former[c] \cup {<<old>>, <<slug>>}
        BY <1>2, <2>3 DEF Page, Urls
      <4>2. <<slug>> # <<old>>
        BY <2>0
      <4>3. <<slug>> \notin DOMAIN redirects'
        BY <1>4, <2>1, <4>2
      <4>4. \A u \in former[c] : u \in DOMAIN redirects /\ redirects[u] \in former[c] \cup {<<old>>}
        BY <1>0, <1>9, <2>0 DEF UrlsLead, Urls, Page
      <4> QED BY <2>1, <2>3, <3>1, <4>1, <4>3, <4>4
    <3>2. CASE d # c
      <4>1. d \in DOMAIN categories /\ d \in CategoryIds /\ categories'[d] = categories[d]
        BY <1>0, <1>2, <3>2 DEF SlugsTaken
      <4>2. categories[d].slug # old
        BY <1>0, <1>9, <2>0, <3>2, <4>1 DEF SlugsTaken
      <4>3. Page(d)' = Page(d) /\ Urls(d)' = Urls(d) /\ former'[d] = former[d] /\ Page(d) # <<old>>
        BY <2>3, <3>2, <4>1, <4>2 DEF Page, Urls
      <4>4. Page(d) \notin DOMAIN redirects /\ \A u \in former[d] : u \in DOMAIN redirects /\ redirects[u] \in Urls(d)
        BY <1>0, <4>1 DEF UrlsLead
      <4> QED BY <2>1, <4>3, <4>4
    <3> QED BY <3>1, <3>2
  <2> QED BY <1>0, <1>5, <2>2, <2>4 DEF PlainInv, OneType
<1> QED BY <1>8, <1>9

LEMMA RouteStart ==
    ASSUME RoutesAssumption, RouteInit
    PROVE  RouteInv
<1>1. /\ types = <<>> /\ categories = <<>> /\ redirects = <<>> /\ names = {} /\ routeEdits = 0
      /\ former = [c \in CategoryIds |-> {}]
  BY DEF RouteInit
<1>2. DOMAIN types = {} /\ DOMAIN categories = {} /\ DOMAIN redirects = {}
  BY <1>1
<1>3. \E born : Onward(born)
  <2>1. Onward([s \in {} |-> 0])
    BY <1>1, <1>2 DEF Onward
  <2> QED BY <2>1
<1>4. OneType /\ SlugsTaken /\ UrlsLead
  BY <1>1, <1>2 DEF OneType, SlugsTaken, UrlsLead
<1> QED BY <1>1, <1>3, <1>4 DEF RouteInv, PlainInv, RoutesAssumption

\* Categories leave and nothing else changes for the others.
LEMMA Dropped ==
    ASSUME PlainInv, NEW gone, Drop(gone)
    PROVE  /\ \A c \in DOMAIN categories' : /\ c \in DOMAIN categories /\ categories'[c].slug = categories[c].slug
                                            /\ CategoryRow(categories'[c]) /\ former'[c] = former[c]
           /\ former' = [c \in CategoryIds |-> former'[c]]
<1>1. /\ DOMAIN categories' = DOMAIN categories \ gone
      /\ \A c \in DOMAIN categories' : categories'[c] = categories[c]
  BY DEF Drop, Without
<1>2. \A c \in DOMAIN categories : c \in CategoryIds /\ CategoryRow(categories[c])
  BY DEF PlainInv, SlugsTaken
<1>3. former' = [c \in CategoryIds |-> IF c \in gone THEN former[c] \cup {CategoryUrl(c)} ELSE former[c]]
  BY DEF Drop
<1> QED BY <1>1, <1>2, <1>3

LEMMA RouteStep ==
    ASSUME RoutesAssumption, RouteInv, [RouteNext]_routeVars
    PROVE  RouteInv'
<1>0. MaxRouteEdits \in Nat /\ routeEdits \in Nat /\ routeEdits <= MaxRouteEdits /\ (routing = "plain" => PlainInv)
  BY DEF RouteInv, RoutesAssumption
<1>1. ASSUME Edit PROVE routeEdits' = routeEdits + 1 /\ routeEdits' \in 0..MaxRouteEdits
  BY <1>0, <1>1 DEF Edit
<1>2. ASSUME PlainInv
      PROVE  /\ ~Multi /\ \A t : Prefix(t) = <<>>
             /\ \A c \in DOMAIN categories : CategoryUrl(c) = Page(c)
             /\ \A c \in DOMAIN categories : CategoryRow(categories[c]) /\ c \in CategoryIds
             /\ former = [c \in CategoryIds |-> former[c]] /\ OneType
  <2>1. ~Multi /\ \A t : Prefix(t) = <<>>
    BY <1>2, OneTypeOnly DEF PlainInv
  <2>2. \A c \in DOMAIN categories : CategoryUrl(c) = Page(c)
    BY <2>1, OneSegment DEF CategoryUrl, Page
  <2> QED BY <1>2, <2>1, <2>2 DEF PlainInv, SlugsTaken
<1>3. CASE UNCHANGED routeVars
  <2>1. /\ UNCHANGED <<types, categories, redirects, former, names, routing, routeEdits>>
    BY <1>3 DEF routeVars
  <2>2. PlainInv => PlainInv'
    BY <1>0, <1>2, <2>1, PagesGo DEF OneType
  <2> QED BY <1>0, <2>1, <2>2 DEF RouteInv
<1>4. ASSUME NEW t \in TypeIds, NEW s \in Segments, CreateListingType(t, s) PROVE RouteInv'
  <2>1. Edit /\ UNCHANGED <<categories, former, names>>
    BY <1>4 DEF CreateListingType
  <2>2. ASSUME routing' = "plain" PROVE PlainInv'
    <3>1. DOMAIN types = {} /\ routing = "plain"
      BY <1>4, <2>2 DEF CreateListingType
    <3>2. redirects' = redirects
      <4>1. Cardinality(DOMAIN types) # 1
        BY <3>1, FS_EmptySet
      <4> QED BY <1>4, <4>1 DEF CreateListingType
    <3>3. OneType'
      BY <1>4, <3>1 DEF CreateListingType, With, OneType
    <3> QED BY <1>0, <1>1, <1>2, <2>1, <3>1, <3>2, <3>3, PagesGo
  <2> QED BY <1>1, <2>1, <2>2 DEF RouteInv
<1>5. ASSUME NEW t \in TypeIds, NEW s \in Segments, UpdateListingType(t, s) PROVE RouteInv'
  <2>1. Edit /\ UNCHANGED <<categories, former, names, routing>>
    BY <1>5 DEF UpdateListingType
  <2>2. ASSUME routing = "plain" PROVE PlainInv'
    <3>1. redirects' = redirects /\ OneType'
      BY <1>0, <1>2, <1>5, <2>2 DEF UpdateListingType, OneType
    <3> QED BY <1>0, <1>1, <1>2, <2>1, <2>2, <3>1, PagesGo
  <2> QED BY <1>1, <2>1, <2>2 DEF RouteInv
<1>6. ASSUME NEW t \in TypeIds, DeleteListingType(t) PROVE RouteInv'
  <2>1. Edit /\ UNCHANGED <<redirects, names, routing>>
    BY <1>6 DEF DeleteListingType
  <2>2. ASSUME routing = "plain" PROVE PlainInv'
    <3>1. OneType'
      BY <1>0, <1>2, <1>6, <2>2 DEF DeleteListingType, Without, OneType
    <3>2. PICK gone : Drop(gone)
      BY <1>6 DEF DeleteListingType
    <3> QED BY <1>0, <1>1, <2>1, <2>2, <3>1, <3>2, Dropped, PagesGo
  <2> QED BY <1>1, <2>1, <2>2 DEF RouteInv
<1>7. ASSUME NEW t \in TypeIds, FirstListing(t) PROVE RouteInv'
  <2>1. UNCHANGED <<types, categories, redirects, former, names, routing, routeEdits>>
    BY <1>7 DEF FirstListing
  <2>2. PlainInv => PlainInv'
    BY <1>0, <1>2, <2>1, PagesGo DEF OneType
  <2> QED BY <1>0, <2>1, <2>2 DEF RouteInv
<1>8. ASSUME NEW c \in CategoryIds, NEW s \in Slugs, UpdateCategory(c, s) PROVE RouteInv'
  <2>1. Edit /\ types' = types /\ c \in DOMAIN categories /\ TakeName(s)
    BY <1>8 DEF UpdateCategory
  <2>2. ASSUME routing' = "plain" PROVE PlainInv'
    <3>1. routing = "plain" /\ s \notin names /\ names' = names \cup {s}
      BY <2>1, <2>2 DEF TakeName
    <3>2. PICK row : row = [categories[c] EXCEPT !.slug = s]
      OBVIOUS
    <3>3. CategoryRow(row) /\ row.slug = s
      BY <1>0, <1>2, <2>1, <3>1, <3>2 DEF CategoryRow
    <3>4. categories' = With(categories, c, row)
      BY <1>8, <2>1, <3>2 DEF UpdateCategory, With
    <3>5. redirects' = With(redirects, Page(c), <<s>>)
      BY <1>0, <1>2, <1>8, <2>1, <3>1, OneSegment DEF UpdateCategory, Renamed
    <3>6. former' = [former EXCEPT ![c] = @ \cup {Page(c)}]
      BY <1>0, <1>2, <1>8, <2>1, <3>1 DEF UpdateCategory
    <3> QED BY <1>0, <1>1, <2>1, <3>1, <3>3, <3>4, <3>5, <3>6, SlugTaken
  <2> QED BY <1>1, <2>1, <2>2 DEF RouteInv
<1>9. ASSUME NEW c \in CategoryIds, NEW s \in Slugs, NEW t \in TypeIds, NEW p \in CategoryIds \cup {NoParent},
             CreateCategory(c, t, s, p)
      PROVE  RouteInv'
  <2>1. /\ Edit /\ types' = types /\ c \notin DOMAIN categories /\ TakeName(s) /\ former[c] = {}
        /\ UNCHANGED <<former, redirects>>
    BY <1>9 DEF CreateCategory
  <2>2. ASSUME routing' = "plain" PROVE PlainInv'
    <3>1. routing = "plain" /\ s \notin names /\ names' = names \cup {s}
      BY <2>1, <2>2 DEF TakeName
    <3>2. PICK row : row = [type |-> t, slug |-> s, parent |-> p]
      OBVIOUS
    <3>3. CategoryRow(row) /\ row.slug = s
      BY <3>2 DEF CategoryRow
    <3>4. categories' = With(categories, c, row)
      BY <1>9, <3>2 DEF CreateCategory
    <3> QED BY <1>0, <1>1, <2>1, <3>1, <3>3, <3>4, SlugTaken
  <2> QED BY <1>1, <2>1, <2>2 DEF RouteInv
<1>10. ASSUME NEW c \in CategoryIds, NEW p \in CategoryIds \cup {NoParent}, MoveCategory(c, p) PROVE RouteInv'
  <2>1. Edit /\ c \in DOMAIN categories /\ UNCHANGED <<types, redirects, former, names, routing>>
    BY <1>10 DEF MoveCategory
  <2>2. ASSUME routing = "plain" PROVE PlainInv'
    <3>1. PICK row : row = [categories[c] EXCEPT !.parent = p]
      OBVIOUS
    <3>2. CategoryRow(row) /\ row.slug = categories[c].slug
      BY <1>0, <1>2, <2>1, <2>2, <3>1 DEF CategoryRow
    <3>3. /\ DOMAIN categories' = DOMAIN categories /\ categories'[c] = row
          /\ \A d \in DOMAIN categories : d # c => categories'[d] = categories[d]
      BY <1>10, <2>1, <3>1 DEF MoveCategory
    <3>4. OneType'
      BY <1>0, <1>2, <2>1, <2>2 DEF OneType
    <3>5. \A d \in DOMAIN categories' : /\ d \in DOMAIN categories /\ categories'[d].slug = categories[d].slug
                                        /\ CategoryRow(categories'[d]) /\ former'[d] = former[d]
      BY <1>0, <1>2, <2>1, <2>2, <3>2, <3>3
    <3> QED BY <1>0, <1>1, <1>2, <2>1, <2>2, <3>4, <3>5, PagesGo
  <2> QED BY <1>1, <2>1, <2>2 DEF RouteInv
<1>11. ASSUME NEW c \in CategoryIds, DeleteCategory(c) PROVE RouteInv'
  <2>1. Edit /\ UNCHANGED <<types, redirects, names, routing>>
    BY <1>11 DEF DeleteCategory
  <2>2. ASSUME routing = "plain" PROVE PlainInv'
    <3>1. OneType'
      BY <1>0, <1>2, <2>1, <2>2 DEF OneType
    <3>2. PICK gone : Drop(gone)
      BY <1>11 DEF DeleteCategory
    <3> QED BY <1>0, <1>1, <2>1, <2>2, <3>1, <3>2, Dropped, PagesGo
  <2> QED BY <1>1, <2>1, <2>2 DEF RouteInv
<1> QED BY <1>3, <1>4, <1>5, <1>6, <1>7, <1>8, <1>9, <1>10, <1>11 DEF RouteNext

\* The invariant of the configuration commands: while a tenant has one type and reuses no
\* slug, each redirect leads from a URL of a category to a younger one of the same category.
THEOREM RouteInvariance == RouteSpec => []RouteInv
<1>1. RouteInit => RouteInv
  BY RoutesAssumption, RouteStart
<1>2. RouteInv /\ [RouteNext]_routeVars => RouteInv'
  BY RoutesAssumption, RouteStep
<1> QED BY <1>1, <1>2, PTL DEF RouteSpec

\* Whatever was renamed and deleted, and however often, a client that follows the redirects
\* from any URL a category ever had arrives at its page (_update_category, _match_redirect).
THEOREM LinksCorrect == RouteSpec => []OldLinksLead
<1>1. RouteInv => OldLinksLead
  <2> SUFFICES ASSUME RouteInv, routing = "plain", NEW c \in DOMAIN categories,
                      NEW url \in former[c] \cup {CategoryUrl(c)}
               PROVE  Served(Followed(url)) = {c}
    BY DEF OldLinksLead
  <2>1. PlainInv /\ MaxRouteEdits \in Nat
    BY RoutesAssumption DEF RouteInv, RoutesAssumption
  <2>2. ~Multi /\ CategoryUrl(c) = Page(c)
    BY <2>1, OneTypeOnly, OneSegment DEF PlainInv, CategoryUrl, Page
  <2>3. Followed(url) = Page(c)
    BY <2>1, <2>2, WayEnds DEF Urls
  <2>4. Matching(Page(c)) = {}
    <3>1. PICK born : Onward(born)
      BY <2>1 DEF PlainInv
    <3> QED BY <2>1, <3>1, PlainHop DEF PlainInv, UrlsLead, Page
  <2>5. Len(Page(c)) = 1 /\ Page(c)[1] = categories[c].slug
    BY OneSegment DEF Page
  <2>6. Dispatch(Page(c)) = {c}
    BY <2>1, <2>2, <2>5 DEF Dispatch, PlainInv, SlugsTaken
  <2> QED BY <2>3, <2>4, <2>6 DEF Served
<1> QED BY <1>1, RouteInvariance, PTL
=============================================================================
