---------------------------- MODULE TenantSettings ----------------------------
(***************************************************************************)
(* First-run set-up and the settings of its directory                      *)
(* (tenants/wizard/views.py, tenants/services.py, adapter_settings.py,     *)
(* billing/settings_service.py).                                           *)
(*                                                                         *)
(* A request loads the tenant row once; a save writes the whole settings   *)
(* document back from that copy, without a lock, and the secret store in   *)
(* the same transaction.  The next step of the wizard is worked out from   *)
(* the rows, never from a cursor.                                          *)
(***************************************************************************)
EXTENDS Integers, FiniteSets

CONSTANTS
    SettingsPages,  \* requests under way
    SmtpHosts,      \* mail hosts an admin may type
    SiteNames,      \* domains an admin may type
    Unset,          \* no domain, no host, no block
    MaxSaves        \* bound: saves of settings in one behaviour

ASSUME SettingsAssumption ==
    /\ Unset \notin SmtpHosts \cup SiteNames \cup {"empty"} /\ "empty" \notin SmtpHosts
    /\ MaxSaves \in Nat

VARIABLES
    install,     \* [token, account, tenant, member, completed]
    document,    \* the tenant row: [domain, verified, challenge, smtp, user, blocks]
    password,    \* the stored smtp_password: the host it was typed for, or Unset
    opening,     \* opening[r]: [at, copy]: the request's copy of the row
    proved,      \* history: domains for which the challenge was answered
    staleSave,   \* history: a save wrote over a row changed since its copy was read
    saves        \* history: how many saves there were

settingsVars == <<install, document, password, opening, proved, staleSave, saves>>

\* The blocks next to "smtp" that a page saves whole.
Blocks == {"storage", "claim_verification", "leads", "adapters"}

EmptyDocument == [domain |-> Unset, verified |-> FALSE, challenge |-> FALSE,
                  smtp |-> Unset, user |-> FALSE, blocks |-> {}]

Closed == [at |-> "idle", copy |-> EmptyDocument]

SettingsInit ==
    /\ install = [token |-> FALSE, account |-> FALSE, tenant |-> FALSE, member |-> FALSE,
                  completed |-> FALSE]
    /\ document = EmptyDocument /\ password = Unset
    /\ opening = [r \in SettingsPages |-> Closed]
    /\ proved = {} /\ staleSave = FALSE /\ saves = 0

\* next_step: the first step whose work is not in the data yet.
NextStep(doc) ==
    CASE ~install.account -> "account"
      [] install.account /\ ~install.tenant -> "directory"
      [] OTHER ->
         IF doc.domain = Unset THEN "domain"
         ELSE IF "storage" \notin doc.blocks THEN "storage"
         ELSE IF doc.smtp = Unset THEN "smtp"
         ELSE IF "claim_verification" \notin doc.blocks THEN "claims" ELSE "done"

\* A page is served by the wizard until set-up completes, by the site after it.
InWizard == install.token /\ ~install.completed

-----------------------------------------------------------------------------
\* ensure_setup_token: mints once; a second container loses the race on pk 1.
EnsureSetupToken ==
    /\ ~install.token
    /\ install' = [install EXCEPT !.token = TRUE]
    /\ UNCHANGED <<document, password, opening, proved, staleSave, saves>>

\* The account step: create_superadmin when no operator exists.
CreateAccount ==
    /\ InWizard /\ ~install.account
    /\ install' = [install EXCEPT !.account = TRUE]
    /\ UNCHANGED <<document, password, opening, proved, staleSave, saves>>

\* The directory step is two transactions: create_tenant, and then
\* add_bootstrap_membership, which a crash between them leaves undone.
CreateTenant(r) ==
    /\ InWizard /\ NextStep(document) = "directory" /\ opening[r].at = "idle"
    /\ install' = [install EXCEPT !.tenant = TRUE]
    /\ opening' = [opening EXCEPT ![r].at = "bootstrap"]
    /\ UNCHANGED <<document, password, proved, staleSave, saves>>

AddBootstrapMembership(r) ==
    /\ opening[r].at = "bootstrap"
    /\ install' = [install EXCEPT !.member = TRUE]
    /\ opening' = [opening EXCEPT ![r] = Closed]
    /\ UNCHANGED <<document, password, proved, staleSave, saves>>

\* A request loads the tenant row (_first_tenant, or the middleware).
OpenPage(r) ==
    /\ install.tenant /\ opening[r].at = "idle" /\ saves < MaxSaves
    /\ opening' = [opening EXCEPT ![r] = [at |-> "open", copy |-> document]]
    /\ UNCHANGED <<install, document, password, proved, staleSave, saves>>

\* Refused, shown again, or its process gone: nothing more is written.
ClosePage(r) ==
    /\ opening[r].at # "idle"
    /\ opening' = [opening EXCEPT ![r] = Closed]
    /\ UNCHANGED <<install, document, password, proved, staleSave, saves>>

\* tenant.save(update_fields=["settings"]): the copy's document, with what the
\* page changed in it; the domain columns are not written.
Written(doc) == [doc EXCEPT !.domain = document.domain, !.verified = document.verified]

SettingsPart(doc) == [doc EXCEPT !.domain = Unset, !.verified = FALSE]

\* update_tenant_settings of a page whose copy becomes doc.
SaveDocument(r, doc) ==
    /\ document' = Written(doc)
    /\ staleSave' = (staleSave \/ SettingsPart(opening[r].copy) # SettingsPart(document))
    /\ saves' = saves + 1
    /\ opening' = [opening EXCEPT ![r] = Closed]
    /\ UNCHANGED <<install, proved>>

-----------------------------------------------------------------------------
\* host_change_needs_password, on the request's copy.
HostChangeNeedsPassword(copy, host, user) ==
    /\ user /\ host # copy.smtp
    /\ copy.smtp \in SmtpHosts \/ password # Unset

\* Faulty variant: clearing the username leaves the password behind.
PasswordAfter_KeptWithoutUser(host, user, typed) ==
    IF typed = "new" THEN host ELSE IF typed = "clear" THEN Unset ELSE password

\* What becomes of the stored password: a typed one replaces it; "clear", and
\* a block with no username, remove it.
PasswordAfter(host, user, typed) ==
    IF typed = "new" THEN host
    ELSE IF typed = "clear" \/ ~user THEN Unset ELSE password

\* _apply_mail_settings.  In the wizard the step needs the storage block.
UpdateMailSettings(r, host, user, typed) ==
    LET copy == opening[r].copy IN
    /\ opening[r].at = "open" /\ saves < MaxSaves
    /\ InWizard => "storage" \in copy.blocks
    /\ typed = "keep" => ~HostChangeNeedsPassword(copy, host, user)
    /\ SaveDocument(r, [copy EXCEPT !.smtp = host, !.user = user])
    /\ password' = PasswordAfter(host, user, typed)

\* The wizard's Skip: an empty block, and no password.
SkipMailSetup(r) ==
    LET copy == opening[r].copy IN
    /\ opening[r].at = "open" /\ InWizard /\ "storage" \in copy.blocks /\ saves < MaxSaves
    /\ SaveDocument(r, [copy EXCEPT !.smtp = "empty", !.user = FALSE])
    /\ password' = Unset

\* save_settings_page and the two _apply_adapter_settings: one block saved
\* whole.  Storage and claims are wizard steps; leads and adapters are pages
\* of the site.
SaveBlock(r, block) ==
    LET copy == opening[r].copy IN
    /\ opening[r].at = "open" /\ saves < MaxSaves
    /\ \/ block = "storage" /\ InWizard /\ copy.domain # Unset
       \/ block = "claim_verification" /\ InWizard /\ copy.smtp # Unset
       \/ block \in {"leads", "adapters"} /\ install.completed
    /\ SaveDocument(r, [copy EXCEPT !.blocks = @ \cup {block}])
    /\ UNCHANGED password

\* _apply_tenant_domain writes the domain, takes the verification away and
\* saves the document with a challenge; the row is then read again, and the
\* page goes on to verify it or ends.
SetTenantDomain(r, name) ==
    LET copy == opening[r].copy
        row == [copy EXCEPT !.domain = name, !.verified = FALSE, !.challenge = TRUE]
    IN
    /\ opening[r].at = "open" /\ InWizard /\ saves < MaxSaves
    /\ document' = row
    /\ staleSave' = (staleSave \/ SettingsPart(copy) # SettingsPart(document))
    /\ saves' = saves + 1
    /\ \/ opening' = [opening EXCEPT ![r] = Closed]
       \/ opening' = [opening EXCEPT ![r] = [at |-> "checking", copy |-> row]]
    /\ UNCHANGED <<install, password, proved>>

\* check_domain_http: the answer is about the domain in the request's copy.
CheckDomain(r) ==
    /\ opening[r].at = "checking" /\ opening[r].copy.challenge
    /\ proved' = proved \cup {opening[r].copy.domain}
    /\ opening' = [opening EXCEPT ![r].at = "proved"]
    /\ UNCHANGED <<install, document, password, staleSave, saves>>

\* mark_domain_verified: only the timestamp is written, to whatever domain the
\* row has by now.
MarkDomainVerified(r) ==
    /\ opening[r].at = "proved"
    /\ document' = [document EXCEPT !.verified = TRUE]
    /\ staleSave' = (staleSave \/ opening[r].copy.domain # document.domain)
    /\ opening' = [opening EXCEPT ![r] = Closed]
    /\ UNCHANGED <<install, password, proved, saves>>

\* The last step, allowed when every earlier one is in the data.
CompleteSetup ==
    /\ InWizard /\ NextStep(document) = "done"
    /\ install' = [install EXCEPT !.completed = TRUE]
    /\ UNCHANGED <<document, password, opening, proved, staleSave, saves>>

SettingsNext ==
    \/ EnsureSetupToken \/ CreateAccount \/ CompleteSetup
    \/ \E r \in SettingsPages :
        \/ CreateTenant(r) \/ AddBootstrapMembership(r) \/ OpenPage(r) \/ ClosePage(r)
        \/ \E host \in SmtpHosts, user \in BOOLEAN, typed \in {"keep", "new", "clear"} :
            UpdateMailSettings(r, host, user, typed)
        \/ SkipMailSetup(r)
        \/ \E block \in Blocks : SaveBlock(r, block)
        \/ \E name \in SiteNames : SetTenantDomain(r, name)
        \/ CheckDomain(r) \/ MarkDomainVerified(r)

SettingsSpec == SettingsInit /\ [][SettingsNext]_settingsVars

-----------------------------------------------------------------------------
DocumentType ==
    [domain : SiteNames \cup {Unset}, verified : BOOLEAN, challenge : BOOLEAN,
     smtp : SmtpHosts \cup {Unset, "empty"}, user : BOOLEAN, blocks : SUBSET Blocks]

\* The set-up row, the tenant row and the copies requests hold keep their shape.
SettingsTypeOK ==
    /\ install \in [token : BOOLEAN, account : BOOLEAN, tenant : BOOLEAN, member : BOOLEAN,
                    completed : BOOLEAN]
    /\ document \in DocumentType
    /\ password \in SmtpHosts \cup {Unset}
    /\ opening \in [SettingsPages ->
                    [at : {"idle", "bootstrap", "open", "checking", "proved"},
                     copy : DocumentType]]
    /\ proved \subseteq SiteNames /\ staleSave \in BOOLEAN /\ saves \in 0..MaxSaves

\* domain_may_get_certificate: the proxy's question, answered from the row.
MayGetCertificate(name) == document.domain = name /\ document.verified

\* As long as no save wrote over a row that had changed under it: the stored
\* mail password is only ever kept next to the host it was typed for, a
\* certificate is only given for a domain whose challenge was answered, and a
\* completed set-up has every block its steps were to write.
SettingsHeld ==
    ~staleSave =>
        /\ password # Unset => document.smtp = password
        /\ \A name \in SiteNames : MayGetCertificate(name) => name \in proved
        /\ install.completed => NextStep(document) = "done"
=============================================================================
