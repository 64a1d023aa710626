# OSDS: a TLA+ verification of its protocols

OSDS is a multi-tenant directory server (Django, Postgres). Requests change tables and
append events to an outbox in the same transaction; one worker process then delivers the
events to adapters, sends mail, imports files, rebuilds derived data and moves
subscriptions on as time passes. This directory models the parts in which several
requests, processes, crashes, retries and the clock meet.

## 1. Inventory

| Component | State it keeps | Operations | What is hard about it |
|---|---|---|---|
| Outbox and drain (`audit/outbox.py`, `audit/worker/drain.py`, `audit/deliveries.py`) | `OutboxEvent`, `OutboxDelivery` | `emit`, fan-out, claim, attempt, record, `delivery.replay` | rows are unlocked while a subscriber works; at-least-once; order per subject |
| Worker process (`audit/worker/loop.py`, `singleton.py`, `run_worker.py`, `tick.py`) | an advisory lock, one clock value per pass, last-run times | passes, tick jobs | lock on a separate connection that is never looked at again; kills |
| Retention (`audit/worker/retention.py`) | – | null payloads and addresses, purge logs | selects in one statement, writes in another |
| Outbound mail (`audit/mail.py`, `audit/worker/mail_drain.py`) | `OutboundMessage` with a plaintext secret | `enqueue`, claim, attempt, record | no attempt ceiling; the deadline alone retires a message |
| Entitlements (`billing/machine.py`, `entitlements.py`, `commands.py`, `jobs.py`) | `Entitlement`, `Listing.current_tier`, `Listing.visibility` | 15 reachable triggers, by reports, owners, operators and the clock | reports in any order; the clock job works on rows it read earlier |
| Tiers (`billing/tiers.py`) | `Tier` | create, update, delete | what is shown is a copy |
| Payment reports, checkout (`billing/reports.py`, `payments.py`, `inbound.py`) | `PaymentReceipt`, `CheckoutAttempt` | report, start checkout, cancel | duplicate and reordered events; a provider in the middle of a command |
| Claims (`directory/claims.py`, `claim_review.py`, parts of `services.py`) | `Claim`, `ClaimVerificationGuard`, `ModerationItem`, `Listing.owner` | submit, start, verify, approve, reject, unlock, unblock, notices | counters per pair; rival claims under `skip_locked`; what only a human can end |
| Import (`directory/importing.py`, parts of `services.py`, `admin_views.py`) | `ImportBatch`, `ImportBatchListing` | upload, run, row loop, finish, sweep, rollback | several commits per row; rollback against edits, claims and leads made since |
| Leads (`directory/leads.py`, `lead_notices.py`) | `Lead`, the notices in the mail table | create, mark spam, notify, flush | a throttle and a count read from rows that open transactions will add |
| Rate limits (`audit/ratelimit.py`) | `RateLimitCounter` | check, prune | counters under concurrency, the edge of a window |
| Owner sign-in (`directory/owner_auth.py`) | `OwnerSignInToken`, `OwnerSession` | request a link, spend it, visit, sign out | a link spent twice, or after a newer one |
| Operators (`tenants/operator_invites.py`, parts of `tenants/services.py`) | `Operator`, `StaffMembership`, `OperatorInvite` | invite, issue, set password | row locks in opposite orders; a stale link and a credential |
| Public routes (`directory/services.py`, `public_views.py`, `routing.py`) | `ListingType`, `Category`, `PathRedirect` | create, rename, move, delete; dispatch | redirects written one rename at a time, read by longest prefix |
| Search (`directory/search.py`) | `Listing.search_vector`, `SearchReindexJob` | upsert, markers, drain | derived data behind markers that are read, worked off and stamped in steps |
| Sitemaps (`directory/sitemaps.py`) | files of a generation, a pointer | plan, render, publish, clear | files without a transaction; a fingerprint taken before the rendering |
| Set-up and settings (`tenants/wizard/views.py`, `tenants/services.py`) | `InstallSetup`, `Tenant`, `Secret` | wizard steps, settings saves, domain check | a whole document written back from a copy |
| Command log (`audit/command_log.py`) | `CommandLog` | received, concluded | idempotency keys, where a command reads them |
| Adapters (`adapters/*`, `osds/adapters.py`) | third-party state | webhook, SMTP, Stripe | seen from the core only as results, exceptions and reports |
| Media, owner edits, pages, envelopes, tenancy middleware | files, rendering | CRUD, conversion | little: one transaction each, no protocol |

The components interact through tables only. A command's transaction calls `emit` and
`enqueue`; the worker's pass drains the outbox, then the mail queue, then an import chunk,
then runs the tick jobs that are due (entitlement transitions, retention), all with the
clock value the pass began with.

## 2. Modules

| Module | Models | State | Actions |
|---|---|---|---|
| `Chunking` | "the first rows by id, up to a cap" (`_first_ids`, the slices in the claims and jobs) | – | – |
| `Outbox` | outbox, drain, worker process, payload retention, replay | `evState`, `status`, `attempt`, `nextAt` are columns; `phase`, `now`, `todo`, `batch`, `row`, `nulls` are what a worker process remembers; `lockHolder` is the advisory lock | `Emit`, `Start`/`Crash`/`Reap`/`LoseLock`, `StartPass`, `FanOut`, `Claim`, `Fetch`, `Finish`, `EndPass`, `NullSelect`, `NullApply`, `Replay`, `Tick` |
| `DeliveryContract` | what a subscriber may rely on, with no workers, clocks or retries | `outcome`, `position`, `reopened` | `Publish`, `Settle`, `Reopen` |
| `MailQueue` | mail queue, drain, address retention | columns of `OutboundMessage`; a worker's memory; `accepted`, how often the provider said ok | `Enqueue`, `Claim`, `Fetch`, `Expire`, `Unconfigured`, `Send`, `Accept`, `RecordSent`, `RecordFailed`, `WipeSelect`, `WipeApply`, `Configure`, `Crash`, `Tick` |
| `EntitlementMachine` | the transition table and `_mutate` (operators only) | – | – |
| `Entitlements` | `apply_trigger` under all its callers, tiers, visibility | `ent`, `currentTier`, `visibility`, `rank`; `jobNow`, `jobRows` are the clock job's memory | `Report`, `CancelEntitlement`, `GrantComp`, `RevokeComp`, `OverrideEntitlement`, `SelectRows`, `ApplyRow`, `CreateTier`, `UpdateTier`, `DeleteTier`, `SetVisibility`, ... |
| `Claims` | claims, codes, review, disputes, the queue, operator notices | `claims` (with the deadline of each claim's last code message, `mail_until`, and of those it replaced), `guard`, `items`, `owner` are tables; `locked` the row locks of open commands; `submitting` what a submission read | `SubmitRead`, `SubmitClaim`, `LockClaim`, `StartVerification`, `EnterWrongCode`, `EnterCorrectCode`, `Approve`, `Reject`, `UnlockVerification`, `UnblockClaims`, `FlushNotices`, ... |
| `Payments` | checkout, events and receipts, the owner's cancel, with the provider's subscription | `attempt`, `receipt`, `concluded`, `entitlement`; `subscription` and `sent` are the provider; `request`, `cancel` are requests under way; `effects`, `creator` are history | `StartCheckout`, `ProviderMoves`, `Deliver`, `BeginReport`, `ApplyReport`, `CreateEntitlement`, `IgnoreReport`, `FinishAttempt`, `CancelRead`, `CancelAsk`, `CancelApply`, `RequestDies`, ... |
| `Imports` | upload, row loop, pre-image sweep, rollback | `batch`, `listing`, `prov`, `logged`; `loop`, `sweep`, `undo` are what each process remembers | `Upload`, `Run`, `ClaimBatch`, `BeginBatch`, `ProcessRow`, `ConcludeRow`, `BumpRow`, `ChunkDone`, `FinishBatch`, `SweepSelect`, `SweepApply`, `RollbackCheck`, `RollbackApply`, `WorkerDies`, ... |
| `Leads` | leads and their notices, statement by statement | `lead`, `leadNotice`; `notice` is how far each open transaction (a lead's, or the flush's) is with telling each recipient | `CreateLead`, `ReadLast`, `CountLeads`, `QueueNotice`, `CommitLead`, `BeginFlush`, `CommitFlush`, `WindowPasses`, `MarkSpam`, `Handover`, `CloseListing` |
| `RateLimits` | fixed-window limits | `count`; `call` is each request under way | `Request`, `Hit`, `LogBlocked`, `EndRequest`, `NextWindow`, `Prune` |
| `SignIn` | owner links and sessions | `link`, `session`; `asking`, `spending` hold row locks | `AskRead`, `AskLock`, `AskCommit`, `SpendBegin`, `SpendLock`, `SpendCommit`, `Visit`, `SignOut`, ... |
| `Operators` | operators, memberships, set-password links | `operator`, `membership`, `invite`; `issuing`, `spend` hold row locks | `InviteNew`, `InviteKnown`, `IssueLock`, `IssueCommit`, `SetPasswordLock`, `SetPasswordCommit`, `BreakDeadlock`, ... |
| `Routes` | types, categories, redirects and the dispatch | `types`, `categories`, `redirects` | one per command of the admin |
| `SearchIndex` | the vector and its markers | `vector`, `markers` and what a vector is made of; `drain` is a call under way | `BeginUpsert`, `EndUpsert`, `RenameCategory`, `ChangeSchema`, `DrainRead`, `DrainWrite`, `DrainFinish`, `DrainDies`, ... |
| `Sitemaps` | the stored sitemap | `stored`, `pointer`; `builder` is the job under way | `PlanRebuild`, `RenderListings`, `RenderCategories`, `SaveFiles`, `DeletePointer`, `SavePointer`, `DropOld`, `PlanClear`, `ClearPointer`, `BuilderDies`, ... |
| `TenantSettings` | wizard and settings | `install`, `document`, `password`; `opening` is each request's copy of the row | one per step or page |
| `MCOutbox`, `MCMailQueue`, `MCEntitlements`, `MCAccounts`, `MCIntake`, `MCSite` | instances for TLC | | |
| `OutboxProofs`, `MailQueueProofs`, `RateLimitsProofs`, `EntitlementsProofs`, `ClaimsProofs` | the theorems about the module of that name | | |
| `AccountsProofs` | the theorems about `SignIn` and `Operators` | | |
| `IntakeProofs` | the theorems about `Payments`, `Imports` and `Leads` | | |
| `SiteProofs` | the theorems about `TenantSettings`, `Sitemaps`, `SearchIndex` and `Routes` | | |

`MCAccounts`, `MCIntake` and `MCSite` each bring three to five components together that
share no variable. A behaviour chooses one of them in its first state (`part`) and leaves
the rest alone: interleaving steps that cannot meet would multiply the states and show
nothing. Where components do meet, the module has the other one's step as an action of its
own: a comp, a lapse and an expiry in `Payments` (which takes its transition table from
`EntitlementMachine`), a claim or a lead in `Imports`, a handover in `Leads` and `SignIn`,
the mail worker in `SignIn` and `Operators`. In `Claims` the worker is no step: a message has its
deadline, and what a pass may still send follows from the clock it began with.

How the code is cut into steps: a transaction is one step; where the code runs statements
on their own (autocommit) each is a step; a call of an adapter or provider lies between two
steps. Whatever a process read stays in a variable until it is used. `Tick` may happen
between any two steps, so that a pass may take arbitrarily long.

What is abstracted: payloads, names, texts and error strings; batch and chunk sizes (any
size is tried: `Chunks`, `Batches`); the jitter (any value of its range); durations (small
numbers whose order matters). A listing's content, a search vector and a sitemap are the
inputs they were made of, a claim's code is "the one issued last" or a wrong one, a
password is the host it was typed for. Row locks are modelled where two transactions can
be open at once and the order of their locks decides the outcome. A delivery is the pair of its event and its adapter
(the table's unique constraint), and its id is represented by the moment its event was
fanned out: deliveries of one stream come from different events, so ties do not matter.
A tick job may or may not be due in a pass (`EndPass` against `NullSelect`, `WipeSelect`).
Operators named `X_Something` with the comment "Faulty variant" are plausible mistakes; no
specification uses them, they show that a property would notice. Variables marked
"history" record what a property needs. The one guard that reads such a variable is
`Routes.CreateCategory`, which looks in `former` for a category's id because the database
never gives out an id twice.

## 3. What is checked

| Run | Properties | Shows |
|---|---|---|
| `outbox` | `TypeOK`, `StreamOrder`, `OneHandler`, `OutcomeIsRecorded`, `PayloadPresent`, `ImplementsContract`, `Settles` | while the lock holds: one handler per delivery, order per subject, no outcome lost, the contract, and everything settles in spite of kills |
| `outbox_overlap` | `PendingHasBudget`, `RetryHorizon`, `FannedOutOnce` | what survives even the loss of the lock and two workers with different adapters |
| `outbox_stale` | `DeliveredIsFinal` (violated) | with two workers a stale outcome can reopen a delivered row |
| `outbox_replay_race` | `PendingHasPayload` (violated) | a replay between retention's two statements |
| `mail` | `TypeOK`, `SecretLifetime`, `RepeatsNeedCrashes`, `Retires` | secrets live as long as their message may be sent; a repeat needs a kill; every message is retired |
| `mail_late` | `NeverSentLate` (violated) | a long pass sends past the deadline |
| `entitlements` | `TypeOK`, `TierInUse`, `ShownTier`, `DeadlineSet`, `ExpiryHides`, `DunningNotExtended`, `DeadlinesAreActedOn`, `JobRespectsPayments`, `DraftStands` | tiers, deadlines and visibility stay consistent under every caller and the clock |
| `entitlements_job` | `JobSkipsMovedRows` (violated) | a row that moved ends the job rather than being skipped |
| `accounts` | `OneOwner`, `OwnerKept`, `GuessBudget`, `QueueComplete`, `NoDeadCodeMailed`, `LinkOnce`, `InviteOnce` | rival claims leave one owner, verification alone takes nothing from him, guesses are bounded between two unlocks, all that waits for a human is in the queue, no mail pass that begins later sends a dead code; links work once |
| `intake` | `EffectOnce`, `PurchaseKept`, `RollbackRestores`, `EvidenceKept`, `LeadReported` | a payment event counts once however it is delivered and is not dropped as a repeat of itself, a rollback restores what the batch found and keeps evidence it saw, a lead no notice overlapped is told once and not lost |
| `site` | `OldLinksLead`, `VectorFresh`, `SitemapFresh`, `SettingsHeld`, `LimitHeld` | in a tenant of one type in which no slug is used twice, redirects lead every old link to its page; no stale vector is without a marker; a sitemap taken for current is current; as long as no save overtakes another, the mail password and the certificate stay with what they were given for; limits hold under parallel requests |
| `import_crash` | `CompletedWhole` (violated) | a death between claim and count completes a batch after one chunk |

The five violated properties each state a sentence of the source's own documentation without
the condition it needs; `PROJECT.json` quotes the lines under "findings".

**Bounds.** Two events with one subject and one adapter form the smallest stream; two worker
processes are the least that can overlap or take over; `MaxAttempts = 2` has a first, a last
and no further attempt; `Visibility = BackoffCap = 1` and `MaxClock = 2` let a claim lapse and
be taken again; a hint of 2 is above the cap; one crash, one lost lock and one replay are each
enough for the races they cause, and the two runs keep them apart to stay small. Mail has two
messages with deadlines one and two units away and a clock of three. Entitlements has one
listing (`apply_trigger` touches one, and the tier commands see any), two tiers, with and
without a free one, and any three commands; every window is one unit, so that a whole
lapse (active, past due, grace, expired) fits the clock. A step whose schedule would lie
beyond `MaxClock` is not taken: a crash, a retry or a re-check that could only come due after
the end of time would otherwise look like a liveness failure.
Deadlock checking is on in these runs: every model can always make another pass.

`accounts`: two claimants of one listing and two claims are a rivalry; two wrong codes per
cooldown and two cooldowns reach the lock; one rejection blocks; an editor and a moderator
differ in what they may decide; a send window of one unit ends within the clock. Two links,
two requests and two browsers are the least that can cross; one operator with two
directories and two links can be invited, re-issued and raced. `intake`: three provider
events, each deliverable any number of times to two requests of which one may die; two
files of three rows with chunks of two, so that a listing is touched twice, a chunk ends
inside the file, and rows are created, updated, suppressed, invalid and fatal (the second
file may be unreadable); two leads on two listings that may share an owner, and a flush: two
transactions are the least that can read, count and queue in between each other, and the
third one finds what they left. `site`: six commands over two types and two categories with
a reserved slug; a chunk of one listing of two, so that a drain takes several calls, and two
drains, the worker's and one run by hand; two
generations of a sitemap and one crash; six saves, which reach the end of the wizard; two
rate-limit rules over two subjects and two windows. These three runs have `CHECK_DEADLOCK FALSE`: when their bounds are used up
(claims, commands, saves, time), nothing is left to do. Symmetry exchanges model values of
one kind only, and no property of these runs is a liveness property.

Several properties name the races they leave out (`raced`, `creator`, `indexRaced`, `torn`,
`drift`, `staleSave`, `routing`). Each of those variables is set by the very step in which
the code lets two transactions pass each other unseen, so the property says that nothing
else goes wrong, and it does not say that the race is harmless. Where a comment of the source
promises more, the promise fails in exactly the excluded cases; section 5 lists them.

**Fairness.** `Tick` (time passes); `Reap` (Postgres drops the session of a dead client);
`Start` (compose restarts an exited worker); `WorkerStep` (the loop never stops by itself and
handlers, the webhook's 25 s deadline for one, come back). Nothing is assumed of people,
payment providers or crashes. The modules added around it have safety properties only.

## 4. What is proved

TLAPS checks the theorems for every set of workers, events, adapters, messages, listings,
claimants, requests and so on, and every value of the other constants that the `ASSUME` of
the component's module allows (`OutboxAssumption`, `NoWorkerAssumption`, `MailAssumption`,
`LimitsAssumption`, `EntitlementsAssumption`, `MachineAssumption`, `ClaimsAssumption`,
`SignInAssumption`, `OperatorAssumption`, `PaymentsAssumption`, `ImportsAssumption`,
`LeadsAssumption`, `SettingsAssumption`, `SitemapAssumption`, `SearchAssumption`,
`RoutesAssumption`): limits and durations are numbers, "nobody" is not somebody. Every safety
property of the passing runs is a theorem.

*Outbox* (`OutboxProofs`). The argument has two layers.

- `BaseInv`: types, `TableInv` (a delivery exists only for a fanned-out event; columns of rows
  that do not exist are at their defaults; orders are below the next one), `WorkerInv` (a
  worker's clock is never ahead; memory is empty outside its phase and names existing rows
  only), `PendingHasBudget` and `RetryHorizon`. It is inductive whatever happens to the lock.
  The strengthening is needed: fan-out makes a row pending and relies on its default attempt
  count, and a schedule is computed from the pass's clock, so that must be bounded by the wall
  clock. It gives `BudgetCorrect`, `HorizonCorrect` and `FanOutCorrect`.
- While `lockDrops = 0`: `LockInv` (a process that is up holds the lock, hence there is one),
  `HeldInv` (claimed rows stay pending and unmoved: nobody else drains, a replay touches dead
  rows only), `OrderInv` (nothing earlier becomes pending behind a claim, except by a replay,
  which leaves its mark), `NullInv` (the same for the events retention selected). Together they
  are `Inv` (`Invariance`), from which `LockCorrect`, `OutcomeCorrect`, `OrderCorrect` and
  `PayloadCorrect` follow.
- `Refinement`: with `MaxLockDrops = 0`, `Spec` implements `DeliveryContract` under the mapping
  in `Outbox!Contract`; fan-out is `Publish`, a recorded outcome `Settle` (or a stutter, for a
  retry), a replay `Reopen`.

*Mail* (`MailQueueProofs`). `TypeCorrect` holds for any number of workers. `SecretCorrect` and
`RepeatsCorrect` assume one worker process (`OneWorker`), which is what `LockCorrect` provides
in the full system; their invariant says that what the worker claimed is still pending, that
the row it fetched has not moved, and that each `ok` so far is recorded, still in its hands, or
was lost in a crash.

*Rate limits* (`RateLimitsProofs`). `LimitCorrect` is `LimitHeld` for any rules, subjects,
windows and number of requests. It is not inductive: nothing in it says why a second request
cannot log the same crossing. `IInv` (`LimitInductive`) adds that on a counter somebody can still
count in, and that has not passed its limit, every hit was let through and nobody is logging; that
at most one request is about to log a counter's crossing, and no row is there yet; and that a
window ahead of the clock is untouched. Pruning is harmless because nobody counts in the window.

*Entitlements* (`EntitlementsProofs`). `IInv` adds to the properties what they rest on: the
columns each status needs, on a row that so many overrides have touched; a row that is not
there looks like a fresh one; the job's clock is not ahead. The proof first settles what
`_mutate` makes of one row for each trigger (`MutateSound`), then what `apply_trigger` makes of
a listing, after which each of its callers only has to show that its parameters are of the
right kind. The action properties (`DunningNotExtended`, `DraftStands`, `JobRespectsPayments`)
follow from the same lemmas: the job re-reads the row under its lock and asks the table again.

*Claims* (`ClaimsProofs`). `OneOwner`, `NoDeadCodeMailed` and `QueueComplete` are inductive
together with two additions; `NoDeadCodeMailed` compares deadlines with the clock of a pass that
begins now, so it survives `Tick` only because a retired message's deadline is already past. `UniqueItems`: there is one open item of a kind for a pair, since
closing one would otherwise leave the pair locked and out of the queue. `BudgetInv`: the wrong
codes since the last unlock are exactly what cooldowns and wrong entries add up to; the limit
alone would not say what the next entry makes of it. `OwnerKept` follows from the step of
each action.

*Sign-in and operators* (`AccountsProofs`). Both rest on who holds a row lock. `SignInInv`: a
lock has one holder, what is under lock is unspent, a replaced link has expired, also in the
eyes of a browser that began later, and there is one session per spent link. `OperatorInv`: at
most one link can be spent now, the spent one gave the operator its password, and a link
carries the membership the operator was made with or none.

*Payments, imports, leads* (`IntakeProofs`). `PayInv`: a request past the insert of its receipt
is alone with its event and nothing is recorded of it yet, and the receipt says "applied" of
exactly the events that took effect, once. For `PurchaseKept` it adds what a request that waits
to create the entitlement stands for: either the row is still missing, or it is there through a
report of the same checkout, which has its receipt and closed the checkout, or somebody else
was faster and `creator` says so. `ImportInv`: the loop works only on a pending or processing
batch and a rollback only on a settled one, so the two are never about one batch; each
provenance row suffices to give its listing back what it held at the upload, and so does what
a rollback has read, whatever the sweep has cleared since. `LeadInv`: for each pair of a recipient and a
lead outside the overlaps there is an account (`Account`). The pair has been told at most once and
no open transaction counts what was told or what another one counts (`Once`); and a lead that
concerns the recipient has been told, is counted by an open transaction, or is younger than every
notice to the recipient that is committed, queued or counted and about to be queued (`Ahead`),
so that the next count takes it in. `RowTimes` says what an open transaction remembers in terms
of the clock. The step that needs all of it is `CountLeads` (`CountStep`): what it counts either
was ahead of every notice and uncounted, or has been named in `raced`.

*The site* (`SiteProofs`). `SettingsInv`: a request that goes on to mark a domain verified has
seen its challenge answered. `SitemapInv`: a rebuild has a generation of its own; what it has
rendered shows inputs of the past with its digest (`Snap`), or the inputs have drifted and the
digest is not theirs; the pointer names a whole generation. Edits are stamped and never reuse a
stamp, so equal fingerprints mean equal inputs. `SearchInv` is about debts. A text that is
stored, or that a drain has read and may still store, either lacks nothing, or is older than
the stored one (and will be recognised when it is stored), or what it lacks is queued behind
the marker the drain works on; and for what the marker has already passed, the markers behind
it alone must suffice, because the cursor will not come back. It needs that markers are worked
off oldest first and that a chunk is the first listings by id (`ChunkFirst`). `RouteInv`: each
redirect leads from a slug to one taken later and from a URL of a category to another of the
same category, so the number of hops is bounded by the number of edits. `Followed` is a
recursive function; that it is defined, and where it leads, is proved by least counterexample
(`HopsExist`, `WayEnds`), which needs well-foundedness of the naturals and no induction rule.

Only model-checked: liveness (`Settles`, `Retires`, `DeadlinesAreActedOn`), which needs
fairness and `ENABLED`; the five violations, which are counterexamples; and the type invariants
of `Imports`, `Leads`, `Payments`, `Routes`, `SearchIndex`, `SignIn`, `Sitemaps` and
`TenantSettings`, which hold on the instances of their runs (the inductive invariants contain
the types that the proofs need). The configurations leave those out in favour of the
properties that need several steps to break.

## 5. What is not modelled

- TERM billing (`TERM_ENDED`, renewal notices): no command sets that mode, so its rows
  cannot exist.
- Purges by age of the command and access logs; LISTEN/NOTIFY, which only shortens a wait.
- Media (`directory/media.py`): files written to storage one after the other, with rows
  that name them; there is no protocol beside the file system's. Owner edits
  (`owner_edit.py`) are a `listing.upsert` with fewer fields and appear as `EditListing`.
- Envelopes, redaction, normalisation, field schemas, CSV cell conversion, the spam score,
  encryption of secrets: pure conversion, abstracted to what decides a branch.
- Templates, admin lists, ranking of search results, tenancy middleware, the network side of
  TLS and DNS checks, and the adapters' I/O.
- Consents, mails to former contacts, access-log rows and event payloads: outputs of a
  command that nothing reads back.

Left out inside modelled operations: a checkout that starts with a trial
(`reports.py:174-175`), which writes other dates to the same row; the branches of a verified claim
for a suspended listing (`claim_review.py:659, 747`), since no code sets that status; the readers of
the sitemap, who load the pointer and then a file (`sitemaps.py:197-204, 217-228`) and find nothing
if `DropOld` comes in between, until they ask again; the lifetimes of lead notices (48 hours, 7
days) and an owner without an address; a flush that meets its limit (taken to be larger than the
number of owners). One window length serves all rules of `RateLimits`.

**Promises of the source that fail in the excluded cases.** The five violated properties are counterexamples
to such sentences. The models have the following ones too, in behaviours that the
property next to them leaves out by name:

- "A lead is reported exactly once: it is counted by the first notice created after it"
  (`lead_notices.py:24-25`; also `directory/jobs.py:78-79`, "announced once the window has passed, and never twice").
  A notice is counted first and gets its time later. A lead that is inserted in between, or
  inserted before and committed after the count, is older than the notice and is never counted; two
  open transactions that count the same lead report it twice. `LeadReported` holds for the other
  pairs (`raced`).
- "Only the latest link works" (`owner_auth.py:157-158`). Two overlapping requests for a sign-in
  link do not see each other's rows and leave two links alive. `LinkOnce` says that each works
  once, and that a link another request did retire works no more.
- "Core never marks a subscription cancelled while the provider would go on charging it"
  (`payments.py:220-222`). Between the read of the reference and the cancel the owner may switch the
  subscription back on, or lapse and buy again, and the cancel is applied to whatever the
  entitlement is about by then; or it is refused, and the provider has cancelled. No property
  speaks of it.
- "Another delivery of the same event won the receipt" (`reports.py:98`). If a comp or another
  checkout creates the entitlement under a waiting start, the same exception drops a paid
  purchase. `PurchaseKept` names that case (`creator`).
- "So a dead code is never sent after an outage" (`claim_review.py:107-108`). It is not by any
  pass that begins after the code died; one that began before may send it (`mail_late`). The cooldown
  that does not lock clears the code and leaves its message.
- "The stored secret is never sent to a new host" (`tenants/services.py:472`). A page saved from a
  stale copy can put an old host back next to a newer password. `SettingsHeld` is about
  saves that do not overtake each other (`staleSave`).
- The redirect recorded for a tenant's second type (`directory/services.py:190-195`) and those of
  renames are looked up before live pages (`public_views.py:92-93, 161`): names given back or taken
  over lead in a circle or hide a page. `OldLinksLead` is about one type and no slug used twice.
- "`updated_at` is when it flipped" (`claim_review.py:391-398`). No save of a claim writes that
  column, so a claim that is flipped to review inside the throttle may never be announced by mail
  (`EnteredReviewSince`). No property speaks of it; the claim itself is in the review list.
- A rollback keeps listings with claims or leads because they are evidence; what arrives between
  its check and its delete is deleted by cascade. `EvidenceKept` is about what was there.

**What no comment promises, and the models show.**

- `import_run` saves "pending" without a lock over whatever has become of the batch; the
  idempotency keys keep the listings right, rows are tallied as updates (`RunAgain`).
- A membership invited while mail was unavailable has no link, and a link issued later finds
  memberships through earlier links only (`Reattached`).
- A crash between `create_tenant` and `add_bootstrap_membership` leaves a directory without
  its administrator, and the wizard does not offer the step again.
- Two overlapping drains of the search index: the one that read first may write last, over the
  newer text of the other, when both markers are done (`StaleDrained`, recorded in `indexRaced`).

## 6. Plan

1. The type invariants that no theorem states yet, from the inductive invariants above.
2. `Payments` against `Entitlements`: that what a report does to its reduced entitlement is what
   `apply_trigger` does, as a refinement.
3. Media and owner edits, if their files ever get a protocol of their own.
