------------------------------ MODULE Imports ------------------------------
(***************************************************************************)
(* CSV imports: the operator's upload, mapping, run and rollback           *)
(* (directory/admin_views.py, directory/services.py), the worker's row loop*)
(* (directory/importing.py) and the sweep that clears pre-images after 90  *)
(* days.  The worker commits many times for one batch -- the claim, the    *)
(* row count, import.started, and three times for every row -- and can die *)
(* between any two of them; what it keeps in memory is then lost.          *)
(*                                                                         *)
(* A listing is its content.  A row carries the listing its slug or id     *)
(* matches and the content it asks for.                                    *)
(***************************************************************************)
EXTENDS Integers, Sequences, FiniteSetsExt

CONSTANTS
    Batches,         \* ImportBatch ids, in the order they are created
    ImportListings,  \* listings a row can match
    Contents,        \* what a listing can hold
    Stock,           \* the listings before the first import: [ImportListings -> content or Absent]
    Absent,          \* no such listing
    Invalid,         \* a row that fails validation (SchemaError, RejectedField)
    Fatal,           \* a row whose upsert fails unexpectedly
    Files,           \* Files[b]: the files batch b may be, sequences of rows
    Unreadable,      \* a file that cannot be read or parsed
    SuppressionKeys, \* fingerprints of deleted listings, as <<listing, content>>
    ROWS_PER_PASS,
    SWEEP_LIMIT,     \* rows one pre-image sweep may clear
    MaxEdits,        \* bound: edits, claims, leads and repeated requests of others
    MaxWorkerDeaths  \* bound: deaths of the worker

ASSUME ImportsAssumption ==
    /\ Batches \subseteq Nat \ {0}
    /\ Stock \in [ImportListings -> Contents \cup {Absent}]
    /\ {ROWS_PER_PASS, SWEEP_LIMIT} \subseteq Nat \ {0}
    /\ MaxEdits \in Nat /\ MaxWorkerDeaths \in Nat

VARIABLES
    batch,     \* batch[b]: the ImportBatch row
    listing,   \* listing[l]: its content, or Absent
    prov,      \* prov[b][l]: the ImportBatchListing row
    logged,    \* <<batch, row>> keys with an applied command-log row
    evidence,  \* listings that carry a claim or a lead
    announced, \* import.* events, as <<batch, type>>
    loop,      \* the worker: [at, batch, row, outcome]
    sweep,     \* <<batch, listing>> rows the sweep has selected
    undo,      \* the rollback under way: [batch, rows, bare]
    edits, loopDeaths,
    since      \* history: since[b]: the listings at upload, and those others wrote since

importVars == <<batch, listing, prov, logged, evidence, announced, loop, sweep, undo, edits,
                loopDeaths, since>>

COUNTERS == {"created", "updated", "skipped", "suppressed", "error"}
NoRow == [action |-> "none", pre |-> Absent, nulled |-> FALSE]
NewBatch == [status |-> "none", file |-> <<>>, rowCount |-> 0, cursor |-> 0, settled |-> FALSE,
             tally |-> [c \in COUNTERS |-> 0]]
AtRest == [at |-> "idle", batch |-> 0, row |-> 0, stop |-> 0, outcome |-> "none"]
NoUndo == [batch |-> 0, rows |-> [l \in ImportListings |-> NoRow], bare |-> {}]

ImportInit ==
    /\ batch = [b \in Batches |-> NewBatch]
    /\ listing = Stock
    /\ prov = [b \in Batches |-> [l \in ImportListings |-> NoRow]]
    /\ logged = {} /\ evidence = {} /\ announced = {}
    /\ loop = AtRest /\ sweep = {} /\ undo = NoUndo
    /\ edits = 0 /\ loopDeaths = 0
    /\ since = [b \in Batches |-> [origin |-> listing, others |-> {}]]

\* The history of a change of l: every batch but `writer` sees somebody else's write.
WrittenBy(writer, ls) ==
    [b \in Batches |-> IF b = writer THEN since[b] ELSE [since[b] EXCEPT !.others = @ \cup ls]]

Rows(b) == IF batch[b].file = Unreadable THEN <<>> ELSE batch[b].file
SetStatus(b, s) == batch' = [batch EXCEPT ![b].status = s]
Announce(b, type) == announced' = announced \cup {<<b, type>>}

-----------------------------------------------------------------------------
(* The operator: upload, map, run.                                          *)

\* _store_upload: the file is stored and the batch waits for its mapping.
Upload(b, f) ==
    /\ batch[b].status = "none" /\ \A c \in Batches : c < b => batch[c].status # "none"
    /\ batch' = [batch EXCEPT ![b] = [NewBatch EXCEPT !.status = "mapping", !.file = f]]
    /\ since' = [since EXCEPT ![b] = [origin |-> listing, others |-> {}]]
    /\ UNCHANGED <<listing, prov, logged, evidence, announced, loop, sweep, undo, edits, loopDeaths>>

\* import_mapping has saved a mapping, and import_run queues the batch.
Run(b) ==
    /\ batch[b].status = "mapping"
    /\ SetStatus(b, "pending")
    /\ UNCHANGED <<listing, prov, logged, evidence, announced, loop, sweep, undo, edits, loopDeaths, since>>

\* import_run reads the status and saves it without a lock: a second request that had
\* read "mapping" too saves "pending" whatever has become of the batch.
RunAgain(b) ==
    /\ batch[b].status \notin {"none", "mapping"} /\ undo.batch # b
    /\ edits < MaxEdits /\ edits' = edits + 1
    /\ SetStatus(b, "pending")
    /\ UNCHANGED <<listing, prov, logged, evidence, announced, loop, sweep, undo, loopDeaths, since>>

-----------------------------------------------------------------------------
(* The worker's row loop.                                                   *)

Claimables == {b \in Batches : batch[b].status \in {"pending", "processing"} /\ undo.batch # b}

\* Where a pass goes once the file is read.
Resume(b) ==
    IF batch[b].file = Unreadable THEN [AtRest EXCEPT !.at = "fail", !.batch = b]
    ELSE [AtRest EXCEPT !.at = "rows", !.batch = b, !.row = batch[b].cursor + 1,
                        !.stop = Min({batch[b].cursor + ROWS_PER_PASS, Len(batch[b].file)})]

\* _claim: the oldest batch; a fresh one moves to processing.
ClaimBatch ==
    LET b == Min(Claimables)
    IN /\ loop.at = "idle" /\ Claimables # {}
       /\ loop' = IF batch[b].status = "pending" THEN [AtRest EXCEPT !.at = "begin", !.batch = b]
                  ELSE Resume(b)
       /\ SetStatus(b, "processing")
       /\ UNCHANGED <<listing, prov, logged, evidence, announced, sweep, undo, edits, loopDeaths, since>>

\* _begin, first pass only: the row count, then import.started, in two commits.
BeginBatch ==
    LET b == loop.batch
    IN /\ \/ /\ loop.at = "begin"
             /\ batch' = [batch EXCEPT ![b].rowCount = Len(Rows(b))]
             /\ loop' = [loop EXCEPT !.at = "announce"]
             /\ UNCHANGED announced
          \/ /\ loop.at = "announce"
             /\ Announce(b, "started")
             /\ loop' = Resume(b)
             /\ UNCHANGED batch
       /\ UNCHANGED <<listing, prov, logged, evidence, sweep, undo, edits, loopDeaths, since>>

\* Faulty variant: the latest pre-image replaces the first.
Recorded_LastTouch(row, action, pre) == [action |-> action, pre |-> pre, nulled |-> FALSE]

\* _record_import_row: first touch wins.
Recorded(row, action, pre) ==
    IF row.action = "none" THEN [action |-> action, pre |-> pre, nulled |-> FALSE] ELSE row

\* _apply_upsert decides what a row does to the listing it matches.
UpsertOutcome(held, row) ==
    CASE row.content = Fatal -> "fatal"
      [] row.content = Invalid -> "error"
      [] held = Absent /\ <<row.listing, row.content>> \in SuppressionKeys -> "suppressed"
      [] held = Absent -> "created"
      [] held = row.content -> "unchanged"
      [] OTHER -> "updated"

\* upsert_listing: a key the log holds is a replay; otherwise one transaction writes the
\* listing and its provenance.
ProcessRow ==
    LET b == loop.batch
        row == batch[b].file[loop.row]
        held == listing[row.listing]
        outcome == IF <<b, loop.row>> \in logged THEN "replayed" ELSE UpsertOutcome(held, row)
    IN /\ loop.at = "rows" /\ loop.row <= loop.stop
       /\ loop' = [loop EXCEPT !.at = IF outcome \in {"created", "updated", "unchanged"}
                                      THEN "conclude" ELSE "bump",
                               !.outcome = outcome]
       /\ IF outcome \in {"created", "updated"}
          THEN /\ listing' = [listing EXCEPT ![row.listing] = row.content]
               /\ prov' = [prov EXCEPT ![b][row.listing] = Recorded(@, outcome, held)]
               /\ since' = WrittenBy(b, {row.listing})
          ELSE UNCHANGED <<listing, prov, since>>
       /\ UNCHANGED <<batch, logged, evidence, announced, sweep, undo, edits, loopDeaths>>

\* log_conclude, after the row's transaction.
ConcludeRow ==
    /\ loop.at = "conclude"
    /\ logged' = logged \cup {<<loop.batch, loop.row>>}
    /\ loop' = [loop EXCEPT !.at = "bump"]
    /\ UNCHANGED <<batch, listing, prov, evidence, announced, sweep, undo, edits, loopDeaths, since>>

Counter(outcome) ==
    CASE outcome = "created" -> "created"
      [] outcome \in {"updated", "replayed"} -> "updated"
      [] outcome = "unchanged" -> "skipped"
      [] outcome = "suppressed" -> "suppressed"
      [] OTHER -> "error"

\* _bump: the cursor and the tally.  A fatal row fails the batch.
BumpRow ==
    /\ loop.at = "bump"
    /\ batch' = [batch EXCEPT ![loop.batch].cursor = loop.row,
                              ![loop.batch].tally[Counter(loop.outcome)] = @ + 1]
    /\ loop' = IF loop.outcome = "fatal" THEN [loop EXCEPT !.at = "fail"]
               ELSE [loop EXCEPT !.at = "rows", !.row = @ + 1]
    /\ UNCHANGED <<listing, prov, logged, evidence, announced, sweep, undo, edits, loopDeaths, since>>

\* The end of a chunk: the batch is done when the cursor has reached row_count.
ChunkDone ==
    LET b == loop.batch
    IN /\ loop.at = "rows" /\ loop.row > loop.stop
       /\ loop' = IF batch[b].cursor >= batch[b].rowCount THEN [loop EXCEPT !.at = "complete"] ELSE AtRest
       /\ UNCHANGED <<batch, listing, prov, logged, evidence, announced, sweep, undo, edits, loopDeaths,
                      since>>

\* _finish: the status, then import.completed in a commit of its own.
FinishBatch ==
    /\ \/ /\ loop.at \in {"complete", "fail"}
          /\ batch' = [batch EXCEPT ![loop.batch].settled = TRUE,
                  ![loop.batch].status = IF loop.at = "fail" THEN "failed" ELSE "completed"]
          /\ loop' = [loop EXCEPT !.at = "finished"]
          /\ UNCHANGED announced
       \/ /\ loop.at = "finished"
          /\ Announce(loop.batch, "completed")
          /\ loop' = AtRest
          /\ UNCHANGED batch
    /\ UNCHANGED <<listing, prov, logged, evidence, sweep, undo, edits, loopDeaths, since>>

WorkerDies ==
    /\ loop.at # "idle" /\ loopDeaths < MaxWorkerDeaths
    /\ loopDeaths' = loopDeaths + 1
    /\ loop' = AtRest
    /\ UNCHANGED <<batch, listing, prov, logged, evidence, announced, sweep, undo, edits, since>>

-----------------------------------------------------------------------------
(* The pre-image sweep.                                                     *)

\* Rows of batches that have settled; the sweep finds those of 90 days ago.
SweepableRows == {k \in Batches \X ImportListings :
                    batch[k[1]].settled /\ prov[k[1]][k[2]].action # "none" /\ ~prov[k[1]][k[2]].nulled}

SweepSelect ==
    /\ sweep = {}
    /\ \E n \in 1 .. SWEEP_LIMIT : sweep' \in kSubset(n, SweepableRows)
    /\ UNCHANGED <<batch, listing, prov, logged, evidence, announced, loop, undo, edits, loopDeaths, since>>

\* The update of the rows selected, those deleted meanwhile apart.
SweepApply ==
    /\ sweep # {}
    /\ prov' = [b \in Batches |-> [l \in ImportListings |->
                  IF <<b, l>> \in sweep /\ prov[b][l].action # "none"
                  THEN [prov[b][l] EXCEPT !.pre = Absent, !.nulled = TRUE] ELSE prov[b][l]]]
    /\ sweep' = {}
    /\ UNCHANGED <<batch, listing, logged, evidence, announced, loop, undo, edits, loopDeaths, since>>

-----------------------------------------------------------------------------
(* Rollback, and the others who write listings.                             *)

WindowOpen(b) == \A l \in ImportListings : ~prov[b][l].nulled

CreatedBy(rows) == {l \in ImportListings : rows[l].action = "created"}

\* Faulty variant: what the batch created is removed whatever it carries.
Removable_Always(b) == TRUE

\* No listing the batch created carries a claim or a lead.
Removable(b) == CreatedBy(prov[b]) \cap evidence = {}

\* _do_rollback up to its last refusal: the batch is locked, its provenance read, and
\* the claims and leads of what it created looked for, without locking those listings.
RollbackCheck(b) ==
    /\ undo.batch = 0
    /\ batch[b].status \in {"completed", "failed"}
    /\ WindowOpen(b) /\ Removable(b)
    /\ undo' = [batch |-> b, rows |-> prov[b], bare |-> ImportListings \ evidence]
    /\ UNCHANGED <<batch, listing, prov, logged, evidence, announced, loop, sweep, edits, loopDeaths, since>>

\* A deleted listing takes its claims, its leads and every batch's provenance with it.
\* An updated one gets back what the provenance read holds.
RollbackApply ==
    LET b == undo.batch
        gone == CreatedBy(undo.rows)
        back == {l \in ImportListings : undo.rows[l].action = "updated" /\ undo.rows[l].pre # Absent}
    IN /\ b # 0
       /\ listing' = [l \in ImportListings |-> IF l \in gone THEN Absent
                                               ELSE IF l \in back THEN undo.rows[l].pre ELSE listing[l]]
       /\ evidence' = evidence \ gone
       /\ prov' = [c \in Batches |-> [l \in ImportListings |->
                     IF l \in gone THEN NoRow
                     ELSE IF c = b /\ prov[c][l].action # "none"
                          THEN [prov[c][l] EXCEPT !.pre = Absent, !.nulled = TRUE]
                          ELSE prov[c][l]]]
       /\ SetStatus(b, "rolled_back")
       /\ Announce(b, "rolled_back")
       /\ undo' = NoUndo
       /\ since' = WrittenBy(b, gone \cup back)
       /\ UNCHANGED <<logged, loop, sweep, edits, loopDeaths>>

\* An operator's or an owner's listing.upsert.
EditListing(l, c) ==
    /\ edits < MaxEdits /\ listing[l] # c
    /\ edits' = edits + 1
    /\ listing' = [listing EXCEPT ![l] = c]
    /\ since' = WrittenBy(0, {l})
    /\ UNCHANGED <<batch, prov, logged, evidence, announced, loop, sweep, undo, loopDeaths>>

\* A visitor's claim or lead.
AddEvidence(l) ==
    /\ edits < MaxEdits /\ listing[l] # Absent /\ l \notin evidence
    /\ edits' = edits + 1
    /\ evidence' = evidence \cup {l}
    /\ UNCHANGED <<batch, listing, prov, logged, announced, loop, sweep, undo, loopDeaths, since>>

ImportNext ==
    \/ \E b \in Batches : \/ \E f \in Files[b] : Upload(b, f)
                          \/ Run(b) \/ RunAgain(b) \/ RollbackCheck(b)
    \/ ClaimBatch \/ BeginBatch \/ ProcessRow \/ ConcludeRow \/ BumpRow \/ ChunkDone \/ FinishBatch
    \/ WorkerDies \/ SweepSelect \/ SweepApply \/ RollbackApply
    \/ \E l \in ImportListings : AddEvidence(l) \/ \E c \in Contents : EditListing(l, c)

ImportSpec == ImportInit /\ [][ImportNext]_importVars

-----------------------------------------------------------------------------
\* Every batch's tally counts each row it has consumed exactly once (_bump writes both),
\* and no row beyond its file, however often the worker dies.
ImportTypeOK ==
    /\ \A b \in Batches :
          LET t == batch[b].tally
          IN /\ batch[b].cursor \in 0 .. Len(Rows(b))
             /\ t["created"] + t["updated"] + t["skipped"] + t["suppressed"] + t["error"] = batch[b].cursor
    /\ listing \in [ImportListings -> Contents \cup {Absent}]
    /\ loop.batch \in Batches \cup {0}

\* Rolling a batch back gives every listing that nobody else has written since the upload
\* what it held then (the first pre-image of a listing counts, across repeated rows,
\* worker restarts and a sweep that has cleared part of the pre-images).
RollbackRestores ==
    [][\A b \in Batches : batch[b].status # "rolled_back" /\ batch'[b].status = "rolled_back" =>
          \A l \in ImportListings \ since[b].others : listing'[l] = since[b].origin[l]]_importVars

\* A rollback removes no claim, lead or consent that was there when it looked.
EvidenceKept ==
    [][\A l \in evidence \ evidence' : l \in undo.bare]_importVars

\* importing.py: a batch is completed "when the file is exhausted".
CompletedWhole ==
    \A b \in Batches : batch[b].status = "completed" => batch[b].cursor = Len(Rows(b))
=============================================================================
