----------------------------- MODULE SearchIndex -----------------------------
(***************************************************************************)
(* The search vectors of one listing type (directory/search.py).  A vector *)
(* is derived from the listing, the names of its categories and the type's *)
(* field schema; upsert_listing recomputes it on every write, a category   *)
(* rename or a schema change leaves a SearchReindexJob marker, and the     *)
(* worker and the rebuild_search_index command drain the markers in        *)
(* chunks, resumed from the marker's cursor.                               *)
(*                                                                         *)
(* Inputs are version numbers: a vector is the versions it was computed    *)
(* from.  A drain reads a chunk of rows and then updates them one by one,  *)
(* each in its own commit, waiting for a row an upsert holds.              *)
(***************************************************************************)
EXTENDS Integers, Sequences, FiniteSets

CONSTANTS
    Indexed,          \* listing ids
    SearchCategories, \* categories
    Drainers,         \* the worker, and a command run by hand
    REINDEX_CHUNK,    \* listings per drain call
    MaxIndexEdits     \* bound: writes to listings, categories and the schema

ASSUME SearchAssumption ==
    /\ Indexed \subseteq Nat \ {0} /\ IsFiniteSet(Indexed)
    /\ "listing_type" \notin SearchCategories
    /\ REINDEX_CHUNK \in Nat \ {0} /\ MaxIndexEdits \in Nat

VARIABLES
    body,       \* body[l]: the listing's own fields, 0 before it exists
    member,     \* member[l]: its categories
    catName,    \* catName[c]: the category's name
    schema,     \* the type's fields
    vector,     \* vector[l]: the inputs of the stored search_vector
    upsert,     \* upsert[l]: an open upsert transaction's uncommitted row, or NoUpsert
    markers,    \* SearchReindexJob rows in id order: [scope, cursor, done]
    drain,      \* drain[d]: [marker, ids, read], the call under way
    indexRaced,      \* history: listings whose vector the code leaves stale (StaleIndexed, StaleDrained)
    indexEdits  \* how many writes have begun

searchVars == <<body, member, catName, schema, vector, upsert, markers, drain, indexRaced, indexEdits>>

TypeScope == "listing_type"
NoVector == [body |-> 0, names |-> {}, schema |-> 0]
NoUpsert == [body |-> 0, member |-> {}, vector |-> NoVector]
NoDrain == [marker |-> 0, ids |-> {}, read |-> <<>>]

SearchInit ==
    /\ body = [l \in Indexed |-> 0]
    /\ member = [l \in Indexed |-> {}]
    /\ catName = [c \in SearchCategories |-> 0]
    /\ schema = 0
    /\ vector = [l \in Indexed |-> NoVector]
    /\ upsert = [l \in Indexed |-> NoUpsert]
    /\ markers = <<>>
    /\ drain = [d \in Drainers |-> NoDrain]
    /\ indexRaced = {} /\ indexEdits = 0

Exists(l) == body[l] > 0

\* recompute_search_vector_v1 on a row with these fields, as the other rows stand now.
VectorOf(fields, categories) ==
    [body |-> fields, names |-> {<<c, catName[c]>> : c \in categories}, schema |-> schema]

Fresh(l) == VectorOf(body[l], member[l])

IndexEdit == indexEdits < MaxIndexEdits /\ indexEdits' = indexEdits + 1

-----------------------------------------------------------------------------
(* The writers.                                                             *)

\* upsert_listing: the row is locked, written and its vector computed ...
BeginUpsert(l, categories) ==
    /\ IndexEdit /\ upsert[l] = NoUpsert
    /\ upsert' = [upsert EXCEPT ![l] = [body |-> indexEdits', member |-> categories,
                                        vector |-> VectorOf(indexEdits', categories)]]
    /\ UNCHANGED <<body, member, catName, schema, vector, markers, drain, indexRaced>>

\* A name or the schema that changed between the computation and the commit is missed
\* by the upsert, and by a drain that did not see the row.
StaleIndexed(l) ==
    IF upsert[l].vector = VectorOf(upsert[l].body, upsert[l].member) THEN indexRaced \ {l}
    ELSE indexRaced \cup {l}

\* ... and committed, or rolled back.
EndUpsert(l) ==
    /\ upsert[l] # NoUpsert
    /\ upsert' = [upsert EXCEPT ![l] = NoUpsert]
    /\ \/ /\ body' = [body EXCEPT ![l] = upsert[l].body]
          /\ member' = [member EXCEPT ![l] = upsert[l].member]
          /\ vector' = [vector EXCEPT ![l] = upsert[l].vector]
          /\ indexRaced' = StaleIndexed(l)
       \/ UNCHANGED <<body, member, vector, indexRaced>>
    /\ UNCHANGED <<catName, schema, markers, drain, indexEdits>>

Marker(scope) == [scope |-> scope, cursor |-> 0, done |-> FALSE]

\* _update_category: the new name and the marker commit together.
RenameCategory(c) ==
    /\ IndexEdit
    /\ catName' = [catName EXCEPT ![c] = indexEdits']
    /\ markers' = Append(markers, Marker(c))
    /\ UNCHANGED <<body, member, schema, vector, upsert, drain, indexRaced>>

\* _update_listing_type with new fields.
ChangeSchema ==
    /\ IndexEdit
    /\ schema' = indexEdits'
    /\ markers' = Append(markers, Marker(TypeScope))
    /\ UNCHANGED <<body, member, catName, vector, upsert, drain, indexRaced>>

\* _delete_category drops the memberships and leaves no marker: the name stays in the
\* vectors until something else recomputes them.  It waits for an upsert that adds one.
RemoveCategory(c) ==
    /\ IndexEdit
    /\ \A l \in Indexed : c \notin upsert[l].member
    /\ \E l \in Indexed : c \in member[l]
    /\ member' = [l \in Indexed |-> member[l] \ {c}]
    /\ indexRaced' = indexRaced \cup {l \in Indexed : c \in member[l]}
    /\ UNCHANGED <<body, catName, schema, vector, upsert, markers, drain>>

-----------------------------------------------------------------------------
(* drain_reindex_markers.                                                   *)

Pending == {m \in DOMAIN markers : ~markers[m].done}
Oldest == CHOOSE m \in Pending : \A n \in Pending : m <= n

\* _marker_listings, as the rows stand now.
Covered(m) ==
    {l \in Indexed : Exists(l) /\ (markers[m].scope = TypeScope \/ markers[m].scope \in member[l])}

\* The next listings of the marker, in id order, up to the limit.
Chunk(m) ==
    LET rest == {l \in Covered(m) : l > markers[m].cursor}
    IN {l \in rest : Cardinality({k \in rest : k < l}) < REINDEX_CHUNK}

\* The rows of the chunk are read ...
DrainRead(d) ==
    /\ drain[d] = NoDrain /\ Pending # {}
    /\ drain' = [drain EXCEPT ![d] = [marker |-> Oldest, ids |-> Chunk(Oldest),
                                      read |-> [l \in Chunk(Oldest) |-> Fresh(l)]]]
    /\ UNCHANGED <<body, member, catName, schema, vector, upsert, markers, indexRaced, indexEdits>>

\* The text r was read before the text v: some name or the schema has moved on.
Older(r, v) ==
    \/ r.schema < v.schema
    \/ \E n \in r.names, k \in v.names : n[1] = k[1] /\ n[2] < k[2]

\* A drain that stores what it read leaves l stale for good when an upsert has changed
\* the row since, or when another drain has stored a newer text meanwhile.
StaleDrained(l, read) ==
    IF read = Fresh(l) THEN indexRaced \ {l}
    ELSE IF \/ read.body # body[l] \/ {n[1] : n \in read.names} # member[l]
            \/ Older(read, vector[l])
         THEN indexRaced \cup {l} ELSE indexRaced

\* ... and each vector is computed from what was read and stored.  What an upsert or
\* another drain has stored in between is overwritten by the older text.
DrainWrite(d, l) ==
    /\ l \in DOMAIN drain[d].read /\ upsert[l] = NoUpsert
    /\ \A k \in DOMAIN drain[d].read : l <= k
    /\ vector' = [vector EXCEPT ![l] = drain[d].read[l]]
    /\ indexRaced' = StaleDrained(l, drain[d].read[l])
    /\ drain' = [drain EXCEPT ![d].read = [k \in DOMAIN drain[d].read \ {l} |-> drain[d].read[k]]]
    /\ UNCHANGED <<body, member, catName, schema, upsert, markers, indexEdits>>

\* Faulty variant: a drain that comes to an end stamps every pending marker (what the
\* command that the drain replaced did).
Stamped_All(d) ==
    LET ids == drain[d].ids
    IN IF Cardinality(ids) < REINDEX_CHUNK
       THEN [n \in DOMAIN markers |-> [markers[n] EXCEPT !.done = TRUE]]
       ELSE [markers EXCEPT ![drain[d].marker].cursor = CHOOSE l \in ids : \A k \in ids : k <= l]

\* The cursor, and done_at when the chunk came back short: of its own marker only, and
\* never of one that is done already.
Stamped(d) ==
    LET m == drain[d].marker
        ids == drain[d].ids
    IN IF markers[m].done THEN markers
       ELSE [markers EXCEPT ![m].cursor = IF ids = {} THEN @
                                          ELSE CHOOSE l \in ids : \A k \in ids : k <= l,
                            ![m].done = Cardinality(ids) < REINDEX_CHUNK]

DrainFinish(d) ==
    /\ drain[d] # NoDrain /\ drain[d].read = <<>>
    /\ markers' = Stamped(d)
    /\ drain' = [drain EXCEPT ![d] = NoDrain]
    /\ UNCHANGED <<body, member, catName, schema, vector, upsert, indexRaced, indexEdits>>

\* The process dies between two updates; the cursor stays where it was.
DrainDies(d) ==
    /\ drain[d] # NoDrain
    /\ drain' = [drain EXCEPT ![d] = NoDrain]
    /\ UNCHANGED <<body, member, catName, schema, vector, upsert, markers, indexRaced, indexEdits>>

SearchNext ==
    \/ \E l \in Indexed : EndUpsert(l) \/ \E cs \in SUBSET SearchCategories : BeginUpsert(l, cs)
    \/ \E c \in SearchCategories : RenameCategory(c) \/ RemoveCategory(c)
    \/ ChangeSchema
    \/ \E d \in Drainers : \/ DrainRead(d) \/ DrainFinish(d) \/ DrainDies(d)
                           \/ \E l \in Indexed : DrainWrite(d, l)

SearchSpec == SearchInit /\ [][SearchNext]_searchVars

-----------------------------------------------------------------------------
\* Type: versions are bounded by the writes made, and a marker's cursor is a listing.
SearchTypeOK ==
    /\ \A l \in Indexed : body[l] \in 0..indexEdits /\ member[l] \subseteq SearchCategories
    /\ \A c \in SearchCategories : catName[c] \in 0..indexEdits
    /\ schema \in 0..indexEdits /\ indexRaced \subseteq Indexed
    /\ \A m \in DOMAIN markers : markers[m].cursor \in Indexed \cup {0}
    /\ \A d \in Drainers : drain[d].marker \in DOMAIN markers \cup {0}

\* No stale vector is forgotten: a listing whose stored vector is not what its rows say
\* is covered by a pending marker whose cursor has not passed it -- through overlapping
\* drains, renames during a drain, and crashes -- except where an upsert overlapped the
\* change or the drain, a drain stored an older text than another had stored since it
\* read, or the category was deleted (the cases `indexRaced` records).
VectorFresh ==
    \A l \in Indexed :
        Exists(l) /\ vector[l] # Fresh(l) /\ l \notin indexRaced
        => \E m \in Pending : l \in Covered(m) /\ markers[m].cursor < l
=============================================================================
