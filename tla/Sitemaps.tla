------------------------------- MODULE Sitemaps -------------------------------
(***************************************************************************)
(* The stored sitemap of one tenant (directory/sitemaps.py): the worker's  *)
(* sitemap_regeneration job compares a fingerprint of the inputs with the  *)
(* one the current pointer carries, renders a new generation of files from *)
(* several reads, points at it and drops the old one.  The views serve     *)
(* what the pointer names.                                                 *)
(*                                                                         *)
(* Nothing here is a transaction: the inputs change between the digest and *)
(* the reads, and the worker can die between any two file operations.  The *)
(* job's tenant object is read once, so its absolute base does not change  *)
(* while it runs.                                                          *)
(***************************************************************************)
EXTENDS Integers, FiniteSets, FiniteSetsExt

CONSTANTS
    Pages,                  \* listing ids
    PathNames,              \* what the listings' category can be called
    Domains,                \* domains the tenant may have
    NoBase,                 \* the base of a tenant without a verified domain
    MIN_INDEXABLE_LISTINGS, \* a category with fewer is not in the sitemap
    MaxPageEdits,           \* bound: changes to the inputs
    MaxGenerations,         \* bound: generations the worker starts
    MaxSiteCrashes          \* bound: worker deaths

ASSUME SitemapAssumption ==
    /\ Pages \subseteq Nat /\ IsFiniteSet(Pages) /\ NoBase \notin Domains
    /\ MaxPageEdits \in Nat /\ MaxGenerations \in Nat /\ MaxSiteCrashes \in Nat

VARIABLES
    published,   \* published[l]: updated_at of a published listing, 0 of another
    category,    \* the category's routing fields (slug, order, segment)
    base,        \* routing.absolute_url(tenant, "/"): the verified domain, or NoBase
    stored,      \* stored[g]: the files of generation g; its directory exists if g is in the domain
    pointer,     \* sitemaps/current.json, or NoPointer
    builder,     \* the job under way: [at, base, digest, old, gen, files, drift]
    torn,        \* history: a clear that died after the generations and before the pointer
    generation,  \* the last generation started
    pageEdits, siteCrashes

sitemapVars == <<published, category, base, stored, pointer, builder, torn, generation,
              pageEdits, siteCrashes>>

NoPointer == [gen |-> 0, fingerprint |-> {}, base |-> NoBase, drift |-> "none"]
NoFiles == [listings |-> {}, categories |-> {}, index |-> FALSE]
IdleBuilder == [at |-> "idle", base |-> NoBase, digest |-> {}, old |-> 0, gen |-> 0,
                files |-> NoFiles, drift |-> "none"]

SitemapInit ==
    /\ published = [l \in Pages |-> 0]
    /\ category \in PathNames
    /\ base \in Domains
    /\ stored = <<>> /\ pointer = NoPointer /\ builder = IdleBuilder /\ torn = FALSE
    /\ generation = 0 /\ pageEdits = 0 /\ siteCrashes = 0

Public(pub) == {l \in Pages : pub[l] > 0}

Newest(pub) == Max({0} \cup {pub[l] : l \in Pages})
IdSum(pub) == FoldSet(LAMBDA x, y : x + y, 0, Public(pub))

\* fingerprint: count, newest updated_at and id sum of the published listings, the
\* routing fields, the base.  The digest is injective.
Fingerprint(pub, cat, at) ==
    {<<"n", Cardinality(Public(pub))>>, <<"newest", Newest(pub)>>, <<"ids", IdSum(pub)>>,
     <<"category", cat>>, <<"base", at>>}

Digest(at) == Fingerprint(published, category, at)

\* _listing_entries: canonical path and lastmod; _category_entries: the indexable ones.
ListingEntries == {<<l, published[l], category>> : l \in Public(published)}
CategoryEntries ==
    IF Cardinality(Public(published)) >= MIN_INDEXABLE_LISTINGS THEN {category} ELSE {}

\* render_all, were it done in one go.
Rendered == [listings |-> ListingEntries, categories |-> CategoryEntries, index |-> TRUE]

-----------------------------------------------------------------------------
(* The inputs.                                                              *)

Rendering == builder.at \in {"listings", "categories"}

\* History: the inputs changed while a generation was rendered from them, and then came
\* back to what its fingerprint says.
Drift(drift, here, digest, now) ==
    IF drift = "none" THEN IF here /\ Rendering THEN "changed" ELSE "none"
    ELSE IF digest = now THEN "returned" ELSE drift

PageEdit ==
    /\ pageEdits < MaxPageEdits /\ pageEdits' = pageEdits + 1
    /\ builder' = [builder EXCEPT !.drift =
          Drift(@, TRUE, builder.digest, Fingerprint(published', category', builder.base))]
    /\ pointer' = [pointer EXCEPT !.drift =
          Drift(@, FALSE, pointer.fingerprint, Fingerprint(published', category', pointer.base))]

\* upsert_listing, set_listing_visibility: updated_at moves with every save.
SavePage(l) ==
    /\ \/ published' = [published EXCEPT ![l] = pageEdits + 1]
       \/ published[l] > 0 /\ published' = [published EXCEPT ![l] = 0]
    /\ category' = category
    /\ PageEdit
    /\ UNCHANGED <<base, stored, torn, generation, siteCrashes>>

\* A category's slug, order or parent; the row has no updated_at.
SaveCategory(name) ==
    /\ name # category /\ category' = name /\ published' = published
    /\ PageEdit
    /\ UNCHANGED <<base, stored, torn, generation, siteCrashes>>

\* The domain is changed, which unverifies it, or verified.
SaveDomain(d) ==
    /\ pageEdits < MaxPageEdits /\ pageEdits' = pageEdits + 1
    /\ base' = (IF base = NoBase THEN d ELSE NoBase)
    /\ UNCHANGED <<published, category, stored, pointer, builder, torn, generation, siteCrashes>>

-----------------------------------------------------------------------------
(* sitemaps.refresh.                                                        *)

Build(b) == builder' = b
Stage(place) == Build([builder EXCEPT !.at = place])

\* _plan of a tenant with a base: nothing to do when the pointer carries the digest;
\* a change inside the debounce window is left to a later tick, so no step is taken.
PlanRebuild ==
    LET digest == Digest(base)
    IN /\ builder.at = "idle" /\ base # NoBase /\ generation < MaxGenerations
       /\ pointer = NoPointer \/ pointer.fingerprint # digest
       /\ generation' = generation + 1
       /\ Build([at |-> "listings", base |-> base, digest |-> digest, old |-> pointer.gen,
                 gen |-> generation', files |-> NoFiles, drift |-> "none"])
       /\ UNCHANGED <<published, category, base, stored, pointer, torn, pageEdits, siteCrashes>>

\* render_all: the two entry lists come from different reads.
RenderListings ==
    /\ builder.at = "listings"
    /\ Build([builder EXCEPT !.at = "categories", !.files.listings = ListingEntries])
    /\ UNCHANGED <<published, category, base, stored, pointer, torn, generation, pageEdits, siteCrashes>>

RenderCategories ==
    /\ builder.at = "categories"
    /\ Build([builder EXCEPT !.at = "save", !.files.categories = CategoryEntries])
    /\ UNCHANGED <<published, category, base, stored, pointer, torn, generation, pageEdits, siteCrashes>>

\* The files are saved one by one, the index last.
SaveFiles ==
    LET g == builder.gen
    IN /\ builder.at = "save"
       /\ \/ /\ g \notin DOMAIN stored
             /\ stored' = [h \in DOMAIN stored \cup {g} |-> IF h = g THEN builder.files ELSE stored[h]]
             /\ UNCHANGED builder
          \/ /\ g \in DOMAIN stored
             /\ stored' = [stored EXCEPT ![g].index = TRUE]
             /\ Stage("unpoint")
       /\ UNCHANGED <<published, category, base, pointer, torn, generation, pageEdits, siteCrashes>>

\* The pointer is deleted and saved again: storage.save never overwrites.
DeletePointer ==
    /\ builder.at = "unpoint"
    /\ pointer' = NoPointer
    /\ Stage("point")
    /\ UNCHANGED <<published, category, base, stored, torn, generation, pageEdits, siteCrashes>>

\* Faulty variant: the fingerprint is taken when the pointer is saved.
StoredDigest_Late == Digest(builder.base)

\* The fingerprint the plan was made from, older than the reads.
StoredDigest == builder.digest

SavePointer ==
    /\ builder.at = "point"
    /\ pointer' = [gen |-> builder.gen, fingerprint |-> StoredDigest, base |-> builder.base,
                   drift |-> builder.drift]
    /\ torn' = FALSE
    /\ Stage("drop")
    /\ UNCHANGED <<published, category, base, stored, generation, pageEdits, siteCrashes>>

\* _remove_generation of what the pointer named when the rebuild began.
DropOld ==
    /\ builder.at = "drop"
    /\ stored' = [g \in DOMAIN stored \ {builder.old} |-> stored[g]]
    /\ Build(IdleBuilder)
    /\ UNCHANGED <<published, category, base, pointer, torn, generation, pageEdits, siteCrashes>>

\* _remove_all, for a tenant that has no base any more: the generations go first.
PlanClear ==
    /\ builder.at = "idle" /\ base = NoBase /\ (stored # <<>> \/ pointer # NoPointer)
    /\ stored' = <<>>
    /\ Stage("clear")
    /\ UNCHANGED <<published, category, base, pointer, torn, generation, pageEdits, siteCrashes>>

ClearPointer ==
    /\ builder.at = "clear"
    /\ pointer' = NoPointer
    /\ Build(IdleBuilder)
    /\ UNCHANGED <<published, category, base, stored, torn, generation, pageEdits, siteCrashes>>

BuilderDies ==
    /\ builder.at # "idle" /\ siteCrashes < MaxSiteCrashes
    /\ siteCrashes' = siteCrashes + 1
    /\ torn' = (torn \/ builder.at = "clear")
    /\ Build(IdleBuilder)
    /\ UNCHANGED <<published, category, base, stored, pointer, generation, pageEdits>>

SitemapNext ==
    \/ \E l \in Pages : SavePage(l)
    \/ \E n \in PathNames : SaveCategory(n)
    \/ \E d \in Domains : SaveDomain(d)
    \/ PlanRebuild \/ RenderListings \/ RenderCategories \/ SaveFiles
    \/ DeletePointer \/ SavePointer \/ DropOld \/ PlanClear \/ ClearPointer \/ BuilderDies

SitemapSpec == SitemapInit /\ [][SitemapNext]_sitemapVars

-----------------------------------------------------------------------------
\* Type: the stored generations are ones that were started.
SitemapTypeOK ==
    /\ DOMAIN stored \subseteq 1..generation /\ pointer.gen \in 0..generation
    /\ base \in Domains \cup {NoBase} /\ category \in PathNames
    /\ \A l \in Pages : published[l] \in 0..pageEdits
    /\ generation \in 0..MaxGenerations /\ siteCrashes \in 0..MaxSiteCrashes

\* load: the pointer is used only for the base it was built for.
Loaded == pointer # NoPointer /\ pointer.base = base

\* What the views serve is whole, and a sitemap the job takes for current is current:
\* whatever changed between the digest, the two reads and the pointer, and wherever the
\* worker died, the pointer names a complete generation, and one whose fingerprint is
\* the inputs' own shows those inputs.  Excepted are inputs that changed during the
\* rendering and came back to the old fingerprint (a listing published and unpublished
\* again, a slug changed and changed back), and a clear that died or is at work between
\* the generations and the pointer.
SitemapFresh ==
    Loaded /\ ~torn /\ builder.at # "clear" =>
        /\ pointer.gen \in DOMAIN stored /\ stored[pointer.gen].index
        /\ pointer.fingerprint = Digest(base) /\ pointer.drift # "returned"
              => stored[pointer.gen] = Rendered
=============================================================================
