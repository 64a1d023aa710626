-------------------------------- MODULE Routes --------------------------------
(***************************************************************************)
(* Listing types, categories and the redirects that keep old public URLs   *)
(* alive: the configuration commands of directory/services.py and the      *)
(* router of directory/public_views.py, for one tenant.                    *)
(*                                                                         *)
(* A path is the sequence of its segments, so a string prefix that ends at *)
(* a slash is a sequence prefix and the longest string is the longest      *)
(* sequence.  The configuration is edited by one operator at a time.       *)
(***************************************************************************)
EXTENDS Integers, FiniteSets, SequencesExt

CONSTANTS
    TypeIds,        \* listing types, in order of creation
    CategoryIds,    \* categories that may be created
    Segments,       \* path segments a type may have
    Slugs,          \* category slugs an operator may ask for
    RESERVED_SLUGS, \* the ones that collide with a fixed route
    NoParent,       \* a category at the top of its tree
    MaxRouteEdits   \* bound: configuration commands

ASSUME RoutesAssumption ==
    /\ IsFiniteSet(TypeIds) /\ TypeIds \subseteq Nat
    /\ NoParent \notin CategoryIds /\ MaxRouteEdits \in Nat

VARIABLES
    types,      \* types[t]: the path_segment of listing type t
    categories, \* categories[c]: [type, slug, parent]
    listed,     \* types that have a listing
    redirects,  \* redirects[old prefix] = new prefix
    former,     \* history: former[c], the URLs category c once had
    names,      \* history: the slugs ever used
    routing,    \* history: "plain" until a slug is reused or a second type is created
    routeEdits       \* how many commands have run

routeVars == <<types, categories, listed, redirects, former, names, routing, routeEdits>>

Without(f, gone) == [x \in DOMAIN f \ gone |-> f[x]]
With(f, x, v) == [y \in DOMAIN f \cup {x} |-> IF y = x THEN v ELSE f[y]]

RouteInit ==
    /\ types = <<>> /\ categories = <<>> /\ listed = {} /\ redirects = <<>>
    /\ former = [c \in CategoryIds |-> {}]
    /\ names = {} /\ routing = "plain" /\ routeEdits = 0

\* ListingType.objects.count() > 1.
Multi == Cardinality(DOMAIN types) > 1

\* _category_url_prefix: the segment appears only in a tenant of several types.
Prefix(t) == IF Multi THEN <<types[t]>> ELSE <<>>

\* routing.category_url.
CategoryUrl(c) == Prefix(categories[c].type) \o <<categories[c].slug>>

\* routing.type_url: the type's landing page, or the home page.
TypeUrl(t) == Prefix(t)

\* CategoryForm offers the other categories of the type.
Parents(t, self) ==
    {NoParent} \cup {p \in DOMAIN categories \ {self} : categories[p].type = t}

\* The category and everything below it, which a delete takes along.
Subtree(c) ==
    LET up[d \in CategoryIds, n \in 0..Cardinality(CategoryIds)] ==
            IF n = 0 \/ d \notin DOMAIN categories THEN {d}
            ELSE {d} \cup (IF categories[d].parent = NoParent THEN {}
                           ELSE up[categories[d].parent, n - 1])
    IN {d \in DOMAIN categories : c \in up[d, Cardinality(CategoryIds)]}

\* Categories leave the site: their URLs become former ones.
Drop(gone) ==
    /\ categories' = Without(categories, gone)
    /\ former' = [c \in CategoryIds |-> IF c \in gone THEN former[c] \cup {CategoryUrl(c)}
                                        ELSE former[c]]

-----------------------------------------------------------------------------
(* Listing types.                                                           *)

Edit == routeEdits < MaxRouteEdits /\ routeEdits' = routeEdits + 1

\* The second type moves every URL below the first type's segment.
CreateListingType(t, segment) ==
    LET others == DOMAIN types
    IN /\ Edit /\ t \notin others /\ \A o \in others : o < t /\ types[o] # segment
       /\ types' = With(types, t, segment)
       /\ redirects' = IF Cardinality(others) = 1 /\ <<>> \notin DOMAIN redirects
                       THEN With(redirects, <<>>, <<types[CHOOSE o \in others : TRUE]>>)
                       ELSE redirects
       /\ routing' = IF others = {} THEN routing ELSE "several types"
       /\ UNCHANGED <<categories, listed, former, names>>

\* A segment matters to URLs, and is redirected, only in a tenant of several types.
UpdateListingType(t, segment) ==
    /\ Edit /\ t \in DOMAIN types /\ \A o \in DOMAIN types : types[o] # segment
    /\ types' = [types EXCEPT ![t] = segment]
    /\ redirects' = IF Multi THEN With(redirects, <<types[t]>>, <<segment>>) ELSE redirects
    /\ UNCHANGED <<categories, listed, former, names, routing>>

\* Refused while the type has listings; its categories go with it.
DeleteListingType(t) ==
    /\ Edit /\ t \in DOMAIN types \ listed
    /\ types' = Without(types, {t})
    /\ Drop({c \in DOMAIN categories : categories[c].type = t})
    /\ UNCHANGED <<listed, redirects, names, routing>>

\* upsert_listing creates a type's first listing.
FirstListing(t) ==
    /\ t \in DOMAIN types \ listed
    /\ listed' = listed \cup {t}
    /\ UNCHANGED <<types, categories, redirects, former, names, routing, routeEdits>>

-----------------------------------------------------------------------------
(* Categories.                                                              *)

SlugFree(t, slug, self) ==
    /\ slug \notin RESERVED_SLUGS
    /\ ~\E c \in DOMAIN categories \ {self} : categories[c].type = t /\ categories[c].slug = slug

\* The history of the names: what a slug is used for a second time cannot be told
\* from what it was used for first.
TakeName(slug) ==
    /\ names' = names \cup {slug}
    /\ routing' = IF slug \in names THEN "reused" ELSE routing

CreateCategory(c, t, slug, parent) ==
    /\ Edit /\ c \notin DOMAIN categories /\ former[c] = {}
    /\ t \in DOMAIN types /\ SlugFree(t, slug, c) /\ parent \in Parents(t, c)
    /\ categories' = With(categories, c, [type |-> t, slug |-> slug, parent |-> parent])
    /\ TakeName(slug)
    /\ UNCHANGED <<types, listed, redirects, former>>

\* Faulty variant: the redirect of a slug that was redirected to is not written.
Renamed_OnlyOnce(old, new) ==
    IF \E p \in DOMAIN redirects : redirects[p] = old THEN redirects
    ELSE With(redirects, old, new)

\* update_or_create of the redirect, by its old prefix.
Renamed(old, new) == With(redirects, old, new)

\* A new slug moves the category's page and every listing below it; the name, the
\* order and the parent move nothing.
UpdateCategory(c, slug) ==
    LET t == categories[c].type
    IN /\ c \in DOMAIN categories /\ slug # categories[c].slug /\ SlugFree(t, slug, c)
       /\ Edit
       /\ categories' = [categories EXCEPT ![c].slug = slug]
       /\ redirects' = Renamed(CategoryUrl(c), Prefix(t) \o <<slug>>)
       /\ former' = [former EXCEPT ![c] = @ \cup {CategoryUrl(c)}]
       /\ TakeName(slug)
       /\ UNCHANGED <<types, listed>>

MoveCategory(c, parent) ==
    /\ c \in DOMAIN categories /\ parent \in Parents(categories[c].type, c)
    /\ parent # categories[c].parent
    /\ Edit
    /\ categories' = [categories EXCEPT ![c].parent = parent]
    /\ UNCHANGED <<types, listed, redirects, former, names, routing>>

\* The children go with it; nothing is redirected.
DeleteCategory(c) ==
    /\ Edit /\ c \in DOMAIN categories
    /\ Drop(Subtree(c))
    /\ UNCHANGED <<types, listed, redirects, names, routing>>

RouteNext ==
    \/ \E t \in TypeIds, s \in Segments : CreateListingType(t, s) \/ UpdateListingType(t, s)
    \/ \E t \in TypeIds : DeleteListingType(t) \/ FirstListing(t)
    \/ \E c \in CategoryIds :
          \/ \E s \in Slugs : UpdateCategory(c, s)
          \/ \E s \in Slugs, t \in TypeIds, p \in CategoryIds \cup {NoParent} :
                CreateCategory(c, t, s, p)
          \/ \E p \in CategoryIds \cup {NoParent} : MoveCategory(c, p)
          \/ DeleteCategory(c)

RouteSpec == RouteInit /\ [][RouteNext]_routeVars

-----------------------------------------------------------------------------
(* The router.                                                              *)

\* _match_redirect: the redirects whose old prefix is a prefix of the path.
Matching(path) == {p \in DOMAIN redirects : IsPrefix(p, path)}

BestMatch(path) == CHOOSE p \in Matching(path) : \A q \in Matching(path) : Len(p) >= Len(q)

\* Where a permanent redirect sends the path.
Moved(path) ==
    redirects[BestMatch(path)] \o SubSeq(path, Len(BestMatch(path)) + 1, Len(path))

\* public_dispatch on a path no redirect matches: the category whose page it is.
Dispatch(path) ==
    {c \in DOMAIN categories :
        \/ /\ Multi /\ Len(path) = 2
           /\ path = <<types[categories[c].type], categories[c].slug>>
        \/ /\ ~Multi /\ Len(path) = 1 /\ path[1] = categories[c].slug}

\* public_dispatch: redirects come before pages.
Served(path) == IF Matching(path) # {} THEN {} ELSE Dispatch(path)

\* Where a client that follows redirects ends up; a redirect per edit is enough unless
\* they go in a circle.
Followed(path) ==
    LET hop[n \in 0..MaxRouteEdits] ==
            IF n = 0 THEN path
            ELSE IF Matching(hop[n - 1]) = {} THEN hop[n - 1] ELSE Moved(hop[n - 1])
    IN hop[MaxRouteEdits]

-----------------------------------------------------------------------------
\* Type: segments and slugs are unique where the database says so.
RouteTypeOK ==
    /\ DOMAIN types \subseteq TypeIds /\ \A t \in DOMAIN types : types[t] \in Segments
    /\ \A t, o \in DOMAIN types : types[t] = types[o] => t = o
    /\ \A c \in DOMAIN categories :
          /\ categories[c].type \in DOMAIN types
          /\ categories[c].parent \in Parents(categories[c].type, c)
          /\ \A d \in DOMAIN categories : CategoryUrl(c) = CategoryUrl(d) => c = d
    /\ listed \subseteq DOMAIN types /\ routeEdits \in 0..MaxRouteEdits

\* In a tenant of one type in which no slug was used twice, whatever sequence of
\* renames and deletions the operator made, a client that follows the redirects from
\* any URL a category ever had reaches that category (_update_category and
\* _match_redirect agree).
OldLinksLead ==
    routing = "plain" =>
        \A c \in DOMAIN categories :
            \A url \in former[c] \cup {CategoryUrl(c)} : Served(Followed(url)) = {c}
=============================================================================
