\* Two types and two categories; two listings and two drains; one domain; two settings
\* pages; two limits and two requests.
SPECIFICATION Spec
CONSTANTS
    Parts = {"routes", "search", "sitemap", "settings", "limits"}
    s1 = s1  s2 = s2  t1 = t1  t2 = t2  u1 = u1  u2 = u2
    TypeIds = {1, 2}  CategoryIds = {"c", "d"}  Segments = {"p", "q"}
    Slugs = {"a", "b", "x", "search"}  RESERVED_SLUGS = {"search"}
    NoParent = None  MaxRouteEdits = 6
    Indexed = {1, 2}  SearchCategories = {"c"}  Drainers <- S  REINDEX_CHUNK = 1
    MaxIndexEdits = 4
    Pages = {1, 2}  PathNames = {"a", "b"}  Domains = {"d"}  NoBase = "none"
    MIN_INDEXABLE_LISTINGS = 2  MaxPageEdits = 4  MaxGenerations = 2  MaxSiteCrashes = 1
    SettingsPages <- S  SmtpHosts <- T  SiteNames <- U  Unset = Unset  MaxSaves = 6
    Callers <- S  Rules <- MCRules  Subjects <- MCSubjects  Windows = {0, 1}  MaxHits = 4
SYMMETRY Symmetric
CHECK_DEADLOCK FALSE
INVARIANTS
    OldLinksLead
    VectorFresh
    SitemapFresh
    SettingsHeld
    LimitHeld
