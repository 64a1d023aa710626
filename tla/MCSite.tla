-------------------------------- MODULE MCSite --------------------------------
(***************************************************************************)
(* What the public site is made of: paths and redirects, the search index, *)
(* the sitemap, the settings of the directory, and the limits on what its  *)
(* visitors send.  The five share no state in these models, so a behaviour *)
(* picks the one it is about in its first state and leaves the others      *)
(* alone.                                                                  *)
(***************************************************************************)
EXTENDS Routes, SearchIndex, Sitemaps, TenantSettings, RateLimits, TLC

CONSTANTS Parts,                   \* the components a configuration looks at
          s1, s2, t1, t2, u1, u2   \* requests, settings pages, mail hosts, site names

VARIABLE part                      \* the component this behaviour is about

allVars == <<part, routeVars, searchVars, sitemapVars, settingsVars, limitVars>>

Init ==
    /\ part \in Parts
    /\ RouteInit /\ SearchInit /\ SitemapInit /\ SettingsInit /\ LimitInit
    /\ part # "sitemap" => category = CHOOSE name \in PathNames : TRUE

Next ==
    /\ UNCHANGED part
    /\ \/ part = "routes" /\ RouteNext /\ UNCHANGED <<searchVars, sitemapVars, settingsVars, limitVars>>
       \/ part = "search" /\ SearchNext /\ UNCHANGED <<routeVars, sitemapVars, settingsVars, limitVars>>
       \/ part = "sitemap" /\ SitemapNext /\ UNCHANGED <<routeVars, searchVars, settingsVars, limitVars>>
       \/ part = "settings" /\ SettingsNext /\ UNCHANGED <<routeVars, searchVars, sitemapVars, limitVars>>
       \/ part = "limits" /\ LimitNext /\ UNCHANGED <<routeVars, searchVars, sitemapVars, settingsVars>>

Spec == Init /\ [][Next]_allVars

S == {s1, s2}
T == {t1, t2}
U == {u1, u2}
Symmetric == Permutations(S) \cup Permutations(T) \cup Permutations(U)

MCRules == <<[kind |-> "ip", limit |-> 2], [kind |-> "email", limit |-> 1]>>
MCSubjects == [ip |-> {"i"}, email |-> {"e", "f"}]
=============================================================================
