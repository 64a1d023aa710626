--------------------------- MODULE MCEntitlements ---------------------------
(***************************************************************************)
(* One or two listings and two tiers; every window is one unit long, so    *)
(* that a whole lapse (active, dunning, grace, expired) fits the clock.    *)
(***************************************************************************)
EXTENDS Entitlements

OneListing == {1}
TwoListings == {1, 2}
MCPeriods == {1}

CONSTANTS basic, gold
MCTiers == {basic, gold}

\* The free tier is there, or the tenant has none and expiry hides a listing.
MCRanks == {[t \in MCTiers |-> IF t = gold THEN 1 ELSE r] : r \in {-1, 0}}
=============================================================================
