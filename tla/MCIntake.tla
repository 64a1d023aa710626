------------------------------- MODULE MCIntake -------------------------------
(***************************************************************************)
(* What comes in from outside: payment reports, import files and leads.    *)
(* The three share no state in these models, so a behaviour picks the one  *)
(* it is about in its first state and leaves the others alone.             *)
(***************************************************************************)
EXTENDS Payments, Imports, Leads, TLC

CONSTANTS Parts,    \* the components a configuration looks at
          s1, s2    \* requests, listings: see the cfg

VARIABLE part       \* the component this behaviour is about

allVars == <<part, payVars, importVars, leadVars>>

Init ==
    /\ part \in Parts
    /\ PayInit /\ ImportInit /\ LeadInit
    /\ part # "leads" => ownerOf = [l \in LeadListings |-> Nobody]

Next ==
    /\ UNCHANGED part
    /\ \/ part = "payments" /\ PayNext /\ UNCHANGED <<importVars, leadVars>>
       \/ part = "imports" /\ ImportNext /\ UNCHANGED <<payVars, leadVars>>
       \/ part = "leads" /\ LeadNext /\ UNCHANGED <<payVars, importVars>>

Spec == Init /\ [][Next]_allVars

\* Two requests for the payments, two listings for the leads, used symmetrically.
S == {s1, s2}
Symmetric == Permutations(S)

\* Two files: one creates y and touches x twice; the other has a suppressed
\* row, one that does not validate and one that fails, or cannot be read.
Row(l, c) == [listing |-> l, content |-> c]
MCFiles ==
    1 :> {<<Row("x", "new"), Row("x", "other"), Row("y", "new")>>}
    @@ 2 :> {<<Row("y", "other"), Row("x", Invalid), Row("x", Fatal)>>, Unreadable}
MCSuppressed == {<<"y", "other">>}
MCStock == [l \in {"x", "y"} |-> IF l = "x" THEN "old" ELSE Absent]
=============================================================================
