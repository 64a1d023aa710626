------------------------------ MODULE MCAccounts ------------------------------
(***************************************************************************)
(* Who may act on the site: claims of listings, the owners' sign-in links  *)
(* and the operators' set-password links.  The three share no state in     *)
(* these models, so a behaviour picks the one it is about in its first     *)
(* state and leaves the others alone: the state spaces add up instead of   *)
(* multiplying.                                                            *)
(***************************************************************************)
EXTENDS Claims, SignIn, Operators, TLC

CONSTANTS Parts,                   \* the components a configuration looks at
          s1, s2, t1, t2, u1, u2   \* claimants, links, processes: see the cfg

VARIABLE part                      \* the component this behaviour is about

allVars == <<part, claimVars, signInVars, operatorVars>>

Init ==
    /\ part \in Parts
    /\ ClaimInit /\ SignInInit /\ OperatorInit
    /\ part # "claims" => matches = [l \in Listings |-> TRUE]

Next ==
    /\ UNCHANGED part
    /\ \/ part = "claims" /\ ClaimNext /\ UNCHANGED <<signInVars, operatorVars>>
       \/ part = "signin" /\ SignInNext /\ UNCHANGED <<claimVars, operatorVars>>
       \/ part = "operators" /\ OperatorNext /\ UNCHANGED <<claimVars, signInVars>>

Spec == Init /\ [][Next]_allVars

\* Each pair is used symmetrically by all three components.
S == {s1, s2}
T == {t1, t2}
U == {u1, u2}
Symmetric == Permutations(S) \cup Permutations(T) \cup Permutations(U)
=============================================================================
