----------------------------- MODULE RateLimits -----------------------------
(***************************************************************************)
(* Fixed-window rate limits (audit/ratelimit.py), as the claim, lead, owner*)
(* sign-in, checkout and inbound commands use them: a request is counted   *)
(* against the rules of each of its subjects in order, one committed upsert*)
(* each, and stops at the first rule that is over its limit.  Requests run *)
(* side by side and can die between two rules.  A refusal leaves one       *)
(* `blocked` command-log row per window, from the hit that crossed the     *)
(* limit.                                                                  *)
(***************************************************************************)
EXTENDS Integers, Sequences

CONSTANTS
    Callers,     \* requests that can be under way at a time
    Rules,       \* Rules[n]: [kind, limit], in the order they are checked
    Subjects,    \* Subjects[kind]: the values a request can carry
    Windows,     \* window numbers 0 .. Last
    MaxHits      \* bound: hits of one counter

ASSUME LimitsAssumption ==
    /\ Rules \in Seq([kind : DOMAIN Subjects, limit : Nat \ {0}])
    /\ Windows \subseteq Nat /\ 0 \in Windows
    /\ MaxHits \in Nat

VARIABLES
    window,      \* the window the clock is in
    count,       \* count[n][s][w]: RateLimitCounter.count
    call,        \* call[c]: [at, next, subject, window] of a request
    let,         \* history: let[n][s][w]: hits that rule n has let through
    blocked      \* blocked[n][s][w]: `blocked` rows in the command log

limitVars == <<window, count, call, let, blocked>>

Values == UNION {Subjects[k] : k \in DOMAIN Subjects}
\* What one request carries: a value of every kind.
Vectors == {f \in [DOMAIN Subjects -> Values] : \A k \in DOMAIN Subjects : f[k] \in Subjects[k]}
Zero == [n \in DOMAIN Rules |-> [s \in Values |-> [w \in Windows |-> 0]]]
Resting == [at |-> "idle", next |-> 1, subject |-> <<>>, window |-> 0]

LimitInit ==
    /\ window = 0
    /\ count = Zero /\ let = Zero /\ blocked = Zero
    /\ call = [c \in Callers |-> Resting]

\* The caller's `now` is read once; it decides the window of every hit.
Request(c, subject) ==
    /\ call[c].at = "idle"
    /\ call' = [call EXCEPT ![c] = [at |-> "check", next |-> 1, subject |-> subject, window |-> window]]
    /\ UNCHANGED <<window, count, let, blocked>>

Over(n, hits) == hits > Rules[n].limit

\* Faulty variant: every refused hit is logged.
FirstBlock_Every(n, hits) == TRUE

FirstBlock(n, hits) == hits = Rules[n].limit + 1

\* One rule of check: the upsert returns the new count.
Hit(c) ==
    LET n == call[c].next
        s == call[c].subject[Rules[n].kind]
        w == call[c].window
        hits == count[n][s][w] + 1
    IN /\ call[c].at = "check" /\ n <= Len(Rules) /\ hits <= MaxHits
       /\ count' = [count EXCEPT ![n][s][w] = hits]
       /\ \/ /\ ~Over(n, hits)
             /\ let' = [let EXCEPT ![n][s][w] = @ + 1]
             /\ call' = [call EXCEPT ![c].next = n + 1]
          \/ /\ Over(n, hits)
             /\ call' = [call EXCEPT ![c].at = IF FirstBlock(n, hits) THEN "log" ELSE "refused"]
             /\ UNCHANGED let
       /\ UNCHANGED <<window, blocked>>

\* The command that was refused writes its row; nothing else of it happens.
LogBlocked(c) ==
    /\ call[c].at = "log"
    /\ blocked' = [blocked EXCEPT ![call[c].next][call[c].subject[Rules[call[c].next].kind]][call[c].window] = @ + 1]
    /\ call' = [call EXCEPT ![c].at = "refused"]
    /\ UNCHANGED <<window, count, let>>

\* The request ends: refused, allowed past its last rule, or dead.
EndRequest(c) ==
    /\ call[c].at # "idle"
    /\ call' = [call EXCEPT ![c] = Resting]
    /\ UNCHANGED <<window, count, let, blocked>>

NextWindow ==
    /\ window + 1 \in Windows
    /\ window' = window + 1
    /\ UNCHANGED <<count, call, let, blocked>>

\* rate_limit_prune: counters of windows that ended more than a day ago, when no
\* request can still be counting in them.
Prune(w) ==
    /\ w < window /\ \A c \in Callers : call[c].at = "idle" \/ call[c].window # w
    /\ count' = [n \in DOMAIN Rules |-> [s \in Values |-> [count[n][s] EXCEPT ![w] = 0]]]
    /\ count' # count
    /\ UNCHANGED <<window, call, let, blocked>>

LimitNext ==
    \/ \E c \in Callers : \/ \E subject \in Vectors : Request(c, subject)
                          \/ Hit(c) \/ LogBlocked(c) \/ EndRequest(c)
    \/ NextWindow \/ \E w \in Windows : Prune(w)

LimitSpec == LimitInit /\ [][LimitNext]_limitVars

-----------------------------------------------------------------------------
Counters == [DOMAIN Rules -> [Values -> [Windows -> Nat]]]
Calls == [at : {"idle", "check", "log", "refused"}, next : 1 .. Len(Rules) + 1,
          subject : Vectors \cup {<<>>}, window : Windows]

\* Counters count, and a request's place in the list of rules never runs past its end
\* (the loop of check): what it counts and logs is always a rule's and a subject's.
LimitTypeOK ==
    /\ window \in Windows
    /\ count \in Counters /\ let \in Counters /\ blocked \in Counters
    /\ call \in [Callers -> Calls]
    /\ \A c \in Callers : /\ call[c].at # "idle" => call[c].subject \in Vectors
                          /\ call[c].at = "log" => call[c].next \in DOMAIN Rules

\* However requests interleave or die, a rule lets at most its limit of hits through in a
\* window, all of them before it refuses one, and a window's flood leaves at most one row
\* in the command log.
LimitHeld ==
    \A n \in DOMAIN Rules, s \in Values, w \in Windows :
        /\ let[n][s][w] <= Rules[n].limit
        /\ count[n][s][w] > Rules[n].limit => let[n][s][w] = Rules[n].limit
        /\ blocked[n][s][w] <= 1
=============================================================================
