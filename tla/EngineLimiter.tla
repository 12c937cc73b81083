---------------------------- MODULE EngineLimiter ----------------------------
(***************************************************************************)
(* The cap on concurrent engine runs (server/limiter.go) as the workers    *)
(* use it (server/worker.go, runEngineForJob) while the settings API       *)
(* replaces it (server/handlers_settings.go, applySettingsToRuntime).      *)
(*                                                                         *)
(* A limiter is a buffered channel: Acquire sends a token, Release         *)
(* receives one.  Every settings change makes a new limiter; a worker      *)
(* releases the one it loaded, which need not be the current one.          *)
(***************************************************************************)
EXTENDS Naturals, FiniteSets

CONSTANTS
    Workers,        \* worker goroutines
    Caps,           \* values of max_concurrent_jobs; 0 is "no limiter"
    MaxLimiters     \* bound on the limiters made, the first one included

ASSUME LimiterAssumption ==
    Caps \subseteq Nat /\ IsFiniteSet(Workers) /\ MaxLimiters \in Nat \ {0}

VARIABLES
    current,        \* the limiter the atomic pointer holds
    cap,            \* capacity of each limiter; 0: the nil limiter
    tokens,         \* tokens in each limiter's channel
    epc,            \* where each worker is in runEngineForJob
    lim             \* the limiter each worker has loaded

vars == <<current, cap, tokens, epc, lim>>
Limiters == 1 .. MaxLimiters

LimiterTypeOK ==
    /\ current \in Limiters
    /\ cap \in [Limiters -> Nat]
    /\ tokens \in [Limiters -> Nat]
    /\ epc \in [Workers -> {"idle", "acquire", "run"}]
    /\ lim \in [Workers -> Limiters]

\* newEngineLimiter(0) is nil, and a nil limiter holds nobody back.
Nil(g) == cap[g] < 1

Load(w) ==
    /\ epc[w] = "idle"
    /\ lim' = [lim EXCEPT ![w] = current]
    /\ epc' = [epc EXCEPT ![w] = IF Nil(current) THEN "run" ELSE "acquire"]
    /\ UNCHANGED <<current, cap, tokens>>

Acquire_NoRoom(w) ==
    /\ epc[w] = "acquire"
    /\ tokens' = [tokens EXCEPT ![lim[w]] = @ + 1]
    /\ epc' = [epc EXCEPT ![w] = "run"]
    /\ UNCHANGED <<current, cap, lim>>

Acquire_LeavesOne(w) ==
    /\ epc[w] = "acquire"
    /\ tokens[lim[w]] + 1 < cap[lim[w]]
    /\ tokens' = [tokens EXCEPT ![lim[w]] = @ + 1]
    /\ epc' = [epc EXCEPT ![w] = "run"]
    /\ UNCHANGED <<current, cap, lim>>

Acquire(w) ==
    /\ epc[w] = "acquire"
    /\ tokens[lim[w]] < cap[lim[w]]
    /\ tokens' = [tokens EXCEPT ![lim[w]] = @ + 1]
    /\ epc' = [epc EXCEPT ![w] = "run"]
    /\ UNCHANGED <<current, cap, lim>>

\* The job's context is cancelled or times out while the worker waits.
Canceled(w) ==
    /\ epc[w] = "acquire"
    /\ epc' = [epc EXCEPT ![w] = "idle"]
    /\ UNCHANGED <<current, cap, tokens, lim>>

\* The engine run ends and the deferred Release takes a token back.
Release(w) ==
    /\ epc[w] = "run"
    /\ \/ Nil(lim[w]) /\ tokens' = tokens
       \/ /\ ~Nil(lim[w]) /\ tokens[lim[w]] > 0
          /\ tokens' = [tokens EXCEPT ![lim[w]] = @ - 1]
    /\ epc' = [epc EXCEPT ![w] = "idle"]
    /\ UNCHANGED <<current, cap, lim>>

\* Any change of any setting stores a new limiter.
Replace(max) ==
    /\ current < MaxLimiters
    /\ current' = current + 1
    /\ cap' = [cap EXCEPT ![current + 1] = max]
    /\ UNCHANGED <<tokens, epc, lim>>

Init ==
    /\ current = 1
    /\ \E max \in Caps : cap = [g \in Limiters |-> IF g = 1 THEN max ELSE 0]
    /\ tokens = [g \in Limiters |-> 0]
    /\ epc = [w \in Workers |-> "idle"]
    /\ lim = [w \in Workers |-> 1]

Next ==
    \/ \E w \in Workers : Load(w) \/ Acquire(w) \/ Canceled(w) \/ Release(w)
    \/ \E max \in Caps : Replace(max)

Spec == Init /\ [][Next]_vars

\* Engine runs end; Go's channels serve a waiting sender, so a worker for which
\* there is room again and again is not passed over for ever.
Fairness == \A w \in Workers : WF_vars(Release(w)) /\ SF_vars(Acquire(w))

LiveSpec == Spec /\ Fairness

-----------------------------------------------------------------------------
Holders(g) == {w \in Workers : epc[w] = "run" /\ lim[w] = g}

\* A limiter has exactly one token for each engine run that went through it,
\* so the Release of a run never blocks, also when the limiter was replaced
\* while the run was on; and those runs are at most its capacity.
TokensExact ==
    \A g \in Limiters :
        /\ g > current => Holders(g) = {} /\ tokens[g] = 0
        /\ g <= current /\ ~Nil(g) =>
             /\ tokens[g] = Cardinality(Holders(g))
             /\ Cardinality(Holders(g)) <= cap[g]

\* A worker that waits for a slot gets one or is cancelled, although the
\* limiter it waits on may no longer be the current one.
NobodyStarves == \A w \in Workers : epc[w] = "acquire" ~> epc[w] # "acquire"
=============================================================================
