--------------------------- MODULE NameserverQuery ---------------------------
(***************************************************************************)
(* How the engine asks nameservers (engine/nameserver): QueryWithOptions   *)
(* of concurrent goroutines, with the query cache and the concurrency cap  *)
(* of an address, the failure state of a run (error cache, reachability,   *)
(* blacklisting, fast-fail, latency budget), and the cross-job hot cache   *)
(* of the server (server/nameserver_hot_cache.go) that lets the runs of    *)
(* several jobs share query caches and caps.                               *)
(*                                                                         *)
(* A base store is named by a number.  A run reaches the query cache and   *)
(* the cap of an address through its base store, whatever happens to the   *)
(* entry of the hot cache meanwhile, so they are indexed by base store and *)
(* address.  Time is not counted: what has a time to live may be gone      *)
(* whenever it is looked at.  A server is a nameserver object with one     *)
(* protocol; the code keeps its state per protocol.                        *)
(***************************************************************************)
EXTENDS Naturals, Sequences, FiniteSets, Functions

CONSTANTS
    None,
    Threads, Runs, RunOf,       \* the goroutines of each run
    HotKeys, HotKeyOf,          \* nameserverHotCacheKey of a run
    MaxHot,                     \* maxEntries of the hot cache
    Servers, Addrs, AddrOf,
    Behaviour,                  \* what a query to an address may end with
    Questions,                  \* cache keys
    PlainSOA, Diagnostic,       \* SOA queries without EDNS, diagnostic probes
    CapLimit,                   \* nameserver_concurrency; 0 is "no cap"
    Threshold,                  \* fast_fail_timeout_count; 0 is "off"
    LatencyBudget,              \* whether nameserver_max_total_ms is set
    QueryCacheMaxEntries, MaxRunAddresses,
    Plans,                      \* the queries of the threads, in their order
    MaxFaults                   \* bound on cancellations and panics

Results == {"answer", "timeout", "hard", "empty"}
Bases == 1 .. Cardinality(Runs)

ASSUME QueryAssumption ==
    /\ RunOf \in [Threads -> Runs] /\ HotKeyOf \in [Runs -> HotKeys]
    /\ AddrOf \in [Servers -> Addrs] /\ Behaviour \in [Addrs -> SUBSET Results]
    /\ PlainSOA \subseteq Questions /\ Diagnostic \subseteq Questions
    /\ {MaxHot, QueryCacheMaxEntries, MaxRunAddresses} \subseteq Nat \ {0}
    /\ {CapLimit, Threshold, MaxFaults} \subseteq Nat
    /\ Plans \subseteq [Threads -> Seq([server: Servers, q: Questions])]
    /\ LatencyBudget \in BOOLEAN
    /\ IsFiniteSet(Runs)
    /\ None \notin Threads \cup {"none", "answer", "error", "abandoned"}
    /\ Servers # {} /\ Questions # {}

VARIABLES
    hot, older, \* the hot cache: key -> base store or None; keys by last use
    bases,      \* the number of base stores made
    life, base, \* of a run: whether it has leased, and its base store
    cache,      \* query caches: base store, address -> FIFO of keys, values
    flight,     \* their inflight entries: the leader of a key
    slots,      \* the caps: queries let through
    fails,      \* failure state of a run
    object,     \* failure state of a run's nameserver objects
    plan,       \* the queries a thread has yet to make
    th,         \* threads
    faults

shared == <<cache, flight, slots>>
leases == <<hot, older, bases, life, base>>
vars == <<leases, shared, fails, object, plan, th, faults>>

Thread == [pc: {"idle", "lookup", "check", "mark", "join", "wait", "acquire", "capwait",
                "network", "observe", "learn", "store", "finish", "release", "unwind"},
           server: Servers, q: Questions, gone: BOOLEAN,
           leader: Threads \cup {None},
           got: {"none", "answer", "error", "abandoned", None},
           out: Results \cup {"none", "cancel", "error", "panic", None}]

\* The keys of a query cache in the order they came, each once, and what the
\* cache holds for them.
QueryCache ==
    {c \in [order: Seq(Questions),
            data: UNION {[K -> {"answer", "none"}] : K \in SUBSET Questions}] :
        /\ Len(c.order) <= QueryCacheMaxEntries
        /\ DOMAIN c.data = Range(c.order)
        /\ IsInjective(c.order)}

QueryTypeOK ==
    /\ hot \in [HotKeys -> Bases \cup {None}] /\ older \subseteq HotKeys \X HotKeys
    /\ bases \in 0 .. Cardinality(Runs)
    /\ life \in [Runs -> {"new", "leased", "done"}]
    /\ base \in [Runs -> 0 .. bases]
    /\ cache \in [Bases -> [Addrs -> QueryCache]]
    /\ flight \in [Bases -> [Addrs -> [Questions -> Threads \cup {None}]]]
    /\ slots \in [Bases -> [Addrs -> Nat]]
    /\ fails \in [Runs -> [tried: SUBSET Addrs, pending: SUBSET Addrs, blackout: SUBSET Addrs,
                           errors: SUBSET (Addrs \X Questions)]]
    /\ object \in [Runs -> [Servers -> [count: Nat, blocked: BOOLEAN, listed: BOOLEAN,
                                        slow: BOOLEAN]]]
    /\ plan \in [Threads -> Seq([server: Servers, q: Questions])]
    /\ th \in [Threads -> Thread] /\ faults \in 0 .. MaxFaults

Init ==
    /\ hot = [k \in HotKeys |-> None] /\ older = {} /\ bases = 0
    /\ life = [r \in Runs |-> "new"] /\ base = [r \in Runs |-> 0]
    /\ cache = [b \in Bases |-> [a \in Addrs |-> [order |-> <<>>, data |-> <<>>]]]
    /\ flight = [b \in Bases |-> [a \in Addrs |-> [q \in Questions |-> None]]]
    /\ slots = [b \in Bases |-> [a \in Addrs |-> 0]]
    /\ fails = [r \in Runs |-> [tried |-> {}, pending |-> {}, blackout |-> {}, errors |-> {}]]
    /\ object = [r \in Runs |-> [s \in Servers |->
                    [count |-> 0, blocked |-> FALSE, listed |-> FALSE, slow |-> FALSE]]]
    /\ th = [t \in Threads |->
              [pc |-> "idle", server |-> CHOOSE s \in Servers : TRUE,
               q |-> CHOOSE q \in Questions : TRUE, gone |-> FALSE,
               leader |-> None, got |-> None, out |-> None]]
    /\ plan \in Plans
    /\ faults = MaxFaults

-----------------------------------------------------------------------------
(* The hot cache.                                                          *)

\* Entries that have outlived their time are dropped at every lease and touch.
Unexpired(dead) == [k \in HotKeys |-> IF k \in dead THEN None ELSE hot[k]]

\* The entry of k is the last one used.
Used(k) == {p \in older : k \notin {p[1], p[2]}} \cup {<<j, k>> : j \in HotKeys \ {k}}

\* The least recently used entries give way when there are too many.
Evicted(h, order) ==
    LET newer(k) == {j \in HotKeys : h[j] # None /\ <<k, j>> \in order}
    IN  [k \in HotKeys |-> IF Cardinality(newer(k)) >= MaxHot THEN None ELSE h[k]]

\* Lease makes a base store for a key without one.
Lease(r, dead) ==
    LET k == HotKeyOf[r]
        kept == Unexpired(dead)
        b == IF kept[k] = None THEN bases + 1 ELSE kept[k]
    IN  /\ life[r] = "new"
        /\ older' = Used(k)
        /\ hot' = Evicted([kept EXCEPT ![k] = b], Used(k))
        /\ bases' = IF kept[k] = None THEN b ELSE bases
        /\ base' = [base EXCEPT ![r] = b]
        /\ life' = [life EXCEPT ![r] = "leased"]
        /\ UNCHANGED <<shared, fails, object, th, faults, plan>>

\* The release of a lease: MergeWarmDataFrom clears the answers of addresses
\* that were idle for too long, and touch renews the entry if it still is the
\* one that was leased.
EndLease(r, dead, stale) ==
    LET kept == Unexpired(dead) IN
    /\ life[r] = "leased" /\ \A t \in Threads : RunOf[t] = r => th[t].pc = "idle"
    /\ hot' = kept
    /\ older' = IF kept[HotKeyOf[r]] = base[r] THEN Used(HotKeyOf[r]) ELSE older
    /\ cache' = [cache EXCEPT ![base[r]] = [a \in Addrs |->
                    IF a \in stale THEN [order |-> <<>>, data |-> <<>>] ELSE @[a]]]
    /\ life' = [life EXCEPT ![r] = "done"]
    /\ UNCHANGED <<bases, base, flight, slots, fails, object, th, faults, plan>>

-----------------------------------------------------------------------------
(* The state a thread works on.                                            *)

Run(t) == RunOf[t]
Base(t) == base[RunOf[t]]
Addr(t) == AddrOf[th[t].server]
Object(t) == object[RunOf[t]][th[t].server]
Cached(t) == cache[Base(t)][Addr(t)]

Goto(t, pc) == th' = [th EXCEPT ![t].pc = pc]

\* The query ends with an answer, no response or an error.
Returned(rec, out) == [rec EXCEPT !.pc = "idle", !.out = out, !.leader = None, !.got = None]
Return(t, out) == th' = [th EXCEPT ![t] = Returned(@, out)]

Last(s, n) == SubSeq(s, IF Len(s) > n THEN Len(s) - n + 1 ELSE 1, Len(s))

Stored_Unbounded(c, q, v) ==
    [order |-> Append(c.order, q), data |-> [k \in DOMAIN c.data \cup {q} |->
        IF k = q THEN v ELSE c.data[k]]]

\* queryCache.set: the oldest keys give way when there are too many.
Stored(c, q, v) ==
    LET order == Last(IF q \in DOMAIN c.data THEN c.order ELSE Append(c.order, q),
                      QueryCacheMaxEntries)
    IN  [order |-> order,
         data |-> [k \in Range(order) |-> IF k = q THEN v ELSE c.data[k]]]

SetCache(t, v) == cache' = [cache EXCEPT ![Base(t)][Addr(t)] = Stored(@, th[t].q, v)]

\* shouldSkipQuery: any of the signals of the run.
Skips(t) ==
    \/ Addr(t) \in fails[Run(t)].blackout
    \/ <<Addr(t), th[t].q>> \in fails[Run(t)].errors
    \/ Object(t).listed
    \/ Threshold > 0 /\ Object(t).blocked
    \/ LatencyBudget /\ Object(t).slow

-----------------------------------------------------------------------------
(* QueryWithOptions.                                                       *)

\* A run may ask a bounded number of addresses; others get no response.
Begin(t) ==
    LET ask == Head(plan[t])
        tried == fails[Run(t)].tried
        admitted == AddrOf[ask.server] \in tried \/ Cardinality(tried) < MaxRunAddresses
    IN  /\ th[t].pc = "idle" /\ life[Run(t)] = "leased" /\ plan[t] # <<>>
        /\ plan' = [plan EXCEPT ![t] = Tail(@)]
        /\ th' = [th EXCEPT ![t] = [@ EXCEPT !.pc = IF admitted THEN "lookup" ELSE "idle",
                    !.server = ask.server, !.q = ask.q, !.gone = FALSE,
                    !.out = IF admitted THEN None ELSE "none"]]
        /\ fails' = [fails EXCEPT ![Run(t)].tried =
                        IF admitted THEN @ \cup {AddrOf[ask.server]} ELSE @]
        /\ UNCHANGED <<leases, shared, object, faults>>

Lookup(t) ==
    /\ th[t].pc = "lookup"
    /\ IF th[t].q \in DOMAIN Cached(t).data THEN Return(t, Cached(t).data[th[t].q])
                                            ELSE Goto(t, "check")
    /\ UNCHANGED <<leases, shared, fails, object, faults, plan>>

Check(t) ==
    /\ th[t].pc = "check"
    /\ Goto(t, IF Skips(t) THEN "mark" ELSE "join")
    /\ UNCHANGED <<leases, shared, fails, object, faults, plan>>

\* A query that is skipped leaves "no response" in the query cache.
Mark(t) ==
    /\ th[t].pc = "mark"
    /\ SetCache(t, "none")
    /\ Return(t, "none")
    /\ UNCHANGED <<leases, flight, slots, fails, object, faults, plan>>

Join_Overtakes(t) ==
    /\ th[t].pc = "join"
    /\ flight' = [flight EXCEPT ![Base(t)][Addr(t)][th[t].q] = t]
    /\ Goto(t, "acquire")
    /\ UNCHANGED <<leases, cache, slots, fails, object, faults, plan>>

\* waitOrRegister: the first one leads, the others wait for it.
Join(t) ==
    LET leader == flight[Base(t)][Addr(t)][th[t].q] IN
    /\ th[t].pc = "join"
    /\ IF leader = None
         THEN /\ flight' = [flight EXCEPT ![Base(t)][Addr(t)][th[t].q] = t]
              /\ Goto(t, "acquire")
         ELSE /\ th' = [th EXCEPT ![t].pc = "wait", ![t].leader = leader]
              /\ UNCHANGED flight
    /\ UNCHANGED <<leases, cache, slots, fails, object, faults, plan>>

Wait_NotAbandoned(t) ==
    /\ th[t].pc = "wait" /\ th[t].got \notin {None, "abandoned"}
    /\ Return(t, th[t].got)
    /\ UNCHANGED <<leases, shared, fails, object, faults, plan>>

\* A waiter takes over what its leader ended with, and tries again if the
\* leader was abandoned.
Wait(t) ==
    /\ th[t].pc = "wait" /\ th[t].got # None
    /\ IF th[t].got = "abandoned"
         THEN th' = [th EXCEPT ![t].pc = "join", ![t].leader = None, ![t].got = None]
         ELSE Return(t, th[t].got)
    /\ UNCHANGED <<leases, shared, fails, object, faults, plan>>

WaitCanceled(t) ==
    /\ th[t].pc = "wait" /\ th[t].gone
    /\ Return(t, "cancel")
    /\ UNCHANGED <<leases, shared, fails, object, faults, plan>>

\* finish and abandon hand a result to the waiters of a leader.
Handed(t, result) ==
    [w \in Threads |-> IF th[w].pc = "wait" /\ th[w].leader = t /\ th[w].got = None
                         THEN [th[w] EXCEPT !.got = result] ELSE th[w]]

Unflight(t) == flight' = [flight EXCEPT ![Base(t)][Addr(t)][th[t].q] = None]

Acquire(t) ==
    /\ th[t].pc = "acquire"
    /\ IF CapLimit = 0 \/ slots[Base(t)][Addr(t)] < CapLimit
         THEN /\ slots' = [slots EXCEPT ![Base(t)][Addr(t)] = @ + 1]
              /\ Goto(t, "network")
         ELSE /\ Goto(t, "capwait")
              /\ UNCHANGED slots
    /\ UNCHANGED <<leases, cache, flight, fails, object, faults, plan>>

CapCanceled(t) ==
    /\ th[t].pc = "capwait" /\ th[t].gone
    /\ th' = [Handed(t, "error") EXCEPT ![t] = Returned(@, "cancel")]
    /\ Unflight(t)
    /\ UNCHANGED <<leases, cache, slots, fails, object, faults, plan>>

\* queryNetwork; a query whose context is gone may still get its answer.  The
\* time it took counts against the latency budget of a live query.
Network(t, result, over) ==
    /\ th[t].pc = "network"
    /\ result \in Behaviour[Addr(t)] \cup (IF th[t].gone THEN {"cancel"} ELSE {})
    /\ over => LatencyBudget /\ ~th[t].gone /\ th[t].q \notin Diagnostic
    /\ object' = IF over THEN [object EXCEPT ![Run(t)][th[t].server].slow = TRUE] ELSE object
    /\ th' = [th EXCEPT ![t].pc = "observe", ![t].out = result]
    /\ UNCHANGED <<leases, shared, fails, faults, plan>>

\* fastFailTracker.observeResult.
FastFail(o, timeout) ==
    IF Threshold = 0 THEN o
    ELSE IF ~timeout THEN [o EXCEPT !.count = 0, !.blocked = FALSE]
    ELSE IF o.blocked THEN o
    ELSE IF o.count + 1 >= Threshold THEN [o EXCEPT !.count = 0, !.blocked = TRUE]
    ELSE [o EXCEPT !.count = @ + 1]

\* A timeout counts against the server object unless the query was cancelled.
Observe(t) ==
    /\ th[t].pc = "observe"
    /\ object' = IF th[t].q \in Diagnostic THEN object
                 ELSE [object EXCEPT ![Run(t)][th[t].server] =
                         FastFail(@, ~th[t].gone /\ th[t].out = "timeout")]
    /\ Goto(t, "learn")
    /\ UNCHANGED <<leases, shared, fails, faults, plan>>

\* What the run learns: blacklisting of a plain SOA query, the error cache,
\* which one timeout alone does not enter, and reachability, where the second
\* hard error counts.  A query that was cancelled teaches nothing.
Learn(t) ==
    LET a == Addr(t)
        failed == th[t].out \notin {"answer", "empty"} /\ ~th[t].gone
        probe == th[t].q \in Diagnostic
        cacheError == /\ failed /\ ~probe
                      /\ th[t].out = "timeout" => Object(t).blocked \/ Object(t).count >= 2
        hard == failed /\ ~probe /\ th[t].out = "hard"
        old == fails[Run(t)]
    IN  /\ th[t].pc = "learn"
        /\ object' = [object EXCEPT ![Run(t)][th[t].server].listed =
                        @ \/ (failed /\ th[t].q \in PlainSOA)]
        /\ fails' = [fails EXCEPT ![Run(t)] = [old EXCEPT
              !.errors = IF cacheError THEN @ \cup {<<a, th[t].q>>} ELSE @,
              !.blackout = IF hard /\ a \in old.pending THEN @ \cup {a} ELSE @,
              !.pending = CASE hard -> IF a \in old.blackout THEN @
                                       ELSE IF a \in old.pending THEN @ \ {a} ELSE @ \cup {a}
                            [] ~probe /\ th[t].out = "answer" -> @ \ {a}
                            [] OTHER -> @]]
        /\ Goto(t, "store")
        /\ UNCHANGED <<leases, shared, faults, plan>>

Store_Always(t) ==
    /\ th[t].pc = "store"
    /\ SetCache(t, IF th[t].out = "answer" THEN "answer" ELSE "none")
    /\ Goto(t, "finish")
    /\ UNCHANGED <<leases, flight, slots, fails, object, faults, plan>>

\* An answer is cached, and so is the lack of one unless the query was cancelled.
Store(t) ==
    /\ th[t].pc = "store"
    /\ IF th[t].out \in {"answer", "empty"} \/ ~th[t].gone
         THEN SetCache(t, IF th[t].out = "answer" THEN "answer" ELSE "none")
         ELSE UNCHANGED cache
    /\ Goto(t, "finish")
    /\ UNCHANGED <<leases, flight, slots, fails, object, faults, plan>>

Finish(t) ==
    /\ th[t].pc = "finish"
    /\ th' = [Handed(t, CASE th[t].out = "answer" -> "answer"
                          [] th[t].out = "empty" -> "none"
                          [] OTHER -> "error") EXCEPT ![t].pc = "release"]
    /\ Unflight(t)
    /\ UNCHANGED <<leases, cache, slots, fails, object, faults, plan>>

\* The cap's release wakes all who wait for room.
FreeSlot(t) == slots' = [slots EXCEPT ![Base(t)][Addr(t)] = @ - 1]

Woken_Nobody(t) == th

Woken(t) ==
    [w \in Threads |->
        IF th[w].pc = "capwait" /\ Base(w) = Base(t) /\ Addr(w) = Addr(t)
          THEN [th[w] EXCEPT !.pc = "acquire"] ELSE th[w]]

Release(t) ==
    /\ th[t].pc = "release"
    /\ FreeSlot(t)
    /\ th' = [Woken(t) EXCEPT ![t] = Returned(@, @.out)]
    /\ UNCHANGED <<leases, cache, flight, fails, object, faults, plan>>

\* A panic on the way: the deferred release, then the deferred abandon.
Panic(t) ==
    /\ th[t].pc \in {"network", "observe", "learn", "store", "finish"} /\ faults > 0
    /\ faults' = faults - 1
    /\ FreeSlot(t)
    /\ th' = [Woken(t) EXCEPT ![t].pc = "unwind"]
    /\ UNCHANGED <<leases, cache, flight, fails, object, plan>>

Abandon(t) ==
    /\ th[t].pc = "unwind"
    /\ th' = [Handed(t, "abandoned") EXCEPT ![t] = Returned(@, "panic")]
    /\ Unflight(t)
    /\ UNCHANGED <<leases, cache, slots, fails, object, faults, plan>>

\* The context of a query is cancelled: its job is, or it lost a race.
Cancel(t) ==
    /\ th[t].pc # "idle" /\ ~th[t].gone /\ faults > 0
    /\ faults' = faults - 1
    /\ th' = [th EXCEPT ![t].gone = TRUE]
    /\ UNCHANGED <<leases, shared, fails, object, plan>>

\* Errors, strikes and blackouts of a run have a time to live, each its own.
Expire(r, a) ==
    /\ \/ a \in fails[r].pending /\ fails' = [fails EXCEPT ![r].pending = @ \ {a}]
       \/ a \in fails[r].blackout /\ fails' = [fails EXCEPT ![r].blackout = @ \ {a}]
       \/ \E q \in Questions : /\ <<a, q>> \in fails[r].errors
                               /\ fails' = [fails EXCEPT ![r].errors = @ \ {<<a, q>>}]
    /\ UNCHANGED <<leases, shared, object, th, faults, plan>>

-----------------------------------------------------------------------------
\* The steps a thread takes by itself once it has begun a query.
Step(t) ==
    \/ Lookup(t) \/ Check(t) \/ Mark(t)
    \/ Join(t) \/ Wait(t) \/ WaitCanceled(t) \/ Acquire(t) \/ CapCanceled(t)
    \/ \E result \in Results \cup {"cancel"}, over \in BOOLEAN : Network(t, result, over)
    \/ Observe(t) \/ Learn(t) \/ Store(t) \/ Finish(t) \/ Release(t) \/ Abandon(t)

Next ==
    \/ \E r \in Runs, dead \in SUBSET HotKeys : Lease(r, dead)
    \/ \E r \in Runs, dead \in SUBSET HotKeys, stale \in SUBSET Addrs : EndLease(r, dead, stale)
    \/ \E t \in Threads : Begin(t) \/ Step(t) \/ Panic(t) \/ Cancel(t)
    \/ \E r \in Runs, a \in Addrs : Expire(r, a)

\* Goroutines run, and the transport has a timeout, so a network query ends.
Spec == Init /\ [][Next]_vars /\ \A t \in Threads : WF_vars(Step(t))

-----------------------------------------------------------------------------
(* Properties.                                                             *)

Leads(t) == th[t].pc \in {"acquire", "capwait", "network", "observe", "learn", "store", "finish",
                        "unwind"}
Holds(t) == th[t].pc \in {"network", "observe", "learn", "store", "finish", "release"}

\* Of the goroutines of all runs that share a query cache, at most one is out
\* for a question at a time, and who waits, waits for that one: a leader that
\* ended, failed, was cancelled or panicked has let its waiters go
\* (waitOrRegister, finish, abandon).
OneLeader ==
    /\ \A t \in Threads : Leads(t) => flight[Base(t)][Addr(t)][th[t].q] = t
    /\ \A t \in Threads : th[t].pc = "wait" /\ th[t].got = None =>
          /\ Leads(th[t].leader)
          /\ flight[Base(t)][Addr(t)][th[t].q] = th[t].leader

\* The cap counts the queries that are out, over the runs that share it, and
\* nobody waits for room when there is some (nameserverConcurrencyCap: no
\* slot is lost to a cancelled wait or a panic, no wakeup is lost).
CapExact ==
    \A b \in Bases, a \in Addrs :
        /\ slots[b][a] = Cardinality({t \in Threads : Holds(t) /\ Base(t) = b /\ Addr(t) = a})
        /\ CapLimit > 0 => slots[b][a] <= CapLimit
        /\ \A t \in Threads : th[t].pc = "capwait" /\ Base(t) = b /\ Addr(t) = a
                                => slots[b][a] = CapLimit

\* An address that answers every query, and on which no nameserver object
\* has used up its latency budget.
Healthy(a) ==
    /\ Behaviour[a] = {"answer"}
    /\ \A r \in Runs, s \in Servers : AddrOf[s] = a => ~object[r][s].slow

\* An address that answers every query in time is never taken for dead:
\* whatever is cancelled or panics, no run lists it, no failure count grows,
\* and no cache holds "no response" for it.
HealthyNotBlamed ==
    \A a \in Addrs : Healthy(a) =>
        /\ \A r \in Runs :
             /\ \A s \in Servers : AddrOf[s] = a =>
                  object[r][s].count = 0 /\ ~object[r][s].blocked /\ ~object[r][s].listed
             /\ a \notin fails[r].pending \cup fails[r].blackout
             /\ \A q \in Questions : <<a, q>> \notin fails[r].errors
        /\ \A b \in Bases : \A q \in DOMAIN cache[b][a].data : cache[b][a].data[q] = "answer"

\* Every query comes back: no goroutine waits for ever for a leader or a slot.
QueriesReturn == \A t \in Threads : th[t].pc # "idle" ~> th[t].pc = "idle"
=============================================================================
