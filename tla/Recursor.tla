------------------------------ MODULE Recursor ------------------------------
(***************************************************************************)
(* The engine's recursor (engine/recursor): concurrent lookups of one run  *)
(* that walk down from the root, with the cache of results, the coalescing *)
(* of equal lookups, the cache of root referrals and the claims that let   *)
(* one walk ask the root for a top-level domain while others wait.         *)
(*                                                                         *)
(* A name is the sequence of its labels, the top-level one first.  A walk  *)
(* is a frame on the stack of its goroutine; it calls further walks for    *)
(* the target of a CNAME and for the addresses of a nameserver without     *)
(* glue.  Frames share the maps inProgress and glue by reference, so these *)
(* are kept apart, in the thread's "maps", and a frame has their index.    *)
(* The walks are ordered and query one server at a time (parallel = 1).    *)
(* The servers are external: Reply is what one answers, in a given world.  *)
(***************************************************************************)
EXTENDS Naturals, Sequences, FiniteSets, SequencesExt

CONSTANTS
    None,
    Threads,
    Worlds,
    Reply(_, _, _, _),      \* world, address, name and type -> response
    Truth(_, _, _, _),      \* world, operation, name and type -> the results allowed
    Root,                   \* addresses of the root servers
    Moves,                  \* what a world may become between two requests
    Requests,               \* an operation, a name and a type
    Plans,                  \* the requests of the threads, in their order
    LoopLimit,              \* 20 referrals
    CNAMEMaxChainLength,
    recurseCacheMaxEntries,
    NegativeTTL             \* whether lookups without an answer are cached

ASSUME RecursorAssumption ==
    /\ {LoopLimit, CNAMEMaxChainLength, recurseCacheMaxEntries} \subseteq Nat
    /\ NegativeTTL \in BOOLEAN
    /\ Root \in Seq(Range(Root)) \ {<<>>}
    /\ \A r \in Requests : r.op \in {"recurse", "parent"}
    /\ DOMAIN Plans \subseteq Worlds
    /\ \A w \in DOMAIN Plans : Plans[w] \subseteq [Threads -> Seq(Requests)]
    /\ \A w \in Worlds : Moves[w] \subseteq Worlds

VARIABLES
    world,
    cache, inflight,        \* results and leaders, by name and type
    referrals, claims,      \* root referrals by cut, owners by top-level domain
    th, plan,
    canceled,               \* the context of the run
    results                 \* history: what the requests ended with

shared == <<cache, inflight, referrals, claims>>
vars == <<world, shared, th, plan, canceled, results>>

\* Responses are "none", "nx", "nodata", "answer", "cname", "referral", "fail" for
\* REFUSED or SERVFAIL, "other" for any other error, and "badcname" for an answer
\* whose CNAME records make no chain.
NoReply == [kind |-> "none"]
Answer(owner, addrs) == [kind |-> "answer", owner |-> owner, addrs |-> addrs]

Above(cut, name) == IsPrefix(cut, name)
Common(a, b) == Cardinality({i \in DOMAIN a : i <= Len(b) /\ SubSeq(a, 1, i) = SubSeq(b, 1, i)})

\* recurseState: a walk for a name and a type.  seed is the cut of the cached
\* referral it started from; from is what its newState starts with again; map
\* is its own or, for the addresses of a nameserver, that of its caller.
Walk(name, type, map, from) ==
    [call |-> "walk", name |-> name, type |-> type, map |-> map, from |-> from, ns |-> <<>>,
     seen |-> {}, common |-> 0, count |-> from.count, seed |-> <<>>, atRoot |-> FALSE,
     candidate |-> FALSE, trace |-> <<>>, source |-> <<>>, viaCname |-> FALSE]

From(count, hops, own, skip) == [count |-> count, hops |-> hops, own |-> own, skip |-> skip]

\* lazyNameserver: the addresses of a nameserver are looked up, type by type.
Lazy(name, map) == [call |-> "lazy", name |-> name, map |-> map, type |-> "A", addrs |-> <<>>]

Maps == [busy |-> {}, glue |-> <<>>]
Glue(maps, name) == IF name \in DOMAIN maps.glue THEN maps.glue[name] ELSE <<>>
AddGlue(maps, name, addrs) ==
    LET new == SelectSeq(addrs, LAMBDA a : ~Contains(Glue(maps, name), a))
    IN  [maps EXCEPT !.glue = [n \in DOMAIN @ \cup {name} |->
            IF n = name THEN Glue(maps, n) \o new ELSE Glue(maps, n)]]

NoRequest == [op |-> "none"]
Idle == [pc |-> "idle", req |-> NoRequest, stack |-> <<>>, maps |-> <<>>, ret |-> NoReply,
         got |-> <<>>]

Init ==
    /\ world \in DOMAIN Plans /\ plan \in Plans[world]
    /\ cache = <<>> /\ inflight = <<>> /\ referrals = <<>> /\ claims = <<>>
    /\ th = [t \in Threads |-> Idle]
    /\ canceled = FALSE /\ results = {}

-----------------------------------------------------------------------------
(* Helpers on functions with a changing domain, and on threads.            *)

With(f, k, v) == [x \in DOMAIN f \cup {k} |-> IF x = k THEN v ELSE f[x]]
Without(f, k) == [x \in DOMAIN f \ {k} |-> f[x]]

Key(t) == <<th[t].req.name, th[t].req.type>>
Top(rec) == Last(rec.stack)
SetTop(rec, f) == [rec EXCEPT !.stack[Len(rec.stack)] = f]
Push(rec, f, pc) == [rec EXCEPT !.stack = Append(@, f), !.pc = pc]
Pop(rec) == [rec EXCEPT !.stack = Front(@)]
Return(rec, result) == [rec EXCEPT !.pc = "return", !.ret = result]

\* What a request ends with goes to its caller; nobody looks at it any more once
\* the run is cancelled.
Report(req, result) ==
    results' = IF canceled THEN results ELSE results \cup {[req |-> req, result |-> result]}

Tld(name) == name[1]
Claimed(t) == {d \in DOMAIN claims : claims[d] = <<t, Len(th[t].stack)>>}
Released_Kept(t) == claims

\* releaseClaim: the walk on top of the stack gives up the claim it may hold.
Released(t) == [d \in DOMAIN claims \ Claimed(t) |-> claims[d]]

-----------------------------------------------------------------------------
(* recurseWithNameservers, around a walk from the root.                    *)

\* A cached result is served; an equal lookup that is under way is joined;
\* otherwise this one leads.
Lookup(t) ==
    LET req == Head(plan[t])
        key == <<req.name, req.type>>
        rec == [Idle EXCEPT !.req = req, !.maps = <<Maps>>]
    IN  /\ th[t].pc = "idle" /\ ~canceled /\ plan[t] # <<>> /\ req.op = "recurse"
        /\ plan' = [plan EXCEPT ![t] = Tail(@)]
        /\ \/ /\ key \in DOMAIN cache
              /\ Report(req, cache[key])
              /\ UNCHANGED <<inflight, th>>
           \/ /\ key \notin DOMAIN cache /\ key \in DOMAIN inflight
              /\ th' = [th EXCEPT ![t] = [rec EXCEPT !.pc = "wait"]]
              /\ UNCHANGED <<inflight, results>>
           \/ /\ key \notin DOMAIN cache \cup DOMAIN inflight
              /\ inflight' = With(inflight, key, t)
              /\ th' = [th EXCEPT ![t] =
                          Push(rec, Walk(req.name, req.type, 1, From(0, 0, TRUE, FALSE)), "await")]
              /\ UNCHANGED results
        /\ UNCHANGED <<world, cache, referrals, claims, canceled>>

\* A waiter gets the result of its leader, or gives up when it is cancelled.
Wait(t) ==
    /\ th[t].pc = "wait"
    /\ \/ th[t].got # <<>> /\ Report(th[t].req, th[t].got[1])
       \/ canceled /\ UNCHANGED results
    /\ th' = [th EXCEPT ![t] = Idle]
    /\ UNCHANGED <<world, shared, plan, canceled>>

\* storeEntryLocked: a cache that would grow past its limit is emptied first.
Kept(key, result) ==
    With(IF Cardinality(DOMAIN cache \cup {key}) > recurseCacheMaxEntries THEN <<>> ELSE cache,
         key, result)

\* What the cache keeps: answers, errors, and the lack of an answer when
\* negative caching is on; of a cancelled lookup only an answer.
Store(t) ==
    LET kind == th[t].ret.kind IN
    /\ th[t].pc = "store"
    /\ cache' = IF kind \in {"none", "error"} /\ (canceled \/ (kind = "none" /\ ~NegativeTTL))
                THEN cache ELSE Kept(Key(t), th[t].ret)
    /\ th' = [th EXCEPT ![t].pc = "finish"]
    /\ UNCHANGED <<world, inflight, referrals, claims, plan, canceled, results>>

\* finishInflightLookup: the waiters get the result.
Handed(t, result) ==
    [u \in Threads |-> IF th[u].pc = "wait" /\ th[u].got = <<>> /\ Key(u) = Key(t)
                       THEN [th[u] EXCEPT !.got = <<result>>] ELSE th[u]]

Finish(t) ==
    /\ th[t].pc = "finish"
    /\ th' = [Handed(t, th[t].ret) EXCEPT ![t] = Idle]
    /\ inflight' = Without(inflight, Key(t))
    /\ Report(th[t].req, th[t].ret)
    /\ UNCHANGED <<world, cache, referrals, claims, plan, canceled>>

-----------------------------------------------------------------------------
(* recurseFromRoot and its shortcut through a cached root referral.        *)

\* recurse: a name and type that this chain of walks is already after has no
\* result; otherwise the servers are asked.
Entered(rec) ==
    LET f == Top(rec)
        q == <<f.name, f.type>>
    IN  IF q \in rec.maps[f.map].busy THEN Return(rec, NoReply)
        ELSE [rec EXCEPT !.maps[f.map].busy = @ \cup {q}, !.pc = "walk"]

Server(name, addrs, lazy) == [name |-> name, addrs |-> addrs, lazy |-> lazy]

\* newState and startAtRoot.
AtRoot(f) == [Walk(f.name, f.type, f.map, f.from) EXCEPT !.atRoot = TRUE,
                !.ns = [i \in DOMAIN Root |-> Server(<<>>, <<Root[i]>>, FALSE)]]

\* getNSFrom: glue is taken for servers inside the zone; the servers with glue
\* come first in the list, which is used from its end.
GlueFrom(maps, resp) ==
    FoldLeft(LAMBDA m, n : IF n \in DOMAIN resp.glue /\ Above(resp.cut, n)
                           THEN AddGlue(m, n, <<resp.glue[n]>>) ELSE m, maps, resp.ns)

ServersFrom(maps, resp) ==
    LET glued == SelectSeq(resp.ns, LAMBDA n : Glue(maps, n) # <<>>)
        bare == SelectSeq(resp.ns, LAMBDA n : Glue(maps, n) = <<>>)
    IN  FlattenSeq([i \in DOMAIN glued |-> [j \in DOMAIN Glue(maps, glued[i]) |->
                        Server(glued[i], <<Glue(maps, glued[i])[j]>>, FALSE)]])
        \o [i \in DOMAIN bare |-> Server(bare[i], <<>>, TRUE)]

\* cachedReferralLocked: the deepest cached cut strictly above a name.
CutsAbove(name) == {c \in DOMAIN referrals : Above(c, name) /\ c # name}
DeepestCut(name) == CHOOSE c \in CutsAbove(name) : \A d \in CutsAbove(name) : Len(d) <= Len(c)

\* seedReferral: the walk starts from a cached referral, or at the root if there
\* is none or it has no servers.
Seeded(rec) ==
    LET f == Top(rec)
        cut == DeepestCut(f.name)
        maps == GlueFrom(rec.maps[f.map], referrals[cut])
        seeded == [f EXCEPT !.ns = ServersFrom(maps, referrals[cut]), !.seen = {cut},
                            !.common = Common(cut, f.name), !.count = @ + 1, !.seed = cut]
    IN  IF CutsAbove(f.name) # {} /\ seeded.ns # <<>>
        THEN Entered(SetTop([rec EXCEPT !.maps[f.map] = maps], seeded))
        ELSE Entered(SetTop(rec, AtRoot(f)))

\* awaitReferral: a cached referral, else the claim on the top-level domain, else
\* a wait for the walk that holds it.  A walk in progress, one that skips
\* referrals and a name of one label go to the root without any of that.
Await(t) ==
    LET f == Top(th[t])
        direct == \/ f.from.skip \/ Len(f.name) < 2
                  \/ <<f.name, f.type>> \in th[t].maps[f.map].busy
        cached == ~direct /\ CutsAbove(f.name) # {}
        busy == ~direct /\ ~cached /\ Tld(f.name) \in DOMAIN claims
    IN  /\ th[t].pc = "await"
        /\ \/ /\ direct \/ cached
              /\ th' = [th EXCEPT ![t] = IF direct THEN Entered(SetTop(@, AtRoot(f))) ELSE Seeded(@)]
              /\ UNCHANGED claims
           \/ /\ ~direct /\ ~cached /\ ~busy
              /\ claims' = With(claims, Tld(f.name), <<t, Len(th[t].stack)>>)
              /\ th' = [th EXCEPT ![t] = Entered(SetTop(@, AtRoot(f)))]
           \/ /\ busy
              /\ th' = [th EXCEPT ![t].pc = "claimwait"]
              /\ UNCHANGED claims
        /\ UNCHANGED <<world, cache, inflight, referrals, plan, canceled, results>>

\* The wait ends when the claim is released, and after referralWaitLimit in any
\* case; the walk then goes on without a claim.
ClaimWait(t) ==
    /\ th[t].pc = "claimwait"
    /\ \/ th' = [th EXCEPT ![t] = Seeded(@)]
       \/ canceled /\ th' = [th EXCEPT ![t] = Return(@, [kind |-> "error"])]
    /\ UNCHANGED <<world, shared, plan, canceled, results>>

-----------------------------------------------------------------------------
(* recurseOrdered: the servers are asked one by one, the last one first.   *)

\* Without the limit on hops.
FollowedCname_Unlimited(rec, resp) ==
    LET f == Top(rec)
        walk == Walk(resp.target, f.type, Len(rec.maps) + 1,
                     From(0, f.from.hops + 1, TRUE, f.from.skip))
    IN  IF resp.addrs # <<>> THEN Return(rec, Answer(f.name, resp.addrs))
        ELSE IF <<resp.target, f.type>> \in rec.maps[f.map].busy
             THEN Return(rec, [kind |-> "error"])
        ELSE IF Above(f.name, resp.target) THEN Return(rec, Answer(f.name, <<>>))
        ELSE Push([rec EXCEPT !.maps = Append(@, Maps)], walk, "await")

\* resolveCNAME: a target that is being looked up in this chain of walks, or
\* one hop too many, is an error; a target below the name ends the walk with
\* the CNAME itself.
FollowedCname(rec, resp) ==
    LET f == Top(rec)
        hops == f.from.hops + 1
        walk == Walk(resp.target, f.type, Len(rec.maps) + 1, From(0, hops, TRUE, f.from.skip))
    IN  IF resp.addrs # <<>> THEN Return(rec, Answer(f.name, resp.addrs))
        ELSE IF <<resp.target, f.type>> \in rec.maps[f.map].busy \/ hops > CNAMEMaxChainLength
             THEN Return(rec, [kind |-> "error"])
        ELSE IF Above(f.name, resp.target) THEN Return(rec, Answer(f.name, <<>>))
        ELSE Push([rec EXCEPT !.maps = Append(@, Maps)], walk, "await")

\* A referral is followed if it is new and does not lead away from the name.
Follows(f, resp) ==
    /\ resp.cut # <<>> /\ resp.cut \notin f.seen /\ Common(resp.cut, f.name) >= f.common

FollowedReferral(rec, resp, source) ==
    LET f == Top(rec)
        maps == GlueFrom(rec.maps[f.map], resp)
        g == [f EXCEPT !.seen = @ \cup {resp.cut}, !.common = Common(resp.cut, f.name),
                       !.atRoot = FALSE, !.ns = ServersFrom(maps, resp), !.count = @ + 1]
        entry == [zone |-> resp.cut, source |-> source]
        next == [rec EXCEPT !.maps[f.map] = maps]
    IN  IF g.count > LoopLimit THEN Return(SetTop(next, g), NoReply)
        ELSE SetTop(next, [g EXCEPT !.trace = <<entry>> \o @])

\* storeReferral: a root referral to a cut above the name, if its TTL allows it.
StoredReferral(f, resp) ==
    IF f.atRoot /\ Above(resp.cut, f.name) /\ resp.ns # <<>> /\ resp.ttl > 0
    THEN With(referrals, resp.cut, resp) ELSE referrals

\* processOrderedResponse, on the thread as it is when a server has replied.
Process(t, rec, resp, source) ==
    LET f == Top(rec) IN
    \/ /\ resp.kind \in {"none", "other"}
       /\ th' = [th EXCEPT ![t] = rec]
       /\ UNCHANGED <<referrals, claims>>
    \/ /\ resp.kind = "fail"
       /\ th' = [th EXCEPT ![t] = SetTop(rec, [f EXCEPT !.candidate = TRUE])]
       /\ UNCHANGED <<referrals, claims>>
    \/ /\ resp.kind \in {"nx", "nodata", "answer"}
       /\ th' = [th EXCEPT ![t] = Return(SetTop(rec, [f EXCEPT !.source = source]), resp)]
       /\ UNCHANGED <<referrals, claims>>
    \/ /\ resp.kind \in {"cname", "badcname"}
       /\ th' = [th EXCEPT ![t] = IF resp.kind = "cname" THEN FollowedCname(rec, resp)
                                  ELSE Return(rec, [kind |-> "error"])]
       /\ claims' = Released(t)
       /\ UNCHANGED referrals
    \/ /\ resp.kind = "referral" /\ ~Follows(f, resp)
       /\ th' = [th EXCEPT ![t] = SetTop(rec, [f EXCEPT !.seen = @ \cup ({resp.cut} \ {<<>>})])]
       /\ UNCHANGED <<referrals, claims>>
    \/ /\ resp.kind = "referral" /\ Follows(f, resp)
       /\ th' = [th EXCEPT ![t] = FollowedReferral(rec, resp, source)]
       /\ referrals' = StoredReferral(f, resp)
       /\ claims' = IF f.atRoot THEN Released(t) ELSE claims

\* The first of some addresses to reply; none does when the query is cancelled.
FirstReply(addrs, name, type, lost) ==
    LET replies == SelectSeq([i \in DOMAIN addrs |-> Reply(world, addrs[i], name, type)],
                             LAMBDA r : r.kind # "none")
    IN  IF lost \/ replies = <<>> THEN NoReply ELSE replies[1]

\* The next server is asked; one whose addresses are not known yet has them
\* looked up first, in walks that share this walk's maps.
Ask(t, lost) ==
    LET f == Top(th[t])
        s == Last(f.ns)
        rec == SetTop(th[t], [f EXCEPT !.ns = Front(@)])
        addrs == IF s.lazy THEN Glue(rec.maps[f.map], s.name) ELSE s.addrs
    IN  /\ th[t].pc = "walk" /\ f.ns # <<>> /\ (lost => canceled)
        /\ \/ /\ addrs # <<>>
              /\ Process(t, rec, FirstReply(addrs, f.name, f.type, lost), addrs)
           \/ /\ addrs = <<>>
              /\ th' = [th EXCEPT ![t] = Push(rec, Lazy(s.name, f.map), "lazy")]
              /\ UNCHANGED <<referrals, claims>>
        /\ UNCHANGED <<world, cache, inflight, plan, canceled, results>>

LookupAddresses(t) ==
    LET lazy == Top(th[t])
        count == Top(Pop(th[t])).count
    IN  /\ th[t].pc = "lazy" /\ lazy.type # "done"
        /\ th' = [th EXCEPT ![t] =
                    Push(@, Walk(lazy.name, lazy.type, lazy.map, From(count, 0, FALSE, FALSE)), "await")]
        /\ UNCHANGED <<world, shared, plan, canceled, results>>

AskLazy(t, lost) ==
    LET lazy == Top(th[t])
        rec == [Pop(th[t]) EXCEPT !.pc = "walk", !.maps[lazy.map] =
                    AddGlue(@, lazy.name, lazy.addrs)]
        f == Top(rec)
    IN  /\ th[t].pc = "lazy" /\ lazy.type = "done" /\ (lost => canceled)
        /\ Process(t, rec, FirstReply(lazy.addrs, f.name, f.type, lost), lazy.addrs)
        /\ UNCHANGED <<world, cache, inflight, plan, canceled, results>>

\* No server is left: a refusal is better than nothing.
EndWalk(t) ==
    /\ th[t].pc = "walk" /\ Top(th[t]).ns = <<>>
    /\ th' = [th EXCEPT ![t] =
                Return(@, IF Top(@).candidate THEN [kind |-> "fail"] ELSE NoReply)]
    /\ UNCHANGED <<world, shared, plan, canceled, results>>

-----------------------------------------------------------------------------
(* The end of recurseFromRoot, and what its caller makes of the result.    *)

\* A walk from a cached referral that found nothing drops the referral and
\* starts again at the root.  Its entry in inProgress is cleared where the
\* walk ended, which is elsewhere if it went through a CNAME.
Fruitless_Accepted(t) == FALSE

Fruitless(t) == Top(th[t]).seed # <<>> /\ th[t].ret.kind = "none" /\ ~canceled

\* Without the drop, the next attempt starts from the same referral.
Retry_Seeded(t) ==
    LET f == Top(th[t]) IN
    /\ th[t].pc = "return" /\ Fruitless(t)
    /\ th' = [th EXCEPT ![t] = Seeded(SetTop([@ EXCEPT !.maps[f.map].busy = {}],
                                           Walk(f.name, f.type, f.map, f.from)))]
    /\ UNCHANGED <<world, shared, plan, canceled, results>>

Retry(t) ==
    LET f == Top(th[t])
        q == <<f.name, f.type>>
        maps == IF f.from.own THEN Maps
                ELSE IF f.viaCname THEN th[t].maps[f.map]
                ELSE [th[t].maps[f.map] EXCEPT !.busy = @ \ {q}]
    IN  /\ th[t].pc = "return" /\ Fruitless(t)
        /\ referrals' = Without(referrals, f.seed)
        /\ th' = [th EXCEPT ![t] = Entered(SetTop([@ EXCEPT !.maps[f.map] = maps], AtRoot(f)))]
        /\ UNCHANGED <<world, cache, inflight, claims, plan, canceled, results>>

Ends(t) == th[t].pc = "return" /\ ~Fruitless(t)

\* The walk of a request ends.
ReturnToRequest(t) ==
    /\ Ends(t) /\ Len(th[t].stack) = 1
    /\ th' = [th EXCEPT ![t].pc = IF th[t].req.op = "parent" THEN "parent" ELSE "store"]
    /\ claims' = Released(t)
    /\ UNCHANGED <<world, cache, inflight, referrals, plan, canceled, results>>

\* The walk of a CNAME's target ends, and with it the walk that met the CNAME.
ReturnToWalk(t) ==
    LET f == Top(th[t])
        rec == Pop(th[t])
    IN  /\ Ends(t) /\ Len(th[t].stack) > 1 /\ Top(rec).call = "walk"
        /\ th' = [th EXCEPT ![t] =
                    SetTop([rec EXCEPT !.maps = SubSeq(@, 1, Top(rec).map)],
                           [Top(rec) EXCEPT !.trace = f.trace, !.source = f.source,
                                            !.viaCname = TRUE])]
        /\ claims' = Released(t)
        /\ UNCHANGED <<world, cache, inflight, referrals, plan, canceled, results>>

\* getAddressesFor: an error or NXDOMAIN for A ends it; else AAAA comes next.
\* Only addresses of the nameserver's own name count (collectAddresses).
Found(lazy, ret) ==
    lazy.addrs \o IF ret.kind = "answer" /\ ret.owner = lazy.name THEN ret.addrs ELSE <<>>

\* The walk for addresses of a nameserver ends.
ReturnToLazy(t) ==
    LET ret == th[t].ret
        rec == Pop(th[t])
        lazy == Top(rec)
        next == IF lazy.type = "A" /\ ret.kind \notin {"error", "nx"} THEN "AAAA" ELSE "done"
        found == IF ret.kind = "error" THEN <<>> ELSE Found(lazy, ret)
    IN  /\ Ends(t) /\ Len(th[t].stack) > 1 /\ lazy.call = "lazy"
        /\ th' = [th EXCEPT ![t] =
                    SetTop([rec EXCEPT !.maps = SubSeq(@, 1, lazy.map), !.pc = "lazy",
                                       !.ret = NoReply],
                           [lazy EXCEPT !.type = next, !.addrs = found])]
        /\ claims' = Released(t)
        /\ UNCHANGED <<world, cache, inflight, referrals, plan, canceled, results>>

-----------------------------------------------------------------------------
(* Parent: the zone above a name.                                          *)

\* A walk from the root that uses no cached referral.
BeginParent(t) ==
    LET req == Head(plan[t])
        rec == [Idle EXCEPT !.req = req, !.maps = <<Maps>>]
        f == AtRoot(Walk(req.name, "SOA", 1, From(0, 0, TRUE, TRUE)))
    IN  /\ th[t].pc = "idle" /\ ~canceled /\ plan[t] # <<>> /\ req.op = "parent"
        /\ plan' = [plan EXCEPT ![t] = Tail(@)]
        /\ th' = [th EXCEPT ![t] = Entered(Push(rec, f, "walk"))]
        /\ UNCHANGED <<world, shared, canceled, results>>

\* The zone of the last referral, or the one before if that is the name itself;
\* a zone in between, on the same servers, is found by asking for its SOA.
EndParent(t, lost) ==
    LET f == Top(th[t])
        name == f.name
        zone == f.trace[1].zone
        last == IF zone # name THEN zone
                ELSE IF Len(f.trace) > 1 THEN f.trace[2].zone ELSE Front(name)
        source == IF zone = name \/ f.source = <<>> THEN f.trace[1].source ELSE f.source
        probe == FirstReply(source, Front(name), "SOA", lost)
        parent == IF f.trace = <<>> THEN IF Len(name) = 1 THEN <<>> ELSE None
                  ELSE IF last # Front(name) /\ probe.kind = "answer" THEN probe.owner
                  ELSE last
    IN  /\ th[t].pc = "parent" /\ (lost => canceled)
        /\ th' = [th EXCEPT ![t] = Idle]
        /\ Report(th[t].req, IF th[t].ret.kind = "error" THEN th[t].ret
                             ELSE [kind |-> "parent", zone |-> parent])
        /\ UNCHANGED <<world, shared, plan, canceled>>

-----------------------------------------------------------------------------
(* The end of a run, and of what has a time to live.                       *)

Cancel ==
    /\ ~canceled /\ \E t \in Threads : th[t].pc # "idle"
    /\ canceled' = TRUE
    /\ UNCHANGED <<world, shared, th, plan, results>>

\* A panic on the way: the deferred releaseClaim and finishInflightLookup run,
\* the panic fails the run, and its context is cancelled.
Panic(t) ==
    /\ th[t].stack # <<>> /\ ~canceled
    /\ canceled' = TRUE
    /\ claims' = [d \in {d \in DOMAIN claims : claims[d][1] # t} |-> claims[d]]
    /\ IF th[t].req.op = "recurse"
       THEN /\ inflight' = Without(inflight, Key(t))
            /\ th' = [Handed(t, NoReply) EXCEPT ![t] = Idle]
       ELSE /\ th' = [th EXCEPT ![t] = Idle]
            /\ UNCHANGED inflight
    /\ UNCHANGED <<world, cache, referrals, plan, results>>

\* External: a delegation changes while no lookup is under way.
Move ==
    /\ \A t \in Threads : th[t].pc = "idle"
    /\ world' \in Moves[world]
    /\ UNCHANGED <<shared, th, plan, canceled, results>>

\* Root referrals and cached lookups without an answer have a time to live.
Expire ==
    /\ \/ /\ \E c \in DOMAIN referrals : referrals' = Without(referrals, c)
          /\ UNCHANGED cache
       \/ /\ \E k \in DOMAIN cache : cache[k].kind \in {"none", "error"} /\ NegativeTTL
                                     /\ cache' = Without(cache, k)
          /\ UNCHANGED referrals
    /\ UNCHANGED <<world, inflight, claims, th, plan, canceled, results>>

-----------------------------------------------------------------------------
Step(t) ==
    \/ Wait(t) \/ Store(t) \/ Finish(t) \/ Await(t) \/ ClaimWait(t) \/ EndWalk(t) \/ Retry(t)
    \/ ReturnToRequest(t) \/ ReturnToWalk(t) \/ ReturnToLazy(t) \/ LookupAddresses(t)
    \/ \E lost \in BOOLEAN : Ask(t, lost) \/ AskLazy(t, lost) \/ EndParent(t, lost)

Next ==
    \/ \E t \in Threads : Lookup(t) \/ BeginParent(t) \/ Step(t) \/ Panic(t)
    \/ Cancel \/ Move \/ Expire

\* A query has a timeout, so a walk that can go on does: weak fairness of Step,
\* with Runnable for its ENABLED.  Only a waiter without a result cannot go on.
Runnable(t) ==
    th[t].pc # "idle" /\ (th[t].pc = "wait" => th[t].got # <<>> \/ canceled)
Fairness == \A t \in Threads : []<>~Runnable(t) \/ []<><<Step(t)>>_vars

Spec == Init /\ [][Next]_vars /\ Fairness

-----------------------------------------------------------------------------
(* Properties.                                                             *)

\* What a walk ends with, and the types of records that walks are for.
Results == {"none", "fail", "nx", "nodata", "answer", "error"}
TypesAsked == {"A", "AAAA", "SOA"} \cup {r.type : r \in Requests}

\* Threads are where they can be, with the frames that belong there: the lookup of
\* a nameserver's addresses is called by a walk, and no frame outlives the maps it
\* shares.  The limit on CNAMEs holds for every walk; a walk that starts at a cached
\* referral counts it without a look at the limit (seedReferral), so the limit on
\* referrals may be passed by one in every walk on the stack.
RecursorTypeOK ==
    /\ world \in Worlds /\ canceled \in BOOLEAN
    /\ \A t \in Threads :
        /\ th[t].pc \in {"idle", "wait", "await", "claimwait", "walk", "lazy", "return", "store",
                         "finish", "parent"}
        /\ th[t].ret.kind \in Results
        /\ th[t].stack = <<>> <=> th[t].pc \in {"idle", "wait"}
        /\ \A i \in DOMAIN th[t].stack :
            LET f == th[t].stack[i] IN
            /\ f.call = "walk" => /\ f.type \in TypesAsked /\ f.count <= LoopLimit + i + 1
                                  /\ f.from.hops <= CNAMEMaxChainLength
            /\ f.call = "lazy" => i > 1 /\ th[t].stack[i - 1].call = "walk"
            /\ f.map \in DOMAIN th[t].maps
    /\ \A k \in DOMAIN cache : cache[k].kind \in Results
    /\ \A c \in DOMAIN referrals : c # <<>> /\ referrals[c].cut = c

\* Whatever lookups run beside it and whichever of them asked the root first, a
\* lookup ends with what the zones say (recurseFromRoot, recurseOrdered), and
\* Parent names the zone that holds the delegation.  A lookup that starts at a
\* referral another walk left behind, and that no longer holds, goes back to the
\* root only if the old servers say nothing at all: what they still answer, an
\* error or old data, is its result, and Truth has it among the results
\* allowed once a delegation has moved.
Truthful ==
    \A r \in results : r.result \in Truth(world, r.req.op, r.req.name, r.req.type)

\* A claim is held only by a walk that is asking the root and that nobody else
\* keeps waiting, and a waiting lookup has a leader that is under way: after a
\* cancellation or a panic nobody waits for a walk that is gone.
WaitsForTheLiving ==
    /\ \A d \in DOMAIN claims :
        LET t == claims[d][1] IN
        /\ Len(th[t].stack) = claims[d][2] /\ th[t].pc \in {"walk", "return"}
        /\ Top(th[t]).call = "walk" /\ Top(th[t]).atRoot /\ Tld(Top(th[t]).name) = d
    /\ \A k \in DOMAIN inflight : th[inflight[k]].stack # <<>> /\ Key(inflight[k]) = k
    /\ \A t \in Threads : th[t].pc = "wait" /\ th[t].got = <<>> => Key(t) \in DOMAIN inflight

\* Every request ends, however the zones refer to each other.
LookupsReturn == \A t \in Threads : th[t].pc # "idle" ~> th[t].pc = "idle"
=============================================================================
