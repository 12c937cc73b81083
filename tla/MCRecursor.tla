----------------------------- MODULE MCRecursor -----------------------------
(* The recursor in small worlds of zones and servers.  A world has zones    *)
(* with their nameservers and the addresses that serve them, the address of *)
(* a nameserver, which nameservers come with glue, CNAMEs, hosts, and       *)
(* addresses that are dead, refuse, refer to some other zone, or still      *)
(* serve what the zones were in the past.                                   *)
EXTENDS Recursor, TLC

CONSTANTS t1, t2

x == <<"x">>
y == <<"y">>
N(zone, label) == zone \o <<label>>
xa == N(x, "a")
xab == N(xa, "b")
yb == N(y, "b")

Zone(ns, addrs) == [ns |-> ns, addrs |-> addrs]
\* Every server answers from its zones, but the odd ones.
World(zones, addrOf, glue, cnames, hosts) ==
    [zones |-> zones @@ (<<>> :> Zone(<<>>, {"root"})), addrOf |-> addrOf, glue |-> glue,
     cnames |-> cnames, hosts |-> hosts, odd |-> <<>>, brief |-> {}, past |-> <<>>]

xns == N(x, "n")
yns == N(y, "n")
Tlds == x :> Zone(<<xns>>, {"ax"}) @@ y :> Zone(<<yns>>, {"ay"})
TldAddrs == xns :> "ax" @@ yns :> "ay"
Bad(kind) == [kind |-> kind]
Upward(cut) == [kind |-> "referral", cut |-> cut, ns |-> <<xns>>, ttl |-> 1, glue |-> xns :> "ax"]

\* a.x and b.a.x: the first is served by a nameserver in y, without glue.
Plain == World(Tlds @@ xa :> Zone(<<yns>>, {"ay"}) @@ xab :> Zone(<<N(xab, "n")>>, {"a1"}),
               TldAddrs @@ N(xab, "n") :> "a1", {xns, yns, N(xab, "n")},
               N(xa, "c") :> yb, {N(xa, "w"), N(xab, "w"), yb})
\* The nameserver of a.x is in b.y, and that of b.y in a.x.
Cycle == World(Tlds @@ xa :> Zone(<<N(yb, "n")>>, {"a1"}) @@ yb :> Zone(<<N(xa, "n")>>, {"a2"}),
               TldAddrs @@ N(yb, "n") :> "a1" @@ N(xa, "n") :> "a2", {xns, yns}, <<>>, {N(xa, "w")})
\* Aliases: to another zone, to each other, to a name in the same zone, and to a
\* name below the alias.
Alias == World(Tlds, TldAddrs, {xns, yns},
               N(x, "w") :> N(y, "w") @@ N(x, "u") :> N(y, "u") @@ N(y, "u") :> N(x, "u")
               @@ N(y, "k") :> N(y, "w") @@ N(y, "v") :> N(N(y, "v"), "k"),
               {N(y, "w")})
\* Of the servers of a.x one refuses, one fails otherwise, one points back up and
\* one is right.
Mixed == [World(Tlds @@ xa :> Zone(<<N(xa, "n"), N(xa, "o"), N(xa, "p"), N(xa, "q")>>,
                                   {"a1", "a2", "a3", "a4"}),
                TldAddrs @@ N(xa, "n") :> "a1" @@ N(xa, "o") :> "a2" @@ N(xa, "p") :> "a3"
                @@ N(xa, "q") :> "a4",
                {xns, yns, N(xa, "n"), N(xa, "o"), N(xa, "p"), N(xa, "q")}, <<>>, {N(xa, "w")})
          EXCEPT !.odd = "a2" :> Upward(x) @@ "a3" :> Bad("fail") @@ "a4" :> Bad("other")]
\* Of the servers of a.x, both without glue, one is lame and one points up.
Lame == [World(Tlds @@ xa :> Zone(<<N(y, "m"), yns>>, {"am"}), TldAddrs @@ N(y, "m") :> "am",
               {xns, yns}, <<>>, {})
         EXCEPT !.odd = "am" :> Upward(x)]
\* The server of x is dead.  Or it is moved, to the new address of its name: the old
\* one is silent, refuses, or goes on to serve x as it was, before it got the host v.
Dead == [World(Tlds, TldAddrs, {xns, yns}, <<>>, {N(x, "w")}) EXCEPT !.odd = "ax" :> NoReply]
Early == World(Tlds, TldAddrs, {xns, yns}, <<>>, {N(x, "w")})
Later == World(x :> Zone(<<xns>>, {"bx"}) @@ y :> Zone(<<yns>>, {"ay"}),
               xns :> "bx" @@ yns :> "ay", {xns, yns}, <<>>, {N(x, "w")})
Silent == [Later EXCEPT !.odd = "ax" :> NoReply]
Refused == [Later EXCEPT !.odd = "ax" :> Bad("fail")]
Stale == [Later EXCEPT !.past = "ax" :> Early, !.hosts = @ \cup {N(x, "v")}]
\* b.a.x is on the servers of a.x.
Deep == World(Tlds @@ xa :> Zone(<<N(xa, "n")>>, {"a1"}) @@ xab :> Zone(<<N(xa, "n")>>, {"a1"}),
              TldAddrs @@ N(xa, "n") :> "a1", {xns, yns, N(xa, "n")}, <<>>, {N(xab, "w")})
\* The nameserver of a.x is an alias into y, whose server is dead.
Blind == [World(Tlds @@ xa :> Zone(<<N(x, "m")>>, {"a1"}), TldAddrs, {xns, yns},
                N(x, "m") :> N(y, "q"), {})
          EXCEPT !.odd = "ay" :> NoReply]
\* The server of x answers with aliases that make no chain; its delegation must
\* not be cached.
Bent == [World(Tlds, TldAddrs, {xns, yns}, <<>>, {})
         EXCEPT !.odd = "ax" :> Bad("badcname"), !.brief = {x}]

AllWorlds == "plain" :> Plain @@ "cycle" :> Cycle @@ "alias" :> Alias @@ "mixed" :> Mixed
             @@ "lame" :> Lame @@ "dead" :> Dead @@ "early" :> Early @@ "silent" :> Silent
             @@ "refused" :> Refused @@ "stale" :> Stale @@ "deep" :> Deep @@ "blind" :> Blind @@ "bent" :> Bent
SmallWorlds == DOMAIN AllWorlds
W(w) == AllWorlds[w]
SmallMoves == [w \in DOMAIN AllWorlds |-> IF w = "early" THEN {"silent", "refused", "stale"} ELSE {}]

-----------------------------------------------------------------------------
Longest(S) == CHOOSE z \in S : \A u \in S : Len(u) <= Len(z)
Shortest(S) == CHOOSE z \in S : \A u \in S : Len(u) >= Len(z)
ZoneOf(v, name) == Longest({z \in DOMAIN v.zones : Above(z, name)})

Data(v, name, type) ==
    IF name \in DOMAIN v.cnames
    THEN [kind |-> "cname", target |-> v.cnames[name], addrs |->
            IF type = "A" /\ v.cnames[name] \in v.hosts
               /\ ZoneOf(v, v.cnames[name]) = ZoneOf(v, name)
            THEN <<"host">> ELSE <<>>]
    ELSE IF type = "SOA" /\ name \in DOMAIN v.zones THEN Answer(name, <<>>)
    ELSE IF type = "A" /\ name \in v.hosts THEN Answer(name, <<"host">>)
    ELSE IF type = "A" /\ name \in DOMAIN v.addrOf THEN Answer(name, <<v.addrOf[name]>>)
    ELSE IF \E n \in v.hosts \cup DOMAIN v.addrOf \cup DOMAIN v.zones : Above(name, n)
    THEN Bad("nodata") ELSE Bad("nx")

Referral(v, cut) ==
    [kind |-> "referral", cut |-> cut, ns |-> v.zones[cut].ns,
     ttl |-> IF cut \in v.brief THEN 0 ELSE 1,
     glue |-> [n \in v.glue \cap ToSet(v.zones[cut].ns) |-> v.addrOf[n]]]

\* What a server answers: a referral to the next zone towards the name, or data
\* of the deepest zone that it has.
ServerReply(v, addr, name, type) ==
    LET mine == {z \in DOMAIN v.zones : addr \in v.zones[z].addrs /\ Above(z, name)}
        below == {z \in DOMAIN v.zones : Above(z, name) /\ Len(z) > Len(Longest(mine))}
    IN  IF addr \in DOMAIN v.odd THEN v.odd[addr]
        ELSE IF mine = {} THEN Bad("fail")
        ELSE IF below # {} THEN Referral(v, Shortest(below))
        ELSE Data(v, name, type)
WorldReply(w, addr, name, type) ==
    ServerReply(IF addr \in DOMAIN W(w).past THEN W(w).past[addr] ELSE W(w), addr, name, type)

\* What is right: the data of a name, after its aliases, unless its zone cannot
\* be reached.
Unreachable == "cycle" :> <<xa, "none">> @@ "dead" :> <<x, "none">> @@ "blind" :> <<xa, "none">>
               @@ "lame" :> <<xa, "fail">> @@ "bent" :> <<x, "error">>
Resolved(w, name, type) ==
    LET data == Data(W(w), name, type)
    IN  IF w \in DOMAIN Unreachable /\ Above(Unreachable[w][1], name)
        THEN Bad(Unreachable[w][2])
        ELSE IF data.kind # "cname" THEN data
        ELSE IF data.addrs # <<>> \/ Above(name, data.target) THEN Answer(name, data.addrs)
        ELSE IF data.target \in DOMAIN W(w).cnames THEN Bad("error")
        ELSE Data(W(w), data.target, type)
ParentZone(w, name) == ZoneOf(W(w), Front(name))
\* After a move: what the old server says, if it says anything.
MovedWorlds == UNION {SmallMoves[w] : w \in SmallWorlds}
Outdated(w, name, type) ==
    IF w \in MovedWorlds THEN {WorldReply(w, "ax", name, type)} \ {NoReply} ELSE {}
WorldTruth(w, op, name, type) ==
    IF op = "recurse" THEN {Resolved(w, name, type)} \cup Outdated(w, name, type)
    ELSE {[kind |-> "parent", zone |-> ParentZone(w, name)]}

-----------------------------------------------------------------------------
Look(name) == [op |-> "recurse", name |-> name, type |-> "A"]
Up(name) == [op |-> "parent", name |-> name, type |-> "SOA"]
Ask2(a, b) == t1 :> a @@ t2 :> b

SmallPlans ==
    "plain" :> {Ask2(<<Look(N(xa, "w"))>>, <<Look(N(xa, "w")), Look(yb)>>),
                Ask2(<<Look(N(xa, "c")), Up(xa)>>, <<Look(N(xab, "w"))>>)} @@
    "cycle" :> {Ask2(<<Look(N(xa, "w"))>>, <<Look(N(xa, "w"))>>)} @@
    "alias" :> {Ask2(<<Look(N(x, "w")), Look(N(y, "k"))>>, <<Look(N(x, "u"))>>),
                Ask2(<<Look(N(y, "v"))>>, <<Look(N(y, "k"))>>)} @@
    "mixed" :> {Ask2(<<Look(N(xa, "w"))>>, <<Look(N(x, "v"))>>)} @@
    "lame"  :> {Ask2(<<Look(N(xa, "w"))>>, <<>>)} @@
    "dead"  :> {Ask2(<<Look(N(x, "w")), Look(N(x, "w"))>>, <<Look(N(x, "v"))>>)} @@
    "early" :> {Ask2(<<Look(N(x, "v")), Look(N(x, "w"))>>, <<Look(N(x, "u"))>>)} @@
    "deep"  :> {Ask2(<<Up(N(xab, "w"))>>, <<Up(xab), Look(N(xab, "w"))>>)} @@
    "blind" :> {Ask2(<<Look(N(xa, "w"))>>, <<Up(x)>>)} @@
    "bent"  :> {Ask2(<<Look(N(x, "w"))>>, <<Look(N(x, "v"))>>)}
SmallRequests == UNION {UNION {ToSet(p[t1]) \cup ToSet(p[t2]) : p \in SmallPlans[w]} : w \in DOMAIN SmallPlans}
RootServers == <<"root">>
=============================================================================
