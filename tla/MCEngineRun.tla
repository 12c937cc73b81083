---------------------------- MODULE MCEngineRun ----------------------------
EXTENDS EngineRun

MCProfile == {"basic01", "basic02", "basic03", "delegation04", "syntax05", "syntax06"}
MCWidth == [c \in Cases |-> IF c = "delegation04" THEN 3 ELSE 0]

Request(m, cs, ex, n) == [module |-> m, cases |-> cs, exclude |-> ex, parallel |-> n]
\* A signed zone that answers, in which a case of vs finds its tag instead.
World(vs, as) ==
    [verdict |-> vs @@ ("basic01" :> "B01_CHILD_FOUND") @@ ("basic02" :> "B02_AUTH_RESPONSE_SOA")
                    @@ ("syntax01" :> "ONLY_ALLOWED_CHARS")
                    @@ ("address02" :> "NAMESERVERS_IP_WITH_REVERSE")
                    @@ ("zone11" :> "Z11_SPF_SYNTAX_OK") @@ [c \in Cases |-> None],
     answers |-> as]
Good == "authority"
Bad == "no_authority"
AllGood == <<Good, Good, Good>>
NoTag == [c \in {} |-> None]

\* A full run, in parallel and one by one; explicit cases and excluded ones.
InParallel ==
    [req: {Request(None, {}, {}, 2)}, world: {World(NoTag, <<Good, Good, Bad>>)}, faults: {1}]
    \cup [req: {Request(None, {"delegation04"}, {}, 2)},
          world: {World(NoTag, as) : as \in {AllGood, <<Bad, "none", Good>>}}, faults: {2}]
OneByOne ==
    [req: {Request(None, {}, {"basic", "syntax06"}, 1)},
     world: {World(NoTag, as) : as \in {AllGood, <<Bad, Good, "none">>}}, faults: {2}]
Refused ==
    [req: {Request(None, {"delegation04", "basic02"}, {"delegation"}, 1),
           Request("zone", {"basic02"}, {}, 1), Request("basic", {}, {"basic"}, 1)},
     world: {World(NoTag, AllGood)}, faults: {1}]
\* Cases that others depend on.
Gated ==
    LET Finding(m, ex, tags) ==
            [req: {Request(m, {}, ex, 1)}, world: {World(vs, AllGood) : vs \in tags \cup {NoTag}},
             faults: {1}]
    IN  Finding(None, {"delegation04"},
                {"basic01" :> None, "basic01" :> "B01_CHILD_IS_ALIAS",
                 "basic02" :> "B02_NO_DELEGATION", "syntax05" :> "NO_RESPONSE_SOA_QUERY"})
        \cup Finding("address", {}, {"address02" :> None})
        \cup Finding("address", {"address02"}, {})
        \cup Finding("dnssec", {}, {"dnssec07" :> "DS07_NOT_SIGNED"})
        \cup Finding("syntax", {}, {"syntax01" :> None})
        \cup Finding("zone", {}, {"zone11" :> None, "zone08" :> "NO_RESPONSE_MX_QUERY",
                                  "zone09" :> "NO_RESPONSE_SOA_QUERY"})
        \cup Finding("zone", {"zone11"}, {})

MCScenarios == InParallel \cup OneByOne \cup Refused \cup Gated
=============================================================================
