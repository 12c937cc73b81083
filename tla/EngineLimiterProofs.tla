------------------------ MODULE EngineLimiterProofs ------------------------
(* Token accounting of the engine limiter, for any number of workers,      *)
(* capacities and replacements.                                            *)
EXTENDS EngineLimiter, FiniteSetTheorems, TLAPS

\* The inductive invariant: the types, the token accounting, and that a worker
\* only ever holds or waits for a limiter that has been made.
LimiterInv ==
    /\ LimiterTypeOK
    /\ TokensExact
    /\ \A w \in Workers : lim[w] <= current
    /\ \A w \in Workers : epc[w] = "acquire" => ~Nil(lim[w])

\* The holders of a limiter are finitely many.
LEMMA HoldersFinite == \A g : IsFiniteSet(Holders(g)) /\ Cardinality(Holders(g)) \in Nat
<1>1. SUFFICES ASSUME NEW g PROVE IsFiniteSet(Holders(g)) /\ Cardinality(Holders(g)) \in Nat
  OBVIOUS
<1>2. Holders(g) \subseteq Workers
  BY DEF Holders
<1>3. IsFiniteSet(Holders(g))
  BY <1>2, FS_Subset, LimiterAssumption
<1>. QED
  BY <1>3, FS_CardinalityType

LEMMA LimiterInit == Init => LimiterInv
<1>. SUFFICES ASSUME Init PROVE LimiterInv
  OBVIOUS
<1>1. LimiterTypeOK
  BY LimiterAssumption DEF Init, LimiterTypeOK, Limiters
<1>2. \A g : Holders(g) = {}
  BY DEF Init, Holders
<1>3. \A g : Cardinality(Holders(g)) = 0
  BY <1>2, FS_EmptySet
<1>4. \A g \in Limiters : tokens[g] = 0 /\ cap[g] \in Nat
  BY <1>1 DEF Init, LimiterTypeOK
<1>5. TokensExact
  BY <1>2, <1>3, <1>4 DEF TokensExact
<1>. QED
  BY <1>1, <1>5 DEF Init, LimiterInv, Limiters

\* A worker that starts or ends a run joins or leaves the holders of its own
\* limiter and of no other.
LEMMA Join ==
    ASSUME LimiterTypeOK, NEW w \in Workers, epc[w] # "run", NEW g \in Limiters,
           epc' = [epc EXCEPT ![w] = "run"], lim' = [lim EXCEPT ![w] = g]
    PROVE  /\ Holders(g)' = Holders(g) \cup {w}
           /\ \A h \in Limiters \ {g} : Holders(h)' = Holders(h)
           /\ Cardinality(Holders(g)') = Cardinality(Holders(g)) + 1
<1>1. Holders(g)' = Holders(g) \cup {w} /\ w \notin Holders(g)
  BY DEF Holders, LimiterTypeOK
<1>2. \A h \in Limiters \ {g} : Holders(h)' = Holders(h)
  BY DEF Holders, LimiterTypeOK
<1>3. Cardinality(Holders(g) \cup {w}) = Cardinality(Holders(g)) + 1
  BY <1>1, HoldersFinite, FS_AddElement
<1>. QED
  BY <1>1, <1>2, <1>3

LEMMA Part ==
    ASSUME LimiterTypeOK, NEW w \in Workers, epc[w] = "run", NEW g \in Limiters,
           lim[w] = g, epc' = [epc EXCEPT ![w] = "idle"], lim' = lim
    PROVE  /\ Holders(g)' = Holders(g) \ {w}
           /\ \A h \in Limiters \ {g} : Holders(h)' = Holders(h)
           /\ Cardinality(Holders(g)') = Cardinality(Holders(g)) - 1
<1>1. Holders(g)' = Holders(g) \ {w} /\ w \in Holders(g)
  BY DEF Holders, LimiterTypeOK
<1>2. \A h \in Limiters \ {g} : Holders(h)' = Holders(h)
  BY DEF Holders, LimiterTypeOK
<1>3. Cardinality(Holders(g) \ {w}) = Cardinality(Holders(g)) - 1
  BY <1>1, HoldersFinite, FS_RemoveElement
<1>. QED
  BY <1>1, <1>2, <1>3

LEMMA LimiterStep == LimiterInv /\ [Next]_vars => LimiterInv'
<1>. SUFFICES ASSUME LimiterInv, [Next]_vars PROVE LimiterInv'
  OBVIOUS
<1>. USE DEF LimiterInv
<1>1. ASSUME NEW w \in Workers, Load(w) PROVE LimiterInv'
  <2>. USE <1>1 DEF Load
  <2>1. LimiterTypeOK'
    BY DEF LimiterTypeOK
  <2>2. CASE Nil(current)
    <3>1. /\ epc' = [epc EXCEPT ![w] = "run"] /\ lim' = [lim EXCEPT ![w] = current]
          /\ epc[w] # "run" /\ current \in Limiters
      BY <2>2 DEF LimiterTypeOK
    <3>2. \A h \in Limiters \ {current} : Holders(h)' = Holders(h)
      BY <3>1, Join
    <3>3. TokensExact'
      BY <2>2, <3>2 DEF TokensExact, Nil, LimiterTypeOK, Limiters
    <3>. QED
      BY <2>1, <2>2, <3>3 DEF LimiterTypeOK, Limiters, Nil
  <2>3. CASE ~Nil(current)
    <3>1. \A h : Holders(h)' = Holders(h)
      BY <2>3 DEF Holders, LimiterTypeOK
    <3>2. TokensExact'
      BY <3>1 DEF TokensExact, Nil
    <3>. QED
      BY <2>1, <2>3, <3>2 DEF LimiterTypeOK, Limiters, Nil
  <2>. QED
    BY <2>2, <2>3
<1>2. ASSUME NEW w \in Workers, Acquire(w) PROVE LimiterInv'
  <2>. USE <1>2 DEF Acquire
  <2>1. LimiterTypeOK'
    BY DEF LimiterTypeOK
  <2>2. lim[w] \in Limiters /\ lim' = [lim EXCEPT ![w] = lim[w]] /\ epc[w] # "run" /\ lim[w] <= current
    BY DEF LimiterTypeOK
  <2>3. /\ \A h \in Limiters \ {lim[w]} : Holders(h)' = Holders(h)
        /\ Cardinality(Holders(lim[w])') = Cardinality(Holders(lim[w])) + 1
    BY <2>2, Join
  <2>4. tokens[lim[w]] = Cardinality(Holders(lim[w]))
    BY <2>2 DEF TokensExact
  <2>5. TokensExact'
    BY <2>2, <2>3, <2>4, HoldersFinite DEF TokensExact, Nil, LimiterTypeOK, Limiters
  <2>. QED
    BY <2>1, <2>5 DEF LimiterTypeOK, Nil
<1>3. ASSUME NEW w \in Workers, Canceled(w) PROVE LimiterInv'
  <2>. USE <1>3 DEF Canceled
  <2>1. \A h : Holders(h)' = Holders(h)
    BY DEF Holders, LimiterTypeOK
  <2>2. TokensExact'
    BY <2>1 DEF TokensExact, Nil
  <2>. QED
    BY <2>2 DEF LimiterTypeOK, Nil
<1>4. ASSUME NEW w \in Workers, Release(w) PROVE LimiterInv'
  <2>. USE <1>4 DEF Release
  <2>1. LimiterTypeOK'
    BY DEF LimiterTypeOK
  <2>2. PICK g \in Limiters : lim[w] = g /\ g <= current
    BY DEF LimiterTypeOK
  <2>3. /\ Holders(g)' = Holders(g) \ {w}
        /\ \A h \in Limiters \ {g} : Holders(h)' = Holders(h)
        /\ Cardinality(Holders(g)') = Cardinality(Holders(g)) - 1
    BY <2>2, Part
  <2>4. \A h \in Limiters \ {g} : tokens'[h] = tokens[h] /\ Cardinality(Holders(h)') = Cardinality(Holders(h))
    BY <2>2, <2>3 DEF LimiterTypeOK
  <2>5. ~Nil(g) => /\ tokens'[g] = Cardinality(Holders(g)')
                   /\ Cardinality(Holders(g)') <= cap[g]
    <3>. HAVE ~Nil(g)
    <3>1. tokens[g] = Cardinality(Holders(g)) /\ tokens[g] <= cap[g]
      BY <2>2 DEF TokensExact
    <3>2. tokens'[g] = tokens[g] - 1
      BY <2>2 DEF LimiterTypeOK
    <3>. QED
      BY <2>3, <3>1, <3>2 DEF LimiterTypeOK
  <2>6. TokensExact'
    BY <2>2, <2>3, <2>4, <2>5 DEF TokensExact, Nil, LimiterTypeOK, Limiters
  <2>. QED
    BY <2>1, <2>6 DEF LimiterTypeOK, Nil
<1>5. ASSUME NEW max \in Caps, Replace(max) PROVE LimiterInv'
  <2>. USE <1>5 DEF Replace
  <2>1. LimiterTypeOK'
    BY LimiterAssumption DEF LimiterTypeOK, Limiters
  <2>2. \A h : Holders(h)' = Holders(h)
    BY DEF Holders
  <2>3. PICK n \in Limiters : n = current + 1
    BY LimiterAssumption DEF LimiterTypeOK, Limiters
  <2>4. Holders(n) = {} /\ tokens[n] = 0
    BY <2>3 DEF TokensExact, LimiterTypeOK, Limiters
  <2>5. Cardinality(Holders(n)') = 0 /\ cap'[n] \in Nat
    BY <2>1, <2>2, <2>4, FS_EmptySet DEF LimiterTypeOK
  <2>6. \A g \in Limiters \ {n} : cap'[g] = cap[g]
    BY <2>3 DEF LimiterTypeOK
  <2>7. TokensExact'
    BY <2>2, <2>3, <2>4, <2>5, <2>6 DEF TokensExact, Nil, LimiterTypeOK, Limiters
  <2>8. (\A w \in Workers : lim[w] <= current)'
    BY DEF LimiterTypeOK, Limiters
  <2>9. \A w \in Workers : lim[w] # n
    BY <2>3 DEF LimiterTypeOK, Limiters
  <2>. QED
    BY <2>1, <2>6, <2>7, <2>8, <2>9 DEF LimiterTypeOK, Nil
<1>6. CASE UNCHANGED vars
  BY <1>6 DEF vars, LimiterTypeOK, TokensExact, Holders, Nil
<1>. QED
  BY <1>1, <1>2, <1>3, <1>4, <1>5, <1>6 DEF Next

\* Token accounting of the limiter, for every number of workers, every set of
\* capacities and any number of replacements (limiter.go, Acquire and Release):
\* each limiter has one token per run that holds it, and no more than its
\* capacity, so a Release never blocks.
THEOREM TokensAreExact == Spec => []TokensExact
<1>1. LimiterInv => TokensExact
  BY DEF LimiterInv
<1>. QED
  BY LimiterInit, LimiterStep, <1>1, PTL DEF Spec
=============================================================================
