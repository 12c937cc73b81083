----------------------- MODULE NameserverQueryProofs -----------------------
(***************************************************************************)
(* Proofs about NameserverQuery, for any runs, goroutines, servers, keys   *)
(* and bounds: types, one leader per question, an exact concurrency cap,   *)
(* and no blame on an address that answers.                                *)
(***************************************************************************)
EXTENDS NameserverQuery, FiniteSetTheorems, TLAPS

\* A run that has leased has a base store, and only its threads ask.
LeaseInv ==
    /\ bases <= Cardinality({r \in Runs : life[r] # "new"})
    /\ \A k \in HotKeys : hot[k] # None => hot[k] \in 1 .. bases
    /\ \A r \in Runs : life[r] # "new" => base[r] \in 1 .. bases
    /\ \A t \in Threads : th[t].pc # "idle" => life[RunOf[t]] = "leased"

Holders(b, a) == {t \in Threads : Holds(t) /\ Base(t) = b /\ Addr(t) = a}

\* A cap counts its holders, of which there are finitely many.
CapCounts ==
    \A b \in Bases, a \in Addrs :
        IsFiniteSet(Holders(b, a)) /\ slots[b][a] = Cardinality(Holders(b, a))

-----------------------------------------------------------------------------
(* Types.                                                                  *)

\* A thread that asks works on a base store and an address.
LEMMA Placed ==
    ASSUME QueryTypeOK, LeaseInv, NEW t \in Threads, th[t].pc # "idle"
    PROVE  /\ RunOf[t] \in Runs /\ Base(t) \in Bases /\ Addr(t) \in Addrs
           /\ th[t] \in Thread /\ th[t].q \in Questions /\ th[t].server \in Servers
<1>1. RunOf[t] \in Runs /\ life[RunOf[t]] # "new"
  BY QueryAssumption DEF LeaseInv
<1>2. Base(t) \in 1 .. bases
  BY <1>1 DEF LeaseInv, Base
<1>3. Cardinality(Runs) \in Nat
  BY QueryAssumption, FS_CardinalityType
<1>4. Base(t) \in Bases
  BY <1>2, <1>3 DEF QueryTypeOK, Bases
<1>5. th[t] \in Thread /\ th[t].q \in Questions /\ th[t].server \in Servers
  BY DEF QueryTypeOK, Thread
<1>. QED
  BY <1>1, <1>4, <1>5, QueryAssumption DEF Addr

\* Who holds a slot is counted.
LEMMA HolderCounted ==
    ASSUME QueryTypeOK, LeaseInv, CapCounts, NEW t \in Threads, Holds(t)
    PROVE  slots[Base(t)][Addr(t)] \in Nat \ {0}
<1>1. Base(t) \in Bases /\ Addr(t) \in Addrs
  BY Placed DEF Holds
<1>. DEFINE H == Holders(Base(t), Addr(t))
<1>2. t \in H /\ IsFiniteSet(H) /\ slots[Base(t)][Addr(t)] = Cardinality(H)
  BY <1>1 DEF CapCounts, Holders
<1>. HIDE DEF H
<1>3. Cardinality(H) \in Nat /\ Cardinality(H) # 0
  BY <1>2, FS_CardinalityType, FS_EmptySet
<1>. QED BY <1>2, <1>3

\* set keeps the order and the data of a query cache in step.
LEMMA StoredType ==
    ASSUME NEW c \in QueryCache, NEW q \in Questions, NEW v \in {"answer", "none"}
    PROVE  /\ Stored(c, q, v) \in QueryCache
           /\ \A k \in DOMAIN Stored(c, q, v).data :
                /\ k \in DOMAIN c.data \cup {q}
                /\ Stored(c, q, v).data[k] = IF k = q THEN v ELSE c.data[k]
<1>. DEFINE all == IF q \in DOMAIN c.data THEN c.order ELSE Append(c.order, q)
            order == Last(all, QueryCacheMaxEntries)
            data == [k \in Range(order) |-> IF k = q THEN v ELSE c.data[k]]
<1>1. QueryCacheMaxEntries \in Nat \ {0}
  BY QueryAssumption
<1>2. /\ c.order \in Seq(Questions) /\ DOMAIN c.data = Range(c.order) /\ IsInjective(c.order)
      /\ Len(c.order) <= QueryCacheMaxEntries
  BY DEF QueryCache
<1>3. \A k \in DOMAIN c.data : c.data[k] \in {"answer", "none"}
  <2>1. PICK K \in SUBSET Questions : c.data \in [K -> {"answer", "none"}]
    BY DEF QueryCache
  <2>. QED BY <2>1
<1>4. all \in Seq(Questions) /\ IsInjective(all) /\ Range(all) = DOMAIN c.data \cup {q}
  <2>1. CASE q \in DOMAIN c.data
    BY <1>2, <2>1
  <2>2. CASE q \notin DOMAIN c.data
    <3>1. /\ all \in Seq(Questions) /\ Len(all) = Len(c.order) + 1 /\ all[Len(all)] = q
          /\ \A i \in 1 .. Len(c.order) : all[i] = c.order[i]
      BY <1>2, <2>2
    <3>2. \A i \in 1 .. Len(c.order) : c.order[i] # q
      BY <1>2, <2>2 DEF Range
    <3>3. IsInjective(all)
      BY <1>2, <3>1, <3>2 DEF IsInjective
    <3>4. Range(all) = DOMAIN c.data \cup {q}
      BY <1>2, <3>1 DEF Range
    <3>. QED BY <3>1, <3>3, <3>4
  <2>. QED BY <2>1, <2>2
<1>. HIDE DEF all
<1>5. /\ order \in Seq(Questions) /\ Len(order) <= QueryCacheMaxEntries
      /\ \E d \in Nat : \A i \in 1 .. Len(order) : i + d \in 1 .. Len(all) /\ order[i] = all[i + d]
  <2>. DEFINE n == QueryCacheMaxEntries
  <2>1. CASE Len(all) > n
    <3>1. order = SubSeq(all, Len(all) - n + 1, Len(all))
      BY <2>1 DEF Last
    <3>2. Len(all) - n \in Nat /\ Len(all) \in Nat
      BY <1>1, <1>4, <2>1
    <3>3. order \in Seq(Questions) /\ Len(order) = n
      BY <1>1, <1>4, <3>1, <3>2
    <3>4. \A i \in 1 .. n : order[i] = all[i + (Len(all) - n)]
      BY <1>1, <1>4, <3>1, <3>2
    <3>5. \A i \in 1 .. Len(order) : i + (Len(all) - n) \in 1 .. Len(all)
      BY <1>1, <3>2, <3>3
    <3>. DEFINE d == Len(all) - n
    <3>. HIDE DEF d
    <3>6. d \in Nat /\ \A i \in 1 .. Len(order) : i + d \in 1 .. Len(all) /\ order[i] = all[i + d]
      BY <3>2, <3>3, <3>4, <3>5 DEF d
    <3>7. Len(order) <= QueryCacheMaxEntries
      BY <1>1, <3>3
    <3>. HIDE DEF order, n
    <3>. QED BY <3>3, <3>6, <3>7
  <2>2. CASE ~(Len(all) > n)
    <3>1. order = all
      BY <1>1, <1>4, <2>2 DEF Last
    <3>. QED BY <1>1, <1>4, <2>2, <3>1
  <2>. QED BY <2>1, <2>2
<1>. HIDE DEF order
<1>6. IsInjective(order) /\ Range(order) \subseteq Range(all)
  <2>1. PICK d \in Nat : \A i \in 1 .. Len(order) : i + d \in 1 .. Len(all) /\ order[i] = all[i + d]
    BY <1>5
  <2>2. DOMAIN order = 1 .. Len(order) /\ DOMAIN all = 1 .. Len(all)
    BY <1>4, <1>5
  <2>3. IsInjective(order)
    <3>. SUFFICES ASSUME NEW i \in 1 .. Len(order), NEW j \in 1 .. Len(order),
                         order[i] = order[j]
                  PROVE  i = j
      BY <2>2 DEF IsInjective
    <3>1. i + d \in 1 .. Len(all) /\ j + d \in 1 .. Len(all) /\ all[i + d] = all[j + d]
      BY <2>1
    <3>2. i + d = j + d
      BY <1>4, <2>2, <3>1 DEF IsInjective
    <3>. QED BY <3>2
  <2>4. Range(order) \subseteq Range(all)
    <3>. SUFFICES ASSUME NEW i \in 1 .. Len(order) PROVE order[i] \in Range(all)
      BY <2>2 DEF Range
    <3>1. i + d \in DOMAIN all /\ order[i] = all[i + d]
      BY <2>1, <2>2
    <3>. QED BY <3>1 DEF Range
  <2>. QED BY <2>3, <2>4
<1>7. Range(order) \subseteq Questions
  BY <1>5 DEF Range
<1>8. \A k \in Range(order) : data[k] \in {"answer", "none"}
  BY <1>3, <1>4, <1>6
<1>9. data \in UNION {[K -> {"answer", "none"}] : K \in SUBSET Questions}
  BY <1>7, <1>8
<1>10. Stored(c, q, v) = [order |-> order, data |-> data]
  BY DEF Stored, order, all
<1>11. DOMAIN data = Range(order) /\ \A k \in Range(order) : data[k] = IF k = q THEN v ELSE c.data[k]
  OBVIOUS
<1>. HIDE DEF data
<1>12. Stored(c, q, v) \in QueryCache
  BY <1>5, <1>6, <1>9, <1>10, <1>11 DEF QueryCache
<1>13. Stored(c, q, v).data = data
  BY <1>10
<1>. QED BY <1>4, <1>6, <1>11, <1>12, <1>13

Outs == Results \cup {"none", "cancel", "error", "panic", None}

\* What the steps do to the threads keeps their type.
LEMMA GotoType ==
    ASSUME QueryTypeOK, NEW t \in Threads, NEW x, Goto(t, x),
           x \in {"idle", "lookup", "check", "mark", "join", "wait", "acquire", "capwait",
                  "network", "observe", "learn", "store", "finish", "release", "unwind"}
    PROVE  th' \in [Threads -> Thread]
<1>1. th \in [Threads -> Thread]
  BY DEF QueryTypeOK
<1>2. \A rec \in Thread : [rec EXCEPT !.pc = x] \in Thread
  BY DEF Thread
<1>. QED BY <1>1, <1>2 DEF Goto

LEMMA ReturnedType ==
    ASSUME NEW rec \in Thread, NEW out \in Outs
    PROVE  Returned(rec, out) \in Thread
  BY DEF Returned, Thread, Outs

LEMMA HandedType ==
    ASSUME QueryTypeOK, NEW t \in Threads, NEW x \in {"none", "answer", "error", "abandoned"}
    PROVE  Handed(t, x) \in [Threads -> Thread]
<1>1. th \in [Threads -> Thread]
  BY DEF QueryTypeOK
<1>2. \A rec \in Thread : [rec EXCEPT !.got = x] \in Thread
  BY DEF Thread
<1>. QED BY <1>1, <1>2 DEF Handed

LEMMA WokenType ==
    ASSUME QueryTypeOK, NEW t \in Threads
    PROVE  Woken(t) \in [Threads -> Thread]
<1>1. th \in [Threads -> Thread]
  BY DEF QueryTypeOK
<1>2. \A rec \in Thread : [rec EXCEPT !.pc = "acquire"] \in Thread
  BY DEF Thread
<1>. QED BY <1>1, <1>2 DEF Woken

LEMMA FastFailType ==
    ASSUME NEW o \in [count: Nat, blocked: BOOLEAN, listed: BOOLEAN, slow: BOOLEAN],
           NEW timeout \in BOOLEAN
    PROVE  FastFail(o, timeout) \in [count: Nat, blocked: BOOLEAN, listed: BOOLEAN, slow: BOOLEAN]
<1>. DEFINE O == [count: Nat, blocked: BOOLEAN, listed: BOOLEAN, slow: BOOLEAN]
<1>1. [o EXCEPT !.count = 0, !.blocked = FALSE] \in O
  OBVIOUS
<1>2. [o EXCEPT !.count = 0, !.blocked = TRUE] \in O
  OBVIOUS
<1>3. [o EXCEPT !.count = @ + 1] \in O
  OBVIOUS
<1>. HIDE DEF O
<1>4. FastFail(o, timeout) \in O
  BY <1>1, <1>2, <1>3 DEF FastFail, O
<1>. QED BY <1>4 DEF O

\* The threads that have asked are those of runs that have leased.
LEMMA Leased ==
    ASSUME QueryTypeOK, LeaseInv, NEW r \in Runs, NEW dead \in SUBSET HotKeys, Lease(r, dead)
    PROVE  LeaseInv' /\ bases' \in 0 .. Cardinality(Runs)
           /\ hot' \in [HotKeys -> Bases \cup {None}]
           /\ base' \in [Runs -> 0 .. bases'] /\ bases <= bases'
<1>. DEFINE k == HotKeyOf[r]
            kept == Unexpired(dead)
            b == IF kept[k] = None THEN bases + 1 ELSE kept[k]
            Old == {s \in Runs : life[s] # "new"}
<1>1. k \in HotKeys /\ bases \in Nat
  BY QueryAssumption DEF QueryTypeOK
<1>2. /\ life[r] = "new" /\ life' = [life EXCEPT ![r] = "leased"]
      /\ base' = [base EXCEPT ![r] = b] /\ bases' = IF kept[k] = None THEN b ELSE bases
      /\ hot' = Evicted([kept EXCEPT ![k] = b], Used(k)) /\ UNCHANGED th
  BY DEF Lease
<1>3. kept \in [HotKeys -> Bases \cup {None}] /\ \A j \in HotKeys : kept[j] # None => kept[j] \in 1 .. bases
  BY DEF Unexpired, QueryTypeOK, LeaseInv
<1>. HIDE DEF kept, k
<1>4. b \in 1 .. bases' /\ bases <= bases' /\ bases' \in Nat /\ bases' <= bases + 1
  BY <1>1, <1>2, <1>3
<1>5. {s \in Runs : life'[s] # "new"} = Old \cup {r} /\ r \notin Old
  BY <1>2 DEF QueryTypeOK
<1>6. IsFiniteSet(Old) /\ Cardinality(Old \cup {r}) = Cardinality(Old) + 1
      /\ Cardinality(Old) \in Nat
  <2>1. IsFiniteSet(Old)
    BY QueryAssumption, FS_Subset
  <2>. QED BY <1>5, <2>1, FS_AddElement, FS_CardinalityType
<1>7. Cardinality(Old \cup {r}) <= Cardinality(Runs) /\ Cardinality(Runs) \in Nat
  <2>1. Old \cup {r} \subseteq Runs
    OBVIOUS
  <2>. QED BY <2>1, QueryAssumption, FS_Subset, FS_CardinalityType
<1>8. bases <= Cardinality(Old)
  BY DEF LeaseInv
<1>. HIDE DEF Old
<1>9. bases' <= Cardinality(Old \cup {r}) /\ bases' \in 0 .. Cardinality(Runs)
  BY <1>1, <1>4, <1>6, <1>7, <1>8
<1>10. b \in Bases
  BY <1>4, <1>7, <1>9 DEF Bases
<1>. HIDE DEF b
<1>11. /\ hot' \in [HotKeys -> Bases \cup {None}]
       /\ \A j \in HotKeys : hot'[j] # None => hot'[j] \in 1 .. bases'
  <2>. DEFINE h == [kept EXCEPT ![k] = b]
  <2>1. \A j \in HotKeys : h[j] \in Bases \cup {None} /\ (h[j] # None => h[j] \in 1 .. bases')
    BY <1>1, <1>3, <1>4, <1>10
  <2>. HIDE DEF h
  <2>2. hot' = Evicted(h, Used(k))
    BY <1>2 DEF h
  <2>3. hot' \in [HotKeys -> Bases \cup {None}]
    BY <2>1, <2>2 DEF Evicted
  <2>4. \A j \in HotKeys : hot'[j] # None => hot'[j] = h[j]
    BY <2>2 DEF Evicted
  <2>. QED BY <2>1, <2>3, <2>4
<1>12. base' \in [Runs -> 0 .. bases'] /\ \A s \in Runs : life'[s] # "new" => base'[s] \in 1 .. bases'
  BY <1>1, <1>2, <1>4 DEF QueryTypeOK, LeaseInv
<1>13. \A t \in Threads : th'[t].pc # "idle" => life'[RunOf[t]] = "leased"
  <2>1. \A t \in Threads : RunOf[t] \in Runs
    BY QueryAssumption
  <2>. QED BY <1>2, <2>1 DEF QueryTypeOK, LeaseInv
<1>. QED BY <1>4, <1>5, <1>9, <1>11, <1>12, <1>13 DEF LeaseInv

\* Every other step leaves the leases to their runs.
LEMMA LeaseStep ==
    ASSUME QueryTypeOK, LeaseInv, [Next]_vars
    PROVE  LeaseInv'
<1>1. ASSUME NEW r \in Runs, NEW dead \in SUBSET HotKeys, Lease(r, dead) PROVE LeaseInv'
  BY <1>1, Leased
<1>2. ASSUME NEW r \in Runs, NEW dead \in SUBSET HotKeys, NEW stale \in SUBSET Addrs,
             EndLease(r, dead, stale)
      PROVE  LeaseInv'
  <2>1. {s \in Runs : life'[s] # "new"} = {s \in Runs : life[s] # "new"}
    BY <1>2 DEF EndLease, QueryTypeOK
  <2>2. \A k \in HotKeys : hot'[k] # None => hot'[k] = hot[k]
    BY <1>2 DEF EndLease, Unexpired
  <2>3. \A s \in Runs : life'[s] # "new" => life[s] # "new"
    BY <1>2 DEF EndLease, QueryTypeOK
  <2>4. \A t \in Threads : th[t].pc # "idle" => life'[RunOf[t]] = life[RunOf[t]]
    BY <1>2, QueryAssumption DEF EndLease, QueryTypeOK
  <2>. QED BY <1>2, <2>1, <2>2, <2>3, <2>4 DEF EndLease, LeaseInv
<1>3. ASSUME UNCHANGED leases,
             \A t \in Threads : th'[t].pc # "idle" => th[t].pc # "idle" \/ life[RunOf[t]] = "leased"
      PROVE  LeaseInv'
  BY <1>3 DEF LeaseInv, leases
<1>4. ASSUME NEW t \in Threads, Begin(t) PROVE LeaseInv'
  BY <1>3, <1>4 DEF Begin, Run, QueryTypeOK
<1>5. ASSUME NEW t \in Threads, Lookup(t) PROVE LeaseInv'
  BY <1>3, <1>5 DEF Lookup, Return, Returned, Goto, QueryTypeOK
<1>6. ASSUME NEW t \in Threads, Check(t) PROVE LeaseInv'
  BY <1>3, <1>6 DEF Check, Goto, QueryTypeOK
<1>7. ASSUME NEW t \in Threads, Mark(t) PROVE LeaseInv'
  BY <1>3, <1>7 DEF Mark, Return, Returned, QueryTypeOK
<1>8. ASSUME NEW t \in Threads, Join(t) PROVE LeaseInv'
  BY <1>3, <1>8 DEF Join, Goto, QueryTypeOK
<1>9. ASSUME NEW t \in Threads, Wait(t) PROVE LeaseInv'
  BY <1>3, <1>9 DEF Wait, Return, Returned, QueryTypeOK
<1>10. ASSUME NEW t \in Threads, WaitCanceled(t) PROVE LeaseInv'
  BY <1>3, <1>10 DEF WaitCanceled, Return, Returned, QueryTypeOK
<1>11. ASSUME NEW t \in Threads, Acquire(t) PROVE LeaseInv'
  BY <1>3, <1>11 DEF Acquire, Goto, QueryTypeOK
<1>12. ASSUME NEW t \in Threads, CapCanceled(t) PROVE LeaseInv'
  BY <1>3, <1>12 DEF CapCanceled, Handed, Returned, QueryTypeOK
<1>13. ASSUME NEW t \in Threads, NEW result, NEW over, Network(t, result, over) PROVE LeaseInv'
  BY <1>3, <1>13 DEF Network, QueryTypeOK
<1>14. ASSUME NEW t \in Threads, Observe(t) PROVE LeaseInv'
  BY <1>3, <1>14 DEF Observe, Goto, QueryTypeOK
<1>15. ASSUME NEW t \in Threads, Learn(t) PROVE LeaseInv'
  BY <1>3, <1>15 DEF Learn, Goto, QueryTypeOK
<1>16. ASSUME NEW t \in Threads, Store(t) PROVE LeaseInv'
  BY <1>3, <1>16 DEF Store, Goto, QueryTypeOK
<1>17. ASSUME NEW t \in Threads, Finish(t) PROVE LeaseInv'
  BY <1>3, <1>17 DEF Finish, Handed, QueryTypeOK
<1>18. ASSUME NEW t \in Threads, Release(t) PROVE LeaseInv'
  BY <1>3, <1>18 DEF Release, Woken, Returned, QueryTypeOK
<1>19. ASSUME NEW t \in Threads, Panic(t) PROVE LeaseInv'
  BY <1>3, <1>19 DEF Panic, Woken, QueryTypeOK
<1>20. ASSUME NEW t \in Threads, Abandon(t) PROVE LeaseInv'
  BY <1>3, <1>20 DEF Abandon, Handed, Returned, QueryTypeOK
<1>21. ASSUME NEW t \in Threads, Cancel(t) PROVE LeaseInv'
  BY <1>3, <1>21 DEF Cancel, QueryTypeOK
<1>22. ASSUME NEW r \in Runs, NEW a \in Addrs, Expire(r, a) PROVE LeaseInv'
  BY <1>3, <1>22 DEF Expire
<1>23. ASSUME UNCHANGED vars PROVE LeaseInv'
  BY <1>3, <1>23 DEF vars
<1>. QED
  BY <1>1, <1>2, <1>4, <1>5, <1>6, <1>7, <1>8, <1>9, <1>10, <1>11, <1>12, <1>13, <1>14,
     <1>15, <1>16, <1>17, <1>18, <1>19, <1>20, <1>21, <1>22, <1>23 DEF Next, Step

\* A query cache starts empty.
LEMMA EmptyCache == [order |-> <<>>, data |-> <<>>] \in QueryCache
<1>1. <<>> \in Seq(Questions) /\ Len(<<>>) = 0 /\ DOMAIN <<>> = {}
  OBVIOUS
<1>2. <<>> \in [{} -> {"answer", "none"}]
  OBVIOUS
<1>3. Range(<<>>) = {} /\ IsInjective(<<>>)
  BY <1>1 DEF Range, IsInjective
<1>4. [order |-> <<>>, data |-> <<>>] \in
        [order: Seq(Questions), data: UNION {[K -> {"answer", "none"}] : K \in SUBSET Questions}]
  <2>1. <<>> \in UNION {[K -> {"answer", "none"}] : K \in SUBSET Questions}
    BY <1>2
  <2>. QED BY <1>1, <2>1
<1>5. 0 <= QueryCacheMaxEntries
  BY QueryAssumption
<1>. QED BY <1>1, <1>3, <1>4, <1>5 DEF QueryCache

\* The initial states have the types.
LEMMA QueryTypeInit == Init => QueryTypeOK
<1>. SUFFICES ASSUME Init PROVE QueryTypeOK
  OBVIOUS
<1>1. (CHOOSE s \in Servers : TRUE) \in Servers /\ (CHOOSE q \in Questions : TRUE) \in Questions
  BY QueryAssumption
<1>2. th \in [Threads -> Thread]
  BY <1>1 DEF Init, Thread
<1>3. [order |-> <<>>, data |-> <<>>] \in QueryCache
  BY EmptyCache
<1>4. Cardinality(Runs) \in Nat
  BY QueryAssumption, FS_CardinalityType
<1>5. cache \in [Bases -> [Addrs -> QueryCache]]
  BY <1>3 DEF Init
<1>6. /\ hot \in [HotKeys -> Bases \cup {None}] /\ older \subseteq HotKeys \X HotKeys
      /\ bases \in 0 .. Cardinality(Runs)
      /\ life \in [Runs -> {"new", "leased", "done"}] /\ base \in [Runs -> 0 .. bases]
  BY <1>4 DEF Init
<1>9. /\ plan \in [Threads -> Seq([server: Servers, q: Questions])]
      /\ faults \in 0 .. MaxFaults
  <2>1. plan \in Plans /\ faults = MaxFaults
    BY DEF Init
  <2>2. Plans \subseteq [Threads -> Seq([server: Servers, q: Questions])] /\ MaxFaults \in Nat
    BY QueryAssumption
  <2>3. plan \in [Threads -> Seq([server: Servers, q: Questions])]
    BY <2>1, <2>2, Zenon
  <2>4. faults \in 0 .. MaxFaults
    BY <2>1, <2>2
  <2>. QED BY <2>3, <2>4
<1>7. /\ flight \in [Bases -> [Addrs -> [Questions -> Threads \cup {None}]]]
      /\ slots \in [Bases -> [Addrs -> Nat]]
  BY DEF Init
<1>8. /\ fails \in [Runs -> [tried: SUBSET Addrs, pending: SUBSET Addrs, blackout: SUBSET Addrs,
                             errors: SUBSET (Addrs \X Questions)]]
      /\ object \in [Runs -> [Servers -> [count: Nat, blocked: BOOLEAN, listed: BOOLEAN,
                                          slow: BOOLEAN]]]
  BY DEF Init
<1>. QED BY <1>2, <1>5, <1>6, <1>7, <1>8, <1>9 DEF QueryTypeOK

\* Nobody has leased, asked or been let through yet.
LEMMA LeaseInit == Init => LeaseInv /\ CapCounts
<1>. SUFFICES ASSUME Init PROVE LeaseInv /\ CapCounts
  OBVIOUS
<1>1. {r \in Runs : life[r] # "new"} = {}
  BY DEF Init
<1>2. LeaseInv
  <2>1. Cardinality({}) = 0
    BY FS_EmptySet
  <2>2. bases <= Cardinality({r \in Runs : life[r] # "new"})
    <3>1. bases = 0
      BY DEF Init
    <3>. QED BY <1>1, <2>1, <3>1
  <2>. QED BY <2>2 DEF Init, LeaseInv
<1>3. \A b \in Bases, a \in Addrs : Holders(b, a) = {}
  BY DEF Init, Holders, Holds
<1>. QED BY <1>2, <1>3, FS_EmptySet DEF Init, CapCounts

FailSet == [tried: SUBSET Addrs, pending: SUBSET Addrs, blackout: SUBSET Addrs,
            errors: SUBSET (Addrs \X Questions)]
ObjectSet == [count: Nat, blocked: BOOLEAN, listed: BOOLEAN, slow: BOOLEAN]

\* QueryTypeOK, one name for each of its parts.
LeaseType ==
    /\ hot \in [HotKeys -> Bases \cup {None}] /\ older \subseteq HotKeys \X HotKeys
    /\ bases \in 0 .. Cardinality(Runs)
    /\ life \in [Runs -> {"new", "leased", "done"}] /\ base \in [Runs -> 0 .. bases]
CacheType == cache \in [Bases -> [Addrs -> QueryCache]]
FlightType == flight \in [Bases -> [Addrs -> [Questions -> Threads \cup {None}]]]
SlotType == slots \in [Bases -> [Addrs -> Nat]]
FailType == fails \in [Runs -> FailSet]
ObjectType == object \in [Runs -> [Servers -> ObjectSet]]
PlanType == plan \in [Threads -> Seq([server: Servers, q: Questions])]
ThreadType == th \in [Threads -> Thread] /\ faults \in 0 .. MaxFaults

Typed == LeaseType /\ CacheType /\ FlightType /\ SlotType /\ FailType /\ ObjectType /\ PlanType
         /\ ThreadType

LEMMA TypeParts == QueryTypeOK <=> Typed
  BY DEF QueryTypeOK, Typed, LeaseType, CacheType, FlightType, SlotType, FailType, ObjectType,
     PlanType, ThreadType, FailSet, ObjectSet

\* What the steps do to the state a thread works on keeps its type.
LEMMA SetCacheType ==
    ASSUME CacheType, NEW t, Base(t) \in Bases, Addr(t) \in Addrs, th[t].q \in Questions,
           NEW v \in {"answer", "none"}, SetCache(t, v)
    PROVE  CacheType'
<1>1. Stored(cache[Base(t)][Addr(t)], th[t].q, v) \in QueryCache
  BY StoredType DEF CacheType
<1>. QED BY <1>1 DEF SetCache, CacheType

LEMMA UnflightType ==
    ASSUME FlightType, NEW t, Unflight(t)
    PROVE  FlightType'
  BY DEF Unflight, FlightType

LEMMA FreeSlotType ==
    ASSUME SlotType, NEW t, FreeSlot(t), slots[Base(t)][Addr(t)] \in Nat \ {0}
    PROVE  SlotType'
<1>1. slots[Base(t)][Addr(t)] - 1 \in Nat
  OBVIOUS
<1>. QED BY <1>1 DEF FreeSlot, SlotType

LEMMA PutObject ==
    ASSUME ObjectType, NEW r, NEW s, NEW o \in ObjectSet,
           object' = [object EXCEPT ![r][s] = o]
    PROVE  ObjectType'
  BY DEF ObjectType

\* Every step keeps the types.
LEMMA QueryTypeStep ==
    ASSUME QueryTypeOK, LeaseInv, CapCounts, [Next]_vars
    PROVE  QueryTypeOK'
<1>. SUFFICES Typed'
  BY DEF QueryTypeOK, Typed, LeaseType, CacheType, FlightType, SlotType, FailType, ObjectType,
     PlanType, ThreadType, FailSet, ObjectSet
<1>0. Typed
  BY TypeParts
<1>a. th \in [Threads -> Thread] /\ faults \in 0 .. MaxFaults /\ MaxFaults \in Nat
  BY <1>0, QueryAssumption DEF Typed, ThreadType
<1>b. ASSUME NEW t \in Threads, NEW rec \in Thread, th' = [th EXCEPT ![t] = rec],
             UNCHANGED faults
      PROVE  ThreadType'
  BY <1>a, <1>b DEF ThreadType
<1>c. ASSUME NEW t \in Threads, NEW out \in Outs, Return(t, out), UNCHANGED faults
      PROVE  ThreadType'
  BY <1>a, <1>b, <1>c, ReturnedType DEF Return
<1>d. ASSUME NEW t \in Threads, NEW x, Goto(t, x), UNCHANGED faults,
             x \in {"idle", "lookup", "check", "mark", "join", "wait", "acquire", "capwait",
                    "network", "observe", "learn", "store", "finish", "release", "unwind"}
      PROVE  ThreadType'
  BY <1>a, <1>d, GotoType DEF ThreadType
<1>e. UNCHANGED leases => LeaseType'
  BY <1>0 DEF Typed, LeaseType, leases
<1>f. /\ UNCHANGED cache => CacheType'
      /\ UNCHANGED flight => FlightType'
      /\ UNCHANGED slots => SlotType'
      /\ UNCHANGED fails => FailType'
      /\ UNCHANGED object => ObjectType'
      /\ UNCHANGED plan => PlanType'
      /\ UNCHANGED <<th, faults>> => ThreadType'
  BY <1>0 DEF Typed, CacheType, FlightType, SlotType, FailType, ObjectType, PlanType, ThreadType
<1>. USE <1>e, <1>f DEF Typed, shared
<1>1. ASSUME NEW r \in Runs, NEW dead \in SUBSET HotKeys, Lease(r, dead) PROVE Typed'
  <2>1. older' \subseteq HotKeys \X HotKeys
    <3>1. HotKeyOf[r] \in HotKeys
      BY QueryAssumption
    <3>. QED BY <1>0, <1>1, <3>1 DEF Lease, Used, LeaseType
  <2>2. life' \in [Runs -> {"new", "leased", "done"}]
    BY <1>0, <1>1 DEF Lease, LeaseType
  <2>3. LeaseType'
    BY <1>1, <2>1, <2>2, Leased DEF LeaseType
  <2>. QED BY <1>1, <2>3 DEF Lease
<1>2. ASSUME NEW r \in Runs, NEW dead \in SUBSET HotKeys, NEW stale \in SUBSET Addrs,
             EndLease(r, dead, stale)
      PROVE  Typed'
  <2>1. hot' \in [HotKeys -> Bases \cup {None}]
    BY <1>0, <1>2 DEF EndLease, Unexpired, LeaseType
  <2>2. older' \subseteq HotKeys \X HotKeys
    <3>1. HotKeyOf[r] \in HotKeys
      BY QueryAssumption
    <3>. QED BY <1>0, <1>2, <3>1 DEF EndLease, Used, LeaseType
  <2>3. life' \in [Runs -> {"new", "leased", "done"}]
    BY <1>0, <1>2 DEF EndLease, LeaseType
  <2>4. LeaseType'
    BY <1>0, <1>2, <2>1, <2>2, <2>3 DEF EndLease, LeaseType
  <2>5. CacheType'
    <3>. DEFINE e == [order |-> <<>>, data |-> <<>>]
                row == [a \in Addrs |-> IF a \in stale THEN e ELSE cache[base[r]][a]]
    <3>1. e \in QueryCache
      BY EmptyCache
    <3>. HIDE DEF e
    <3>2. base[r] \in Bases => row \in [Addrs -> QueryCache]
      BY <1>0, <3>1 DEF CacheType
    <3>3. cache' = [cache EXCEPT ![base[r]] = row]
      BY <1>2 DEF EndLease, e
    <3>. HIDE DEF row
    <3>. QED BY <1>0, <3>2, <3>3 DEF CacheType
  <2>. QED BY <1>2, <2>4, <2>5 DEF EndLease
<1>3. ASSUME NEW t \in Threads, Begin(t) PROVE Typed'
  <2>. DEFINE ask == Head(plan[t])
              admitted == AddrOf[ask.server] \in fails[Run(t)].tried
                            \/ Cardinality(fails[Run(t)].tried) < MaxRunAddresses
  <2>0. plan[t] \in Seq([server: Servers, q: Questions]) /\ plan[t] # <<>>
    BY <1>0, <1>3 DEF PlanType, Begin
  <2>1. ask \in [server: Servers, q: Questions] /\ Tail(plan[t]) \in Seq([server: Servers, q: Questions])
    <3>. DEFINE S == [server: Servers, q: Questions]
    <3>. HIDE DEF S
    <3>1. plan[t] \in Seq(S) /\ plan[t] # <<>>
      BY <2>0 DEF S
    <3>2. Head(plan[t]) \in S /\ Tail(plan[t]) \in Seq(S)
      BY <3>1
    <3>. QED BY <3>2 DEF S
  <2>2. PlanType'
    BY <1>0, <1>3, <2>1 DEF PlanType, Begin
  <2>. HIDE DEF ask, admitted
  <2>3. ThreadType'
    <3>1. [th[t] EXCEPT !.pc = IF admitted THEN "lookup" ELSE "idle", !.server = ask.server,
                 !.q = ask.q, !.gone = FALSE, !.out = IF admitted THEN None ELSE "none"] \in Thread
      <4>1. th[t] \in Thread
        BY <1>a
      <4>. QED BY <2>1, <4>1 DEF Thread
    <3>2. th' = [th EXCEPT ![t] = [th[t] EXCEPT !.pc = IF admitted THEN "lookup" ELSE "idle",
                    !.server = ask.server, !.q = ask.q, !.gone = FALSE,
                    !.out = IF admitted THEN None ELSE "none"]]
      BY <1>3 DEF Begin, ask, admitted
    <3>. QED BY <1>3, <1>b, <3>1, <3>2 DEF Begin
  <2>4. FailType'
    <3>1. RunOf[t] \in Runs /\ AddrOf[ask.server] \in Addrs
      BY <2>1, QueryAssumption
    <3>2. fails' = [fails EXCEPT ![RunOf[t]].tried = IF admitted THEN @ \cup {AddrOf[ask.server]} ELSE @]
      BY <1>3 DEF Begin, ask, admitted, Run
    <3>3. fails[RunOf[t]] \in FailSet
      BY <1>0, <3>1 DEF FailType
    <3>4. [fails[RunOf[t]] EXCEPT !.tried = IF admitted THEN @ \cup {AddrOf[ask.server]} ELSE @] \in FailSet
      BY <3>1, <3>3 DEF FailSet
    <3>. QED BY <1>0, <3>2, <3>4 DEF FailType
  <2>. QED BY <1>3, <2>2, <2>3, <2>4 DEF Begin
<1>4. ASSUME NEW t \in Threads, Lookup(t) PROVE Typed'
  <2>1. Base(t) \in Bases /\ Addr(t) \in Addrs
    BY <1>4, Placed DEF Lookup
  <2>2. th[t].q \in DOMAIN Cached(t).data => Cached(t).data[th[t].q] \in Outs
    <3>1. Cached(t) \in QueryCache
      BY <1>0, <2>1 DEF Cached, CacheType
    <3>2. PICK K \in SUBSET Questions : Cached(t).data \in [K -> {"answer", "none"}]
      BY <3>1 DEF QueryCache
    <3>. QED BY <3>2 DEF Outs, Results
  <2>3. ThreadType'
    BY <1>4, <1>c, <1>d, <2>2 DEF Lookup
  <2>. QED BY <1>4, <2>3 DEF Lookup
<1>5. ASSUME NEW t \in Threads, Check(t) PROVE Typed'
  <2>1. ThreadType'
    BY <1>5, <1>d DEF Check
  <2>. QED BY <1>5, <2>1 DEF Check
<1>6. ASSUME NEW t \in Threads, Mark(t) PROVE Typed'
  <2>1. CacheType'
    BY <1>0, <1>6, Placed, SetCacheType DEF Mark
  <2>2. ThreadType'
    BY <1>6, <1>c DEF Mark, Outs
  <2>. QED BY <1>6, <2>1, <2>2 DEF Mark
<1>7. ASSUME NEW t \in Threads, Join(t) PROVE Typed'
  <2>. DEFINE leader == flight[Base(t)][Addr(t)][th[t].q]
  <2>1. leader \in Threads \cup {None}
    BY <1>0, <1>7, Placed DEF Join, FlightType
  <2>. HIDE DEF leader
  <2>2. CASE leader = None
    <3>1. flight' = [flight EXCEPT ![Base(t)][Addr(t)][th[t].q] = t]
      BY <1>7, <2>2 DEF Join, leader
    <3>2. FlightType'
      BY <1>0, <3>1 DEF FlightType
    <3>3. ThreadType'
      BY <1>7, <1>d, <2>2 DEF Join, leader
    <3>. QED BY <1>7, <3>2, <3>3 DEF Join
  <2>3. CASE leader # None
    <3>1. [[th[t] EXCEPT !.pc = "wait"] EXCEPT !.leader = leader] \in Thread
      BY <1>a, <2>1 DEF Thread
    <3>2. th' = [th EXCEPT ![t] = [[th[t] EXCEPT !.pc = "wait"] EXCEPT !.leader = leader]]
      BY <1>7, <1>a, <2>3 DEF Join, leader
    <3>3. ThreadType'
      BY <1>7, <1>b, <3>1, <3>2 DEF Join
    <3>. QED BY <1>7, <2>3, <3>3 DEF Join, leader
  <2>. QED BY <2>2, <2>3
<1>8. ASSUME NEW t \in Threads, Wait(t) PROVE Typed'
  <2>1. CASE th[t].got = "abandoned"
    <3>1. [[[th[t] EXCEPT !.pc = "join"] EXCEPT !.leader = None] EXCEPT !.got = None] \in Thread
      BY <1>a DEF Thread
    <3>2. th' = [th EXCEPT ![t] =
                   [[[th[t] EXCEPT !.pc = "join"] EXCEPT !.leader = None] EXCEPT !.got = None]]
      BY <1>8, <1>a, <2>1 DEF Wait
    <3>3. ThreadType'
      BY <1>8, <1>b, <3>1, <3>2 DEF Wait
    <3>. QED BY <1>8, <3>3 DEF Wait
  <2>2. CASE th[t].got # "abandoned"
    <3>1. th[t].got \in Outs
      BY <1>8, <1>a, <2>2 DEF Wait, Thread, Outs, Results
    <3>2. ThreadType'
      BY <1>8, <1>c, <2>2, <3>1 DEF Wait
    <3>. QED BY <1>8, <3>2 DEF Wait
  <2>. QED BY <2>1, <2>2
<1>9. ASSUME NEW t \in Threads, WaitCanceled(t) PROVE Typed'
  <2>1. ThreadType'
    BY <1>9, <1>c DEF WaitCanceled, Outs
  <2>. QED BY <1>9, <2>1 DEF WaitCanceled
<1>10. ASSUME NEW t \in Threads, Acquire(t) PROVE Typed'
  <2>1. ThreadType'
    BY <1>10, <1>d DEF Acquire
  <2>2. SlotType'
    <3>1. slots[Base(t)][Addr(t)] + 1 \in Nat
      BY <1>0, <1>10, Placed DEF Acquire, SlotType
    <3>. QED BY <1>0, <1>10, <3>1 DEF Acquire, SlotType
  <2>. QED BY <1>10, <2>1, <2>2 DEF Acquire
<1>11. ASSUME NEW t \in Threads, CapCanceled(t) PROVE Typed'
  <2>1. Handed(t, "error") \in [Threads -> Thread]
    BY HandedType
  <2>2. Returned(Handed(t, "error")[t], "cancel") \in Thread
    BY <2>1, ReturnedType DEF Outs
  <2>3. ThreadType'
    BY <1>11, <1>a, <2>1, <2>2 DEF CapCanceled, ThreadType
  <2>4. FlightType'
    BY <1>0, <1>11, UnflightType DEF CapCanceled
  <2>. QED BY <1>11, <2>3, <2>4 DEF CapCanceled
<1>12. ASSUME NEW t \in Threads, NEW result \in Results \cup {"cancel"}, NEW over \in BOOLEAN,
              Network(t, result, over)
       PROVE  Typed'
  <2>1. [[th[t] EXCEPT !.pc = "observe"] EXCEPT !.out = result] \in Thread
    BY <1>a DEF Thread
  <2>2. th' = [th EXCEPT ![t] = [[th[t] EXCEPT !.pc = "observe"] EXCEPT !.out = result]]
    BY <1>12, <1>a DEF Network
  <2>3. ThreadType'
    BY <1>12, <1>b, <2>1, <2>2 DEF Network
  <2>4. ObjectType'
    <3>1. RunOf[t] \in Runs /\ th[t].server \in Servers
      BY <1>12, Placed DEF Network
    <3>2. object[RunOf[t]][th[t].server] \in ObjectSet
      BY <1>0, <3>1 DEF ObjectType
    <3>3. [object[RunOf[t]][th[t].server] EXCEPT !.slow = TRUE] \in ObjectSet
      BY <3>2 DEF ObjectSet
    <3>4. over => object' = [object EXCEPT ![RunOf[t]][th[t].server] =
                               [object[RunOf[t]][th[t].server] EXCEPT !.slow = TRUE]]
      BY <1>0, <1>12, <3>1 DEF Network, Run, ObjectType
    <3>5. ~over => object' = object
      BY <1>12 DEF Network
    <3>. QED BY <1>0, <3>3, <3>4, <3>5, PutObject
  <2>. QED BY <1>12, <2>3, <2>4 DEF Network
<1>13. ASSUME NEW t \in Threads, Observe(t) PROVE Typed'
  <2>1. ThreadType'
    BY <1>13, <1>d DEF Observe
  <2>2. ObjectType'
    <3>1. RunOf[t] \in Runs /\ th[t].server \in Servers
      BY <1>13, Placed DEF Observe
    <3>. DEFINE o == object[RunOf[t]][th[t].server]
                o2 == FastFail(o, ~th[t].gone /\ th[t].out = "timeout")
    <3>2. o \in ObjectSet
      BY <1>0, <3>1 DEF ObjectType
    <3>3. o2 \in ObjectSet
      BY <3>2, FastFailType DEF ObjectSet
    <3>4. object' = object \/ object' = [object EXCEPT ![RunOf[t]][th[t].server] = o2]
      BY <1>13 DEF Observe, Run
    <3>. HIDE DEF o2
    <3>. QED BY <1>0, <3>3, <3>4, PutObject
  <2>. QED BY <1>13, <2>1, <2>2 DEF Observe
<1>15. ASSUME NEW t \in Threads, Store(t) PROVE Typed'
  <2>1. ThreadType'
    BY <1>15, <1>d DEF Store
  <2>2. CacheType'
    BY <1>0, <1>15, Placed, SetCacheType DEF Store
  <2>. QED BY <1>15, <2>1, <2>2 DEF Store
<1>17. ASSUME NEW t \in Threads, Release(t) PROVE Typed'
  <2>1. Woken(t) \in [Threads -> Thread]
    BY WokenType
  <2>2. Woken(t)[t].out \in Outs
    BY <2>1 DEF Thread, Outs
  <2>3. Returned(Woken(t)[t], Woken(t)[t].out) \in Thread
    BY <2>1, <2>2, ReturnedType
  <2>4. ThreadType'
    BY <1>17, <1>a, <2>1, <2>3 DEF Release, ThreadType
  <2>5. SlotType'
    BY <1>0, <1>17, HolderCounted, FreeSlotType DEF Release, Holds
  <2>. QED BY <1>17, <2>4, <2>5 DEF Release
<1>18. ASSUME NEW t \in Threads, Panic(t) PROVE Typed'
  <2>1. Woken(t) \in [Threads -> Thread]
    BY WokenType
  <2>2. [Woken(t)[t] EXCEPT !.pc = "unwind"] \in Thread
    BY <2>1 DEF Thread
  <2>3. faults' \in 0 .. MaxFaults
    BY <1>18, <1>a DEF Panic
  <2>4. ThreadType'
    BY <1>18, <2>1, <2>2, <2>3 DEF Panic, ThreadType
  <2>5. SlotType'
    BY <1>0, <1>18, HolderCounted, FreeSlotType DEF Panic, Holds
  <2>. QED BY <1>18, <2>4, <2>5 DEF Panic
<1>19. ASSUME NEW t \in Threads, Abandon(t) PROVE Typed'
  <2>1. Handed(t, "abandoned") \in [Threads -> Thread]
    BY HandedType
  <2>2. Returned(Handed(t, "abandoned")[t], "panic") \in Thread
    BY <2>1, ReturnedType DEF Outs
  <2>3. ThreadType'
    BY <1>19, <1>a, <2>1, <2>2 DEF Abandon, ThreadType
  <2>4. FlightType'
    BY <1>0, <1>19, UnflightType DEF Abandon
  <2>. QED BY <1>19, <2>3, <2>4 DEF Abandon
<1>20. ASSUME NEW t \in Threads, Cancel(t) PROVE Typed'
  <2>1. [th[t] EXCEPT !.gone = TRUE] \in Thread
    BY <1>a DEF Thread
  <2>2. faults' \in 0 .. MaxFaults
    BY <1>20, <1>a DEF Cancel
  <2>3. ThreadType'
    BY <1>20, <1>a, <2>1, <2>2 DEF Cancel, ThreadType
  <2>. QED BY <1>20, <2>3 DEF Cancel
<1>14. ASSUME NEW t \in Threads, Learn(t) PROVE Typed'
  <2>. DEFINE old == fails[RunOf[t]]
              o == object[RunOf[t]][th[t].server]
              a == Addr(t)
  <2>1. RunOf[t] \in Runs /\ th[t].server \in Servers /\ a \in Addrs /\ th[t].q \in Questions
    BY <1>14, Placed DEF Learn
  <2>2. old \in FailSet /\ o \in ObjectSet
    BY <1>0, <2>1 DEF FailType, ObjectType
  <2>3. ThreadType'
    BY SMTT(40), <1>14, <1>d DEF Learn
  <2>4. PICK listed \in BOOLEAN : object' = [object EXCEPT ![RunOf[t]][th[t].server].listed = listed]
    <3>1. (\E z \in BOOLEAN : z = (o.listed \/
             (th[t].out \notin {"answer", "empty"} /\ ~th[t].gone /\ th[t].q \in PlainSOA)))
      OBVIOUS
    <3>. QED BY <1>14, <3>1 DEF Learn, Run
  <2>5. ObjectType'
    <3>1. [o EXCEPT !.listed = listed] \in ObjectSet
      BY <2>2 DEF ObjectSet
    <3>2. object' = [object EXCEPT ![RunOf[t]][th[t].server] = [o EXCEPT !.listed = listed]]
      BY <1>0, <2>1, <2>4 DEF ObjectType
    <3>. HIDE DEF o
    <3>. QED BY <1>0, <3>1, <3>2, PutObject
  <2>6. PICK errors \in SUBSET (Addrs \X Questions), blackout \in SUBSET Addrs,
             pending \in SUBSET Addrs :
          fails' = [fails EXCEPT ![RunOf[t]] =
                      [old EXCEPT !.errors = errors, !.blackout = blackout, !.pending = pending]]
    <3>. DEFINE failed == th[t].out \notin {"answer", "empty"} /\ ~th[t].gone
                probe == th[t].q \in Diagnostic
                cacheError == /\ failed /\ ~probe
                              /\ th[t].out = "timeout" => Object(t).blocked \/ Object(t).count >= 2
                hard == failed /\ ~probe /\ th[t].out = "hard"
                errors == IF cacheError THEN old.errors \cup {<<a, th[t].q>>} ELSE old.errors
                blackout == IF hard /\ a \in old.pending THEN old.blackout \cup {a} ELSE old.blackout
                pending == CASE hard -> IF a \in old.blackout THEN old.pending
                                        ELSE IF a \in old.pending THEN old.pending \ {a}
                                        ELSE old.pending \cup {a}
                             [] ~probe /\ th[t].out = "answer" -> old.pending \ {a}
                             [] OTHER -> old.pending
    <3>1. fails' = [fails EXCEPT ![RunOf[t]] =
                      [old EXCEPT !.errors = errors, !.blackout = blackout, !.pending = pending]]
      BY <1>14 DEF Learn, Run
    <3>. HIDE DEF cacheError, hard, probe
    <3>2. errors \in SUBSET (Addrs \X Questions) /\ blackout \in SUBSET Addrs
      BY <2>1, <2>2 DEF FailSet
    <3>3. pending \in SUBSET Addrs
      BY <2>1, <2>2 DEF FailSet
    <3>. HIDE DEF errors, blackout, pending
    <3>. QED BY <3>1, <3>2, <3>3
  <2>7. FailType'
    <3>1. [old EXCEPT !.errors = errors, !.blackout = blackout, !.pending = pending] \in FailSet
      BY <2>2 DEF FailSet
    <3>. QED BY <1>0, <2>6, <3>1 DEF FailType
  <2>. QED BY <1>14, <2>3, <2>5, <2>7 DEF Learn
<1>16. ASSUME NEW t \in Threads, Finish(t) PROVE Typed'
  <2>1. PICK x \in {"none", "answer", "error"} : th' = [Handed(t, x) EXCEPT ![t].pc = "release"]
    BY <1>16 DEF Finish
  <2>2. Handed(t, x) \in [Threads -> Thread]
    BY HandedType
  <2>3. [Handed(t, x)[t] EXCEPT !.pc = "release"] \in Thread
    BY <2>2 DEF Thread
  <2>4. ThreadType'
    BY <1>16, <1>a, <2>1, <2>2, <2>3 DEF Finish, ThreadType
  <2>5. FlightType'
    BY <1>0, <1>16, UnflightType DEF Finish
  <2>. QED BY <1>16, <2>4, <2>5 DEF Finish
<1>21. ASSUME NEW r \in Runs, NEW a \in Addrs, Expire(r, a) PROVE Typed'
  <2>1. fails[r] \in FailSet
    BY <1>0 DEF FailType
  <2>2. PICK f \in FailSet : fails' = [fails EXCEPT ![r] = f]
    <3>1. [fails[r] EXCEPT !.pending = @ \ {a}] \in FailSet
      BY <2>1 DEF FailSet
    <3>2. [fails[r] EXCEPT !.blackout = @ \ {a}] \in FailSet
      BY <2>1 DEF FailSet
    <3>3. \A q : [fails[r] EXCEPT !.errors = @ \ {<<a, q>>}] \in FailSet
      BY <2>1 DEF FailSet
    <3>4. CASE fails' = [fails EXCEPT ![r].pending = @ \ {a}]
      BY <3>1, <3>4
    <3>5. CASE fails' = [fails EXCEPT ![r].blackout = @ \ {a}]
      BY <3>2, <3>5
    <3>6. CASE \E q \in Questions : fails' = [fails EXCEPT ![r].errors = @ \ {<<a, q>>}]
      BY <3>3, <3>6
    <3>. QED BY <1>21, <3>4, <3>5, <3>6 DEF Expire
  <2>3. FailType'
    BY <1>0, <2>2 DEF FailType
  <2>. QED BY <1>21, <2>3 DEF Expire
<1>22. ASSUME UNCHANGED vars PROVE Typed'
  BY <1>22 DEF vars
<1>. HIDE DEF Typed
<1>. QED
  BY <1>1, <1>2, <1>3, <1>4, <1>5, <1>6, <1>7, <1>8, <1>9, <1>10, <1>11, <1>12, <1>13, <1>14,
     <1>15, <1>16, <1>17, <1>18, <1>19, <1>20, <1>21, <1>22 DEF Next, Step

-----------------------------------------------------------------------------
(* The concurrency cap.                                                    *)

\* No cap is exceeded, and who waits for room waits at a full one.
CapBound ==
    \A b \in Bases, a \in Addrs :
        /\ CapLimit > 0 => slots[b][a] <= CapLimit
        /\ \A t \in Threads : th[t].pc = "capwait" /\ Base(t) = b /\ Addr(t) = a
                                => CapLimit > 0 /\ slots[b][a] = CapLimit

CapInv == CapCounts /\ CapBound

\* Thread w is where it was, as far as a cap can tell.
SameHold(w) ==
    /\ Holds(w)' = Holds(w)
    /\ Holds(w) => Base(w)' = Base(w) /\ Addr(w)' = Addr(w)

\* Nobody takes or frees a slot, and nobody starts to wait for one.
LEMMA CapFrame ==
    ASSUME CapInv, UNCHANGED slots, \A w \in Threads : SameHold(w),
           \A w \in Threads : th'[w].pc = "capwait" =>
               th[w].pc = "capwait" /\ Base(w)' = Base(w) /\ Addr(w)' = Addr(w)
    PROVE  CapInv'
<1>1. \A b \in Bases, a \in Addrs : Holders(b, a)' = Holders(b, a)
  BY DEF Holders, SameHold
<1>2. CapCounts'
  BY <1>1 DEF CapInv, CapCounts
<1>3. CapBound'
  BY DEF CapInv, CapBound
<1>. QED BY <1>2, <1>3 DEF CapInv

\* A step of one thread outside of the cap.
LEMMA CapOwn ==
    ASSUME CapInv, UNCHANGED <<slots, base>>, NEW t \in Threads,
           \A w \in Threads \ {t} : th'[w].pc = th[w].pc /\ th'[w].server = th[w].server,
           Holds(t)' = Holds(t), th'[t].pc # "capwait",
           Holds(t) => th'[t].server = th[t].server
    PROVE  CapInv'
<1>1. \A w \in Threads : SameHold(w)
  BY DEF SameHold, Holds, Base, Addr
<1>2. \A w \in Threads : th'[w].pc = "capwait" =>
               th[w].pc = "capwait" /\ Base(w)' = Base(w) /\ Addr(w)' = Addr(w)
  BY DEF Base, Addr
<1>. QED BY <1>1, <1>2, CapFrame

\* A slot is taken by a thread that held none.
LEMMA CapTake ==
    ASSUME QueryTypeOK, LeaseInv, CapInv, NEW t \in Threads, Acquire(t)
    PROVE  CapInv'
<1>0. /\ th[t].pc = "acquire" /\ UNCHANGED base
      /\ Base(t) \in Bases /\ Addr(t) \in Addrs
  BY Placed DEF Acquire, leases
<1>1. slots[Base(t)][Addr(t)] \in Nat /\ CapLimit \in Nat
  BY <1>0, QueryAssumption DEF QueryTypeOK
<1>2. CASE CapLimit = 0 \/ slots[Base(t)][Addr(t)] < CapLimit
  <2>1. /\ th' = [th EXCEPT ![t].pc = "network"]
        /\ slots' = [slots EXCEPT ![Base(t)][Addr(t)] = @ + 1]
    BY <1>2 DEF Acquire, Goto
  <2>2. /\ \A w \in Threads \ {t} : th'[w] = th[w]
        /\ th'[t].pc = "network" /\ th'[t].server = th[t].server
    BY <2>1 DEF QueryTypeOK, Thread
  <2>3. \A w \in Threads : Base(w)' = Base(w) /\ Addr(w)' = Addr(w)
    BY <1>0, <2>2 DEF Base, Addr
  <2>4. ~Holds(t) /\ Holds(t)' /\ \A w \in Threads \ {t} : Holds(w)' = Holds(w)
    BY <1>0, <2>2 DEF Holds
  <2>5. \A b \in Bases, a \in Addrs :
          slots'[b][a] = IF b = Base(t) /\ a = Addr(t) THEN slots[b][a] + 1 ELSE slots[b][a]
    BY <1>0, <2>1 DEF QueryTypeOK
  <2>6. ASSUME NEW b \in Bases, NEW a \in Addrs
        PROVE  IsFiniteSet(Holders(b, a)') /\ slots'[b][a] = Cardinality(Holders(b, a)')
    <3>1. IsFiniteSet(Holders(b, a)) /\ slots[b][a] = Cardinality(Holders(b, a))
      BY DEF CapInv, CapCounts
    <3>2. CASE b = Base(t) /\ a = Addr(t)
      <4>1. Holders(b, a)' = Holders(b, a) \cup {t} /\ t \notin Holders(b, a)
        BY <2>3, <2>4, <3>2 DEF Holders
      <4>2. IsFiniteSet(Holders(b, a) \cup {t})
            /\ Cardinality(Holders(b, a) \cup {t}) = Cardinality(Holders(b, a)) + 1
        BY <3>1, <4>1, FS_AddElement
      <4>. QED BY <2>5, <3>1, <3>2, <4>1, <4>2
    <3>3. CASE ~(b = Base(t) /\ a = Addr(t))
      <4>1. Holders(b, a)' = Holders(b, a)
        BY <2>3, <2>4, <3>3 DEF Holders
      <4>. QED BY <2>5, <3>1, <3>3, <4>1
    <3>. QED BY <3>2, <3>3
  <2>7. CapCounts'
    BY <2>6 DEF CapCounts
  <2>8. CapBound'
    <3>. SUFFICES ASSUME NEW b \in Bases, NEW a \in Addrs
                  PROVE  /\ CapLimit > 0 => slots'[b][a] <= CapLimit
                         /\ \A w \in Threads : th'[w].pc = "capwait" /\ Base(w)' = b /\ Addr(w)' = a
                                => CapLimit > 0 /\ slots'[b][a] = CapLimit
      BY DEF CapBound
    <3>1. /\ CapLimit > 0 => slots[b][a] <= CapLimit
          /\ \A w \in Threads : th[w].pc = "capwait" /\ Base(w) = b /\ Addr(w) = a
                                => CapLimit > 0 /\ slots[b][a] = CapLimit
      BY DEF CapInv, CapBound
    <3>2. \A w \in Threads : th'[w].pc = "capwait" => th[w].pc = "capwait"
      BY <2>2
    <3>. QED BY <1>1, <1>2, <2>3, <2>5, <3>1, <3>2
  <2>. QED BY <2>7, <2>8 DEF CapInv
<1>3. CASE ~(CapLimit = 0 \/ slots[Base(t)][Addr(t)] < CapLimit)
  <2>1. th' = [th EXCEPT ![t].pc = "capwait"] /\ UNCHANGED slots
    BY <1>3 DEF Acquire, Goto
  <2>2. /\ \A w \in Threads \ {t} : th'[w] = th[w]
        /\ th'[t].pc = "capwait" /\ th'[t].server = th[t].server
    BY <2>1 DEF QueryTypeOK, Thread
  <2>3. \A w \in Threads : Base(w)' = Base(w) /\ Addr(w)' = Addr(w) /\ Holds(w)' = Holds(w)
    BY <1>0, <2>2 DEF Base, Addr, Holds
  <2>4. \A b \in Bases, a \in Addrs : Holders(b, a)' = Holders(b, a)
    BY <2>3 DEF Holders
  <2>5. CapCounts'
    BY <2>1, <2>4 DEF CapInv, CapCounts
  <2>6. slots[Base(t)][Addr(t)] = CapLimit
    BY <1>0, <1>1, <1>3 DEF CapInv, CapBound
  <2>7. CapBound'
    BY <1>1, <1>3, <2>1, <2>2, <2>3, <2>6 DEF CapInv, CapBound
  <2>. QED BY <2>5, <2>7 DEF CapInv
<1>. QED BY <1>2, <1>3

\* A slot is freed by a thread that held one, and all who wait for it wake.
LEMMA CapFree ==
    ASSUME QueryTypeOK, LeaseInv, CapInv, NEW t \in Threads, Holds(t), FreeSlot(t), UNCHANGED base,
           \A w \in Threads \ {t} : th'[w] = Woken(t)[w],
           ~Holds(t)', th'[t].pc # "capwait"
    PROVE  CapInv'
<1>0. Base(t) \in Bases /\ Addr(t) \in Addrs /\ slots[Base(t)][Addr(t)] \in Nat \ {0}
  BY Placed, HolderCounted DEF Holds, CapInv
<1>1. \A w \in Threads \ {t} :
        /\ th'[w].server = th[w].server
        /\ th'[w].pc = th[w].pc \/ (th[w].pc = "capwait" /\ th'[w].pc = "acquire")
        /\ th'[w].pc = "capwait" => ~(Base(w) = Base(t) /\ Addr(w) = Addr(t))
  BY DEF Woken, QueryTypeOK, Thread
<1>2. \A w \in Threads \ {t} : Base(w)' = Base(w) /\ Addr(w)' = Addr(w) /\ Holds(w)' = Holds(w)
  BY <1>1 DEF Base, Addr, Holds
<1>3. \A b \in Bases, a \in Addrs :
        slots'[b][a] = IF b = Base(t) /\ a = Addr(t) THEN slots[b][a] - 1 ELSE slots[b][a]
  BY <1>0 DEF FreeSlot, QueryTypeOK
<1>4. ASSUME NEW b \in Bases, NEW a \in Addrs
      PROVE  IsFiniteSet(Holders(b, a)') /\ slots'[b][a] = Cardinality(Holders(b, a)')
  <2>1. IsFiniteSet(Holders(b, a)) /\ slots[b][a] = Cardinality(Holders(b, a))
    BY DEF CapInv, CapCounts
  <2>2. CASE b = Base(t) /\ a = Addr(t)
    <3>1. Holders(b, a)' = Holders(b, a) \ {t} /\ t \in Holders(b, a)
      BY <1>2, <2>2 DEF Holders
    <3>2. IsFiniteSet(Holders(b, a) \ {t})
          /\ Cardinality(Holders(b, a) \ {t}) = Cardinality(Holders(b, a)) - 1
      BY <2>1, <3>1, FS_RemoveElement
    <3>. QED BY <1>3, <2>1, <2>2, <3>1, <3>2
  <2>3. CASE ~(b = Base(t) /\ a = Addr(t))
    <3>1. Holders(b, a)' = Holders(b, a)
      BY <1>2, <2>3 DEF Holders
    <3>. QED BY <1>3, <2>1, <2>3, <3>1
  <2>. QED BY <2>2, <2>3
<1>5. CapCounts'
  BY <1>4 DEF CapCounts
<1>6. CapBound'
  <2>. SUFFICES ASSUME NEW b \in Bases, NEW a \in Addrs
                PROVE  /\ CapLimit > 0 => slots'[b][a] <= CapLimit
                       /\ \A w \in Threads : th'[w].pc = "capwait" /\ Base(w)' = b /\ Addr(w)' = a
                              => CapLimit > 0 /\ slots'[b][a] = CapLimit
    BY DEF CapBound
  <2>1. /\ CapLimit > 0 => slots[b][a] <= CapLimit
        /\ \A w \in Threads : th[w].pc = "capwait" /\ Base(w) = b /\ Addr(w) = a
                              => CapLimit > 0 /\ slots[b][a] = CapLimit
    BY DEF CapInv, CapBound
  <2>2. slots[b][a] \in Nat /\ CapLimit \in Nat
    BY QueryAssumption DEF QueryTypeOK
  <2>. QED BY <1>1, <1>2, <1>3, <2>1, <2>2
<1>. QED BY <1>5, <1>6 DEF CapInv

\* What a step of one thread does to the threads.
LEMMA ReturnMoves ==
    ASSUME th \in [Threads -> Thread], NEW t \in Threads, NEW out, Return(t, out)
    PROVE  /\ th'[t].pc = "idle" /\ th'[t].got = None /\ th'[t].leader = None
           /\ \A w \in Threads \ {t} : th'[w] = th[w]
  BY DEF Return, Returned, Thread

LEMMA GotoMoves ==
    ASSUME th \in [Threads -> Thread], NEW t \in Threads, NEW x, Goto(t, x)
    PROVE  /\ th'[t] = [th[t] EXCEPT !.pc = x] /\ th'[t].pc = x
           /\ th'[t].server = th[t].server /\ th'[t].q = th[t].q
           /\ th'[t].got = th[t].got /\ th'[t].leader = th[t].leader
           /\ th'[t].out = th[t].out /\ th'[t].gone = th[t].gone
           /\ \A w \in Threads \ {t} : th'[w] = th[w]
  BY DEF Goto, Thread

\* Every step keeps the cap.
LEMMA CapStep ==
    ASSUME QueryTypeOK, LeaseInv, CapInv, [Next]_vars
    PROVE  CapInv'
<1>a. th \in [Threads -> Thread]
  BY DEF QueryTypeOK
<1>. USE DEF leases, shared
<1>1. ASSUME NEW r \in Runs, NEW dead \in SUBSET HotKeys, Lease(r, dead) PROVE CapInv'
  <2>1. UNCHANGED <<slots, th>> /\ life[r] = "new" /\ \A s \in Runs \ {r} : base'[s] = base[s]
    BY <1>1 DEF Lease, QueryTypeOK
  <2>2. \A w \in Threads : th[w].pc # "idle" => RunOf[w] \in Runs \ {r}
    BY <2>1, QueryAssumption DEF LeaseInv
  <2>3. \A w \in Threads : th[w].pc # "idle" => Base(w)' = Base(w) /\ Addr(w)' = Addr(w)
    BY <2>1, <2>2 DEF Base, Addr
  <2>4. \A w \in Threads : SameHold(w)
    BY <2>1, <2>3 DEF SameHold, Holds
  <2>. QED BY <2>1, <2>3, <2>4, CapFrame
<1>2. ASSUME NEW r \in Runs, NEW dead \in SUBSET HotKeys, NEW stale \in SUBSET Addrs,
             EndLease(r, dead, stale)
      PROVE  CapInv'
  <2>1. UNCHANGED <<slots, th, base>>
    BY <1>2 DEF EndLease
  <2>. QED BY <2>1, CapFrame DEF SameHold, Holds, Base, Addr
<1>3. ASSUME NEW t \in Threads, Begin(t) PROVE CapInv'
  <2>1. /\ UNCHANGED <<slots, base>> /\ th[t].pc = "idle" /\ th'[t].pc \in {"idle", "lookup"}
        /\ \A w \in Threads \ {t} : th'[w] = th[w]
    BY <1>3, <1>a DEF Begin, Thread
  <2>. QED BY <2>1, CapOwn DEF Holds
<1>4. ASSUME NEW t \in Threads, Lookup(t) PROVE CapInv'
  <2>1. /\ UNCHANGED <<slots, base>> /\ th[t].pc = "lookup" /\ th'[t].pc \in {"idle", "check"}
        /\ \A w \in Threads \ {t} : th'[w] = th[w]
    BY <1>4, <1>a, ReturnMoves, GotoMoves DEF Lookup
  <2>. QED BY <2>1, CapOwn DEF Holds
<1>5. ASSUME NEW t \in Threads, Check(t) PROVE CapInv'
  <2>1. /\ UNCHANGED <<slots, base>> /\ th[t].pc = "check" /\ th'[t].pc \in {"mark", "join"}
        /\ \A w \in Threads \ {t} : th'[w] = th[w]
    BY <1>5, <1>a DEF Check, Goto, Thread
  <2>. QED BY <2>1, CapOwn DEF Holds
<1>6. ASSUME NEW t \in Threads, Mark(t) PROVE CapInv'
  <2>1. /\ UNCHANGED <<slots, base>> /\ th[t].pc = "mark" /\ th'[t].pc = "idle"
        /\ \A w \in Threads \ {t} : th'[w] = th[w]
    BY <1>6, <1>a DEF Mark, Return, Returned, Thread
  <2>. QED BY <2>1, CapOwn DEF Holds
<1>7. ASSUME NEW t \in Threads, Join(t) PROVE CapInv'
  <2>1. /\ UNCHANGED <<slots, base>> /\ th[t].pc = "join" /\ th'[t].pc \in {"acquire", "wait"}
        /\ \A w \in Threads \ {t} : th'[w] = th[w]
    BY <1>7, <1>a DEF Join, Goto, Thread
  <2>. QED BY <2>1, CapOwn DEF Holds
<1>8. ASSUME NEW t \in Threads, Wait(t) \/ WaitCanceled(t) PROVE CapInv'
  <2>1. /\ UNCHANGED <<slots, base>> /\ th[t].pc = "wait" /\ th'[t].pc \in {"idle", "join"}
        /\ \A w \in Threads \ {t} : th'[w] = th[w]
    <3>1. CASE Return(t, th[t].got) \/ Return(t, "cancel")
      BY <1>8, <1>a, <3>1, ReturnMoves DEF Wait, WaitCanceled
    <3>2. CASE th' = [th EXCEPT ![t].pc = "join", ![t].leader = None, ![t].got = None]
      BY <1>8, <1>a, <3>2 DEF Wait, WaitCanceled, Thread
    <3>. QED BY <1>8, <3>1, <3>2 DEF Wait, WaitCanceled
  <2>. QED BY <2>1, CapOwn DEF Holds
<1>9. ASSUME NEW t \in Threads, Acquire(t) PROVE CapInv'
  BY <1>9, CapTake
<1>b. ASSUME NEW t \in Threads, NEW x PROVE
        \A w \in Threads : Handed(t, x)[w].pc = th[w].pc /\ Handed(t, x)[w].server = th[w].server
  BY <1>a DEF Handed, Thread
<1>10. ASSUME NEW t \in Threads, CapCanceled(t) PROVE CapInv'
  <2>1. /\ UNCHANGED <<slots, base>> /\ th[t].pc = "capwait" /\ th'[t].pc = "idle"
        /\ \A w \in Threads \ {t} : th'[w] = Handed(t, "error")[w]
    BY <1>10, <1>a DEF CapCanceled, Handed, Returned, Thread
  <2>. QED BY <1>b, <2>1, CapOwn DEF Holds
<1>11. ASSUME NEW t \in Threads, NEW result, NEW over, Network(t, result, over) PROVE CapInv'
  <2>1. /\ UNCHANGED <<slots, base>> /\ th[t].pc = "network" /\ th'[t].pc = "observe"
        /\ th'[t].server = th[t].server /\ \A w \in Threads \ {t} : th'[w] = th[w]
    BY <1>11, <1>a DEF Network, Thread
  <2>. QED BY <2>1, CapOwn DEF Holds
<1>12. ASSUME NEW t \in Threads, Observe(t) \/ Learn(t) \/ Store(t) PROVE CapInv'
  <2>1. /\ UNCHANGED <<slots, base>>
        /\ th[t].pc \in {"observe", "learn", "store"} /\ th'[t].pc \in {"learn", "store", "finish"}
        /\ th'[t].server = th[t].server /\ \A w \in Threads \ {t} : th'[w] = th[w]
    BY <1>12, <1>a DEF Observe, Learn, Store, Goto, Thread
  <2>. QED BY <2>1, CapOwn DEF Holds
<1>13. ASSUME NEW t \in Threads, Finish(t) PROVE CapInv'
  <2>1. PICK x : th' = [Handed(t, x) EXCEPT ![t].pc = "release"]
    BY <1>13 DEF Finish
  <2>2. /\ UNCHANGED <<slots, base>> /\ th[t].pc = "finish" /\ th'[t].pc = "release"
        /\ th'[t].server = Handed(t, x)[t].server
        /\ \A w \in Threads \ {t} : th'[w] = Handed(t, x)[w]
    <3>1. Handed(t, x)[t] = th[t] \/ Handed(t, x)[t] = [th[t] EXCEPT !.got = x]
      BY DEF Handed
    <3>2. DOMAIN Handed(t, x) = Threads
      BY DEF Handed
    <3>. QED BY <1>13, <1>a, <2>1, <3>1, <3>2 DEF Finish, Thread
  <2>. QED BY <1>b, <2>2, CapOwn DEF Holds
<1>14. ASSUME NEW t \in Threads, Release(t) PROVE CapInv'
  <2>1. /\ FreeSlot(t) /\ UNCHANGED base /\ th[t].pc = "release" /\ th'[t].pc = "idle"
        /\ \A w \in Threads \ {t} : th'[w] = Woken(t)[w]
    BY <1>14, <1>a DEF Release, Woken, Returned, Thread
  <2>. QED BY <2>1, CapFree DEF Holds
<1>15. ASSUME NEW t \in Threads, Panic(t) PROVE CapInv'
  <2>1. /\ FreeSlot(t) /\ UNCHANGED base /\ Holds(t) /\ th'[t].pc = "unwind"
        /\ \A w \in Threads \ {t} : th'[w] = Woken(t)[w]
    BY <1>15, <1>a DEF Panic, Woken, Thread, Holds
  <2>. QED BY <2>1, CapFree DEF Holds
<1>16. ASSUME NEW t \in Threads, Abandon(t) PROVE CapInv'
  <2>1. /\ UNCHANGED <<slots, base>> /\ th[t].pc = "unwind" /\ th'[t].pc = "idle"
        /\ \A w \in Threads \ {t} : th'[w] = Handed(t, "abandoned")[w]
    BY <1>16, <1>a DEF Abandon, Handed, Returned, Thread
  <2>. QED BY <1>b, <2>1, CapOwn DEF Holds
<1>17. ASSUME NEW t \in Threads, Cancel(t) PROVE CapInv'
  <2>1. /\ UNCHANGED <<slots, base>>
        /\ \A w \in Threads : th'[w].pc = th[w].pc /\ th'[w].server = th[w].server
    BY <1>17, <1>a DEF Cancel, Thread
  <2>. QED BY <2>1, CapFrame DEF SameHold, Holds, Base, Addr
<1>18. ASSUME UNCHANGED <<slots, base, th>> PROVE CapInv'
  BY <1>18, CapFrame DEF SameHold, Holds, Base, Addr
<1>19. ASSUME NEW r \in Runs, NEW a \in Addrs, Expire(r, a) PROVE CapInv'
  BY <1>18, <1>19 DEF Expire
<1>20. ASSUME UNCHANGED vars PROVE CapInv'
  BY <1>18, <1>20 DEF vars
<1>. QED
  BY <1>1, <1>2, <1>3, <1>4, <1>5, <1>6, <1>7, <1>8, <1>9, <1>10, <1>11, <1>12, <1>13, <1>14,
     <1>15, <1>16, <1>17, <1>19, <1>20 DEF Next, Step

LEMMA CapInit == Init => CapInv
<1>1. CapLimit \in Nat
  BY QueryAssumption
<1>. QED BY <1>1, LeaseInit DEF Init, CapInv, CapBound

QueryInv == QueryTypeOK /\ LeaseInv /\ CapInv

LEMMA QueryInvariant == Spec => []QueryInv
<1>1. Init => QueryInv
  BY QueryTypeInit, LeaseInit, CapInit DEF QueryInv
<1>2. QueryInv /\ [Next]_vars => QueryInv'
  BY QueryTypeStep, LeaseStep, CapStep DEF QueryInv, CapInv
<1>. QED BY <1>1, <1>2, PTL DEF Spec

\* Types of the hot cache, the caches, the failure state and the threads.
THEOREM QueryTypeCorrect == Spec => []QueryTypeOK
<1>1. QueryInv => QueryTypeOK
  BY DEF QueryInv
<1>. QED BY <1>1, QueryInvariant, PTL

\* The cap of an address counts exactly the queries that are out over all
\* runs that share it, is never exceeded, and nobody waits while there is
\* room: no panic, cancellation or eviction loses a slot or a wakeup.
THEOREM CapIsExact == Spec => []CapExact
<1>1. QueryInv => CapExact
  BY DEF QueryInv, CapInv, CapCounts, CapBound, CapExact, Holders
<1>. QED BY <1>1, QueryInvariant, PTL

-----------------------------------------------------------------------------
(* One leader for a question.                                              *)

Waits(t) == th[t].pc = "wait" /\ th[t].got = None

\* A leader is registered, only a leader is, and where it leads; who waits
\* has not been handed a result, and its leader is there.
FlightInv ==
    /\ \A t \in Threads : Leads(t) => flight[Base(t)][Addr(t)][th[t].q] = t
    /\ \A b \in Bases, a \in Addrs, q \in Questions : \A t \in Threads :
         flight[b][a][q] = t => Leads(t) /\ Base(t) = b /\ Addr(t) = a /\ th[t].q = q
    /\ \A t \in Threads : Waits(t) =>
         /\ th[t].leader \in Threads /\ Leads(th[t].leader)
         /\ flight[Base(t)][Addr(t)][th[t].q] = th[t].leader

SamePlace(w) == Base(w)' = Base(w) /\ Addr(w)' = Addr(w) /\ th'[w].q = th[w].q

\* Nobody takes or leaves the lead, and nobody starts to wait.
LEMMA FlightFrame ==
    ASSUME FlightInv, UNCHANGED flight,
           \A w \in Threads : Leads(w)' = Leads(w),
           \A w \in Threads : Leads(w) => SamePlace(w),
           \A w \in Threads : Waits(w)' => Waits(w) /\ SamePlace(w) /\ th'[w].leader = th[w].leader
    PROVE  FlightInv'
<1>1. (\A t \in Threads : Leads(t) => flight[Base(t)][Addr(t)][th[t].q] = t)'
  BY DEF FlightInv, SamePlace
<1>2. (\A b \in Bases, a \in Addrs, q \in Questions : \A t \in Threads :
         flight[b][a][q] = t => Leads(t) /\ Base(t) = b /\ Addr(t) = a /\ th[t].q = q)'
  BY DEF FlightInv, SamePlace
<1>3. (\A t \in Threads : Waits(t) =>
         /\ th[t].leader \in Threads /\ Leads(th[t].leader)
         /\ flight[Base(t)][Addr(t)][th[t].q] = th[t].leader)'
  BY DEF FlightInv, SamePlace
<1>. QED BY <1>1, <1>2, <1>3 DEF FlightInv

\* Thread w is left alone or woken.
Alike(w) ==
    /\ th'[w].pc = th[w].pc \/ (th[w].pc = "capwait" /\ th'[w].pc = "acquire")
    /\ th'[w].server = th[w].server /\ th'[w].q = th[w].q
    /\ th'[w].got = th[w].got /\ th'[w].leader = th[w].leader

\* A step of one thread that leaves the lead to who has it.
LEMMA FlightOwn ==
    ASSUME FlightInv, UNCHANGED <<flight, base>>, NEW t \in Threads,
           \A w \in Threads \ {t} : Alike(w),
           Leads(t)' = Leads(t), th'[t].pc # "wait",
           Leads(t) => th'[t].server = th[t].server /\ th'[t].q = th[t].q
    PROVE  FlightInv'
<1>1. \A w \in Threads \ {t} : SamePlace(w) /\ Leads(w)' = Leads(w) /\ (Waits(w)' => Waits(w))
  BY DEF Alike, SamePlace, Base, Addr, Leads, Waits
<1>2. Leads(t) => SamePlace(t)
  BY DEF SamePlace, Base, Addr
<1>3. ~Waits(t)'
  BY DEF Waits
<1>4. \A w \in Threads : /\ Leads(w)' = Leads(w) /\ (Leads(w) => SamePlace(w))
                         /\ Waits(w)' => Waits(w) /\ SamePlace(w) /\ th'[w].leader = th[w].leader
  BY <1>1, <1>2, <1>3 DEF Alike
<1>. QED BY <1>4, FlightFrame

\* A leader ends: it lets its waiters go.
LEMMA FlightLand ==
    ASSUME QueryTypeOK, LeaseInv, FlightInv, NEW t \in Threads, Leads(t), Unflight(t),
           UNCHANGED base, NEW x \in {"none", "answer", "error", "abandoned"},
           \A w \in Threads \ {t} : th'[w] = Handed(t, x)[w],
           ~Leads(t)', th'[t].pc # "wait"
    PROVE  FlightInv'
<1>0. /\ Base(t) \in Bases /\ Addr(t) \in Addrs /\ th[t].q \in Questions
      /\ flight[Base(t)][Addr(t)][th[t].q] = t
      /\ th \in [Threads -> Thread] /\ x # None /\ None \notin Threads
  <2>1. th[t].pc # "idle"
    BY DEF Leads
  <2>. QED BY <2>1, Placed, QueryAssumption DEF FlightInv, QueryTypeOK
<1>1. \A w \in Threads \ {t} :
        /\ SamePlace(w) /\ Leads(w)' = Leads(w) /\ th'[w].leader = th[w].leader
        /\ Waits(w)' => Waits(w) /\ th[w].leader # t
  <2>1. \A w \in Threads \ {t} :
          /\ th'[w].pc = th[w].pc /\ th'[w].server = th[w].server /\ th'[w].q = th[w].q
          /\ th'[w].leader = th[w].leader
          /\ Waits(w)' => Waits(w) /\ th[w].leader # t
    <3>. SUFFICES ASSUME NEW w \in Threads \ {t}
                  PROVE  /\ th'[w].pc = th[w].pc /\ th'[w].server = th[w].server
                         /\ th'[w].q = th[w].q /\ th'[w].leader = th[w].leader
                         /\ Waits(w)' => Waits(w) /\ th[w].leader # t
      OBVIOUS
    <3>1. CASE th[w].pc = "wait" /\ th[w].leader = t /\ th[w].got = None
      <4>1. th'[w] = [th[w] EXCEPT !.got = x]
        BY <3>1 DEF Handed
      <4>. QED BY <1>0, <3>1, <4>1 DEF Waits, Thread
    <3>2. CASE ~(th[w].pc = "wait" /\ th[w].leader = t /\ th[w].got = None)
      <4>1. th'[w] = th[w]
        BY <3>2 DEF Handed
      <4>. QED BY <3>2, <4>1 DEF Waits
    <3>. QED BY <3>1, <3>2
  <2>. QED BY <2>1 DEF SamePlace, Base, Addr, Leads
<1>2. \A b \in Bases, a \in Addrs, q \in Questions :
        flight'[b][a][q] = IF b = Base(t) /\ a = Addr(t) /\ q = th[t].q THEN None
                           ELSE flight[b][a][q]
  BY <1>0 DEF Unflight, QueryTypeOK
<1>3. ~Waits(t)'
  BY DEF Waits
<1>4. \A w \in Threads : Leads(w) \/ Waits(w) =>
        Base(w) \in Bases /\ Addr(w) \in Addrs /\ th[w].q \in Questions
  <2>1. \A w \in Threads : Leads(w) \/ Waits(w) => th[w].pc # "idle"
    BY DEF Leads, Waits
  <2>. QED BY <2>1, Placed
<1>5. (\A w \in Threads : Leads(w) => flight[Base(w)][Addr(w)][th[w].q] = w)'
  BY <1>0, <1>1, <1>2, <1>4 DEF FlightInv, SamePlace
<1>6. (\A b \in Bases, a \in Addrs, q \in Questions : \A w \in Threads :
         flight[b][a][q] = w => Leads(w) /\ Base(w) = b /\ Addr(w) = a /\ th[w].q = q)'
  BY <1>0, <1>1, <1>2 DEF FlightInv, SamePlace
<1>7. (\A w \in Threads : Waits(w) =>
         /\ th[w].leader \in Threads /\ Leads(th[w].leader)
         /\ flight[Base(w)][Addr(w)][th[w].q] = th[w].leader)'
  BY <1>0, <1>1, <1>2, <1>3, <1>4 DEF FlightInv, SamePlace
<1>. QED BY <1>5, <1>6, <1>7 DEF FlightInv

\* The first to ask leads, the others wait for it.
LEMMA FlightJoin ==
    ASSUME QueryTypeOK, LeaseInv, FlightInv, NEW t \in Threads, Join(t)
    PROVE  FlightInv'
<1>. DEFINE leader == flight[Base(t)][Addr(t)][th[t].q]
<1>0. /\ Base(t) \in Bases /\ Addr(t) \in Addrs /\ th[t].q \in Questions
      /\ th \in [Threads -> Thread] /\ None \notin Threads /\ UNCHANGED base
      /\ th[t].pc = "join" /\ leader \in Threads \cup {None}
  <2>1. th[t].pc = "join" /\ UNCHANGED base
    BY DEF Join, leases
  <2>2. Base(t) \in Bases /\ Addr(t) \in Addrs /\ th[t].q \in Questions
    BY <2>1, Placed
  <2>3. leader \in Threads \cup {None} /\ th \in [Threads -> Thread]
    BY <2>2 DEF QueryTypeOK
  <2>4. None \notin Threads
    BY QueryAssumption
  <2>. QED BY <2>1, <2>2, <2>3, <2>4
<1>1. ~Leads(t) /\ ~Waits(t)
  BY <1>0 DEF Leads, Waits
<1>2. \A w \in Threads : Leads(w) \/ Waits(w) =>
        Base(w) \in Bases /\ Addr(w) \in Addrs /\ th[w].q \in Questions
  <2>1. \A w \in Threads : Leads(w) \/ Waits(w) => th[w].pc # "idle"
    BY DEF Leads, Waits
  <2>. QED BY <2>1, Placed
<1>. HIDE DEF leader
<1>3. CASE leader = None
  <2>1. /\ flight' = [flight EXCEPT ![Base(t)][Addr(t)][th[t].q] = t]
        /\ th'[t].pc = "acquire" /\ th'[t].server = th[t].server /\ th'[t].q = th[t].q
        /\ \A w \in Threads \ {t} : th'[w] = th[w]
    BY <1>0, <1>3, GotoMoves DEF Join, leader
  <2>2. /\ \A w \in Threads : SamePlace(w)
        /\ \A w \in Threads \ {t} : Leads(w)' = Leads(w) /\ Waits(w)' = Waits(w)
        /\ Leads(t)' /\ ~Waits(t)'
    BY <1>0, <2>1 DEF SamePlace, Base, Addr, Leads, Waits
  <2>3. \A b \in Bases, a \in Addrs, q \in Questions :
          flight'[b][a][q] = IF b = Base(t) /\ a = Addr(t) /\ q = th[t].q THEN t
                             ELSE flight[b][a][q]
    BY <1>0, <2>1 DEF QueryTypeOK
  <2>4. flight[Base(t)][Addr(t)][th[t].q] = None
    BY <1>3 DEF leader
  <2>5. (\A w \in Threads : Leads(w) => flight[Base(w)][Addr(w)][th[w].q] = w)'
    BY <1>0, <1>2, <2>2, <2>3, <2>4 DEF FlightInv, SamePlace
  <2>6. (\A b \in Bases, a \in Addrs, q \in Questions : \A w \in Threads :
           flight[b][a][q] = w => Leads(w) /\ Base(w) = b /\ Addr(w) = a /\ th[w].q = q)'
    BY <1>0, <1>1, <2>2, <2>3, <2>4 DEF FlightInv, SamePlace
  <2>7. (\A w \in Threads : Waits(w) =>
           /\ th[w].leader \in Threads /\ Leads(th[w].leader)
           /\ flight[Base(w)][Addr(w)][th[w].q] = th[w].leader)'
    BY <1>0, <1>2, <2>1, <2>2, <2>3, <2>4 DEF FlightInv, SamePlace
  <2>. QED BY <2>5, <2>6, <2>7 DEF FlightInv
<1>4. CASE leader # None
  <2>1. /\ UNCHANGED flight
        /\ th'[t].pc = "wait" /\ th'[t].leader = leader
        /\ th'[t].server = th[t].server /\ th'[t].q = th[t].q
        /\ \A w \in Threads \ {t} : th'[w] = th[w]
    BY <1>0, <1>4 DEF Join, leader, Thread
  <2>2. /\ \A w \in Threads : SamePlace(w) /\ Leads(w)' = Leads(w)
        /\ \A w \in Threads \ {t} : Waits(w)' = Waits(w)
    BY <1>0, <2>1 DEF SamePlace, Base, Addr, Leads, Waits
  <2>3. leader \in Threads /\ Leads(leader) /\ flight[Base(t)][Addr(t)][th[t].q] = leader
    BY <1>0, <1>4 DEF FlightInv, leader
  <2>5. (\A w \in Threads : Leads(w) => flight[Base(w)][Addr(w)][th[w].q] = w)'
    BY <2>1, <2>2 DEF FlightInv, SamePlace
  <2>6. (\A b \in Bases, a \in Addrs, q \in Questions : \A w \in Threads :
           flight[b][a][q] = w => Leads(w) /\ Base(w) = b /\ Addr(w) = a /\ th[w].q = q)'
    BY <2>1, <2>2 DEF FlightInv, SamePlace
  <2>7. (\A w \in Threads : Waits(w) =>
           /\ th[w].leader \in Threads /\ Leads(th[w].leader)
           /\ flight[Base(w)][Addr(w)][th[w].q] = th[w].leader)'
    BY <2>1, <2>2, <2>3 DEF FlightInv, SamePlace
  <2>. QED BY <2>5, <2>6, <2>7 DEF FlightInv
<1>. QED BY <1>3, <1>4

\* Every step keeps one leader per question.
LEMMA FlightStep ==
    ASSUME QueryTypeOK, LeaseInv, FlightInv, [Next]_vars
    PROVE  FlightInv'
<1>a. th \in [Threads -> Thread]
  BY DEF QueryTypeOK
<1>. USE DEF leases, shared
<1>c. \A w : th'[w] = th[w] => Alike(w)
  BY DEF Alike
<1>1. ASSUME NEW r \in Runs, NEW dead \in SUBSET HotKeys, Lease(r, dead) PROVE FlightInv'
  <2>1. UNCHANGED <<flight, th>> /\ life[r] = "new" /\ \A s \in Runs \ {r} : base'[s] = base[s]
    BY <1>1 DEF Lease, QueryTypeOK
  <2>2. \A w \in Threads : th[w].pc # "idle" => RunOf[w] \in Runs \ {r}
    BY <2>1, QueryAssumption DEF LeaseInv
  <2>3. \A w \in Threads : th[w].pc # "idle" => SamePlace(w)
    BY <2>1, <2>2 DEF SamePlace, Base, Addr
  <2>4. \A w \in Threads : Leads(w)' = Leads(w) /\ Waits(w)' = Waits(w)
    BY <2>1 DEF Leads, Waits
  <2>5. \A w \in Threads : Leads(w) \/ Waits(w) => SamePlace(w)
    BY <2>3 DEF Leads, Waits
  <2>. QED BY <2>1, <2>4, <2>5, FlightFrame
<1>18. ASSUME UNCHANGED <<flight, base, th>> PROVE FlightInv'
  <2>1. \A w \in Threads : Leads(w)' = Leads(w) /\ Waits(w)' = Waits(w) /\ SamePlace(w)
    BY <1>18 DEF Leads, Waits, SamePlace, Base, Addr
  <2>. QED BY <1>18, <2>1, FlightFrame
<1>2. ASSUME NEW r \in Runs, NEW dead \in SUBSET HotKeys, NEW stale \in SUBSET Addrs,
             EndLease(r, dead, stale)
      PROVE  FlightInv'
  BY <1>2, <1>18 DEF EndLease
<1>3. ASSUME NEW t \in Threads, Begin(t) PROVE FlightInv'
  <2>1. /\ UNCHANGED <<flight, base>> /\ th[t].pc = "idle" /\ th'[t].pc \in {"idle", "lookup"}
        /\ \A w \in Threads \ {t} : th'[w] = th[w]
    BY <1>3, <1>a DEF Begin, Thread
  <2>. QED BY <1>c, <2>1, FlightOwn DEF Leads
<1>4. ASSUME NEW t \in Threads, Lookup(t) PROVE FlightInv'
  <2>1. /\ UNCHANGED <<flight, base>> /\ th[t].pc = "lookup" /\ th'[t].pc \in {"idle", "check"}
        /\ \A w \in Threads \ {t} : th'[w] = th[w]
    BY <1>4, <1>a, ReturnMoves, GotoMoves DEF Lookup
  <2>. QED BY <1>c, <2>1, FlightOwn DEF Leads
<1>5. ASSUME NEW t \in Threads, Check(t) PROVE FlightInv'
  <2>1. /\ UNCHANGED <<flight, base>> /\ th[t].pc = "check" /\ th'[t].pc \in {"mark", "join"}
        /\ \A w \in Threads \ {t} : th'[w] = th[w]
    BY <1>5, <1>a, GotoMoves DEF Check
  <2>. QED BY <1>c, <2>1, FlightOwn DEF Leads
<1>6. ASSUME NEW t \in Threads, Mark(t) PROVE FlightInv'
  <2>1. /\ UNCHANGED <<flight, base>> /\ th[t].pc = "mark" /\ th'[t].pc = "idle"
        /\ \A w \in Threads \ {t} : th'[w] = th[w]
    BY <1>6, <1>a, ReturnMoves DEF Mark
  <2>. QED BY <1>c, <2>1, FlightOwn DEF Leads
<1>7. ASSUME NEW t \in Threads, Join(t) PROVE FlightInv'
  BY <1>7, FlightJoin
<1>8. ASSUME NEW t \in Threads, Wait(t) \/ WaitCanceled(t) PROVE FlightInv'
  <2>1. /\ UNCHANGED <<flight, base>> /\ th[t].pc = "wait" /\ th'[t].pc \in {"idle", "join"}
        /\ \A w \in Threads \ {t} : th'[w] = th[w]
    <3>1. CASE Return(t, th[t].got) \/ Return(t, "cancel")
      BY <1>8, <1>a, <3>1, ReturnMoves DEF Wait, WaitCanceled
    <3>2. CASE th' = [th EXCEPT ![t].pc = "join", ![t].leader = None, ![t].got = None]
      BY <1>8, <1>a, <3>2 DEF Wait, WaitCanceled, Thread
    <3>. QED BY <1>8, <3>1, <3>2 DEF Wait, WaitCanceled
  <2>. QED BY <1>c, <2>1, FlightOwn DEF Leads
<1>9. ASSUME NEW t \in Threads, Acquire(t) PROVE FlightInv'
  <2>1. /\ UNCHANGED <<flight, base>> /\ th[t].pc = "acquire"
        /\ th'[t].pc \in {"network", "capwait"}
        /\ th'[t].server = th[t].server /\ th'[t].q = th[t].q
        /\ \A w \in Threads \ {t} : th'[w] = th[w]
    BY <1>9, <1>a, GotoMoves DEF Acquire
  <2>. QED BY <1>c, <2>1, FlightOwn DEF Leads
<1>10. ASSUME NEW t \in Threads, CapCanceled(t) PROVE FlightInv'
  <2>1. /\ UNCHANGED base /\ Unflight(t) /\ th[t].pc = "capwait" /\ th'[t].pc = "idle"
        /\ \A w \in Threads \ {t} : th'[w] = Handed(t, "error")[w]
    BY <1>10, <1>a DEF CapCanceled, Handed, Returned, Thread
  <2>. QED BY <2>1, FlightLand DEF Leads
<1>11. ASSUME NEW t \in Threads, NEW result, NEW over, Network(t, result, over) PROVE FlightInv'
  <2>1. /\ UNCHANGED <<flight, base>> /\ th[t].pc = "network" /\ th'[t].pc = "observe"
        /\ th'[t].server = th[t].server /\ th'[t].q = th[t].q
        /\ \A w \in Threads \ {t} : th'[w] = th[w]
    BY <1>11, <1>a DEF Network, Thread
  <2>. QED BY <1>c, <2>1, FlightOwn DEF Leads
<1>12. ASSUME NEW t \in Threads, Observe(t) \/ Learn(t) \/ Store(t) PROVE FlightInv'
  <2>1. /\ UNCHANGED <<flight, base>>
        /\ th[t].pc \in {"observe", "learn", "store"} /\ th'[t].pc \in {"learn", "store", "finish"}
        /\ th'[t].server = th[t].server /\ th'[t].q = th[t].q
        /\ \A w \in Threads \ {t} : th'[w] = th[w]
    BY <1>12, <1>a, GotoMoves DEF Observe, Learn, Store
  <2>. QED BY <1>c, <2>1, FlightOwn DEF Leads
<1>13. ASSUME NEW t \in Threads, Finish(t) PROVE FlightInv'
  <2>1. PICK x \in {"none", "answer", "error", "abandoned"} :
          th' = [Handed(t, x) EXCEPT ![t].pc = "release"]
    BY <1>13 DEF Finish
  <2>2. /\ UNCHANGED base /\ Unflight(t) /\ th[t].pc = "finish" /\ th'[t].pc = "release"
        /\ \A w \in Threads \ {t} : th'[w] = Handed(t, x)[w]
    <3>1. Handed(t, x)[t] = th[t] \/ Handed(t, x)[t] = [th[t] EXCEPT !.got = x]
      BY DEF Handed
    <3>2. DOMAIN Handed(t, x) = Threads
      BY DEF Handed
    <3>. QED BY <1>13, <1>a, <2>1, <3>1, <3>2 DEF Finish, Thread
  <2>. QED BY <2>2, FlightLand DEF Leads
<1>b. ASSUME NEW t \in Threads, NEW w \in Threads, th'[w] = Woken(t)[w] PROVE Alike(w)
  <2>1. CASE th'[w] = th[w]
    BY <2>1 DEF Alike
  <2>2. CASE th[w].pc = "capwait" /\ th'[w] = [th[w] EXCEPT !.pc = "acquire"]
    BY <1>a, <2>2 DEF Alike, Thread
  <2>. QED BY <1>b, <2>1, <2>2 DEF Woken
<1>14. ASSUME NEW t \in Threads, Release(t) PROVE FlightInv'
  <2>1. /\ UNCHANGED <<flight, base>> /\ th[t].pc = "release" /\ th'[t].pc = "idle"
        /\ \A w \in Threads \ {t} : th'[w] = Woken(t)[w]
    BY <1>14, <1>a DEF Release, Woken, Returned, Thread
  <2>. QED BY <1>b, <2>1, FlightOwn DEF Leads
<1>15. ASSUME NEW t \in Threads, Panic(t) PROVE FlightInv'
  <2>1. /\ UNCHANGED <<flight, base>> /\ th'[t].pc = "unwind"
        /\ th[t].pc \in {"network", "observe", "learn", "store", "finish"}
        /\ th'[t].server = th[t].server /\ th'[t].q = th[t].q
        /\ \A w \in Threads \ {t} : th'[w] = Woken(t)[w]
    BY <1>15, <1>a DEF Panic, Woken, Thread
  <2>. QED BY <1>b, <2>1, FlightOwn DEF Leads
<1>16. ASSUME NEW t \in Threads, Abandon(t) PROVE FlightInv'
  <2>1. /\ UNCHANGED base /\ Unflight(t) /\ th[t].pc = "unwind" /\ th'[t].pc = "idle"
        /\ \A w \in Threads \ {t} : th'[w] = Handed(t, "abandoned")[w]
    BY <1>16, <1>a DEF Abandon, Handed, Returned, Thread
  <2>. QED BY <2>1, FlightLand DEF Leads
<1>17. ASSUME NEW t \in Threads, Cancel(t) PROVE FlightInv'
  <2>1. /\ UNCHANGED <<flight, base>>
        /\ \A w \in Threads : /\ th'[w].pc = th[w].pc /\ th'[w].server = th[w].server
                              /\ th'[w].q = th[w].q /\ th'[w].got = th[w].got
                              /\ th'[w].leader = th[w].leader
    BY <1>17, <1>a DEF Cancel, Thread
  <2>2. \A w \in Threads : Leads(w)' = Leads(w) /\ Waits(w)' = Waits(w) /\ SamePlace(w)
    BY <2>1 DEF Leads, Waits, SamePlace, Base, Addr
  <2>. QED BY <2>1, <2>2, FlightFrame
<1>19. ASSUME NEW r \in Runs, NEW a \in Addrs, Expire(r, a) PROVE FlightInv'
  BY <1>18, <1>19 DEF Expire
<1>20. ASSUME UNCHANGED vars PROVE FlightInv'
  BY <1>18, <1>20 DEF vars
<1>. QED
  BY <1>1, <1>2, <1>3, <1>4, <1>5, <1>6, <1>7, <1>8, <1>9, <1>10, <1>11, <1>12, <1>13, <1>14,
     <1>15, <1>16, <1>17, <1>19, <1>20 DEF Next, Step

LEMMA FlightInit == Init => FlightInv
<1>. SUFFICES ASSUME Init PROVE FlightInv
  OBVIOUS
<1>1. \A t \in Threads : ~Leads(t) /\ ~Waits(t)
  BY DEF Init, Leads, Waits
<1>2. \A b \in Bases, a \in Addrs, q \in Questions : flight[b][a][q] \notin Threads
  BY QueryAssumption DEF Init
<1>. QED BY <1>1, <1>2 DEF FlightInv

\* Of the goroutines of all runs that share a query cache at most one is out
\* for a question, and who waits, waits for that one: whoever is cancelled or
\* panics lets its waiters go.
THEOREM QuestionHasOneLeader == Spec => []OneLeader
<1>1. QueryInv /\ FlightInv /\ [Next]_vars => FlightInv'
  BY FlightStep DEF QueryInv
<1>2. FlightInv => OneLeader
  BY DEF FlightInv, OneLeader, Waits
<1>. QED BY <1>1, <1>2, FlightInit, QueryInvariant, PTL DEF Spec

-----------------------------------------------------------------------------
(* Who answers is not blamed.                                              *)

ObjectsClean(a) ==
    \A r \in Runs, s \in Servers : AddrOf[s] = a =>
        object[r][s].count = 0 /\ object[r][s].blocked = FALSE /\ object[r][s].listed = FALSE

FailsClean(a) ==
    \A r \in Runs :
        /\ a \notin fails[r].pending /\ a \notin fails[r].blackout
        /\ \A q \in Questions : <<a, q>> \notin fails[r].errors

CacheClean(a) == \A b \in Bases : \A q \in DOMAIN cache[b][a].data : cache[b][a].data[q] = "answer"

\* What a thread may be doing at an address that answers.
Innocent(rec) ==
    /\ rec.pc # "mark"
    /\ rec.pc \in {"observe", "learn", "store", "finish"} =>
         rec.out = "answer" \/ (rec.out = "cancel" /\ rec.gone = TRUE)

ThreadsClean(a) == \A t \in Threads : Addr(t) = a => Innocent(th[t])

HealthFor(a) ==
    Healthy(a) => ObjectsClean(a) /\ FailsClean(a) /\ CacheClean(a) /\ ThreadsClean(a)

HealthInv == \A a \in Addrs : HealthFor(a)

LEMMA HealthInit == Init => HealthInv
  BY DEF Init, HealthInv, HealthFor, ObjectsClean, FailsClean, CacheClean, ThreadsClean, Innocent

\* A thread that a step of another one leaves alone, wakes or hands a result.
Undisturbed(w) ==
    /\ th'[w].server = th[w].server
    /\ th'[w].pc = th[w].pc \/ th'[w].pc = "acquire"
    /\ th'[w].out = th[w].out /\ th'[w].gone = th[w].gone

LEMMA ThreadsStayClean ==
    ASSUME NEW a, ThreadsClean(a), NEW t \in Threads,
           \A w \in Threads \ {t} : Undisturbed(w),
           Addr(t)' = a => Innocent(th'[t])
    PROVE  ThreadsClean(a)'
<1>. SUFFICES ASSUME NEW w \in Threads, Addr(w)' = a PROVE Innocent(th'[w])
  BY DEF ThreadsClean
<1>1. CASE w = t
  BY <1>1
<1>2. CASE w # t
  <2>1. Addr(w) = a /\ Undisturbed(w)
    BY <1>2 DEF Addr, Undisturbed
  <2>2. Innocent(th[w])
    BY <2>1 DEF ThreadsClean
  <2>. QED BY <2>1, <2>2 DEF Innocent, Undisturbed
<1>. QED BY <1>1, <1>2

\* A step that leaves the objects, the failures and the caches alone.
LEMMA HealthFrame ==
    ASSUME NEW a, HealthFor(a), UNCHANGED <<object, fails, cache>>,
           ThreadsClean(a) /\ Healthy(a) /\ ObjectsClean(a) /\ FailsClean(a) => ThreadsClean(a)'
    PROVE  HealthFor(a)'
  BY DEF HealthFor, Healthy, ObjectsClean, FailsClean, CacheClean

\* A write of "answer", or one for another address, keeps a cache clean.
LEMMA CacheStaysClean ==
    ASSUME QueryTypeOK, NEW a \in Addrs, CacheClean(a), NEW t, Base(t) \in Bases, Addr(t) \in Addrs,
           th[t].q \in Questions, NEW v \in {"answer", "none"}, SetCache(t, v),
           Addr(t) = a => v = "answer"
    PROVE  CacheClean(a)'
<1>. SUFFICES ASSUME NEW b \in Bases, NEW q \in DOMAIN cache'[b][a].data
              PROVE  cache'[b][a].data[q] = "answer"
  BY DEF CacheClean
<1>0. cache \in [Bases -> [Addrs -> QueryCache]]
  BY DEF QueryTypeOK
<1>1. CASE b = Base(t) /\ a = Addr(t)
  <2>1. cache'[b][a] = Stored(cache[b][a], th[t].q, v) /\ cache[b][a] \in QueryCache
    BY <1>0, <1>1 DEF SetCache
  <2>2. /\ q \in DOMAIN cache[b][a].data \cup {th[t].q}
        /\ cache'[b][a].data[q] = IF q = th[t].q THEN v ELSE cache[b][a].data[q]
    BY <2>1, StoredType
  <2>. QED BY <1>1, <2>2 DEF CacheClean
<1>2. CASE ~(b = Base(t) /\ a = Addr(t))
  <2>1. cache'[b][a] = cache[b][a]
    BY <1>0, <1>2 DEF SetCache
  <2>. QED BY <2>1 DEF CacheClean
<1>. QED BY <1>1, <1>2

\* A step of a thread that leaves the objects, the failures and the caches alone.
LEMMA HealthOwn ==
    ASSUME NEW a, HealthFor(a), UNCHANGED <<object, fails, cache>>, NEW t \in Threads,
           \A w \in Threads \ {t} : Undisturbed(w),
           (Addr(t)' = a /\ ThreadsClean(a) /\ Healthy(a) /\ ObjectsClean(a) /\ FailsClean(a))
             => Innocent(th'[t])
    PROVE  HealthFor(a)'
  BY HealthFrame, ThreadsStayClean

\* What a step of one thread leaves of the other threads.
LEMMA OthersUndisturbed ==
    ASSUME th \in [Threads -> Thread], NEW t \in Threads, NEW x
    PROVE  \A w \in Threads \ {t} :
             th'[w] = th[w] \/ th'[w] = Handed(t, x)[w] \/ th'[w] = Woken(t)[w]
               => Undisturbed(w)
  BY DEF Handed, Woken, Thread, Undisturbed

\* Every step keeps an address that answers free of blame.
LEMMA HealthStep ==
    ASSUME QueryTypeOK, LeaseInv, HealthInv, [Next]_vars
    PROVE  HealthInv'
<1>a. th \in [Threads -> Thread]
  BY DEF QueryTypeOK
<1>b. object \in [Runs -> [Servers -> ObjectSet]] /\ fails \in [Runs -> FailSet]
  BY DEF QueryTypeOK, ObjectSet, FailSet
<1>. SUFFICES ASSUME NEW a \in Addrs, HealthFor(a) PROVE HealthFor(a)'
  BY DEF HealthInv
<1>c. \A t, w \in Threads : (t # w /\ th'[w] = th[w]) => Undisturbed(w)
  BY <1>a DEF Undisturbed
<1>. USE DEF leases, shared
<1>1. ASSUME UNCHANGED <<object, fails, cache, th>> PROVE HealthFor(a)'
  BY <1>1, HealthFrame DEF ThreadsClean, Addr
<1>2. ASSUME NEW r \in Runs, NEW dead \in SUBSET HotKeys, Lease(r, dead) PROVE HealthFor(a)'
  BY <1>1, <1>2 DEF Lease
<1>3. ASSUME NEW r \in Runs, NEW dead \in SUBSET HotKeys, NEW stale \in SUBSET Addrs,
             EndLease(r, dead, stale)
      PROVE  HealthFor(a)'
  <2>1. UNCHANGED <<object, fails, th>>
    BY <1>3 DEF EndLease
  <2>2. ASSUME NEW b \in Bases
        PROVE  cache'[b][a] = cache[b][a] \/ cache'[b][a].data = <<>>
    BY <1>3 DEF EndLease, QueryTypeOK
  <2>3. CacheClean(a) => CacheClean(a)'
    BY <2>2 DEF CacheClean
  <2>. QED BY <2>1, <2>3
           DEF HealthFor, Healthy, ObjectsClean, FailsClean, ThreadsClean, Addr
<1>4. ASSUME NEW t \in Threads, Begin(t) PROVE HealthFor(a)'
  <2>1. /\ UNCHANGED <<object, cache>> /\ th'[t].pc \in {"idle", "lookup"}
        /\ \A w \in Threads \ {t} : th'[w] = th[w]
    BY <1>4, <1>a DEF Begin, Thread
  <2>2. \A r \in Runs : /\ fails'[r].pending = fails[r].pending
                        /\ fails'[r].blackout = fails[r].blackout
                        /\ fails'[r].errors = fails[r].errors
    BY <1>4, <1>b, QueryAssumption DEF Begin, Run, FailSet
  <2>3. ThreadsClean(a) => ThreadsClean(a)'
    BY <1>c, <2>1, ThreadsStayClean DEF Innocent
  <2>. QED BY <2>1, <2>2, <2>3 DEF HealthFor, Healthy, ObjectsClean, FailsClean, CacheClean
<1>5. ASSUME NEW t \in Threads, Lookup(t) PROVE HealthFor(a)'
  <2>1. /\ UNCHANGED <<object, fails, cache>> /\ th'[t].pc \in {"idle", "check"}
        /\ \A w \in Threads \ {t} : th'[w] = th[w]
    BY <1>5, <1>a, ReturnMoves, GotoMoves DEF Lookup
  <2>. QED BY <1>c, <2>1, HealthOwn DEF Innocent
<1>6. ASSUME NEW t \in Threads, Check(t) PROVE HealthFor(a)'
  <2>1. /\ UNCHANGED <<object, fails, cache>> /\ Addr(t)' = Addr(t)
        /\ th[t].pc = "check" /\ th'[t].pc = IF Skips(t) THEN "mark" ELSE "join"
        /\ \A w \in Threads \ {t} : th'[w] = th[w]
    BY <1>6, <1>a, GotoMoves DEF Check, Addr
  <2>2. /\ RunOf[t] \in Runs /\ th[t].q \in Questions /\ th[t].server \in Servers
    BY <2>1, Placed
  <2>3. ASSUME Addr(t) = a, Healthy(a), ObjectsClean(a), FailsClean(a) PROVE ~Skips(t)
    <3>1. ~Object(t).slow /\ ~Object(t).blocked /\ ~Object(t).listed
      BY <2>2, <2>3 DEF Addr, Object, Healthy, ObjectsClean
    <3>2. a \notin fails[Run(t)].blackout /\ <<a, th[t].q>> \notin fails[Run(t)].errors
      BY <2>2, <2>3 DEF FailsClean, Run
    <3>. QED BY <2>3, <3>1, <3>2 DEF Skips
  <2>. QED BY <1>c, <2>1, <2>3, HealthOwn DEF Innocent
<1>7. ASSUME NEW t \in Threads, Mark(t) PROVE HealthFor(a)'
  <2>1. /\ UNCHANGED <<object, fails>> /\ SetCache(t, "none") /\ th[t].pc = "mark"
        /\ th'[t].pc = "idle" /\ \A w \in Threads \ {t} : th'[w] = th[w]
    BY <1>7, <1>a, ReturnMoves DEF Mark
  <2>2. Base(t) \in Bases /\ Addr(t) \in Addrs /\ th[t].q \in Questions
    BY <2>1, Placed
  <2>3. ThreadsClean(a) => Addr(t) # a
    BY <2>1 DEF ThreadsClean, Innocent
  <2>4. ThreadsClean(a) /\ CacheClean(a) => CacheClean(a)'
    BY <2>1, <2>2, <2>3, CacheStaysClean
  <2>5. ThreadsClean(a) => ThreadsClean(a)'
    BY <1>c, <2>1, ThreadsStayClean DEF Innocent
  <2>. QED BY <2>1, <2>4, <2>5 DEF HealthFor, Healthy, ObjectsClean, FailsClean
<1>8. ASSUME NEW t \in Threads, Join(t) PROVE HealthFor(a)'
  <2>1. /\ UNCHANGED <<object, fails, cache>> /\ th'[t].pc \in {"acquire", "wait"}
        /\ \A w \in Threads \ {t} : th'[w] = th[w]
    BY <1>8, <1>a DEF Join, Goto, Thread
  <2>. QED BY <1>c, <2>1, HealthOwn DEF Innocent
<1>9. ASSUME NEW t \in Threads, Wait(t) \/ WaitCanceled(t) PROVE HealthFor(a)'
  <2>1. /\ UNCHANGED <<object, fails, cache>> /\ th'[t].pc \in {"idle", "join"}
        /\ \A w \in Threads \ {t} : th'[w] = th[w]
    <3>1. CASE Return(t, th[t].got) \/ Return(t, "cancel")
      BY <1>9, <1>a, <3>1, ReturnMoves DEF Wait, WaitCanceled
    <3>2. CASE th' = [th EXCEPT ![t].pc = "join", ![t].leader = None, ![t].got = None]
      BY <1>9, <1>a, <3>2 DEF Wait, WaitCanceled, Thread
    <3>. QED BY <1>9, <3>1, <3>2 DEF Wait, WaitCanceled
  <2>. QED BY <1>c, <2>1, HealthOwn DEF Innocent
<1>10. ASSUME NEW t \in Threads, Acquire(t) PROVE HealthFor(a)'
  <2>1. /\ UNCHANGED <<object, fails, cache>> /\ th'[t].pc \in {"network", "capwait"}
        /\ \A w \in Threads \ {t} : th'[w] = th[w]
    BY <1>10, <1>a, GotoMoves DEF Acquire
  <2>. QED BY <1>c, <2>1, HealthOwn DEF Innocent
<1>11. ASSUME NEW t \in Threads, CapCanceled(t) PROVE HealthFor(a)'
  <2>1. /\ UNCHANGED <<object, fails, cache>> /\ th'[t].pc = "idle"
        /\ \A w \in Threads \ {t} : th'[w] = Handed(t, "error")[w]
    BY <1>11, <1>a DEF CapCanceled, Handed, Returned, Thread
  <2>. QED BY <1>a, <2>1, OthersUndisturbed, HealthOwn DEF Innocent
<1>12. ASSUME NEW t \in Threads, Finish(t) PROVE HealthFor(a)'
  <2>1. PICK x : th' = [Handed(t, x) EXCEPT ![t].pc = "release"]
    BY <1>12 DEF Finish
  <2>2. /\ UNCHANGED <<object, fails, cache>> /\ th'[t].pc = "release"
        /\ \A w \in Threads \ {t} : th'[w] = Handed(t, x)[w]
    <3>1. Handed(t, x)[t] = th[t] \/ Handed(t, x)[t] = [th[t] EXCEPT !.got = x]
      BY DEF Handed
    <3>2. DOMAIN Handed(t, x) = Threads
      BY DEF Handed
    <3>. QED BY <1>12, <1>a, <2>1, <3>1, <3>2 DEF Finish, Thread
  <2>. QED BY <1>a, <2>2, OthersUndisturbed, HealthOwn DEF Innocent
<1>13. ASSUME NEW t \in Threads, Release(t) \/ Panic(t) PROVE HealthFor(a)'
  <2>1. /\ UNCHANGED <<object, fails, cache>> /\ th'[t].pc \in {"idle", "unwind"}
        /\ \A w \in Threads \ {t} : th'[w] = Woken(t)[w]
    <3>1. CASE Release(t)
      BY <1>a, <3>1 DEF Release, Woken, Returned, Thread
    <3>2. CASE Panic(t)
      BY <1>a, <3>2 DEF Panic, Woken, Thread
    <3>. QED BY <1>13, <3>1, <3>2
  <2>. QED BY <1>a, <2>1, OthersUndisturbed, HealthOwn DEF Innocent
<1>14. ASSUME NEW t \in Threads, Abandon(t) PROVE HealthFor(a)'
  <2>1. /\ UNCHANGED <<object, fails, cache>> /\ th'[t].pc = "idle"
        /\ \A w \in Threads \ {t} : th'[w] = Handed(t, "abandoned")[w]
    BY <1>14, <1>a DEF Abandon, Handed, Returned, Thread
  <2>. QED BY <1>a, <2>1, OthersUndisturbed, HealthOwn DEF Innocent
<1>15. ASSUME NEW t \in Threads, Cancel(t) PROVE HealthFor(a)'
  <2>1. /\ UNCHANGED <<object, fails, cache>> /\ Addr(t)' = Addr(t) /\ th'[t].pc = th[t].pc
        /\ th'[t].out = th[t].out /\ th'[t].gone = TRUE
        /\ \A w \in Threads \ {t} : th'[w] = th[w]
    BY <1>15, <1>a DEF Cancel, Thread, Addr
  <2>. QED BY <1>c, <2>1, HealthOwn DEF Innocent, ThreadsClean
<1>16. ASSUME NEW t \in Threads, NEW result \in Results \cup {"cancel"}, NEW over \in BOOLEAN,
              Network(t, result, over)
       PROVE  HealthFor(a)'
  <2>1. /\ UNCHANGED <<fails, cache>> /\ th[t].pc = "network" /\ Addr(t)' = Addr(t)
        /\ th'[t].out = result /\ th'[t].gone = th[t].gone /\ th'[t].pc = "observe"
        /\ \A w \in Threads \ {t} : th'[w] = th[w]
    BY <1>16, <1>a DEF Network, Thread, Addr
  <2>2. \A r \in Runs, s \in Servers :
          /\ object'[r][s].count = object[r][s].count /\ object'[r][s].listed = object[r][s].listed
          /\ object'[r][s].blocked = object[r][s].blocked
          /\ object[r][s].slow => object'[r][s].slow
    BY <1>16, <1>b DEF Network, ObjectSet
  <2>3. Healthy(a)' => Healthy(a)
    BY <2>2 DEF Healthy
  <2>4. th[t].gone \in BOOLEAN
    BY <1>a DEF Thread
  <2>5. (Addr(t) = a /\ Healthy(a)) => (result = "answer" \/ (result = "cancel" /\ th[t].gone))
    BY <1>16 DEF Network, Healthy
  <2>6. Healthy(a) /\ ThreadsClean(a) => ThreadsClean(a)'
    BY <1>c, <2>1, <2>4, <2>5, ThreadsStayClean DEF Innocent
  <2>. QED BY <2>1, <2>2, <2>3, <2>6 DEF HealthFor, ObjectsClean, FailsClean, CacheClean
<1>17. ASSUME NEW t \in Threads, Observe(t) PROVE HealthFor(a)'
  <2>1. /\ UNCHANGED <<fails, cache>> /\ th[t].pc = "observe" /\ Addr(t)' = Addr(t)
        /\ th'[t].out = th[t].out /\ th'[t].gone = th[t].gone /\ th'[t].pc = "learn"
        /\ \A w \in Threads \ {t} : th'[w] = th[w]
    BY <1>17, <1>a, GotoMoves DEF Observe, Addr
  <2>2. RunOf[t] \in Runs /\ th[t].server \in Servers /\ Object(t) \in ObjectSet
    BY <1>b, <2>1, Placed DEF Object
  <2>. DEFINE new == FastFail(Object(t), ~th[t].gone /\ th[t].out = "timeout")
  <2>3. new.slow = Object(t).slow
    BY <2>2 DEF FastFail, ObjectSet
  <2>4. (Object(t).count = 0 /\ Object(t).blocked = FALSE /\ Object(t).listed = FALSE
           /\ th[t].out # "timeout")
          => (new.count = 0 /\ new.blocked = FALSE /\ new.listed = FALSE)
    BY <2>2 DEF FastFail, ObjectSet
  <2>. HIDE DEF new
  <2>5. \A r \in Runs, s \in Servers :
          \/ object'[r][s] = object[r][s]
          \/ r = RunOf[t] /\ s = th[t].server /\ object'[r][s] = new
    BY <1>17, <1>b, <2>2 DEF Observe, new, Object, Run
  <2>6. \A r \in Runs, s \in Servers : object'[r][s].slow = object[r][s].slow
    BY <2>3, <2>5 DEF Object
  <2>7. Healthy(a)' => Healthy(a)
    BY <2>6 DEF Healthy
  <2>8. ThreadsClean(a) /\ Addr(t) = a => th[t].out # "timeout"
    BY <2>1 DEF ThreadsClean, Innocent
  <2>9. ThreadsClean(a) /\ ObjectsClean(a) => ObjectsClean(a)'
    BY <2>2, <2>4, <2>5, <2>8 DEF ObjectsClean, Object, Addr
  <2>10. ThreadsClean(a) => ThreadsClean(a)'
    <3>1. ThreadsClean(a) /\ Addr(t) = a => Innocent(th'[t])
      BY <2>1 DEF ThreadsClean, Innocent
    <3>. QED BY <1>c, <2>1, <3>1, ThreadsStayClean
  <2>. QED BY <2>1, <2>7, <2>9, <2>10 DEF HealthFor, FailsClean, CacheClean
<1>18. ASSUME NEW t \in Threads, Learn(t) PROVE HealthFor(a)'
  <2>1. /\ UNCHANGED cache /\ th[t].pc = "learn" /\ Addr(t)' = Addr(t)
        /\ th'[t].out = th[t].out /\ th'[t].gone = th[t].gone /\ th'[t].pc = "store"
        /\ \A w \in Threads \ {t} : th'[w] = th[w]
    BY <1>18, <1>a, GotoMoves DEF Learn, Addr
  <2>2. RunOf[t] \in Runs /\ th[t].server \in Servers
    BY <2>1, Placed
  <2>. DEFINE failed == th[t].out \notin {"answer", "empty"} /\ ~th[t].gone
              old == fails[Run(t)]
              new == fails'[Run(t)]
  <2>3. \A r \in Runs, s \in Servers :
          /\ object'[r][s].count = object[r][s].count /\ object'[r][s].slow = object[r][s].slow
          /\ object'[r][s].blocked = object[r][s].blocked
          /\ object'[r][s].listed = object[r][s].listed
             \/ (r = RunOf[t] /\ s = th[t].server
                  /\ object'[r][s].listed = (object[r][s].listed \/ (failed /\ th[t].q \in PlainSOA)))
    BY <1>18, <1>b DEF Learn, Run, ObjectSet
  <2>4. Healthy(a)' => Healthy(a)
    BY <2>3 DEF Healthy
  <2>5. ThreadsClean(a) /\ Addr(t) = a => ~failed
    BY <2>1 DEF ThreadsClean, Innocent
  <2>6. \A r \in Runs \ {Run(t)} : fails'[r] = fails[r]
    BY <1>18, <1>b DEF Learn
  <2>7. /\ new.errors \subseteq old.errors
             \cup (IF failed THEN {<<Addr(t), th[t].q>>} ELSE {})
        /\ new.blackout \subseteq old.blackout \cup (IF failed THEN {Addr(t)} ELSE {})
        /\ new.pending \subseteq old.pending \cup (IF failed THEN {Addr(t)} ELSE {})
    BY <1>18, <1>b, <2>2 DEF Learn, Run, FailSet
  <2>. HIDE DEF failed, old, new
  <2>8. ThreadsClean(a) /\ ObjectsClean(a) => ObjectsClean(a)'
    <3>. SUFFICES ASSUME ThreadsClean(a), ObjectsClean(a), NEW r \in Runs, NEW s \in Servers,
                         AddrOf[s] = a
                  PROVE  /\ object'[r][s].count = 0 /\ object'[r][s].blocked = FALSE
                         /\ object'[r][s].listed = FALSE
      BY DEF ObjectsClean
    <3>1. /\ object[r][s].count = 0 /\ object[r][s].blocked = FALSE
          /\ object[r][s].listed = FALSE
      BY DEF ObjectsClean
    <3>2. s = th[t].server => ~failed
      BY <2>5 DEF Addr
    <3>. QED BY <2>3, <3>1, <3>2
  <2>9. ThreadsClean(a) /\ FailsClean(a) => FailsClean(a)'
    BY <2>2, <2>5, <2>6, <2>7 DEF FailsClean, old, new, Run
  <2>10. ThreadsClean(a) => ThreadsClean(a)'
    <3>1. ThreadsClean(a) /\ Addr(t) = a => Innocent(th'[t])
      BY <2>1 DEF ThreadsClean, Innocent
    <3>. QED BY <1>c, <2>1, <3>1, ThreadsStayClean
  <2>. QED BY <2>1, <2>4, <2>8, <2>9, <2>10 DEF HealthFor, CacheClean
<1>19. ASSUME NEW t \in Threads, Store(t) PROVE HealthFor(a)'
  <2>1. /\ UNCHANGED <<object, fails>> /\ th[t].pc = "store" /\ Addr(t)' = Addr(t)
        /\ th'[t].out = th[t].out /\ th'[t].gone = th[t].gone /\ th'[t].pc = "finish"
        /\ \A w \in Threads \ {t} : th'[w] = th[w]
    BY <1>19, <1>a, GotoMoves DEF Store, Addr
  <2>2. Base(t) \in Bases /\ Addr(t) \in Addrs /\ th[t].q \in Questions
    BY <2>1, Placed
  <2>. DEFINE v == IF th[t].out = "answer" THEN "answer" ELSE "none"
  <2>3. \/ UNCHANGED cache
        \/ SetCache(t, v) /\ (th[t].out \in {"answer", "empty"} \/ ~th[t].gone)
    BY <1>19 DEF Store
  <2>4. ThreadsClean(a) /\ Addr(t) = a =>
          th[t].out = "answer" \/ (th[t].out = "cancel" /\ th[t].gone = TRUE)
    BY <2>1 DEF ThreadsClean, Innocent
  <2>5. CASE UNCHANGED cache
    <3>1. ThreadsClean(a) /\ Addr(t) = a => Innocent(th'[t])
      BY <2>1, <2>4 DEF Innocent
    <3>. QED BY <1>c, <2>1, <2>5, <3>1, HealthOwn
  <2>6. CASE SetCache(t, v) /\ (th[t].out \in {"answer", "empty"} \/ ~th[t].gone)
    <3>1. ThreadsClean(a) /\ Addr(t) = a => v = "answer"
      BY <2>4, <2>6
    <3>2. v \in {"answer", "none"}
      OBVIOUS
    <3>. HIDE DEF v
    <3>3. ThreadsClean(a) /\ CacheClean(a) => CacheClean(a)'
      BY <2>2, <2>6, <3>1, <3>2, CacheStaysClean
    <3>4. ThreadsClean(a) /\ Addr(t) = a => Innocent(th'[t])
      BY <2>1, <2>4 DEF Innocent
    <3>5. ThreadsClean(a) => ThreadsClean(a)'
      BY <1>c, <2>1, <3>4, ThreadsStayClean
    <3>. QED BY <2>1, <3>3, <3>5 DEF HealthFor, Healthy, ObjectsClean, FailsClean
  <2>. QED BY <2>3, <2>5, <2>6
<1>20. ASSUME NEW r \in Runs, NEW x \in Addrs, Expire(r, x) PROVE HealthFor(a)'
  <2>1. UNCHANGED <<object, cache, th>>
    BY <1>20 DEF Expire
  <2>2. \A s \in Runs : /\ fails'[s].pending \subseteq fails[s].pending
                        /\ fails'[s].blackout \subseteq fails[s].blackout
                        /\ fails'[s].errors \subseteq fails[s].errors
    <3>1. CASE fails' = [fails EXCEPT ![r].pending = @ \ {x}]
      BY <1>b, <3>1 DEF FailSet
    <3>2. CASE fails' = [fails EXCEPT ![r].blackout = @ \ {x}]
      BY <1>b, <3>2 DEF FailSet
    <3>3. ASSUME NEW q \in Questions, fails' = [fails EXCEPT ![r].errors = @ \ {<<x, q>>}]
          PROVE  \A s \in Runs : /\ fails'[s].pending \subseteq fails[s].pending
                                 /\ fails'[s].blackout \subseteq fails[s].blackout
                                 /\ fails'[s].errors \subseteq fails[s].errors
      BY <1>b, <3>3 DEF FailSet
    <3>. QED BY <1>20, <3>1, <3>2, <3>3 DEF Expire
  <2>3. FailsClean(a) => FailsClean(a)'
    BY <2>2 DEF FailsClean
  <2>. QED BY <2>1, <2>3 DEF HealthFor, Healthy, ObjectsClean, CacheClean, ThreadsClean, Addr
<1>21. ASSUME UNCHANGED vars PROVE HealthFor(a)'
  BY <1>1, <1>21 DEF vars
<1>. QED
  BY <1>2, <1>3, <1>4, <1>5, <1>6, <1>7, <1>8, <1>9, <1>10, <1>11, <1>12, <1>13, <1>14, <1>15,
     <1>16, <1>17, <1>18, <1>19, <1>20, <1>21 DEF Next, Step

\* An address that answers every query, and on which no nameserver object has
\* used up its latency budget, is never listed, counted against, or cached as
\* silent by any run, whatever is cancelled or panics meanwhile.
THEOREM WhoAnswersIsNotBlamed == Spec => []HealthyNotBlamed
<1>1. QueryInv /\ HealthInv /\ [Next]_vars => HealthInv'
  BY HealthStep DEF QueryInv
<1>2. HealthInv => HealthyNotBlamed
  BY DEF HealthInv, HealthFor, HealthyNotBlamed, ObjectsClean, FailsClean, CacheClean
<1>. QED BY <1>1, <1>2, HealthInit, QueryInvariant, PTL DEF Spec

============================================================================
