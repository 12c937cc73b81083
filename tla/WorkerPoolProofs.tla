-------------------------- MODULE WorkerPoolProofs --------------------------
(***************************************************************************)
(* Proofs about JobQueue, for any finite number of workers, any jobs, any  *)
(* channel at least as large as the number of workers and any pool around  *)
(* it; and about WorkerPool, a queue with workers: what is proved of the   *)
(* queue under any pool holds under this one.                              *)
(***************************************************************************)
EXTENDS WorkerPool, FiniteSetTheorems, SequenceTheorems, TLAPS

USE JobsAssumption, WorkersAssumption, NotifyCapAssumption

\* The sets of workers the properties count are finite and no larger than
\* the set of workers.
LEMMA AtFinite ==
    ASSUME NEW S
    PROVE  /\ IsFiniteSet(At(S))
           /\ Cardinality(At(S)) \in Nat
           /\ Cardinality(At(S)) <= Cardinality(Workers)
<1>1. At(S) \subseteq Workers
  BY DEF At
<1> QED
  BY <1>1, FS_Subset, FS_CardinalityType

\* Counting a smaller set of control states counts fewer workers.
LEMMA AtMono ==
    ASSUME NEW S, NEW T, S \subseteq T
    PROVE  Cardinality(At(S)) <= Cardinality(At(T))
<1>1. At(S) \subseteq At(T)
  BY DEF At
<1> QED
  BY <1>1, AtFinite, FS_Subset

\* One goroutine moves: how the number of workers in a set of control
\* states changes.
LEMMA MoveCounts ==
    ASSUME pc \in [Workers -> Pcs], NEW w \in Workers, NEW label \in Pcs,
           Goto(w, label), NEW S
    PROVE  LET c == Cardinality(At(S))
               d == Cardinality(At(S)')
           IN  /\ c \in Nat /\ d \in Nat
               /\ pc[w] \in S /\ label \in S => d = c
               /\ pc[w] \in S /\ label \notin S => d = c - 1
               /\ pc[w] \notin S /\ label \in S => d = c + 1
               /\ pc[w] \notin S /\ label \notin S => d = c
<1>1. label \in S => At(S)' = At(S) \cup {w}
  BY DEF At, Goto
<1>2. label \notin S => At(S)' = At(S) \ {w}
  BY DEF At, Goto
<1>3. w \in At(S) <=> pc[w] \in S
  BY DEF At
<1>4. /\ IsFiniteSet(At(S)) /\ Cardinality(At(S)) \in Nat
      /\ w \in At(S) => Cardinality(At(S) \ {w}) = Cardinality(At(S)) - 1
      /\ w \notin At(S) => Cardinality(At(S) \cup {w}) = Cardinality(At(S)) + 1
  BY AtFinite, FS_AddElement, FS_RemoveElement
<1>5. /\ w \in At(S) => At(S) \cup {w} = At(S)
      /\ w \notin At(S) => At(S) \ {w} = At(S)
  OBVIOUS
<1>6. w \in At(S) => Cardinality(At(S)) # 0
  BY <1>4, FS_EmptySet
<1>7. CASE pc[w] \in S /\ label \in S
  <2>1. Cardinality(At(S)') = Cardinality(At(S))
    BY <1>7, <1>1, <1>3, <1>5, Zenon
  <2> QED BY <2>1, <1>7, <1>4
<1>8. CASE pc[w] \in S /\ label \notin S
  <2>1. Cardinality(At(S)') = Cardinality(At(S)) - 1
    BY <1>8, <1>2, <1>3, <1>4, Zenon
  <2> QED BY <2>1, <1>8, <1>3, <1>4, <1>6
<1>9. CASE pc[w] \notin S /\ label \in S
  <2>1. Cardinality(At(S)') = Cardinality(At(S)) + 1
    BY <1>9, <1>1, <1>3, <1>4, Zenon
  <2> QED BY <2>1, <1>9, <1>4
<1>10. CASE pc[w] \notin S /\ label \notin S
  <2>1. Cardinality(At(S)') = Cardinality(At(S))
    BY <1>10, <1>2, <1>3, <1>5, Zenon
  <2> QED BY <2>1, <1>10, <1>4
<1> QED
  BY <1>7, <1>8, <1>9, <1>10

-----------------------------------------------------------------------------
(* Sequences without repetitions.                                          *)

\* Appending an id that is not there keeps a tier free of repetitions.
LEMMA AppendRange ==
    ASSUME NEW S, NEW s \in Seq(S), NEW j \in S
    PROVE  /\ Range(Append(s, j)) = Range(s) \cup {j}
           /\ IsInjective(s) /\ j \notin Range(s) => IsInjective(Append(s, j))
<1> DEFINE t == Append(s, j)
<1>1. /\ Len(s) \in Nat /\ DOMAIN s = 1 .. Len(s) /\ DOMAIN t = 1 .. Len(s) + 1
      /\ \A i \in 1 .. Len(s) : t[i] = s[i]
      /\ t[Len(s) + 1] = j
  OBVIOUS
<1> HIDE DEF t
<1>2. Range(t) = Range(s) \cup {j}
  BY <1>1 DEF Range
<1>3. ASSUME IsInjective(s), j \notin Range(s) PROVE IsInjective(t)
  BY <1>1, <1>3 DEF Range, IsInjective
<1> QED
  BY <1>2, <1>3 DEF t

\* Taking the head of a tier takes that id and no other.
LEMMA TailRange ==
    ASSUME NEW S, NEW s \in Seq(S), s # << >>, IsInjective(s)
    PROVE  /\ Head(s) \in Range(s)
           /\ Range(Tail(s)) = Range(s) \ {Head(s)}
           /\ IsInjective(Tail(s))
<1> DEFINE t == Tail(s)
<1>1. /\ Len(s) \in Nat /\ Len(s) >= 1 /\ DOMAIN s = 1 .. Len(s)
      /\ DOMAIN t = 1 .. Len(s) - 1 /\ Head(s) = s[1]
      /\ \A i \in 1 .. Len(s) - 1 : t[i] = s[i + 1]
  OBVIOUS
<1> HIDE DEF t
<1>2. \A i \in 2 .. Len(s) : i - 1 \in 1 .. Len(s) - 1 /\ s[i] = t[i - 1]
  BY <1>1
<1>3. IsInjective(t)
  BY <1>1 DEF IsInjective
<1>4. Head(s) \in Range(s)
  BY <1>1 DEF Range
<1>5. Range(t) \subseteq Range(s) \ {Head(s)}
  BY <1>1 DEF Range, IsInjective
<1>6. Range(s) \ {Head(s)} \subseteq Range(t)
  BY <1>1, <1>2 DEF Range
<1> QED
  BY <1>3, <1>4, <1>5, <1>6 DEF t

\* Cutting one position out of a tier takes that id and no other.
LEMMA DropAtRange ==
    ASSUME NEW S, NEW s \in Seq(S), NEW i \in DOMAIN s, IsInjective(s)
    PROVE  /\ Range(DropAt(s, i)) = Range(s) \ {s[i]}
           /\ IsInjective(DropAt(s, i))
<1> DEFINE t == DropAt(s, i)
           a == SubSeq(s, 1, i - 1)
           b == SubSeq(s, i + 1, Len(s))
<1>1. /\ Len(s) \in Nat /\ DOMAIN s = 1 .. Len(s) /\ i \in 1 .. Len(s)
  OBVIOUS
<1>2. /\ a \in Seq(S) /\ Len(a) = i - 1
      /\ \A k \in 1 .. i - 1 : a[k] = s[k]
  BY <1>1
<1>3. /\ b \in Seq(S) /\ Len(b) = Len(s) - i
      /\ \A k \in 1 .. Len(s) - i : b[k] = s[i + k]
  BY <1>1
<1>4. t = a \o b
  BY DEF DropAt
<1> HIDE DEF a, b, t
<1>5. /\ DOMAIN t = 1 .. Len(s) - 1
      /\ \A k \in 1 .. Len(s) - 1 : t[k] = IF k < i THEN s[k] ELSE s[k + 1]
  <2>0. Len(a) + Len(b) = Len(s) - 1
    BY <1>1, <1>2, <1>3
  <2>a. /\ a \o b \in Seq(S) /\ Len(a \o b) = Len(a) + Len(b)
        /\ \A k \in 1 .. Len(a) + Len(b) :
             (a \o b)[k] = IF k <= Len(a) THEN a[k] ELSE b[k - Len(a)]
    BY <1>2, <1>3, ConcatProperties, Zenon
  <2>1. /\ Len(t) = Len(s) - 1 /\ t \in Seq(S)
        /\ \A k \in 1 .. Len(s) - 1 : t[k] = IF k <= Len(a) THEN a[k] ELSE b[k - Len(a)]
    BY <1>4, <2>0, <2>a, Zenon
  <2>2. ASSUME NEW k \in 1 .. Len(s) - 1, ~(k < i) PROVE b[k - (i - 1)] = s[k + 1]
    <3>1. k - (i - 1) \in 1 .. Len(s) - i
      BY <1>1, <2>2
    <3>2. i + (k - (i - 1)) = k + 1
      BY <1>1
    <3> QED BY <1>3, <3>1, <3>2
  <2> QED BY <1>1, <1>2, <2>1, <2>2
<1>6. IsInjective(t)
  <2> SUFFICES ASSUME NEW x \in 1 .. Len(s) - 1, NEW y \in 1 .. Len(s) - 1, t[x] = t[y]
               PROVE  x = y
    BY <1>5 DEF IsInjective
  <2> DEFINE p(n) == IF n < i THEN n ELSE n + 1
  <2>1. p(x) \in DOMAIN s /\ p(y) \in DOMAIN s /\ t[x] = s[p(x)] /\ t[y] = s[p(y)]
    BY <1>1, <1>5
  <2>2. p(x) = p(y)
    BY <2>1 DEF IsInjective
  <2> QED BY <1>1, <2>2
<1>7. Range(t) \subseteq Range(s) \ {s[i]}
  <2> SUFFICES ASSUME NEW k \in 1 .. Len(s) - 1 PROVE t[k] \in Range(s) /\ t[k] # s[i]
    BY <1>5 DEF Range
  <2> DEFINE m == IF k < i THEN k ELSE k + 1
  <2>1. m \in DOMAIN s /\ m # i /\ t[k] = s[m]
    BY <1>1, <1>5
  <2> QED BY <1>1, <2>1 DEF Range, IsInjective
<1>8. Range(s) \ {s[i]} \subseteq Range(t)
  <2> SUFFICES ASSUME NEW k \in 1 .. Len(s), s[k] # s[i] PROVE s[k] \in Range(t)
    BY <1>1 DEF Range
  <2>1. CASE k < i
    BY <1>1, <1>5, <2>1 DEF Range
  <2>2. CASE k > i
    <3>1. k - 1 \in 1 .. Len(s) - 1 /\ t[k - 1] = s[k]
      BY <1>1, <1>5, <2>2
    <3> QED BY <1>5, <3>1 DEF Range
  <2> QED BY <1>1, <2>1, <2>2
<1> QED
  BY <1>6, <1>7, <1>8 DEF t

\* A list without repetitions, cut in two.
LEMMA SplitRange ==
    ASSUME NEW S, NEW s \in Seq(S), NEW k \in 0 .. Len(s)
    PROVE  LET a == SubSeq(s, 1, k)
               b == SubSeq(s, k + 1, Len(s))
           IN  /\ a \in Seq(S) /\ b \in Seq(S)
               /\ Range(a) \cup Range(b) = Range(s)
               /\ Range(a) = {s[i] : i \in 1 .. k}
               /\ Range(b) = {s[i] : i \in k + 1 .. Len(s)}
               /\ IsInjective(s) => /\ IsInjective(a) /\ IsInjective(b)
                                    /\ Range(a) \cap Range(b) = {}
<1> DEFINE a == SubSeq(s, 1, k)
           b == SubSeq(s, k + 1, Len(s))
<1>1. /\ Len(s) \in Nat /\ DOMAIN s = 1 .. Len(s)
  OBVIOUS
<1>2. /\ a \in Seq(S) /\ DOMAIN a = 1 .. k
      /\ \A i \in 1 .. k : a[i] = s[i]
  BY <1>1
<1>3. /\ b \in Seq(S) /\ DOMAIN b = 1 .. Len(s) - k
      /\ \A i \in 1 .. Len(s) - k : b[i] = s[k + i]
  BY <1>1
<1> HIDE DEF a, b
<1>4. Range(a) = {s[i] : i \in 1 .. k}
  BY <1>1, <1>2 DEF Range
<1>5. Range(b) = {s[i] : i \in k + 1 .. Len(s)}
  <2>1. \A i \in k + 1 .. Len(s) : i - k \in 1 .. Len(s) - k /\ b[i - k] = s[i]
    BY <1>1, <1>3
  <2>2. \A i \in 1 .. Len(s) - k : k + i \in k + 1 .. Len(s)
    BY <1>1
  <2>3. Range(b) \subseteq {s[i] : i \in k + 1 .. Len(s)}
    BY <1>3, <2>2 DEF Range
  <2>4. {s[i] : i \in k + 1 .. Len(s)} \subseteq Range(b)
    BY <1>3, <2>1 DEF Range
  <2> QED BY <2>3, <2>4
<1>6. Range(a) \cup Range(b) = Range(s)
  <2>1. \A i \in 1 .. Len(s) : i \in 1 .. k \/ i \in k + 1 .. Len(s)
    BY <1>1
  <2>2. \A i \in 1 .. Len(s) : s[i] \in Range(a) \cup Range(b)
    BY <1>4, <1>5, <2>1
  <2>3. (\A i \in 1 .. k : i \in DOMAIN s) /\ (\A i \in k + 1 .. Len(s) : i \in DOMAIN s)
    BY <1>1
  <2>4. Range(a) \subseteq Range(s) /\ Range(b) \subseteq Range(s)
    BY <1>4, <1>5, <2>3 DEF Range
  <2>5. Range(s) \subseteq Range(a) \cup Range(b)
    BY <1>1, <2>2 DEF Range
  <2> QED BY <2>4, <2>5
<1>7. ASSUME IsInjective(s)
      PROVE  IsInjective(a) /\ IsInjective(b) /\ Range(a) \cap Range(b) = {}
  <2>1. IsInjective(a)
    BY <1>1, <1>2, <1>7 DEF IsInjective
  <2>2. IsInjective(b)
    <3> SUFFICES ASSUME NEW x \in 1 .. Len(s) - k, NEW y \in 1 .. Len(s) - k, b[x] = b[y]
                 PROVE  x = y
      BY <1>3 DEF IsInjective
    <3>1. k + x \in DOMAIN s /\ k + y \in DOMAIN s /\ s[k + x] = s[k + y]
      BY <1>1, <1>3
    <3>2. k + x = k + y
      BY <1>7, <3>1 DEF IsInjective
    <3> QED BY <3>2
  <2>3. Range(a) \cap Range(b) = {}
    BY <1>1, <1>4, <1>5, <1>7 DEF IsInjective
  <2> QED BY <2>1, <2>2, <2>3
<1> QED
  BY <1>2, <1>3, <1>4, <1>5, <1>6, <1>7 DEF a, b

\* A list without repetitions is as long as its set of ids is large.
LEMMA RangeCardinality ==
    ASSUME NEW S, NEW s \in Seq(S), IsInjective(s)
    PROVE  IsFiniteSet(Range(s)) /\ Cardinality(Range(s)) = Len(s)
<1>1. Len(s) \in Nat /\ DOMAIN s = 1 .. Len(s)
  OBVIOUS
<1>2. s \in Bijection(1 .. Len(s), Range(s))
  BY <1>1 DEF Range, IsInjective, Bijection, Injection, Surjection
<1>3. ExistsBijection(1 .. Len(s), Range(s))
  BY <1>2, Zenon DEF ExistsBijection
<1>4. IsFiniteSet(1 .. Len(s))
  BY <1>1, FS_Interval
<1>5. IsFiniteSet(Range(s))
  BY <1>3, <1>4, FS_Bijection
<1>6. Cardinality(Range(s)) = Len(s)
  BY <1>1, <1>3, FS_CountingElements
<1> QED
  BY <1>5, <1>6
-----------------------------------------------------------------------------
(* Type correctness.                                                       *)

\* Taking one id out of a tier leaves a shorter sequence of ids.
LEMMA DropAtType ==
    ASSUME NEW s \in Seq(Jobs), NEW i \in DOMAIN s
    PROVE  DropAt(s, i) \in Seq(Jobs) /\ Len(DropAt(s, i)) = Len(s) - 1
<1> DEFINE a == SubSeq(s, 1, i - 1)
           b == SubSeq(s, i + 1, Len(s))
<1>1. i \in 1 .. Len(s) /\ Len(s) \in Nat
  OBVIOUS
<1>2. a \in Seq(Jobs) /\ Len(a) = i - 1
  BY <1>1
<1>3. b \in Seq(Jobs) /\ Len(b) = Len(s) - i
  BY <1>1
<1> HIDE DEF a, b
<1>4. a \o b \in Seq(Jobs) /\ Len(a \o b) = Len(a) + Len(b)
  BY <1>2, <1>3
<1>5. DropAt(s, i) = a \o b
  BY DEF DropAt, a, b
<1> QED
  BY <1>1, <1>2, <1>3, <1>4, <1>5

\* What the tiers and the channel look like after the steps that touch them.
LEMMA SignalType ==
    ASSUME TypeOK
    PROVE  /\ signalOne => notify' \in 0 .. NotifyCap
           /\ signalAvailable => notify' \in 0 .. NotifyCap
           /\ stopWaiting => waiters' \in Nat
BY DEF TypeOK, signalOne, signalAvailable, stopWaiting, Total

LEMMA PutType ==
    ASSUME TypeOK, NEW j \in Jobs, Put(j)
    PROVE  /\ normal' \in Seq(Jobs) /\ batch' \in Seq(Jobs)
           /\ Total' = Total + 1
           /\ notify' \in 0 .. NotifyCap
           /\ owed' \subseteq Jobs
<1>1. notify' \in 0 .. NotifyCap
  BY SignalType DEF Put, TypeOK
<1>2. owed' \subseteq Jobs
  BY DEF Put, TypeOK
<1>3. /\ normal \in Seq(Jobs) /\ batch \in Seq(Jobs)
      /\ Append(normal, j) \in Seq(Jobs) /\ Len(Append(normal, j)) = Len(normal) + 1
      /\ Append(batch, j) \in Seq(Jobs) /\ Len(Append(batch, j)) = Len(batch) + 1
  BY DEF TypeOK
<1>4. \/ batch' = Append(batch, j) /\ normal' = normal
      \/ normal' = Append(normal, j) /\ batch' = batch
  BY DEF Put
<1>5. normal' \in Seq(Jobs) /\ batch' \in Seq(Jobs)
  BY <1>3, <1>4
<1>6. Total' = Total + 1
  BY SMTT(30), <1>3, <1>4 DEF Total
<1> QED
  BY <1>1, <1>2, <1>5, <1>6

LEMMA RemoveType ==
    ASSUME TypeOK, NEW j \in Jobs, Remove(j)
    PROVE  /\ normal' \in Seq(Jobs) /\ batch' \in Seq(Jobs)
           /\ Total' = Total - 1
<1>1. normal \in Seq(Jobs) /\ batch \in Seq(Jobs)
  BY DEF TypeOK
<1>2. CASE \E i \in DOMAIN normal :
             IsFirstAt(normal, i, j) /\ normal' = DropAt(normal, i) /\ batch' = batch
  <2> PICK i \in DOMAIN normal : normal' = DropAt(normal, i) /\ batch' = batch
    BY <1>2
  <2>1. normal' \in Seq(Jobs) /\ Len(normal') = Len(normal) - 1
    BY <1>1, DropAtType
  <2> QED BY <1>1, <2>1 DEF Total
<1>3. CASE \E i \in DOMAIN batch :
             /\ j \notin Range(normal) /\ IsFirstAt(batch, i, j)
             /\ batch' = DropAt(batch, i) /\ normal' = normal
  <2> PICK i \in DOMAIN batch : batch' = DropAt(batch, i) /\ normal' = normal
    BY <1>3
  <2>1. batch' \in Seq(Jobs) /\ Len(batch') = Len(batch) - 1
    BY <1>1, DropAtType
  <2> QED BY <1>1, <2>1 DEF Total
<1> QED
  BY <1>2, <1>3 DEF Remove

LEMMA ReorderType ==
    ASSUME TypeOK, NEW list \in [1 .. Total -> Jobs], Reorder(list)
    PROVE  /\ normal' \in Seq(Jobs) /\ batch' \in Seq(Jobs)
           /\ Total' = Total
           /\ notify' \in 0 .. NotifyCap
<1>1. Total \in Nat
  BY DEF TypeOK, Total
<1>2. list \in Seq(Jobs) /\ Len(list) = Total
  BY <1>1
<1>3. PICK k \in 0 .. Len(list) :
        normal' = SubSeq(list, 1, k) /\ batch' = SubSeq(list, k + 1, Len(list))
  BY DEF Reorder
<1>4. normal' \in Seq(Jobs) /\ Len(normal') = k
  BY <1>1, <1>2, <1>3
<1>5. batch' \in Seq(Jobs) /\ Len(batch') = Total - k
  BY <1>1, <1>2, <1>3
<1>6. notify' \in 0 .. NotifyCap
  BY SignalType DEF Reorder, TypeOK
<1> QED
  BY <1>1, <1>2, <1>4, <1>5, <1>6 DEF Total

\* Every step keeps the types.
LEMMA TypeStep ==
    ASSUME TypeOK, [Next]_vars
    PROVE  TypeOK'
<1> USE DEF queueVars
<1>1. ASSUME NEW j \in Jobs, Enqueue(j)
      PROVE  TypeOK'
  <2>1. CASE Put(j)
    BY <1>1, <2>1, PutType DEF Enqueue, Put, TypeOK
  <2>2. CASE PutClosed
    BY <1>1, <2>2 DEF Enqueue, PutClosed, TypeOK
  <2> QED BY <1>1, <2>1, <2>2 DEF Enqueue
<1>2. ASSUME NEW j \in Jobs, Remove(j)
      PROVE  TypeOK'
  BY <1>2, RemoveType DEF Remove, TypeOK
<1>3. CASE Pause
  BY <1>3 DEF Pause, TypeOK
<1>4. CASE Resume
  BY <1>4, SignalType DEF Resume, TypeOK
<1>5. CASE ReorderRequest
  <2> PICK list \in [1 .. Total -> Jobs] : Reorder(list)
    BY <1>5 DEF ReorderRequest
  <2> QED BY ReorderType DEF Reorder, TypeOK
<1>6. CASE Close
  BY <1>6 DEF Close, TypeOK
<1>7. ASSUME NEW w \in Workers, DequeueNormal(w)
      PROVE  TypeOK'
  <2>1. Head(normal) \in Jobs /\ Tail(normal) \in Seq(Jobs)
    BY <1>7 DEF DequeueNormal, TypeOK
  <2> QED BY <1>7, <2>1 DEF DequeueNormal, Take, Goto, TypeOK, Pcs
<1>8. ASSUME NEW w \in Workers, DequeueBatch(w)
      PROVE  TypeOK'
  <2>1. Head(batch) \in Jobs /\ Tail(batch) \in Seq(Jobs)
    BY <1>8 DEF DequeueBatch, TypeOK
  <2> QED BY <1>8, <2>1 DEF DequeueBatch, Take, Goto, TypeOK, Pcs
<1>9. ASSUME NEW w \in Workers,
             DequeueClosed(w) \/ DequeueWait(w) \/ SelectNotify(w)
               \/ SelectClosed(w) \/ SelectDone(w)
      PROVE  TypeOK'
  BY <1>9 DEF DequeueClosed, DequeueWait, SelectNotify, SelectClosed, SelectDone,
              Goto, TypeOK, Pcs
<1>10. ASSUME NEW w \in Workers, Rewait(w) \/ Leave(w)
       PROVE  TypeOK'
  BY <1>10, SignalType DEF Rewait, Leave, Goto, TypeOK, Pcs
<1>11. ASSUME NEW w \in Workers, Finish(w)
       PROVE  TypeOK'
  BY <1>11 DEF Finish, Goto, TypeOK, Pcs
<1>12. ASSUME NEW w \in Workers, Reenqueue(w)
       PROVE  TypeOK'
  <2>1. held[w] \in Jobs
    BY <1>12 DEF Reenqueue, TypeOK
  <2>2. CASE Put(held[w])
    BY <1>12, <2>1, <2>2, PutType DEF Reenqueue, Put, Goto, TypeOK, Pcs
  <2>3. CASE PutClosed
    BY <1>12, <2>3 DEF Reenqueue, PutClosed, Goto, TypeOK, Pcs
  <2> QED BY <1>12, <2>2, <2>3 DEF Reenqueue
<1>13. ASSUME NEW w \in Workers, NEW done \in BOOLEAN, Spawn(w, done)
       PROVE  TypeOK'
  BY <1>13 DEF Spawn, Goto, TypeOK, Pcs
<1>14. ASSUME NEW S \in SUBSET Workers, CancelCtx(S)
       PROVE  TypeOK'
  BY <1>14 DEF CancelCtx, TypeOK
<1>15. CASE UNCHANGED vars
  BY <1>15 DEF vars, TypeOK
<1>16. CASE Operation
  BY <1>16, <1>1, <1>2, <1>3, <1>4, <1>5 DEF Operation
<1>17. CASE Pool
  BY <1>17, <1>6, <1>13, <1>14 DEF Pool
<1>18. ASSUME NEW w \in Workers, Worker(w)
       PROVE  TypeOK'
  BY <1>18, <1>7, <1>8, <1>9, <1>10, <1>11, <1>12 DEF Worker, Dequeue
<1> QED
  BY <1>15, <1>16, <1>17, <1>18 DEF Next

\* The initial state has the types.
LEMMA TypeInit == Init => TypeOK
<1> SUFFICES ASSUME Init PROVE TypeOK
  OBVIOUS
<1>1. normal \in Seq(Jobs) /\ batch \in Seq(Jobs)
  BY DEF Init
<1>2. waiters \in Nat /\ notify \in 0 .. NotifyCap
  BY DEF Init
<1>3. pc \in [Workers -> Pcs] /\ held \in [Workers -> Jobs \cup {None}]
  BY DEF Init, Pcs
<1>4. \A w \in Workers : pc[w] = "off"
  BY DEF Init
<1> QED
  BY <1>1, <1>2, <1>3, <1>4 DEF Init, TypeOK

\* TypeOK: the queue's slices hold job ids, the channel never holds more
\* tokens than its capacity, and a running worker has a job.
THEOREM TypeCorrect == Spec => []TypeOK
<1>1. Init => TypeOK
  BY TypeInit
<1>2. TypeOK /\ [Next]_vars => TypeOK'
  BY TypeStep
<1> QED
  BY <1>1, <1>2, PTL DEF Spec

-----------------------------------------------------------------------------
(* No lost wake-up.                                                        *)

\* EnoughWakeups alone is not inductive: a sender looks at waiters, so the
\* argument needs that this count covers every blocked worker.
WakeInv == TypeOK /\ WaitersExact /\ EnoughWakeups

\* The numbers the invariant compares.
LEMMA WakeNumbers ==
    ASSUME WakeInv
    PROVE  /\ Cardinality(Blocked) \in Nat /\ Cardinality(Awake) \in Nat
           /\ Cardinality(Blocked) <= waiters
           /\ Cardinality(Blocked) <= NotifyCap
           /\ waiters \in Nat /\ notify \in 0 .. NotifyCap /\ Total \in Nat
<1>1. Cardinality(Blocked) <= Cardinality(Counted)
  BY AtMono DEF Blocked, Counted
<1>2. /\ Cardinality(Blocked) \in Nat /\ Cardinality(Awake) \in Nat
      /\ Cardinality(Blocked) <= Cardinality(Workers)
  BY AtFinite DEF Blocked, Awake
<1>3. Cardinality(Workers) \in Nat
  BY FS_CardinalityType
<1>4. waiters \in Nat /\ notify \in 0 .. NotifyCap /\ Total \in Nat
  BY DEF WakeInv, TypeOK, Total
<1> QED
  BY <1>1, <1>2, <1>3, <1>4 DEF WakeInv, WaitersExact

\* A step that moves no goroutine keeps the three counted sets.
LEMMA NobodyMoves ==
    ASSUME pc' = pc
    PROVE  Blocked' = Blocked /\ Awake' = Awake /\ Counted' = Counted
BY DEF Blocked, Awake, Counted, At

\* Steps that only add jobs or tokens: Enqueue.
LEMMA PutWakes ==
    ASSUME WakeInv, NEW j \in Jobs, Put(j)
    PROVE  ~paused /\ ~closed =>
             \/ notify' >= Cardinality(Blocked)
             \/ Total' <= notify' + Cardinality(Awake)
<1>1. Total' = Total + 1 /\ notify' \in 0 .. NotifyCap
  BY PutType DEF WakeInv
<1>2. ~paused => notify' = IF waiters >= 1 /\ notify < NotifyCap THEN notify + 1 ELSE notify
  BY DEF Put, signalOne
<1> QED
  BY <1>1, <1>2, WakeNumbers DEF WakeInv, EnoughWakeups

\* A signal for what is available restores the invariant by itself.
LEMMA SignalWakes ==
    ASSUME WakeInv, signalAvailable
    PROVE  \/ notify' >= Cardinality(Blocked)
           \/ Total <= notify'
BY WakeNumbers DEF signalAvailable

LEMMA WakeStep ==
    ASSUME WakeInv, [Next]_vars
    PROVE  WakeInv'
<1> USE DEF queueVars
<1>0. TypeOK'
  BY TypeStep DEF WakeInv
<1>a. pc \in [Workers -> Pcs]
  BY DEF WakeInv, TypeOK
<1>b. ASSUME pc' = pc, waiters' = waiters
      PROVE  WaitersExact'
  BY <1>b, NobodyMoves DEF WakeInv, WaitersExact
<1>1. ASSUME NEW j \in Jobs, Enqueue(j)
      PROVE  WakeInv'
  <2>1. WaitersExact'
    BY <1>1, <1>b DEF Enqueue, Put, PutClosed
  <2>2. CASE Put(j)
    <3>1. ~paused' /\ ~closed' => ~paused /\ ~closed
      BY <2>2 DEF Put
    <3> QED BY <1>0, <1>1, <2>1, <2>2, <3>1, PutWakes, NobodyMoves
            DEF WakeInv, EnoughWakeups, Enqueue
  <2>3. CASE PutClosed
    BY <1>0, <1>1, <2>1, <2>3 DEF WakeInv, EnoughWakeups, PutClosed
  <2> QED BY <1>1, <2>2, <2>3 DEF Enqueue
<1>2. ASSUME NEW j \in Jobs, Remove(j)
      PROVE  WakeInv'
  <2>1. Total' = Total - 1
    BY <1>2, RemoveType DEF WakeInv
  <2>2. WaitersExact'
    BY <1>2, <1>b DEF Remove
  <2>3. Blocked' = Blocked /\ Awake' = Awake
    BY <1>2, NobodyMoves DEF Remove
  <2> QED BY <1>0, <1>2, <2>1, <2>2, <2>3, WakeNumbers
          DEF WakeInv, EnoughWakeups, Remove
<1>3. CASE Pause \/ Close
  BY <1>0, <1>3, <1>b DEF WakeInv, EnoughWakeups, Pause, Close
<1>4. CASE Resume
  <2>1. WaitersExact'
    BY <1>4, <1>b DEF Resume
  <2>2. Total' = Total /\ Blocked' = Blocked /\ Awake' = Awake
    BY <1>4, NobodyMoves DEF Resume, Total
  <2> QED BY <1>0, <1>4, <2>1, <2>2, SignalWakes, WakeNumbers
          DEF WakeInv, EnoughWakeups, Resume, TypeOK
<1>5. CASE ReorderRequest
  <2> PICK list \in [1 .. Total -> Jobs] : Reorder(list)
    BY <1>5 DEF ReorderRequest
  <2>1. WaitersExact'
    BY <1>b DEF Reorder
  <2>2. Total' = Total /\ Blocked' = Blocked /\ Awake' = Awake
    BY ReorderType, NobodyMoves DEF Reorder, WakeInv
  <2>3. paused' = paused /\ (~paused => signalAvailable)
    BY DEF Reorder
  <2>4. notify' \in Nat
    BY <1>0 DEF TypeOK
  <2>5. ~paused' => notify' >= Cardinality(Blocked') \/ Total' <= notify'
    BY <2>2, <2>3, SignalWakes
  <2>6. EnoughWakeups'
    BY <2>2, <2>4, <2>5, WakeNumbers DEF EnoughWakeups
  <2> QED BY <1>0, <2>1, <2>6 DEF WakeInv
<1>6. ASSUME NEW w \in Workers, pc[w] = "check", Goto(w, "running")
      PROVE  /\ Cardinality(Blocked') = Cardinality(Blocked)
             /\ Cardinality(Awake') = Cardinality(Awake) - 1
             /\ Cardinality(Counted') = Cardinality(Counted)
  BY <1>a, <1>6, MoveCounts DEF Blocked, Awake, Counted, Pcs
<1>7. ASSUME NEW w \in Workers, DequeueNormal(w) \/ DequeueBatch(w)
      PROVE  WakeInv'
  <2>1. Total' = Total - 1
    <3>1. normal \in Seq(Jobs) /\ batch \in Seq(Jobs)
      BY DEF WakeInv, TypeOK
    <3>2. \/ normal # << >> /\ normal' = Tail(normal) /\ batch' = batch
          \/ batch # << >> /\ batch' = Tail(batch) /\ normal' = normal
      BY <1>7 DEF DequeueNormal, DequeueBatch
    <3>3. \A s \in Seq(Jobs) : s # << >> => Len(Tail(s)) = Len(s) - 1 /\ Len(s) \in Nat
      OBVIOUS
    <3>4. Len(normal) \in Nat /\ Len(batch) \in Nat
      BY <3>1
    <3>5. \/ Len(normal') = Len(normal) - 1 /\ Len(batch') = Len(batch)
          \/ Len(batch') = Len(batch) - 1 /\ Len(normal') = Len(normal)
      BY <3>1, <3>2, <3>3, Zenon
    <3> QED BY <3>4, <3>5 DEF Total
  <2>2. pc[w] = "check" /\ Goto(w, "running")
    BY <1>7 DEF DequeueNormal, DequeueBatch, Take
  <2>3. UNCHANGED <<paused, closed, waiters, notify>>
    BY <1>7 DEF DequeueNormal, DequeueBatch, Take
  <2> QED BY <1>0, <1>6, <2>1, <2>2, <2>3, WakeNumbers
          DEF WakeInv, EnoughWakeups, WaitersExact
<1>8. ASSUME NEW w \in Workers, DequeueWait(w)
      PROVE  WakeInv'
  <2>1. Cardinality(Counted') = Cardinality(Counted) + 1
    BY <1>a, <1>8, MoveCounts DEF DequeueWait, Counted, Pcs
  <2>2. WaitersExact'
    BY <1>8, <2>1 DEF DequeueWait, WakeInv, WaitersExact
  <2>3. EnoughWakeups'
    <3>1. ~paused' /\ ~closed' => Total' = 0
      BY <1>8 DEF DequeueWait, Total
    <3>2. notify' \in Nat /\ Cardinality(Awake') \in Nat
      BY <1>0, <1>a, <1>8, MoveCounts DEF DequeueWait, Awake, Pcs, TypeOK
    <3> QED BY <3>1, <3>2 DEF EnoughWakeups
  <2> QED BY <1>0, <2>2, <2>3 DEF WakeInv
<1>9. ASSUME NEW w \in Workers, SelectNotify(w)
      PROVE  WakeInv'
  <2>1. /\ Cardinality(Blocked') = Cardinality(Blocked) - 1
        /\ Cardinality(Awake') = Cardinality(Awake) + 1
        /\ Cardinality(Counted') = Cardinality(Counted)
    BY <1>a, <1>9, MoveCounts DEF SelectNotify, Blocked, Awake, Counted, Pcs
  <2> QED BY <1>0, <1>9, <2>1, WakeNumbers
          DEF WakeInv, EnoughWakeups, WaitersExact, SelectNotify, Total
<1>10. ASSUME NEW w \in Workers, DequeueClosed(w) \/ SelectClosed(w)
       PROVE  WakeInv'
  <2>1. Cardinality(Counted') = Cardinality(Counted)
    BY <1>a, <1>10, MoveCounts DEF DequeueClosed, SelectClosed, Counted, Pcs
  <2> QED BY <1>0, <1>10, <2>1
          DEF WakeInv, EnoughWakeups, WaitersExact, DequeueClosed, SelectClosed
<1>11. ASSUME NEW w \in Workers, SelectDone(w)
       PROVE  WakeInv'
  <2>1. /\ Cardinality(Blocked') = Cardinality(Blocked) - 1
        /\ Cardinality(Awake') = Cardinality(Awake)
        /\ Cardinality(Counted') = Cardinality(Counted)
    BY <1>a, <1>11, MoveCounts DEF SelectDone, Blocked, Awake, Counted, Pcs
  <2> QED BY <1>0, <1>11, <2>1, WakeNumbers
          DEF WakeInv, EnoughWakeups, WaitersExact, SelectDone, Total
<1>12. ASSUME NEW w \in Workers, Rewait(w) \/ Leave(w)
       PROVE  WakeInv'
  <2>1. /\ Cardinality(Blocked') = Cardinality(Blocked)
        /\ Cardinality(Awake') = Cardinality(Awake)
        /\ Cardinality(Counted') = Cardinality(Counted) - 1
        /\ Cardinality(Counted') \in Nat
    BY <1>a, <1>12, MoveCounts DEF Rewait, Leave, Blocked, Awake, Counted, Pcs
  <2>2. WaitersExact'
    BY <1>12, <2>1, WakeNumbers DEF WakeInv, WaitersExact, Rewait, Leave, stopWaiting
  <2> QED BY <1>0, <1>12, <2>1, <2>2
          DEF WakeInv, EnoughWakeups, Rewait, Leave, Total
<1>13. ASSUME NEW w \in Workers, pc[w] = "running", Goto(w, "check")
       PROVE  /\ Cardinality(Blocked') = Cardinality(Blocked)
              /\ Cardinality(Awake') = Cardinality(Awake) + 1
              /\ Cardinality(Counted') = Cardinality(Counted)
  BY <1>a, <1>13, MoveCounts DEF Blocked, Awake, Counted, Pcs
<1>14. ASSUME NEW w \in Workers, Finish(w)
       PROVE  WakeInv'
  BY <1>0, <1>13, <1>14, WakeNumbers
  DEF WakeInv, EnoughWakeups, WaitersExact, Finish, Total
<1>15. ASSUME NEW w \in Workers, Reenqueue(w)
       PROVE  WakeInv'
  <2>1. pc[w] = "running" /\ Goto(w, "check") /\ waiters' = waiters /\ held[w] \in Jobs
    BY <1>15 DEF Reenqueue, Put, PutClosed, WakeInv, TypeOK
  <2>2. CASE Put(held[w])
    <3>1. paused' = paused /\ closed' = closed
      BY <2>2 DEF Put
    <3>2. Total' = Total + 1 /\ notify' \in 0 .. NotifyCap
      BY <2>1, <2>2, PutType DEF WakeInv
    <3> QED BY <1>0, <1>13, <2>1, <2>2, <3>1, <3>2, PutWakes, WakeNumbers
            DEF WakeInv, EnoughWakeups, WaitersExact
  <2>3. CASE PutClosed
    BY <1>0, <1>13, <2>1, <2>3
    DEF WakeInv, EnoughWakeups, WaitersExact, PutClosed
  <2> QED BY <1>15, <2>2, <2>3 DEF Reenqueue
<1>16. ASSUME NEW w \in Workers, NEW done \in BOOLEAN, Spawn(w, done)
       PROVE  WakeInv'
  <2>1. /\ Cardinality(Blocked') = Cardinality(Blocked)
        /\ Cardinality(Awake') = Cardinality(Awake) + 1
        /\ Cardinality(Counted') = Cardinality(Counted)
    BY <1>a, <1>16, MoveCounts DEF Spawn, Blocked, Awake, Counted, Pcs
  <2> QED BY <1>0, <1>16, <2>1, WakeNumbers
          DEF WakeInv, EnoughWakeups, WaitersExact, Spawn, Total
<1>17. ASSUME NEW S \in SUBSET Workers, CancelCtx(S)
       PROVE  WakeInv'
  <2>1. UNCHANGED <<queueVars, pc>>
    BY <1>17 DEF CancelCtx
  <2> QED BY <1>0, <1>b, <2>1, NobodyMoves DEF WakeInv, EnoughWakeups, Total
<1>18. CASE UNCHANGED vars
  BY <1>0, <1>18, <1>b, NobodyMoves DEF WakeInv, EnoughWakeups, vars, Total
<1>19. CASE Operation
  BY <1>19, <1>1, <1>2, <1>3, <1>4, <1>5 DEF Operation
<1>20. CASE Pool
  BY <1>20, <1>3, <1>16, <1>17 DEF Pool
<1>21. ASSUME NEW w \in Workers, Worker(w)
       PROVE  WakeInv'
  BY <1>21, <1>7, <1>8, <1>9, <1>10, <1>11, <1>12, <1>14, <1>15 DEF Worker, Dequeue
<1> QED
  BY <1>18, <1>19, <1>20, <1>21 DEF Next

\* The wake-up invariant holds in every reachable state: a worker never
\* sleeps in Dequeue beside a job nobody is on the way to take, for any
\* number of workers up to the capacity of the channel.
THEOREM NoLostWakeup == Spec => [](WaitersExact /\ EnoughWakeups)
<1>1. Init => WakeInv
  <2> SUFFICES ASSUME Init PROVE WakeInv
    OBVIOUS
  <2>1. Init => TypeOK
    BY TypeInit
  <2>2. Counted = {}
    BY DEF Init, Counted, At
  <2>3. Total = 0 /\ notify = 0 /\ waiters = 0
    BY DEF Init, Total
  <2>4. Cardinality(Awake) \in Nat
    BY AtFinite DEF Awake
  <2> QED BY <2>1, <2>2, <2>3, <2>4, FS_EmptySet
          DEF WakeInv, WaitersExact, EnoughWakeups
<1>2. WakeInv /\ [Next]_vars => WakeInv'
  BY WakeStep
<1>3. WakeInv => WaitersExact /\ EnoughWakeups
  BY DEF WakeInv
<1> QED
  BY <1>1, <1>2, <1>3, PTL DEF Spec
-----------------------------------------------------------------------------
(* Every job is in one place.                                              *)

\* The ids that no client has submitted are nowhere.
FreshNowhere ==
    /\ fresh \cap owed = {}
    /\ \A w \in At({"running"}) : held[w] \notin fresh

\* HoldsOwed and OneHolder need one another: Reenqueue appends the id of a
\* worker, which must not be queued, and Dequeue gives a queued id to a worker,
\* which no other may have.
HoldInv == TypeOK /\ HoldsOwed /\ OneHolder /\ FreshNowhere

LEMMA PutHolds ==
    ASSUME TypeOK, HoldsOwed, NEW j \in Jobs, j \notin owed, Put(j)
    PROVE  HoldsOwed' /\ owed' = owed \cup {j}
<1>1. /\ normal \in Seq(Jobs) /\ batch \in Seq(Jobs)
      /\ j \notin Range(normal) /\ j \notin Range(batch)
  BY DEF TypeOK, HoldsOwed, Queued
<1>2. owed' = owed \cup {j}
  BY DEF Put
<1>3. CASE batch' = Append(batch, j) /\ normal' = normal
  <2>1. Range(batch') = Range(batch) \cup {j} /\ IsInjective(batch')
    BY <1>1, <1>3, AppendRange DEF HoldsOwed
  <2> QED BY <1>1, <1>2, <1>3, <2>1 DEF HoldsOwed, Queued
<1>4. CASE normal' = Append(normal, j) /\ batch' = batch
  <2>1. Range(normal') = Range(normal) \cup {j} /\ IsInjective(normal')
    BY <1>1, <1>4, AppendRange DEF HoldsOwed
  <2> QED BY <1>1, <1>2, <1>4, <2>1 DEF HoldsOwed, Queued
<1> QED
  BY <1>2, <1>3, <1>4 DEF Put

LEMMA RemoveHolds ==
    ASSUME TypeOK, HoldsOwed, NEW j \in Jobs, Remove(j)
    PROVE  HoldsOwed' /\ owed' = owed \ {j}
<1>1. /\ normal \in Seq(Jobs) /\ batch \in Seq(Jobs)
      /\ IsInjective(normal) /\ IsInjective(batch)
  BY DEF TypeOK, HoldsOwed
<1>2. owed' = owed \ {j}
  BY DEF Remove
<1>3. CASE \E i \in DOMAIN normal :
             IsFirstAt(normal, i, j) /\ normal' = DropAt(normal, i) /\ batch' = batch
  <2>0. PICK i \in DOMAIN normal :
             normal[i] = j /\ normal' = DropAt(normal, i) /\ batch' = batch
    BY <1>3 DEF IsFirstAt
  <2>1. Range(normal') = Range(normal) \ {j} /\ IsInjective(normal')
    BY <1>1, <2>0, DropAtRange
  <2>2. j \in Range(normal)
    BY <2>0 DEF Range
  <2> QED BY <1>1, <1>2, <2>0, <2>1, <2>2 DEF HoldsOwed, Queued
<1>4. CASE \E i \in DOMAIN batch :
             /\ j \notin Range(normal) /\ IsFirstAt(batch, i, j)
             /\ batch' = DropAt(batch, i) /\ normal' = normal
  <2>0. PICK i \in DOMAIN batch :
             batch[i] = j /\ batch' = DropAt(batch, i) /\ normal' = normal
    BY <1>4 DEF IsFirstAt
  <2>1. Range(batch') = Range(batch) \ {j} /\ IsInjective(batch')
    BY <1>1, <2>0, DropAtRange
  <2>2. j \in Range(batch)
    BY <2>0 DEF Range
  <2> QED BY <1>1, <1>2, <2>0, <2>1, <2>2 DEF HoldsOwed, Queued
<1> QED
  BY <1>3, <1>4 DEF Remove

\* A list that Reorder accepts and that names no id twice names every queued
\* id: it is as long as the queue and names only queued ids.
LEMMA ReorderHolds ==
    ASSUME TypeOK, HoldsOwed, NEW list \in [1 .. Total -> Jobs], IsInjective(list),
           Reorder(list)
    PROVE  HoldsOwed'
<1>1. /\ normal \in Seq(Jobs) /\ batch \in Seq(Jobs)
      /\ IsInjective(normal) /\ IsInjective(batch)
      /\ Total \in Nat
  BY DEF TypeOK, HoldsOwed, Total
<1>2. list \in Seq(Jobs) /\ Len(list) = Total /\ DOMAIN list = 1 .. Total
  BY <1>1
<1>3. PICK k \in 0 .. Len(list) :
        /\ \A i \in 1 .. k : list[i] \in Range(normal) \ Range(batch)
        /\ \A i \in k + 1 .. Len(list) : list[i] \in Range(batch)
        /\ normal' = SubSeq(list, 1, k)
        /\ batch' = SubSeq(list, k + 1, Len(list))
  BY DEF Reorder
<1>4. /\ Range(normal') \cup Range(batch') = Range(list)
      /\ IsInjective(normal') /\ IsInjective(batch')
      /\ Range(normal') \cap Range(batch') = {}
  BY <1>2, <1>3, SplitRange
<1>5. Range(list) \subseteq Queued
  <2>1. \A i \in 1 .. Len(list) : i \in 1 .. k \/ i \in k + 1 .. Len(list)
    BY <1>1, <1>2
  <2> QED BY <1>2, <1>3, <2>1 DEF Range, Queued
<1>6. /\ IsFiniteSet(Range(normal)) /\ IsFiniteSet(Range(batch))
      /\ Cardinality(Range(normal)) = Len(normal)
      /\ Cardinality(Range(batch)) = Len(batch)
      /\ IsFiniteSet(Range(list)) /\ Cardinality(Range(list)) = Total
  BY <1>1, <1>2, RangeCardinality
<1>7. /\ IsFiniteSet(Queued)
      /\ Cardinality(Queued) = Cardinality(Range(normal)) + Cardinality(Range(batch))
                                 - Cardinality(Range(normal) \cap Range(batch))
  BY <1>6, FS_Union DEF Queued
<1>8. Cardinality(Range(normal) \cap Range(batch)) = 0
  BY FS_EmptySet DEF HoldsOwed
<1>9. Cardinality(Queued) = Total
  BY <1>1, <1>6, <1>7, <1>8 DEF Total
<1>10. Range(list) = Queued
  BY <1>5, <1>6, <1>7, <1>9, FS_Subset
<1>11. owed' = owed
  BY DEF Reorder
<1>12. Queued' = owed'
  BY <1>4, <1>10, <1>11 DEF HoldsOwed, Queued
<1> QED
  BY <1>4, <1>12 DEF HoldsOwed

\* Handing out the head of a tier.
LEMMA TakeHolds ==
    ASSUME TypeOK, HoldsOwed, NEW w \in Workers, DequeueNormal(w) \/ DequeueBatch(w)
    PROVE  \E j \in owed : HoldsOwed' /\ Take(w, j)
<1>1. /\ normal \in Seq(Jobs) /\ batch \in Seq(Jobs)
      /\ IsInjective(normal) /\ IsInjective(batch)
  BY DEF TypeOK, HoldsOwed
<1>2. CASE DequeueNormal(w)
  <2>1. /\ normal # << >> /\ normal' = Tail(normal) /\ batch' = batch
        /\ Take(w, Head(normal))
    BY <1>2 DEF DequeueNormal
  <2>2. /\ Head(normal) \in Range(normal) /\ IsInjective(normal')
        /\ Range(normal') = Range(normal) \ {Head(normal)}
    BY <1>1, <2>1, TailRange
  <2>3. owed' = owed \ {Head(normal)} /\ Head(normal) \in owed
    BY <2>1, <2>2 DEF Take, HoldsOwed, Queued
  <2>4. HoldsOwed'
    BY <2>1, <2>2, <2>3 DEF HoldsOwed, Queued
  <2> QED BY <2>1, <2>3, <2>4
<1>3. CASE DequeueBatch(w)
  <2>1. /\ batch # << >> /\ batch' = Tail(batch) /\ normal' = normal
        /\ Take(w, Head(batch))
    BY <1>3 DEF DequeueBatch
  <2>2. /\ Head(batch) \in Range(batch) /\ IsInjective(batch')
        /\ Range(batch') = Range(batch) \ {Head(batch)}
    BY <1>1, <2>1, TailRange
  <2>3. owed' = owed \ {Head(batch)} /\ Head(batch) \in owed
    BY <2>1, <2>2 DEF Take, HoldsOwed, Queued
  <2>4. HoldsOwed'
    BY <2>1, <2>2, <2>3 DEF HoldsOwed, Queued
  <2> QED BY <2>1, <2>3, <2>4
<1> QED
  BY <1>2, <1>3

LEMMA HoldStep ==
    ASSUME RepeatedIds = FALSE, HoldInv, [Next]_vars
    PROVE  HoldInv'
<1> USE DEF queueVars
<1>0. TypeOK' /\ pc \in [Workers -> Pcs] /\ held \in [Workers -> Jobs \cup {None}]
  BY TypeStep DEF HoldInv, TypeOK
<1>a. ASSUME UNCHANGED <<normal, batch, owed>>
      PROVE  HoldsOwed'
  BY <1>a DEF HoldInv, HoldsOwed, Queued
<1>b. ASSUME UNCHANGED <<normal, batch, owed, fresh, held>>,
             At({"running"})' = At({"running"})
      PROVE  HoldInv'
  BY <1>0, <1>a, <1>b DEF HoldInv, OneHolder, FreshNowhere
<1>c. ASSUME NEW w \in Workers, NEW label \in Pcs \ {"running"}, Goto(w, label)
      PROVE  At({"running"})' = At({"running"}) \ {w}
  BY <1>0, <1>c DEF At, Goto
<1>1. ASSUME NEW j \in Jobs, Enqueue(j)
      PROVE  HoldInv'
  <2>1. /\ j \in fresh /\ fresh' = fresh \ {j} /\ held' = held
        /\ At({"running"})' = At({"running"})
    BY <1>1 DEF Enqueue, At
  <2>2. CASE Put(j)
    <3>1. HoldsOwed' /\ owed' = owed \cup {j}
      BY <2>1, <2>2, PutHolds DEF HoldInv, FreshNowhere
    <3> QED BY <1>0, <2>1, <3>1 DEF HoldInv, OneHolder, FreshNowhere
  <2>3. CASE PutClosed
    <3>1. UNCHANGED <<normal, batch, owed>>
      BY <2>3 DEF PutClosed
    <3> QED BY <1>0, <1>a, <2>1, <3>1 DEF HoldInv, OneHolder, FreshNowhere
  <2> QED BY <1>1, <2>2, <2>3 DEF Enqueue
<1>2. ASSUME NEW j \in Jobs, Remove(j)
      PROVE  HoldInv'
  <2>1. HoldsOwed' /\ owed' = owed \ {j}
    BY <1>2, RemoveHolds DEF HoldInv
  <2>2. held' = held /\ fresh' = fresh /\ At({"running"})' = At({"running"})
    BY <1>2 DEF Remove, At
  <2> QED BY <1>0, <2>1, <2>2 DEF HoldInv, OneHolder, FreshNowhere
<1>3. CASE Pause \/ Resume \/ Close
  BY <1>3, <1>b DEF Pause, Resume, Close, At
<1>4. CASE ReorderRequest
  <2>1. PICK list \in [1 .. Total -> Jobs] : IsInjective(list) /\ Reorder(list)
    BY <1>4 DEF ReorderRequest
  <2>2. HoldsOwed'
    BY <2>1, ReorderHolds DEF HoldInv
  <2>3. UNCHANGED <<held, fresh, owed>> /\ At({"running"})' = At({"running"})
    BY <2>1 DEF Reorder, At
  <2> QED BY <1>0, <2>2, <2>3 DEF HoldInv, OneHolder, FreshNowhere
<1>5. ASSUME NEW w \in Workers, DequeueNormal(w) \/ DequeueBatch(w)
      PROVE  HoldInv'
  <2>1. PICK j \in owed : HoldsOwed' /\ Take(w, j)
    BY <1>5, TakeHolds DEF HoldInv
  <2>2. /\ At({"running"})' = At({"running"}) \cup {w} /\ held'[w] = j
        /\ \A v \in Workers \ {w} : held'[v] = held[v]
        /\ owed' = owed \ {j} /\ fresh' = fresh
    BY <1>0, <2>1 DEF Take, Goto, At
  <2>3. At({"running"}) \subseteq Workers
    BY DEF At
  <2>4. OneHolder'
    BY <2>1, <2>2, <2>3 DEF HoldInv, OneHolder
  <2>5. FreshNowhere'
    BY <2>1, <2>2, <2>3 DEF HoldInv, FreshNowhere
  <2> QED BY <1>0, <2>1, <2>4, <2>5 DEF HoldInv
<1>6. ASSUME NEW w \in Workers,
             \/ DequeueClosed(w) \/ DequeueWait(w) \/ SelectNotify(w) \/ SelectClosed(w)
             \/ SelectDone(w) \/ Rewait(w) \/ Leave(w)
      PROVE  HoldInv'
  <2>1. UNCHANGED <<normal, batch, owed, fresh, held>>
    BY <1>6 DEF DequeueClosed, DequeueWait, SelectNotify, SelectClosed, SelectDone,
                Rewait, Leave
  <2>2. pc[w] # "running" /\ \E label \in Pcs \ {"running"} : Goto(w, label)
    BY <1>6 DEF DequeueClosed, DequeueWait, SelectNotify, SelectClosed, SelectDone,
                Rewait, Leave, Pcs
  <2>3. At({"running"})' = At({"running"})
    BY <1>c, <2>2 DEF At
  <2> QED BY <1>b, <2>1, <2>3
<1>7. ASSUME NEW w \in Workers, Finish(w)
      PROVE  HoldInv'
  <2>1. At({"running"})' = At({"running"}) \ {w} /\ UNCHANGED <<normal, batch, owed, fresh>>
    BY <1>7, <1>c DEF Finish, Pcs
  <2>2. \A v \in Workers \ {w} : held'[v] = held[v]
    BY <1>0, <1>7 DEF Finish
  <2>3. At({"running"}) \subseteq Workers
    BY DEF At
  <2> QED BY <1>0, <1>a, <2>1, <2>2, <2>3 DEF HoldInv, OneHolder, FreshNowhere
<1>8. ASSUME NEW w \in Workers, Reenqueue(w)
      PROVE  HoldInv'
  <2>1. At({"running"})' = At({"running"}) \ {w} /\ fresh' = fresh
    BY <1>8, <1>c DEF Reenqueue, Pcs
  <2>2. \A v \in Workers \ {w} : held'[v] = held[v]
    BY <1>0, <1>8 DEF Reenqueue
  <2>3. At({"running"}) \subseteq Workers /\ w \in At({"running"}) /\ held[w] \in Jobs
    BY <1>8 DEF At, Reenqueue, HoldInv, TypeOK
  <2>4. held[w] \notin owed /\ held[w] \notin fresh
    BY <2>3 DEF HoldInv, OneHolder, FreshNowhere
  <2>5. CASE Put(held[w])
    <3>1. HoldsOwed' /\ owed' = owed \cup {held[w]}
      BY <2>3, <2>4, <2>5, PutHolds DEF HoldInv
    <3> QED BY <1>0, <2>1, <2>2, <2>3, <2>4, <3>1 DEF HoldInv, OneHolder, FreshNowhere
  <2>6. CASE PutClosed
    <3>1. UNCHANGED <<normal, batch, owed>>
      BY <2>6 DEF PutClosed
    <3> QED BY <1>0, <1>a, <2>1, <2>2, <2>3, <3>1 DEF HoldInv, OneHolder, FreshNowhere
  <2> QED BY <1>8, <2>5, <2>6 DEF Reenqueue
<1>9. ASSUME NEW w \in Workers, NEW done \in BOOLEAN, Spawn(w, done)
      PROVE  HoldInv'
  <2>1. At({"running"})' = At({"running"})
    BY <1>9, <1>c DEF Spawn, Pcs, At
  <2> QED BY <1>9, <1>b, <2>1 DEF Spawn
<1>10. ASSUME NEW S \in SUBSET Workers, CancelCtx(S)
       PROVE  HoldInv'
  BY <1>10, <1>b DEF CancelCtx, At
<1>11. CASE UNCHANGED vars
  BY <1>11, <1>b DEF vars, At
<1>12. CASE Operation
  BY <1>12, <1>1, <1>2, <1>3, <1>4 DEF Operation
<1>13. CASE Pool
  BY <1>13, <1>3, <1>9, <1>10 DEF Pool
<1>14. ASSUME NEW w \in Workers, Worker(w)
       PROVE  HoldInv'
  BY <1>14, <1>5, <1>6, <1>7, <1>8 DEF Worker, Dequeue
<1> QED
  BY <1>11, <1>12, <1>13, <1>14 DEF Next

LEMMA HoldInit == Init => HoldInv
<1> SUFFICES ASSUME Init PROVE HoldInv
  OBVIOUS
<1>1. TypeOK /\ At({"running"}) = {} /\ owed = {}
  BY TypeInit DEF Init, At
<1>2. normal = << >> /\ batch = << >> /\ DOMAIN << >> = {}
  BY DEF Init
<1>3. HoldsOwed
  BY <1>1, <1>2 DEF HoldsOwed, Queued, Range, IsInjective
<1> QED BY <1>1, <1>3 DEF HoldInv, OneHolder, FreshNowhere

\* No operation of the queue loses or duplicates an id, and a job is queued
\* or with one worker, for any number of workers and jobs, as long as clients
\* list no id twice in a reorder request (Reorder does not look for that).
THEOREM JobInOnePlace ==
    ASSUME RepeatedIds = FALSE
    PROVE  Spec => [](HoldsOwed /\ OneHolder)
<1>1. Init => HoldInv
  BY HoldInit
<1>2. HoldInv /\ [Next]_vars => HoldInv'
  BY HoldStep
<1>3. HoldInv => HoldsOwed /\ OneHolder
  BY DEF HoldInv
<1> QED
  BY <1>1, <1>2, <1>3, PTL DEF Spec

-----------------------------------------------------------------------------
(* The worker pool.                                                        *)

\* Every step of the pool is a step of JobQueue or leaves its state alone.
LEMMA PoolStepIsQueueStep ==
    ASSUME poolDone \in BOOLEAN, [PoolNext]_allVars
    PROVE  [Next]_vars
<1>1. ASSUME NEW n \in 1 .. MaxPool, Start(n) \/ Resize(n) PROVE UNCHANGED vars
  BY <1>1 DEF Start, Resize
<1>2. ASSUME NEW w \in Workers, AddWorker(w) PROVE Next
  BY <1>2 DEF AddWorker, Next, Pool
<1>3. ASSUME NEW w \in Workers, CancelWorker(w) PROVE Next
  <2>1. CancelCtx({w}) /\ {w} \in SUBSET Workers
    BY <1>3 DEF CancelWorker
  <2>. QED
    BY <2>1 DEF Next, Pool
<1>4. ASSUME Stop PROVE Next
  <2>1. PICK S \in SUBSET Workers : CancelCtx(S)
    BY <1>4 DEF Stop
  <2>. QED
    BY <2>1 DEF Next, Pool
<1>5. ASSUME StopClose PROVE Next
  BY <1>5 DEF StopClose, Next, Pool
<1>6. ASSUME QueueStep PROVE Next
  BY <1>6 DEF QueueStep, Next
<1>7. CASE UNCHANGED allVars
  BY <1>7 DEF allVars
<1>. QED
  BY <1>1, <1>2, <1>3, <1>4, <1>5, <1>6, <1>7 DEF PoolNext, PoolStep

LEMMA PoolDoneStep ==
    ASSUME poolDone \in BOOLEAN, [PoolNext]_allVars
    PROVE  poolDone' \in BOOLEAN
  BY DEF PoolNext, PoolStep, QueueStep, Start, Resize, AddWorker, CancelWorker,
         Stop, StopClose, allVars, poolVars

\* Start, resizeWorkerPool and Stop use the queue and the workers' contexts
\* only as JobQueue says a pool may.
THEOREM PoolRefinesQueue == PoolSpec => Spec
<1>1. PoolInit => Init /\ poolDone \in BOOLEAN
  BY DEF PoolInit
<1>2. poolDone \in BOOLEAN /\ [PoolNext]_allVars => (poolDone \in BOOLEAN)'
  BY PoolDoneStep
<1>3. poolDone \in BOOLEAN /\ [PoolNext]_allVars => [Next]_vars
  BY PoolStepIsQueueStep
<1>. QED
  BY <1>1, <1>2, <1>3, PTL DEF PoolSpec, Spec

\* No worker of a pool that is started, resized and stopped at any moment
\* sleeps in Dequeue beside a job that nobody is coming for.
THEOREM PoolNoLostWakeup == PoolSpec => [](WaitersExact /\ EnoughWakeups)
  BY PoolRefinesQueue, NoLostWakeup

\* In the pool, too, no operation loses or duplicates an id, and a job is
\* queued or with one worker.
THEOREM PoolJobInOnePlace ==
    ASSUME RepeatedIds = FALSE
    PROVE  PoolSpec => [](HoldsOwed /\ OneHolder)
  BY PoolRefinesQueue, JobInOnePlace

-----------------------------------------------------------------------------
(* The slice of cancel functions.                                          *)

\* A worker leaves the live set by its own step only after its context is
\* cancelled or the queue is closed, and the queue is closed only by Stop.
SliceInv ==
    /\ PoolTypeOK
    /\ SliceIsLive
    /\ closed => poolDone
    /\ \A w \in Workers : pc[w] = "leaving" => w \in ctxDone

LEMMA PoolTypeStep ==
    ASSUME PoolTypeOK, [PoolNext]_allVars
    PROVE  PoolTypeOK'
<1>0. TypeOK'
  BY TypeStep, PoolStepIsQueueStep DEF PoolTypeOK
<1>1. ASSUME NEW n \in 1 .. MaxPool, Start(n) PROVE PoolTypeOK'
  BY <1>0, <1>1, MaxPoolAssumption DEF Start, PoolTypeOK
<1>2. ASSUME NEW n \in 1 .. MaxPool, Resize(n) PROVE PoolTypeOK'
  <2>1. CASE n < Len(cancels)
    <3>0. cancels \in Seq(Workers) /\ n \in 0 .. Len(cancels) /\ MaxPool \in Nat
      BY <2>1, MaxPoolAssumption, FS_CardinalityType DEF PoolTypeOK
    <3>1. /\ cancels' = SubSeq(cancels, 1, n)
          /\ toCancel' = Range(SubSeq(cancels, n + 1, Len(cancels)))
          /\ target' = n /\ poolDone' = poolDone
      BY <1>2, <2>1 DEF Resize
    <3>2. /\ cancels' \in Seq(Workers)
          /\ SubSeq(cancels, n + 1, Len(cancels)) \in Seq(Workers)
      BY <3>0, <3>1, SplitRange
    <3>3. \A s \in Seq(Workers) : Range(s) \subseteq Workers
      BY DEF Range
    <3>4. toCancel' \subseteq Workers
      BY <3>1, <3>2, <3>3
    <3>5. target' \in 0 .. MaxPool
      BY <3>0, <3>1
    <3> QED BY <1>0, <3>1, <3>2, <3>4, <3>5 DEF PoolTypeOK
  <2>2. CASE ~(n < Len(cancels))
    BY <1>0, <1>2, <2>2, MaxPoolAssumption DEF Resize, PoolTypeOK
  <2> QED BY <2>1, <2>2
<1>3. ASSUME NEW w \in Workers, AddWorker(w) PROVE PoolTypeOK'
  BY <1>0, <1>3 DEF AddWorker, PoolTypeOK
<1>4. ASSUME NEW w \in Workers, CancelWorker(w) PROVE PoolTypeOK'
  BY <1>0, <1>4 DEF CancelWorker, PoolTypeOK
<1>5. CASE Stop \/ StopClose \/ QueueStep \/ UNCHANGED allVars
  BY <1>0, <1>5 DEF Stop, StopClose, QueueStep, allVars, poolVars, PoolTypeOK
<1> QED
  BY <1>1, <1>2, <1>3, <1>4, <1>5 DEF PoolNext, PoolStep

\* What the queue's own steps do to the live workers.
LEMMA LiveKept ==
    ASSUME SliceInv, QueueStep
    PROVE  /\ ~poolDone => Live' = Live
           /\ closed' = closed
           /\ \A w \in Workers : pc'[w] = "leaving" => w \in ctxDone'
<1> USE DEF queueVars
<1>0. pc \in [Workers -> Pcs]
  BY DEF SliceInv, PoolTypeOK, TypeOK
<1>a. ASSUME pc' = pc, ctxDone' = ctxDone, closed' = closed
      PROVE  /\ ~poolDone => Live' = Live
             /\ closed' = closed
             /\ \A w \in Workers : pc'[w] = "leaving" => w \in ctxDone'
  BY <1>a DEF Live, SliceInv
<1>1. CASE Operation
  <2>1. ASSUME NEW j \in Jobs, Enqueue(j) \/ Remove(j)
        PROVE  pc' = pc /\ ctxDone' = ctxDone /\ closed' = closed
    BY <2>1 DEF Enqueue, Put, PutClosed, Remove
  <2>2. CASE Pause \/ Resume \/ ReorderRequest
    BY <1>a, <2>2 DEF Pause, Resume, ReorderRequest, Reorder
  <2> QED BY <1>1, <1>a, <2>1, <2>2 DEF Operation
<1>2. ASSUME NEW w \in Workers, Worker(w)
      PROVE  /\ ~poolDone => Live' = Live
             /\ closed' = closed
             /\ \A v \in Workers : pc'[v] = "leaving" => v \in ctxDone'
  <2>1. ctxDone' = ctxDone /\ closed' = closed
    BY <1>2 DEF Worker, Dequeue, DequeueNormal, DequeueBatch, Take, DequeueClosed,
                DequeueWait, SelectNotify, SelectClosed, SelectDone, Rewait, Leave,
                Finish, Reenqueue, Put, PutClosed
  <2>2. PICK label \in Pcs : /\ pc' = [pc EXCEPT ![w] = label] /\ pc[w] # "off"
                             /\ label = "off" => closed \/ pc[w] = "leaving"
                             /\ label = "leaving" => w \in ctxDone
    <3>1. CASE DequeueNormal(w) \/ DequeueBatch(w)
      BY <3>1 DEF DequeueNormal, DequeueBatch, Take, Goto, Pcs
    <3>2. CASE DequeueClosed(w) \/ DequeueWait(w) \/ SelectNotify(w) \/ SelectClosed(w)
      BY <3>2 DEF DequeueClosed, DequeueWait, SelectNotify, SelectClosed, Goto, Pcs
    <3>3. CASE SelectDone(w) \/ Rewait(w) \/ Leave(w)
      BY <3>3 DEF SelectDone, Rewait, Leave, Goto, Pcs
    <3>4. CASE Finish(w) \/ Reenqueue(w)
      BY <3>4 DEF Finish, Reenqueue, Goto, Pcs
    <3> QED BY <1>2, <3>1, <3>2, <3>3, <3>4 DEF Worker, Dequeue
  <2>3. \A v \in Workers : pc'[v] = IF v = w THEN label ELSE pc[v]
    BY <1>0, <2>2
  <2>4. ~poolDone => Live' = Live
    BY <2>1, <2>2, <2>3 DEF Live, SliceInv
  <2>5. \A v \in Workers : pc'[v] = "leaving" => v \in ctxDone'
    BY <2>1, <2>2, <2>3 DEF SliceInv
  <2> QED BY <2>1, <2>4, <2>5
<1> QED
  BY <1>1, <1>2 DEF QueueStep

LEMMA SliceStep ==
    ASSUME SliceInv, [PoolNext]_allVars
    PROVE  SliceInv'
<1> USE DEF queueVars
<1>0. PoolTypeOK'
  BY PoolTypeStep DEF SliceInv
<1>a. /\ pc \in [Workers -> Pcs] /\ ctxDone \subseteq Workers
      /\ cancels \in Seq(Workers) /\ toCancel \subseteq Workers /\ poolDone \in BOOLEAN
  BY DEF SliceInv, PoolTypeOK, TypeOK
<1>1. ASSUME NEW n \in 1 .. MaxPool, Start(n) PROVE SliceInv'
  BY <1>0, <1>1 DEF Start, SliceInv, SliceIsLive, Live, vars
<1>2. ASSUME NEW n \in 1 .. MaxPool, Resize(n) PROVE SliceInv'
  <2>1. Live' = Live /\ poolDone' = poolDone /\ UNCHANGED <<closed, pc, ctxDone>>
    BY <1>2 DEF Resize, vars, Live
  <2>2. CASE n < Len(cancels)
    <3>0. n \in 0 .. Len(cancels)
      BY <1>a, <2>2
    <3>1. /\ cancels' = SubSeq(cancels, 1, n)
          /\ toCancel' = Range(SubSeq(cancels, n + 1, Len(cancels)))
          /\ toCancel = {}
      BY <1>2, <2>2 DEF Resize, Settled
    <3>2. /\ Range(cancels') \cup toCancel' = Range(cancels)
          /\ IsInjective(cancels) => IsInjective(cancels') /\ Range(cancels') \cap toCancel' = {}
      BY <1>a, <3>0, <3>1, SplitRange
    <3> QED BY <1>0, <2>1, <3>1, <3>2 DEF SliceInv, SliceIsLive
  <2>3. CASE ~(n < Len(cancels))
    <3>1. cancels' = cancels /\ toCancel' = toCancel
      BY <1>2, <2>3 DEF Resize
    <3> QED BY <1>0, <2>1, <3>1 DEF SliceInv, SliceIsLive
  <2> QED BY <2>2, <2>3
<1>3. ASSUME NEW w \in Workers, AddWorker(w) PROVE SliceInv'
  <2>1. /\ pc[w] = "off" /\ pc' = [pc EXCEPT ![w] = "check"] /\ closed' = closed
        /\ ctxDone' = IF poolDone THEN ctxDone \cup {w} ELSE ctxDone \ {w}
        /\ cancels' = Append(cancels, w) /\ toCancel' = toCancel /\ poolDone' = poolDone
    BY <1>3 DEF AddWorker, Spawn, Goto
  <2>2. ~poolDone => Live' = Live \cup {w} /\ w \notin Live
    BY <1>a, <2>1 DEF Live
  <2>3. ~poolDone => w \notin Range(cancels) \cup toCancel
    BY <2>2 DEF SliceInv, SliceIsLive
  <2>4. /\ Range(cancels') = Range(cancels) \cup {w}
        /\ IsInjective(cancels) /\ w \notin Range(cancels) => IsInjective(cancels')
    BY <1>a, <2>1, AppendRange
  <2>5. SliceIsLive'
    BY <2>1, <2>2, <2>3, <2>4 DEF SliceInv, SliceIsLive
  <2>6. \A v \in Workers : pc'[v] = "leaving" => v \in ctxDone'
    BY <1>a, <2>1 DEF SliceInv
  <2> QED BY <1>0, <2>1, <2>5, <2>6 DEF SliceInv
<1>4. ASSUME NEW w \in Workers, CancelWorker(w) PROVE SliceInv'
  <2>1. /\ w \in toCancel /\ toCancel' = toCancel \ {w} /\ ctxDone' = ctxDone \cup {w}
        /\ UNCHANGED <<pc, closed, cancels, poolDone>>
    BY <1>4 DEF CancelWorker, CancelCtx
  <2>2. Live' = Live \ {w}
    BY <2>1 DEF Live
  <2>3. SliceIsLive'
    BY <2>1, <2>2 DEF SliceInv, SliceIsLive
  <2> QED BY <1>0, <2>1, <2>3 DEF SliceInv
<1>5. CASE Stop
  BY <1>0, <1>5 DEF Stop, CancelCtx, SliceInv, SliceIsLive
<1>6. CASE StopClose
  BY <1>0, <1>6 DEF StopClose, Close, poolVars, SliceInv, SliceIsLive
<1>7. CASE QueueStep
  <2>1. UNCHANGED <<cancels, toCancel, poolDone>>
    BY <1>7 DEF QueueStep, poolVars
  <2> QED BY <1>0, <1>7, <2>1, LiveKept DEF SliceInv, SliceIsLive
<1>8. CASE UNCHANGED allVars
  BY <1>0, <1>8 DEF allVars, vars, poolVars, SliceInv, SliceIsLive, Live
<1> QED
  BY <1>1, <1>2, <1>3, <1>4, <1>5, <1>6, <1>7, <1>8 DEF PoolNext, PoolStep

LEMMA SliceInit == PoolInit => SliceInv
<1> SUFFICES ASSUME PoolInit PROVE SliceInv
  OBVIOUS
<1>1. /\ TypeOK /\ cancels = << >> /\ cancels \in Seq(Workers) /\ toCancel = {}
      /\ target \in 0 .. MaxPool /\ poolDone = FALSE
  BY TypeInit, MaxPoolAssumption DEF PoolInit
<1>2. closed = FALSE /\ \A w \in Workers : pc[w] = "off"
  BY DEF PoolInit, Init
<1>3. Live = {}
  BY <1>2 DEF Live
<1>4. Range(<< >>) = {} /\ IsInjective(<< >>)
  BY DEF Range, IsInjective
<1> QED
  BY <1>1, <1>2, <1>3, <1>4 DEF SliceInv, SliceIsLive, PoolTypeOK

\* Type correctness of the pool.
THEOREM PoolTypeCorrect == PoolSpec => []PoolTypeOK
<1>1. SliceInv /\ [PoolNext]_allVars => SliceInv'
  BY SliceStep
<1>2. SliceInv => PoolTypeOK
  BY DEF SliceInv
<1> QED
  BY <1>1, <1>2, SliceInit, PTL DEF PoolSpec

\* The slice of cancel functions always names exactly the live workers, each
\* once, so that resizeWorkerPool reaches those it has to stop and no other.
THEOREM ResizeReachesAll == PoolSpec => []SliceIsLive
<1>1. SliceInv /\ [PoolNext]_allVars => SliceInv'
  BY SliceStep
<1>2. SliceInv => SliceIsLive
  BY DEF SliceInv
<1> QED
  BY <1>1, <1>2, SliceInit, PTL DEF PoolSpec
-----------------------------------------------------------------------------
(* The queue implements its contract.                                      *)

\* Two sequences without repetitions and with the same elements are
\* permutations of one another.
LEMMA SameElements ==
    ASSUME NEW S, NEW s \in Seq(S), NEW t \in Seq(S),
           IsInjective(s), IsInjective(t), Range(s) = Range(t)
    PROVE  Contract!IsPermutation(s, t)
<1>1. /\ Len(s) = Len(t) /\ DOMAIN s = 1 .. Len(s) /\ DOMAIN t = 1 .. Len(t)
  <2>1. Cardinality(Range(s)) = Len(s)
    BY RangeCardinality
  <2>2. Cardinality(Range(t)) = Len(t)
    BY RangeCardinality
  <2> QED BY <2>1, <2>2
<1> DEFINE D == DOMAIN s
           f == [i \in D |-> CHOOSE m \in D : s[m] = t[i]]
<1>2. DOMAIN t = D
  BY <1>1
<1>3. \A i \in D : f[i] \in D /\ s[f[i]] = t[i]
  <2> TAKE i \in D
  <2>1. \E m \in D : s[m] = t[i]
    BY <1>2 DEF Range
  <2>2. f[i] = CHOOSE m \in D : s[m] = t[i]
    OBVIOUS
  <2> QED BY <2>1, <2>2
<1>4. f \in [D -> D] /\ DOMAIN f = D
  BY <1>3
<1> HIDE DEF f
<1>5. \A m \in D : \E i \in D : f[i] = m
  <2> TAKE m \in D
  <2>1. PICK i \in D : t[i] = s[m]
    BY <1>2 DEF Range
  <2>2. s[f[i]] = s[m] /\ f[i] \in D
    BY <1>3, <2>1
  <2>3. f[i] = m
    BY <2>2 DEF IsInjective
  <2> QED BY <2>3
<1>6. \A i, k \in D : f[i] = f[k] => i = k
  <2> SUFFICES ASSUME NEW i \in D, NEW k \in D, f[i] = f[k] PROVE i = k
    OBVIOUS
  <2>1. t[i] = t[k]
    <3>1. s[f[i]] = t[i] /\ s[f[k]] = t[k]
      BY <1>3
    <3> QED BY <3>1
  <2> QED BY <1>2, <2>1 DEF IsInjective
<1>7. t = [i \in D |-> t[i]]
  BY <1>2
<1>8. t = [i \in D |-> s[f[i]]]
  BY <1>3, <1>7
<1> HIDE DEF D
<1>9. f \in Contract!Bijection(D, D)
  BY <1>4, <1>5, <1>6
  DEF Contract!Bijection, Contract!Injection, Contract!Surjection, Contract!IsInjective
<1> QED
  BY <1>8, <1>9 DEF D, Contract!IsPermutation

\* A worker that runs nothing holds nothing.
IdleHold == \A w \in Workers : pc[w] # "running" => held[w] = None

LEMMA IdleStep ==
    ASSUME TypeOK, IdleHold, [Next]_vars
    PROVE  IdleHold'
<1> USE DEF queueVars
<1>0. pc \in [Workers -> Pcs] /\ held \in [Workers -> Jobs \cup {None}]
  BY DEF TypeOK
<1>1. ASSUME pc' = pc, held' = held PROVE IdleHold'
  BY <1>1 DEF IdleHold
<1>2. CASE Operation
  <2>1. pc' = pc /\ held' = held
    BY <1>2 DEF Operation, Enqueue, Remove, Pause, Resume, ReorderRequest, Reorder
  <2> QED BY <1>1, <2>1
<1>3. CASE Pool
  BY <1>0, <1>1, <1>3 DEF Pool, Spawn, CancelCtx, Close, Goto, IdleHold
<1>4. ASSUME NEW w \in Workers, DequeueNormal(w) \/ DequeueBatch(w) PROVE IdleHold'
  BY <1>0, <1>4 DEF DequeueNormal, DequeueBatch, Take, Goto, IdleHold
<1>5. ASSUME NEW w \in Workers,
             \/ DequeueClosed(w) \/ DequeueWait(w) \/ SelectNotify(w) \/ SelectClosed(w)
             \/ SelectDone(w) \/ Rewait(w) \/ Leave(w)
      PROVE  IdleHold'
  <2>1. held' = held /\ pc[w] # "running" /\ \E label \in Pcs : Goto(w, label)
    BY <1>5 DEF DequeueClosed, DequeueWait, SelectNotify, SelectClosed, SelectDone,
                Rewait, Leave, Pcs
  <2> QED BY <1>0, <2>1 DEF Goto, IdleHold
<1>6. ASSUME NEW w \in Workers, Finish(w) \/ Reenqueue(w) PROVE IdleHold'
  BY <1>0, <1>6 DEF Finish, Reenqueue, Goto, IdleHold
<1>7. CASE UNCHANGED vars
  BY <1>1, <1>7 DEF vars
<1> QED
  BY <1>2, <1>3, <1>4, <1>5, <1>6, <1>7 DEF Next, Worker, Dequeue

\* Reorder as Go slices see it is a permutation of each tier.
LEMMA ReorderPermutes ==
    ASSUME HoldInv, NEW list \in [1 .. Total -> Jobs], IsInjective(list), Reorder(list)
    PROVE  /\ Contract!IsPermutation(normal, normal')
           /\ Contract!IsPermutation(batch, batch')
<1>1. /\ normal \in Seq(Jobs) /\ batch \in Seq(Jobs)
      /\ IsInjective(normal) /\ IsInjective(batch)
      /\ Range(normal) \cap Range(batch) = {}
      /\ Range(normal) \cup Range(batch) = owed
      /\ Total \in Nat
  BY DEF HoldInv, TypeOK, HoldsOwed, Queued, Total
<1>2. /\ normal' \in Seq(Jobs) /\ batch' \in Seq(Jobs)
  BY ReorderType DEF HoldInv
<1>3. /\ IsInjective(normal') /\ IsInjective(batch')
      /\ Range(normal') \cup Range(batch') = owed
  <2>1. HoldsOwed'
    BY ReorderHolds DEF HoldInv
  <2>2. owed' = owed
    BY DEF Reorder
  <2> QED BY <2>1, <2>2 DEF HoldsOwed, Queued
<1>4. list \in Seq(Jobs) /\ Len(list) = Total
  BY <1>1
<1>5. PICK k \in 0 .. Len(list) :
        /\ \A i \in 1 .. k : list[i] \in Range(normal) \ Range(batch)
        /\ \A i \in k + 1 .. Len(list) : list[i] \in Range(batch)
        /\ normal' = SubSeq(list, 1, k)
        /\ batch' = SubSeq(list, k + 1, Len(list))
  BY DEF Reorder
<1>6. /\ Range(normal') = {list[i] : i \in 1 .. k}
      /\ Range(batch') = {list[i] : i \in k + 1 .. Len(list)}
  BY <1>4, <1>5, SplitRange
<1>7. Range(normal') \subseteq Range(normal) /\ Range(batch') \subseteq Range(batch)
  BY <1>5, <1>6
<1>8. Range(normal) = Range(normal') /\ Range(batch) = Range(batch')
  BY <1>1, <1>3, <1>7
<1> QED
  BY <1>1, <1>2, <1>3, <1>8, SameElements

\* Every step of the queue is a step of the contract, or one it does not see.
LEMMA ContractStep ==
    ASSUME RepeatedIds = FALSE, HoldInv, IdleHold, [Next]_vars
    PROVE  [Contract!Next]_(Contract!vars)
<1> USE DEF queueVars
<1> DEFINE present == {w \in Workers : pc[w] \notin {"off", "leaving"}}
<1>0. pc \in [Workers -> Pcs] /\ held \in [Workers -> Jobs \cup {None}]
  BY DEF HoldInv, TypeOK
<1>a. ASSUME UNCHANGED <<normal, batch, paused, closed, held>>, present' = present
      PROVE  UNCHANGED Contract!vars
  BY <1>a DEF Contract!vars
<1>b. ASSUME NEW w \in Workers, NEW label \in Pcs, Goto(w, label)
      PROVE  present' = IF label \in {"off", "leaving"} THEN present \ {w} ELSE present \cup {w}
  BY <1>0, <1>b DEF Goto
<1>1. ASSUME NEW j \in Jobs, Enqueue(j) PROVE [Contract!Next]_(Contract!vars)
  <2>1. held' = held /\ pc' = pc
    BY <1>1 DEF Enqueue
  <2>2. CASE Put(j)
    <3>1. Contract!Accept(j)
      BY <2>1, <2>2 DEF Put, Contract!Accept
    <3> QED BY <3>1 DEF Contract!Next
  <2>3. CASE PutClosed
    BY <1>a, <2>1, <2>3 DEF PutClosed
  <2> QED BY <1>1, <2>2, <2>3 DEF Enqueue
<1>2. ASSUME NEW j \in Jobs, Remove(j) PROVE Contract!Next
  <2>1. Contract!Drop
    BY <1>2 DEF Remove, DropAt, Contract!Drop
  <2> QED BY <2>1 DEF Contract!Next
<1>3. ASSUME Pause \/ Resume PROVE Contract!Next
  <2>1. Contract!SetPaused
    BY <1>3 DEF Pause, Resume, Contract!SetPaused
  <2> QED BY <2>1 DEF Contract!Next
<1>4. ASSUME ReorderRequest PROVE Contract!Next
  <2>1. PICK list \in [1 .. Total -> Jobs] : IsInjective(list) /\ Reorder(list)
    BY <1>4 DEF ReorderRequest
  <2>2. /\ Contract!IsPermutation(normal, normal')
        /\ Contract!IsPermutation(batch, batch')
    BY <2>1, ReorderPermutes
  <2>3. ~closed /\ UNCHANGED <<paused, closed, held, pc>>
    BY <2>1 DEF Reorder
  <2>4. Contract!Permute
    BY <2>2, <2>3 DEF Contract!Permute
  <2> QED BY <2>4 DEF Contract!Next
<1>5. ASSUME Close PROVE Contract!Next
  <2>1. Contract!Shut
    BY <1>5 DEF Close, Contract!Shut
  <2> QED BY <2>1 DEF Contract!Next
<1>6. ASSUME NEW w \in Workers, DequeueNormal(w) \/ DequeueBatch(w) PROVE Contract!Next
  <2>1. pc[w] = "check" /\ Goto(w, "running") /\ "running" \in Pcs
    BY <1>6 DEF DequeueNormal, DequeueBatch, Take, Pcs
  <2>2. present' = present /\ w \in present /\ held[w] = None
    BY <1>b, <2>1 DEF IdleHold
  <2>3. Contract!HandOut(w)
    BY <1>6, <2>2 DEF DequeueNormal, DequeueBatch, Take, Contract!HandOut
  <2> QED BY <2>3 DEF Contract!Next
<1>7. ASSUME NEW w \in Workers, DequeueClosed(w) \/ SelectDone(w) PROVE Contract!Next
  <2>1. /\ pc[w] \in {"check", "blocked"}
        /\ \E label \in {"off", "leaving"} : Goto(w, label)
        /\ UNCHANGED <<normal, batch, paused, closed, held>>
    BY <1>7 DEF DequeueClosed, SelectDone
  <2>2. present' = present \ {w} /\ w \in present /\ held[w] = None
    BY <1>b, <2>1 DEF IdleHold, Pcs
  <2>3. Contract!Depart(w)
    BY <2>1, <2>2 DEF Contract!Depart
  <2> QED BY <2>3 DEF Contract!Next
<1>8. ASSUME NEW w \in Workers,
             \/ DequeueWait(w) \/ SelectNotify(w) \/ SelectClosed(w) \/ Rewait(w)
      PROVE  UNCHANGED Contract!vars
  <2>1. /\ pc[w] \in {"check", "blocked", "woken"}
        /\ \E label \in {"check", "blocked", "woken"} : Goto(w, label)
        /\ UNCHANGED <<normal, batch, paused, closed, held>>
    BY <1>8 DEF DequeueWait, SelectNotify, SelectClosed, Rewait
  <2>2. present' = present
    BY <1>b, <2>1 DEF Pcs
  <2> QED BY <1>a, <2>1, <2>2
<1>9. ASSUME NEW w \in Workers, Leave(w) PROVE UNCHANGED Contract!vars
  <2>1. /\ pc[w] = "leaving" /\ Goto(w, "off") /\ "off" \in Pcs
        /\ UNCHANGED <<normal, batch, paused, closed, held>>
    BY <1>9 DEF Leave, Pcs
  <2>2. present' = present
    BY <1>b, <2>1
  <2> QED BY <1>a, <2>1, <2>2
<1>10. ASSUME NEW w \in Workers, Finish(w) \/ Reenqueue(w) PROVE Contract!Next
  <2>1. /\ pc[w] = "running" /\ Goto(w, "check") /\ "check" \in Pcs
        /\ held' = [held EXCEPT ![w] = None]
    BY <1>10 DEF Finish, Reenqueue, Pcs
  <2>2. present' = present
    BY <1>b, <2>1
  <2>a. held[w] # None
    BY <2>1, JobsAssumption DEF HoldInv, TypeOK
  <2>3. CASE Finish(w) \/ PutClosed
    <3>1. Contract!Done(w)
      BY <1>10, <2>1, <2>2, <2>a, <2>3 DEF Finish, PutClosed, Contract!Done
    <3> QED BY <3>1 DEF Contract!Next
  <2>4. CASE Put(held[w])
    <3>1. Contract!Return(w)
      BY <2>1, <2>2, <2>a, <2>4 DEF Put, Contract!Return
    <3> QED BY <3>1 DEF Contract!Next
  <2> QED BY <1>10, <2>3, <2>4 DEF Reenqueue
<1>11. ASSUME NEW w \in Workers, NEW done \in BOOLEAN, Spawn(w, done) PROVE Contract!Next
  <2>1. /\ pc[w] = "off" /\ Goto(w, "check") /\ "check" \in Pcs
        /\ UNCHANGED <<normal, batch, paused, closed, held>>
    BY <1>11 DEF Spawn, Pcs
  <2>2. present' = present \cup {w} /\ w \notin present
    BY <1>b, <2>1
  <2>3. Contract!Arrive(w)
    BY <2>1, <2>2 DEF Contract!Arrive
  <2> QED BY <2>3 DEF Contract!Next
<1>12. ASSUME NEW S \in SUBSET Workers, CancelCtx(S) PROVE UNCHANGED Contract!vars
  BY <1>12, <1>a DEF CancelCtx
<1>13. ASSUME UNCHANGED vars PROVE UNCHANGED Contract!vars
  BY <1>13, <1>a DEF vars
<1>14. CASE Operation
  BY <1>14, <1>1, <1>2, <1>3, <1>4 DEF Operation
<1>15. CASE Pool
  BY <1>15, <1>5, <1>11, <1>12 DEF Pool
<1>16. ASSUME NEW w \in Workers, Worker(w) PROVE [Contract!Next]_(Contract!vars)
  BY <1>16, <1>6, <1>7, <1>8, <1>9, <1>10 DEF Worker, Dequeue
<1> QED
  BY <1>13, <1>14, <1>15, <1>16 DEF Next

\* The pool and its queue never do what the contract does not allow: no id
\* is lost, duplicated or reordered except by a client's request, batch jobs
\* wait for normal ones, and only an idle, present worker gets a job.
THEOREM PoolMeetsContract ==
    ASSUME RepeatedIds = FALSE
    PROVE  PoolSpec => Contract!Safety
<1> DEFINE Inv == HoldInv /\ IdleHold
<1>1. Init => Inv /\ Contract!Init
  <2> SUFFICES ASSUME Init PROVE Inv /\ Contract!Init
    OBVIOUS
  <2>1. \A w \in Workers : pc[w] = "off" /\ held[w] = None
    BY DEF Init
  <2>2. HoldInv
    BY HoldInit
  <2>3. Contract!Init
    BY <2>1 DEF Init, Contract!Init
  <2> QED BY <2>1, <2>2, <2>3 DEF IdleHold
<1>2. Inv /\ [Next]_vars => Inv' /\ [Contract!Next]_(Contract!vars)
  <2>1. HoldInv => TypeOK
    BY DEF HoldInv
  <2> QED BY <2>1, HoldStep, IdleStep, ContractStep
<1>3. Spec => Contract!Init /\ [][Contract!Next]_(Contract!vars)
  BY <1>1, <1>2, PTL DEF Spec
<1> QED
  BY <1>3, PoolRefinesQueue, PTL DEF Contract!Safety
=============================================================================
