--------------------------- MODULE RecursorProofs ---------------------------
(***************************************************************************)
(* Proofs about Recursor, for any worlds, replies, requests and limits.    *)
(* What servers answer is left open: nothing below depends on it.          *)
(***************************************************************************)
EXTENDS Recursor, SequenceTheorems, TLAPS

-----------------------------------------------------------------------------
(* Sequences of whatever they hold.                                        *)

Sequential(s) == s \in Seq(Range(s))

LEMMA SeqIsSequential ==
    ASSUME NEW S, NEW s \in Seq(S)
    PROVE  Sequential(s)
BY SeqOfRange DEF Sequential

LEMMA SeqFacts ==
    ASSUME NEW s, Sequential(s)
    PROVE  /\ Len(s) \in Nat
           /\ DOMAIN s = 1 .. Len(s)
           /\ s = <<>> <=> Len(s) = 0
<1>1. s \in Seq(Range(s))
  BY DEF Sequential
<1>. QED
  BY <1>1, LenProperties, EmptySeq

LEMMA SeqAppend ==
    ASSUME NEW s, NEW e, Sequential(s)
    PROVE  /\ Sequential(Append(s, e))
           /\ Len(Append(s, e)) = Len(s) + 1
           /\ \A i \in 1 .. Len(s) : Append(s, e)[i] = s[i]
           /\ Append(s, e)[Len(s) + 1] = e
<1>. DEFINE S == Range(s) \cup {e}
<1>1. s \in Seq(S)
  BY SeqMonotonic DEF Sequential
<1>2. e \in S
  OBVIOUS
<1>. HIDE DEF S
<1>3. Append(s, e) \in Seq(S)
  BY <1>1, <1>2, AppendProperties
<1>4. Sequential(Append(s, e))
  BY <1>3, SeqIsSequential
<1>. QED
  BY <1>1, <1>2, <1>4, AppendProperties

LEMMA SeqExcept ==
    ASSUME NEW s, NEW e, Sequential(s), NEW n \in 1 .. Len(s)
    PROVE  LET r == [s EXCEPT ![n] = e] IN
           /\ Sequential(r)
           /\ Len(r) = Len(s)
           /\ \A i \in 1 .. Len(s) : i # n => r[i] = s[i]
           /\ r[n] = e
<1>. DEFINE S == Range(s) \cup {e}
            r == [s EXCEPT ![n] = e]
<1>1. s \in Seq(S)
  BY SeqMonotonic DEF Sequential
<1>2. e \in S
  OBVIOUS
<1>. HIDE DEF S
<1>3. r \in Seq(S) /\ Len(r) = Len(s) /\ \A i \in 1 .. Len(s) : r[i] = IF i = n THEN e ELSE s[i]
  BY <1>1, <1>2, ExceptSeq
<1>4. Sequential(r)
  BY <1>3, SeqIsSequential
<1>. QED
  BY <1>3, <1>4

LEMMA SeqSub ==
    ASSUME NEW s, Sequential(s), NEW n \in 0 .. Len(s)
    PROVE  /\ Sequential(SubSeq(s, 1, n))
           /\ Len(SubSeq(s, 1, n)) = n
           /\ \A i \in 1 .. n : SubSeq(s, 1, n)[i] = s[i]
<1>1. s \in Seq(Range(s)) /\ Len(s) \in Nat
  BY SeqFacts DEF Sequential
<1>2. \A i \in 1 .. n : s[i] \in Range(s)
  BY <1>1, ElementOfSeq
<1>3. /\ SubSeq(s, 1, n) \in Seq(Range(s))
      /\ Len(SubSeq(s, 1, n)) = n
      /\ \A i \in 1 .. n : SubSeq(s, 1, n)[i] = s[i]
  BY <1>1, <1>2, SubSeqProperties
<1>. QED
  BY <1>3, SeqIsSequential

-----------------------------------------------------------------------------
(* Threads and frames as records.                                          *)

Shape(rec) ==
    /\ DOMAIN rec = {"pc", "req", "stack", "maps", "ret", "got"}
    /\ Sequential(rec.stack) /\ Sequential(rec.maps)

WalkFields == {"call", "name", "type", "map", "from", "ns", "seen", "common", "count", "seed",
               "atRoot", "candidate", "trace", "source", "viaCname"}
LazyFields == {"call", "name", "map", "type", "addrs"}

\* Two threads that differ at most in the frames and in one or the other of the rest.
SameRequest(r, rec) == r.req = rec.req /\ r.got = rec.got
SameTop(r, rec, f) ==
    /\ Len(r.stack) = Len(rec.stack) /\ Len(r.maps) = Len(rec.maps)
    /\ \A i \in 1 .. Len(rec.stack) : i # Len(rec.stack) => r.stack[i] = rec.stack[i]
    /\ r.stack[Len(rec.stack)] = f

LEMMA SetTopFacts ==
    ASSUME NEW rec, NEW f, Shape(rec), rec.stack # <<>>
    PROVE  LET r == SetTop(rec, f) IN
           /\ Shape(r) /\ SameRequest(r, rec) /\ SameTop(r, rec, f)
           /\ r.pc = rec.pc /\ r.maps = rec.maps /\ r.ret = rec.ret
           /\ r.stack # <<>> /\ Top(r) = f
<1>. DEFINE r == SetTop(rec, f)
            n == Len(rec.stack)
<1>1. n \in 1 .. n /\ n \in Nat
  BY SeqFacts DEF Shape
<1>2. r = [rec EXCEPT !.stack = [rec.stack EXCEPT ![n] = f]]
  BY DEF SetTop
<1>3. /\ DOMAIN r = DOMAIN rec
      /\ r.stack = [rec.stack EXCEPT ![n] = f]
      /\ r.pc = rec.pc /\ r.req = rec.req /\ r.maps = rec.maps /\ r.ret = rec.ret
      /\ r.got = rec.got
  BY <1>2 DEF Shape
<1>4. /\ Sequential(r.stack) /\ Len(r.stack) = n
      /\ \A i \in 1 .. n : i # n => r.stack[i] = rec.stack[i]
      /\ r.stack[n] = f
  BY <1>1, <1>3, SeqExcept DEF Shape
<1>5. r.stack # <<>>
  BY <1>1, <1>4, SeqFacts
<1>. HIDE DEF r
<1>6. Shape(r)
  BY <1>3, <1>4 DEF Shape
<1>7. SameTop(r, rec, f)
  BY <1>3, <1>4 DEF SameTop
<1>8. Top(r) = f
  BY <1>4 DEF Top, Last
<1>. QED
  BY <1>3, <1>5, <1>6, <1>7, <1>8 DEF SameRequest, r

LEMMA PushFacts ==
    ASSUME NEW rec, NEW f, NEW pc, Shape(rec)
    PROVE  LET r == Push(rec, f, pc) IN
           /\ Shape(r) /\ SameRequest(r, rec)
           /\ r.pc = pc /\ r.maps = rec.maps /\ r.ret = rec.ret
           /\ Len(r.stack) = Len(rec.stack) + 1 /\ r.stack # <<>>
           /\ \A i \in 1 .. Len(rec.stack) : r.stack[i] = rec.stack[i]
           /\ r.stack[Len(rec.stack) + 1] = f /\ Top(r) = f
<1>. DEFINE r == Push(rec, f, pc)
            n == Len(rec.stack)
<1>1. n \in Nat
  BY SeqFacts DEF Shape
<1>2. /\ DOMAIN r = DOMAIN rec
      /\ r.stack = Append(rec.stack, f)
      /\ r.pc = pc /\ r.req = rec.req /\ r.maps = rec.maps /\ r.ret = rec.ret
      /\ r.got = rec.got
  BY DEF Shape, Push
<1>3. /\ Sequential(r.stack) /\ Len(r.stack) = n + 1
      /\ \A i \in 1 .. n : r.stack[i] = rec.stack[i]
      /\ r.stack[n + 1] = f
  BY <1>2, SeqAppend DEF Shape
<1>4. r.stack # <<>>
  BY <1>1, <1>3, SeqFacts
<1>. HIDE DEF r
<1>5. Shape(r)
  BY <1>2, <1>3 DEF Shape
<1>6. Top(r) = f
  BY <1>3 DEF Top, Last
<1>. QED
  BY <1>2, <1>3, <1>4, <1>5, <1>6 DEF SameRequest, r

LEMMA PopFacts ==
    ASSUME NEW rec, Shape(rec), Len(rec.stack) > 1
    PROVE  LET r == Pop(rec) IN
           /\ Shape(r) /\ SameRequest(r, rec)
           /\ r.pc = rec.pc /\ r.maps = rec.maps /\ r.ret = rec.ret
           /\ Len(r.stack) = Len(rec.stack) - 1 /\ r.stack # <<>>
           /\ \A i \in 1 .. Len(rec.stack) - 1 : r.stack[i] = rec.stack[i]
           /\ Top(r) = rec.stack[Len(rec.stack) - 1]
<1>. DEFINE r == Pop(rec)
            n == Len(rec.stack)
<1>1. n \in Nat /\ n - 1 \in 0 .. n /\ n - 1 \in 1 .. n - 1
  BY SeqFacts DEF Shape
<1>2. /\ DOMAIN r = DOMAIN rec
      /\ r.stack = SubSeq(rec.stack, 1, n - 1)
      /\ r.pc = rec.pc /\ r.req = rec.req /\ r.maps = rec.maps /\ r.ret = rec.ret
      /\ r.got = rec.got
  BY DEF Shape, Pop, Front
<1>3. /\ Sequential(r.stack) /\ Len(r.stack) = n - 1
      /\ \A i \in 1 .. n - 1 : r.stack[i] = rec.stack[i]
  BY <1>1, <1>2, SeqSub DEF Shape
<1>4. r.stack # <<>>
  BY <1>1, <1>3, SeqFacts
<1>. HIDE DEF r
<1>5. Shape(r)
  BY <1>2, <1>3 DEF Shape
<1>6. Top(r) = rec.stack[n - 1]
  BY <1>1, <1>3 DEF Top, Last
<1>. QED
  BY <1>2, <1>3, <1>4, <1>5, <1>6 DEF SameRequest, r

LEMMA ReturnFacts ==
    ASSUME NEW rec, NEW result, Shape(rec)
    PROVE  LET r == Return(rec, result) IN
           /\ Shape(r) /\ SameRequest(r, rec)
           /\ r.pc = "return" /\ r.ret = result /\ r.maps = rec.maps /\ r.stack = rec.stack
           /\ Top(r) = Top(rec)
BY DEF Return, Shape, SameRequest, Top

\* A change of one of the maps: their number stays.
LEMMA MapFacts ==
    ASSUME NEW rec, NEW m, NEW n \in 1 .. Len(rec.maps), Shape(rec)
    PROVE  LET r == [rec EXCEPT !.maps[n] = m] IN
           /\ Shape(r) /\ SameRequest(r, rec)
           /\ r.pc = rec.pc /\ r.ret = rec.ret /\ r.stack = rec.stack /\ Top(r) = Top(rec)
           /\ Len(r.maps) = Len(rec.maps)
<1>. DEFINE r == [rec EXCEPT !.maps[n] = m]
<1>1. /\ DOMAIN r = DOMAIN rec
      /\ r.maps = [rec.maps EXCEPT ![n] = m]
      /\ r.pc = rec.pc /\ r.req = rec.req /\ r.stack = rec.stack /\ r.ret = rec.ret
      /\ r.got = rec.got
  BY DEF Shape
<1>2. Sequential(r.maps) /\ Len(r.maps) = Len(rec.maps)
  BY <1>1, SeqExcept DEF Shape
<1>. HIDE DEF r
<1>3. Shape(r)
  BY <1>1, <1>2 DEF Shape
<1>. QED
  BY <1>1, <1>2, <1>3 DEF SameRequest, Top, r

LEMMA WalkFacts ==
    ASSUME NEW name, NEW type, NEW map, NEW from
    PROVE  LET f == Walk(name, type, map, from) IN
           /\ DOMAIN f = WalkFields
           /\ f.call = "walk" /\ f.name = name /\ f.type = type /\ f.map = map
           /\ f.from = from /\ f.count = from.count /\ f.atRoot = FALSE
BY DEF Walk, WalkFields

LEMMA AtRootFacts ==
    ASSUME NEW f
    PROVE  LET g == AtRoot(f) IN
           /\ DOMAIN g = WalkFields
           /\ g.call = "walk" /\ g.name = f.name /\ g.type = f.type /\ g.map = f.map
           /\ g.from = f.from /\ g.count = f.from.count /\ g.atRoot = TRUE
           /\ g.ns = [i \in DOMAIN Root |-> Server(<<>>, <<Root[i]>>, FALSE)]
<1>. DEFINE w == Walk(f.name, f.type, f.map, f.from)
            ns == [i \in DOMAIN Root |-> Server(<<>>, <<Root[i]>>, FALSE)]
<1>1. /\ DOMAIN w = WalkFields
      /\ w.call = "walk" /\ w.name = f.name /\ w.type = f.type /\ w.map = f.map
      /\ w.from = f.from /\ w.count = f.from.count
  BY DEF Walk, WalkFields
<1>2. AtRoot(f) = [w EXCEPT !.atRoot = TRUE, !.ns = ns]
  BY DEF AtRoot
<1>. HIDE DEF w, ns
<1>3. /\ "atRoot" \in DOMAIN w /\ "ns" \in DOMAIN w
  BY <1>1 DEF WalkFields
<1>4. /\ DOMAIN AtRoot(f) = DOMAIN w
      /\ AtRoot(f).call = w.call /\ AtRoot(f).name = w.name /\ AtRoot(f).type = w.type
      /\ AtRoot(f).map = w.map /\ AtRoot(f).from = w.from /\ AtRoot(f).count = w.count
      /\ AtRoot(f).atRoot = TRUE /\ AtRoot(f).ns = ns
  BY <1>2, <1>3
<1>. QED
  BY <1>1, <1>4 DEF ns

-----------------------------------------------------------------------------
(* The invariant of a thread: what its frames are, from the first to the   *)
(* one on top, and what the place it is at says about them.                *)

Places == {"idle", "wait", "await", "claimwait", "walk", "lazy", "return", "store", "finish",
           "parent"}
After == {"return", "store", "finish", "parent"}

FrameOK(f, i) ==
    \/ /\ f.call = "walk" /\ DOMAIN f = WalkFields
       /\ f.type \in TypesAsked /\ f.map \in Nat \ {0}
       /\ f.count \in Nat /\ f.from.count \in Nat /\ f.from.hops \in Nat
       /\ f.from.hops <= CNAMEMaxChainLength /\ f.from.count < LoopLimit + i
    \/ /\ f.call = "lazy" /\ DOMAIN f = LazyFields
       /\ f.type \in {"A", "AAAA", "done"} /\ f.map \in Nat \ {0}

\* The frames below the one on top wait for it: none is past the limit by more
\* than the referrals counted without a look at it.
Below(s, n) ==
    \A i \in 1 .. n :
        /\ FrameOK(s[i], i)
        /\ s[i].call = "walk" => s[i].count <= LoopLimit + i
        /\ s[i].call = "lazy" => i > 1 /\ s[i - 1].call = "walk"
        /\ \A j \in 1 .. i : s[j].map <= s[i].map

Limit(pc, n) == LoopLimit + n + IF pc \in After THEN 1 ELSE 0

TopOK(s, n, pc, m) ==
    /\ FrameOK(s[n], n)
    /\ s[n].call = "walk" => s[n].count <= Limit(pc, n)
    /\ s[n].call = "lazy" => n > 1 /\ s[n - 1].call = "walk"
    /\ s[n].call = "lazy" <=> pc = "lazy"
    /\ pc \in {"await", "claimwait"} => s[n].count = s[n].from.count
    /\ \A j \in 1 .. n : s[j].map <= s[n].map
    /\ s[n].map <= m

PlaceOK(rec) ==
    /\ Shape(rec) /\ rec.pc \in Places /\ rec.ret.kind \in Results
    /\ rec.pc = "parent" => rec.req.op = "parent"
    /\ rec.stack = <<>> <=> rec.pc \in {"idle", "wait"}

ThreadOK(rec) ==
    /\ PlaceOK(rec)
    /\ rec.stack # <<>> =>
        /\ Below(rec.stack, Len(rec.stack) - 1)
        /\ TopOK(rec.stack, Len(rec.stack), rec.pc, Len(rec.maps))

LEMMA FrameMap ==
    ASSUME NEW f, NEW i, FrameOK(f, i)
    PROVE  f.map \in Nat \ {0} /\ f.call \in {"walk", "lazy"}
BY DEF FrameOK

LEMMA LimitFacts ==
    ASSUME NEW pc, NEW n \in Nat
    PROVE  /\ LoopLimit \in Nat /\ Limit(pc, n) \in Nat
           /\ pc \in After => Limit(pc, n) = LoopLimit + n + 1
           /\ pc \notin After => Limit(pc, n) = LoopLimit + n
BY RecursorAssumption DEF Limit

\* The frame on top of a thread.
LEMMA TopFacts ==
    ASSUME NEW rec, ThreadOK(rec), rec.stack # <<>>
    PROVE  /\ Shape(rec) /\ Len(rec.stack) \in Nat \ {0} /\ Len(rec.maps) \in Nat
           /\ Top(rec) = rec.stack[Len(rec.stack)]
           /\ FrameOK(Top(rec), Len(rec.stack))
           /\ Top(rec).call = "walk" => Top(rec).count <= Limit(rec.pc, Len(rec.stack))
           /\ Top(rec).call = "lazy" <=> rec.pc = "lazy"
           /\ Top(rec).call \in {"walk", "lazy"}
           /\ rec.pc \in {"await", "claimwait"} => Top(rec).count = Top(rec).from.count
           /\ Top(rec).map \in 1 .. Len(rec.maps)
<1>1. Shape(rec) /\ TopOK(rec.stack, Len(rec.stack), rec.pc, Len(rec.maps))
  BY DEF ThreadOK, PlaceOK
<1>2. Len(rec.stack) \in Nat \ {0} /\ Len(rec.maps) \in Nat
  BY <1>1, SeqFacts DEF Shape
<1>3. Top(rec) = rec.stack[Len(rec.stack)]
  BY DEF Top, Last
<1>4. Top(rec).map \in Nat \ {0} /\ Top(rec).call \in {"walk", "lazy"}
  BY <1>1, <1>3, FrameMap DEF TopOK
<1>. QED
  BY <1>1, <1>2, <1>3, <1>4 DEF TopOK

\* The frame on top changes, and neither what it is nor the map it uses.
LEMMA TopChanged ==
    ASSUME NEW rec, NEW r, NEW g, ThreadOK(rec), rec.stack # <<>>,
           PlaceOK(r), r.pc \notin {"idle", "wait"}, SameTop(r, rec, g),
           FrameOK(g, Len(rec.stack)), g.call = Top(rec).call, g.map = Top(rec).map,
           g.call = "walk" => g.count <= Limit(r.pc, Len(rec.stack)),
           g.call = "lazy" <=> r.pc = "lazy",
           r.pc \in {"await", "claimwait"} => g.count = g.from.count
    PROVE  ThreadOK(r)
<1>. DEFINE n == Len(rec.stack)
<1>1. /\ n \in Nat \ {0} /\ Len(rec.maps) \in Nat /\ Top(rec) = rec.stack[n]
  BY TopFacts
<1>2. Below(rec.stack, n - 1) /\ TopOK(rec.stack, n, rec.pc, Len(rec.maps))
  BY DEF ThreadOK
<1>3. /\ Len(r.stack) = n /\ Len(r.maps) = Len(rec.maps) /\ r.stack[n] = g
      /\ \A i \in 1 .. n - 1 : r.stack[i] = rec.stack[i]
  BY <1>1 DEF SameTop
<1>. HIDE DEF n
<1>4. Below(r.stack, n - 1)
  <2>. SUFFICES ASSUME NEW i \in 1 .. n - 1
                PROVE  /\ FrameOK(r.stack[i], i)
                       /\ r.stack[i].call = "walk" => r.stack[i].count <= LoopLimit + i
                       /\ r.stack[i].call = "lazy" => i > 1 /\ r.stack[i - 1].call = "walk"
                       /\ \A j \in 1 .. i : r.stack[j].map <= r.stack[i].map
    BY DEF Below
  <2>1. r.stack[i] = rec.stack[i] /\ (i > 1 => r.stack[i - 1] = rec.stack[i - 1])
    BY <1>1, <1>3
  <2>2. \A j \in 1 .. i : r.stack[j] = rec.stack[j]
    BY <1>1, <1>3
  <2>. QED
    BY <1>1, <1>2, <2>1, <2>2 DEF Below
<1>5. TopOK(r.stack, n, r.pc, Len(r.maps))
  <2>1. g.call = "lazy" => n > 1 /\ r.stack[n - 1].call = "walk"
    BY <1>1, <1>2, <1>3 DEF TopOK
  <2>2. \A j \in 1 .. n : r.stack[j].map <= g.map
    BY <1>1, <1>2, <1>3 DEF TopOK
  <2>3. g.map <= Len(r.maps)
    BY <1>1, <1>2, <1>3 DEF TopOK
  <2>. QED
    BY <1>3, <2>1, <2>2, <2>3 DEF TopOK, n
<1>. QED
  BY <1>3, <1>4, <1>5 DEF ThreadOK

\* A frame is put on top of a walk or a lookup of addresses that goes on.
LEMMA Pushed ==
    ASSUME NEW rec, NEW r, NEW g, ThreadOK(rec), rec.stack # <<>>, rec.pc \notin After,
           PlaceOK(r), Len(r.stack) = Len(rec.stack) + 1,
           \A i \in 1 .. Len(rec.stack) : r.stack[i] = rec.stack[i],
           r.stack[Len(rec.stack) + 1] = g,
           FrameOK(g, Len(rec.stack) + 1), Top(rec).map <= g.map, g.map <= Len(r.maps),
           g.call = "walk" => g.count = g.from.count,
           g.call = "lazy" => Top(rec).call = "walk",
           g.call = "lazy" <=> r.pc = "lazy"
    PROVE  ThreadOK(r)
<1>. DEFINE n == Len(rec.stack)
<1>1. /\ n \in Nat \ {0} /\ Top(rec) = rec.stack[n] /\ Top(rec).map \in Nat
  BY TopFacts, FrameMap
<1>2. Below(rec.stack, n - 1) /\ TopOK(rec.stack, n, rec.pc, Len(rec.maps))
  BY DEF ThreadOK
<1>3. /\ Len(r.stack) = n + 1 /\ r.stack[n + 1] = g
      /\ \A i \in 1 .. n : r.stack[i] = rec.stack[i]
      /\ FrameOK(g, n + 1)
  OBVIOUS
<1>4. g.map \in Nat /\ LoopLimit \in Nat /\ Limit(rec.pc, n) = LoopLimit + n
  BY <1>1, <1>3, FrameMap, RecursorAssumption DEF Limit
<1>. HIDE DEF n
<1>5. Below(r.stack, n)
  <2>. SUFFICES ASSUME NEW i \in 1 .. n
                PROVE  /\ FrameOK(r.stack[i], i)
                       /\ r.stack[i].call = "walk" => r.stack[i].count <= LoopLimit + i
                       /\ r.stack[i].call = "lazy" => i > 1 /\ r.stack[i - 1].call = "walk"
                       /\ \A j \in 1 .. i : r.stack[j].map <= r.stack[i].map
    BY DEF Below
  <2>1. r.stack[i] = rec.stack[i] /\ (i > 1 => r.stack[i - 1] = rec.stack[i - 1])
    BY <1>1, <1>3
  <2>2. \A j \in 1 .. i : r.stack[j] = rec.stack[j]
    BY <1>1, <1>3
  <2>3. CASE i = n
    BY <1>1, <1>2, <1>4, <2>1, <2>2, <2>3 DEF TopOK
  <2>4. CASE i # n
    <3>1. i \in 1 .. n - 1
      BY <1>1, <2>4
    <3>. QED
      BY <1>2, <2>1, <2>2, <3>1 DEF Below
  <2>. QED
    BY <2>3, <2>4
<1>6. TopOK(r.stack, n + 1, r.pc, Len(r.maps))
  <2>1. g.call = "lazy" => n + 1 > 1 /\ r.stack[n + 1 - 1].call = "walk"
    BY <1>1, <1>3
  <2>2. \A j \in 1 .. n : rec.stack[j].map <= rec.stack[n].map
    BY <1>1, <1>2 DEF TopOK
  <2>3. \A j \in 1 .. n : rec.stack[j].map \in Nat
    BY <1>5, <1>3, FrameMap DEF Below
  <2>4. \A j \in 1 .. n + 1 : r.stack[j].map <= g.map
    <3>1. \A j \in 1 .. n + 1 : j = n + 1 \/ j \in 1 .. n
      BY <1>1
    <3>2. rec.stack[n].map <= g.map /\ rec.stack[n].map \in Nat
      BY <1>1
    <3>3. \A j \in 1 .. n : rec.stack[j].map <= g.map
      BY <1>4, <2>2, <2>3, <3>2
    <3>. QED
      BY <1>3, <1>4, <3>1, <3>3
  <2>5. g.call = "walk" => g.count <= Limit(r.pc, n + 1)
    <3>1. g.call = "walk" => g.count \in Nat /\ g.count < LoopLimit + (n + 1)
      BY <1>3 DEF FrameOK
    <3>. QED
      BY <3>1, <1>1, <1>4 DEF Limit
  <2>6. r.pc \in {"await", "claimwait"} => g.count = g.from.count
    BY <1>3, FrameMap
  <2>7. g.map <= Len(r.maps) /\ (g.call = "lazy" <=> r.pc = "lazy") /\ r.stack[n + 1] = g
    BY <1>3
  <2>8. FrameOK(g, n + 1)
    BY <1>3
  <2>. QED
    BY <1>1, <2>1, <2>4, <2>5, <2>6, <2>7, <2>8 DEF TopOK
<1>. QED
  BY <1>1, <1>3, <1>5, <1>6 DEF ThreadOK

\* The first frame of a thread.
LEMMA Started ==
    ASSUME NEW r, NEW g, PlaceOK(r), Len(r.stack) = 1, r.stack[1] = g,
           FrameOK(g, 1), g.call = "walk", g.count = g.from.count, g.map <= Len(r.maps),
           r.pc # "lazy"
    PROVE  ThreadOK(r)
<1>1. g.map \in Nat /\ LoopLimit \in Nat
  BY FrameMap, RecursorAssumption
<1>2. Below(r.stack, 0)
  BY DEF Below
<1>3. g.count \in Nat /\ g.count < LoopLimit + 1
  BY DEF FrameOK
<1>4. g.count <= Limit(r.pc, 1)
  BY <1>1, <1>3 DEF Limit
<1>5. TopOK(r.stack, 1, r.pc, Len(r.maps))
  BY <1>1, <1>4 DEF TopOK
<1>. QED
  BY <1>2, <1>5 DEF ThreadOK

\* The frame on top is gone and the one below has changed, which stays what it is.
LEMMA Popped ==
    ASSUME NEW rec, NEW r, NEW g, ThreadOK(rec), Len(rec.stack) > 1, rec.stack # <<>>,
           PlaceOK(r), Len(r.stack) = Len(rec.stack) - 1,
           \A i \in 1 .. Len(rec.stack) - 2 : r.stack[i] = rec.stack[i],
           r.stack[Len(rec.stack) - 1] = g,
           FrameOK(g, Len(rec.stack) - 1),
           g.call = rec.stack[Len(rec.stack) - 1].call,
           g.map = rec.stack[Len(rec.stack) - 1].map, g.map <= Len(r.maps),
           g.call = "walk" => g.count = rec.stack[Len(rec.stack) - 1].count,
           g.call = "lazy" <=> r.pc = "lazy",
           r.pc \notin {"await", "claimwait"}
    PROVE  ThreadOK(r)
<1>. DEFINE n == Len(rec.stack)
<1>1. n \in Nat \ {0, 1}
  BY TopFacts
<1>2. Below(rec.stack, n - 1)
  BY DEF ThreadOK
<1>3. /\ Len(r.stack) = n - 1 /\ r.stack[n - 1] = g
      /\ \A i \in 1 .. n - 2 : r.stack[i] = rec.stack[i]
      /\ FrameOK(g, n - 1)
      /\ g.call = rec.stack[n - 1].call /\ g.map = rec.stack[n - 1].map
      /\ g.call = "walk" => g.count = rec.stack[n - 1].count
  OBVIOUS
<1>4. g.map \in Nat /\ LoopLimit \in Nat
  BY <1>3, FrameMap, RecursorAssumption
<1>. HIDE DEF n
<1>5. Below(r.stack, n - 2)
  <2>. SUFFICES ASSUME NEW i \in 1 .. n - 2
                PROVE  /\ FrameOK(r.stack[i], i)
                       /\ r.stack[i].call = "walk" => r.stack[i].count <= LoopLimit + i
                       /\ r.stack[i].call = "lazy" => i > 1 /\ r.stack[i - 1].call = "walk"
                       /\ \A j \in 1 .. i : r.stack[j].map <= r.stack[i].map
    BY DEF Below
  <2>1. r.stack[i] = rec.stack[i] /\ (i > 1 => r.stack[i - 1] = rec.stack[i - 1])
    BY <1>1, <1>3
  <2>2. \A j \in 1 .. i : r.stack[j] = rec.stack[j]
    BY <1>1, <1>3
  <2>3. i \in 1 .. n - 1
    BY <1>1
  <2>. QED
    BY <1>2, <2>1, <2>2, <2>3 DEF Below
<1>6. TopOK(r.stack, n - 1, r.pc, Len(r.maps))
  <2>0. /\ n - 1 \in 1 .. n - 1
        /\ \A j \in 1 .. n - 1 : rec.stack[j].map <= rec.stack[n - 1].map
        /\ rec.stack[n - 1].call = "lazy" => n - 1 > 1 /\ rec.stack[n - 1 - 1].call = "walk"
        /\ rec.stack[n - 1].call = "walk" => rec.stack[n - 1].count <= LoopLimit + (n - 1)
    BY <1>1, <1>2 DEF Below
  <2>1. g.call = "lazy" => n - 1 > 1 /\ r.stack[n - 1 - 1].call = "walk"
    <3>1. n - 1 > 1 => n - 1 - 1 \in 1 .. n - 2
      BY <1>1
    <3>. QED
      BY <2>0, <1>3, <3>1
  <2>2. \A j \in 1 .. n - 1 : r.stack[j].map <= g.map
    <3>1. \A j \in 1 .. n - 1 : j = n - 1 \/ j \in 1 .. n - 2
      BY <1>1
    <3>. QED
      BY <3>1, <2>0, <1>3, <1>4
  <2>3. g.call = "walk" => g.count <= Limit(r.pc, n - 1)
    <3>1. g.call = "walk" => g.count \in Nat
      BY <1>3 DEF FrameOK
    <3>2. g.call = "walk" => g.count <= LoopLimit + (n - 1)
      BY <2>0, <1>3
    <3>. QED
      BY <3>1, <3>2, <1>1, <1>4 DEF Limit
  <2>. QED
    BY <1>3, <2>1, <2>2, <2>3 DEF TopOK
<1>7. n - 1 - 1 = n - 2
  BY <1>1
<1>. QED
  BY <1>3, <1>5, <1>6, <1>7 DEF ThreadOK

-----------------------------------------------------------------------------
(* What the operations on a thread make of it.                             *)

\* A thread goes on with the same request, or with the walk on top changed.
Goes(r, rec) == ThreadOK(r) /\ SameRequest(r, rec) /\ r.stack # <<>>
Turns(r, rec, f) == Goes(r, rec) /\ SameTop(r, rec, f) /\ r.pc \in {"walk", "return"} /\ Top(r) = f

LEMMA NoReplyFacts == NoReply.kind = "none" /\ "none" \in Results /\ "error" \in Results /\ "fail" \in Results
BY DEF NoReply, Results

LEMMA EnteredFacts ==
    ASSUME NEW rec, Shape(rec), Top(rec).map \in 1 .. Len(rec.maps), rec.ret.kind \in Results
    PROVE  LET r == Entered(rec) IN
           /\ Shape(r) /\ SameRequest(r, rec) /\ r.stack = rec.stack
           /\ Len(r.maps) = Len(rec.maps)
           /\ r.pc \in {"walk", "return"} /\ r.ret.kind \in Results
<1>. DEFINE f == Top(rec)
            q == <<f.name, f.type>>
            m == [rec.maps[f.map] EXCEPT !.busy = @ \cup {q}]
            r1 == [rec EXCEPT !.maps[f.map] = m]
            r2 == [r1 EXCEPT !.pc = "walk"]
<1>1. CASE q \in rec.maps[f.map].busy
  <2>1. Entered(rec) = Return(rec, NoReply)
    BY <1>1 DEF Entered
  <2>2. /\ Shape(Return(rec, NoReply)) /\ SameRequest(Return(rec, NoReply), rec)
        /\ Return(rec, NoReply).pc = "return" /\ Return(rec, NoReply).ret = NoReply
        /\ Return(rec, NoReply).maps = rec.maps /\ Return(rec, NoReply).stack = rec.stack
    BY ReturnFacts
  <2>. QED
    BY <2>1, <2>2, NoReplyFacts
<1>2. CASE q \notin rec.maps[f.map].busy
  <2>1. Entered(rec) = [rec EXCEPT !.maps[f.map].busy = @ \cup {q}, !.pc = "walk"]
    BY <1>2 DEF Entered
  <2>2. Entered(rec) = r2
    BY <2>1
  <2>3. /\ Shape(r1) /\ SameRequest(r1, rec)
        /\ r1.pc = rec.pc /\ r1.ret = rec.ret /\ r1.stack = rec.stack
        /\ Len(r1.maps) = Len(rec.maps)
    <3>. HIDE DEF m
    <3>. QED
      BY MapFacts
  <2>. HIDE DEF r1
  <2>4. /\ DOMAIN r2 = DOMAIN r1 /\ r2.pc = "walk" /\ r2.maps = r1.maps /\ r2.stack = r1.stack
        /\ r2.ret = r1.ret /\ r2.req = r1.req /\ r2.got = r1.got
    BY <2>3 DEF Shape
  <2>. HIDE DEF r2
  <2>5. Shape(r2) /\ SameRequest(r2, rec)
    BY <2>3, <2>4 DEF Shape, SameRequest
  <2>. QED
    BY <2>2, <2>3, <2>4, <2>5
<1>. QED
  BY <1>1, <1>2

\* A walk is entered with the frame on top changed.
LEMMA EnterTurns ==
    ASSUME NEW rec, ThreadOK(rec), rec.stack # <<>>, Top(rec).call = "walk",
           NEW rec1, Shape(rec1), SameRequest(rec1, rec), rec1.stack = rec.stack,
           Len(rec1.maps) = Len(rec.maps), rec1.ret.kind \in Results,
           NEW g, FrameOK(g, Len(rec.stack)), g.call = "walk", g.map = Top(rec).map,
           g.count <= LoopLimit + Len(rec.stack)
    PROVE  Turns(Entered(SetTop(rec1, g)), rec, g)
<1>. DEFINE r1 == SetTop(rec1, g)
            r == Entered(r1)
<1>1. /\ Shape(r1) /\ SameRequest(r1, rec1) /\ SameTop(r1, rec1, g)
      /\ r1.maps = rec1.maps /\ r1.ret = rec1.ret /\ r1.stack # <<>> /\ Top(r1) = g
  BY SetTopFacts
<1>2. Top(rec).map \in 1 .. Len(rec.maps) /\ Len(rec.stack) \in Nat \ {0}
  BY TopFacts
<1>. HIDE DEF r1
<1>3. /\ Shape(r) /\ SameRequest(r, r1) /\ r.stack = r1.stack /\ Len(r.maps) = Len(r1.maps)
      /\ r.pc \in {"walk", "return"} /\ r.ret.kind \in Results
  BY <1>1, <1>2, EnteredFacts
<1>. HIDE DEF r
<1>4. SameTop(r, rec, g) /\ SameRequest(r, rec)
  BY <1>1, <1>3 DEF SameTop, SameRequest
<1>5. PlaceOK(r)
  BY <1>1, <1>3 DEF PlaceOK, Places
<1>6. g.count <= Limit(r.pc, Len(rec.stack))
  <2>1. g.count \in Nat
    BY DEF FrameOK
  <2>2. LoopLimit + Len(rec.stack) <= Limit(r.pc, Len(rec.stack))
    BY <1>2, LimitFacts
  <2>. QED
    BY <1>2, <2>1, <2>2, LimitFacts
<1>7. ThreadOK(r)
  BY <1>3, <1>4, <1>5, <1>6, TopChanged
<1>8. Top(r) = g
  BY <1>1, <1>3 DEF Top
<1>. QED
  BY <1>1, <1>3, <1>4, <1>7, <1>8 DEF Turns, Goes, r, r1

\* A walk is started at the root, for the first time or again.
LEMMA RootTurns ==
    ASSUME NEW rec, ThreadOK(rec), rec.stack # <<>>, Top(rec).call = "walk",
           NEW rec1, Shape(rec1), SameRequest(rec1, rec), rec1.stack = rec.stack,
           Len(rec1.maps) = Len(rec.maps), rec1.ret.kind \in Results
    PROVE  Turns(Entered(SetTop(rec1, AtRoot(Top(rec)))), rec, AtRoot(Top(rec)))
<1>. DEFINE f == Top(rec)
            g == AtRoot(f)
            n == Len(rec.stack)
<1>1. FrameOK(f, n) /\ n \in Nat \ {0}
  BY TopFacts
<1>2. /\ f.type \in TypesAsked /\ f.map \in Nat \ {0}
      /\ f.from.count \in Nat /\ f.from.hops \in Nat
      /\ f.from.hops <= CNAMEMaxChainLength /\ f.from.count < LoopLimit + n
  BY <1>1 DEF FrameOK
<1>3. /\ DOMAIN g = WalkFields
      /\ g.call = "walk" /\ g.type = f.type /\ g.map = f.map
      /\ g.from = f.from /\ g.count = f.from.count
  BY AtRootFacts
<1>4. FrameOK(g, n)
  <2>. HIDE DEF g, f, n
  <2>. QED
    BY <1>2, <1>3 DEF FrameOK
<1>5. g.count <= LoopLimit + n
  <2>1. LoopLimit \in Nat
    BY RecursorAssumption
  <2>. HIDE DEF g, f, n
  <2>. QED
    BY <1>1, <1>2, <1>3, <2>1
<1>. HIDE DEF g
<1>6. Turns(Entered(SetTop(rec1, g)), rec, g)
  BY <1>3, <1>4, <1>5, EnterTurns
<1>. QED
  BY <1>6 DEF g

LEMMA SeededTurns ==
    ASSUME NEW rec, ThreadOK(rec), rec.pc \in {"await", "claimwait"}
    PROVE  Goes(Seeded(rec), rec) /\ Seeded(rec).pc \in {"walk", "return"}
<1>. DEFINE f == Top(rec)
            n == Len(rec.stack)
            cut == DeepestCut(f.name)
            maps == GlueFrom(rec.maps[f.map], referrals[cut])
            g == [f EXCEPT !.ns = ServersFrom(maps, referrals[cut]), !.seen = {cut},
                           !.common = Common(cut, f.name), !.count = @ + 1, !.seed = cut]
            rec1 == [rec EXCEPT !.maps[f.map] = maps]
<1>1. rec.stack # <<>> /\ Shape(rec) /\ rec.ret.kind \in Results
  BY DEF ThreadOK, PlaceOK
<1>2. /\ FrameOK(f, n) /\ n \in Nat \ {0} /\ f.call = "walk" /\ f.count = f.from.count
      /\ f.map \in 1 .. Len(rec.maps)
  BY <1>1, TopFacts
<1>3. \/ Seeded(rec) = Entered(SetTop(rec1, g))
      \/ Seeded(rec) = Entered(SetTop(rec, AtRoot(f)))
  BY DEF Seeded
<1>4. CASE Seeded(rec) = Entered(SetTop(rec, AtRoot(f)))
  <2>1. SameRequest(rec, rec)
    BY DEF SameRequest
  <2>2. Turns(Entered(SetTop(rec, AtRoot(f))), rec, AtRoot(f))
    BY <1>1, <1>2, <2>1, RootTurns
  <2>. QED
    BY <1>4, <2>2 DEF Turns
<1>5. CASE Seeded(rec) = Entered(SetTop(rec1, g))
  <2>1. /\ f.type \in TypesAsked /\ f.map \in Nat \ {0} /\ DOMAIN f = WalkFields
        /\ f.count \in Nat /\ f.from.count \in Nat /\ f.from.hops \in Nat
        /\ f.from.hops <= CNAMEMaxChainLength /\ f.from.count < LoopLimit + n
    BY <1>2 DEF FrameOK
  <2>2. LoopLimit \in Nat
    BY RecursorAssumption
  <2>. HIDE DEF f, n, cut, maps
  <2>3. /\ DOMAIN g = WalkFields
        /\ g.call = "walk" /\ g.type = f.type /\ g.map = f.map
        /\ g.from = f.from /\ g.count = f.count + 1
    BY <1>2, <2>1 DEF WalkFields
  <2>. HIDE DEF g
  <2>4. FrameOK(g, n)
    BY <2>1, <2>3 DEF FrameOK
  <2>5. g.count <= LoopLimit + n
    BY <1>2, <2>1, <2>2, <2>3
  <2>6. /\ Shape(rec1) /\ SameRequest(rec1, rec)
        /\ rec1.ret = rec.ret /\ rec1.stack = rec.stack
        /\ Len(rec1.maps) = Len(rec.maps)
    BY <1>1, <1>2, MapFacts
  <2>. HIDE DEF rec1
  <2>7. Turns(Entered(SetTop(rec1, g)), rec, g)
    BY <1>1, <1>2, <2>3, <2>4, <2>5, <2>6, EnterTurns DEF f, n
  <2>. QED
    BY <1>5, <2>7 DEF Turns
<1>. QED
  BY <1>3, <1>4, <1>5

\* A walk ends.
LEMMA ReturnTurns ==
    ASSUME NEW rec, ThreadOK(rec), rec.stack # <<>>, Top(rec).call = "walk",
           NEW result, result.kind \in Results
    PROVE  Turns(Return(rec, result), rec, Top(rec))
<1>. DEFINE r == Return(rec, result)
            f == Top(rec)
            n == Len(rec.stack)
<1>1. /\ Shape(rec) /\ FrameOK(f, n) /\ n \in Nat \ {0} /\ f.count <= Limit(rec.pc, n)
      /\ f = rec.stack[n]
  BY TopFacts
<1>2. /\ Shape(r) /\ SameRequest(r, rec)
      /\ r.pc = "return" /\ r.ret = result /\ r.maps = rec.maps /\ r.stack = rec.stack
      /\ Top(r) = f
  BY <1>1, ReturnFacts
<1>. HIDE DEF r, f, n
<1>3. SameTop(r, rec, f)
  BY <1>1, <1>2 DEF SameTop, n
<1>4. PlaceOK(r)
  BY <1>2 DEF PlaceOK, Places
<1>5. f.count <= Limit(r.pc, n)
  <2>1. f.count \in Nat
    BY <1>1 DEF FrameOK, f
  <2>2. LoopLimit \in Nat
    BY RecursorAssumption
  <2>. QED
    BY <1>1, <1>2, <2>1, <2>2 DEF Limit, After
<1>6. ThreadOK(r)
  BY <1>1, <1>2, <1>3, <1>4, <1>5, TopChanged DEF f, n
<1>. QED
  BY <1>2, <1>3, <1>6 DEF Turns, Goes, r, f

\* The frame of a walk that goes on is replaced by one that may count no more.
LEMMA SetTopTurns ==
    ASSUME NEW rec, ThreadOK(rec), rec.stack # <<>>, rec.pc \in {"walk", "return"},
           NEW g, FrameOK(g, Len(rec.stack)), g.call = "walk", g.map = Top(rec).map,
           g.count <= Limit(rec.pc, Len(rec.stack))
    PROVE  Turns(SetTop(rec, g), rec, g) /\ SetTop(rec, g).pc = rec.pc
<1>. DEFINE r == SetTop(rec, g)
<1>1. Shape(rec) /\ Top(rec).call = "walk"
  BY TopFacts
<1>2. /\ Shape(r) /\ SameRequest(r, rec) /\ SameTop(r, rec, g)
      /\ r.pc = rec.pc /\ r.maps = rec.maps /\ r.ret = rec.ret
      /\ r.stack # <<>> /\ Top(r) = g
  BY <1>1, SetTopFacts
<1>. HIDE DEF r
<1>3. PlaceOK(r)
  BY <1>2 DEF PlaceOK, ThreadOK
<1>4. ThreadOK(r)
  BY <1>1, <1>2, <1>3, TopChanged
<1>. QED
  BY <1>2, <1>4 DEF Turns, Goes, r

-----------------------------------------------------------------------------
(* Who asks the root.  A walk that does has servers whose addresses are    *)
(* known, so that nothing comes between it and their replies.              *)

HeldBy(f, d) ==
    /\ f.call = "walk" /\ f.atRoot = TRUE /\ Tld(f.name) = d
    /\ Sequential(f.ns)
    /\ \A i \in 1 .. Len(f.ns) : f.ns[i].lazy = FALSE /\ f.ns[i].addrs # <<>>

Asks(rec, d, n) ==
    /\ rec.stack # <<>> /\ Len(rec.stack) = n /\ rec.pc \in {"walk", "return"}
    /\ HeldBy(Top(rec), d)

Keeps(r, rec) == \A d, n : Asks(rec, d, n) => Asks(r, d, n)

LEMMA RootHeld ==
    ASSUME NEW f
    PROVE  HeldBy(AtRoot(f), Tld(f.name))
<1>. DEFINE g == AtRoot(f)
<1>1. /\ g.call = "walk" /\ g.name = f.name /\ g.atRoot = TRUE
      /\ g.ns = [i \in DOMAIN Root |-> Server(<<>>, <<Root[i]>>, FALSE)]
  BY AtRootFacts
<1>. HIDE DEF g
<1>2. Root \in Seq(Range(Root))
  BY RecursorAssumption
<1>3. Len(Root) \in Nat /\ DOMAIN Root = 1 .. Len(Root)
  BY <1>2, LenProperties
<1>4. /\ DOMAIN g.ns = 1 .. Len(Root)
      /\ \A i \in 1 .. Len(Root) : g.ns[i] = Server(<<>>, <<Root[i]>>, FALSE)
  BY <1>1, <1>3
<1>5. Sequential(g.ns) /\ Len(g.ns) = Len(Root)
  <2>. DEFINE T == {g.ns[i] : i \in 1 .. Len(Root)}
  <2>1. g.ns \in [1 .. Len(Root) -> T]
    BY <1>1, <1>3
  <2>. HIDE DEF T
  <2>2. g.ns \in Seq(T) /\ Len(g.ns) = Len(Root)
    BY <1>3, <2>1
  <2>. QED
    BY <2>2, SeqIsSequential
<1>6. \A i \in 1 .. Len(Root) : g.ns[i].lazy = FALSE /\ g.ns[i].addrs # <<>>
  <2>. SUFFICES ASSUME NEW i \in 1 .. Len(Root)
                PROVE  g.ns[i].lazy = FALSE /\ g.ns[i].addrs # <<>>
    OBVIOUS
  <2>. DEFINE s == Server(<<>>, <<Root[i]>>, FALSE)
  <2>0. s.lazy = FALSE /\ s.addrs = <<Root[i]>>
    BY DEF Server
  <2>. HIDE DEF s
  <2>1. g.ns[i] = s
    BY <1>4 DEF s
  <2>2. <<Root[i]>> # <<>>
    OBVIOUS
  <2>. QED
    BY <2>0, <2>1, <2>2
<1>. QED
  BY <1>1, <1>5, <1>6 DEF HeldBy, g

\* A frame that counts, and is for, the same as another.
Like(g, f) ==
    /\ DOMAIN g = DOMAIN f
    /\ g.call = f.call /\ g.name = f.name /\ g.type = f.type /\ g.map = f.map
    /\ g.from = f.from /\ g.count = f.count

LEMMA LikeOK ==
    ASSUME NEW f, NEW g, NEW n, FrameOK(f, n), f.call = "walk", Like(g, f)
    PROVE  FrameOK(g, n) /\ g.call = "walk" /\ g.map = f.map /\ g.count = f.count
BY DEF Like, FrameOK

LEMMA FrameEdits ==
    ASSUME NEW f, NEW n, FrameOK(f, n), f.call = "walk", NEW v
    PROVE  /\ Like([f EXCEPT !.candidate = v], f) /\ Like([f EXCEPT !.source = v], f)
           /\ Like([f EXCEPT !.seen = v], f) /\ Like([f EXCEPT !.ns = v], f)
           /\ [f EXCEPT !.ns = v].ns = v /\ [f EXCEPT !.ns = v].atRoot = f.atRoot
           /\ \A d : HeldBy(f, d) => /\ HeldBy([f EXCEPT !.candidate = v], d)
                                     /\ HeldBy([f EXCEPT !.source = v], d)
                                     /\ HeldBy([f EXCEPT !.seen = v], d)
<1>1. DOMAIN f = WalkFields
  BY DEF FrameOK
<1>2. /\ Like([f EXCEPT !.candidate = v], f)
      /\ [f EXCEPT !.candidate = v].atRoot = f.atRoot /\ [f EXCEPT !.candidate = v].ns = f.ns
  BY <1>1 DEF Like, WalkFields
<1>3. /\ Like([f EXCEPT !.source = v], f)
      /\ [f EXCEPT !.source = v].atRoot = f.atRoot /\ [f EXCEPT !.source = v].ns = f.ns
  BY <1>1 DEF Like, WalkFields
<1>4. /\ Like([f EXCEPT !.seen = v], f)
      /\ [f EXCEPT !.seen = v].atRoot = f.atRoot /\ [f EXCEPT !.seen = v].ns = f.ns
  BY <1>1 DEF Like, WalkFields
<1>5. /\ Like([f EXCEPT !.ns = v], f)
      /\ [f EXCEPT !.ns = v].atRoot = f.atRoot /\ [f EXCEPT !.ns = v].ns = v
  BY <1>1 DEF Like, WalkFields
<1>6. ASSUME NEW g, Like(g, f), g.atRoot = f.atRoot, g.ns = f.ns, NEW d, HeldBy(f, d)
      PROVE  HeldBy(g, d)
  BY <1>6 DEF Like, HeldBy
<1>. QED
  BY <1>2, <1>3, <1>4, <1>5, <1>6

\* One server fewer: the others are asked as before.
LEMMA FrontHeld ==
    ASSUME NEW f, NEW n, FrameOK(f, n), f.call = "walk", f.ns # <<>>, NEW d, HeldBy(f, d)
    PROVE  /\ HeldBy([f EXCEPT !.ns = Front(@)], d)
           /\ Last(f.ns).lazy = FALSE /\ Last(f.ns).addrs # <<>>
<1>. DEFINE g == [f EXCEPT !.ns = Front(f.ns)]
            m == Len(f.ns)
<1>1. Sequential(f.ns) /\ m \in Nat \ {0} /\ m - 1 \in 0 .. m /\ m \in 1 .. m
  BY SeqFacts DEF HeldBy
<1>2. Like(g, f) /\ g.ns = Front(f.ns) /\ g.atRoot = f.atRoot
  <2>1. DOMAIN f = WalkFields
    BY DEF FrameOK
  <2>. QED
    BY <2>1 DEF Like, WalkFields
<1>. HIDE DEF g
<1>3. /\ Sequential(g.ns) /\ Len(g.ns) = m - 1
      /\ \A i \in 1 .. m - 1 : g.ns[i] = f.ns[i]
  <2>1. g.ns = SubSeq(f.ns, 1, m - 1)
    BY <1>2 DEF Front
  <2>. HIDE DEF m
  <2>. QED
    BY <1>1, <2>1, SeqSub DEF m
<1>4. \A i \in 1 .. m - 1 : i \in 1 .. Len(f.ns)
  BY <1>1
<1>5. HeldBy(g, d)
  BY <1>2, <1>3, <1>4 DEF Like, HeldBy
<1>6. Last(f.ns).lazy = FALSE /\ Last(f.ns).addrs # <<>>
  BY <1>1 DEF Last, HeldBy
<1>. QED
  BY <1>5, <1>6 DEF g

\* A walk that turns goes on asking the root if its frame says so.
LEMMA TurnsKeeps ==
    ASSUME NEW rec, NEW r, NEW g, Turns(r, rec, g),
           \A d : HeldBy(Top(rec), d) => HeldBy(g, d)
    PROVE  Keeps(r, rec)
BY DEF Turns, Goes, Keeps, Asks, SameTop

-----------------------------------------------------------------------------
(* What becomes of a thread when a server has replied.                     *)

LEMMA CnameGoes ==
    ASSUME NEW rec, ThreadOK(rec), rec.pc = "walk", NEW resp
    PROVE  Goes(FollowedCname(rec, resp), rec)
<1>. DEFINE f == Top(rec)
            n == Len(rec.stack)
            hops == f.from.hops + 1
            rec1 == [rec EXCEPT !.maps = Append(@, Maps)]
            g == Walk(resp.target, f.type, Len(rec.maps) + 1, From(0, hops, TRUE, f.from.skip))
            r == Push(rec1, g, "await")
            ends(result) == FollowedCname(rec, resp) = Return(rec, result)
<1>1. rec.stack # <<>> /\ Shape(rec) /\ rec.ret.kind \in Results
  BY DEF ThreadOK, PlaceOK
<1>2. /\ FrameOK(f, n) /\ n \in Nat \ {0} /\ f.call = "walk" /\ f.map \in 1 .. Len(rec.maps)
      /\ Len(rec.maps) \in Nat
  BY <1>1, TopFacts
<1>3. \/ ends(Answer(f.name, resp.addrs)) \/ ends([kind |-> "error"]) \/ ends(Answer(f.name, <<>>))
      \/ FollowedCname(rec, resp) = r /\ ~(hops > CNAMEMaxChainLength)
  BY DEF FollowedCname
<1>4. ASSUME NEW result, ends(result), result.kind \in Results
      PROVE  Goes(FollowedCname(rec, resp), rec)
  <2>1. Turns(Return(rec, result), rec, f)
    BY <1>1, <1>2, <1>4, ReturnTurns
  <2>. QED
    BY <1>4, <2>1 DEF Turns
<1>5. /\ Answer(f.name, resp.addrs).kind \in Results /\ Answer(f.name, <<>>).kind \in Results
      /\ [kind |-> "error"].kind \in Results
  BY DEF Answer, Results
<1>6. CASE FollowedCname(rec, resp) = r /\ ~(hops > CNAMEMaxChainLength)
  <2>1. /\ f.type \in TypesAsked /\ f.from.hops \in Nat /\ LoopLimit \in Nat
        /\ CNAMEMaxChainLength \in Nat
    BY <1>2, RecursorAssumption DEF FrameOK
  <2>2. /\ DOMAIN g = WalkFields /\ g.call = "walk" /\ g.type = f.type
        /\ g.map = Len(rec.maps) + 1 /\ g.count = 0 /\ g.from.count = 0 /\ g.from.hops = hops
    BY DEF Walk, WalkFields, From
  <2>3. /\ DOMAIN rec1 = DOMAIN rec /\ rec1.maps = Append(rec.maps, Maps)
        /\ rec1.stack = rec.stack /\ rec1.pc = rec.pc /\ rec1.ret = rec.ret
        /\ rec1.req = rec.req /\ rec1.got = rec.got
    BY <1>1 DEF Shape
  <2>. HIDE DEF rec1, g, f, n
  <2>4. Sequential(rec1.maps) /\ Len(rec1.maps) = Len(rec.maps) + 1
    BY <1>1, <2>3, SeqAppend DEF Shape
  <2>5. Shape(rec1) /\ SameRequest(rec1, rec)
    BY <1>1, <2>3, <2>4 DEF Shape, SameRequest
  <2>6. /\ Shape(r) /\ SameRequest(r, rec1)
        /\ r.pc = "await" /\ r.maps = rec1.maps /\ r.ret = rec1.ret
        /\ Len(r.stack) = n + 1 /\ r.stack # <<>>
        /\ \A i \in 1 .. n : r.stack[i] = rec.stack[i]
        /\ r.stack[n + 1] = g
    BY <2>3, <2>5, PushFacts DEF n
  <2>. HIDE DEF r
  <2>7. FrameOK(g, n + 1)
    BY <1>2, <1>6, <2>1, <2>2 DEF FrameOK
  <2>8. PlaceOK(r)
    BY <1>1, <2>3, <2>6 DEF PlaceOK, Places
  <2>9. f.map <= g.map /\ g.map <= Len(r.maps)
    BY <1>2, <2>2, <2>4, <2>6
  <2>10. ThreadOK(r)
    BY <1>1, <2>2, <2>6, <2>7, <2>8, <2>9, Pushed DEF n, f, After
  <2>. QED
    BY <1>6, <2>5, <2>6, <2>10 DEF Goes, SameRequest
<1>. QED
  BY <1>3, <1>4, <1>5, <1>6

LEMMA ReferralGoes ==
    ASSUME NEW rec, ThreadOK(rec), rec.pc = "walk", NEW resp, NEW source
    PROVE  Goes(FollowedReferral(rec, resp, source), rec)
<1>. DEFINE f == Top(rec)
            n == Len(rec.stack)
            maps == GlueFrom(rec.maps[f.map], resp)
            g == [f EXCEPT !.seen = @ \cup {resp.cut}, !.common = Common(resp.cut, f.name),
                           !.atRoot = FALSE, !.ns = ServersFrom(maps, resp), !.count = @ + 1]
            entry == [zone |-> resp.cut, source |-> source]
            g1 == [g EXCEPT !.trace = <<entry>> \o @]
            next == [rec EXCEPT !.maps[f.map] = maps]
            past == Return(SetTop(next, g), NoReply)
<1>1. rec.stack # <<>> /\ Shape(rec) /\ rec.ret.kind \in Results
  BY DEF ThreadOK, PlaceOK
<1>2. /\ FrameOK(f, n) /\ n \in Nat \ {0} /\ f.call = "walk" /\ f.map \in 1 .. Len(rec.maps)
      /\ Len(rec.maps) \in Nat /\ f.count <= LoopLimit + n
  BY <1>1, TopFacts, LimitFacts DEF After
<1>3. \/ g.count > LoopLimit /\ FollowedReferral(rec, resp, source) = past
      \/ ~(g.count > LoopLimit) /\ FollowedReferral(rec, resp, source) = SetTop(next, g1)
  BY DEF FollowedReferral
<1>4. /\ f.type \in TypesAsked /\ f.map \in Nat \ {0} /\ DOMAIN f = WalkFields
      /\ f.count \in Nat /\ f.from.count \in Nat /\ f.from.hops \in Nat
      /\ f.from.hops <= CNAMEMaxChainLength /\ f.from.count < LoopLimit + n
      /\ LoopLimit \in Nat
  BY <1>2, RecursorAssumption DEF FrameOK
<1>5. /\ Shape(next) /\ SameRequest(next, rec)
      /\ next.pc = rec.pc /\ next.ret = rec.ret /\ next.stack = rec.stack
      /\ Len(next.maps) = Len(rec.maps)
  <2>. HIDE DEF maps
  <2>. QED
    BY <1>1, <1>2, MapFacts
<1>. HIDE DEF f, n, maps, next, entry
<1>6. /\ DOMAIN g = WalkFields
      /\ g.call = "walk" /\ g.type = f.type /\ g.map = f.map
      /\ g.from = f.from /\ g.count = f.count + 1
  BY <1>2, <1>4 DEF WalkFields
<1>. HIDE DEF g
<1>7. /\ DOMAIN g1 = WalkFields
      /\ g1.call = "walk" /\ g1.type = f.type /\ g1.map = f.map
      /\ g1.from = f.from /\ g1.count = f.count + 1
  BY <1>6 DEF WalkFields
<1>. HIDE DEF g1
<1>8. FrameOK(g, n) /\ FrameOK(g1, n)
  BY <1>4, <1>6, <1>7 DEF FrameOK
<1>9. CASE g.count > LoopLimit /\ FollowedReferral(rec, resp, source) = past
  <2>. DEFINE r1 == SetTop(next, g)
  <2>1. /\ Shape(r1) /\ SameRequest(r1, next) /\ SameTop(r1, next, g)
        /\ r1.maps = next.maps /\ r1.stack # <<>>
    BY <1>1, <1>5, SetTopFacts
  <2>. HIDE DEF r1
  <2>2. /\ Shape(past) /\ SameRequest(past, r1) /\ past.pc = "return" /\ past.ret = NoReply
        /\ past.maps = r1.maps /\ past.stack = r1.stack
    BY <2>1, ReturnFacts DEF r1
  <2>. HIDE DEF past
  <2>3. SameTop(past, rec, g) /\ SameRequest(past, rec)
    BY <1>5, <2>1, <2>2 DEF SameTop, SameRequest
  <2>4. PlaceOK(past)
    BY <2>1, <2>2, NoReplyFacts DEF PlaceOK, Places
  <2>5. g.count <= Limit(past.pc, n)
    BY <1>2, <1>4, <1>6, <2>2, LimitFacts DEF After
  <2>6. ThreadOK(past)
    BY <1>1, <1>2, <1>6, <1>8, <2>2, <2>3, <2>4, <2>5, TopChanged DEF f, n
  <2>. QED
    BY <1>9, <2>1, <2>2, <2>3, <2>6 DEF Goes
<1>10. CASE ~(g.count > LoopLimit) /\ FollowedReferral(rec, resp, source) = SetTop(next, g1)
  <2>. DEFINE r == SetTop(next, g1)
  <2>1. /\ Shape(r) /\ SameRequest(r, next) /\ SameTop(r, next, g1)
        /\ r.pc = "walk" /\ r.ret = next.ret /\ r.maps = next.maps /\ r.stack # <<>>
    BY <1>1, <1>5, SetTopFacts
  <2>. HIDE DEF r
  <2>2. SameTop(r, rec, g1) /\ SameRequest(r, rec)
    BY <1>5, <2>1 DEF SameTop, SameRequest
  <2>3. PlaceOK(r)
    BY <1>1, <1>5, <2>1 DEF PlaceOK, Places
  <2>4. g1.count <= Limit(r.pc, n)
    BY <1>2, <1>4, <1>6, <1>7, <1>10, <2>1, LimitFacts DEF After
  <2>5. ThreadOK(r)
    BY <1>1, <1>2, <1>7, <1>8, <2>1, <2>2, <2>3, <2>4, TopChanged DEF f, n
  <2>. QED
    BY <1>10, <2>1, <2>2, <2>5 DEF Goes, r
<1>. QED
  BY <1>3, <1>9, <1>10

Cuts(f) == \A c \in DOMAIN f : c # <<>> /\ f[c].cut = c

LEMMA ProcessGoes ==
    ASSUME NEW t \in Threads, NEW rec, ThreadOK(rec), rec.pc = "walk", NEW resp, NEW source,
           Process(t, rec, resp, source)
    PROVE  \E r : /\ th' = [th EXCEPT ![t] = r] /\ Goes(r, rec)
                  /\ claims' = Released(t) \/ (claims' = claims /\ Keeps(r, rec))
<1>. DEFINE f == Top(rec)
            n == Len(rec.stack)
            Q(r) == /\ th' = [th EXCEPT ![t] = r] /\ Goes(r, rec)
                    /\ claims' = Released(t) \/ (claims' = claims /\ Keeps(r, rec))
<1>1. rec.stack # <<>> /\ Shape(rec)
  BY DEF ThreadOK, PlaceOK
<1>2. FrameOK(f, n) /\ n \in Nat \ {0} /\ f.call = "walk" /\ f.count <= Limit(rec.pc, n)
  BY <1>1, TopFacts
<1>3. Keeps(rec, rec) /\ Goes(rec, rec)
  BY <1>1 DEF Keeps, Goes, SameRequest
\* A frame like the one on top.
<1>4. ASSUME NEW g, Like(g, f), \A d : HeldBy(f, d) => HeldBy(g, d)
      PROVE  Goes(SetTop(rec, g), rec) /\ Keeps(SetTop(rec, g), rec)
             /\ ThreadOK(SetTop(rec, g)) /\ Top(SetTop(rec, g)) = g
  <2>1. FrameOK(g, n) /\ g.call = "walk" /\ g.map = f.map /\ g.count = f.count
    BY <1>2, <1>4, LikeOK
  <2>2. Turns(SetTop(rec, g), rec, g)
    BY <1>1, <1>2, <2>1, SetTopTurns
  <2>. QED
    BY <1>4, <2>2, TurnsKeeps DEF Turns, Goes
<1>5. CASE /\ resp.kind \in {"none", "other"} /\ th' = [th EXCEPT ![t] = rec]
           /\ UNCHANGED <<referrals, claims>>
  <2>1. Q(rec)
    BY <1>3, <1>5
  <2>. QED
    BY <2>1
<1>6. CASE /\ resp.kind = "fail"
           /\ th' = [th EXCEPT ![t] = SetTop(rec, [f EXCEPT !.candidate = TRUE])]
           /\ UNCHANGED <<referrals, claims>>
  <2>. DEFINE g == [f EXCEPT !.candidate = TRUE]
  <2>1. Like(g, f) /\ \A d : HeldBy(f, d) => HeldBy(g, d)
    BY <1>2, FrameEdits
  <2>. HIDE DEF g, f
  <2>2. Q(SetTop(rec, g))
    BY <1>4, <1>6, <2>1 DEF g
  <2>. QED
    BY <2>2
<1>7. CASE /\ resp.kind \in {"nx", "nodata", "answer"}
           /\ th' = [th EXCEPT ![t] = Return(SetTop(rec, [f EXCEPT !.source = source]), resp)]
           /\ UNCHANGED <<referrals, claims>>
  <2>. DEFINE g == [f EXCEPT !.source = source]
              r1 == SetTop(rec, g)
              r == Return(r1, resp)
  <2>1. Like(g, f) /\ \A d : HeldBy(f, d) => HeldBy(g, d)
    BY <1>2, FrameEdits
  <2>. HIDE DEF g
  <2>2. Goes(r1, rec) /\ Keeps(r1, rec) /\ Top(r1) = g
    BY <1>4, <2>1
  <2>3. g.call = "walk"
    BY <1>2, <2>1 DEF Like
  <2>4. resp.kind \in Results
    BY <1>7 DEF Results
  <2>. HIDE DEF r1
  <2>5. Turns(r, r1, g)
    BY <2>2, <2>3, <2>4, ReturnTurns DEF Goes
  <2>6. Keeps(r, r1)
    BY <2>2, <2>5, TurnsKeeps
  <2>. HIDE DEF r
  <2>7. Goes(r, rec) /\ Keeps(r, rec)
    BY <2>2, <2>5, <2>6 DEF Keeps, Goes, SameRequest, Turns
  <2>8. Q(r)
    BY <1>7, <2>7 DEF r, r1, g
  <2>. QED
    BY <2>8
<1>8. CASE /\ resp.kind \in {"cname", "badcname"}
           /\ th' = [th EXCEPT ![t] = IF resp.kind = "cname" THEN FollowedCname(rec, resp)
                                      ELSE Return(rec, [kind |-> "error"])]
           /\ claims' = Released(t)
  <2>1. Goes(FollowedCname(rec, resp), rec)
    BY CnameGoes
  <2>2. [kind |-> "error"].kind \in Results
    BY DEF Results
  <2>3. Turns(Return(rec, [kind |-> "error"]), rec, f)
    BY <1>1, <1>2, <2>2, ReturnTurns
  <2>4. Goes(Return(rec, [kind |-> "error"]), rec)
    BY <2>3 DEF Turns
  <2>5. CASE resp.kind = "cname"
    <3>1. Q(FollowedCname(rec, resp))
      BY <1>8, <2>1, <2>5
    <3>. QED
      BY <3>1
  <2>6. CASE resp.kind # "cname"
    <3>1. Q(Return(rec, [kind |-> "error"]))
      BY <1>8, <2>4, <2>6
    <3>. QED
      BY <3>1
  <2>. QED
    BY <2>5, <2>6
<1>9. CASE /\ resp.kind = "referral" /\ ~Follows(f, resp)
           /\ th' = [th EXCEPT ![t] = SetTop(rec, [f EXCEPT !.seen = @ \cup ({resp.cut} \ {<<>>})])]
           /\ UNCHANGED <<referrals, claims>>
  <2>. DEFINE v == f.seen \cup ({resp.cut} \ {<<>>})
              g == [f EXCEPT !.seen = v]
  <2>1. Like(g, f) /\ \A d : HeldBy(f, d) => HeldBy(g, d)
    <3>. HIDE DEF v
    <3>. QED
      BY <1>2, FrameEdits
  <2>2. th' = [th EXCEPT ![t] = SetTop(rec, g)]
    BY <1>9
  <2>. HIDE DEF g, f
  <2>3. Q(SetTop(rec, g))
    BY <1>4, <1>9, <2>1, <2>2
  <2>. QED
    BY <2>3
<1>10. CASE /\ resp.kind = "referral" /\ Follows(f, resp)
            /\ th' = [th EXCEPT ![t] = FollowedReferral(rec, resp, source)]
            /\ claims' = IF f.atRoot THEN Released(t) ELSE claims
  <2>1. Goes(FollowedReferral(rec, resp, source), rec)
    BY ReferralGoes
  <2>2. claims' = Released(t) \/ (claims' = claims /\ Keeps(FollowedReferral(rec, resp, source), rec))
    <3>1. CASE f.atRoot = TRUE
      BY <1>10, <3>1
    <3>2. CASE f.atRoot # TRUE
      <4>1. Keeps(FollowedReferral(rec, resp, source), rec)
        BY <3>2 DEF Keeps, Asks, HeldBy
      <4>. QED
        BY <1>10, <4>1
    <3>. QED
      BY <3>1, <3>2
  <2>3. Q(FollowedReferral(rec, resp, source))
    BY <1>10, <2>1, <2>2
  <2>. QED
    BY <2>3
<1>. QED
  BY <1>5, <1>6, <1>7, <1>8, <1>9, <1>10 DEF Process

LEMMA ProcessCuts ==
    ASSUME NEW t, NEW rec, NEW resp, NEW source, Cuts(referrals), Process(t, rec, resp, source)
    PROVE  Cuts(referrals')
<1>1. \/ referrals' = referrals
      \/ resp.cut # <<>> /\ referrals' = StoredReferral(Top(rec), resp)
  BY DEF Process, Follows
<1>2. ASSUME resp.cut # <<>> PROVE Cuts(With(referrals, resp.cut, resp))
  <2>. DEFINE f == With(referrals, resp.cut, resp)
  <2>1. /\ DOMAIN f = DOMAIN referrals \cup {resp.cut} /\ f[resp.cut] = resp
        /\ \A x \in DOMAIN referrals : x # resp.cut => f[x] = referrals[x]
    BY DEF With
  <2>. HIDE DEF f
  <2>2. Cuts(f)
    BY <1>2, <2>1 DEF Cuts
  <2>. QED
    BY <2>2 DEF f
<1>. QED
  BY <1>1, <1>2 DEF StoredReferral

-----------------------------------------------------------------------------
(* The inductive invariant.                                                *)

ThreadsOK == DOMAIN th = Threads /\ \A t \in Threads : ThreadOK(th[t])

\* A claim belongs to a walk that asks the root.
ClaimsOK ==
    \A d \in DOMAIN claims :
        \E t \in Threads : \E n \in Nat : claims[d] = <<t, n>> /\ Asks(th[t], d, n)

\* The leader of a lookup is one that recurses, and is under way.
Leads(rec, k) ==
    rec.stack # <<>> /\ rec.req.op = "recurse" /\ k = <<rec.req.name, rec.req.type>>
LeadersOK == \A k \in DOMAIN inflight : inflight[k] \in Threads /\ Leads(th[inflight[k]], k)

Waits(rec) == rec.pc = "wait" /\ rec.got = <<>>
WaitersOK ==
    \A t \in Threads :
        Waits(th[t]) => <<th[t].req.name, th[t].req.type>> \in DOMAIN inflight

DataOK ==
    /\ world \in Worlds /\ canceled \in BOOLEAN /\ plan \in [Threads -> Seq(Requests)]
    /\ \A k \in DOMAIN cache : cache[k].kind \in Results
    /\ Cuts(referrals)

ControlOK == ThreadsOK /\ ClaimsOK /\ LeadersOK /\ WaitersOK
RecursorInv == DataOK /\ ControlOK

LEMMA ThreadHas ==
    ASSUME NEW rec, ThreadOK(rec)
    PROVE  /\ Shape(rec) /\ rec.pc \in Places /\ rec.ret.kind \in Results
           /\ rec.stack = <<>> <=> rec.pc \in {"idle", "wait"}
           /\ rec.pc = "parent" => rec.req.op = "parent"
BY DEF ThreadOK, PlaceOK

\* Claims that are left belong to threads that keep asking.
LEMMA ClaimsKept ==
    ASSUME ClaimsOK,
           DOMAIN claims' \subseteq DOMAIN claims,
           \A d \in DOMAIN claims' : claims'[d] = claims[d],
           \A u \in Threads : \A d \in DOMAIN claims' : \A n :
               claims[d] = <<u, n>> /\ Asks(th[u], d, n) => Asks(th'[u], d, n)
    PROVE  ClaimsOK'
<1>. SUFFICES ASSUME NEW d \in DOMAIN claims'
              PROVE  \E t \in Threads : \E n \in Nat : claims'[d] = <<t, n>> /\ Asks(th'[t], d, n)
  BY DEF ClaimsOK
<1>1. PICK t \in Threads : \E n \in Nat : claims[d] = <<t, n>> /\ Asks(th[t], d, n)
  BY DEF ClaimsOK
<1>2. PICK n \in Nat : claims[d] = <<t, n>> /\ Asks(th[t], d, n)
  BY <1>1
<1>3. Asks(th'[t], d, n)
  BY <1>2
<1>. QED
  BY <1>2, <1>3

\* releaseClaim leaves a thread without a claim.
LEMMA ReleasedAll ==
    ASSUME ClaimsOK, NEW t \in Threads
    PROVE  /\ DOMAIN Released(t) \subseteq DOMAIN claims
           /\ \A d \in DOMAIN Released(t) : Released(t)[d] = claims[d]
           /\ \A d \in DOMAIN Released(t) : \A n : claims[d] # <<t, n>>
<1>1. /\ DOMAIN Released(t) = DOMAIN claims \ Claimed(t)
      /\ \A d \in DOMAIN Released(t) : Released(t)[d] = claims[d]
  BY DEF Released
<1>2. ASSUME NEW d \in DOMAIN Released(t), NEW n, claims[d] = <<t, n>> PROVE FALSE
  <2>1. PICK u \in Threads : \E m \in Nat : claims[d] = <<u, m>> /\ Asks(th[u], d, m)
    BY <1>1 DEF ClaimsOK
  <2>2. PICK m \in Nat : claims[d] = <<u, m>> /\ Asks(th[u], d, m)
    BY <2>1
  <2>3. u = t /\ m = n
    BY <1>2, <2>2
  <2>4. claims[d] = <<t, Len(th[t].stack)>>
    BY <1>2, <2>2, <2>3 DEF Asks
  <2>. QED
    BY <1>1, <2>4 DEF Claimed
<1>. QED
  BY <1>1, <1>2

\* A step of a thread that stays under way and takes no claim.
LEMMA GoStep ==
    ASSUME ControlOK, NEW t \in Threads, NEW r, th' = [th EXCEPT ![t] = r],
           th[t].stack # <<>>, Goes(r, th[t]), inflight' = inflight,
           claims' = Released(t) \/ (claims' = claims /\ Keeps(r, th[t]))
    PROVE  ControlOK'
<1>1. /\ DOMAIN th' = Threads /\ th'[t] = r
      /\ \A u \in Threads : u # t => th'[u] = th[u]
  BY DEF ControlOK, ThreadsOK
<1>2. ThreadsOK'
  BY <1>1 DEF ControlOK, ThreadsOK, Goes
<1>3. ClaimsOK'
  <2>1. CASE claims' = Released(t)
    <3>1. /\ DOMAIN claims' \subseteq DOMAIN claims
          /\ \A d \in DOMAIN claims' : claims'[d] = claims[d]
          /\ \A d \in DOMAIN claims' : \A n : claims[d] # <<t, n>>
      BY <2>1, ReleasedAll DEF ControlOK
    <3>. QED
      BY <1>1, <3>1, ClaimsKept DEF ControlOK
  <2>2. CASE claims' = claims /\ Keeps(r, th[t])
    <3>1. \A u \in Threads : \A d, n : Asks(th[u], d, n) => Asks(th'[u], d, n)
      BY <1>1, <2>2 DEF Keeps
    <3>. QED
      BY <2>2, <3>1, ClaimsKept DEF ControlOK
  <2>. QED
    BY <2>1, <2>2
<1>4. LeadersOK'
  <2>. SUFFICES ASSUME NEW k \in DOMAIN inflight
                PROVE  inflight[k] \in Threads /\ Leads(th'[inflight[k]], k)
    BY DEF LeadersOK
  <2>1. inflight[k] \in Threads /\ Leads(th[inflight[k]], k)
    BY DEF ControlOK, LeadersOK
  <2>2. r.req = th[t].req /\ r.stack # <<>>
    BY DEF Goes, SameRequest
  <2>3. CASE inflight[k] = t
    BY <1>1, <2>1, <2>2, <2>3 DEF Leads
  <2>4. CASE inflight[k] # t
    BY <1>1, <2>1, <2>4
  <2>. QED
    BY <2>1, <2>3, <2>4
<1>5. WaitersOK'
  <2>. SUFFICES ASSUME NEW u \in Threads, Waits(th'[u])
                PROVE  <<th'[u].req.name, th'[u].req.type>> \in DOMAIN inflight
    BY DEF WaitersOK
  <2>1. r.pc # "wait"
    BY ThreadHas DEF Goes
  <2>2. u # t
    BY <1>1, <2>1 DEF Waits
  <2>. QED
    BY <1>1, <2>2 DEF ControlOK, WaitersOK
<1>. QED
  BY <1>2, <1>3, <1>4, <1>5 DEF ControlOK

LEMMA IdleFacts ==
    /\ ThreadOK(Idle) /\ Idle.pc = "idle" /\ Idle.stack = <<>> /\ Shape(Idle)
<1>1. /\ DOMAIN Idle = {"pc", "req", "stack", "maps", "ret", "got"}
      /\ Idle.pc = "idle" /\ Idle.stack = <<>> /\ Idle.maps = <<>> /\ Idle.ret = NoReply
  BY DEF Idle
<1>2. Sequential(<<>>)
  BY EmptySeq, SeqIsSequential
<1>3. Shape(Idle)
  BY <1>1, <1>2 DEF Shape
<1>4. PlaceOK(Idle)
  BY <1>1, <1>3, NoReplyFacts DEF PlaceOK, Places
<1>. QED
  BY <1>1, <1>3, <1>4 DEF ThreadOK

\* A thread whose place is not among those of a walk holds no claim.
LEMMA NoClaim ==
    ASSUME NEW rec, NEW d, NEW n, rec.pc \notin {"walk", "return"}
    PROVE  ~Asks(rec, d, n)
BY DEF Asks

-----------------------------------------------------------------------------
(* Step by step: a lookup from the root.                                   *)

LEMMA NothingToKeep ==
    ASSUME NEW rec, NEW r, rec.pc \notin {"walk", "return"}
    PROVE  Keeps(r, rec)
BY NoClaim DEF Keeps

\* A thread moves to another place with its frames as they are.
LEMMA PlaceChanged ==
    ASSUME NEW rec, ThreadOK(rec), NEW pc,
           (rec.pc \in After /\ pc \in After) \/ (rec.pc = "await" /\ pc = "claimwait"),
           pc = "parent" => rec.req.op = "parent"
    PROVE  Goes([rec EXCEPT !.pc = pc], rec)
<1>. DEFINE r == [rec EXCEPT !.pc = pc]
            n == Len(rec.stack)
<1>1. Shape(rec) /\ rec.stack # <<>> /\ rec.ret.kind \in Results
  BY ThreadHas DEF After
<1>2. /\ DOMAIN r = DOMAIN rec /\ r.pc = pc /\ r.req = rec.req /\ r.stack = rec.stack
      /\ r.maps = rec.maps /\ r.ret = rec.ret /\ r.got = rec.got
  BY <1>1 DEF Shape
<1>. HIDE DEF r
<1>3. /\ n \in Nat \ {0} /\ Top(rec) = rec.stack[n] /\ FrameOK(Top(rec), n)
      /\ Top(rec).call = "walk" => Top(rec).count <= Limit(rec.pc, n)
      /\ Top(rec).call = "lazy" <=> rec.pc = "lazy"
      /\ rec.pc \in {"await", "claimwait"} => Top(rec).count = Top(rec).from.count
  BY <1>1, TopFacts
<1>4. Shape(r) /\ SameRequest(r, rec) /\ SameTop(r, rec, Top(rec))
  BY <1>1, <1>2, <1>3 DEF Shape, SameRequest, SameTop
<1>5. PlaceOK(r)
  BY <1>1, <1>2, <1>4 DEF PlaceOK, Places, After
<1>6. Top(rec).call = "lazy" <=> r.pc = "lazy"
  BY <1>2, <1>3 DEF After
<1>7. Top(rec).call = "walk" => Top(rec).count <= Limit(r.pc, n)
  <2>1. Limit(r.pc, n) = Limit(rec.pc, n)
    BY <1>2, <1>3, LimitFacts DEF After
  <2>. QED
    BY <1>3, <2>1
<1>8. r.pc \in {"await", "claimwait"} => Top(rec).count = Top(rec).from.count
  BY <1>2, <1>3 DEF After
<1>9. r.pc \notin {"idle", "wait"}
  BY <1>2 DEF After
<1>10. ThreadOK(r)
  BY <1>1, <1>3, <1>4, <1>5, <1>6, <1>7, <1>8, <1>9, TopChanged
<1>. QED
  BY <1>1, <1>2, <1>4, <1>10 DEF Goes, r

LEMMA StoreStep ==
    ASSUME ControlOK, NEW t \in Threads, Store(t)
    PROVE  ControlOK'
<1>1. /\ th[t].pc = "store" /\ th' = [th EXCEPT ![t] = [th[t] EXCEPT !.pc = "finish"]]
      /\ inflight' = inflight /\ claims' = claims
  BY DEF Store
<1>2. ThreadOK(th[t])
  BY DEF ControlOK, ThreadsOK
<1>3. Goes([th[t] EXCEPT !.pc = "finish"], th[t])
  BY <1>1, <1>2, PlaceChanged DEF After
<1>4. th[t].stack # <<>>
  BY <1>1, <1>2, ThreadHas
<1>5. Keeps([th[t] EXCEPT !.pc = "finish"], th[t])
  BY <1>1, NothingToKeep
<1>. HIDE DEF Goes, Keeps
<1>. QED
  BY <1>1, <1>3, <1>4, <1>5, GoStep

LEMMA AwaitStep ==
    ASSUME ControlOK, NEW t \in Threads, Await(t)
    PROVE  ControlOK'
<1>. DEFINE rec == th[t]
            f == Top(rec)
            n == Len(rec.stack)
            direct == \/ f.from.skip \/ Len(f.name) < 2
                      \/ <<f.name, f.type>> \in th[t].maps[f.map].busy
            atRoot == Entered(SetTop(rec, AtRoot(f)))
            waiting == [rec EXCEPT !.pc = "claimwait"]
<1>1. ThreadOK(rec) /\ rec.pc = "await" /\ inflight' = inflight
  BY DEF ControlOK, ThreadsOK, Await
<1>2. /\ Shape(rec) /\ rec.stack # <<>> /\ rec.ret.kind \in Results
      /\ n \in Nat \ {0} /\ f.call = "walk"
  BY <1>1, ThreadHas, TopFacts
<1>3. Turns(atRoot, rec, AtRoot(f))
  <2>1. SameRequest(rec, rec)
    BY DEF SameRequest
  <2>. QED
    BY <1>1, <1>2, <2>1, RootTurns
<1>4. Goes(Seeded(rec), rec)
  BY <1>1, SeededTurns
<1>5. Goes(waiting, rec)
  BY <1>1, PlaceChanged
<1>6. ASSUME NEW r, th' = [th EXCEPT ![t] = r], Goes(r, rec), claims' = claims
      PROVE  ControlOK'
  <2>1. Keeps(r, rec)
    BY <1>1, NothingToKeep
  <2>. QED
    BY <1>1, <1>2, <1>6, <2>1, GoStep
<1>7. \/ th' = [th EXCEPT ![t] = atRoot] /\ claims' = claims
      \/ th' = [th EXCEPT ![t] = Seeded(rec)] /\ claims' = claims
      \/ /\ claims' = With(claims, Tld(f.name), <<t, n>>) /\ Tld(f.name) \notin DOMAIN claims
         /\ th' = [th EXCEPT ![t] = atRoot]
      \/ th' = [th EXCEPT ![t] = waiting] /\ claims' = claims
  <2>. DEFINE cached == ~direct /\ CutsAbove(f.name) # {}
              busy == ~direct /\ ~cached /\ Tld(f.name) \in DOMAIN claims
  <2>1. \/ /\ direct \/ cached
           /\ th' = [th EXCEPT ![t] = IF direct THEN atRoot ELSE Seeded(rec)]
           /\ claims' = claims
        \/ /\ ~direct /\ ~cached /\ ~busy
           /\ claims' = With(claims, Tld(f.name), <<t, n>>)
           /\ th' = [th EXCEPT ![t] = atRoot]
        \/ busy /\ th' = [th EXCEPT ![t] = waiting] /\ claims' = claims
    BY DEF Await
  <2>. HIDE DEF direct, rec, f, n, atRoot, waiting
  <2>. QED
    BY <2>1
<1>8. CASE /\ claims' = With(claims, Tld(f.name), <<t, n>>) /\ Tld(f.name) \notin DOMAIN claims
           /\ th' = [th EXCEPT ![t] = atRoot]
  <2>. DEFINE e == Tld(f.name)
  <2>1. /\ DOMAIN claims' = DOMAIN claims \cup {e} /\ claims'[e] = <<t, n>>
        /\ \A d \in DOMAIN claims : claims'[d] = claims[d]
    <3>. HIDE DEF e, n
    <3>. QED
      BY <1>8 DEF With, e
  <2>2. /\ DOMAIN th' = Threads /\ th'[t] = atRoot
        /\ \A u \in Threads : u # t => th'[u] = th[u]
    BY <1>8 DEF ControlOK, ThreadsOK
  <2>3. HeldBy(AtRoot(f), e)
    BY RootHeld
  <2>. HIDE DEF atRoot, e
  <2>4. Asks(atRoot, e, n)
    BY <1>3, <2>3 DEF Asks, Turns, Goes, SameTop
  <2>5. ThreadsOK'
    BY <1>3, <2>2 DEF ControlOK, ThreadsOK, Turns, Goes
  <2>6. ClaimsOK'
    <3>. SUFFICES ASSUME NEW d \in DOMAIN claims'
                  PROVE  \E u \in Threads : \E m \in Nat : claims'[d] = <<u, m>> /\ Asks(th'[u], d, m)
      BY DEF ClaimsOK
    <3>1. CASE d = e
      BY <1>2, <2>1, <2>2, <2>4, <3>1
    <3>2. CASE d # e
      <4>1. d \in DOMAIN claims /\ claims'[d] = claims[d]
        BY <2>1, <3>2
      <4>2. PICK u \in Threads : \E m \in Nat : claims[d] = <<u, m>> /\ Asks(th[u], d, m)
        BY <4>1 DEF ControlOK, ClaimsOK
      <4>3. PICK m \in Nat : claims[d] = <<u, m>> /\ Asks(th[u], d, m)
        BY <4>2
      <4>4. u # t
        BY <1>1, <4>3, NoClaim
      <4>. QED
        BY <2>2, <4>1, <4>3, <4>4
    <3>. QED
      BY <3>1, <3>2
  <2>7. LeadersOK'
    <3>. SUFFICES ASSUME NEW k \in DOMAIN inflight
                  PROVE  inflight[k] \in Threads /\ Leads(th'[inflight[k]], k)
      BY <1>1 DEF LeadersOK
    <3>1. inflight[k] \in Threads /\ Leads(th[inflight[k]], k)
      BY DEF ControlOK, LeadersOK
    <3>2. atRoot.req = rec.req /\ atRoot.stack # <<>>
      BY <1>3 DEF Turns, Goes, SameRequest
    <3>3. CASE inflight[k] = t
      BY <2>2, <3>1, <3>2, <3>3 DEF Leads
    <3>4. CASE inflight[k] # t
      BY <2>2, <3>1, <3>4
    <3>. QED
      BY <3>3, <3>4, <3>1
  <2>8. WaitersOK'
    <3>. SUFFICES ASSUME NEW u \in Threads, Waits(th'[u])
                  PROVE  <<th'[u].req.name, th'[u].req.type>> \in DOMAIN inflight
      BY <1>1 DEF WaitersOK
    <3>1. u # t
      BY <1>3, <2>2 DEF Turns, Waits
    <3>. QED
      BY <2>2, <3>1 DEF ControlOK, WaitersOK
  <2>. QED
    BY <2>5, <2>6, <2>7, <2>8 DEF ControlOK
<1>9. Goes(atRoot, rec)
  BY <1>3 DEF Turns
<1>. HIDE DEF atRoot, waiting
<1>. QED
  BY <1>4, <1>5, <1>6, <1>7, <1>8, <1>9

LEMMA ClaimWaitStep ==
    ASSUME ControlOK, NEW t \in Threads, ClaimWait(t)
    PROVE  ControlOK'
<1>. DEFINE failed == Return(th[t], [kind |-> "error"])
<1>1. /\ th[t].pc = "claimwait" /\ inflight' = inflight /\ claims' = claims
      /\ th' = [th EXCEPT ![t] = Seeded(th[t])] \/ th' = [th EXCEPT ![t] = failed]
  BY DEF ClaimWait, shared
<1>2. ThreadOK(th[t]) /\ th[t].stack # <<>> /\ Top(th[t]).call = "walk"
  BY <1>1, ThreadHas, TopFacts DEF ControlOK, ThreadsOK
<1>3. Goes(Seeded(th[t]), th[t])
  BY <1>1, <1>2, SeededTurns
<1>4. Goes(failed, th[t])
  <2>1. [kind |-> "error"].kind \in Results
    BY DEF Results
  <2>. QED
    BY <1>2, <2>1, ReturnTurns DEF Turns
<1>5. \A r : Keeps(r, th[t])
  BY <1>1, NothingToKeep
<1>. HIDE DEF failed
<1>. QED
  BY <1>1, <1>2, <1>3, <1>4, <1>5, GoStep

-----------------------------------------------------------------------------
(* Step by step: a walk and the lookups it makes.                          *)

\* What follows from a reply to a thread as it is when it has come.
LEMMA RepliedStep ==
    ASSUME ControlOK, NEW t \in Threads, th[t].stack # <<>>, inflight' = inflight,
           NEW rec, ThreadOK(rec), rec.pc = "walk", SameRequest(rec, th[t]), Keeps(rec, th[t]),
           NEW resp, NEW source, Process(t, rec, resp, source)
    PROVE  ControlOK'
<1>1. PICK r : /\ th' = [th EXCEPT ![t] = r] /\ Goes(r, rec)
               /\ claims' = Released(t) \/ (claims' = claims /\ Keeps(r, rec))
  BY ProcessGoes
<1>2. Goes(r, th[t])
  BY <1>1 DEF Goes, SameRequest
<1>3. Keeps(r, rec) => Keeps(r, th[t])
  BY DEF Keeps
<1>. QED
  BY <1>1, <1>2, <1>3, GoStep

LEMMA AskStep ==
    ASSUME ControlOK, NEW t \in Threads, NEW lost, Ask(t, lost)
    PROVE  ControlOK'
<1>. DEFINE f == Top(th[t])
            n == Len(th[t].stack)
            g == [f EXCEPT !.ns = Front(@)]
            s == Last(f.ns)
            rec == SetTop(th[t], g)
            addrs == IF s.lazy THEN Glue(rec.maps[f.map], s.name) ELSE s.addrs
            z == Lazy(s.name, f.map)
            r == Push(rec, z, "lazy")
<1>1. /\ th[t].pc = "walk" /\ f.ns # <<>> /\ inflight' = inflight
      /\ \/ Process(t, rec, FirstReply(addrs, f.name, f.type, lost), addrs)
         \/ addrs = <<>> /\ th' = [th EXCEPT ![t] = r] /\ claims' = claims
  BY DEF Ask
<1>2. ThreadOK(th[t]) /\ th[t].stack # <<>>
  BY <1>1, ThreadHas DEF ControlOK, ThreadsOK
<1>3. /\ FrameOK(f, n) /\ n \in Nat \ {0} /\ f.call = "walk" /\ f.count <= Limit(th[t].pc, n)
      /\ f.map \in 1 .. Len(th[t].maps)
  BY <1>1, <1>2, TopFacts
<1>4. Like(g, f)
  BY <1>3, FrameEdits
<1>5. FrameOK(g, n) /\ g.call = "walk" /\ g.map = f.map /\ g.count = f.count
  <2>. HIDE DEF g
  <2>. QED
    BY <1>3, <1>4, LikeOK
<1>6. Turns(rec, th[t], g) /\ rec.pc = "walk"
  <2>. HIDE DEF g
  <2>. QED
    BY <1>1, <1>2, <1>3, <1>5, SetTopTurns
<1>7. \A d : HeldBy(f, d) => HeldBy(g, d) /\ s.lazy = FALSE /\ s.addrs # <<>>
  BY <1>1, <1>3, FrontHeld
<1>8. ThreadOK(rec) /\ SameRequest(rec, th[t]) /\ Keeps(rec, th[t]) /\ rec.stack # <<>>
  BY <1>6, <1>7, TurnsKeeps DEF Turns, Goes
<1>9. CASE Process(t, rec, FirstReply(addrs, f.name, f.type, lost), addrs)
  <2>. HIDE DEF rec, addrs, f
  <2>. QED
    BY <1>1, <1>2, <1>6, <1>8, <1>9, RepliedStep
<1>10. CASE addrs = <<>> /\ th' = [th EXCEPT ![t] = r] /\ claims' = claims
  <2>1. Keeps(r, th[t])
    <3>1. ASSUME NEW d, HeldBy(f, d) PROVE FALSE
      BY <1>7, <1>10, <3>1
    <3>. QED
      BY <3>1 DEF Keeps, Asks
  <2>2. /\ DOMAIN z = LazyFields /\ z.call = "lazy" /\ z.map = f.map /\ z.type = "A"
    BY DEF Lazy, LazyFields
  <2>3. Shape(rec) /\ Len(rec.stack) = n /\ Len(rec.maps) = Len(th[t].maps) /\ Top(rec) = g
        /\ rec.ret.kind \in Results
    BY <1>6, <1>8, ThreadHas DEF Turns, SameTop
  <2>. HIDE DEF rec, z, f, n, g
  <2>4. /\ Shape(r) /\ SameRequest(r, rec)
        /\ r.pc = "lazy" /\ r.maps = rec.maps /\ r.ret = rec.ret
        /\ Len(r.stack) = n + 1 /\ r.stack # <<>>
        /\ \A i \in 1 .. n : r.stack[i] = rec.stack[i]
        /\ r.stack[n + 1] = z
    BY <2>3, PushFacts
  <2>. HIDE DEF r
  <2>5. FrameOK(z, n + 1)
    BY <1>3, <2>2 DEF FrameOK
  <2>6. PlaceOK(r)
    BY <2>3, <2>4 DEF PlaceOK, Places
  <2>7. Top(rec).map <= z.map /\ z.map <= Len(r.maps)
    BY <1>3, <1>5, <2>2, <2>3, <2>4
  <2>8. ThreadOK(r)
    BY <1>5, <1>6, <1>8, <2>2, <2>3, <2>4, <2>5, <2>6, <2>7, Pushed DEF After
  <2>9. Goes(r, th[t])
    BY <1>8, <2>4, <2>8 DEF Goes, SameRequest
  <2>. QED
    BY <1>1, <1>2, <1>10, <2>1, <2>9, GoStep
<1>. QED
  BY <1>1, <1>9, <1>10

\* The frame below a lookup of addresses.
LEMMA BelowLazy ==
    ASSUME NEW rec, ThreadOK(rec), rec.pc = "lazy"
    PROVE  LET n == Len(rec.stack)
               f == rec.stack[n - 1] IN
           /\ rec.stack # <<>> /\ n \in Nat \ {0, 1} /\ n > 1 /\ f.call = "walk"
           /\ FrameOK(f, n - 1) /\ f.count <= LoopLimit + (n - 1)
           /\ f.map <= Len(rec.maps) /\ f.map \in Nat \ {0} /\ Top(Pop(rec)) = f
<1>. DEFINE n == Len(rec.stack)
            f == rec.stack[n - 1]
<1>1. /\ rec.stack # <<>> /\ Shape(rec)
      /\ Below(rec.stack, n - 1) /\ TopOK(rec.stack, n, rec.pc, Len(rec.maps))
  BY ThreadHas DEF ThreadOK
<1>2. n \in Nat \ {0} /\ Len(rec.maps) \in Nat /\ Top(rec).map \in 1 .. Len(rec.maps)
      /\ Top(rec) = rec.stack[n]
  BY <1>1, TopFacts
<1>3. n > 1 /\ f.call = "walk" /\ (\A j \in 1 .. n : rec.stack[j].map <= rec.stack[n].map)
  BY <1>1, <1>2 DEF TopOK
<1>4. n - 1 \in 1 .. n - 1 /\ n - 1 \in 1 .. n
  BY <1>2, <1>3
<1>5. FrameOK(f, n - 1) /\ f.count <= LoopLimit + (n - 1)
  BY <1>1, <1>3, <1>4 DEF Below
<1>6. f.map \in Nat \ {0}
  BY <1>5, FrameMap
<1>7. f.map <= rec.stack[n].map
  BY <1>3, <1>4
<1>8. Top(Pop(rec)) = f
  BY <1>1, <1>3, PopFacts
<1>. HIDE DEF f
<1>9. f.map <= Len(rec.maps)
  BY <1>2, <1>6, <1>7
<1>. QED
  BY <1>1, <1>2, <1>3, <1>5, <1>6, <1>8, <1>9 DEF f

LEMMA LookupAddressesStep ==
    ASSUME ControlOK, NEW t \in Threads, LookupAddresses(t)
    PROVE  ControlOK'
<1>. DEFINE rec == th[t]
            z == Top(rec)
            n == Len(rec.stack)
            count == Top(Pop(rec)).count
            g == Walk(z.name, z.type, z.map, From(count, 0, FALSE, FALSE))
            r == Push(rec, g, "await")
<1>1. /\ rec.pc = "lazy" /\ z.type # "done" /\ th' = [th EXCEPT ![t] = r]
      /\ inflight' = inflight /\ claims' = claims
  BY DEF LookupAddresses, shared
<1>2. ThreadOK(rec)
  BY DEF ControlOK, ThreadsOK
<1>3. /\ Shape(rec) /\ rec.stack # <<>> /\ rec.ret.kind \in Results
  BY <1>1, <1>2, ThreadHas
<1>4. /\ FrameOK(z, n) /\ z.call = "lazy" /\ z.map \in 1 .. Len(rec.maps)
  BY <1>1, <1>2, <1>3, TopFacts
<1>5. n \in Nat \ {0, 1} /\ FrameOK(Top(Pop(rec)), n - 1) /\ Top(Pop(rec)).call = "walk"
      /\ count <= LoopLimit + (n - 1)
  BY <1>1, <1>2, BelowLazy
<1>6. count \in Nat /\ LoopLimit \in Nat /\ CNAMEMaxChainLength \in Nat
  BY <1>5, RecursorAssumption DEF FrameOK
<1>7. z.type \in {"A", "AAAA"} /\ z.map \in Nat \ {0} /\ {"A", "AAAA"} \subseteq TypesAsked
  BY <1>1, <1>4 DEF FrameOK, TypesAsked
<1>. HIDE DEF count, z, n, rec
<1>8. /\ DOMAIN g = WalkFields /\ g.call = "walk" /\ g.type = z.type
      /\ g.map = z.map /\ g.count = count /\ g.from.count = count /\ g.from.hops = 0
  BY DEF Walk, WalkFields, From
<1>. HIDE DEF g
<1>9. FrameOK(g, n + 1)
  <2>1. count < LoopLimit + (n + 1)
    BY <1>5, <1>6
  <2>. QED
    BY <1>6, <1>7, <1>8, <2>1 DEF FrameOK
<1>10. /\ Shape(r) /\ SameRequest(r, rec)
       /\ r.pc = "await" /\ r.maps = rec.maps /\ r.ret = rec.ret
       /\ Len(r.stack) = n + 1 /\ r.stack # <<>>
       /\ \A i \in 1 .. n : r.stack[i] = rec.stack[i]
       /\ r.stack[n + 1] = g
  BY <1>3, PushFacts DEF n
<1>. HIDE DEF r
<1>11. PlaceOK(r)
  BY <1>3, <1>10 DEF PlaceOK, Places
<1>12. Top(rec).map <= g.map /\ g.map <= Len(r.maps)
  <2>1. Len(rec.maps) \in Nat
    BY <1>3, SeqFacts DEF Shape
  <2>. QED
    BY <1>4, <1>7, <1>8, <1>10, <2>1 DEF z
<1>13. ThreadOK(r)
  BY <1>1, <1>2, <1>3, <1>8, <1>9, <1>10, <1>11, <1>12, Pushed DEF After, n
<1>14. Goes(r, rec)
  BY <1>10, <1>13 DEF Goes
<1>15. Keeps(r, rec)
  BY <1>1, NothingToKeep
<1>. QED
  BY <1>1, <1>3, <1>14, <1>15, GoStep DEF rec

LEMMA AskLazyStep ==
    ASSUME ControlOK, NEW t \in Threads, NEW lost, AskLazy(t, lost)
    PROVE  ControlOK'
<1>. DEFINE old == th[t]
            z == Top(old)
            n == Len(old.stack)
            f == old.stack[n - 1]
            popped == Pop(old)
            moved == [popped EXCEPT !.pc = "walk"]
            m == AddGlue(moved.maps[z.map], z.name, z.addrs)
            rec == [popped EXCEPT !.pc = "walk", !.maps[z.map] = AddGlue(@, z.name, z.addrs)]
<1>1. /\ old.pc = "lazy" /\ inflight' = inflight
      /\ Process(t, rec, FirstReply(z.addrs, Top(rec).name, Top(rec).type, lost), z.addrs)
  BY DEF AskLazy
<1>2. ThreadOK(old)
  BY DEF ControlOK, ThreadsOK
<1>3. /\ Shape(old) /\ old.stack # <<>> /\ old.ret.kind \in Results
  BY <1>1, <1>2, ThreadHas
<1>4. z.map \in 1 .. Len(old.maps)
  BY <1>2, <1>3, TopFacts
<1>5. /\ n \in Nat \ {0, 1} /\ n > 1 /\ f.call = "walk" /\ FrameOK(f, n - 1)
      /\ f.map <= Len(old.maps)
  BY <1>1, <1>2, BelowLazy
<1>6. /\ Shape(popped) /\ SameRequest(popped, old)
      /\ popped.pc = old.pc /\ popped.maps = old.maps /\ popped.ret = old.ret
      /\ Len(popped.stack) = n - 1 /\ popped.stack # <<>>
      /\ \A i \in 1 .. n - 1 : popped.stack[i] = old.stack[i]
      /\ Top(popped) = f
  BY <1>3, <1>5, PopFacts
<1>. HIDE DEF popped, z, f, n, old
<1>7. /\ DOMAIN moved = DOMAIN popped /\ moved.pc = "walk" /\ moved.stack = popped.stack
      /\ moved.maps = popped.maps /\ moved.ret = popped.ret
      /\ moved.req = popped.req /\ moved.got = popped.got
  BY <1>6 DEF Shape
<1>8. rec = [moved EXCEPT !.maps[z.map] = m]
  BY DEF moved, m
<1>. HIDE DEF rec, moved, m
<1>9. Shape(moved) /\ SameRequest(moved, old)
  BY <1>6, <1>7 DEF Shape, SameRequest
<1>10. z.map \in 1 .. Len(moved.maps)
  BY <1>4, <1>6, <1>7
<1>11. /\ Shape(rec) /\ SameRequest(rec, moved)
       /\ rec.pc = "walk" /\ rec.ret = old.ret /\ rec.stack = popped.stack
       /\ Len(rec.maps) = Len(old.maps)
  <2>. DEFINE v == [moved EXCEPT !.maps[z.map] = m]
  <2>1. /\ Shape(v) /\ SameRequest(v, moved)
        /\ v.pc = moved.pc /\ v.ret = moved.ret /\ v.stack = moved.stack
        /\ Len(v.maps) = Len(moved.maps)
    BY <1>9, <1>10, MapFacts
  <2>. HIDE DEF v
  <2>. QED
    BY <1>6, <1>7, <1>8, <2>1 DEF v
<1>12. SameRequest(rec, old)
  BY <1>9, <1>11 DEF SameRequest
<1>13. PlaceOK(rec)
  BY <1>3, <1>6, <1>11 DEF PlaceOK, Places
<1>14. /\ rec.stack[n - 1] = f /\ Len(rec.stack) = n - 1
       /\ \A i \in 1 .. n - 2 : rec.stack[i] = old.stack[i]
  <2>1. n - 1 \in 1 .. n - 1 /\ \A i \in 1 .. n - 2 : i \in 1 .. n - 1
    BY <1>5
  <2>. QED
    BY <1>6, <1>11, <2>1 DEF f
<1>15. ThreadOK(rec)
  BY <1>2, <1>3, <1>5, <1>11, <1>13, <1>14, Popped DEF n, f
<1>16. Keeps(rec, old)
  BY <1>1, NothingToKeep
<1>. QED
  BY <1>1, <1>3, <1>11, <1>12, <1>15, <1>16, RepliedStep DEF old

LEMMA EndWalkStep ==
    ASSUME ControlOK, NEW t \in Threads, EndWalk(t)
    PROVE  ControlOK'
<1>. DEFINE result == IF Top(th[t]).candidate THEN [kind |-> "fail"] ELSE NoReply
            r == Return(th[t], result)
<1>1. /\ th[t].pc = "walk" /\ th' = [th EXCEPT ![t] = r]
      /\ inflight' = inflight /\ claims' = claims
  BY DEF EndWalk, shared
<1>2. ThreadOK(th[t]) /\ th[t].stack # <<>> /\ Top(th[t]).call = "walk"
  BY <1>1, ThreadHas, TopFacts DEF ControlOK, ThreadsOK
<1>3. result.kind \in Results
  BY NoReplyFacts
<1>. HIDE DEF result
<1>4. Turns(r, th[t], Top(th[t]))
  BY <1>2, <1>3, ReturnTurns
<1>. HIDE DEF r
<1>5. Keeps(r, th[t])
  BY <1>4, TurnsKeeps
<1>6. Goes(r, th[t])
  BY <1>4 DEF Turns
<1>. QED
  BY <1>1, <1>2, <1>5, <1>6, GoStep

LEMMA RetryStep ==
    ASSUME ControlOK, NEW t \in Threads, Retry(t)
    PROVE  ControlOK'
<1>. DEFINE f == Top(th[t])
            q == <<f.name, f.type>>
            maps == IF f.from.own THEN Maps
                    ELSE IF f.viaCname THEN th[t].maps[f.map]
                    ELSE [th[t].maps[f.map] EXCEPT !.busy = @ \ {q}]
            rec == [th[t] EXCEPT !.maps[f.map] = maps]
            r == Entered(SetTop(rec, AtRoot(f)))
<1>1. /\ th[t].pc = "return" /\ th' = [th EXCEPT ![t] = r]
      /\ inflight' = inflight /\ claims' = claims
  BY DEF Retry
<1>2. /\ ThreadOK(th[t]) /\ th[t].stack # <<>> /\ Shape(th[t]) /\ th[t].ret.kind \in Results
  BY <1>1, ThreadHas DEF ControlOK, ThreadsOK
<1>3. f.call = "walk" /\ f.map \in 1 .. Len(th[t].maps)
  BY <1>1, <1>2, TopFacts
<1>4. /\ Shape(rec) /\ SameRequest(rec, th[t]) /\ rec.ret = th[t].ret
      /\ rec.stack = th[t].stack /\ Len(rec.maps) = Len(th[t].maps)
  <2>. HIDE DEF maps
  <2>. QED
    BY <1>2, <1>3, MapFacts
<1>. HIDE DEF rec
<1>5. Turns(r, th[t], AtRoot(f))
  BY <1>2, <1>3, <1>4, RootTurns
<1>6. \A d : HeldBy(f, d) => HeldBy(AtRoot(f), d)
  <2>1. HeldBy(AtRoot(f), Tld(f.name))
    BY RootHeld
  <2>. QED
    BY <2>1 DEF HeldBy
<1>. HIDE DEF r
<1>7. Keeps(r, th[t]) /\ Goes(r, th[t])
  BY <1>5, <1>6, TurnsKeeps DEF Turns
<1>. QED
  BY <1>1, <1>2, <1>7, GoStep

\* The frame below the one on top.
LEMMA BelowTop ==
    ASSUME NEW rec, ThreadOK(rec), rec.stack # <<>>, Len(rec.stack) > 1
    PROVE  LET n == Len(rec.stack)
               f == rec.stack[n - 1] IN
           /\ n \in Nat /\ FrameOK(f, n - 1) /\ f.map \in 1 .. Len(rec.maps)
           /\ f.call \in {"walk", "lazy"} /\ Top(Pop(rec)) = f
<1>. DEFINE n == Len(rec.stack)
            f == rec.stack[n - 1]
<1>1. /\ Shape(rec) /\ Below(rec.stack, n - 1) /\ TopOK(rec.stack, n, rec.pc, Len(rec.maps))
  BY ThreadHas DEF ThreadOK
<1>2. n \in Nat \ {0} /\ Len(rec.maps) \in Nat /\ Top(rec).map \in 1 .. Len(rec.maps)
      /\ Top(rec) = rec.stack[n]
  BY <1>1, TopFacts
<1>3. \A j \in 1 .. n : rec.stack[j].map <= rec.stack[n].map
  BY <1>1 DEF TopOK
<1>4. n - 1 \in 1 .. n - 1 /\ n - 1 \in 1 .. n
  BY <1>2
<1>5. FrameOK(f, n - 1)
  BY <1>1, <1>4 DEF Below
<1>6. f.map \in Nat \ {0} /\ f.call \in {"walk", "lazy"}
  BY <1>5, FrameMap
<1>7. f.map <= rec.stack[n].map
  BY <1>3, <1>4
<1>8. Top(Pop(rec)) = f
  BY <1>1, PopFacts
<1>. HIDE DEF f
<1>9. f.map \in 1 .. Len(rec.maps)
  BY <1>2, <1>6, <1>7
<1>. QED
  BY <1>2, <1>5, <1>6, <1>8, <1>9 DEF f

\* The maps that the frames below do not use go with the frame that is gone.
LEMMA PopMaps ==
    ASSUME NEW rec, ThreadOK(rec), rec.stack # <<>>, Len(rec.stack) > 1,
           NEW g, NEW r, NEW k, k = rec.stack[Len(rec.stack) - 1].map,
           Shape(r), SameRequest(r, rec),
           Len(r.stack) = Len(rec.stack) - 1,
           \A i \in 1 .. Len(rec.stack) - 2 : r.stack[i] = rec.stack[i],
           r.stack[Len(rec.stack) - 1] = g, Len(r.maps) = k,
           FrameOK(g, Len(rec.stack) - 1), g.map = k,
           g.call = rec.stack[Len(rec.stack) - 1].call,
           g.call = "walk" => g.count = rec.stack[Len(rec.stack) - 1].count,
           g.call = "lazy" <=> r.pc = "lazy",
           r.pc \in {"return", "lazy"}, r.ret.kind \in Results
    PROVE  Goes(r, rec)
<1>1. k \in Nat
  BY BelowTop
<1>2. r.stack # <<>>
  BY TopFacts, SeqFacts DEF Shape
<1>3. PlaceOK(r)
  BY <1>2 DEF PlaceOK, Places
<1>4. ThreadOK(r)
  BY <1>1, <1>3, Popped
<1>. QED
  BY <1>2, <1>4 DEF Goes

LEMMA ReturnToRequestStep ==
    ASSUME ControlOK, NEW t \in Threads, ReturnToRequest(t)
    PROVE  ControlOK'
<1>. DEFINE pc == IF th[t].req.op = "parent" THEN "parent" ELSE "store"
            r == [th[t] EXCEPT !.pc = pc]
<1>1. /\ th[t].pc = "return" /\ th' = [th EXCEPT ![t] = r]
      /\ inflight' = inflight /\ claims' = Released(t)
  BY DEF ReturnToRequest, Ends
<1>2. ThreadOK(th[t]) /\ th[t].stack # <<>>
  BY <1>1, ThreadHas DEF ControlOK, ThreadsOK
<1>3. pc \in After /\ (pc = "parent" => th[t].req.op = "parent")
  BY DEF After
<1>. HIDE DEF pc
<1>4. Goes(r, th[t])
  BY <1>1, <1>2, <1>3, PlaceChanged DEF After
<1>. HIDE DEF r
<1>. QED
  BY <1>1, <1>2, <1>4, GoStep

LEMMA ReturnToWalkStep ==
    ASSUME ControlOK, NEW t \in Threads, ReturnToWalk(t)
    PROVE  ControlOK'
<1>. DEFINE old == th[t]
            n == Len(old.stack)
            f == Top(old)
            rec == Pop(old)
            b == Top(rec)
            rec1 == [rec EXCEPT !.maps = SubSeq(@, 1, b.map)]
            g == [b EXCEPT !.trace = f.trace, !.source = f.source, !.viaCname = TRUE]
            r == SetTop(rec1, g)
<1>1. /\ old.pc = "return" /\ n > 1 /\ b.call = "walk" /\ th' = [th EXCEPT ![t] = r]
      /\ inflight' = inflight /\ claims' = Released(t)
  BY DEF ReturnToWalk, Ends
<1>2. ThreadOK(old) /\ old.stack # <<>> /\ Shape(old) /\ old.ret.kind \in Results
  BY <1>1, ThreadHas DEF ControlOK, ThreadsOK
<1>3. /\ n \in Nat /\ FrameOK(b, n - 1) /\ b.map \in 1 .. Len(old.maps) /\ b = old.stack[n - 1]
  BY <1>1, <1>2, BelowTop
<1>4. /\ Shape(rec) /\ SameRequest(rec, old)
      /\ rec.pc = old.pc /\ rec.maps = old.maps /\ rec.ret = old.ret
      /\ Len(rec.stack) = n - 1 /\ rec.stack # <<>>
      /\ \A i \in 1 .. n - 1 : rec.stack[i] = old.stack[i]
  BY <1>1, <1>2, PopFacts
<1>. HIDE DEF rec, old, n
<1>5. /\ DOMAIN rec1 = DOMAIN rec /\ rec1.maps = SubSeq(old.maps, 1, b.map)
      /\ rec1.pc = old.pc /\ rec1.ret = old.ret /\ rec1.stack = rec.stack
      /\ rec1.req = rec.req /\ rec1.got = rec.got
  BY <1>4 DEF Shape
<1>. HIDE DEF rec1
<1>6. Sequential(rec1.maps) /\ Len(rec1.maps) = b.map
  <2>1. b.map \in 0 .. Len(old.maps)
    BY <1>3
  <2>. QED
    BY <1>2, <1>5, <2>1, SeqSub DEF Shape
<1>7. Shape(rec1) /\ SameRequest(rec1, old)
  BY <1>4, <1>5, <1>6 DEF Shape, SameRequest
<1>8. Like(g, b)
  <2>1. DOMAIN b = WalkFields
    BY <1>1, <1>3 DEF FrameOK
  <2>. HIDE DEF b, f
  <2>. QED
    BY <2>1 DEF Like, WalkFields
<1>. HIDE DEF g, b
<1>9. FrameOK(g, n - 1) /\ g.call = "walk" /\ g.map = b.map /\ g.count = b.count
  BY <1>1, <1>3, <1>8, LikeOK
<1>10. /\ Shape(r) /\ SameRequest(r, rec1) /\ SameTop(r, rec1, g)
       /\ r.pc = "return" /\ r.maps = rec1.maps /\ r.ret = old.ret
  BY <1>1, <1>4, <1>5, <1>7, SetTopFacts
<1>. HIDE DEF r
<1>11. /\ Len(r.stack) = n - 1 /\ r.stack[n - 1] = g /\ SameRequest(r, old) /\ Len(r.maps) = b.map
       /\ \A i \in 1 .. n - 2 : r.stack[i] = old.stack[i]
  <2>1. \A i \in 1 .. n - 2 : i \in 1 .. n - 1 /\ i # n - 1
    BY <1>3
  <2>. QED
    BY <1>4, <1>5, <1>6, <1>7, <1>10, <2>1 DEF SameTop, SameRequest
<1>12. Goes(r, old)
  BY <1>1, <1>2, <1>3, <1>9, <1>10, <1>11, PopMaps DEF n
<1>. QED
  BY <1>1, <1>2, <1>12, GoStep DEF old

LEMMA ReturnToLazyStep ==
    ASSUME ControlOK, NEW t \in Threads, ReturnToLazy(t)
    PROVE  ControlOK'
<1>. DEFINE old == th[t]
            n == Len(old.stack)
            ret == old.ret
            rec == Pop(old)
            b == Top(rec)
            next == IF b.type = "A" /\ ret.kind \notin {"error", "nx"} THEN "AAAA" ELSE "done"
            found == IF ret.kind = "error" THEN <<>> ELSE Found(b, ret)
            rec1 == [rec EXCEPT !.maps = SubSeq(@, 1, b.map), !.pc = "lazy", !.ret = NoReply]
            g == [b EXCEPT !.type = next, !.addrs = found]
            r == SetTop(rec1, g)
<1>1. /\ old.pc = "return" /\ n > 1 /\ b.call = "lazy" /\ th' = [th EXCEPT ![t] = r]
      /\ inflight' = inflight /\ claims' = Released(t)
  BY DEF ReturnToLazy, Ends
<1>2. ThreadOK(old) /\ old.stack # <<>> /\ Shape(old) /\ old.ret.kind \in Results
  BY <1>1, ThreadHas DEF ControlOK, ThreadsOK
<1>3. /\ n \in Nat /\ FrameOK(b, n - 1) /\ b.map \in 1 .. Len(old.maps) /\ b = old.stack[n - 1]
  BY <1>1, <1>2, BelowTop
<1>4. /\ Shape(rec) /\ SameRequest(rec, old)
      /\ rec.pc = old.pc /\ rec.maps = old.maps /\ rec.ret = old.ret
      /\ Len(rec.stack) = n - 1 /\ rec.stack # <<>>
      /\ \A i \in 1 .. n - 1 : rec.stack[i] = old.stack[i]
  BY <1>1, <1>2, PopFacts
<1>5. next \in {"AAAA", "done"}
  OBVIOUS
<1>. HIDE DEF rec, old, n, next, found
<1>6. /\ DOMAIN rec1 = DOMAIN rec /\ rec1.maps = SubSeq(old.maps, 1, b.map)
      /\ rec1.pc = "lazy" /\ rec1.ret = NoReply /\ rec1.stack = rec.stack
      /\ rec1.req = rec.req /\ rec1.got = rec.got
  BY <1>4 DEF Shape
<1>. HIDE DEF rec1
<1>7. Sequential(rec1.maps) /\ Len(rec1.maps) = b.map
  <2>1. b.map \in 0 .. Len(old.maps)
    BY <1>3
  <2>. QED
    BY <1>2, <1>6, <2>1, SeqSub DEF Shape
<1>8. Shape(rec1) /\ SameRequest(rec1, old)
  BY <1>4, <1>6, <1>7 DEF Shape, SameRequest
<1>9. /\ DOMAIN b = LazyFields /\ b.map \in Nat \ {0}
  BY <1>1, <1>3 DEF FrameOK
<1>10. DOMAIN g = LazyFields /\ g.call = "lazy" /\ g.map = b.map /\ g.type = next
  <2>. HIDE DEF b
  <2>. QED
    BY <1>1, <1>9 DEF LazyFields
<1>. HIDE DEF g, b
<1>11. FrameOK(g, n - 1)
  BY <1>5, <1>9, <1>10 DEF FrameOK
<1>12. /\ Shape(r) /\ SameRequest(r, rec1) /\ SameTop(r, rec1, g)
       /\ r.pc = "lazy" /\ r.maps = rec1.maps /\ r.ret = NoReply
  BY <1>4, <1>6, <1>8, SetTopFacts
<1>. HIDE DEF r
<1>13. /\ Len(r.stack) = n - 1 /\ r.stack[n - 1] = g /\ SameRequest(r, old) /\ Len(r.maps) = b.map
       /\ \A i \in 1 .. n - 2 : r.stack[i] = old.stack[i]
  <2>1. \A i \in 1 .. n - 2 : i \in 1 .. n - 1 /\ i # n - 1
    BY <1>3
  <2>. QED
    BY <1>4, <1>6, <1>7, <1>8, <1>12, <2>1 DEF SameTop, SameRequest
<1>14. r.ret.kind \in Results
  BY <1>12, NoReplyFacts
<1>15. Goes(r, old)
  BY <1>1, <1>2, <1>3, <1>10, <1>11, <1>12, <1>13, <1>14, PopMaps DEF n
<1>. QED
  BY <1>1, <1>2, <1>15, GoStep DEF old

-----------------------------------------------------------------------------
(* Step by step: requests begin and end.                                   *)

\* A thread that holds no claim and leads no lookup begins or ends a request.
LEMMA AwayStep ==
    ASSUME ControlOK, NEW t \in Threads, NEW r, th' = [th EXCEPT ![t] = r], ThreadOK(r),
           th[t].pc \notin {"walk", "return"}, th[t].stack = <<>> \/ th[t].req.op # "recurse",
           Waits(r) => <<r.req.name, r.req.type>> \in DOMAIN inflight,
           inflight' = inflight, claims' = claims
    PROVE  ControlOK'
<1>1. /\ DOMAIN th' = Threads /\ th'[t] = r
      /\ \A u \in Threads : u # t => th'[u] = th[u]
  BY DEF ControlOK, ThreadsOK
<1>2. ThreadsOK'
  BY <1>1 DEF ControlOK, ThreadsOK
<1>3. ClaimsOK'
  <2>1. \A u \in Threads : \A d, n : Asks(th[u], d, n) => Asks(th'[u], d, n)
    BY <1>1, NoClaim
  <2>. QED
    BY <2>1, ClaimsKept DEF ControlOK
<1>4. LeadersOK'
  <2>. SUFFICES ASSUME NEW k \in DOMAIN inflight
                PROVE  inflight[k] \in Threads /\ Leads(th'[inflight[k]], k)
    BY DEF LeadersOK
  <2>1. inflight[k] \in Threads /\ Leads(th[inflight[k]], k)
    BY DEF ControlOK, LeadersOK
  <2>2. inflight[k] # t
    BY <2>1 DEF Leads
  <2>. QED
    BY <1>1, <2>1, <2>2
<1>5. WaitersOK'
  <2>. SUFFICES ASSUME NEW u \in Threads, Waits(th'[u])
                PROVE  <<th'[u].req.name, th'[u].req.type>> \in DOMAIN inflight
    BY DEF WaitersOK
  <2>1. CASE u = t
    BY <1>1, <2>1
  <2>2. CASE u # t
    BY <1>1, <2>2 DEF ControlOK, WaitersOK
  <2>. QED
    BY <2>1, <2>2
<1>. QED
  BY <1>2, <1>3, <1>4, <1>5 DEF ControlOK

\* A thread with a request and no frame yet.
Fresh(req) == [Idle EXCEPT !.req = req, !.maps = <<Maps>>]

LEMMA FreshFacts ==
    ASSUME NEW req
    PROVE  LET rec == Fresh(req) IN
           /\ Shape(rec) /\ rec.pc = "idle" /\ rec.req = req /\ rec.stack = <<>>
           /\ Len(rec.maps) = 1 /\ rec.ret = NoReply /\ rec.got = <<>>
<1>. DEFINE rec == Fresh(req)
<1>1. /\ DOMAIN rec = {"pc", "req", "stack", "maps", "ret", "got"}
      /\ rec.pc = "idle" /\ rec.req = req /\ rec.stack = <<>> /\ rec.maps = <<Maps>>
      /\ rec.ret = NoReply /\ rec.got = <<>>
  BY DEF Fresh, Idle
<1>. HIDE DEF rec
<1>2. Sequential(<<>>) /\ Len(<<>>) = 0
  BY EmptySeq, SeqIsSequential
<1>3. <<Maps>> \in Seq({Maps}) /\ Len(<<Maps>>) = 1
  OBVIOUS
<1>4. Sequential(<<Maps>>) /\ Len(<<Maps>>) = 1
  BY <1>3, SeqIsSequential
<1>5. Shape(rec)
  BY <1>1, <1>2, <1>4 DEF Shape
<1>. QED
  BY <1>1, <1>4, <1>5 DEF rec

\* The first walk of a request.
LEMMA FirstWalk ==
    ASSUME NEW req, NEW g, FrameOK(g, 1), g.call = "walk", g.count = g.from.count, g.map = 1
    PROVE  LET r == Push(Fresh(req), g, "await") IN
           /\ ThreadOK(r) /\ r.req = req /\ r.pc = "await" /\ r.stack # <<>> /\ Top(r) = g
           /\ Len(r.stack) = 1
<1>. DEFINE rec == Fresh(req)
            r == Push(rec, g, "await")
<1>1. /\ Shape(rec) /\ rec.req = req /\ rec.stack = <<>> /\ Len(rec.maps) = 1
      /\ rec.ret = NoReply /\ rec.got = <<>>
  BY FreshFacts
<1>. HIDE DEF rec
<1>2. Len(rec.stack) = 0
  BY <1>1, SeqFacts DEF Shape
<1>3. /\ Shape(r) /\ SameRequest(r, rec)
      /\ r.pc = "await" /\ r.maps = rec.maps /\ r.ret = rec.ret
      /\ Len(r.stack) = Len(rec.stack) + 1 /\ r.stack # <<>>
      /\ r.stack[Len(rec.stack) + 1] = g /\ Top(r) = g
  <2>1. Shape(rec)
    BY <1>1
  <2>. QED
    BY <2>1, PushFacts
<1>. HIDE DEF r
<1>4. Len(r.stack) = 1 /\ r.stack[1] = g /\ Len(r.maps) = 1
  BY <1>1, <1>2, <1>3
<1>5. PlaceOK(r)
  BY <1>1, <1>3, NoReplyFacts DEF PlaceOK, Places
<1>6. ThreadOK(r)
  BY <1>3, <1>4, <1>5, Started
<1>. QED
  BY <1>1, <1>3, <1>4, <1>6 DEF SameRequest, r, rec

LEMMA LookupStep ==
    ASSUME DataOK, ControlOK, NEW t \in Threads, Lookup(t)
    PROVE  ControlOK'
<1>. DEFINE req == Head(plan[t])
            key == <<req.name, req.type>>
            rec == Fresh(req)
            g == Walk(req.name, req.type, 1, From(0, 0, TRUE, FALSE))
            r == Push(rec, g, "await")
            w == [rec EXCEPT !.pc = "wait"]
<1>1. /\ th[t].pc = "idle" /\ req.op = "recurse" /\ plan[t] # <<>> /\ claims' = claims
      /\ \/ inflight' = inflight /\ th' = th
         \/ key \in DOMAIN inflight /\ th' = [th EXCEPT ![t] = w] /\ inflight' = inflight
         \/ inflight' = With(inflight, key, t) /\ th' = [th EXCEPT ![t] = r]
  BY DEF Lookup, Fresh
<1>2. th[t].stack = <<>> /\ DOMAIN th = Threads
  BY <1>1, ThreadHas DEF ControlOK, ThreadsOK
<1>3. /\ Shape(rec) /\ rec.pc = "idle" /\ rec.req = req /\ rec.stack = <<>>
      /\ Len(rec.maps) = 1 /\ rec.ret = NoReply /\ rec.got = <<>>
  BY FreshFacts
<1>4. req \in Requests
  <2>1. plan[t] \in Seq(Requests)
    BY DEF DataOK
  <2>. QED
    BY <1>1, <2>1, HeadTailProperties
<1>5. CASE inflight' = inflight /\ th' = th
  BY <1>1, <1>5 DEF ControlOK, ThreadsOK, ClaimsOK, LeadersOK, WaitersOK
<1>6. CASE key \in DOMAIN inflight /\ th' = [th EXCEPT ![t] = w] /\ inflight' = inflight
  <2>. HIDE DEF rec, key
  <2>1. /\ DOMAIN w = DOMAIN rec /\ w.pc = "wait" /\ w.req = req /\ w.stack = <<>>
        /\ w.maps = rec.maps /\ w.ret = NoReply
    BY <1>3 DEF Shape
  <2>. HIDE DEF w, req
  <2>2. ThreadOK(w)
    BY <1>3, <2>1, NoReplyFacts DEF ThreadOK, PlaceOK, Places, Shape
  <2>3. <<w.req.name, w.req.type>> \in DOMAIN inflight
    BY <1>6, <2>1 DEF key
  <2>. QED
    BY <1>1, <1>2, <1>6, <2>2, <2>3, AwayStep
<1>7. CASE inflight' = With(inflight, key, t) /\ th' = [th EXCEPT ![t] = r]
  <2>1. /\ DOMAIN g = WalkFields /\ g.call = "walk" /\ g.type = req.type
        /\ g.map = 1 /\ g.count = 0 /\ g.from.count = 0 /\ g.from.hops = 0
    BY DEF Walk, WalkFields, From
  <2>2. FrameOK(g, 1)
    <3>1. req.type \in TypesAsked
      BY <1>4 DEF TypesAsked
    <3>2. LoopLimit \in Nat /\ CNAMEMaxChainLength \in Nat
      BY RecursorAssumption
    <3>. HIDE DEF g, req
    <3>. QED
      BY <2>1, <3>1, <3>2 DEF FrameOK
  <2>. HIDE DEF g
  <2>3. ThreadOK(r) /\ r.req = req /\ r.pc = "await" /\ r.stack # <<>>
    BY <2>1, <2>2, FirstWalk
  <2>. HIDE DEF r, req
  <2>4. /\ DOMAIN th' = Threads /\ th'[t] = r
        /\ \A u \in Threads : u # t => th'[u] = th[u]
    BY <1>2, <1>7
  <2>5. /\ DOMAIN inflight' = DOMAIN inflight \cup {key} /\ inflight'[key] = t
        /\ \A k \in DOMAIN inflight : k # key => inflight'[k] = inflight[k]
    <3>. HIDE DEF key
    <3>. QED
      BY <1>7 DEF With
  <2>6. ThreadsOK'
    BY <2>3, <2>4 DEF ControlOK, ThreadsOK
  <2>7. ClaimsOK'
    <3>1. \A u \in Threads : \A d, n : Asks(th[u], d, n) => Asks(th'[u], d, n)
      BY <1>1, <2>4, NoClaim
    <3>. QED
      BY <1>1, <3>1, ClaimsKept DEF ControlOK
  <2>8. LeadersOK'
    <3>. SUFFICES ASSUME NEW k \in DOMAIN inflight'
                  PROVE  inflight'[k] \in Threads /\ Leads(th'[inflight'[k]], k)
      BY DEF LeadersOK
    <3>1. CASE k = key
      BY <1>1, <2>3, <2>4, <2>5, <3>1 DEF Leads
    <3>2. CASE k # key
      <4>1. k \in DOMAIN inflight /\ inflight'[k] = inflight[k]
        BY <2>5, <3>2
      <4>2. inflight[k] \in Threads /\ Leads(th[inflight[k]], k)
        BY <4>1 DEF ControlOK, LeadersOK
      <4>3. inflight[k] # t
        BY <1>2, <4>2 DEF Leads
      <4>. QED
        BY <2>4, <4>1, <4>2, <4>3
    <3>. QED
      BY <3>1, <3>2
  <2>9. WaitersOK'
    <3>. SUFFICES ASSUME NEW u \in Threads, Waits(th'[u])
                  PROVE  <<th'[u].req.name, th'[u].req.type>> \in DOMAIN inflight'
      BY DEF WaitersOK
    <3>1. u # t
      BY <2>3, <2>4 DEF Waits
    <3>. QED
      BY <2>4, <2>5, <3>1 DEF ControlOK, WaitersOK
  <2>. QED
    BY <2>6, <2>7, <2>8, <2>9 DEF ControlOK
<1>. QED
  BY <1>1, <1>5, <1>6, <1>7

LEMMA WaitStep ==
    ASSUME ControlOK, NEW t \in Threads, Wait(t)
    PROVE  ControlOK'
<1>1. /\ th[t].pc = "wait" /\ th' = [th EXCEPT ![t] = Idle]
      /\ inflight' = inflight /\ claims' = claims
  BY DEF Wait, shared
<1>2. th[t].stack = <<>>
  BY <1>1, ThreadHas DEF ControlOK, ThreadsOK
<1>. QED
  BY <1>1, <1>2, IdleFacts, AwayStep DEF Waits

LEMMA EndParentStep ==
    ASSUME ControlOK, NEW t \in Threads, NEW lost, EndParent(t, lost)
    PROVE  ControlOK'
<1>1. /\ th[t].pc = "parent" /\ th' = [th EXCEPT ![t] = Idle]
      /\ inflight' = inflight /\ claims' = claims
  BY DEF EndParent, shared
<1>2. th[t].req.op = "parent"
  BY <1>1, ThreadHas DEF ControlOK, ThreadsOK
<1>. QED
  BY <1>1, <1>2, IdleFacts, AwayStep DEF Waits

LEMMA BeginParentStep ==
    ASSUME ControlOK, NEW t \in Threads, BeginParent(t)
    PROVE  ControlOK'
<1>. DEFINE req == Head(plan[t])
            w == Walk(req.name, "SOA", 1, From(0, 0, TRUE, TRUE))
            f == AtRoot(w)
            rec == Push(Fresh(req), f, "walk")
            r == Entered(rec)
<1>1. /\ th[t].pc = "idle" /\ th' = [th EXCEPT ![t] = r]
      /\ inflight' = inflight /\ claims' = claims
  BY DEF BeginParent, Fresh, shared
<1>2. th[t].stack = <<>>
  BY <1>1, ThreadHas DEF ControlOK, ThreadsOK
<1>3. /\ w.map = 1 /\ w.type = "SOA" /\ w.from.count = 0 /\ w.from.hops = 0
  BY DEF Walk, From
<1>. HIDE DEF w, req
<1>4. /\ DOMAIN f = WalkFields /\ f.call = "walk" /\ f.type = "SOA" /\ f.map = 1
      /\ f.from.count = 0 /\ f.from.hops = 0 /\ f.count = 0
  BY <1>3, AtRootFacts
<1>5. FrameOK(f, 1)
  <2>1. LoopLimit \in Nat /\ CNAMEMaxChainLength \in Nat
    BY RecursorAssumption
  <2>2. "SOA" \in TypesAsked
    BY DEF TypesAsked
  <2>. HIDE DEF f
  <2>. QED
    BY <1>4, <2>1, <2>2 DEF FrameOK
<1>. HIDE DEF f
<1>6. /\ Shape(rec) /\ rec.ret = NoReply /\ Len(rec.stack) = 1 /\ rec.stack[1] = f
      /\ rec.stack # <<>> /\ Top(rec) = f /\ Len(rec.maps) = 1
  <2>. DEFINE v == Fresh(req)
  <2>1. Shape(v) /\ v.stack = <<>> /\ Len(v.maps) = 1 /\ v.ret = NoReply
    BY FreshFacts
  <2>2. Len(v.stack) = 0
    BY <2>1, SeqFacts DEF Shape
  <2>. HIDE DEF v
  <2>3. /\ Shape(Push(v, f, "walk"))
        /\ Push(v, f, "walk").maps = v.maps /\ Push(v, f, "walk").ret = v.ret
        /\ Len(Push(v, f, "walk").stack) = Len(v.stack) + 1 /\ Push(v, f, "walk").stack # <<>>
        /\ Push(v, f, "walk").stack[Len(v.stack) + 1] = f /\ Top(Push(v, f, "walk")) = f
    <3>1. Shape(v)
      BY <2>1
    <3>. QED
      BY <3>1, PushFacts
  <2>. QED
    BY <2>1, <2>2, <2>3 DEF v
<1>. HIDE DEF rec
<1>7. /\ Shape(r) /\ r.stack = rec.stack /\ Len(r.maps) = 1
      /\ r.pc \in {"walk", "return"} /\ r.ret.kind \in Results
  BY <1>4, <1>6, EnteredFacts, NoReplyFacts
<1>. HIDE DEF r
<1>8. PlaceOK(r)
  BY <1>6, <1>7 DEF PlaceOK, Places
<1>9. ThreadOK(r)
  BY <1>4, <1>5, <1>6, <1>7, <1>8, Started
<1>. QED
  BY <1>1, <1>2, <1>7, <1>9, AwayStep DEF Waits

\* A lookup that others may have joined ends: they get a result.
LEMMA HandStep ==
    ASSUME ControlOK, NEW t \in Threads, NEW result,
           th' = [Handed(t, result) EXCEPT ![t] = Idle], inflight' = Without(inflight, Key(t)),
           DOMAIN claims' \subseteq DOMAIN claims,
           \A d \in DOMAIN claims' : claims'[d] = claims[d],
           \A d \in DOMAIN claims' : \A n : claims[d] # <<t, n>>
    PROVE  ControlOK'
<1>. DEFINE K(u) == <<th[u].req.name, th[u].req.type>>
            joined(u) == th[u].pc = "wait" /\ th[u].got = <<>> /\ K(u) = K(t)
            given(u) == [th[u] EXCEPT !.got = <<result>>]
<1>1. /\ DOMAIN th' = Threads /\ th'[t] = Idle
      /\ \A u \in Threads : u # t => th'[u] = IF joined(u) THEN given(u) ELSE th[u]
  BY DEF Handed, Key
<1>2. /\ DOMAIN inflight' = DOMAIN inflight \ {K(t)}
      /\ \A k \in DOMAIN inflight \ {K(t)} : inflight'[k] = inflight[k]
  BY DEF Without, Key
<1>3. ASSUME NEW u \in Threads, joined(u)
      PROVE  /\ ThreadOK(given(u)) /\ given(u).got # <<>>
             /\ th[u].stack = <<>>
  <2>1. ThreadOK(th[u])
    BY DEF ControlOK, ThreadsOK
  <2>2. /\ Shape(th[u]) /\ th[u].stack = <<>> /\ th[u].ret.kind \in Results
    BY <1>3, <2>1, ThreadHas
  <2>3. /\ DOMAIN given(u) = DOMAIN th[u] /\ given(u).pc = "wait" /\ given(u).stack = th[u].stack
        /\ given(u).maps = th[u].maps /\ given(u).ret = th[u].ret /\ given(u).got = <<result>>
    BY <1>3, <2>2 DEF Shape
  <2>4. <<result>> # <<>>
    OBVIOUS
  <2>. HIDE DEF given
  <2>5. ThreadOK(given(u))
    BY <2>2, <2>3 DEF ThreadOK, PlaceOK, Places, Shape
  <2>. QED
    BY <2>2, <2>3, <2>4, <2>5
<1>. HIDE DEF joined, given
<1>4. ThreadsOK'
  <2>. SUFFICES ASSUME NEW u \in Threads PROVE ThreadOK(th'[u])
    BY <1>1 DEF ThreadsOK
  <2>1. ThreadOK(th[u])
    BY DEF ControlOK, ThreadsOK
  <2>. QED
    BY <1>1, <1>3, <2>1, IdleFacts
<1>5. ClaimsOK'
  <2>1. ASSUME NEW u \in Threads, NEW d \in DOMAIN claims', NEW n,
               claims[d] = <<u, n>>, Asks(th[u], d, n)
        PROVE  Asks(th'[u], d, n)
    <3>1. u # t
      BY <2>1
    <3>2. ~joined(u)
      BY <1>3, <2>1 DEF Asks
    <3>. QED
      BY <1>1, <2>1, <3>1, <3>2
  <2>. QED
    BY <2>1, ClaimsKept DEF ControlOK
<1>6. LeadersOK'
  <2>. SUFFICES ASSUME NEW k \in DOMAIN inflight'
                PROVE  inflight'[k] \in Threads /\ Leads(th'[inflight'[k]], k)
    BY DEF LeadersOK
  <2>1. k \in DOMAIN inflight /\ k # K(t) /\ inflight'[k] = inflight[k]
    BY <1>2
  <2>2. inflight[k] \in Threads /\ Leads(th[inflight[k]], k)
    BY <2>1 DEF ControlOK, LeadersOK
  <2>3. inflight[k] # t
    BY <2>1, <2>2 DEF Leads
  <2>4. ~joined(inflight[k])
    BY <1>3, <2>2 DEF Leads
  <2>. QED
    BY <1>1, <2>1, <2>2, <2>3, <2>4
<1>7. WaitersOK'
  <2>. SUFFICES ASSUME NEW u \in Threads, Waits(th'[u])
                PROVE  <<th'[u].req.name, th'[u].req.type>> \in DOMAIN inflight'
    BY DEF WaitersOK
  <2>1. u # t
    BY <1>1, IdleFacts DEF Waits
  <2>2. ~joined(u)
    BY <1>1, <1>3, <2>1 DEF Waits
  <2>3. th'[u] = th[u]
    BY <1>1, <2>1, <2>2
  <2>4. K(u) \in DOMAIN inflight
    BY <2>3 DEF ControlOK, WaitersOK
  <2>5. K(u) # K(t)
    BY <2>2, <2>3 DEF joined, Waits
  <2>. QED
    BY <1>2, <2>3, <2>4, <2>5
<1>. QED
  BY <1>4, <1>5, <1>6, <1>7 DEF ControlOK

LEMMA FinishStep ==
    ASSUME ControlOK, NEW t \in Threads, Finish(t)
    PROVE  ControlOK'
<1>1. /\ th[t].pc = "finish" /\ th' = [Handed(t, th[t].ret) EXCEPT ![t] = Idle]
      /\ inflight' = Without(inflight, Key(t)) /\ claims' = claims
  BY DEF Finish
<1>2. ASSUME NEW d \in DOMAIN claims, NEW n, claims[d] = <<t, n>> PROVE FALSE
  <2>1. PICK u \in Threads : \E m \in Nat : claims[d] = <<u, m>> /\ Asks(th[u], d, m)
    BY DEF ControlOK, ClaimsOK
  <2>2. PICK m \in Nat : claims[d] = <<u, m>> /\ Asks(th[u], d, m)
    BY <2>1
  <2>3. u = t
    BY <1>2, <2>2
  <2>. QED
    BY <1>1, <2>2, <2>3, NoClaim
<1>. QED
  BY <1>1, <1>2, HandStep

LEMMA PanicStep ==
    ASSUME ControlOK, NEW t \in Threads, Panic(t)
    PROVE  ControlOK'
<1>1. /\ DOMAIN claims' \subseteq DOMAIN claims
      /\ \A d \in DOMAIN claims' : claims'[d] = claims[d]
      /\ \A d \in DOMAIN claims' : \A n : claims[d] # <<t, n>>
  BY DEF Panic
<1>2. CASE th[t].req.op = "recurse"
  <2>1. inflight' = Without(inflight, Key(t)) /\ th' = [Handed(t, NoReply) EXCEPT ![t] = Idle]
    BY <1>2 DEF Panic
  <2>. QED
    BY <1>1, <2>1, HandStep
<1>3. CASE th[t].req.op # "recurse"
  <2>1. inflight' = inflight /\ th' = [th EXCEPT ![t] = Idle]
    BY <1>3 DEF Panic
  <2>2. /\ DOMAIN th' = Threads /\ th'[t] = Idle
        /\ \A u \in Threads : u # t => th'[u] = th[u]
    BY <2>1 DEF ControlOK, ThreadsOK
  <2>3. ThreadsOK'
    BY <2>2, IdleFacts DEF ControlOK, ThreadsOK
  <2>4. ClaimsOK'
    BY <1>1, <2>2, ClaimsKept DEF ControlOK
  <2>5. LeadersOK'
    <3>. SUFFICES ASSUME NEW k \in DOMAIN inflight
                  PROVE  inflight[k] \in Threads /\ Leads(th'[inflight[k]], k)
      BY <2>1 DEF LeadersOK
    <3>1. inflight[k] \in Threads /\ Leads(th[inflight[k]], k)
      BY DEF ControlOK, LeadersOK
    <3>2. inflight[k] # t
      BY <1>3, <3>1 DEF Leads
    <3>. QED
      BY <2>2, <3>1, <3>2
  <2>6. WaitersOK'
    <3>. SUFFICES ASSUME NEW u \in Threads, Waits(th'[u])
                  PROVE  <<th'[u].req.name, th'[u].req.type>> \in DOMAIN inflight
      BY <2>1 DEF WaitersOK
    <3>1. u # t
      BY <2>2, IdleFacts DEF Waits
    <3>. QED
      BY <2>2, <3>1 DEF ControlOK, WaitersOK
  <2>. QED
    BY <2>3, <2>4, <2>5, <2>6 DEF ControlOK
<1>. QED
  BY <1>2, <1>3

-----------------------------------------------------------------------------
(* The caches, the requests to come, and the world.                        *)

LEMMA StoreKeepsResults ==
    ASSUME DataOK, ControlOK, NEW t \in Threads, Store(t)
    PROVE  \A k \in DOMAIN cache' : cache'[k].kind \in Results
<1>. DEFINE old == IF Cardinality(DOMAIN cache \cup {Key(t)}) > recurseCacheMaxEntries
                   THEN <<>> ELSE cache
<1>1. th[t].ret.kind \in Results
  BY ThreadHas DEF ControlOK, ThreadsOK
<1>2. cache' = cache \/ cache' = With(old, Key(t), th[t].ret)
  BY DEF Store, Kept
<1>3. \A k \in DOMAIN old : old[k].kind \in Results
  BY DEF DataOK
<1>. HIDE DEF old
<1>4. ASSUME cache' = With(old, Key(t), th[t].ret)
      PROVE  /\ DOMAIN cache' = DOMAIN old \cup {Key(t)}
             /\ \A k \in DOMAIN cache' : cache'[k] = IF k = Key(t) THEN th[t].ret ELSE old[k]
  BY <1>4 DEF With
<1>. QED
  BY <1>1, <1>2, <1>3, <1>4 DEF DataOK

LEMMA WithoutCuts ==
    ASSUME NEW c, Cuts(referrals)
    PROVE  Cuts(Without(referrals, c))
BY DEF Without, Cuts

\* A request is taken off the plan.
LEMMA PlanStep ==
    ASSUME DataOK, NEW t \in Threads, plan[t] # <<>>, plan' = [plan EXCEPT ![t] = Tail(@)]
    PROVE  plan' \in [Threads -> Seq(Requests)]
<1>1. plan \in [Threads -> Seq(Requests)]
  BY DEF DataOK
<1>2. Tail(plan[t]) \in Seq(Requests)
  BY <1>1, HeadTailProperties
<1>. QED
  BY <1>1, <1>2

LEMMA DataStep ==
    ASSUME RecursorInv, Next
    PROVE  DataOK'
<1>. USE DEF RecursorInv
<1>1. CASE UNCHANGED <<world, cache, referrals, plan>> /\ canceled' \in BOOLEAN
  BY <1>1 DEF DataOK, Cuts
<1>2. ASSUME NEW t \in Threads, Lookup(t) \/ BeginParent(t) PROVE DataOK'
  <2>1. /\ UNCHANGED <<world, cache, referrals, canceled>>
        /\ plan[t] # <<>> /\ plan' = [plan EXCEPT ![t] = Tail(@)]
    BY <1>2 DEF Lookup, BeginParent, shared
  <2>2. plan' \in [Threads -> Seq(Requests)]
    BY <2>1, PlanStep
  <2>. QED
    BY <2>1, <2>2 DEF DataOK, Cuts
<1>3. ASSUME NEW t \in Threads, Store(t) PROVE DataOK'
  <2>1. UNCHANGED <<world, referrals, plan, canceled>>
    BY <1>3 DEF Store
  <2>2. \A k \in DOMAIN cache' : cache'[k].kind \in Results
    BY <1>3, StoreKeepsResults
  <2>. QED
    BY <2>1, <2>2 DEF DataOK, Cuts
<1>4. ASSUME NEW t \in Threads, NEW lost \in BOOLEAN, Ask(t, lost) \/ AskLazy(t, lost)
      PROVE  DataOK'
  <2>1. UNCHANGED <<world, cache, plan, canceled>>
    BY <1>4 DEF Ask, AskLazy
  <2>2. Cuts(referrals)
    BY DEF DataOK
  <2>3. Cuts(referrals')
    <3>1. referrals' = referrals \/ \E rec, resp, source : Process(t, rec, resp, source)
      BY <1>4 DEF Ask, AskLazy
    <3>. QED
      BY <2>2, <3>1, ProcessCuts
  <2>. QED
    BY <2>1, <2>3 DEF DataOK, Cuts
<1>5. ASSUME NEW t \in Threads, Retry(t) PROVE DataOK'
  <2>1. UNCHANGED <<world, cache, plan, canceled>>
    BY <1>5 DEF Retry
  <2>2. referrals' = Without(referrals, Top(th[t]).seed)
    BY <1>5 DEF Retry
  <2>3. Cuts(referrals')
    BY <2>2, WithoutCuts DEF DataOK
  <2>. QED
    BY <2>1, <2>3 DEF DataOK, Cuts
<1>6. ASSUME NEW t \in Threads,
             \/ Wait(t) \/ Finish(t) \/ Await(t) \/ ClaimWait(t) \/ EndWalk(t) \/ ReturnToRequest(t)
             \/ ReturnToWalk(t) \/ ReturnToLazy(t) \/ LookupAddresses(t) \/ Panic(t)
             \/ \E lost \in BOOLEAN : EndParent(t, lost)
      PROVE  DataOK'
  <2>1. UNCHANGED <<world, cache, referrals, plan>> /\ (canceled' = canceled \/ canceled' = TRUE)
    BY <1>6 DEF Wait, Finish, Await, ClaimWait, EndWalk, ReturnToRequest, ReturnToWalk,
                ReturnToLazy, LookupAddresses, Panic, EndParent, shared
  <2>. QED
    BY <1>1, <2>1 DEF DataOK
<1>7. CASE Cancel
  BY <1>1, <1>7 DEF Cancel, shared
<1>8. CASE Move
  <2>1. UNCHANGED <<cache, referrals, plan, canceled>> /\ world' \in Moves[world]
    BY <1>8 DEF Move, shared
  <2>2. world' \in Worlds
    BY <2>1, RecursorAssumption DEF DataOK
  <2>. QED
    BY <2>1, <2>2 DEF DataOK, Cuts
<1>9. CASE Expire
  <2>1. UNCHANGED <<world, plan, canceled>>
    BY <1>9 DEF Expire
  <2>2. Cuts(referrals')
    <3>1. referrals' = referrals \/ \E c \in DOMAIN referrals : referrals' = Without(referrals, c)
      BY <1>9 DEF Expire
    <3>. QED
      BY <3>1, WithoutCuts DEF DataOK
  <2>3. \A k \in DOMAIN cache' : cache'[k].kind \in Results
    BY <1>9 DEF Expire, DataOK, Without
  <2>. QED
    BY <2>1, <2>2, <2>3 DEF DataOK, Cuts
<1>. QED
  BY <1>2, <1>3, <1>4, <1>5, <1>6, <1>7, <1>8, <1>9 DEF Next, Step

-----------------------------------------------------------------------------
(* The theorems.                                                           *)

LEMMA RecursorInit ==
    ASSUME Init
    PROVE  RecursorInv
<1>1. DataOK
  <2>1. world \in Worlds /\ plan \in [Threads -> Seq(Requests)]
    BY RecursorAssumption DEF Init
  <2>2. /\ cache = <<>> /\ referrals = <<>> /\ canceled = FALSE
    BY DEF Init
  <2>3. DOMAIN cache = {} /\ DOMAIN referrals = {}
    BY <2>2
  <2>. QED
    BY <2>1, <2>2, <2>3 DEF DataOK, Cuts
<1>2. ThreadsOK
  BY IdleFacts DEF Init, ThreadsOK
<1>3. ClaimsOK /\ LeadersOK
  BY DEF Init, ClaimsOK, LeadersOK
<1>4. WaitersOK
  BY IdleFacts DEF Init, WaitersOK, Waits
<1>. QED
  BY <1>1, <1>2, <1>3, <1>4 DEF RecursorInv, ControlOK

LEMMA RecursorStep ==
    ASSUME RecursorInv, [Next]_vars
    PROVE  RecursorInv'
<1>. USE DEF RecursorInv
<1>1. CASE UNCHANGED vars
  BY <1>1 DEF vars, shared, DataOK, Cuts, ControlOK, ThreadsOK, ClaimsOK, LeadersOK, WaitersOK
<1>2. CASE Next
  <2>1. DataOK'
    BY <1>2, DataStep
  <2>2. ASSUME NEW t \in Threads, Lookup(t) \/ BeginParent(t) \/ Panic(t) PROVE ControlOK'
    BY <2>2, LookupStep, BeginParentStep, PanicStep
  <2>3. ASSUME NEW t \in Threads, Step(t) PROVE ControlOK'
    <3>1. ASSUME NEW lost \in BOOLEAN, Ask(t, lost) \/ AskLazy(t, lost) \/ EndParent(t, lost)
          PROVE  ControlOK'
      BY <3>1, AskStep, AskLazyStep, EndParentStep
    <3>. QED
      BY <2>3, <3>1, WaitStep, StoreStep, FinishStep, AwaitStep, ClaimWaitStep, EndWalkStep,
         RetryStep, ReturnToRequestStep, ReturnToWalkStep, ReturnToLazyStep,
         LookupAddressesStep DEF Step
  <2>4. ASSUME Cancel \/ Move \/ Expire PROVE ControlOK'
    <3>1. UNCHANGED <<th, claims, inflight>>
      BY <2>4 DEF Cancel, Move, Expire, shared
    <3>. QED
      BY <3>1 DEF ControlOK, ThreadsOK, ClaimsOK, LeadersOK, WaitersOK
  <2>5. ControlOK'
    BY <1>2, <2>2, <2>3, <2>4 DEF Next
  <2>. QED
    BY <2>1, <2>5
<1>. QED
  BY <1>1, <1>2

LEMMA RecursorInvariant == Spec => []RecursorInv
BY RecursorInit, RecursorStep, PTL DEF Spec

\* Type correctness of the recursor: in any world, whatever servers answer, frames
\* are called as the code calls them and keep the maps they share, the limit on
\* CNAMEs holds in every walk, and that on referrals up to those a cached referral
\* adds (seedReferral).
THEOREM RecursorTypeCorrect == Spec => []RecursorTypeOK
<1>1. RecursorInv => RecursorTypeOK
  <2>. SUFFICES ASSUME RecursorInv PROVE RecursorTypeOK
    OBVIOUS
  <2>1. ASSUME NEW t \in Threads
        PROVE  /\ th[t].pc \in Places /\ th[t].ret.kind \in Results
               /\ th[t].stack = <<>> <=> th[t].pc \in {"idle", "wait"}
    BY ThreadHas DEF RecursorInv, ControlOK, ThreadsOK
  <2>2. ASSUME NEW t \in Threads, NEW i \in DOMAIN th[t].stack
        PROVE  LET f == th[t].stack[i] IN
               /\ f.call = "walk" => /\ f.type \in TypesAsked /\ f.count <= LoopLimit + i + 1
                                     /\ f.from.hops <= CNAMEMaxChainLength
               /\ f.call = "lazy" => i > 1 /\ th[t].stack[i - 1].call = "walk"
               /\ f.map \in DOMAIN th[t].maps
    <3>. DEFINE rec == th[t]
                s == rec.stack
                n == Len(s)
                f == s[i]
    <3>1. ThreadOK(rec) /\ Shape(rec)
      BY ThreadHas DEF RecursorInv, ControlOK, ThreadsOK
    <3>2. /\ n \in Nat /\ i \in 1 .. n /\ s # <<>>
          /\ Len(rec.maps) \in Nat /\ DOMAIN rec.maps = 1 .. Len(rec.maps)
      BY <3>1, SeqFacts DEF Shape
    <3>3. Below(s, n - 1) /\ TopOK(s, n, rec.pc, Len(rec.maps))
      BY <3>1, <3>2 DEF ThreadOK
    <3>4. s[n].map \in Nat \ {0} /\ s[n].map <= Len(rec.maps)
      BY <3>3, FrameMap DEF TopOK
    <3>. HIDE DEF rec, s, n
    <3>5. Limit(rec.pc, n) <= LoopLimit + n + 1 /\ Limit(rec.pc, n) \in Nat /\ LoopLimit \in Nat
      BY <3>2, LimitFacts
    <3>6. CASE i = n
      <4>1. /\ FrameOK(f, i) /\ (f.call = "walk" => f.count <= Limit(rec.pc, n))
            /\ f.call = "lazy" => i > 1 /\ s[i - 1].call = "walk"
        BY <3>3, <3>6 DEF TopOK
      <4>2. f.map \in 1 .. Len(rec.maps)
        BY <3>2, <3>4, <3>6
      <4>3. f.call = "walk" => f.count \in Nat /\ f.type \in TypesAsked
                               /\ f.from.hops <= CNAMEMaxChainLength
        BY <4>1 DEF FrameOK
      <4>. HIDE DEF f
      <4>4. f.call = "walk" => f.count <= LoopLimit + i + 1
        BY <3>2, <3>5, <3>6, <4>1, <4>3
      <4>. QED
        BY <3>2, <4>1, <4>2, <4>3, <4>4 DEF f, s, rec
    <3>7. CASE i # n
      <4>0. i \in 1 .. n - 1
        BY <3>2, <3>7
      <4>1. /\ FrameOK(f, i) /\ (f.call = "walk" => f.count <= LoopLimit + i)
            /\ f.call = "lazy" => i > 1 /\ s[i - 1].call = "walk"
        BY <3>3, <4>0 DEF Below
      <4>2. f.map \in Nat \ {0} /\ f.map <= s[n].map
        BY <3>2, <3>3, <4>1, FrameMap DEF TopOK
      <4>3. f.call = "walk" => f.count \in Nat /\ f.type \in TypesAsked
                               /\ f.from.hops <= CNAMEMaxChainLength
        BY <4>1 DEF FrameOK
      <4>. HIDE DEF f
      <4>4. f.call = "walk" => f.count <= LoopLimit + i + 1
        BY <3>2, <3>5, <4>1, <4>3
      <4>5. f.map \in 1 .. Len(rec.maps)
        BY <3>2, <3>4, <4>2
      <4>. QED
        BY <3>2, <4>1, <4>3, <4>4, <4>5 DEF f, s, rec
    <3>. QED
      BY <3>6, <3>7
  <2>. QED
    BY <2>1, <2>2 DEF RecursorTypeOK, RecursorInv, DataOK, Cuts, Places
<1>. QED
  BY <1>1, RecursorInvariant, PTL

\* Nobody waits for a walk that is gone: whatever servers answer and however lookups
\* are cancelled or panic, a claim on a top-level domain is held by a walk that asks
\* the root for it and is not waiting itself (awaitReferral, releaseClaim), and a
\* lookup that was joined has a leader under way (finishInflightLookup).
THEOREM NobodyWaitsForTheGone == Spec => []WaitsForTheLiving
<1>1. RecursorInv => WaitsForTheLiving
  <2>. SUFFICES ASSUME RecursorInv PROVE WaitsForTheLiving
    OBVIOUS
  <2>1. ASSUME NEW d \in DOMAIN claims
        PROVE  /\ Len(th[claims[d][1]].stack) = claims[d][2]
               /\ th[claims[d][1]].pc \in {"walk", "return"}
               /\ Top(th[claims[d][1]]).call = "walk"
               /\ Top(th[claims[d][1]]).atRoot
               /\ Tld(Top(th[claims[d][1]]).name) = d
    <3>1. PICK t \in Threads : \E n \in Nat : claims[d] = <<t, n>> /\ Asks(th[t], d, n)
      BY DEF RecursorInv, ControlOK, ClaimsOK
    <3>2. PICK n \in Nat : claims[d] = <<t, n>> /\ Asks(th[t], d, n)
      BY <3>1
    <3>3. claims[d][1] = t /\ claims[d][2] = n
      BY <3>2
    <3>. QED
      BY <3>2, <3>3 DEF Asks, HeldBy
  <2>2. \A k \in DOMAIN inflight : th[inflight[k]].stack # <<>> /\ Key(inflight[k]) = k
    BY DEF RecursorInv, ControlOK, LeadersOK, Leads, Key
  <2>3. \A t \in Threads : th[t].pc = "wait" /\ th[t].got = <<>> => Key(t) \in DOMAIN inflight
    BY DEF RecursorInv, ControlOK, WaitersOK, Waits, Key
  <2>. QED
    BY <2>1, <2>2, <2>3 DEF WaitsForTheLiving
<1>. QED
  BY <1>1, RecursorInvariant, PTL

=============================================================================
