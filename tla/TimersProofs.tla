---------------------------- MODULE TimersProofs ----------------------------
(***************************************************************************)
(* Proofs about Timers, for any handlers, owners and delays: the queue is  *)
(* sorted, nobody holds the address of a freed handler, and a walk calls   *)
(* what is due and what was not stopped.                                   *)
(*                                                                         *)
(* Queues come first: what enqueueTimerHandler and the others do to them   *)
(* is said by who is in a queue and who is before whom, and nothing below  *)
(* speaks of positions.                                                    *)
(***************************************************************************)
EXTENDS Timers, SequenceTheorems, WellFoundedInduction, TLAPS

-----------------------------------------------------------------------------
(* Queues. *)

\* g is somewhere before h in q.
Before(q, g, h) == \E i, j \in DOMAIN q : i < j /\ q[i] = g /\ q[j] = h

\* Whoever has the sooner time comes first, and no one twice.
Sorted(q, t) ==
    /\ \A g \in Range(q) : ~Before(q, g, g)
    /\ \A g, h \in Range(q) : Before(q, g, h) => t[g].when <= t[h].when

\* A set of numbers has a least one.
LEMMA LeastNumber ==
    ASSUME NEW S \in SUBSET Nat, S # {}
    PROVE  \E n \in S : \A m \in S : n <= m
<1>1. PICK n \in S : \A m \in S : <<m, n>> \notin OpToRel(<, Nat)
    BY NatLessThanWellFounded, WFMin, Zenon
<1>2. \A m \in S : m \in Nat /\ n \in Nat
    OBVIOUS
<1>3. \A m \in S : ~(m < n)
    BY <1>1, <1>2 DEF OpToRel
<1> QED BY <1>2, <1>3

\* SoonestFirst is sortedness.
LEMMA SortedIsSoonestFirst ==
    ASSUME queue \in Seq(Handlers), Sorted(queue, timers)
    PROVE  SoonestFirst
<1>1. DOMAIN queue = 1 .. Len(queue) /\ Len(queue) \in Nat
    OBVIOUS
<1>2. \A i \in DOMAIN queue : queue[i] \in Range(queue)
    BY DEF Range
<1>3. ASSUME NEW i \in DOMAIN queue, NEW j \in DOMAIN queue, i < j
      PROVE  queue[i] # queue[j] /\ timers[queue[i]].when <= timers[queue[j]].when
    BY <1>2, <1>3 DEF Sorted, Before
<1>4. IsInjective(queue)
    <2> SUFFICES ASSUME NEW i \in DOMAIN queue, NEW j \in DOMAIN queue, queue[i] = queue[j]
                 PROVE  i = j
        BY DEF IsInjective
    <2> QED BY <1>1, <1>3
<1> QED BY <1>3, <1>4 DEF SoonestFirst

\* Of two in a queue one comes first; the head comes before all others.
LEMMA QueueIsTotal ==
    ASSUME NEW q \in Seq(Handlers), \A g \in Range(q) : ~Before(q, g, g)
    PROVE  /\ \A g, h \in Range(q) : g # h => Before(q, g, h) \/ Before(q, h, g)
           /\ \A g, h : Before(q, g, h) => g \in Range(q) /\ h \in Range(q)
           /\ q # <<>> => /\ Head(q) \in Range(q)
                          /\ \A h \in Range(q) : h # Head(q) => Before(q, Head(q), h)
                          /\ \A h : ~Before(q, h, Head(q))
<1>1. DOMAIN q = 1 .. Len(q) /\ Len(q) \in Nat
    OBVIOUS
<1>2. ASSUME NEW g \in Range(q), NEW h \in Range(q), g # h
      PROVE  Before(q, g, h) \/ Before(q, h, g)
    <2>1. PICK i \in DOMAIN q, j \in DOMAIN q : q[i] = g /\ q[j] = h
        BY DEF Range
    <2>2. i < j \/ j < i
        BY <1>1, <1>2, <2>1
    <2> QED BY <2>1, <2>2 DEF Before
<1>3. \A g, h : Before(q, g, h) => g \in Range(q) /\ h \in Range(q)
    BY DEF Before, Range
<1>4. ASSUME q # <<>>
      PROVE  /\ Head(q) \in Range(q)
             /\ \A h \in Range(q) : h # Head(q) => Before(q, Head(q), h)
             /\ \A h : ~Before(q, h, Head(q))
    <2>1. 1 \in DOMAIN q /\ Head(q) = q[1]
        BY <1>4
    <2>2. ASSUME NEW h \in Range(q), h # Head(q) PROVE Before(q, Head(q), h)
        <3>1. PICK j \in DOMAIN q : q[j] = h
            BY DEF Range
        <3>2. 1 < j
            BY <1>1, <2>1, <2>2, <3>1
        <3> QED BY <2>1, <3>1, <3>2 DEF Before
    <2>3. ASSUME NEW h, Before(q, h, Head(q)) PROVE FALSE
        <3>1. PICK i \in DOMAIN q, j \in DOMAIN q : i < j /\ q[j] = Head(q)
            BY <2>3 DEF Before
        <3>2. 1 < j
            BY <1>1, <3>1
        <3>3. Before(q, Head(q), Head(q))
            BY <2>1, <3>1, <3>2 DEF Before
        <3> QED BY <1>3, <3>3
    <2> QED BY <2>1, <2>2, <2>3 DEF Range
<1> QED BY <1>2, <1>3, <1>4

\* The queue without its head.
LEMMA TailOfQueue ==
    ASSUME NEW q \in Seq(Handlers), q # <<>>, \A g \in Range(q) : ~Before(q, g, g)
    PROVE  /\ Tail(q) \in Seq(Handlers)
           /\ Range(Tail(q)) = Range(q) \ {Head(q)}
           /\ \A g, h : Before(Tail(q), g, h) => Before(q, g, h)
<1>1. /\ Tail(q) \in Seq(Handlers)
      /\ Len(Tail(q)) = Len(q) - 1
      /\ \A i \in 1 .. Len(Tail(q)) : Tail(q)[i] = q[i + 1]
    BY HeadTailProperties
<1>2. Len(q) \in Nat /\ 1 \in DOMAIN q /\ Head(q) = q[1] /\ DOMAIN q = 1 .. Len(q)
    OBVIOUS
<1> DEFINE t == Tail(q)
<1>3. t \in Seq(Handlers) /\ DOMAIN t = 1 .. Len(q) - 1 /\ \A i \in DOMAIN t : t[i] = q[i + 1]
    BY <1>1, <1>2
<1> HIDE DEF t
<1>4. ASSUME NEW g, NEW h, Before(t, g, h) PROVE Before(q, g, h)
    <2>1. PICK i \in DOMAIN t, j \in DOMAIN t : i < j /\ t[i] = g /\ t[j] = h
        BY <1>4 DEF Before
    <2>2. i + 1 \in DOMAIN q /\ j + 1 \in DOMAIN q /\ i + 1 < j + 1
        BY <1>2, <1>3, <2>1
    <2> QED BY <1>3, <2>1, <2>2 DEF Before
<1>5. Range(t) \subseteq Range(q) \ {Head(q)}
    <2> SUFFICES ASSUME NEW i \in DOMAIN t PROVE t[i] \in Range(q) \ {Head(q)}
        BY DEF Range
    <2>1. i + 1 \in DOMAIN q /\ 1 < i + 1 /\ t[i] = q[i + 1]
        BY <1>2, <1>3
    <2>2. Before(q, Head(q), t[i])
        BY <1>2, <2>1 DEF Before
    <2> QED BY <2>2, QueueIsTotal
<1>6. Range(q) \ {Head(q)} \subseteq Range(t)
    <2> SUFFICES ASSUME NEW j \in DOMAIN q, q[j] # Head(q) PROVE q[j] \in Range(t)
        BY DEF Range
    <2>1. j - 1 \in DOMAIN t /\ (j - 1) + 1 = j
        BY <1>2, <1>3
    <2> QED BY <1>3, <2>1 DEF Range
<1> QED BY <1>3, <1>4, <1>5, <1>6 DEF t

\* Putting something into a queue.
LEMMA InsertInQueue ==
    ASSUME NEW q \in Seq(Handlers), NEW h \in Handlers, NEW n \in 0 .. Len(q)
    PROVE  LET r == InsertAt(q, n + 1, h) IN
           /\ r \in Seq(Handlers)
           /\ Len(r) = Len(q) + 1
           /\ \A i \in 1 .. n : r[i] = q[i]
           /\ r[n + 1] = h
           /\ \A i \in n + 1 .. Len(q) : r[i + 1] = q[i]
<1> DEFINE a == SubSeq(q, 1, n)
           b == SubSeq(q, n + 1, Len(q))
<1>1. Len(q) \in Nat /\ n \in Nat /\ n <= Len(q) /\ (n + 1) - 1 = n
    OBVIOUS
<1>2. InsertAt(q, n + 1, h) = a \o <<h>> \o b
    BY <1>1 DEF InsertAt
<1>3. /\ a \in Seq(Handlers) /\ b \in Seq(Handlers)
      /\ Len(a) = n /\ Len(b) = Len(q) - n
      /\ \A i \in 1 .. n : a[i] = q[i]
      /\ \A i \in 1 .. Len(q) - n : b[i] = q[n + i]
    BY <1>1, SubSeqProperties
<1> HIDE DEF a, b
<1> DEFINE ah == a \o <<h>>
<1>4. /\ ah \in Seq(Handlers)
      /\ Len(ah) = n + 1
      /\ \A i \in 1 .. n : ah[i] = q[i]
      /\ ah[n + 1] = h
    BY <1>1, <1>3
<1> HIDE DEF ah
<1> DEFINE r == ah \o b
<1>5. /\ r \in Seq(Handlers)
      /\ Len(r) = Len(q) + 1
      /\ \A i \in 1 .. n + 1 : r[i] = ah[i]
      /\ \A i \in 1 .. Len(q) - n : r[n + 1 + i] = b[i]
    BY <1>1, <1>3, <1>4, ConcatProperties
<1> HIDE DEF r
<1>6. \A i \in n + 1 .. Len(q) : r[i + 1] = q[i]
    <2> SUFFICES ASSUME NEW i \in n + 1 .. Len(q) PROVE r[i + 1] = q[i]
        OBVIOUS
    <2>1. i - n \in 1 .. Len(q) - n /\ n + 1 + (i - n) = i + 1 /\ n + (i - n) = i
        BY <1>1
    <2>2. b[i - n] = q[n + (i - n)] /\ r[n + 1 + (i - n)] = b[i - n]
        BY <1>3, <1>5, <2>1
    <2> QED BY <2>1, <2>2
<1>7. (\A i \in 1 .. n : r[i] = q[i]) /\ r[n + 1] = h
    BY <1>1, <1>4, <1>5
<1>8. InsertAt(q, n + 1, h) = r
    BY <1>2 DEF r, ah
<1> QED BY <1>5, <1>6, <1>7, <1>8

\* enqueueTimerHandler keeps the queue sorted, and the others in their order.
LEMMA EnqueueInQueue ==
    ASSUME NEW q \in Seq(Handlers), NEW h \in Handlers, h \notin Range(q),
           NEW t, \A g \in Handlers : t[g].when \in Nat,
           Sorted(q, t)
    PROVE  LET r == Enqueue(q, t, h) IN
           /\ r \in Seq(Handlers)
           /\ Range(r) = Range(q) \cup {h}
           /\ Sorted(r, t)
           /\ \A f, g \in Range(q) : Before(r, f, g) => Before(q, f, g)
<1> DEFINE earlier == {i \in DOMAIN q : t[h].when > t[q[i]].when}
           n == CHOOSE k \in 0 .. Len(q) : 1 .. k \subseteq earlier /\ k + 1 \notin earlier
           r == InsertAt(q, n + 1, h)
<1>0. DOMAIN q = 1 .. Len(q) /\ Len(q) \in Nat /\ \A i \in DOMAIN q : q[i] \in Handlers /\ q[i] \in Range(q)
    BY DEF Range
<1>1. \E k \in 0 .. Len(q) : 1 .. k \subseteq earlier /\ k + 1 \notin earlier
    <2> DEFINE later == {i \in 1 .. Len(q) + 1 : i \notin earlier}
    <2>1. later \in SUBSET Nat /\ Len(q) + 1 \in later
        BY <1>0
    <2>2. PICK m \in later : \A i \in later : m <= i
        BY <2>1, LeastNumber
    <2>3. m \in 1 .. Len(q) + 1 /\ m \notin earlier
        OBVIOUS
    <2>4. ASSUME NEW i \in 1 .. m - 1 PROVE i \in earlier
        <3>1. i \in 1 .. Len(q) + 1 /\ ~(m <= i)
            BY <1>0, <2>3
        <3> QED BY <2>2, <3>1
    <2>5. m - 1 \in 0 .. Len(q) /\ (m - 1) + 1 = m
        BY <1>0, <2>3
    <2> QED BY <2>3, <2>4, <2>5
<1>2. n \in 0 .. Len(q) /\ 1 .. n \subseteq earlier /\ n + 1 \notin earlier
    BY <1>1
<1>3. Enqueue(q, t, h) = r
    BY DEF Enqueue
<1>4. \A i \in DOMAIN q : i \in earlier <=> t[h].when > t[q[i]].when
    OBVIOUS
<1> HIDE DEF n, earlier
<1>5. /\ r \in Seq(Handlers)
      /\ Len(r) = Len(q) + 1
      /\ \A i \in 1 .. n : r[i] = q[i]
      /\ r[n + 1] = h
      /\ \A i \in n + 1 .. Len(q) : r[i + 1] = q[i]
    BY <1>2, InsertInQueue
<1> HIDE DEF r
<1>6. n \in Nat /\ n <= Len(q) /\ DOMAIN r = 1 .. Len(q) + 1
    BY <1>0, <1>2, <1>5
<1> DEFINE old(i) == IF i <= n THEN i ELSE i - 1
<1>7. ASSUME NEW i \in DOMAIN r, i # n + 1
      PROVE  old(i) \in DOMAIN q /\ r[i] = q[old(i)] /\ r[i] \in Range(q)
    <2>1. CASE i <= n
        BY <1>0, <1>5, <1>6, <1>7, <2>1
    <2>2. CASE i > n + 1
        <3>1. i - 1 \in n + 1 .. Len(q) /\ (i - 1) + 1 = i
            BY <1>0, <1>6, <1>7, <2>2
        <3> QED BY <1>0, <1>5, <1>6, <3>1, <2>2
    <2> QED BY <1>6, <1>7, <2>1, <2>2
<1>8. Range(r) = Range(q) \cup {h}
    <2>1. Range(r) \subseteq Range(q) \cup {h}
        BY <1>5, <1>7 DEF Range
    <2>2. h \in Range(r)
        BY <1>5, <1>6 DEF Range
    <2>3. ASSUME NEW i \in DOMAIN q PROVE q[i] \in Range(r)
        <3>1. CASE i <= n
            BY <1>0, <1>5, <1>6, <3>1 DEF Range
        <3>2. CASE i > n
            <4>1. i + 1 \in DOMAIN r /\ r[i + 1] = q[i]
                BY <1>0, <1>5, <1>6, <3>2
            <4> QED BY <4>1 DEF Range
        <3> QED BY <1>0, <1>6, <3>1, <3>2
    <2> QED BY <2>1, <2>2, <2>3 DEF Range
<1>9. ASSUME NEW i \in DOMAIN r, NEW j \in DOMAIN r, i < j, i # n + 1, j # n + 1
      PROVE  old(i) < old(j)
    BY <1>6, <1>9
<1>10. ASSUME NEW f \in Range(q), NEW g \in Range(q), Before(r, f, g)
       PROVE  Before(q, f, g)
    <2>1. PICK i \in DOMAIN r, j \in DOMAIN r : i < j /\ r[i] = f /\ r[j] = g
        BY <1>10 DEF Before
    <2>2. i # n + 1 /\ j # n + 1
        BY <1>5, <1>10, <2>1
    <2> QED BY <1>7, <1>9, <2>1, <2>2 DEF Before
<1>11. \A f \in Range(q) : f \in Handlers /\ t[f].when \in Nat /\ t[h].when \in Nat
    BY RangeOfSeq
<1>12. ASSUME NEW f, Before(r, f, h)
       PROVE  f \in Range(q) /\ t[f].when <= t[h].when
    <2>1. PICK i \in DOMAIN r, j \in DOMAIN r : i < j /\ r[i] = f /\ r[j] = h
        BY <1>12 DEF Before
    <2>2. j = n + 1
        BY <1>7, <2>1
    <2>3. i \in 1 .. n /\ i \in DOMAIN q /\ r[i] = q[i]
        BY <1>0, <1>5, <1>6, <2>1, <2>2
    <2>4. t[h].when > t[q[i]].when
        BY <1>2, <1>4, <2>3
    <2> QED BY <1>0, <1>11, <2>1, <2>3, <2>4
<1>13. ASSUME NEW g, Before(r, h, g)
       PROVE  g \in Range(q) /\ t[h].when <= t[g].when
    <2>1. PICK i \in DOMAIN r, j \in DOMAIN r : i < j /\ r[i] = h /\ r[j] = g
        BY <1>13 DEF Before
    <2>2. i = n + 1
        BY <1>7, <2>1
    <2>3. j - 1 \in DOMAIN q /\ r[j] = q[j - 1] /\ n + 1 <= j - 1 /\ n + 1 \in DOMAIN q
        BY <1>0, <1>6, <1>7, <2>1, <2>2
    <2>4. t[h].when <= t[q[n + 1]].when
        <3>1. ~(t[h].when > t[q[n + 1]].when)
            BY <1>2, <1>4, <2>3
        <3>2. q[n + 1] \in Range(q)
            BY <1>0, <2>3
        <3> QED BY <1>11, <3>1, <3>2
    <2>5. t[q[n + 1]].when <= t[q[j - 1]].when
        <3>0. q[n + 1] \in Range(q) /\ q[j - 1] \in Range(q)
            BY <1>0, <2>3
        <3>1. CASE n + 1 = j - 1
            BY <3>1, <3>0, <1>11
        <3>2. CASE n + 1 < j - 1
            <4>1. Before(q, q[n + 1], q[j - 1])
                BY <2>3, <3>2 DEF Before
            <4> QED BY <4>1, <3>0 DEF Sorted
        <3> QED BY <1>0, <2>3, <3>1, <3>2
    <2>6. q[n + 1] \in Range(q) /\ q[j - 1] \in Range(q)
        BY <1>0, <2>3
    <2>7. t[h].when <= t[q[j - 1]].when
        BY <2>4, <2>5, <2>6, <1>11
    <2> QED BY <2>1, <2>3, <2>6, <2>7
<1>14. Sorted(r, t)
    <2>1. ASSUME NEW g \in Range(r) PROVE ~Before(r, g, g)
        BY <1>8, <1>10, <1>12 DEF Sorted
    <2>2. ASSUME NEW f \in Range(r), NEW g \in Range(r), Before(r, f, g)
          PROVE  t[f].when <= t[g].when
        BY <1>8, <1>10, <1>12, <1>13, <2>1, <2>2 DEF Sorted
    <2> QED BY <2>1, <2>2 DEF Sorted
<1> QED BY <1>3, <1>5, <1>8, <1>10, <1>14

\* WMDeleteTimerHandler takes one handler out.
LEMMA RemoveFromQueue ==
    ASSUME NEW q \in Seq(Handlers), NEW h \in Range(q), \A g \in Range(q) : ~Before(q, g, g)
    PROVE  LET r == RemoveFirst(q, h) IN
           /\ r \in Seq(Handlers)
           /\ Range(r) = Range(q) \ {h}
           /\ \A f, g : Before(r, f, g) => Before(q, f, g)
<1>0. DOMAIN q = 1 .. Len(q) /\ Len(q) \in Nat
    OBVIOUS
<1>1. PICK k \in 1 .. Len(q) : q[k] = h
    BY <1>0 DEF Range
<1>2. \A i \in DOMAIN q : i # k => q[i] # h
    <2> SUFFICES ASSUME NEW i \in DOMAIN q, i # k, q[i] = h PROVE FALSE
        OBVIOUS
    <2>1. i < k \/ k < i
        BY <1>0
    <2>2. Before(q, h, h)
        BY <1>0, <1>1, <2>1 DEF Before
    <2> QED BY <2>2
<1> DEFINE I == {i \in 1 .. Len(q) : q[i] = h}
<1>3. I = {k}
    BY <1>0, <1>1, <1>2
<1>4. Min(I) = k
    BY <1>0, <1>3 DEF Min
<1> DEFINE a == SubSeq(q, 1, k - 1)
           b == SubSeq(q, k + 1, Len(q))
<1>5. RemoveFirst(q, h) = a \o b
    <2>1. \E i \in 1 .. Len(q) : q[i] = h
        BY <1>1
    <2>2. RemoveFirst(q, h) = RemoveAt(q, IF I # {} THEN Min(I) ELSE 0)
        BY <2>1, Zenon DEF RemoveFirst, SelectInSeq
    <2>3. RemoveFirst(q, h) = RemoveAt(q, k)
        BY <1>3, <1>4, <2>2
    <2> QED BY <2>3 DEF RemoveAt
<1>6. /\ a \in Seq(Handlers) /\ b \in Seq(Handlers)
      /\ Len(a) = k - 1 /\ Len(b) = Len(q) - k
      /\ \A i \in 1 .. k - 1 : a[i] = q[i]
      /\ \A i \in 1 .. Len(q) - k : b[i] = q[k + i]
    BY SubSeqProperties
<1> HIDE DEF a, b, I
<1>place. Len(q) \in Nat /\ k \in Nat /\ 1 <= k /\ k <= Len(q)
    BY <1>0
<1> DEFINE r == a \o b
<1>7. /\ r \in Seq(Handlers)
      /\ DOMAIN r = 1 .. Len(q) - 1
      /\ \A i \in 1 .. k - 1 : r[i] = a[i]
      /\ \A i \in 1 .. Len(q) - k : r[k - 1 + i] = b[i]
    <2>0. a \in Seq(Handlers) /\ b \in Seq(Handlers)
        BY <1>6
    <2>1. a \o b \in Seq(Handlers) /\ Len(a \o b) = Len(a) + Len(b)
        BY ONLY <2>0, ConcatProperties
    <2>4. Len(a) + Len(b) = Len(q) - 1 /\ Len(q) - 1 \in Nat
        BY <1>6, <1>place
    <2>5. DOMAIN (a \o b) = 1 .. Len(q) - 1
        BY <2>1, <2>4
    <2>2. /\ \A i \in 1 .. Len(a) : (a \o b)[i] = a[i]
          /\ \A i \in Len(a) + 1 .. Len(a) + Len(b) : (a \o b)[i] = b[i - Len(a)]
        BY <1>6, <1>place
    <2>3. ASSUME NEW i \in 1 .. Len(q) - k PROVE (a \o b)[k - 1 + i] = b[i]
        <3>1. k - 1 + i \in Len(a) + 1 .. Len(a) + Len(b) /\ k - 1 + i - Len(a) = i
            BY <1>6, <1>place
        <3>2. (a \o b)[k - 1 + i] = b[k - 1 + i - Len(a)]
            BY ONLY <2>2, <3>1
        <3> QED BY ONLY <3>1, <3>2
    <2> QED BY <1>6, <2>1, <2>2, <2>3, <2>5
<1> HIDE DEF r
<1> DEFINE old(i) == IF i < k THEN i ELSE i + 1
<1>8. ASSUME NEW i \in DOMAIN r
      PROVE  old(i) \in DOMAIN q /\ r[i] = q[old(i)] /\ old(i) # k
    <2>1. CASE i < k
        BY <1>0, <1>6, <1>7, <1>8, <2>1
    <2>2. CASE i >= k
        <3>1. i - (k - 1) \in 1 .. Len(q) - k /\ k - 1 + (i - (k - 1)) = i /\ k + (i - (k - 1)) = i + 1
            <4>1. i \in Int /\ i >= k /\ i <= Len(q) - 1
                BY <1>place, <1>7, <2>2
            <4> QED BY <4>1, <1>place
        <3>2. r[k - 1 + (i - (k - 1))] = b[i - (k - 1)] /\ b[i - (k - 1)] = q[k + (i - (k - 1))]
            BY <1>6, <1>7, <3>1
        <3>3. r[i] = q[i + 1] /\ i + 1 \in DOMAIN q /\ old(i) = i + 1
            BY <1>0, <1>7, <2>2, <3>1, <3>2
        <3> QED BY <1>0, <1>7, <2>2, <3>3
    <2> QED BY <1>0, <1>7, <2>1, <2>2
<1>9. \A i, j \in DOMAIN r : i < j => old(i) < old(j)
    BY <1>0, <1>7
<1> HIDE DEF old
<1>10. ASSUME NEW f, NEW g, Before(r, f, g) PROVE Before(q, f, g)
    <2>1. PICK i \in DOMAIN r, j \in DOMAIN r : i < j /\ r[i] = f /\ r[j] = g
        BY <1>10 DEF Before
    <2> QED BY <1>8, <1>9, <2>1 DEF Before
<1>11. Range(r) \subseteq Range(q) \ {h}
    BY <1>2, <1>8 DEF Range
<1>12. ASSUME NEW j \in DOMAIN q, q[j] # h PROVE q[j] \in Range(r)
    <2>1. CASE j < k
        <3>1. j \in DOMAIN r /\ r[j] = q[j]
            BY <1>0, <1>place, <1>6, <1>7, <2>1
        <3> QED BY <3>1 DEF Range
    <2>2. CASE j > k
        <3>1. j - k \in 1 .. Len(q) - k /\ k - 1 + (j - k) = j - 1 /\ k + (j - k) = j
            BY <1>0, <2>2
        <3>2. r[k - 1 + (j - k)] = b[j - k] /\ b[j - k] = q[k + (j - k)]
            BY <1>6, <1>7, <3>1
        <3>3. j - 1 \in DOMAIN r /\ r[j - 1] = q[j]
            BY <1>0, <1>7, <2>2, <3>1, <3>2
        <3> QED BY <3>3 DEF Range
    <2> QED BY <1>0, <1>1, <1>12, <2>1, <2>2
<1>13. Range(q) \ {h} \subseteq Range(r)
    BY <1>12 DEF Range
<1> QED BY <1>5, <1>7, <1>10, <1>11, <1>13 DEF r

\* The next one is right behind; after the last one there is none.
LEMMA NextInQueue ==
    ASSUME NEW q \in Seq(Handlers), NEW h \in Range(q), \A g \in Range(q) : ~Before(q, g, g)
    PROVE  LET n == NextOf(q, h) IN
           \/ n = NoHandler /\ \A g : ~Before(q, h, g)
           \/ /\ n \in Range(q)
              /\ n \in Handlers
              /\ Before(q, h, n)
              /\ \A g : Before(q, g, n) => g = h \/ Before(q, g, h)
<1>0. DOMAIN q = 1 .. Len(q) /\ Len(q) \in Nat /\ \A i \in DOMAIN q : q[i] \in Range(q) /\ q[i] \in Handlers
    BY DEF Range
<1> DEFINE later == {i \in 2 .. Len(q) : q[i - 1] = h}
<1>1. \A i, j \in DOMAIN q : q[i] = q[j] => i = j
    <2> SUFFICES ASSUME NEW i \in DOMAIN q, NEW j \in DOMAIN q, q[i] = q[j], i # j PROVE FALSE
        OBVIOUS
    <2>1. i < j \/ j < i
        BY <1>0
    <2>2. Before(q, q[i], q[i])
        BY <2>1 DEF Before
    <2> QED BY <1>0, <2>2
<1>2. CASE later = {}
    <2>1. NextOf(q, h) = NoHandler
        BY <1>2 DEF NextOf
    <2>2. ASSUME NEW g, Before(q, h, g) PROVE FALSE
        <3>1. PICK i \in DOMAIN q, j \in DOMAIN q : i < j /\ q[i] = h
            BY <2>2 DEF Before
        <3>2. i + 1 \in 2 .. Len(q) /\ (i + 1) - 1 = i
            BY <1>0, <3>1
        <3>3. i + 1 \in later
            BY <3>1, <3>2
        <3> QED BY <1>2, <3>3
    <2> QED BY <2>1, <2>2
<1>3. CASE later # {}
    <2>1. PICK n \in later : NextOf(q, h) = q[n]
        BY <1>3 DEF NextOf
    <2>2. n \in DOMAIN q /\ n - 1 \in DOMAIN q /\ n - 1 < n /\ q[n - 1] = h
        BY <1>0
    <2>3. Before(q, h, q[n])
        BY <2>2 DEF Before
    <2>4. ASSUME NEW g, Before(q, g, q[n]) PROVE g = h \/ Before(q, g, h)
        <3>1. PICK i \in DOMAIN q, j \in DOMAIN q : i < j /\ q[i] = g /\ q[j] = q[n]
            BY <2>4 DEF Before
        <3>2. j = n
            BY <1>1, <2>2, <3>1
        <3>3. i = n - 1 \/ i < n - 1
            BY <1>0, <2>2, <3>1, <3>2
        <3> QED BY <2>2, <3>1, <3>3 DEF Before
    <2> QED BY <1>0, <2>1, <2>2, <2>3, <2>4
<1> QED BY <1>2, <1>3

-----------------------------------------------------------------------------
(* The inductive invariant. *)

\* The owner of h can still stop it.
Owned(h) == timerID[timers[h].clientData] = h

\* Owners know live handlers of theirs.  A handler that its owner has forgotten
\* has fired for the last time; one that its owner has not, is still to fire.
Books ==
    /\ \A o \in Owners :
        timerID[o] # NoHandler => timerID[o] \in Live /\ timers[timerID[o]].clientData = o
    /\ \A h \in Live : ~Owned(h) => Fired(h) /\ timers[h].nextDelay = 0
    /\ \A h \in Live :
        IF timers[h].clientData \in Persistent THEN Owned(h) => timers[h].nextDelay > 0
        ELSE timers[h].nextDelay = 0 /\ (Owned(h) => ~Fired(h))

\* Who has fired: all before the one that the walk has come to, and in the
\* callback that one too; during the sweep, all that were due; else nobody.
Walk ==
    /\ At("walk") => IF loop.handler = NoHandler THEN \A g \in Live : Fired(g)
                     ELSE /\ loop.handler \in Live
                          /\ ~Fired(loop.handler)
                          /\ \A g \in Live : Before(queue, g, loop.handler) => Fired(g)
    /\ At("callback") => /\ loop.handler \in Live
                         /\ Fired(loop.handler)
                         /\ \A g \in Live : Before(queue, loop.handler, g) => ~Fired(g)
    /\ At("sweep") => \A g \in Live : Fired(g) \/ timers[g].when >= loop.now
    /\ At("event") \/ At("check") \/ At("top") \/ At("block") => \A g \in Live : ~Fired(g)

IInv == TypeOK /\ Sorted(queue, timers) /\ Books /\ Walk

\* What the types say of single values.
LEMMA Typed ==
    ASSUME TypeOK
    PROVE  /\ Live \subseteq Handlers
           /\ \A h \in Handlers : /\ timers[h].when \in Nat
                                  /\ timers[h].nextDelay \in Nat
                                  /\ timers[h].clientData \in Owners
                                  /\ h # NoHandler
           /\ \A o \in Owners : timerID[o] \in Handlers \cup {NoHandler}
           /\ clock \in Nat /\ clock >= 1 /\ clock \in Times
           /\ loop.now \in Nat
<1>1. Live \subseteq Handlers
    BY RangeOfSeq DEF TypeOK, Live
<1>2. \A h \in Handlers : timers[h] \in [when : Nat, nextDelay : Nat, clientData : Owners]
    BY DEF TypeOK
<1> QED BY <1>1, <1>2, TimersAssumption DEF TypeOK, Times

LEMMA InitIInv == Init => IInv
<1> SUFFICES ASSUME Init PROVE IInv
    OBVIOUS
<1>1. queue = <<>> /\ Live = {}
    BY DEF Init, Live, Range
<1>2. TypeOK
    <2>1. (CHOOSE o \in Owners : TRUE) \in Owners
        BY TimersAssumption
    <2>2. timers \in [Handlers -> [when : Nat, nextDelay : Nat, clientData : Owners]]
        BY <2>1 DEF Init
    <2>3. timerID \in [Owners -> Handlers \cup {NoHandler}] /\ pending \in BOOLEAN
        BY DEF Init
    <2>6. queue \in Seq(Handlers)
        BY <1>1
    <2>4. MaxTime \in Nat /\ MaxTime >= 1
        BY TimersAssumption
    <2>5. clock \in 1 .. MaxTime /\ 0 \in Times
        BY <2>4 DEF Init, Times
    <2> QED BY <2>2, <2>3, <2>5, <2>6 DEF Init, TypeOK
<1>3. Sorted(queue, timers)
    BY <1>1 DEF Sorted, Live
<1>4. Books
    BY <1>1 DEF Init, Books
<1>5. Walk
    BY <1>1 DEF Init, Walk, At
<1> QED BY <1>2, <1>3, <1>4, <1>5 DEF IInv

-----------------------------------------------------------------------------
(* The steps. *)

\* WMAddTimerHandler, WMAddPersistentTimerHandler.
LEMMA StartTimerStep ==
    ASSUME IInv, NEW o \in Owners, NEW delay \in Delays, NEW h \in Handlers,
           StartTimer(o, delay, h)
    PROVE  IInv'
<1> USE DEF IInv
<1>1. /\ timerID[o] = NoHandler /\ h \notin Live
      /\ timers' = [timers EXCEPT ![h] = [when |-> clock + delay,
                                          nextDelay |-> IF o \in Persistent THEN delay ELSE 0,
                                          clientData |-> o]]
      /\ queue' = Enqueue(queue, timers', h)
      /\ timerID' = [timerID EXCEPT ![o] = h]
      /\ loop' = loop /\ clock' = clock /\ pending' = pending
      /\ delay \in Nat /\ (o \in Persistent => delay > 0)
      /\ At("event") \/ At("callback")
    BY TimersAssumption DEF StartTimer, InClient
<1>2. /\ \A g \in Handlers : g # h => timers'[g] = timers[g]
      /\ timers'[h] = [when |-> clock + delay,
                       nextDelay |-> IF o \in Persistent THEN delay ELSE 0,
                       clientData |-> o]
      /\ timers' \in [Handlers -> [when : Nat, nextDelay : Nat, clientData : Owners]]
      /\ timers'[h].when > 0
    BY <1>1, Typed DEF TypeOK
<1>3. Live \subseteq Handlers /\ queue \in Seq(Handlers) /\ \A g \in Live : g # h /\ timers'[g] = timers[g]
    BY <1>1, <1>2, Typed DEF TypeOK
<1>4. Sorted(queue, timers')
    BY <1>3 DEF Sorted, Live
<1>5. \A g \in Handlers : timers'[g].when \in Nat
    BY <1>2
<1>6. /\ queue' \in Seq(Handlers)
      /\ Live' = Live \cup {h}
      /\ Sorted(queue', timers')
      /\ \A f, g \in Live : Before(queue', f, g) => Before(queue, f, g)
    <2> DEFINE t == timers'
    <2>1. queue' = Enqueue(queue, t, h) /\ Sorted(queue, t) /\ \A g \in Handlers : t[g].when \in Nat
        BY <1>1, <1>4, <1>5
    <2>3. queue \in Seq(Handlers) /\ h \notin Range(queue)
        BY <1>1, <1>3 DEF Live
    <2> HIDE DEF t
    <2>2. queue' \in Seq(Handlers) /\ Range(queue') = Range(queue) \cup {h} /\ Sorted(queue', t)
          /\ \A f, g \in Range(queue) : Before(queue', f, g) => Before(queue, f, g)
        BY ONLY <2>1, <2>3, h \in Handlers, EnqueueInQueue
    <2> QED BY <2>2 DEF t, Live
<1>7. TypeOK'
    BY <1>1, <1>2, <1>6 DEF TypeOK, Times
<1>8. timerID'[o] = h /\ \A p \in Owners : p # o => timerID'[p] = timerID[p]
    BY <1>1 DEF TypeOK
<1>9. \A g \in Live : Owned(g)' <=> Owned(g)
    BY <1>1, <1>3, <1>8, Typed DEF Owned
<1>10. Owned(h)'
    BY <1>2, <1>8 DEF Owned
<1>11. Books'
    <2>1. ASSUME NEW p \in Owners, timerID'[p] # NoHandler
          PROVE  timerID'[p] \in Live' /\ timers'[timerID'[p]].clientData = p
        <3>1. CASE p = o
            BY <1>2, <1>6, <1>8, <3>1
        <3>2. CASE p # o
            <4>1. timerID[p] \in Live /\ timers[timerID[p]].clientData = p /\ timerID'[p] = timerID[p]
                BY <1>8, <2>1, <3>2 DEF Books
            <4> QED BY <1>3, <1>6, <4>1
        <3> QED BY <3>1, <3>2
    <2>2. \A g \in Live' : ~Owned(g)' => Fired(g)' /\ timers'[g].nextDelay = 0
        BY <1>3, <1>6, <1>9, <1>10 DEF Books, Fired
    <2>3. \A g \in Live' :
            IF timers'[g].clientData \in Persistent THEN Owned(g)' => timers'[g].nextDelay > 0
            ELSE timers'[g].nextDelay = 0 /\ (Owned(g)' => ~Fired(g)')
        BY <1>1, <1>2, <1>3, <1>6, <1>9, <1>10 DEF Books, Fired
    <2> QED BY <2>1, <2>2, <2>3 DEF Books
<1>12. Walk'
    <2>1. \A g \in Live : Fired(g)' <=> Fired(g)
        BY <1>3 DEF Fired
    <2>2. ~Fired(h)'
        BY <1>2 DEF Fired
    <2>3. CASE At("event")
        BY <1>1, <1>6, <2>1, <2>2, <2>3 DEF Walk, At
    <2>4. CASE At("callback")
        BY <1>1, <1>6, <2>1, <2>2, <2>4 DEF Walk, At
    <2> QED BY <1>1, <2>3, <2>4
<1> QED BY <1>6, <1>7, <1>11, <1>12

\* WMDeleteTimerHandler.
LEMMA StopTimerStep ==
    ASSUME IInv, NEW o \in Owners, StopTimer(o)
    PROVE  IInv'
<1> USE DEF IInv
<1>0. PICK h : h = timerID[o]
    OBVIOUS
<1>1. /\ h # NoHandler
      /\ queue' = IF Fired(h) THEN queue ELSE RemoveFirst(queue, h)
      /\ timers' = [timers EXCEPT ![h].nextDelay = 0]
      /\ timerID' = [timerID EXCEPT ![o] = NoHandler]
      /\ loop' = loop /\ clock' = clock /\ pending' = pending
      /\ At("event") \/ At("callback")
    BY <1>0 DEF StopTimer, InClient
<1>2. h \in Live /\ h \in Handlers /\ timers[h].clientData = o /\ Live \subseteq Handlers
    BY <1>0, <1>1, Typed DEF Books
<1>3. /\ timers' \in [Handlers -> [when : Nat, nextDelay : Nat, clientData : Owners]]
      /\ \A g \in Handlers : /\ timers'[g].when = timers[g].when
                             /\ timers'[g].clientData = timers[g].clientData
                             /\ timers'[g].nextDelay = IF g = h THEN 0 ELSE timers[g].nextDelay
    BY <1>0, <1>1, <1>2 DEF TypeOK
<1>4. \A p \in Owners : timerID'[p] = IF p = o THEN NoHandler ELSE timerID[p]
    BY <1>1 DEF TypeOK
<1>5. /\ queue' \in Seq(Handlers)
      /\ Live' = IF Fired(h) THEN Live ELSE Live \ {h}
      /\ \A f, g \in Live' : Before(queue', f, g) => Before(queue, f, g)
    <2>1. CASE Fired(h)
        BY <1>1, <2>1 DEF TypeOK, Live
    <2>2. CASE ~Fired(h)
        <3>1. queue' = RemoveFirst(queue, h) /\ queue \in Seq(Handlers) /\ h \in Range(queue)
              /\ \A g \in Range(queue) : ~Before(queue, g, g)
            BY <1>1, <1>2, <2>2 DEF TypeOK, Live, Sorted
        <3>2. queue' \in Seq(Handlers) /\ Range(queue') = Range(queue) \ {h}
              /\ \A f, g : Before(queue', f, g) => Before(queue, f, g)
            BY ONLY <3>1, RemoveFromQueue
        <3> QED BY <2>2, <3>2 DEF Live
    <2> QED BY <2>1, <2>2
<1>6. Live' \subseteq Live
    BY <1>5
<1>7. Sorted(queue', timers')
    BY <1>2, <1>3, <1>5, <1>6 DEF Sorted, Live
<1>8. TypeOK'
    BY <1>1, <1>3, <1>5 DEF TypeOK, Times
<1>9. ~Owned(h)' /\ \A g \in Live : g # h => (Owned(g)' <=> Owned(g))
    <2>1. \A g \in Live : timers[g].clientData \in Owners /\ g # NoHandler
        BY <1>2, Typed
    <2> QED BY <1>0, <1>2, <1>3, <1>4, <2>1 DEF Owned
<1>10. Books'
    <2>1. ASSUME NEW p \in Owners, timerID'[p] # NoHandler
          PROVE  timerID'[p] \in Live' /\ timers'[timerID'[p]].clientData = p
        <3>1. p # o /\ timerID'[p] = timerID[p]
            BY <1>4, <2>1
        <3>2. timerID[p] \in Live /\ timers[timerID[p]].clientData = p
            BY <2>1, <3>1 DEF Books
        <3>3. timerID[p] # h
            BY <1>2, <3>1, <3>2
        <3> QED BY <1>2, <1>3, <1>5, <3>1, <3>2, <3>3
    <2>2. \A g \in Live' : ~Owned(g)' => Fired(g)' /\ timers'[g].nextDelay = 0
        BY <1>2, <1>3, <1>5, <1>9 DEF Books, Fired
    <2>3. \A g \in Live' :
            IF timers'[g].clientData \in Persistent THEN Owned(g)' => timers'[g].nextDelay > 0
            ELSE timers'[g].nextDelay = 0 /\ (Owned(g)' => ~Fired(g)')
        BY <1>2, <1>3, <1>6, <1>9 DEF Books, Fired
    <2> QED BY <2>1, <2>2, <2>3 DEF Books
<1>11. Walk'
    <2>1. \A g \in Live : Fired(g)' <=> Fired(g)
        BY <1>2, <1>3 DEF Fired
    <2>2. CASE At("event")
        BY <1>1, <1>6, <2>1, <2>2 DEF Walk, At
    <2>3. CASE At("callback")
        <3>1. loop.handler \in Live' /\ loop' = loop
            BY <1>1, <1>5, <2>3 DEF Walk
        <3> QED BY <1>5, <1>6, <2>1, <2>3, <3>1 DEF Walk, At
    <2> QED BY <1>1, <2>2, <2>3
<1> QED BY <1>7, <1>8, <1>10, <1>11

\* A timer fires: its callback begins.
LEMMA CallStep ==
    ASSUME IInv, Call
    PROVE  IInv' /\ Owned(loop.handler)
<1> USE DEF IInv
<1>0. PICK h, o : h = loop.handler /\ o = timers[h].clientData
    OBVIOUS
<1>1. /\ At("walk") /\ h # NoHandler /\ ~Fired(h)
      /\ timerID' = IF o \in Persistent THEN timerID ELSE [timerID EXCEPT ![o] = NoHandler]
      /\ timers' = [timers EXCEPT ![h].when = 0]
      /\ loop' = [loop EXCEPT !.pc = "callback"]
      /\ queue' = queue /\ clock' = clock /\ pending' = pending
    BY <1>0 DEF Call, Due, Goto
<1>2. /\ h \in Live /\ h \in Handlers /\ Live \subseteq Handlers /\ Live' = Live
      /\ \A g \in Live : Before(queue, g, h) => Fired(g)
      /\ o \in Owners
    BY <1>0, <1>1, Typed DEF Walk, Live
<1>3. Owned(h)
    BY <1>1, <1>2 DEF Books
<1>4. /\ timers' \in [Handlers -> [when : Nat, nextDelay : Nat, clientData : Owners]]
      /\ \A g \in Handlers : /\ timers'[g].when = IF g = h THEN 0 ELSE timers[g].when
                             /\ timers'[g].clientData = timers[g].clientData
                             /\ timers'[g].nextDelay = timers[g].nextDelay
    BY <1>1, <1>2 DEF TypeOK
<1>5. \A p \in Owners : timerID'[p] = IF p = o /\ o \notin Persistent THEN NoHandler ELSE timerID[p]
    BY <1>1 DEF TypeOK
<1>6. /\ loop'.pc = "callback" /\ loop'.handler = h /\ loop'.now = loop.now
      /\ loop' \in [pc : {"event", "check", "walk", "callback", "sweep", "top", "block"},
                    now : Times, handler : Handlers \cup {NoHandler}]
    BY <1>0, <1>1 DEF TypeOK
<1>7. TypeOK'
    BY <1>1, <1>2, <1>4, <1>5, <1>6 DEF TypeOK, Times
<1>8. \A g \in Live : timers[g].when \in Nat
    BY <1>2, Typed
<1>9. Sorted(queue', timers')
    BY <1>1, <1>2, <1>4, <1>8 DEF Sorted, Live, Fired
<1>10. /\ timerID[o] = h
       /\ \A g \in Live : g # h => (Owned(g)' <=> Owned(g))
       /\ Owned(h)' <=> o \in Persistent
    <2>1. timerID[o] = h /\ \A g \in Live : timers[g].clientData \in Owners /\ g # NoHandler
        BY <1>0, <1>2, <1>3, Typed DEF Owned
    <2> QED BY <1>0, <1>2, <1>4, <1>5, <2>1 DEF Owned
<1>11. Books'
    <2>1. ASSUME NEW p \in Owners, timerID'[p] # NoHandler
          PROVE  timerID'[p] \in Live' /\ timers'[timerID'[p]].clientData = p
        BY <1>2, <1>4, <1>5, <2>1 DEF Books
    <2>2. \A g \in Live' : ~Owned(g)' => Fired(g)' /\ timers'[g].nextDelay = 0
        BY <1>0, <1>2, <1>4, <1>10 DEF Books, Fired
    <2>3. \A g \in Live' :
            IF timers'[g].clientData \in Persistent THEN Owned(g)' => timers'[g].nextDelay > 0
            ELSE timers'[g].nextDelay = 0 /\ (Owned(g)' => ~Fired(g)')
        BY <1>0, <1>2, <1>3, <1>4, <1>10 DEF Books, Fired
    <2> QED BY <2>1, <2>2, <2>3 DEF Books
<1>12. Walk'
    <2>1. Fired(h)' /\ \A g \in Live : g # h => (Fired(g)' <=> Fired(g))
        BY <1>2, <1>4 DEF Fired
    <2>2. \A g \in Live : Before(queue, h, g) => g # h /\ ~Fired(g)
        BY <1>1, <1>2, <1>8 DEF Sorted, Live, Fired
    <2> QED BY <1>1, <1>2, <1>6, <2>1, <2>2 DEF Walk, At
<1> QED BY <1>0, <1>3, <1>7, <1>9, <1>11, <1>12

\* The callback returns, and the walk goes on to the next handler.
LEMMA CallbackReturnStep ==
    ASSUME IInv, CallbackReturn
    PROVE  IInv'
<1> USE DEF IInv
<1>0. PICK h, n : h = loop.handler /\ n = NextOf(queue, h)
    OBVIOUS
<1>1. /\ At("callback")
      /\ loop' = [loop EXCEPT !.pc = "walk", !.handler = n]
      /\ UNCHANGED <<queue, timers, timerID, pending, clock>>
    BY <1>0 DEF CallbackReturn
<1>2. /\ h \in Live /\ Fired(h) /\ Live \subseteq Handlers
      /\ \A g \in Live : Before(queue, h, g) => ~Fired(g)
    BY <1>0, <1>1, Typed DEF Walk
<1>3. queue \in Seq(Handlers) /\ \A g \in Live : ~Before(queue, g, g)
    BY DEF TypeOK, Sorted, Live
<1>4. \/ n = NoHandler /\ \A g : ~Before(queue, h, g)
      \/ /\ n \in Live
         /\ n \in Handlers
         /\ Before(queue, h, n)
         /\ \A g : Before(queue, g, n) => g = h \/ Before(queue, g, h)
    BY <1>2, <1>3, <1>0, NextInQueue DEF Live
<1>5. \A g \in Live : g = h \/ Before(queue, g, h) \/ Before(queue, h, g)
    BY <1>2, <1>3, QueueIsTotal DEF Live
<1>6. \A g \in Live : Before(queue, g, h) => Fired(g)
    <2>1. \A g \in Live : timers[g].when \in Nat
        BY <1>2, Typed
    <2> QED BY <1>2, <2>1 DEF Sorted, Fired, Live
<1>7. /\ loop'.pc = "walk" /\ loop'.handler = n
      /\ loop' \in [pc : {"event", "check", "walk", "callback", "sweep", "top", "block"},
                    now : Times, handler : Handlers \cup {NoHandler}]
    BY <1>1, <1>4 DEF TypeOK
<1>8. TypeOK'
    BY <1>1, <1>7 DEF TypeOK, Times
<1>9. Sorted(queue, timers)' /\ Books' /\ Live' = Live /\ (\A g : Fired(g)' <=> Fired(g))
    BY <1>1 DEF Sorted, Books, Owned, Fired, Live
<1>10. Walk'
    <2>1. CASE n = NoHandler /\ \A g : ~Before(queue, h, g)
        <3>1. \A g \in Live : Fired(g)
            BY <1>2, <1>5, <1>6, <2>1
        <3> QED BY <1>7, <1>9, <2>1, <3>1 DEF Walk, At
    <2>2. CASE /\ n \in Live
               /\ n \in Handlers
               /\ Before(queue, h, n)
               /\ \A g : Before(queue, g, n) => g = h \/ Before(queue, g, h)
        <3>1. n # NoHandler /\ ~Fired(n) /\ \A g \in Live : Before(queue, g, n) => Fired(g)
            BY <1>2, <1>6, <2>2, TimersAssumption
        <3> QED BY <1>1, <1>7, <1>9, <2>2, <3>1 DEF Walk, At
    <2> QED BY <1>4, <2>1, <2>2
<1> QED BY <1>8, <1>9, <1>10

\* Where WMNextEvent is, when only that changes.
LEMMA LoopMoves ==
    ASSUME IInv, UNCHANGED <<queue, timers, timerID, pending, clock>>,
           loop'.pc \in {"event", "check", "walk", "callback", "sweep", "top", "block"},
           loop' \in [pc : {"event", "check", "walk", "callback", "sweep", "top", "block"},
                      now : Times, handler : Handlers \cup {NoHandler}]
    PROVE  /\ TypeOK' /\ Sorted(queue, timers)' /\ Books'
           /\ Live' = Live /\ (\A g : Fired(g)' <=> Fired(g))
BY DEF IInv, TypeOK, Times, Sorted, Books, Owned, Fired, Live

\* The walk begins at the head.
LEMMA CheckStep ==
    ASSUME IInv, Check
    PROVE  IInv'
<1> USE DEF IInv
<1>1. /\ At("check")
      /\ loop' = IF queue = <<>> THEN [loop EXCEPT !.pc = "top"]
                 ELSE [loop EXCEPT !.pc = "walk", !.now = clock, !.handler = Head(queue)]
      /\ UNCHANGED <<queue, timers, timerID, pending, clock>>
      /\ \A g \in Live : ~Fired(g)
    BY DEF Check, Walk
<1>2. queue \in Seq(Handlers) /\ \A g \in Range(queue) : ~Before(queue, g, g)
    BY DEF TypeOK, Sorted
<1>3. queue # <<>> => Head(queue) \in Live /\ Head(queue) \in Handlers /\ \A g : ~Before(queue, g, Head(queue))
    BY <1>2, QueueIsTotal, Typed DEF Live
<1>4. CASE queue = <<>>
    <2>1. /\ loop'.pc = "top"
          /\ loop' \in [pc : {"event", "check", "walk", "callback", "sweep", "top", "block"},
                        now : Times, handler : Handlers \cup {NoHandler}]
        BY <1>1, <1>4 DEF TypeOK
    <2>2. /\ TypeOK' /\ Sorted(queue, timers)' /\ Books'
          /\ Live' = Live /\ (\A g : Fired(g)' <=> Fired(g))
        BY <1>1, <2>1, LoopMoves
    <2>3. Walk'
        BY <1>1, <2>1, <2>2 DEF Walk, At
    <2> QED BY <2>2, <2>3
<1>5. CASE queue # <<>>
    <2>1. /\ loop'.pc = "walk" /\ loop'.handler = Head(queue)
          /\ loop' \in [pc : {"event", "check", "walk", "callback", "sweep", "top", "block"},
                        now : Times, handler : Handlers \cup {NoHandler}]
        <3>1. clock \in Times
            BY Typed
        <3> QED BY <1>1, <1>3, <1>5, <3>1 DEF TypeOK
    <2>2. /\ TypeOK' /\ Sorted(queue, timers)' /\ Books'
          /\ Live' = Live /\ (\A g : Fired(g)' <=> Fired(g))
        BY <1>1, <2>1, LoopMoves
    <2>3. Walk'
        BY <1>1, <1>3, <1>5, <2>1, <2>2, TimersAssumption DEF Walk, At
    <2> QED BY <2>2, <2>3
<1> QED BY <1>4, <1>5

\* The walk ends at the first that is not due.
LEMMA WalkEndsStep ==
    ASSUME IInv, WalkEnds
    PROVE  IInv'
<1> USE DEF IInv
<1>0. PICK h : h = loop.handler
    OBVIOUS
<1>1. /\ At("walk") /\ (h = NoHandler \/ ~(loop.now > timers[h].when))
      /\ loop' = [loop EXCEPT !.pc = "sweep"]
      /\ UNCHANGED <<queue, timers, timerID, pending, clock>>
    BY <1>0 DEF WalkEnds, Due, Goto
<1>2. \A g \in Live : Fired(g) \/ timers[g].when >= loop.now
    <2>1. CASE h = NoHandler
        BY <1>0, <1>1, <2>1 DEF Walk
    <2>2. CASE h # NoHandler
        <3>1. h \in Live /\ \A g \in Live : Before(queue, g, h) => Fired(g)
            BY <1>0, <1>1, <2>2 DEF Walk
        <3>2. loop.now \in Nat /\ \A g \in Live : timers[g].when \in Nat
            BY Typed
        <3>3. timers[h].when >= loop.now
            BY <1>1, <2>2, <3>1, <3>2
        <3>4. ASSUME NEW g \in Live, ~Fired(g) PROVE timers[g].when >= loop.now
            <4>1. CASE g = h
                BY <3>3, <4>1
            <4>2. CASE g # h
                <5>1. Before(queue, h, g)
                    BY <3>1, <3>4, <4>2, QueueIsTotal DEF TypeOK, Sorted, Live
                <5>2. timers[h].when <= timers[g].when
                    BY <3>1, <5>1 DEF Sorted, Live
                <5> QED BY <3>1, <3>2, <3>3, <5>2
            <4> QED BY <4>1, <4>2
        <3> QED BY <3>4
    <2> QED BY <2>1, <2>2
<1>3. /\ loop'.pc = "sweep" /\ loop'.now = loop.now
      /\ loop' \in [pc : {"event", "check", "walk", "callback", "sweep", "top", "block"},
                    now : Times, handler : Handlers \cup {NoHandler}]
    BY <1>1 DEF TypeOK
<1>4. /\ TypeOK' /\ Sorted(queue, timers)' /\ Books'
      /\ Live' = Live /\ (\A g : Fired(g)' <=> Fired(g))
    BY <1>1, <1>3, LoopMoves
<1>5. Walk'
    BY <1>1, <1>2, <1>3, <1>4 DEF Walk, At
<1> QED BY <1>4, <1>5

\* What the sweep takes from the head of the queue.
LEMMA SweptHead ==
    ASSUME IInv, At("sweep"), HeadFired
    PROVE  /\ queue # <<>>
           /\ Head(queue) \in Live /\ Head(queue) \in Handlers
           /\ Fired(Head(queue))
           /\ Tail(queue) \in Seq(Handlers)
           /\ Range(Tail(queue)) = Live \ {Head(queue)}
           /\ \A g, h : Before(Tail(queue), g, h) => Before(queue, g, h)
<1>1. queue # <<>> /\ Fired(Head(queue))
    BY DEF HeadFired
<1>2. queue \in Seq(Handlers) /\ \A g \in Range(queue) : ~Before(queue, g, g)
    BY DEF IInv, TypeOK, Sorted
<1>3. Head(queue) \in Live /\ Head(queue) \in Handlers
    BY <1>1, <1>2, QueueIsTotal, Typed DEF IInv, Live
<1> QED BY <1>1, <1>2, <1>3, TailOfQueue DEF Live

\* A persistent timer waits for another time.
LEMMA RequeueStep ==
    ASSUME IInv, Requeue
    PROVE  IInv'
<1> USE DEF IInv
<1>0. PICK h : h = Head(queue)
    OBVIOUS
<1>1. /\ At("sweep") /\ HeadFired /\ timers[h].nextDelay > 0
      /\ timers' = [timers EXCEPT ![h].when = loop.now + timers[h].nextDelay]
      /\ queue' = Enqueue(Tail(queue), timers', h)
      /\ timerID' = timerID /\ pending' = pending /\ clock' = clock /\ loop' = loop
    BY <1>0 DEF Requeue
<1>2. /\ h \in Live /\ h \in Handlers /\ Live \subseteq Handlers
      /\ Tail(queue) \in Seq(Handlers)
      /\ Range(Tail(queue)) = Live \ {h}
      /\ \A f, g : Before(Tail(queue), f, g) => Before(queue, f, g)
    BY <1>0, <1>1, SweptHead, Typed
<1>3. PICK m \in Nat : /\ m = loop.now + timers[h].nextDelay
                       /\ m > 0 /\ m >= loop.now
    <2>1. loop.now \in Nat /\ timers[h].nextDelay \in Nat
        BY <1>2, Typed
    <2> QED BY <1>1, <2>1
<1>4. /\ timers' \in [Handlers -> [when : Nat, nextDelay : Nat, clientData : Owners]]
      /\ \A g \in Handlers :
            /\ timers'[g].when = IF g = h THEN m ELSE timers[g].when
            /\ timers'[g].clientData = timers[g].clientData
            /\ timers'[g].nextDelay = timers[g].nextDelay
    BY <1>1, <1>2, <1>3 DEF TypeOK
<1>5. /\ queue' \in Seq(Handlers)
      /\ Live' = Live
      /\ Sorted(queue', timers')
    <2>1. PICK q, t : q = Tail(queue) /\ t = timers'
        OBVIOUS
    <2>2. q \in Seq(Handlers) /\ h \notin Range(q) /\ (\A g \in Handlers : t[g].when \in Nat)
          /\ queue' = Enqueue(q, t, h) /\ Range(q) = Live \ {h}
        BY <1>1, <1>2, <1>4, <2>1
    <2>3. Sorted(q, t)
        BY <1>2, <1>4, <2>1, <2>2 DEF Sorted, Live
    <2>4. queue' \in Seq(Handlers) /\ Range(queue') = Range(q) \cup {h} /\ Sorted(queue', t)
        <3>1. h \in Handlers
            BY <1>2
        <3> QED BY ONLY <2>2, <2>3, <3>1, EnqueueInQueue
    <2> QED BY <1>2, <2>1, <2>2, <2>4 DEF Live
<1>6. \A g \in Live : Owned(g)' <=> Owned(g)
    BY <1>1, <1>2, <1>4 DEF Owned
<1>7. TypeOK'
    BY <1>1, <1>4, <1>5 DEF TypeOK, Times
<1>8. ~Fired(h)' /\ Owned(h)
    <2>1. Owned(h)
        BY <1>1, <1>2, <1>3 DEF Books
    <2> QED BY <1>1, <1>2, <1>3, <1>4, <2>1 DEF Fired
<1>9. Books'
    <2>1. \A p \in Owners :
            timerID'[p] # NoHandler => timerID'[p] \in Live' /\ timers'[timerID'[p]].clientData = p
        BY <1>1, <1>2, <1>4, <1>5 DEF Books
    <2>2. \A g \in Live' : ~Owned(g)' => Fired(g)' /\ timers'[g].nextDelay = 0
        BY <1>2, <1>4, <1>5, <1>6, <1>8 DEF Books, Fired
    <2>3. \A g \in Live' :
            IF timers'[g].clientData \in Persistent THEN Owned(g)' => timers'[g].nextDelay > 0
            ELSE timers'[g].nextDelay = 0 /\ (Owned(g)' => ~Fired(g)')
        BY <1>2, <1>4, <1>5, <1>6, <1>8 DEF Books, Fired
    <2> QED BY <2>1, <2>2, <2>3 DEF Books
<1>10. Walk'
    <2>1. \A g \in Live : Fired(g) \/ timers[g].when >= loop.now
        BY <1>1 DEF Walk
    <2>2. \A g \in Live' : Fired(g)' \/ timers'[g].when >= loop.now
        BY <1>2, <1>3, <1>4, <1>5, <2>1 DEF Fired
    <2> QED BY <1>1, <2>2 DEF Walk, At
<1> QED BY <1>5, <1>7, <1>9, <1>10

\* One that is not persistent, or was stopped, is freed.
LEMMA FreeStep ==
    ASSUME IInv, Free
    PROVE  IInv'
<1> USE DEF IInv
<1>0. PICK h : h = Head(queue)
    OBVIOUS
<1>1. /\ At("sweep") /\ HeadFired /\ timers[h].nextDelay = 0
      /\ queue' = Tail(queue)
      /\ UNCHANGED <<timers, timerID, pending, clock, loop>>
    BY <1>0 DEF Free
<1>2. /\ h \in Live /\ h \in Handlers /\ Fired(h)
      /\ queue' \in Seq(Handlers)
      /\ Live' = Live \ {h}
      /\ \A f, g : Before(queue', f, g) => Before(queue, f, g)
    BY <1>0, <1>1, SweptHead DEF Live
<1>3. TypeOK'
    BY <1>1, <1>2 DEF TypeOK, Times
<1>4. Sorted(queue, timers)'
    BY <1>1, <1>2 DEF Sorted, Live
<1>5. (\A g : Fired(g)' <=> Fired(g)) /\ (\A g : Owned(g)' <=> Owned(g))
    BY <1>1 DEF Fired, Owned
<1>6. ~Owned(h)
    BY <1>1, <1>2 DEF Books
<1>7. Books'
    <2>1. ASSUME NEW p \in Owners, timerID[p] # NoHandler
          PROVE  timerID[p] \in Live' /\ timers[timerID[p]].clientData = p
        BY <1>2, <1>6, <2>1 DEF Books, Owned
    <2> QED BY <1>1, <1>2, <1>5, <2>1 DEF Books
<1>8. Walk'
    BY <1>1, <1>2, <1>5 DEF Walk, At
<1> QED BY <1>3, <1>4, <1>7, <1>8

\* What is left when the sweep is over.
LEMMA SweptQueue ==
    ASSUME IInv, SweepEnds
    PROVE  \A g \in Live : /\ ~Fired(g)
                           /\ timers[g].when >= loop.now
                           /\ Owned(g)
<1> USE DEF IInv
<1>1. At("sweep") /\ (queue = <<>> \/ ~Fired(Head(queue)))
    BY DEF SweepEnds, HeadFired
<1>2. ASSUME NEW g \in Live PROVE ~Fired(g)
    <2>1. queue \in Seq(Handlers) /\ queue # <<>> /\ g \in Range(queue)
        BY DEF TypeOK, Live, Range
    <2>2. Head(queue) \in Range(queue) /\ (g = Head(queue) \/ Before(queue, Head(queue), g))
        BY <2>1, QueueIsTotal DEF Sorted
    <2>3. timers[Head(queue)].when \in Nat /\ timers[g].when \in Nat
        BY <2>2, Typed DEF Live
    <2>4. g # Head(queue) => timers[Head(queue)].when <= timers[g].when
        BY <2>1, <2>2 DEF Sorted
    <2> QED BY <1>1, <2>1, <2>3, <2>4 DEF Fired
<1> QED BY <1>1, <1>2 DEF Walk, Books

\* The sweep ends.
LEMMA SweepEndsStep ==
    ASSUME IInv, SweepEnds
    PROVE  IInv'
<1> USE DEF IInv
<1>1. /\ loop' = [loop EXCEPT !.pc = "top"]
      /\ UNCHANGED <<queue, timers, timerID, pending, clock>>
    BY DEF SweepEnds, Goto
<1>2. /\ loop'.pc = "top"
      /\ loop' \in [pc : {"event", "check", "walk", "callback", "sweep", "top", "block"},
                    now : Times, handler : Handlers \cup {NoHandler}]
    BY <1>1 DEF TypeOK
<1>3. /\ TypeOK' /\ Sorted(queue, timers)' /\ Books'
      /\ Live' = Live /\ (\A g : Fired(g)' <=> Fired(g))
    BY <1>1, <1>2, LoopMoves
<1>4. Walk'
    BY <1>2, <1>3, SweptQueue DEF Walk, At
<1> QED BY <1>3, <1>4

\* WMNextEvent waits or returns, an event comes, time goes on: no handler moves.
LEMMA WaitingStep ==
    ASSUME IInv, EventReturn \/ Top \/ Unblock \/ Tick \/ Arrive
    PROVE  IInv'
<1> USE DEF IInv
<1>1. /\ UNCHANGED <<queue, timers, timerID>>
      /\ pending' \in BOOLEAN
      /\ clock' \in 1 .. MaxTime
    <2>1. clock + 1 \in 1 .. MaxTime \/ ~(clock < MaxTime)
        BY TimersAssumption DEF TypeOK
    <2> QED BY <2>1 DEF EventReturn, Top, Unblock, Tick, Arrive, TypeOK
<1>2. \/ loop' = loop
      \/ /\ At("event") \/ At("top") \/ At("block")
         /\ \E pc \in {"check", "event", "block"} : loop' = [loop EXCEPT !.pc = pc]
    BY DEF EventReturn, Top, Unblock, Tick, Arrive, Goto
<1>3. /\ Sorted(queue, timers)' /\ Books' /\ Live' = Live
      /\ \A g : Fired(g)' <=> Fired(g)
    BY <1>1 DEF Sorted, Books, Owned, Fired, Live
<1>4. CASE loop' = loop
    <2>1. TypeOK'
        BY <1>1, <1>4 DEF TypeOK, Times
    <2>2. Walk'
        BY <1>1, <1>3, <1>4 DEF Walk, At
    <2> QED BY <1>3, <2>1, <2>2
<1>5. CASE /\ At("event") \/ At("top") \/ At("block")
           /\ \E pc \in {"check", "event", "block"} : loop' = [loop EXCEPT !.pc = pc]
    <2>1. /\ loop'.pc \in {"check", "event", "block"}
          /\ loop' \in [pc : {"event", "check", "walk", "callback", "sweep", "top", "block"},
                        now : Times, handler : Handlers \cup {NoHandler}]
        BY <1>5 DEF TypeOK
    <2>2. TypeOK'
        BY <1>1, <2>1 DEF TypeOK, Times
    <2>3. \A g \in Live : ~Fired(g)
        BY <1>5 DEF Walk
    <2>4. Walk'
        BY <1>3, <2>1, <2>3 DEF Walk, At
    <2> QED BY <1>3, <2>2, <2>4
<1> QED BY <1>2, <1>4, <1>5

-----------------------------------------------------------------------------
(* The theorems. *)

LEMMA NextStep == IInv /\ [Next]_vars => IInv'
<1> SUFFICES ASSUME IInv, [Next]_vars PROVE IInv'
    OBVIOUS
<1>1. CASE Client
    BY <1>1, StartTimerStep, StopTimerStep DEF Client
<1>2. CASE Loop
    BY <1>2, CheckStep, CallStep, CallbackReturnStep, WalkEndsStep, RequeueStep, FreeStep,
       SweepEndsStep, WaitingStep DEF Loop
<1>3. CASE Tick \/ Arrive
    BY <1>3, WaitingStep
<1>4. CASE UNCHANGED vars
    BY <1>4 DEF vars, IInv, TypeOK, Times, Sorted, Books, Owned, Fired, Live, Walk, At
<1> QED BY <1>1, <1>2, <1>3, <1>4 DEF Next

\* The queue, what the owners know of it and how far W_CheckTimerHandlers has got
\* always agree.
THEOREM Invariance == Spec => []IInv
<1>1. Init => IInv
    BY InitIInv
<1>2. IInv /\ [Next]_vars => IInv'
    BY NextStep
<1> QED BY <1>1, <1>2, PTL DEF Spec

\* Whatever callbacks start and stop, the queue stays sorted, and neither an owner
\* nor W_CheckTimerHandlers has the address of a handler that was freed.
THEOREM QueueStaysSound == Spec => []QueueIsSound
<1>1. IInv => QueueIsSound
    <2> SUFFICES ASSUME IInv PROVE QueueIsSound
        OBVIOUS
    <2>1. SoonestFirst
        BY SortedIsSoonestFirst DEF IInv, TypeOK
    <2>2. NoDangling
        BY DEF IInv, NoDangling, Books, Walk
    <2> QED BY <2>1, <2>2 DEF IInv, QueueIsSound
<1> QED BY <1>1, Invariance, PTL

\* A stopped timer does not fire; what was due when W_CheckTimerHandlers began is
\* gone from the queue when it ends.
THEOREM WalksAreExact == Spec => WalkIsExact
<1> DEFINE Exact ==
    /\ At("walk") /\ At("callback")'
            => timerID[timers[loop.handler].clientData] = loop.handler
    /\ At("sweep") /\ At("top")' => \A h \in Live' :
            /\ timers'[h].when >= loop.now
            /\ timerID'[timers'[h].clientData] = h
<1>1. IInv /\ [Next]_vars => [Exact]_vars
    <2> SUFFICES ASSUME IInv, Next PROVE Exact
        OBVIOUS
    <2>1. ASSUME At("walk"), At("callback")'
          PROVE  timerID[timers[loop.handler].clientData] = loop.handler
        <3>1. Call
            BY <2>1 DEF Next, Client, StartTimer, StopTimer, InClient, Loop, EventReturn, Check,
               CallbackReturn, WalkEnds, Requeue, Free, SweepEnds, Top, Unblock, Tick, Arrive, Goto, At, IInv, TypeOK
        <3> QED BY <3>1, CallStep DEF Owned
    <2>2. ASSUME At("sweep"), At("top")'
          PROVE  \A h \in Live' : /\ timers'[h].when >= loop.now
                                  /\ timerID'[timers'[h].clientData] = h
        <3>1. SweepEnds
            BY <2>2 DEF Next, Client, StartTimer, StopTimer, InClient, Loop, EventReturn, Check, Call,
               CallbackReturn, WalkEnds, Requeue, Free, Top, Unblock, Tick, Arrive, Goto, At, IInv, TypeOK
        <3>2. UNCHANGED <<queue, timers, timerID>>
            BY <3>1 DEF SweepEnds
        <3> QED BY <3>1, <3>2, SweptQueue DEF Owned, Live
    <2> QED BY <2>1, <2>2
<1> QED BY <1>1, Invariance, PTL DEF Spec, WalkIsExact

=============================================================================
